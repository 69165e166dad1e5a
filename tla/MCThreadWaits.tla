----------------------------- MODULE MCThreadWaits -----------------------------
(***************************************************************************)
(* Client threads with priorities: all but the first are equal, so they,   *)
(* like servers, sessions and addresses, are interchangeable.              *)
(***************************************************************************)
EXTENDS ThreadWaits, TLC

CONSTANTS c1, c2, c3

MCPriority == (c1 :> 1) @@ (c2 :> 2) @@ (c3 :> 2)

MCSymmetry == Permutations({c2, c3}) \cup Permutations(Servers)
                \cup Permutations(Sessions) \cup Permutations(Addresses)
=============================================================================
