--------------------------- MODULE ThreadWaits_proofs ---------------------------
(***************************************************************************)
(* For any threads, sessions and addresses: a request of a session is that *)
(* of a thread that waits for it, and the port counts its sessions.  The   *)
(* arbiter resumes the threads that it lists; that these are in WaitArb is *)
(* assumed where it matters, and model-checked.                            *)
(***************************************************************************)
EXTENDS ThreadWaits, FiniteSetTheorems, TLAPS

Statuses == {"run", "ipc", "sync", "arb", "dead"}

Types ==
    /\ status \in [Threads -> Statuses] /\ wakeup \subseteq Threads
    /\ client \subseteq Sessions /\ handle \subseteq Sessions
    /\ pending_sessions \in Seq(Sessions)
    /\ pending \in [Sessions -> Seq(Clients)]
    /\ handling \in [Sessions -> Clients \cup {None}]
    /\ wait_objects \in [Servers -> SUBSET (Sessions \cup {Port})]
    /\ asked \in [Clients -> Sessions \cup {Port}]

\* A wakeup event of a thread in WaitIPC is that of an HLE request: it is not the remainder of
\* an earlier wait, because SwitchContext has cancelled that.
WakeupOfHle == \A t \in Clients : t \in wakeup /\ status[t] = "ipc" => asked[t] = Port

\* A session whose client endpoint is closed handles no request.
ClosedIsIdle == \A s \in Sessions \ client : handling[s] = None

IInv == Types /\ WakeupOfHle /\ ClosedIsIdle /\ RequestersWait

\* What an invariant needs to know of the last request that Acquire takes.
LEMMA LastPopped ==
    ASSUME NEW S, NEW q \in Seq(S), q # <<>>
    PROVE  /\ Len(q) \in Nat /\ Len(q) >= 1 /\ q[Len(q)] \in S
           /\ SubSeq(q, 1, Len(q) - 1) \in Seq(S)
           /\ Len(SubSeq(q, 1, Len(q) - 1)) = Len(q) - 1
           /\ \A i \in 1..Len(q) - 1 : SubSeq(q, 1, Len(q) - 1)[i] = q[i]
  <1>1. Len(q) \in Nat /\ Len(q) >= 1 /\ q[Len(q)] \in S OBVIOUS
  <1>2. SubSeq(q, 1, Len(q) - 1) \in Seq(S) BY <1>1
  <1>3. Len(SubSeq(q, 1, Len(q) - 1)) = Len(q) - 1
    <2>1. \A n \in Nat : n <= Len(q) => Len(SubSeq(q, 1, n)) = n OBVIOUS
    <2>2. Len(q) - 1 \in Nat /\ Len(q) - 1 <= Len(q) BY <1>1
    <2> QED BY <2>1, <2>2, Zenon
  <1>4. \A i \in 1..Len(q) - 1 : SubSeq(q, 1, Len(q) - 1)[i] = q[i] BY <1>1
  <1> QED BY <1>1, <1>2, <1>3, <1>4

\* ResumeFromWait makes the given threads ready, unless they are dead, and no other.
LEMMA Resumed ==
    ASSUME status \in [Threads -> Statuses], NEW S
    PROVE  /\ ResumeFromWait(S) \in [Threads -> Statuses]
           /\ \A u \in Threads \ S : ResumeFromWait(S)[u] = status[u]
           /\ \A u \in Threads : status[u] = "dead" => ResumeFromWait(S)[u] = "dead"
  BY DEF ResumeFromWait, Statuses

\* Accepting after Connect and AcceptSession, the two that change pending_sessions.
LEMMA AcceptingGrows ==
    ASSUME NEW s \in Sessions, pending_sessions \in Seq(Sessions),
           pending_sessions' = Append(pending_sessions, s)
    PROVE  Accepting' = Accepting \cup {s}
  BY DEF Accepting

LEMMA AcceptingShrinks ==
    ASSUME pending_sessions \in Seq(Sessions), pending_sessions # <<>>,
           pending_sessions' = SubSeq(pending_sessions, 1, Len(pending_sessions) - 1)
    PROVE  /\ Accepting' \subseteq Accepting
           /\ pending_sessions[Len(pending_sessions)] \in Accepting
  <1>1. /\ Len(pending_sessions') = Len(pending_sessions) - 1
        /\ Len(pending_sessions) >= 1 /\ Len(pending_sessions) \in Nat
        /\ \A i \in 1..Len(pending_sessions) - 1 : pending_sessions'[i] = pending_sessions[i]
        /\ DOMAIN pending_sessions = 1..Len(pending_sessions)
        /\ DOMAIN pending_sessions' = 1..Len(pending_sessions) - 1
    BY LastPopped
  <1> QED BY <1>1 DEF Accepting

\* A step that leaves the requests and the asking threads' statuses alone preserves RequestersWait.
LEMMA QuietStep ==
    ASSUME IInv, Types', WakeupOfHle', ClosedIsIdle',
           UNCHANGED <<pending, handling, asked>>,
           \A s \in Sessions : s \in client' /\ Exists(s)' => s \in client /\ Exists(s),
           \A t \in Clients : status[t] \in {"ipc", "dead"} /\ asked[t] # Port =>
                              status'[t] \in {"ipc", "dead"}
    PROVE  IInv'
  <1> SUFFICES RequestersWait' BY DEF IInv
  <1> SUFFICES ASSUME NEW s \in client', Exists(s)'
               PROVE  /\ \A t \in Requests(s)' \cup ({handling'[s]} \ {None}) :
                             status'[t] \in {"ipc", "dead"} /\ asked'[t] = s
                      /\ \A i, j \in DOMAIN pending'[s] : pending'[s][i] = pending'[s][j] => i = j
                      /\ handling'[s] \notin Requests(s)'
    BY DEF RequestersWait
  <1>1. s \in Sessions /\ s \in client /\ Exists(s) BY DEF Types
  <1>2. Requests(s)' = Requests(s) BY DEF Requests
  <1>3. Requests(s) \subseteq Clients /\ {handling[s]} \ {None} \subseteq Clients
    BY <1>1 DEF IInv, Types, Requests
  <1> QED BY <1>1, <1>2, <1>3, SessionsDistinct DEF IInv, RequestersWait

--------------------------------------------------------------------------------
\* The initial state satisfies the invariant.
LEMMA InitIInv == Init => IInv
  <1> SUFFICES ASSUME Init PROVE IInv OBVIOUS
  <1> USE DEF Init, ThreadsInit, SessionsInit
  <1>1. Types BY DEF Types, Statuses
  <1>2. WakeupOfHle BY DEF WakeupOfHle
  <1>3. RequestersWait BY DEF RequestersWait
  <1>4. ClosedIsIdle BY DEF ClosedIsIdle
  <1> QED BY <1>1, <1>2, <1>3, <1>4 DEF IInv

\* CreateSessionToPort starts a session without requests.
LEMMA ConnectStep ==
    ASSUME IInv, NEW t \in Clients, NEW s \in Sessions, NEW opened \in BOOLEAN, Connect(t, s, opened)
    PROVE  IInv'
  <1> USE SessionsDistinct DEF IInv
  <1>1. Accepting' = Accepting \cup {s} BY AcceptingGrows DEF Connect, Types
  <1>2. \A u \in Clients : status'[u] = status[u]
    BY DEF Connect, Types, ResumeFromWait, WaitingFor, Threads
  <1>3. Types'
    <2>1. status' \in [Threads -> Statuses] BY Resumed DEF Connect, Types
    <2> QED BY <2>1 DEF Connect, Types
  <1>4. WakeupOfHle' BY <1>2 DEF Connect, WakeupOfHle
  <1>5. \A x \in client' : Exists(x)' /\ x # s =>
            /\ x \in client /\ Exists(x) /\ pending'[x] = pending[x] /\ handling'[x] = handling[x]
    BY <1>1 DEF Connect, Exists, Types
  <1>6. pending'[s] = <<>> /\ handling'[s] = None BY DEF Connect, Types
  <1>7. \A x \in Sessions : Requests(x) \subseteq Clients /\ {handling[x]} \ {None} \subseteq Clients
    BY DEF Types, Requests
  <1>8. RequestersWait'
    <2> SUFFICES ASSUME NEW x \in client', Exists(x)'
                 PROVE  /\ \A u \in Requests(x)' \cup ({handling'[x]} \ {None}) :
                               status'[u] \in {"ipc", "dead"} /\ asked'[u] = x
                        /\ \A i, j \in DOMAIN pending'[x] : pending'[x][i] = pending'[x][j] => i = j
                        /\ handling'[x] \notin Requests(x)'
      BY DEF RequestersWait
    <2>1. CASE x = s BY <2>1, <1>6 DEF Requests
    <2>2. CASE x # s
      <3>1. Requests(x)' = Requests(x) /\ x \in client /\ Exists(x) /\ x \in Sessions
        BY <2>2, <1>5 DEF Requests, Types
      <3>2. asked' = asked BY DEF Connect
      <3> QED BY <2>2, <1>2, <1>5, <1>7, <3>1, <3>2 DEF RequestersWait
    <2> QED BY <2>1, <2>2
  <1>9. ClosedIsIdle' BY DEF Connect, ClosedIsIdle, Types
  <1> QED BY <1>3, <1>4, <1>8, <1>9

\* AcceptSession moves the last pending session to a handle.
LEMMA AcceptStep ==
    ASSUME IInv, NEW t \in Servers, NEW opened \in BOOLEAN, Accept(t, opened)
    PROVE  IInv'
  <1>1. /\ Accepting' \subseteq Accepting
        /\ pending_sessions[Len(pending_sessions)] \in Accepting
    BY AcceptingShrinks DEF IInv, Types, Accept
  <1>2. pending_sessions[Len(pending_sessions)] \in Sessions /\ pending_sessions' \in Seq(Sessions)
    BY LastPopped DEF IInv, Types, Accept
  <1>3. Types' BY <1>2 DEF IInv, Types, Accept, threadVars
  <1>4. WakeupOfHle' BY DEF IInv, WakeupOfHle, Accept, threadVars
  <1>5. \A s \in Sessions : s \in client' /\ Exists(s)' => s \in client /\ Exists(s)
    BY <1>1 DEF Accept, Exists
  <1>6. ClosedIsIdle' BY DEF IInv, ClosedIsIdle, Accept
  <1> QED BY <1>3, <1>4, <1>5, <1>6, QuietStep DEF Accept, threadVars

\* SendSyncRequest: the thread was running, so it had no request anywhere.
LEMMA SendStep ==
    ASSUME IInv, NEW t \in Clients, NEW s \in Sessions, NEW server \in Servers \cup {None},
           SendSyncRequest(t, s, server)
    PROVE  IInv'
  <1> USE SessionsDistinct DEF IInv
  <1>1. /\ status[t] = "run" /\ t \notin wakeup /\ s \in client /\ Exists(s) /\ t \in Threads
        /\ wakeup' = wakeup /\ client' = client /\ handle' = handle
        /\ asked' = [asked EXCEPT ![t] = s] /\ pending_sessions' = pending_sessions
    BY DEF SendSyncRequest, CanRun, Threads
  <1>2. /\ \A u \in Clients : status'[u] = IF u = t THEN "ipc" ELSE status[u]
        /\ status' \in [Threads -> Statuses]
    <2>1. CASE handling[s] = None /\ WaitingFor(s) # {}
      <3>1. server \in Servers /\ status' = [ResumeFromWait({server}) EXCEPT ![t] = "ipc"]
        BY <2>1 DEF SendSyncRequest, WaitingFor
      <3>2. /\ ResumeFromWait({server}) \in [Threads -> Statuses]
            /\ \A u \in Clients : ResumeFromWait({server})[u] = status[u] /\ u \in Threads
        BY <3>1, Resumed DEF Types, Threads
      <3> QED BY <3>1, <3>2 DEF Statuses
    <2>2. CASE ~(handling[s] = None /\ WaitingFor(s) # {})
      BY <2>2 DEF SendSyncRequest, Types, Threads, Statuses
    <2> QED BY <2>1, <2>2
  <1>3. Types'
    <2>1. pending' \in [Sessions -> Seq(Clients)]
      <3>1. Append(pending[s], t) \in Seq(Clients) BY DEF Types
      <3>2. pending' = pending \/ pending' = [pending EXCEPT ![s] = Append(pending[s], t)]
        BY DEF SendSyncRequest
      <3> QED BY <3>1, <3>2 DEF Types
    <2>2. /\ handling' \in [Sessions -> Clients \cup {None}]
          /\ wait_objects' \in [Servers -> SUBSET (Sessions \cup {Port})]
      BY DEF SendSyncRequest, Types
    <2> QED BY <1>1, <1>2, <2>1, <2>2 DEF Types
  <1>4. WakeupOfHle' BY <1>1, <1>2 DEF WakeupOfHle, Types
  <1>5. \A x \in Sessions : Requests(x) \subseteq Clients /\ {handling[x]} \ {None} \subseteq Clients
    BY DEF Types, Requests
  <1>6. \A x \in client : Exists(x) => t \notin Requests(x) /\ handling[x] # t
    BY <1>1, <1>5 DEF RequestersWait, Types
  <1>7. \A x \in Sessions : Exists(x)' => Exists(x)
    BY <1>1 DEF SendSyncRequest, Exists, Accepting, Types
  <1>8. \A x \in Sessions : x # s => pending'[x] = pending[x] /\ handling'[x] = handling[x]
    BY DEF SendSyncRequest, Types
  <1>9. \/ pending'[s] = pending[s] /\ handling[s] = None /\ handling'[s] = t
        \/ pending'[s] = Append(pending[s], t) /\ handling'[s] = handling[s]
    BY DEF SendSyncRequest, Types
  <1>10. RequestersWait'
    <2> SUFFICES ASSUME NEW x \in client', Exists(x)'
                 PROVE  /\ \A u \in Requests(x)' \cup ({handling'[x]} \ {None}) :
                               status'[u] \in {"ipc", "dead"} /\ asked'[u] = x
                        /\ \A i, j \in DOMAIN pending'[x] : pending'[x][i] = pending'[x][j] => i = j
                        /\ handling'[x] \notin Requests(x)'
      BY DEF RequestersWait
    <2>1. x \in client /\ x \in Sessions /\ Exists(x) BY <1>1, <1>7 DEF Types
    <2>2. /\ \A u \in Requests(x) \cup ({handling[x]} \ {None}) :
                 status[u] \in {"ipc", "dead"} /\ asked[u] = x /\ u # t /\ u \in Clients
          /\ \A i, j \in DOMAIN pending[x] : pending[x][i] = pending[x][j] => i = j
          /\ handling[x] \notin Requests(x)
      BY <2>1, <1>5, <1>6 DEF RequestersWait
    <2>3. \A u \in Requests(x) \cup ({handling[x]} \ {None}) :
              status'[u] \in {"ipc", "dead"} /\ asked'[u] = x
      BY <2>2, <1>1, <1>2 DEF Types
    <2>4. status'[t] = "ipc" /\ asked'[t] = s BY <1>1, <1>2 DEF Types
    <2>5. CASE x # s
      <3>1. Requests(x)' = Requests(x) BY <2>5, <2>1, <1>8 DEF Requests
      <3> QED BY <2>5, <2>1, <2>2, <2>3, <3>1, <1>8
    <2>6. CASE x = s /\ pending'[s] = pending[s] /\ handling[s] = None /\ handling'[s] = t
      <3>1. Requests(x)' = Requests(x) BY <2>6 DEF Requests
      <3> QED BY <2>6, <2>2, <2>3, <2>4, <3>1, <1>6, <2>1
    <2>7. CASE x = s /\ pending'[s] = Append(pending[s], t) /\ handling'[s] = handling[s]
      <3>1. pending[s] \in Seq(Clients) BY DEF Types
      <3>2. /\ Len(pending[s]) \in Nat /\ DOMAIN pending[s] = 1..Len(pending[s])
            /\ DOMAIN pending'[s] = 1..Len(pending[s]) + 1
            /\ pending'[s][Len(pending[s]) + 1] = t
            /\ \A i \in 1..Len(pending[s]) : pending'[s][i] = pending[s][i]
        BY <2>7, <3>1
      <3>3. Requests(s)' = Requests(s) \cup {t} BY <3>2 DEF Requests
      <3>4. \A i \in DOMAIN pending[s] : pending[s][i] # t BY <1>6, <2>1, <2>7 DEF Requests
      <3>5. \A i, j \in DOMAIN pending'[s] : pending'[s][i] = pending'[s][j] => i = j
        BY <2>2, <2>7, <3>2, <3>4
      <3>6. handling[s] # t BY <1>6, <2>1, <2>7
      <3> QED BY <2>7, <2>2, <2>3, <2>4, <3>3, <3>5, <3>6
    <2> QED BY <1>9, <2>5, <2>6, <2>7
  <1>11. ClosedIsIdle' BY <1>1, <1>8 DEF ClosedIsIdle
  <1> QED BY <1>3, <1>4, <1>10, <1>11

\* A request to an HLE service is in no list.
LEMMA SendHleStep ==
    ASSUME IInv, NEW t \in Clients, SendHleRequest(t)
    PROVE  IInv'
  <1> USE SessionsDistinct DEF IInv
  <1>1. Types' BY DEF SendHleRequest, Types, Threads, Statuses
  <1>2. WakeupOfHle' BY DEF SendHleRequest, WakeupOfHle, Types, Threads
  <1>3. \A x \in Sessions : Requests(x) \subseteq Clients /\ {handling[x]} \ {None} \subseteq Clients
    BY DEF Types, Requests
  <1>4. \A x \in client : Exists(x) => t \notin Requests(x) /\ handling[x] # t
    BY <1>3 DEF RequestersWait, Types, SendHleRequest, CanRun
  <1>5. /\ \A u \in Clients : u # t => status'[u] = status[u] /\ asked'[u] = asked[u]
        /\ client' = client /\ pending' = pending /\ handling' = handling
    BY DEF SendHleRequest, Types, Threads
  <1>6. \A x \in Sessions : Exists(x)' = Exists(x) /\ Requests(x)' = Requests(x)
    BY DEF SendHleRequest, Exists, Accepting, Requests
  <1>7. client \subseteq Sessions BY DEF Types
  <1>8. RequestersWait' BY <1>3, <1>4, <1>5, <1>6, <1>7 DEF RequestersWait
  <1>9. ClosedIsIdle' BY <1>5 DEF ClosedIsIdle
  <1> QED BY <1>1, <1>2, <1>8, <1>9

\* Acquire keeps the requests of a session or moves the last one to currently_handling.
LEMMA AcquireEffect ==
    ASSUME Types, NEW currently_handling \in [Sessions -> Clients \cup {None}],
           NEW o \in Sessions \cup {Port}, ~ShouldWait(o, currently_handling),
           Acquire(o, currently_handling)
    PROVE  /\ pending' \in [Sessions -> Seq(Clients)]
           /\ handling' \in [Sessions -> Clients \cup {None}]
           /\ \A x \in Sessions :
                \/ pending'[x] = pending[x] /\ handling'[x] = currently_handling[x]
                \/ /\ x \in client /\ pending[x] # <<>> /\ currently_handling[x] = None
                   /\ handling'[x] = pending[x][Len(pending[x])]
                   /\ pending'[x] = SubSeq(pending[x], 1, Len(pending[x]) - 1)
  <1>1. CASE o \in client
    <2>1. o \in Sessions /\ pending[o] # <<>> /\ currently_handling[o] = None
      BY <1>1, SessionsDistinct DEF ShouldWait, Types
    <2>2. /\ pending[o][Len(pending[o])] \in Clients
          /\ SubSeq(pending[o], 1, Len(pending[o]) - 1) \in Seq(Clients)
      BY <2>1, LastPopped DEF Types
    <2>3. /\ pending' = [pending EXCEPT ![o] = SubSeq(pending[o], 1, Len(pending[o]) - 1)]
          /\ handling' = [currently_handling EXCEPT ![o] = pending[o][Len(pending[o])]]
      BY <1>1 DEF Acquire
    <2>4. /\ pending' \in [Sessions -> Seq(Clients)]
          /\ handling' \in [Sessions -> Clients \cup {None}]
      BY <2>2, <2>3 DEF Types
    <2>5. \A x \in Sessions : x # o =>
              pending'[x] = pending[x] /\ handling'[x] = currently_handling[x]
      BY <2>3 DEF Types
    <2>6. /\ handling'[o] = pending[o][Len(pending[o])]
          /\ pending'[o] = SubSeq(pending[o], 1, Len(pending[o]) - 1)
      BY <2>1, <2>3 DEF Types
    <2> QED BY <1>1, <2>1, <2>4, <2>5, <2>6, Zenon
  <1>2. CASE o \notin client BY <1>2 DEF Acquire, Types
  <1> QED BY <1>1, <1>2

\* A reply resumes the thread whose request was handled, and no other client thread.
LEMMA ReplyStep ==
    ASSUME IInv, NEW t \in Servers, NEW reply \in Sessions \cup {None},
           NEW objects \in SUBSET (handle \cup {Port}), NEW o \in Sessions \cup {Port, None},
           ReplyAndReceive(t, reply, objects, o)
    PROVE  IInv'
  <1> USE SessionsDistinct DEF IInv
  <1> DEFINE answered == {x \in Clients : reply # None /\ handling[reply] = x}
             waits == objects # {} /\ {x \in objects : ~ShouldWait(x, Replied(reply))} = {}
  <1>1. /\ client' = client /\ handle' = handle /\ pending_sessions' = pending_sessions
        /\ wakeup' = wakeup
        /\ status' = [ResumeFromWait(answered) EXCEPT ![t] = IF waits THEN "sync" ELSE @]
        /\ wait_objects' = [wait_objects EXCEPT ![t] = IF waits THEN objects ELSE {}]
        /\ asked' = [x \in Clients |-> IF x \in answered THEN Port ELSE asked[x]]
        /\ reply # None => reply \in handle /\ handling[reply] # None
    BY DEF ReplyAndReceive
  <1>2. /\ Replied(reply) \in [Sessions -> Clients \cup {None}]
        /\ \A x \in Sessions : Replied(reply)[x] = IF x = reply THEN None ELSE handling[x]
    BY DEF Replied, Types
  <1>3. /\ pending' \in [Sessions -> Seq(Clients)]
        /\ handling' \in [Sessions -> Clients \cup {None}]
        /\ \A x \in Sessions :
             \/ pending'[x] = pending[x] /\ handling'[x] = Replied(reply)[x]
             \/ /\ x \in client /\ pending[x] # <<>> /\ Replied(reply)[x] = None
                /\ handling'[x] = pending[x][Len(pending[x])]
                /\ pending'[x] = SubSeq(pending[x], 1, Len(pending[x]) - 1)
    <2>1. CASE {x \in objects : ~ShouldWait(x, Replied(reply))} # {}
      <3>1. o \in objects /\ ~ShouldWait(o, Replied(reply)) /\ Acquire(o, Replied(reply))
        BY <2>1 DEF ReplyAndReceive
      <3>2. o \in Sessions \cup {Port} BY <3>1 DEF Types
      <3> QED BY <3>1, <3>2, <1>2, AcquireEffect
    <2>2. CASE {x \in objects : ~ShouldWait(x, Replied(reply))} = {}
      <3>1. handling' = Replied(reply) /\ pending' = pending BY <2>2 DEF ReplyAndReceive
      <3> QED BY <3>1, <1>2 DEF Types
    <2> QED BY <2>1, <2>2
  <1>4. /\ status' \in [Threads -> Statuses]
        /\ \A u \in Clients \ answered : status'[u] = status[u] /\ asked'[u] = asked[u]
    <2>1. /\ ResumeFromWait(answered) \in [Threads -> Statuses]
          /\ \A u \in Threads \ answered : ResumeFromWait(answered)[u] = status[u]
      BY Resumed DEF Types
    <2>2. t \notin Clients /\ Clients \subseteq Threads BY DEF Threads
    <2>3. status' \in [Threads -> Statuses] BY <1>1, <2>1 DEF Statuses
    <2>4. \A u \in Clients \ answered : status'[u] = status[u] BY <1>1, <2>1, <2>2
    <2>5. \A u \in Clients \ answered : asked'[u] = asked[u] BY <1>1
    <2> QED BY <2>3, <2>4, <2>5
  <1>5. Types'
    <2>1. wait_objects' \in [Servers -> SUBSET (Sessions \cup {Port})] BY <1>1 DEF Types
    <2>2. asked' \in [Clients -> Sessions \cup {Port}] BY <1>1 DEF Types
    <2> QED BY <1>1, <1>3, <1>4, <2>1, <2>2 DEF Types
  <1>6. WakeupOfHle' BY <1>1, <1>4 DEF WakeupOfHle
  <1>7. ClosedIsIdle' BY <1>1, <1>2, <1>3 DEF ClosedIsIdle
  <1>8. \A x \in Sessions : Exists(x)' => Exists(x)
    <2>1. Accepting' = Accepting BY <1>1 DEF Accepting
    <2>2. \A u \in Servers : wait_objects'[u] \subseteq wait_objects[u] \cup handle \cup {Port}
      BY <1>1 DEF Types
    <2> QED BY <1>1, <2>1, <2>2 DEF Exists
  <1>9. RequestersWait'
    <2> SUFFICES ASSUME NEW x \in client', Exists(x)'
                 PROVE  /\ \A u \in Requests(x)' \cup ({handling'[x]} \ {None}) :
                               status'[u] \in {"ipc", "dead"} /\ asked'[u] = x
                        /\ \A i, j \in DOMAIN pending'[x] : pending'[x][i] = pending'[x][j] => i = j
                        /\ handling'[x] \notin Requests(x)'
      BY DEF RequestersWait
    <2>1. x \in client /\ x \in Sessions /\ Exists(x) BY <1>1, <1>8 DEF Types
    <2>2. /\ \A u \in Requests(x) \cup ({handling[x]} \ {None}) :
                 status[u] \in {"ipc", "dead"} /\ asked[u] = x
          /\ \A i, j \in DOMAIN pending[x] : pending[x][i] = pending[x][j] => i = j
          /\ handling[x] \notin Requests(x)
      BY <2>1 DEF RequestersWait
    <2>3. \A u \in answered : u = handling[reply] /\ asked[u] = reply
      <3>1. reply # None => reply \in client /\ Exists(reply)
        BY <1>1 DEF ClosedIsIdle, Exists, Types
      <3> QED BY <3>1 DEF RequestersWait
    <2>4. \A u \in Requests(x) \cup ({Replied(reply)[x]} \ {None}) : u \in Clients \ answered
      <3>1. \A u \in Requests(x) \cup ({Replied(reply)[x]} \ {None}) : u \in Clients
        BY <2>1, <1>2 DEF Requests, Types
      <3>2. CASE x = reply BY <3>1, <3>2, <2>1, <2>2, <2>3, <1>2
      <3>3. CASE x # reply BY <3>1, <3>3, <2>1, <2>2, <2>3, <1>2
      <3> QED BY <3>2, <3>3
    <2>5. \A u \in Requests(x) \cup ({Replied(reply)[x]} \ {None}) :
              status'[u] \in {"ipc", "dead"} /\ asked'[u] = x
      BY <2>1, <2>2, <2>4, <1>2, <1>4
    <2>6. Replied(reply)[x] \notin Requests(x) BY <2>1, <2>2, <2>4, <1>2
    <2>7. CASE pending'[x] = pending[x] /\ handling'[x] = Replied(reply)[x]
      <3>1. Requests(x)' = Requests(x) BY <2>7 DEF Requests
      <3> QED BY <2>7, <2>2, <2>5, <2>6, <3>1
    <2>8. CASE /\ pending[x] # <<>> /\ handling'[x] = pending[x][Len(pending[x])]
               /\ pending'[x] = SubSeq(pending[x], 1, Len(pending[x]) - 1)
      <3>1. /\ Len(pending[x]) \in Nat /\ Len(pending[x]) >= 1
            /\ DOMAIN pending[x] = 1..Len(pending[x])
            /\ DOMAIN pending'[x] = 1..Len(pending[x]) - 1
            /\ \A i \in 1..Len(pending[x]) - 1 : pending'[x][i] = pending[x][i]
        BY <2>8, <2>1, LastPopped DEF Types
      <3>2. Requests(x)' \subseteq Requests(x) /\ handling'[x] \in Requests(x)
        BY <2>8, <3>1 DEF Requests
      <3>3. handling'[x] \notin Requests(x)'
        <4>1. \A i \in 1..Len(pending[x]) - 1 : pending[x][i] # pending[x][Len(pending[x])]
          BY <2>2, <3>1
        <4> QED BY <2>8, <3>1, <4>1 DEF Requests
      <3>4. \A i, j \in DOMAIN pending'[x] : pending'[x][i] = pending'[x][j] => i = j
        BY <2>2, <3>1
      <3> QED BY <2>5, <3>2, <3>3, <3>4
    <2> QED BY <2>1, <2>7, <2>8, <1>3
  <1> QED BY <1>5, <1>6, <1>7, <1>9

\* Closing client endpoints drops all requests of these sessions.
LEMMA CloseClientsStep ==
    ASSUME IInv, NEW S \in SUBSET client, CloseClients(S)
    PROVE  IInv'
  <1> USE SessionsDistinct DEF IInv
  <1> DEFINE woken == {t \in Servers : wait_objects[t] \cap S # {}}
  <1>1. /\ client' = client \ S /\ handle' = handle /\ pending_sessions' = pending_sessions
        /\ pending' = [s \in Sessions |-> IF s \in S THEN <<>> ELSE pending[s]]
        /\ handling' = [s \in Sessions |-> IF s \in S THEN None ELSE handling[s]]
        /\ wait_objects' = [t \in Servers |-> IF t \in woken THEN {} ELSE wait_objects[t]]
        /\ status' = ResumeFromWait(woken) /\ asked' = asked /\ wakeup' = wakeup
    BY DEF CloseClients
  <1>2. /\ status' \in [Threads -> Statuses]
        /\ \A u \in Clients : status'[u] = status[u]
    BY <1>1, Resumed DEF Types, Threads
  <1>3. Types'
    <2>1. pending' \in [Sessions -> Seq(Clients)] BY <1>1 DEF Types
    <2>2. handling' \in [Sessions -> Clients \cup {None}] BY <1>1 DEF Types
    <2>3. wait_objects' \in [Servers -> SUBSET (Sessions \cup {Port})] BY <1>1 DEF Types
    <2> QED BY <1>1, <1>2, <2>1, <2>2, <2>3 DEF Types
  <1>4. WakeupOfHle' BY <1>1, <1>2 DEF WakeupOfHle
  <1>5. ClosedIsIdle' BY <1>1 DEF ClosedIsIdle
  <1>6. \A x \in Sessions : Exists(x)' => Exists(x)
    <2>1. Accepting' = Accepting BY <1>1 DEF Accepting
    <2> QED BY <1>1, <2>1 DEF Exists
  <1>7. \A x \in client' : /\ x \in Sessions /\ x \in client
                           /\ pending'[x] = pending[x] /\ handling'[x] = handling[x]
    BY <1>1 DEF Types
  <1>8. \A x \in client' : Requests(x)' = Requests(x) BY <1>7 DEF Requests
  <1>9. \A x \in Sessions : Requests(x) \subseteq Clients /\ {handling[x]} \ {None} \subseteq Clients
    BY DEF Types, Requests
  <1>10. RequestersWait' BY <1>1, <1>2, <1>6, <1>7, <1>8, <1>9 DEF RequestersWait
  <1> QED BY <1>3, <1>4, <1>5, <1>10

\* Closing server endpoints changes no request.
LEMMA CloseServersStep ==
    ASSUME IInv, NEW S \in SUBSET handle, CloseServers(S)
    PROVE  IInv'
  <1> USE DEF CloseServers, threadVars
  <1>1. Types' BY DEF IInv, Types
  <1>2. WakeupOfHle' BY DEF IInv, WakeupOfHle
  <1>3. ClosedIsIdle' BY DEF IInv, ClosedIsIdle
  <1>4. \A s \in Sessions : s \in client' /\ Exists(s)' => s \in client /\ Exists(s)
    BY DEF Exists, Accepting
  <1> QED BY <1>1, <1>2, <1>3, <1>4, QuietStep

\* A step outside the sessions preserves the invariant if it leaves threads in WaitIPC alone.
LEMMA OutsideStep ==
    ASSUME IInv, UNCHANGED sessionVars, status' \in [Threads -> Statuses], wakeup' \subseteq Threads,
           \A t \in Clients : status[t] \in {"ipc", "dead"} /\ asked[t] # Port =>
                              status'[t] \in {"ipc", "dead"},
           \A t \in Clients : status'[t] = "ipc" /\ t \in wakeup' => status[t] = "ipc" /\ t \in wakeup
    PROVE  IInv'
  <1> USE DEF sessionVars
  <1>1. Types' BY DEF IInv, Types
  <1>2. WakeupOfHle' BY DEF IInv, WakeupOfHle
  <1>3. ClosedIsIdle' BY DEF IInv, ClosedIsIdle
  <1>4. \A s \in Sessions : s \in client' /\ Exists(s)' => s \in client /\ Exists(s)
    BY DEF Exists, Accepting
  <1> QED BY <1>1, <1>2, <1>3, <1>4, QuietStep

\* ArbitrateAddress resumes threads of its list, which are in WaitArb.
LEMMA ArbiterStep ==
    ASSUME IInv, ArbiterListsWaiters, ArbitrateAddress, UNCHANGED sessionVars
    PROVE  IInv'
  <1>1. ASSUME NEW t \in Threads, NEW address \in Addresses, NEW timed \in BOOLEAN,
               WaitThread(t, address, timed)
        PROVE  IInv'
    <2>1. status[t] = "run" /\ status' = [status EXCEPT ![t] = "arb"] /\ wakeup' \subseteq wakeup \cup {t}
      BY <1>1 DEF WaitThread, CanRun
    <2>2. \A u \in Clients : u # t => status'[u] = status[u] BY <2>1 DEF IInv, Types, Threads
    <2>3. status' \in [Threads -> Statuses] /\ wakeup' \subseteq Threads /\ status'[t] = "arb"
      BY <2>1 DEF IInv, Types, Statuses
    <2> QED BY <2>1, <2>2, <2>3, OutsideStep
  <1>2. ASSUME NEW t \in Threads, CanRun(t), t \in Clients, NEW q, Resume(q)
        PROVE  IInv'
    <2> DEFINE resumed == Listed(waiting_threads) \ Listed(q)
    <2>1. status' = ResumeFromWait(resumed) /\ wakeup' = wakeup BY <1>2 DEF Resume
    <2>2. \A u \in resumed : status[u] = "arb" BY <1>2 DEF ArbiterListsWaiters, CanRun
    <2>3. /\ status' \in [Threads -> Statuses]
          /\ \A u \in Threads : status'[u] = status[u] \/ (status[u] = "arb" /\ status'[u] = "run")
      BY <2>1, <2>2 DEF IInv, Types, ResumeFromWait, Statuses
    <2>4. Clients \subseteq Threads /\ wakeup' \subseteq Threads BY <2>1 DEF Threads, IInv, Types
    <2> QED BY <2>1, <2>3, <2>4, OutsideStep
  <1>3. ASSUME NEW t \in Threads, NEW address \in Addresses, SignalAll(t, address)
        PROVE  IInv'
    BY <1>2, <1>3 DEF SignalAll
  <1>4. ASSUME NEW t \in Threads, NEW address \in Addresses, NEW value \in Signals,
               SignalSome(t, address, value)
        PROVE  IInv'
    BY <1>2, <1>4 DEF SignalSome
  <1> QED BY <1>1, <1>3, <1>4, Zenon DEF ArbitrateAddress

\* A timeout resumes no thread that waits for the answer to a request.
LEMMA TimeoutStep ==
    ASSUME IInv, NEW t \in Threads, Timeout(t)
    PROVE  IInv'
  <1>1. t \in wakeup /\ wakeup' = wakeup \ {t} /\ status' = ResumeFromWait({t}) /\ UNCHANGED sessionVars
    BY DEF Timeout
  <1>2. /\ status' \in [Threads -> Statuses]
        /\ \A u \in Threads \ {t} : status'[u] = status[u]
        /\ status[t] = "dead" => status'[t] = "dead"
    BY <1>1, Resumed DEF IInv, Types
  <1>3. Clients \subseteq Threads /\ wakeup' \subseteq Threads BY <1>1 DEF Threads, IInv, Types
  <1>4. t \in Clients /\ status[t] = "ipc" => asked[t] = Port BY <1>1 DEF IInv, WakeupOfHle
  <1> QED BY <1>1, <1>2, <1>3, <1>4, OutsideStep

\* The threads of a process that is terminated are dead, whatever they waited for.
LEMMA TerminateStep ==
    ASSUME IInv, NEW process \in SUBSET Threads, Terminate(process)
    PROVE  IInv'
  <1>1. /\ status' = [t \in Threads |-> IF t \in process THEN "dead" ELSE status[t]]
        /\ wakeup' = wakeup \ process
        /\ wait_objects' = [t \in Servers |-> IF t \in process THEN {} ELSE wait_objects[t]]
        /\ UNCHANGED <<client, handle, pending_sessions, pending, handling, asked>>
    BY DEF Terminate
  <1>2. Types' BY <1>1 DEF IInv, Types, Statuses
  <1>3. WakeupOfHle' BY <1>1 DEF IInv, WakeupOfHle, Types, Threads
  <1>4. ClosedIsIdle' BY <1>1 DEF IInv, ClosedIsIdle
  <1>5. \A s \in Sessions : s \in client' /\ Exists(s)' => s \in client /\ Exists(s)
    <2>1. Accepting' = Accepting BY <1>1 DEF Accepting
    <2> QED BY <1>1, <2>1 DEF Exists
  <1>6. \A t \in Clients : status[t] \in {"ipc", "dead"} => status'[t] \in {"ipc", "dead"}
    BY <1>1 DEF Threads
  <1> QED BY <1>1, <1>2, <1>3, <1>4, <1>5, <1>6, QuietStep

\* Every IPC call preserves the invariant.
LEMMA IpcStep == ASSUME IInv, Ipc PROVE IInv'
  <1>1. CASE \E t \in Clients, s \in Sessions, opened \in BOOLEAN : Connect(t, s, opened)
    BY <1>1, ConnectStep
  <1>2. CASE \E t \in Servers, opened \in BOOLEAN : Accept(t, opened)
    BY <1>2, AcceptStep
  <1>3. CASE \E t \in Clients, s \in Sessions, server \in Servers \cup {None} :
                SendSyncRequest(t, s, server)
    BY <1>3, SendStep
  <1>4. CASE \E t \in Clients : SendHleRequest(t)
    BY <1>4, SendHleStep
  <1>5. CASE \E t \in Servers, reply \in Sessions \cup {None}, objects \in SUBSET (handle \cup {Port}),
                o \in Sessions \cup {Port, None} : ReplyAndReceive(t, reply, objects, o)
    BY <1>5, ReplyStep
  <1>6. CASE \E S \in SUBSET client : CloseClients(S)
    BY <1>6, CloseClientsStep
  <1>7. CASE \E S \in SUBSET handle : CloseServers(S)
    BY <1>7, CloseServersStep
  <1> QED BY <1>1, <1>2, <1>3, <1>4, <1>5, <1>6, <1>7, Zenon DEF Ipc

\* Every step preserves the invariant.
LEMMA NextIInv == ASSUME IInv, ArbiterListsWaiters, [Next]_vars PROVE IInv'
  <1>1. CASE Ipc BY <1>1, IpcStep
  <1>2. CASE ArbitrateAddress /\ UNCHANGED sessionVars BY <1>2, ArbiterStep
  <1>3. CASE \E t \in Threads : SwitchContext(t) /\ UNCHANGED <<sessionVars, arbiterVars>>
    <2>1. status' = status /\ wakeup' \subseteq wakeup /\ UNCHANGED sessionVars
      BY <1>3 DEF SwitchContext
    <2> QED BY <2>1, OutsideStep DEF IInv, Types
  <1>4. CASE \E t \in Threads : Timeout(t) BY <1>4, TimeoutStep
  <1>5. CASE Terminate(Clients) \/ Terminate(Servers)
    <2>1. Clients \in SUBSET Threads /\ Servers \in SUBSET Threads BY DEF Threads
    <2> QED BY <1>5, <2>1, TerminateStep
  <1>6. CASE UNCHANGED vars
    <2>1. status' = status /\ wakeup' = wakeup /\ UNCHANGED sessionVars
      BY <1>6 DEF vars, threadVars
    <2> QED BY <2>1, OutsideStep DEF IInv, Types
  <1> QED BY <1>1, <1>2, <1>3, <1>4, <1>5, <1>6, Zenon DEF Next

\* As long as the arbiter lists the threads in WaitArb and no others, every request of an open
\* session is that of a thread that waits for it (ServerSession's pending_requesting_threads and
\* currently_handling): for any threads, sessions and addresses.
THEOREM RequestersAlwaysWait == Spec /\ []ArbiterListsWaiters => []RequestersWait
  <1>1. IInv => RequestersWait BY DEF IInv
  <1> QED BY <1>1, InitIInv, NextIInv, PTL DEF Spec

--------------------------------------------------------------------------------
Existing == {s \in Sessions : Exists(s)}

PortTypes ==
    /\ handle \subseteq Sessions /\ pending_sessions \in Seq(Sessions)
    /\ wait_objects \in [Servers -> SUBSET (Sessions \cup {Port})]

PortInv == PortTypes /\ PortCountsSessions

\* ConnectionClosed is called once for every session that a step destroys.
LEMMA SessionsEnd ==
    ASSUME PortInv, PortTypes', \A s \in Sessions : Exists(s)' => Exists(s), ServersDestroyed
    PROVE  PortInv'
  <1>1. Existing' = Existing \ Destroyed /\ Destroyed \subseteq Existing
    BY DEF Existing, Destroyed
  <1>2. IsFiniteSet(Existing) /\ IsFiniteSet(Destroyed)
    <2>1. Existing \subseteq Sessions /\ Destroyed \subseteq Sessions BY DEF Existing, Destroyed
    <2> QED BY <2>1, FS_Subset, SessionsFinite
  <1>3. /\ Cardinality(Existing \ Destroyed) = Cardinality(Existing) - Cardinality(Existing \cap Destroyed)
        /\ Cardinality(Existing) \in Nat /\ Cardinality(Destroyed) \in Nat
    BY <1>2, FS_Difference, FS_CardinalityType
  <1>4. Existing \cap Destroyed = Destroyed BY <1>1
  <1>5. active_sessions = Cardinality(Existing) /\ active_sessions <= MaxSessions
    BY DEF PortInv, PortCountsSessions, Existing
  <1>6. active_sessions' = Cardinality(Existing') /\ active_sessions' <= MaxSessions
    <2>1. Cardinality(Existing') = Cardinality(Existing) - Cardinality(Destroyed)
      BY <1>1, <1>3, <1>4, Zenon
    <2>2. active_sessions' = active_sessions - Cardinality(Destroyed) BY DEF ServersDestroyed
    <2> QED BY <1>3, <1>5, <2>1, <2>2, SessionsFinite
  <1> QED BY <1>6 DEF PortInv, PortCountsSessions, Existing

\* A step that touches neither endpoint references nor the count.
LEMMA SessionsStay ==
    ASSUME PortInv, UNCHANGED <<handle, pending_sessions, wait_objects, active_sessions>>
    PROVE  PortInv'
  BY DEF PortInv, PortTypes, PortCountsSessions, Exists, Accepting

\* CreateSessionToPort adds one session, and may end others: those for which the threads that
\* it wakes held the last reference.
LEMMA PortConnect ==
    ASSUME PortInv, NEW t \in Clients, NEW s \in Sessions, NEW opened \in BOOLEAN, Connect(t, s, opened)
    PROVE  PortInv'
  <1>1. Accepting' = Accepting \cup {s} BY AcceptingGrows DEF Connect, PortInv, PortTypes
  <1>2. PortTypes' BY DEF PortInv, PortTypes, Connect
  <1>3. /\ Existing' = (Existing \ Destroyed) \cup {s} /\ Destroyed \subseteq Existing
        /\ s \notin Existing
    <2>1. ~Exists(s) /\ handle' = handle
          /\ wait_objects' = [x \in Servers |-> IF x \in WaitingFor(Port) THEN {} ELSE wait_objects[x]]
      BY DEF Connect, Unused
    <2>2. \A x \in Sessions : Exists(x)' => Exists(x) \/ x = s
      BY <1>1, <2>1 DEF Exists
    <2>3. Exists(s)' BY <1>1 DEF Exists
    <2> QED BY <2>1, <2>2, <2>3 DEF Existing, Destroyed
  <1>4. IsFiniteSet(Existing) /\ IsFiniteSet(Destroyed) /\ IsFiniteSet(Existing \ Destroyed)
    <2>1. /\ Existing \subseteq Sessions /\ Destroyed \subseteq Sessions
          /\ Existing \ Destroyed \subseteq Sessions
      BY DEF Existing, Destroyed
    <2> QED BY <2>1, FS_Subset, SessionsFinite
  <1>5. /\ Cardinality(Existing \ Destroyed) = Cardinality(Existing) - Cardinality(Existing \cap Destroyed)
        /\ Cardinality(Existing) \in Nat /\ Cardinality(Destroyed) \in Nat
    BY <1>4, FS_Difference, FS_CardinalityType
  <1>6. Cardinality((Existing \ Destroyed) \cup {s}) = Cardinality(Existing \ Destroyed) + 1
    BY <1>3, <1>4, FS_AddElement
  <1>7. Existing \cap Destroyed = Destroyed BY <1>3
  <1>8. active_sessions = Cardinality(Existing) BY DEF PortInv, PortCountsSessions, Existing
  <1>9. active_sessions' = Cardinality(Existing') /\ active_sessions' <= MaxSessions
    <2>1. Cardinality(Existing') = Cardinality(Existing) - Cardinality(Destroyed) + 1
      BY <1>3, <1>5, <1>6, <1>7, Zenon
    <2>2. active_sessions' = active_sessions + 1 - Cardinality(Destroyed) /\ active_sessions < MaxSessions
      BY DEF Connect, CanConnect
    <2> QED BY <1>5, <1>8, <2>1, <2>2, SessionsFinite
  <1> QED BY <1>2, <1>9 DEF PortInv, PortCountsSessions, Existing

\* The steps that close, accept or stop to wait for sessions.
LEMMA PortIpc == ASSUME PortInv, Ipc PROVE PortInv'
  <1>1. ASSUME NEW t \in Clients, NEW s \in Sessions, NEW opened \in BOOLEAN, Connect(t, s, opened)
        PROVE  PortInv'
    BY <1>1, PortConnect
  <1>2. ASSUME NEW t \in Servers, NEW opened \in BOOLEAN, Accept(t, opened)
        PROVE  PortInv'
    <2>1. /\ Accepting' \subseteq Accepting
          /\ pending_sessions[Len(pending_sessions)] \in Accepting
      BY <1>2, AcceptingShrinks DEF PortInv, PortTypes, Accept
    <2>2. pending_sessions[Len(pending_sessions)] \in Sessions /\ pending_sessions' \in Seq(Sessions)
      BY <1>2, LastPopped DEF PortInv, PortTypes, Accept
    <2>3. PortTypes' BY <1>2, <2>2 DEF PortInv, PortTypes, Accept
    <2>4. \A x \in Sessions : Exists(x)' => Exists(x) BY <1>2, <2>1 DEF Accept, Exists
    <2>5. ServersDestroyed BY <1>2 DEF Accept
    <2> QED BY <2>3, <2>4, <2>5, SessionsEnd
  <1>3. ASSUME NEW t \in Clients, NEW s \in Sessions, NEW server \in Servers \cup {None},
               SendSyncRequest(t, s, server)
        PROVE  PortInv'
    <2>1. /\ handle' = handle /\ pending_sessions' = pending_sessions /\ ServersDestroyed
          /\ wait_objects' = wait_objects \/ wait_objects' = [wait_objects EXCEPT ![server] = {}]
      BY <1>3 DEF SendSyncRequest
    <2>2. PortTypes' BY <2>1 DEF PortInv, PortTypes
    <2>3. \A x \in Sessions : Exists(x)' => Exists(x)
      BY <2>1 DEF Exists, Accepting, PortInv, PortTypes
    <2> QED BY <2>1, <2>2, <2>3, SessionsEnd
  <1>4. ASSUME NEW t \in Clients, SendHleRequest(t)
        PROVE  PortInv'
    BY <1>4, SessionsStay DEF SendHleRequest
  <1>5. ASSUME NEW t \in Servers, NEW reply \in Sessions \cup {None},
               NEW objects \in SUBSET (handle \cup {Port}), NEW o \in Sessions \cup {Port, None},
               ReplyAndReceive(t, reply, objects, o)
        PROVE  PortInv'
    <2>1. PICK S \in SUBSET (handle \cup {Port}) :
              /\ handle' = handle /\ pending_sessions' = pending_sessions /\ ServersDestroyed
              /\ wait_objects' = [wait_objects EXCEPT ![t] = S]
      BY <1>5 DEF ReplyAndReceive
    <2>2. PortTypes' BY <2>1 DEF PortInv, PortTypes
    <2>3. \A x \in Sessions : Exists(x)' => Exists(x)
      BY <2>1, SessionsDistinct DEF Exists, Accepting, PortInv, PortTypes
    <2> QED BY <2>1, <2>2, <2>3, SessionsEnd
  <1>6. ASSUME NEW S \in SUBSET client, CloseClients(S)
        PROVE  PortInv'
    <2>1. /\ handle' = handle /\ pending_sessions' = pending_sessions /\ ServersDestroyed
          /\ wait_objects' = [t \in Servers |-> IF wait_objects[t] \cap S # {} THEN {}
                                                ELSE wait_objects[t]]
      BY <1>6 DEF CloseClients
    <2>2. PortTypes' BY <2>1 DEF PortInv, PortTypes
    <2>3. \A x \in Sessions : Exists(x)' => Exists(x) BY <2>1 DEF Exists, Accepting
    <2> QED BY <2>1, <2>2, <2>3, SessionsEnd
  <1>7. ASSUME NEW S \in SUBSET handle, CloseServers(S)
        PROVE  PortInv'
    <2>1. /\ handle' = handle \ S /\ pending_sessions' = pending_sessions
          /\ wait_objects' = wait_objects /\ ServersDestroyed
      BY <1>7 DEF CloseServers
    <2>2. PortTypes' BY <2>1 DEF PortInv, PortTypes
    <2>3. \A x \in Sessions : Exists(x)' => Exists(x) BY <2>1 DEF Exists, Accepting
    <2> QED BY <2>1, <2>2, <2>3, SessionsEnd
  <1> QED BY <1>1, <1>2, <1>3, <1>4, <1>5, <1>6, <1>7, Zenon DEF Ipc

\* Terminating a process ends the waits of its threads.
LEMMA PortTerminate ==
    ASSUME PortInv, NEW process, Terminate(process)
    PROVE  PortInv'
  <1>1. /\ handle' = handle /\ pending_sessions' = pending_sessions /\ ServersDestroyed
        /\ wait_objects' = [t \in Servers |-> IF t \in process THEN {} ELSE wait_objects[t]]
    BY DEF Terminate
  <1>2. PortTypes' BY <1>1 DEF PortInv, PortTypes
  <1>3. \A x \in Sessions : Exists(x)' => Exists(x) BY <1>1 DEF Exists, Accepting
  <1> QED BY <1>1, <1>2, <1>3, SessionsEnd

\* Every step preserves the count.
LEMMA NextPortInv == ASSUME PortInv, [Next]_vars PROVE PortInv'
  <1>1. CASE Ipc BY <1>1, PortIpc
  <1>2. CASE Terminate(Clients) \/ Terminate(Servers) BY <1>2, PortTerminate
  <1>3. CASE UNCHANGED sessionVars BY <1>3, SessionsStay DEF sessionVars
  <1>4. ASSUME NEW t \in Threads, Timeout(t) PROVE UNCHANGED sessionVars BY <1>4 DEF Timeout
  <1>5. CASE UNCHANGED vars BY <1>5, <1>3 DEF vars
  <1> QED BY <1>1, <1>2, <1>3, <1>4, <1>5, Zenon DEF Next

\* active_sessions is the number of the port's server sessions and at most max_sessions, for any
\* threads and sessions, however they are accepted, closed, waited for and terminated: the
\* assertion of ClientPort::ConnectionClosed never fails.
THEOREM PortAlwaysCounts == Spec => []PortCountsSessions
  <1>1. Init => PortInv
    <2> SUFFICES ASSUME Init PROVE PortInv OBVIOUS
    <2>1. PortTypes BY DEF Init, SessionsInit, PortTypes
    <2>2. {s \in Sessions : Exists(s)} = {} BY DEF Init, SessionsInit, Exists, Accepting
    <2>3. Cardinality({}) = 0 BY FS_EmptySet
    <2>4. active_sessions = 0 /\ 0 <= MaxSessions BY SessionsFinite DEF Init, SessionsInit
    <2>5. active_sessions <= MaxSessions BY <2>4
    <2> QED BY <2>1, <2>2, <2>3, <2>4, <2>5, Zenon DEF PortInv, PortCountsSessions
  <1>2. PortInv => PortCountsSessions BY DEF PortInv
  <1> QED BY <1>1, <1>2, NextPortInv, PTL DEF Spec
=============================================================================
