---------------------------- MODULE AddressArbiter -----------------------------
(***************************************************************************)
(* Kernel::AddressArbiter: threads of the client process wait at an        *)
(* address until another thread signals it or their timeout passes.        *)
(* Whether the word at the address makes a call wait is the program's      *)
(* affair: a call may wait or return at once.                              *)
(***************************************************************************)
EXTENDS WaitingThreads, Functions

CONSTANTS
    Addresses,
    Priority,           \* current_priority of each client thread; lower is better
    Signals             \* values of Signal calls that resume that many threads

VARIABLES
    waiting_threads,    \* with their wait_address
    arrived             \* history: the waiting threads in the order in which they came

arbiterVars == <<waiting_threads, arrived>>

ArbiterInit == waiting_threads = <<>> /\ arrived = <<>>

Matching(queue, address) == LET At(w) == w.wait_address = address IN SelectSeq(queue, At)
Others(queue, address) == LET Not(w) == w.wait_address # address IN SelectSeq(queue, Not)
Without(queue, S) == LET Stays(w) == w.thread \notin S IN SelectSeq(queue, Stays)
Listed(queue) == {queue[i].thread : i \in DOMAIN queue}

\* ArbitrateAddress, the types that wait, with or without a timeout.
WaitThread(t, address, timed) ==
    LET w == [thread |-> t, wait_address |-> address]
    IN  /\ t \in Clients /\ CanRun(t)
        /\ status' = [status EXCEPT ![t] = "arb"]
        /\ wakeup' = IF timed THEN wakeup \cup {t} ELSE wakeup
        /\ waiting_threads' = Append(waiting_threads, w)
        /\ arrived' = Append(arrived, w)

\* Mutant of First.
First_Last(matches) ==
    CHOOSE w \in Range(matches) : \A j \in DOMAIN matches :
        \/ Priority[w.thread] < Priority[matches[j].thread]
        \/ Priority[w.thread] = Priority[matches[j].thread]
           /\ \E i \in DOMAIN matches : matches[i] = w /\ i >= j

\* std::min_element: the first of the best.
First(matches) ==
    CHOOSE w \in Range(matches) : \A j \in DOMAIN matches :
        \/ Priority[w.thread] < Priority[matches[j].thread]
        \/ Priority[w.thread] = Priority[matches[j].thread]
           /\ \E i \in DOMAIN matches : matches[i] = w /\ i <= j

\* What stable_partition and the erase leave of the queue.
ResumeHighestPriorityThread(queue, address) ==
    LET matches == Matching(queue, address)
    IN  IF matches = <<>> THEN queue
        ELSE Others(queue, address) \o Without(matches, {First(matches).thread})

ResumeN(value, address) ==
    LET left[n \in 0..value] == IF n = 0 THEN waiting_threads
                                ELSE ResumeHighestPriorityThread(left[n - 1], address)
    IN  left[value]

\* ResumeAllThreads, for a negative value.
ResumeAllThreads(address) == Others(waiting_threads, address)

Resume(left) ==
    LET resumed == Listed(waiting_threads) \ Listed(left)
    IN  /\ waiting_threads' = left
        /\ arrived' = Without(arrived, resumed)
        /\ status' = ResumeFromWait(resumed)
        /\ UNCHANGED wakeup

SignalAll(t, address) == t \in Clients /\ CanRun(t) /\ Resume(ResumeAllThreads(address))

SignalSome(t, address, value) == t \in Clients /\ CanRun(t) /\ Resume(ResumeN(value, address))

\* Mutant of WakeUp.
WakeUp_Keeps(t) == UNCHANGED arbiterVars

\* The callback of a wait that timed out.
WakeUp(t) ==
    /\ waiting_threads' = Without(waiting_threads, {t})
    /\ arrived' = Without(arrived, {t})

ArbitrateAddress ==
    \E t \in Threads, address \in Addresses :
        \/ \E timed \in BOOLEAN : WaitThread(t, address, timed)
        \/ SignalAll(t, address)
        \/ \E value \in Signals : SignalSome(t, address, value)

--------------------------------------------------------------------------------
\* "Inconsistent AddressArbiter state": while its process lives, the arbiter lists exactly the
\* threads in WaitArb, each once, however signals, timeouts and context switches fall.
ArbiterListsWaiters ==
    (\E t \in Clients : status[t] # "dead") =>
        /\ Listed(waiting_threads) = {t \in Clients : status[t] = "arb"}
        /\ Len(waiting_threads) = Cardinality(Listed(waiting_threads))

\* A signal resumes no thread while a better one, or an equal one that came earlier, goes on
\* waiting at the same address: waiting_threads stays in the order of arrival per address.
BestIsResumed ==
    [][\A i, j \in DOMAIN arrived :
        LET t == arrived[i].thread
            u == arrived[j].thread
        IN  /\ status'[t] = "run" /\ (t \in wakeup => t \in wakeup')
            /\ status'[u] = "arb" /\ arrived[i].wait_address = arrived[j].wait_address
            => Priority[t] < Priority[u] \/ (Priority[t] = Priority[u] /\ i < j)
      ]_<<threadVars, arbiterVars>>
=============================================================================
