---------------------------- MODULE ProcessObjects -----------------------------
(***************************************************************************)
(* The kernel objects of one process: svcCreate..., DuplicateHandle and    *)
(* CloseHandle on its handle table, the references that keep an object     *)
(* alive, the destructors, and what they reserve and release in the        *)
(* process's ResourceLimit and in memory_used (of which the shared memory  *)
(* is modelled, not the heaps and the thread-local storage).               *)
(***************************************************************************)
EXTENDS HandleTable, Integers, Functions

CONSTANTS
    Kinds,          \* the object types that occur: "Thread", "Semaphore", "SharedMemory", and
                    \* "Mutex", "Event", "Timer", "AddressArbiter", whose SVCs are alike
    Limit,          \* m_limit_values, the same for every type
    MemoryWords,    \* memory_used is a u32: 2^32 in units of one shared memory block
    MaxFailed       \* bound on the number of failed creations that are counted

ASSUME ProcessAssumption ==
    /\ Limit \in Nat /\ MemoryWords \in Nat \ {0} /\ MaxFailed \in Nat
    /\ Kinds \subseteq {"Thread", "Semaphore", "SharedMemory", "Mutex", "Event", "Timer",
                        "AddressArbiter"}

VARIABLES
    kind,               \* the type of each object that exists
    thread_list,        \* the threads the ThreadManagers hold
    runnable,           \* threads that execute code: those made ready, and stopped ones that
                        \* are still the current_thread of another core
    waited,             \* objects in some thread's wait_objects or held_mutexes
    linear,             \* shared memory with base_address 0: taken from the linear heap
    m_current_values,   \* ResourceLimit's counters
    memory_used,
    status,             \* of the process: "running", "exited", or "gone" after ~Process
    unreleased,         \* history: reservations that no object or thread stands for, less the
                        \* ones that a thread released twice
    refused             \* history: memory blocks whose mapping was refused

objVars == <<kind, thread_list, runnable, waited, linear, m_current_values, memory_used,
             status, unreleased, refused>>
vars == <<tableVars, objVars>>

Reserve(k) == m_current_values[k] + 1 <= Limit

\* Mutant of Released.
Released_Never(value, n) == value

\* n calls of ResourceLimit::Release(k, 1): each of them refuses to go below 0.
Released(value, n) == IF n > value THEN 0 ELSE value - n

IsReferenced(o, objs, kept) == o \in kept \/ \E s \in Slots : objs[s] = o

\* Mutant of MemoryReturned.
MemoryReturned_Never(used, blocks) == used

\* memory_used -= size, in u32 arithmetic.
MemoryReturned(used, blocks) == (used - Cardinality(blocks)) % MemoryWords

\* The failed creations that were counted.
Failures == refused + FoldFunction(+, 0, unreleased)

(***************************************************************************)
(* The end of a handler: an object whose last reference is gone is         *)
(* destroyed.  kinds, lin, values and used are what the handler left.      *)
(* ~Mutex and the like release one unit; ~SharedMemory does so and returns *)
(* its linear memory, if its process still exists; ~Thread does nothing.   *)
(***************************************************************************)
Destroy(kinds, lin, values, used) ==
    LET kept == thread_list' \cup runnable' \cup waited'
        dead == {o \in Objects : kinds[o] # "none" /\ ~IsReferenced(o, objects', kept)}
        ofKind(k) == {o \in dead : kinds[o] = k /\ k # "Thread"
                                   /\ (k = "SharedMemory" => status' # "gone")}
    IN  /\ kind' = [o \in Objects |-> IF o \in dead THEN "none" ELSE kinds[o]]
        /\ m_current_values' = [k \in Kinds |-> Released(values[k], Cardinality(ofKind(k)))]
        /\ linear' = lin \ dead
        /\ memory_used' = MemoryReturned(used, lin \cap ofKind("SharedMemory"))

\* handle_table.Create at the end of a creating SVC: without a free slot the object has no
\* handle, and the SVC lets go of it.
CreateHandle(o) == IF HasFreeSlot THEN Create(o) ELSE UNCHANGED tableVars

\* CreateMutex, CreateEvent, CreateTimer, CreateAddressArbiter.  A mutex that is locked
\* initially is in held_mutexes at once, so that it stays without a handle, too.
CreateObject(k, o, locked) ==
    /\ k \in {"Mutex", "Event", "Timer", "AddressArbiter"} /\ Reserve(k)
    /\ locked => k = "Mutex"
    /\ CreateHandle(o)
    /\ waited' = IF locked THEN waited \cup {o} ELSE waited
    /\ UNCHANGED <<thread_list, runnable, status, unreleased, refused>>
    /\ Destroy([kind EXCEPT ![o] = k], linear, [m_current_values EXCEPT ![k] = @ + 1], memory_used)

\* CreateSemaphore: initial_count > max_count is found out after the reservation.
CreateSemaphore(o, valid) ==
    /\ Reserve("Semaphore")
    /\ UNCHANGED <<thread_list, runnable, waited, status, refused>>
    /\ IF valid
       THEN /\ CreateHandle(o)
            /\ UNCHANGED unreleased
            /\ Destroy([kind EXCEPT ![o] = "Semaphore"], linear,
                       [m_current_values EXCEPT !["Semaphore"] = @ + 1], memory_used)
       ELSE /\ Failures < MaxFailed
            /\ unreleased' = [unreleased EXCEPT !["Semaphore"] = @ + 1]
            /\ m_current_values' = [m_current_values EXCEPT !["Semaphore"] = @ + 1]
            /\ UNCHANGED <<tableVars, kind, linear, memory_used>>

\* CreateThread: the entry point is checked after the reservation, too.  A thread is in
\* thread_list whether it got a handle or not, and even if it got no thread-local storage and
\* is never made ready.
CreateThread(o, how) ==
    /\ Reserve("Thread")
    /\ m_current_values' = [m_current_values EXCEPT !["Thread"] = @ + 1]
    /\ UNCHANGED <<waited, linear, memory_used, status, refused>>
    /\ IF how = "bad entry"
       THEN /\ Failures < MaxFailed
            /\ unreleased' = [unreleased EXCEPT !["Thread"] = @ + 1]
            /\ UNCHANGED <<tableVars, kind, thread_list, runnable>>
       ELSE /\ thread_list' = thread_list \cup {o}
            /\ kind' = [kind EXCEPT ![o] = "Thread"]
            /\ UNCHANGED unreleased
            /\ IF how = "no TLS"
               THEN UNCHANGED <<tableVars, runnable>>
               ELSE CreateHandle(o) /\ runnable' = runnable \cup {o}

\* CreateMemoryBlock.  With an address, the block's memory is mapped already and only
\* changes its state; when that is refused, the half-made object is destroyed while its
\* base_address is still 0.
CreateMemoryBlock(o, how) ==
    LET k == "SharedMemory"
    IN  /\ Reserve(k)
        /\ UNCHANGED <<thread_list, runnable, waited, status, unreleased>>
        /\ IF how = "refused"
           THEN /\ Failures < MaxFailed /\ refused' = refused + 1
                /\ UNCHANGED tableVars
                /\ Destroy([kind EXCEPT ![o] = k], linear \cup {o},
                           [m_current_values EXCEPT ![k] = @ + 1], memory_used)
           ELSE /\ CreateHandle(o)
                /\ UNCHANGED refused
                /\ Destroy([kind EXCEPT ![o] = k],
                           IF how = "linear" THEN linear \cup {o} ELSE linear,
                           [m_current_values EXCEPT ![k] = @ + 1],
                           IF how = "linear" THEN memory_used + 1 ELSE memory_used)

\* ExitThread: Thread::Stop of the executing thread, which releases the mutexes it holds, and
\* its removal from thread_list.  A stopped thread that still executes is stopped, and its
\* reservation released, a second time.
ExitThread(o, mutexes) ==
    /\ o \in runnable /\ mutexes \subseteq waited /\ \A m \in mutexes : kind[m] = "Mutex"
    /\ thread_list' = thread_list \ {o} /\ runnable' = runnable \ {o}
    /\ waited' = waited \ mutexes
    /\ unreleased' = [unreleased EXCEPT !["Thread"] =
           @ - (IF o \in thread_list THEN 0 ELSE 1)
             + (IF m_current_values["Thread"] = 0 THEN 1 ELSE 0)]
    /\ UNCHANGED <<tableVars, status, refused>>
    /\ Destroy(kind, linear, [m_current_values EXCEPT !["Thread"] = Released(@, 1)], memory_used)

\* TerminateProcess, once: Thread::Stop of all its threads, which ends their waits.  Those
\* that are current on other cores go on executing.  (Stopping a thread without thread-local
\* storage writes outside tls_slots: the emulator crashes, or goes on like this.)
TerminateProcess(current) ==
    /\ status = "running" /\ status' = "exited"
    /\ current \subseteq thread_list \cap runnable
    /\ thread_list' = {} /\ runnable' = current /\ waited' = {}
    /\ UNCHANGED <<tableVars, unreleased, refused>>
    /\ Destroy(kind, linear, [k \in Kinds |-> IF k = "Thread"
                  THEN Released(m_current_values[k], Cardinality(thread_list))
                  ELSE m_current_values[k]], memory_used)

\* SwitchContext on the core of a stopped thread.
SwitchAway(o) ==
    /\ o \in runnable \ thread_list /\ runnable' = runnable \ {o}
    /\ UNCHANGED <<tableVars, thread_list, waited, status, unreleased, refused>>
    /\ Destroy(kind, linear, m_current_values, memory_used)

DuplicateHandle(handle) == Duplicate(handle) /\ UNCHANGED objVars

\* DuplicateHandle of the pseudo-handle CurrentThread.
DuplicateCurrentThread(o) == o \in runnable /\ Create(o) /\ UNCHANGED objVars

CloseHandle(handle) ==
    /\ Close(handle)
    /\ UNCHANGED <<thread_list, runnable, waited, status, unreleased, refused>>
    /\ Destroy(kind, linear, m_current_values, memory_used)

\* A thread blocks on an object (wait_objects keeps it alive) or locks a mutex
\* (held_mutexes does), and ends that.
Wait(handle) ==
    LET o == GetGeneric(handle)
    IN  /\ o # Null /\ kind[o] \notin {"SharedMemory", "AddressArbiter"}
        /\ waited' = waited \cup {o}
        /\ UNCHANGED <<tableVars, kind, thread_list, runnable, linear, m_current_values,
                       memory_used, status, unreleased, refused>>

EndWait(o) ==
    /\ o \in waited /\ waited' = waited \ {o}
    /\ UNCHANGED <<tableVars, thread_list, runnable, status, unreleased, refused>>
    /\ Destroy(kind, linear, m_current_values, memory_used)

\* ~Process, when no core executes a thread of it: handle_table.Clear() destroys the objects,
\* but the weak owner_process of a SharedMemory no longer leads to the process.
EndProcess ==
    /\ status = "exited" /\ runnable \ thread_list = {} /\ status' = "gone"
    /\ Clear
    /\ unreleased' = [k \in Kinds |-> unreleased[k] +
           IF k = "SharedMemory" THEN Cardinality({o \in Objects : kind[o] = k}) ELSE 0]
    /\ UNCHANGED <<thread_list, runnable, waited, refused>>
    /\ Destroy(kind, linear, m_current_values, memory_used)

Init ==
    /\ TableInit
    /\ kind = [o \in Objects |-> "none"]
    /\ thread_list = {} /\ runnable = {} /\ waited = {} /\ linear = {}
    /\ m_current_values = [k \in Kinds |-> 0] /\ unreleased = [k \in Kinds |-> 0]
    /\ memory_used = 0 /\ refused = 0 /\ status = "running"

New == {o \in Objects : kind[o] = "none"}

\* An SVC of a thread of the process; its main thread is not among the objects.
Svc ==
    /\ status = "running" \/ runnable # {}
    /\ \/ \E k \in Kinds, o \in New, locked \in BOOLEAN : CreateObject(k, o, locked)
       \/ \E o \in New, valid \in BOOLEAN : "Semaphore" \in Kinds /\ CreateSemaphore(o, valid)
       \/ \E o \in New, how \in {"valid", "bad entry", "no TLS"} :
              "Thread" \in Kinds /\ CreateThread(o, how)
       \/ \E o \in New, how \in {"linear", "mapped", "refused"} :
              "SharedMemory" \in Kinds /\ CreateMemoryBlock(o, how)
       \/ \E o \in Objects : DuplicateCurrentThread(o) \/ \E m \in SUBSET waited : ExitThread(o, m)
       \/ \E handle \in Handles : DuplicateHandle(handle) \/ CloseHandle(handle) \/ Wait(handle)

Next ==
    /\ status # "gone"
    /\ \/ Svc
       \/ \E current \in SUBSET thread_list : TerminateProcess(current)
       \/ \E o \in Objects : SwitchAway(o) \/ EndWait(o)
       \/ EndProcess

Spec == Init /\ [][Next]_vars

--------------------------------------------------------------------------------
\* m_current_values, which bounds what a program may create and which it can read with
\* GetResourceLimitCurrentValues, counts the objects and threads that exist, and nothing
\* else but the reservations of CreateSemaphore and CreateThread calls that failed after
\* reserving, and of the shared memory that a process had when it ended; the reservation of a
\* terminated thread that goes on executing and exits is missing.
LimitCountsObjects ==
    \A k \in Kinds : m_current_values[k] = unreleased[k] +
        Cardinality(IF k = "Thread" THEN thread_list ELSE {o \in Objects : kind[o] = k})

\* memory_used, which GetProcessInfo returns, counts the linear blocks that exist, less one
\* block, wrapping below 0, for every block whose mapping was refused.
MemoryAccounted ==
    status # "gone" => memory_used = (Cardinality(linear) - refused) % MemoryWords

=============================================================================
