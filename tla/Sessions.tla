------------------------------- MODULE Sessions --------------------------------
(***************************************************************************)
(* IPC between processes: a port, the sessions that clients open to it,    *)
(* SendSyncRequest, ReplyAndReceive, and the endpoints' destructors.       *)
(* Servers are programs that wait for any of their objects and reply to    *)
(* any request.  What command buffers carry, and the priorities and orders *)
(* that pick one of several waiting servers, are left out.                 *)
(***************************************************************************)
EXTENDS WaitingThreads

CONSTANTS
    Sessions,           \* session objects; one is used again when nothing refers to it
    MaxSessions,        \* max_sessions of the port
    Port,               \* the ServerPort as an object to wait for
    None                \* nullptr

ASSUME SessionsFinite == IsFiniteSet(Sessions) /\ MaxSessions \in Nat

ASSUME SessionsDistinct ==
    Port \notin Sessions /\ None \notin Sessions \cup Clients /\ Clients \cap Servers = {}

VARIABLES
    client,             \* sessions whose client endpoint is open
    handle,             \* sessions the server process has a handle of
    pending_sessions,   \* of the port
    active_sessions,    \* of the port
    pending,            \* pending_requesting_threads of each session
    handling,           \* currently_handling of each session
    wait_objects,       \* of each server thread
    asked,              \* history: the session of a client thread's request, until it is answered
    left                \* history: sessions with requests that were replied to, but not received
                        \* from, by the same ReplyAndReceive

sessionVars == <<client, handle, pending_sessions, active_sessions, pending, handling,
                 wait_objects, asked, left>>

SessionsInit ==
    /\ client = {} /\ handle = {} /\ pending_sessions = <<>> /\ active_sessions = 0
    /\ pending = [s \in Sessions |-> <<>>] /\ handling = [s \in Sessions |-> None]
    /\ wait_objects = [t \in Servers |-> {}]
    /\ asked = [t \in Clients |-> Port] /\ left = {}

Accepting == {pending_sessions[i] : i \in DOMAIN pending_sessions}

\* The ServerSession object exists: a handle, the port or a waiting thread refers to it.
Exists(s) == s \in handle \/ s \in Accepting \/ \E t \in Servers : s \in wait_objects[t]

WaitingFor(o) == {t \in Servers : o \in wait_objects[t]}

\* The sessions that the step leaves without a reference.
Destroyed == {s \in Sessions : Exists(s) /\ ~Exists(s)'}

\* Mutant of ServersDestroyed.
ServersDestroyed_Uncounted == UNCHANGED active_sessions

\* ~ServerSession calls ConnectionClosed.
ServersDestroyed == active_sessions' = active_sessions - Cardinality(Destroyed)

(***************************************************************************)
(* The port.                                                               *)
(***************************************************************************)
CanConnect == active_sessions < MaxSessions

\* No endpoint of session object s is left, and no thread hangs on it.
Unused(s) ==
    /\ s \notin client /\ ~Exists(s)
    /\ \A t \in Clients : status[t] = "ipc" => asked[t] # s

\* CreateSessionToPort; opened is FALSE if there is no handle left for the client's end.
Connect(t, s, opened) ==
    LET woken == WaitingFor(Port)
    IN  /\ t \in Clients /\ CanRun(t) /\ CanConnect /\ Unused(s)
        /\ client' = IF opened THEN client \cup {s} ELSE client
        /\ pending_sessions' = Append(pending_sessions, s)
        /\ pending' = [pending EXCEPT ![s] = <<>>]
        /\ handling' = [handling EXCEPT ![s] = None]
        /\ left' = left \ {s}
        /\ wait_objects' = [x \in Servers |-> IF x \in woken THEN {} ELSE wait_objects[x]]
        /\ status' = ResumeFromWait(woken)
        /\ UNCHANGED <<handle, asked, wakeup>>
        /\ active_sessions' = active_sessions + 1 - Cardinality(Destroyed)

\* AcceptSession; without a handle left the session is destroyed.
Accept(t, opened) ==
    /\ t \in Servers /\ CanRun(t) /\ pending_sessions # <<>>
    /\ pending_sessions' = SubSeq(pending_sessions, 1, Len(pending_sessions) - 1)
    /\ handle' = IF opened THEN handle \cup {pending_sessions[Len(pending_sessions)]} ELSE handle
    /\ UNCHANGED <<client, pending, handling, wait_objects, asked, left, threadVars>>
    /\ ServersDestroyed

(***************************************************************************)
(* Requests.                                                               *)
(***************************************************************************)
\* Mutant of ShouldWait.
ShouldWait_IfEmpty(o, currently_handling) ==
    IF o = Port THEN pending_sessions = <<>> ELSE o \in client /\ pending[o] = <<>>

ShouldWait(o, currently_handling) ==
    IF o = Port THEN pending_sessions = <<>>
    ELSE o \in client /\ (pending[o] = <<>> \/ currently_handling[o] # None)

\* HandleSyncRequest for a session without an HLE handler: if a thread waits for the session,
\* one of them acquires the request in the same step, the last that was pushed.
SendSyncRequest(t, s, server) ==
    /\ t \in Clients /\ CanRun(t) /\ s \in client /\ Exists(s)
    /\ asked' = [asked EXCEPT ![t] = s]
    /\ IF handling[s] = None /\ WaitingFor(s) # {}
       THEN /\ server \in WaitingFor(s)
            /\ handling' = [handling EXCEPT ![s] = t]
            /\ wait_objects' = [wait_objects EXCEPT ![server] = {}]
            /\ status' = [ResumeFromWait({server}) EXCEPT ![t] = "ipc"]
            /\ left' = left \ {s}
            /\ UNCHANGED pending
       ELSE /\ server = None
            /\ pending' = [pending EXCEPT ![s] = Append(@, t)]
            /\ status' = [status EXCEPT ![t] = "ipc"]
            /\ UNCHANGED <<handling, wait_objects, left>>
    /\ UNCHANGED <<client, handle, pending_sessions, wakeup>>
    /\ ServersDestroyed

\* HandleSyncRequest with an HLE handler: the thread sleeps for IPCDelayNanoseconds.
SendHleRequest(t) ==
    /\ t \in Clients /\ CanRun(t)
    /\ asked' = [asked EXCEPT ![t] = Port]
    /\ status' = [status EXCEPT ![t] = "ipc"]
    /\ wakeup' = wakeup \cup {t}
    /\ UNCHANGED <<client, handle, pending_sessions, active_sessions, pending, handling,
                   wait_objects, left>>

\* Acquire takes the last request of an open session; nothing changes for a closed one or a port.
Acquire(o, currently_handling) ==
    IF o \in client
    THEN /\ handling' = [currently_handling EXCEPT ![o] = pending[o][Len(pending[o])]]
         /\ pending' = [pending EXCEPT ![o] = SubSeq(@, 1, Len(@) - 1)]
    ELSE handling' = currently_handling /\ UNCHANGED pending

\* Mutant of Replied.
Replied_Keeps(reply) == handling

\* currently_handling after the reply.
Replied(reply) == [s \in Sessions |-> IF s = reply THEN None ELSE handling[s]]

\* A reply to session reply (None: no reply) resumes the requesting thread, if it still lives;
\* then the thread receives from object o, the first of objects that is ready, or waits.
ReplyAndReceive(t, reply, objects, o) ==
    LET ready == {x \in objects : ~ShouldWait(x, Replied(reply))}
        answered == {x \in Clients : reply # None /\ handling[reply] = x}
        waits == objects # {} /\ ready = {}
    IN  /\ t \in Servers /\ CanRun(t)
        /\ reply # None => reply \in handle /\ handling[reply] # None
        /\ IF ready # {}
           THEN o \in ready /\ Acquire(o, Replied(reply))
           ELSE o = None /\ handling' = Replied(reply) /\ UNCHANGED pending
        /\ status' = [ResumeFromWait(answered) EXCEPT ![t] = IF waits THEN "sync" ELSE @]
        /\ wait_objects' = [wait_objects EXCEPT ![t] = IF waits THEN objects ELSE {}]
        /\ left' = {s \in (left \cup {reply}) \ {None} :
                       s \in client /\ pending'[s] # <<>> /\ handling'[s] = None}
        /\ asked' = [x \in Clients |-> IF x \in answered THEN Port ELSE asked[x]]
        /\ UNCHANGED <<client, handle, pending_sessions, wakeup>>
        /\ ServersDestroyed

(***************************************************************************)
(* Closing endpoints: CloseHandle of the last handle, by a thread of the   *)
(* process, or the end of the process, once its threads are dead.          *)
(***************************************************************************)
MayClose(process, S, all) ==
    \/ Cardinality(S) = 1 /\ \E t \in process : CanRun(t)
    \/ S # {} /\ S = all /\ \A t \in process : status[t] = "dead"

\* Mutant of CloseClients.
CloseClients_NoWakeup(S) ==
    /\ MayClose(Clients, S, client)
    /\ client' = client \ S
    /\ pending' = [s \in Sessions |-> IF s \in S THEN <<>> ELSE pending[s]]
    /\ handling' = [s \in Sessions |-> IF s \in S THEN None ELSE handling[s]]
    /\ left' = left \ S
    /\ UNCHANGED <<handle, pending_sessions, active_sessions, wait_objects, asked, threadVars>>

\* ~ClientSession: the requests are dropped, and all threads waiting for the session wake up.
CloseClients(S) ==
    LET woken == {t \in Servers : wait_objects[t] \cap S # {}}
    IN  /\ MayClose(Clients, S, client)
        /\ client' = client \ S
        /\ pending' = [s \in Sessions |-> IF s \in S THEN <<>> ELSE pending[s]]
        /\ handling' = [s \in Sessions |-> IF s \in S THEN None ELSE handling[s]]
        /\ left' = left \ S
        /\ wait_objects' = [t \in Servers |-> IF t \in woken THEN {} ELSE wait_objects[t]]
        /\ status' = ResumeFromWait(woken)
        /\ UNCHANGED <<handle, pending_sessions, asked, wakeup>>
        /\ ServersDestroyed

\* ~ServerSession, unless a thread still waits for the session; it wakes no client.
CloseServers(S) ==
    /\ MayClose(Servers, S, handle)
    /\ handle' = handle \ S
    /\ UNCHANGED <<client, pending_sessions, pending, handling, wait_objects, asked, left, threadVars>>
    /\ ServersDestroyed

Ipc ==
    \/ \E t \in Clients, s \in Sessions, opened \in BOOLEAN : Connect(t, s, opened)
    \/ \E t \in Servers, opened \in BOOLEAN : Accept(t, opened)
    \/ \E t \in Clients, s \in Sessions, server \in Servers \cup {None} : SendSyncRequest(t, s, server)
    \/ \E t \in Clients : SendHleRequest(t)
    \/ \E t \in Servers, reply \in Sessions \cup {None}, objects \in SUBSET (handle \cup {Port}),
          o \in Sessions \cup {Port, None} : ReplyAndReceive(t, reply, objects, o)
    \/ \E S \in SUBSET client : CloseClients(S)
    \/ \E S \in SUBSET handle : CloseServers(S)

--------------------------------------------------------------------------------
Requests(s) == {pending[s][i] : i \in DOMAIN pending[s]}

\* active_sessions counts the server ends of the port's sessions, accepted or not, up to the
\* maximum, although they end in several ways: ConnectionClosed's assertion holds.
PortCountsSessions ==
    active_sessions = Cardinality({s \in Sessions : Exists(s)}) /\ active_sessions <= MaxSessions

\* A request of an open session is that of a thread that waits for this session in WaitIPC, or
\* was stopped there, and no thread has two: a reply resumes only a thread that waits for it.
RequestersWait ==
    \A s \in client : Exists(s) =>
        /\ \A t \in Requests(s) \cup ({handling[s]} \ {None}) :
               status[t] \in {"ipc", "dead"} /\ asked[t] = s
        /\ \A i, j \in DOMAIN pending[s] : pending[s][i] = pending[s][j] => i = j
        /\ handling[s] \notin Requests(s)

\* A server thread waits only for objects that have nothing for it; except for requests of a
\* session to which another thread has replied without receiving from it again.
NoLostRequest ==
    \A t \in Servers : \A o \in wait_objects[t] : ShouldWait(o, handling) \/ o \in left

Call(t) ==
    LET s == asked[t]
    IN  CASE status[t] = "dead" -> "stopped"
          [] status[t] \notin {"ipc", "dead"} \/ (status[t] = "ipc" /\ s = Port) -> "idle"
          [] status[t] = "ipc" /\ s # Port /\ (s \notin client \/ ~Exists(s)) -> "lost"
          [] OTHER -> CASE handling[s] = t -> "served"
                        [] t \in Requests(s) -> "sent"
                        [] OTHER -> "missing"

\* A call is sent, served and answered, once each and in this order; it is lost, for ever,
\* when an endpoint of its session is destroyed: even as it is sent, if the server that takes it
\* held the session only by waiting for it.
CallLifecycle ==
    [][\A t \in Clients :
        Call(t)' = Call(t) \/ Call(t)' = "stopped" \/
        <<Call(t), Call(t)'>> \in {<<"idle", "sent">>, <<"idle", "served">>, <<"sent", "served">>,
                                  <<"served", "idle">>, <<"sent", "lost">>, <<"served", "lost">>,
                                  <<"idle", "lost">>}
      ]_<<threadVars, sessionVars>>
=============================================================================
