--------------------------- MODULE ServerConnection ---------------------------
(***************************************************************************)
(* The websocket threads (web_socket.run), the state they share - the      *)
(* globals WEBSOCKET, WS_CONNECTED and JELLYFIN_SERVER_UP -, the job that  *)
(* reconnects every 30 seconds while there is no connection (connect_server*)
(* under the name 'Check for server response') and the on_intdown callback *)
(* that announces an outage longer than NOTIFY_SERVER_CONNECTION_THRESHOLD.*)
(*                                                                         *)
(* The job starts a thread each time it fires, without asking whether the  *)
(* previous one still waits in create_connection, so several threads may   *)
(* run.  A thread's socket has the thread's name: each opens at most one.  *)
(* After a closed connection run never tries again itself: reconnects is 0 *)
(* there and the test is "not reconnects < WEBSOCKET_CONNECTION_ATTEMPTS". *)
(***************************************************************************)
EXTENDS Integers

CONSTANTS
  Threads,    \* websocket threads that may run at once
  NoThread,   \* no socket, or a free lock
  MaxFaults   \* bound: outages of the server and receive timeouts

ASSUME ConstantsAssumption == NoThread \notin Threads /\ MaxFaults \in Nat

VARIABLES
  reachable,   \* the server answers
  faults,      \* outages and timeouts so far
  sockets,     \* open sockets
  websocket,   \* jellypy.WEBSOCKET
  connected,   \* jellypy.WS_CONNECTED
  server_up,   \* jellypy.JELLYFIN_SERVER_UP: "unknown", "up" or "down"
  check_job,   \* 'Check for server response' is in SCHED
  checker,     \* connect_server is running
  down_job,    \* on_intdown is in ACTIVITY_SCHED
  announcing,  \* on_intdown has been handed to the executor
  sched_lock,  \* holder of SCHED_LOCK
  thread,      \* local state of the websocket threads
  balance,     \* auxiliary: outages begun or announced less recoveries announced
  died         \* auxiliary: threads that ended with an exception

environment == <<reachable, faults>>
link == <<sockets, websocket, connected>>
jobs == <<check_job, checker, sched_lock>>
callback == <<down_job, announcing>>
aux == <<balance, died>>
vars == <<environment, link, server_up, jobs, callback, thread, aux>>
-----------------------------------------------------------------------------
PC == {"idle", "connect", "opened", "connected", "on_connect", "mark_up",
       "outer", "inner", "remove", "loop", "close", "closed", "left",
       "on_disconnect", "get_job", "set_job", "sched", "apply"}

\* found is what get_job or initialize_scheduler has read; then is where the
\* thread goes after initialize_scheduler.
Local == [pc : PC, found : BOOLEAN, then : {"idle", "loop"}]

Idle == [pc |-> "idle", found |-> FALSE, then |-> "idle"]

At(t, pc) == thread[t].pc = pc
Become(t, s) == thread' = [thread EXCEPT ![t] = s]
Goto(t, pc) == Become(t, [thread[t] EXCEPT !.pc = pc])

\* An exception outside the receive loop's try ends the thread.
Die(t) ==
  /\ Become(t, Idle)
  /\ died' = died \cup {t}
-----------------------------------------------------------------------------
\* start() runs connect_server before initialize_scheduler has set any job.
Init ==
  /\ reachable \in BOOLEAN
  /\ faults = 0
  /\ sockets = {}
  /\ websocket = NoThread
  /\ connected = FALSE
  /\ server_up = "unknown"
  /\ check_job = FALSE
  /\ checker = TRUE
  /\ down_job = FALSE
  /\ announcing = FALSE
  /\ sched_lock = NoThread
  /\ thread = [t \in Threads |-> Idle]
  /\ balance = 0
  /\ died = {}

\* The server stops answering and its connections break, or it comes back.
ServerStops ==
  /\ reachable /\ faults < MaxFaults
  /\ reachable' = FALSE
  /\ faults' = faults + 1
  /\ sockets' = {}
  /\ UNCHANGED <<websocket, connected, server_up, jobs, callback, thread, aux>>

ServerReturns ==
  /\ ~reachable
  /\ reachable' = TRUE
  /\ UNCHANGED <<faults, link, server_up, jobs, callback, thread, aux>>

\* A thread that waits: for its start, in create_connection or in recv_frame.
Waiting(t) == thread[t].pc \in {"idle", "connect", "loop"}

\* The interval job fires; while a run goes on the next one is skipped
\* (max_instances).  Thirty seconds are more than the steps of a thread take
\* between two waits.
CheckServer ==
  /\ check_job /\ ~checker
  /\ \A t \in Threads : Waiting(t)
  /\ checker' = TRUE
  /\ UNCHANGED <<environment, link, server_up, check_job, sched_lock, callback,
                 thread, aux>>

\* start_thread, once check_active_sessions has returned or failed.
StartThread(t) ==
  /\ checker /\ At(t, "idle")
  /\ checker' = FALSE
  /\ Goto(t, "connect")
  /\ UNCHANGED <<environment, link, server_up, check_job, sched_lock, callback, aux>>

\* create_connection, then the assignments to WEBSOCKET and WS_CONNECTED.
Connect(t) ==
  /\ At(t, "connect")
  /\ IF reachable
       THEN /\ sockets' = sockets \cup {t}
            /\ websocket' = t
            /\ Goto(t, "opened")
       ELSE /\ Goto(t, "connected")
            /\ UNCHANGED <<sockets, websocket>>
  /\ UNCHANGED <<environment, connected, server_up, jobs, callback, aux>>

Opened(t) ==
  /\ At(t, "opened")
  /\ connected' = TRUE
  /\ Goto(t, "connected")
  /\ UNCHANGED <<environment, sockets, websocket, server_up, jobs, callback, aux>>

\* Whether this thread or another one connected.
Connected(t) ==
  /\ At(t, "connected")
  /\ Goto(t, IF connected THEN "on_connect" ELSE "left")
  /\ UNCHANGED <<environment, link, server_up, jobs, callback, aux>>

\* on_connect: the tests of JELLYFIN_SERVER_UP, then its assignment.
OnConnect(t) ==
  /\ At(t, "on_connect")
  /\ server_up' = IF server_up = "unknown" THEN "up" ELSE server_up
  /\ Become(t, [Idle EXCEPT !.pc = IF server_up = "down" THEN "mark_up" ELSE "sched",
                            !.then = "loop"])
  /\ UNCHANGED <<environment, link, jobs, callback, aux>>

MarkUp(t) ==
  /\ At(t, "mark_up")
  /\ server_up' = "up"
  /\ Goto(t, "outer")
  /\ UNCHANGED <<environment, link, jobs, callback, aux>>

\* Mutated form of Outer: the recovery is announced either way.
OuterAlwaysAnnounces(t) ==
  /\ At(t, "outer")
  /\ balance' = balance - 1
  /\ Goto(t, IF down_job THEN "inner" ELSE "sched")
  /\ UNCHANGED <<environment, link, server_up, jobs, callback, died>>

\* With on_intdown pending the recovery is not announced; without it, it is.
Outer(t) ==
  /\ At(t, "outer")
  /\ balance' = IF down_job THEN balance ELSE balance - 1
  /\ Goto(t, IF down_job THEN "inner" ELSE "sched")
  /\ UNCHANGED <<environment, link, server_up, jobs, callback, died>>

\* schedule_callback('on_intdown', remove_job=True): get_job, then remove_job.
\* When the callback fires in between, its outage is announced and the recovery
\* is not; balance lets the recovery pass for announced.
Inner(t) ==
  /\ At(t, "inner")
  /\ balance' = IF down_job THEN balance ELSE balance - 1
  /\ Goto(t, IF down_job THEN "remove" ELSE "sched")
  /\ UNCHANGED <<environment, link, server_up, jobs, callback, died>>

Remove(t) ==
  /\ At(t, "remove")
  /\ IF down_job THEN Goto(t, "sched") /\ UNCHANGED aux
                 ELSE Die(t) /\ balance' = balance - 1
  /\ down_job' = FALSE
  /\ UNCHANGED <<environment, link, server_up, jobs, announcing>>

\* Mutated form of ReadConnected: without SCHED_LOCK.
ReadConnectedUnlocked(t) ==
  /\ At(t, "sched")
  /\ Become(t, [thread[t] EXCEPT !.pc = "apply", !.found = connected])
  /\ UNCHANGED <<environment, link, server_up, jobs, callback, aux>>

\* initialize_scheduler: WS_CONNECTED is read under SCHED_LOCK and the
\* reconnection job is removed or set accordingly before the lock is released.
ReadConnected(t) ==
  /\ At(t, "sched") /\ sched_lock = NoThread
  /\ sched_lock' = t
  /\ Become(t, [thread[t] EXCEPT !.pc = "apply", !.found = connected])
  /\ UNCHANGED <<environment, link, server_up, check_job, checker, callback, aux>>

\* The websocket is checked for only while WS_CONNECTED was read false.
\* Mutated form: the test is the other way round.
CheckNeededNot(is_connected) == is_connected

CheckNeeded(is_connected) == ~is_connected

Apply(t) ==
  /\ At(t, "apply")
  /\ check_job' = CheckNeeded(thread[t].found)
  /\ sched_lock' = NoThread
  /\ Become(t, [Idle EXCEPT !.pc = thread[t].then])
  /\ UNCHANGED <<environment, link, server_up, checker, callback, aux>>

\* The receive loop reads whatever socket WEBSOCKET holds.  A message leaves
\* this state as it is; a broken or closed socket, or a timeout, ends the loop.
Receive(t) ==
  /\ At(t, "loop")
  /\ \/ ~connected /\ Goto(t, "left") /\ UNCHANGED faults
     \/ connected /\ websocket \notin sockets /\ Goto(t, "close") /\ UNCHANGED faults
     \/ /\ connected /\ websocket \in sockets /\ faults < MaxFaults
        /\ faults' = faults + 1
        /\ Goto(t, "close")
  /\ UNCHANGED <<reachable, link, server_up, jobs, callback, aux>>

\* Mutated form of Close: WS_CONNECTED is left as it is.
CloseSocketOnly(t) ==
  /\ At(t, "close")
  /\ sockets' = sockets \ {websocket}
  /\ Goto(t, "left")
  /\ UNCHANGED <<environment, websocket, connected, server_up, jobs, callback, aux>>

\* close(): the socket, then WS_CONNECTED.
Close(t) ==
  /\ \/ /\ At(t, "close")
        /\ sockets' = sockets \ {websocket}
        /\ Goto(t, "closed")
        /\ UNCHANGED connected
     \/ /\ At(t, "closed")
        /\ connected' = FALSE
        /\ Goto(t, "left")
        /\ UNCHANGED sockets
  /\ UNCHANGED <<environment, websocket, server_up, jobs, callback, aux>>

Left(t) ==
  /\ At(t, "left")
  /\ Become(t, [Idle EXCEPT !.pc = IF connected THEN "idle" ELSE "on_disconnect"])
  /\ UNCHANGED <<environment, link, server_up, jobs, callback, aux>>

\* on_disconnect: an outage is announced later, unless the program started
\* with it or it is known already.  An outage the program started in is not
\* announced, its end is.
OnDisconnect(t) ==
  /\ At(t, "on_disconnect")
  /\ server_up' = "down"
  /\ balance' = IF server_up = "unknown" THEN balance + 1 ELSE balance
  /\ Goto(t, IF server_up = "up" THEN "get_job" ELSE "sched")
  /\ UNCHANGED <<environment, link, jobs, callback, died>>

\* schedule_callback('on_intdown', func=on_intdown, seconds=...).
GetJob(t) ==
  /\ At(t, "get_job")
  /\ Become(t, [thread[t] EXCEPT !.pc = "set_job", !.found = down_job])
  /\ UNCHANGED <<environment, link, server_up, jobs, callback, aux>>

SetJob(t) ==
  /\ At(t, "set_job")
  /\ IF thread[t].found = down_job
       THEN /\ down_job' = TRUE
            /\ Become(t, [Idle EXCEPT !.pc = "sched"])
            /\ UNCHANGED died
       ELSE Die(t) /\ UNCHANGED down_job
  /\ UNCHANGED <<environment, link, server_up, jobs, announcing, balance>>

\* The callback leaves the scheduler's store for the executor, and announces;
\* it is not due again before it has.
FireDown ==
  /\ down_job /\ ~announcing
  /\ down_job' = FALSE
  /\ announcing' = TRUE
  /\ UNCHANGED <<environment, link, server_up, jobs, thread, aux>>

Announce ==
  /\ announcing
  /\ announcing' = FALSE
  /\ balance' = balance + 1
  /\ UNCHANGED <<environment, link, server_up, jobs, down_job, thread, died>>

Run(t) ==
  \/ Connect(t) \/ Opened(t) \/ Connected(t)
  \/ OnConnect(t) \/ MarkUp(t) \/ Outer(t) \/ Inner(t) \/ Remove(t)
  \/ ReadConnected(t) \/ Apply(t) \/ Receive(t) \/ Close(t) \/ Left(t)
  \/ OnDisconnect(t) \/ GetJob(t) \/ SetJob(t)

Next ==
  \/ ServerStops \/ ServerReturns
  \/ CheckServer \/ FireDown \/ Announce
  \/ \E t \in Threads : StartThread(t) \/ Run(t)

Spec == Init /\ [][Next]_vars

\* The schedulers and the threads run; of a thread waiting for SCHED_LOCK it is
\* assumed that it gets the lock in the end.
Fairness ==
  /\ WF_vars(CheckServer) /\ WF_vars(FireDown) /\ WF_vars(Announce)
  /\ WF_vars(\E t \in Threads : StartThread(t))
  /\ \A t \in Threads : WF_vars(Run(t)) /\ SF_vars(ReadConnected(t))

FairSpec == Spec /\ Fairness
-----------------------------------------------------------------------------
TypeOK ==
  /\ reachable \in BOOLEAN /\ faults \in 0 .. MaxFaults
  /\ sockets \subseteq Threads
  /\ websocket \in Threads \cup {NoThread}
  /\ connected \in BOOLEAN
  /\ server_up \in {"unknown", "up", "down"}
  /\ check_job \in BOOLEAN /\ checker \in BOOLEAN
  /\ down_job \in BOOLEAN /\ announcing \in BOOLEAN
  /\ sched_lock \in Threads \cup {NoThread}
  /\ thread \in [Threads -> Local]
  /\ balance \in Int
  /\ died \subseteq Threads
  /\ \A t \in Threads : At(t, "apply") <=> sched_lock = t

\* The program is never left without a listening thread and without a way to
\* get one, whatever the threads' interleaving, unless one of them died in
\* schedule_callback.
NeverStranded ==
  (\A t \in Threads : At(t, "idle")) /\ died = {} => checker \/ check_job

\* When no thread is between two steps, the reconnection job is in the store
\* exactly while there is no connection.
JobMatchesConnection ==
  (\A t \in Threads : thread[t].pc \in {"idle", "loop"}) /\ ~checker
    /\ died = {} => (check_job <=> ~connected)

\* At rest with the server up, as many recoveries have been announced as
\* outages, the one the program started in included: an outage shorter than the
\* threshold yields neither notification, a longer one both.  The recoveries
\* lost to the race of on_intdown with its cancellation (Inner, Remove) are the
\* exception.
AnnouncementsBalance ==
  (\A t \in Threads : thread[t].pc \in {"idle", "loop"})
    /\ server_up = "up" /\ ~down_job /\ ~announcing
    => balance = 0

\* Once the server stays reachable a thread ends up listening on an open
\* connection for good, unless a thread died in schedule_callback.
Reconnects ==
  <>[]reachable /\ [](died = {}) =>
    <>[](connected /\ websocket \in sockets /\ \E t \in Threads : At(t, "loop"))
=============================================================================
