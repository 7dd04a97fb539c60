----------------------- MODULE ServerConnectionProofs -----------------------
(***************************************************************************)
(* The websocket threads and the remote access monitor.                    *)
(*                                                                         *)
(* For any number of threads: type correctness of both, that the program   *)
(* is never stranded, and that the reconnection job agrees with the        *)
(* connection.  These two properties speak of moments when no thread is    *)
(* between two steps.  The invariant says which thread will put things     *)
(* right in between: one that holds the connection while WS_CONNECTED is   *)
(* true, and one that has still to read WS_CONNECTED under SCHED_LOCK      *)
(* while the job disagrees.  SCHED_LOCK makes the argument work: no thread *)
(* that has read another value can overwrite what the last reader did.     *)
(*                                                                         *)
(* For one thread: the announcements of outages and recoveries balance.    *)
(* The invariant keeps an account: what has been announced or will be by a *)
(* callback, and which step of the thread settles it.                      *)
(***************************************************************************)
EXTENDS RemoteAccess, TLAPS

\* Steps of a thread that has connected, before it sets the jobs.
ConnectPath == {"connected", "on_connect", "mark_up", "outer", "inner", "remove"}

\* Thread t listens, is on its way to, or is about to reset WS_CONNECTED.
Holds(t) ==
  \/ thread[t].pc \in ConnectPath \cup {"loop", "close", "closed"}
  \/ thread[t].pc \in {"sched", "apply"} /\ thread[t].then = "loop"

\* Thread t will set the job, if WS_CONNECTED stays false.
WillSet(t) ==
  \/ thread[t].pc \notin {"idle", "loop", "apply"}
  \/ thread[t].pc = "apply" /\ ~thread[t].found

\* Thread t will remove the job, if WS_CONNECTED stays true.
WillRemove(t) ==
  \/ thread[t].pc \in ConnectPath \cup {"sched"}
  \/ thread[t].pc = "apply" /\ thread[t].found

\* No thread is about to apply this value of WS_CONNECTED.
NotRead(is_connected) ==
  \A t \in Threads : ~(At(t, "apply") /\ thread[t].found = is_connected)

ConnectionHeld == connected /\ died = {} => \E t \in Threads : Holds(t)

JobWillBeSet ==
  ~connected /\ died = {} =>
    \/ \E t \in Threads : WillSet(t)
    \/ (checker \/ check_job) /\ NotRead(TRUE)

JobWillBeRemoved ==
  connected /\ died = {} =>
    \/ \E t \in Threads : WillRemove(t)
    \/ ~check_job /\ NotRead(FALSE)

\* A thread that announces a recovery goes on to listen.
Returning(t) ==
  thread[t].pc \in {"mark_up", "outer", "inner", "remove"} => thread[t].then = "loop"

Parts ==
  /\ ConnectionHeld /\ JobWillBeSet /\ JobWillBeRemoved
  /\ \A t \in Threads : Returning(t)

IInv == TypeOK /\ Parts
-----------------------------------------------------------------------------
LEMMA IdleLocal == Idle \in Local
  BY DEF Idle, Local, PC

OnlyMoves(t) ==
  /\ thread \in [Threads -> Local] /\ thread' \in [Threads -> Local]
  /\ \A u \in Threads \ {t} : thread'[u] = thread[u]

\* Giving a thread a legal local state leaves the others where they are.
LEMMA LocalStep ==
  ASSUME TypeOK, NEW t \in Threads, NEW s \in Local, Become(t, s)
  PROVE  OnlyMoves(t) /\ thread'[t] = s
  BY DEF TypeOK, Become, OnlyMoves

\* A thread that dies is idle, and remembered.
LEMMA DieEnds ==
  ASSUME TypeOK, NEW t \in Threads, Die(t)
  PROVE  died' # {} /\ thread'[t].pc = "idle"
<1>1. t \in died'
  BY DEF Die
<1>2. thread'[t] = Idle
  BY IdleLocal, LocalStep DEF Die
<1>3. QED
  BY <1>1, <1>2 DEF Idle

\* Every step of a thread moves this thread alone.
LEMMA ThreadMoves ==
  ASSUME TypeOK, TypeOK', NEW t \in Threads, StartThread(t) \/ Run(t)
  PROVE  OnlyMoves(t)
<1>1. PICK s : Become(t, s)
  BY DEF StartThread, Run, Connect, Opened, Connected, OnConnect, MarkUp, Outer, Inner,
     Remove, ReadConnected, Apply, Receive, Close, Left, OnDisconnect, GetJob, SetJob,
     Goto, Die
<1>2. QED
  BY <1>1 DEF TypeOK, OnlyMoves, Become
-----------------------------------------------------------------------------
\* A step from and to places other than the middle of initialize_scheduler keeps
\* the types and leaves the lock with its holder.
LEMMA MoveTyped ==
  ASSUME TypeOK, NEW t \in Threads, ~At(t, "apply"),
         NEW s \in Local, s.pc # "apply", Become(t, s)
  PROVE  /\ thread' \in [Threads -> Local]
         /\ \A u \in Threads : thread'[u].pc = "apply" <=> sched_lock = u
<1>1. OnlyMoves(t) /\ thread'[t] = s
  BY LocalStep
<1>2. QED
  BY <1>1 DEF OnlyMoves, At, TypeOK

\* Every step keeps the types.
LEMMA TypeKept ==
  ASSUME TypeOK, [Next]_vars
  PROVE  TypeOK'
<1> USE DEF environment, link, jobs, callback, aux, At
<1>1. CASE UNCHANGED vars
  BY <1>1 DEF TypeOK, vars
<1>2. CASE ServerStops
  <2>1. faults' \in 0 .. MaxFaults
    BY <1>2, ConstantsAssumption DEF TypeOK, ServerStops
  <2>2. QED
    BY <1>2, <2>1 DEF TypeOK, ServerStops
<1>3. CASE ServerReturns
  BY <1>3 DEF TypeOK, ServerReturns
<1>4. CASE CheckServer
  BY <1>4 DEF TypeOK, CheckServer
<1>5. CASE FireDown
  BY <1>5 DEF TypeOK, FireDown
<1>6. CASE Announce
  <2>1. balance' \in Int
    BY <1>6 DEF TypeOK, Announce
  <2>2. QED
    BY <1>6, <2>1 DEF TypeOK, Announce
<1>7. ASSUME NEW t \in Threads, StartThread(t) \/ Run(t)
      PROVE  TypeOK'
  <2>1. CASE StartThread(t)
    BY <2>1 DEF TypeOK, Local, PC, StartThread, Become, Goto
  <2>2. CASE Connect(t)
    BY <2>2 DEF TypeOK, Local, PC, Connect, Become, Goto
  <2>3. CASE Opened(t)
    BY <2>3 DEF TypeOK, Local, PC, Opened, Become, Goto
  <2>4. CASE Connected(t)
    BY <2>4 DEF TypeOK, Local, PC, Connected, Become, Goto
  <2>5. CASE OnConnect(t)
    BY <2>5 DEF TypeOK, Local, PC, OnConnect, Become, Idle
  <2>6. CASE MarkUp(t)
    BY <2>6 DEF TypeOK, Local, PC, MarkUp, Become, Goto
  <2>7. CASE Outer(t)
    BY <2>7 DEF TypeOK, Local, PC, Outer, Become, Goto
  <2>8. CASE Inner(t)
    BY <2>8 DEF TypeOK, Local, PC, Inner, Become, Goto
  <2>9. CASE Remove(t)
    <3> DEFINE s == IF down_job THEN [thread[t] EXCEPT !.pc = "sched"] ELSE Idle
    <3>1. s \in Local /\ s.pc # "apply"
      BY IdleLocal DEF TypeOK, Local, PC, Idle
    <3>2. Become(t, s) /\ ~At(t, "apply")
      BY <2>9 DEF Remove, Goto, Die
    <3> HIDE DEF s
    <3>3. /\ thread' \in [Threads -> Local]
          /\ \A u \in Threads : thread'[u].pc = "apply" <=> sched_lock = u
      BY <3>1, <3>2, MoveTyped
    <3>4. balance' \in Int
      BY <2>9 DEF TypeOK, Remove
    <3>5. died' \subseteq Threads
      BY <2>9 DEF TypeOK, Remove, Die
    <3>6. QED
      BY <2>9, <3>3, <3>4, <3>5 DEF TypeOK, Remove
  <2>10. CASE ReadConnected(t)
    BY <2>10, ConstantsAssumption DEF TypeOK, Local, PC, ReadConnected, Become
  <2>11. CASE Apply(t)
    BY <2>11, ConstantsAssumption DEF TypeOK, Local, PC, Apply, Become, Idle, CheckNeeded
  <2>12. CASE Receive(t)
    BY <2>12, ConstantsAssumption DEF TypeOK, Local, PC, Receive, Become, Goto
  <2>13. CASE Close(t)
    <3>1. PICK pc \in {"closed", "left"} : Goto(t, pc) /\ ~At(t, "apply")
      BY <2>13 DEF Close
    <3>2. /\ thread' \in [Threads -> Local]
          /\ \A u \in Threads : thread'[u].pc = "apply" <=> sched_lock = u
      BY <3>1 DEF TypeOK, Local, PC, Become, Goto
    <3>3. sockets' \subseteq Threads /\ connected' \in BOOLEAN
      BY <2>13 DEF TypeOK, Close
    <3>4. QED
      BY <2>13, <3>2, <3>3 DEF TypeOK, Close
  <2>14. CASE Left(t)
    BY <2>14 DEF TypeOK, Local, PC, Left, Become, Idle
  <2>15. CASE OnDisconnect(t)
    BY <2>15 DEF TypeOK, Local, PC, OnDisconnect, Become, Goto
  <2>16. CASE GetJob(t)
    BY <2>16 DEF TypeOK, Local, PC, GetJob, Become
  <2>17. CASE SetJob(t)
    <3> DEFINE s == IF thread[t].found = down_job THEN [Idle EXCEPT !.pc = "sched"] ELSE Idle
    <3>1. s \in Local /\ s.pc # "apply"
      BY IdleLocal DEF Local, PC, Idle
    <3>2. Become(t, s) /\ ~At(t, "apply")
      BY <2>17 DEF SetJob, Die
    <3> HIDE DEF s
    <3>3. /\ thread' \in [Threads -> Local]
          /\ \A u \in Threads : thread'[u].pc = "apply" <=> sched_lock = u
      BY <3>1, <3>2, MoveTyped
    <3>4. died' \subseteq Threads /\ down_job' \in BOOLEAN
      BY <2>17 DEF TypeOK, SetJob, Die
    <3>5. QED
      BY <2>17, <3>3, <3>4 DEF TypeOK, SetJob
  <2>18. QED
    BY <1>7, <2>1, <2>2, <2>3, <2>4, <2>5, <2>6, <2>7, <2>8, <2>9, <2>10,
       <2>11, <2>12, <2>13, <2>14, <2>15, <2>16, <2>17
    DEF Run
<1>8. QED
  BY <1>1, <1>2, <1>3, <1>4, <1>5, <1>6, <1>7 DEF Next
-----------------------------------------------------------------------------
\* A step of t that leaves the connection and the job alone must leave it, if it
\* was responsible for one of them, responsible, and not in the way.
Harmless(t) ==
  /\ connected => /\ Holds(t) => Holds(t)'
                  /\ WillRemove(t) => WillRemove(t)'
                  /\ ~(thread'[t].pc = "apply" /\ ~thread'[t].found)
  /\ ~connected => /\ WillSet(t) => WillSet(t)'
                   /\ ~(thread'[t].pc = "apply" /\ thread'[t].found)

\* Such a step keeps the invariant: the other threads' parts have not changed.
LEMMA PlainStep ==
  ASSUME Parts, NEW t \in Threads, OnlyMoves(t),
         UNCHANGED <<connected, check_job, checker>>,
         died' = {} => died = {} /\ Harmless(t),
         Returning(t)'
  PROVE  Parts'
<1>1. \A u \in Threads \ {t} : /\ Holds(u)' <=> Holds(u)
                               /\ WillRemove(u)' <=> WillRemove(u)
                               /\ WillSet(u)' <=> WillSet(u)
                               /\ Returning(u)' <=> Returning(u)
  BY DEF OnlyMoves, Holds, WillRemove, WillSet, Returning
<1>2. ConnectionHeld'
  BY <1>1 DEF Parts, ConnectionHeld, Harmless
<1>3. died' = {} /\ ~connected /\ NotRead(TRUE) => NotRead(TRUE)'
  BY DEF NotRead, OnlyMoves, At, Local, Harmless
<1>4. died' = {} /\ connected /\ NotRead(FALSE) => NotRead(FALSE)'
  BY DEF NotRead, OnlyMoves, At, Local, Harmless
<1>5. JobWillBeSet'
  BY <1>1, <1>3 DEF Parts, JobWillBeSet, Harmless
<1>6. JobWillBeRemoved'
  BY <1>1, <1>4 DEF Parts, JobWillBeRemoved, Harmless
<1>7. \A u \in Threads : Returning(u)'
  BY <1>1 DEF Parts
<1>8. QED
  BY <1>2, <1>5, <1>6, <1>7 DEF Parts

\* The steps that change neither WS_CONNECTED nor the job.
Plain(t) ==
  \/ Connect(t) \/ Connected(t) \/ OnConnect(t) \/ MarkUp(t) \/ Outer(t) \/ Inner(t)
  \/ Remove(t) \/ ReadConnected(t) \/ Receive(t) \/ Left(t) \/ OnDisconnect(t)
  \/ GetJob(t) \/ SetJob(t)

LEMMA PlainFrame ==
  ASSUME NEW t \in Threads, Plain(t)
  PROVE  UNCHANGED <<connected, check_job, checker>> /\ (died' = {} => died = {})
  BY DEF Plain, Connect, Connected, OnConnect, MarkUp, Outer, Inner, Remove, ReadConnected,
     Receive, Left, OnDisconnect, GetJob, SetJob, Die, link, jobs, aux

\* Each of them is harmless, from where it leaves the thread.
LEMMA PlainKeeps ==
  ASSUME IInv, TypeOK', NEW t \in Threads, Plain(t)
  PROVE  Parts'
<1> DEFINE Fine == (died' = {} => Harmless(t)) /\ Returning(t)'
<1>1. TypeOK /\ Returning(t)
  BY DEF IInv, Parts
<1>2. OnlyMoves(t)
  BY <1>1, ThreadMoves DEF Plain, Run
<1>3. SUFFICES Fine
  BY <1>2, PlainFrame, PlainStep DEF IInv
<1>4. CASE Connect(t)
  <2>1. thread[t].pc = "connect" /\ thread'[t].pc \in {"opened", "connected"}
    BY <1>1, <1>4 DEF TypeOK, Local, Connect, Become, Goto, At
  <2>2. QED
    BY <1>1, <2>1 DEF TypeOK, Local, Harmless, Holds, WillRemove, WillSet, Returning, ConnectPath
<1>5. CASE Connected(t)
  <2>1. /\ thread[t].pc = "connected"
        /\ thread'[t].pc = IF connected THEN "on_connect" ELSE "left"
    BY <1>1, <1>5 DEF TypeOK, Local, Connected, Become, Goto, At
  <2>2. QED
    BY <1>1, <2>1 DEF TypeOK, Local, Harmless, Holds, WillRemove, WillSet, Returning, ConnectPath
<1>6. CASE OnConnect(t)
  <2>1. /\ thread[t].pc = "on_connect" /\ thread'[t].then = "loop"
        /\ thread'[t].pc \in {"mark_up", "sched"}
    BY <1>1, <1>6 DEF TypeOK, Local, OnConnect, Become, At, Idle
  <2>2. QED
    BY <1>1, <2>1 DEF TypeOK, Local, Harmless, Holds, WillRemove, WillSet, Returning, ConnectPath
<1>7. CASE MarkUp(t)
  <2>1. /\ thread[t].pc = "mark_up" /\ thread'[t].then = thread[t].then
        /\ thread'[t].pc = "outer"
    BY <1>1, <1>7 DEF TypeOK, Local, MarkUp, Become, Goto, At
  <2>2. QED
    BY <1>1, <2>1 DEF TypeOK, Local, Harmless, Holds, WillRemove, WillSet, Returning, ConnectPath
<1>8. CASE Outer(t)
  <2>1. /\ thread[t].pc = "outer" /\ thread'[t].then = thread[t].then
        /\ thread'[t].pc \in {"inner", "sched"}
    BY <1>1, <1>8 DEF TypeOK, Local, Outer, Become, Goto, At
  <2>2. QED
    BY <1>1, <2>1 DEF TypeOK, Local, Harmless, Holds, WillRemove, WillSet, Returning, ConnectPath
<1>9. CASE Inner(t)
  <2>1. /\ thread[t].pc = "inner" /\ thread'[t].then = thread[t].then
        /\ thread'[t].pc \in {"remove", "sched"}
    BY <1>1, <1>9 DEF TypeOK, Local, Inner, Become, Goto, At
  <2>2. QED
    BY <1>1, <2>1 DEF TypeOK, Local, Harmless, Holds, WillRemove, WillSet, Returning, ConnectPath
<1>10. CASE Remove(t)
  <2>1. /\ thread[t].pc = "remove"
        /\ IF down_job THEN thread'[t].pc = "sched" /\ thread'[t].then = thread[t].then
                       ELSE died' # {} /\ thread'[t].pc = "idle"
    BY <1>1, <1>10, DieEnds DEF TypeOK, Local, Remove, Become, Goto, At
  <2>2. QED
    BY <1>1, <2>1 DEF TypeOK, Local, Harmless, Holds, WillRemove, WillSet, Returning, ConnectPath
<1>11. CASE ReadConnected(t)
  <2>1. /\ thread[t].pc = "sched" /\ thread'[t].then = thread[t].then
        /\ thread'[t].pc = "apply" /\ thread'[t].found = connected
    BY <1>1, <1>11 DEF TypeOK, Local, ReadConnected, Become, At
  <2>2. QED
    BY <1>1, <2>1 DEF TypeOK, Local, Harmless, Holds, WillRemove, WillSet, Returning, ConnectPath
<1>12. CASE Receive(t)
  <2>1. thread[t].pc = "loop" /\ thread'[t].pc = IF connected THEN "close" ELSE "left"
    BY <1>1, <1>12 DEF TypeOK, Local, Receive, Become, Goto, At
  <2>2. QED
    BY <1>1, <2>1 DEF TypeOK, Local, Harmless, Holds, WillRemove, WillSet, Returning, ConnectPath
<1>13. CASE Left(t)
  <2>1. /\ thread[t].pc = "left"
        /\ thread'[t].pc = IF connected THEN "idle" ELSE "on_disconnect"
    BY <1>1, <1>13 DEF TypeOK, Local, Left, Become, At, Idle
  <2>2. QED
    BY <1>1, <2>1 DEF TypeOK, Local, Harmless, Holds, WillRemove, WillSet, Returning, ConnectPath
<1>14. CASE OnDisconnect(t)
  <2>1. thread[t].pc = "on_disconnect" /\ thread'[t].pc \in {"get_job", "sched"}
    BY <1>1, <1>14 DEF TypeOK, Local, OnDisconnect, Become, Goto, At
  <2>2. QED
    BY <1>1, <2>1 DEF TypeOK, Local, Harmless, Holds, WillRemove, WillSet, Returning, ConnectPath
<1>15. CASE GetJob(t)
  <2>1. thread[t].pc = "get_job" /\ thread'[t].pc = "set_job"
    BY <1>1, <1>15 DEF TypeOK, Local, GetJob, Become, At
  <2>2. QED
    BY <1>1, <2>1 DEF TypeOK, Local, Harmless, Holds, WillRemove, WillSet, Returning, ConnectPath
<1>16. CASE SetJob(t)
  <2>1. /\ thread[t].pc = "set_job"
        /\ (thread'[t].pc = "sched" \/ (died' # {} /\ thread'[t].pc = "idle"))
    BY <1>1, <1>16, DieEnds DEF TypeOK, Local, SetJob, Become, At, Idle
  <2>2. QED
    BY <1>1, <2>1 DEF TypeOK, Local, Harmless, Holds, WillRemove, WillSet, Returning, ConnectPath
<1>17. QED
  BY <1>4, <1>5, <1>6, <1>7, <1>8, <1>9, <1>10, <1>11, <1>12,
     <1>13, <1>14, <1>15, <1>16 DEF Plain

\* The thread that takes over from the job is the one that will set it again.
LEMMA StartThreadKeeps ==
  ASSUME IInv, TypeOK', NEW t \in Threads, StartThread(t)
  PROVE  Parts'
<1>1. OnlyMoves(t)
  BY DEF IInv, TypeOK, OnlyMoves, StartThread, Become, Goto
<1>2. UNCHANGED <<connected, check_job, died>>
  BY DEF StartThread, link, aux
<1>3. thread[t].pc = "idle" /\ thread'[t].pc = "connect"
  BY DEF IInv, TypeOK, Local, StartThread, Become, Goto, At
<1>4. \A u \in Threads \ {t} : /\ Holds(u)' <=> Holds(u)
                               /\ WillRemove(u)' <=> WillRemove(u)
                               /\ Returning(u)' <=> Returning(u)
  BY <1>1 DEF OnlyMoves, Holds, WillRemove, Returning
<1>5. ~Holds(t) /\ ~WillRemove(t) /\ Returning(t)' /\ WillSet(t)'
  BY <1>3 DEF Holds, WillRemove, Returning, WillSet, ConnectPath
<1>6. NotRead(FALSE) => NotRead(FALSE)'
  BY <1>1, <1>3 DEF NotRead, OnlyMoves, At
<1>7. ConnectionHeld' /\ JobWillBeSet' /\ JobWillBeRemoved'
  BY <1>2, <1>4, <1>5, <1>6 DEF IInv, Parts, ConnectionHeld, JobWillBeSet, JobWillBeRemoved
<1>8. QED
  BY <1>4, <1>5, <1>7 DEF IInv, Parts

\* The thread that sets WS_CONNECTED holds the connection and will remove the job.
LEMMA OpenedKeeps ==
  ASSUME IInv, TypeOK', NEW t \in Threads, Opened(t)
  PROVE  Parts'
<1>1. OnlyMoves(t) /\ connected' = TRUE
  BY DEF IInv, TypeOK, OnlyMoves, Opened, Become, Goto
<1>2. thread'[t].pc = "connected"
  BY DEF IInv, TypeOK, Local, Opened, Become, Goto
<1>3. Holds(t)' /\ WillRemove(t)' /\ Returning(t)'
  BY <1>2 DEF Holds, WillRemove, Returning, ConnectPath
<1>4. \A u \in Threads : Returning(u)'
  BY <1>1, <1>3 DEF IInv, Parts, Returning, OnlyMoves
<1>5. QED
  BY <1>1, <1>3, <1>4 DEF Parts, ConnectionHeld, JobWillBeSet, JobWillBeRemoved

\* Under SCHED_LOCK the job is made to agree with what was read; if WS_CONNECTED has
\* changed since, some other thread is still to read it.
LEMMA ApplyKeeps ==
  ASSUME IInv, TypeOK', NEW t \in Threads, Apply(t)
  PROVE  Parts'
<1>1. OnlyMoves(t)
  BY DEF IInv, TypeOK, OnlyMoves, Apply, Become
<1>2. UNCHANGED <<connected, died, checker>> /\ check_job' = ~thread[t].found
  BY DEF Apply, CheckNeeded, link, aux
<1>3. /\ thread[t].pc = "apply" /\ thread[t].found \in BOOLEAN
      /\ thread'[t].pc = thread[t].then /\ thread[t].then \in {"idle", "loop"}
  BY DEF IInv, TypeOK, Local, Apply, Become, At, Idle
<1>4. \A u \in Threads : ~At(u, "apply")'
  BY ConstantsAssumption DEF TypeOK, Apply, At
<1>5. \A u \in Threads \ {t} : /\ Holds(u)' <=> Holds(u)
                               /\ WillRemove(u)' <=> WillRemove(u)
                               /\ WillSet(u)' <=> WillSet(u)
                               /\ Returning(u)' <=> Returning(u)
  BY <1>1 DEF OnlyMoves, Holds, WillRemove, WillSet, Returning
<1>6. NotRead(TRUE)' /\ NotRead(FALSE)'
  BY <1>4 DEF NotRead, At
<1>7. /\ Holds(t) => Holds(t)'
      /\ WillRemove(t) <=> thread[t].found
      /\ WillSet(t) <=> ~thread[t].found
      /\ Returning(t)'
  BY <1>3 DEF Holds, WillRemove, WillSet, Returning, ConnectPath
<1>8. ConnectionHeld'
  BY <1>2, <1>5, <1>7 DEF IInv, Parts, ConnectionHeld
<1>9. NotRead(~thread[t].found)
  BY DEF IInv, TypeOK, NotRead, At, Apply
<1>10. JobWillBeSet'
  BY <1>2, <1>3, <1>5, <1>6, <1>7 DEF IInv, Parts, JobWillBeSet, NotRead, At
<1>11. JobWillBeRemoved'
  BY <1>2, <1>3, <1>5, <1>6, <1>7 DEF IInv, Parts, JobWillBeRemoved, NotRead, At
<1>12. QED
  BY <1>5, <1>7, <1>8, <1>10, <1>11 DEF IInv, Parts

\* The thread that resets WS_CONNECTED will set the job.
LEMMA CloseKeeps ==
  ASSUME IInv, TypeOK', NEW t \in Threads, Close(t)
  PROVE  Parts'
<1>1. OnlyMoves(t) /\ UNCHANGED <<check_job, checker, died>>
  BY DEF IInv, TypeOK, OnlyMoves, Close, Become, Goto, jobs, aux
<1>2. CASE At(t, "close")
  <2>1. connected' = connected /\ thread[t].pc = "close" /\ thread'[t].pc = "closed"
    BY <1>2 DEF IInv, TypeOK, Local, Close, Become, Goto, At
  <2>2. Harmless(t) /\ Returning(t)'
    BY <2>1 DEF Harmless, Holds, WillRemove, WillSet, Returning, ConnectPath
  <2>3. QED
    BY <1>1, <2>1, <2>2, PlainStep DEF IInv
<1>3. CASE At(t, "closed")
  <2>1. connected' = FALSE /\ thread'[t].pc = "left"
    BY <1>3 DEF IInv, TypeOK, Local, Close, Become, Goto, At
  <2>2. WillSet(t)' /\ Returning(t)'
    BY <2>1 DEF WillSet, Returning
  <2>3. \A u \in Threads : Returning(u)'
    BY <1>1, <2>2 DEF IInv, Parts, Returning, OnlyMoves
  <2>4. QED
    BY <2>1, <2>2, <2>3 DEF Parts, ConnectionHeld, JobWillBeSet, JobWillBeRemoved
<1>4. QED
  BY <1>2, <1>3 DEF Close

\* Steps of the server and of the schedulers.
LEMMA OtherStepKeeps ==
  ASSUME IInv, ServerStops \/ ServerReturns \/ CheckServer \/ FireDown \/ Announce
  PROVE  Parts'
<1>1. /\ UNCHANGED <<connected, check_job, died, thread>>
      /\ checker => checker'
  BY DEF ServerStops, ServerReturns, CheckServer, FireDown, Announce,
         link, jobs, callback, environment, aux
<1>2. \A t \in Threads : /\ Holds(t)' <=> Holds(t)
                         /\ WillRemove(t)' <=> WillRemove(t)
                         /\ WillSet(t)' <=> WillSet(t)
                         /\ Returning(t)' <=> Returning(t)
  BY <1>1 DEF Holds, WillRemove, WillSet, Returning
<1>3. (NotRead(TRUE)' <=> NotRead(TRUE)) /\ (NotRead(FALSE)' <=> NotRead(FALSE))
  BY <1>1 DEF NotRead, At
<1>4. QED
  BY <1>1, <1>2, <1>3 DEF IInv, Parts, ConnectionHeld, JobWillBeSet, JobWillBeRemoved

\* Every step keeps the rest of the invariant.
LEMMA PartsKept ==
  ASSUME IInv, TypeOK', [Next]_vars
  PROVE  Parts'
<1>1. CASE UNCHANGED vars
  BY <1>1 DEF IInv, Parts, ConnectionHeld, JobWillBeSet, JobWillBeRemoved, Holds, WillRemove,
     WillSet, Returning, NotRead, At, vars, link, jobs, aux
<1>2. CASE ServerStops \/ ServerReturns \/ CheckServer \/ FireDown \/ Announce
  BY <1>2, OtherStepKeeps
<1>3. ASSUME NEW t \in Threads, StartThread(t) \/ Run(t)
      PROVE  Parts'
  BY <1>3, PlainKeeps, StartThreadKeeps, OpenedKeeps, ApplyKeeps, CloseKeeps DEF Run, Plain
<1>4. QED
  BY <1>1, <1>2, <1>3 DEF Next

\* The program starts without threads, with connect_server running.
LEMMA InitIInv == Init => IInv
<1> SUFFICES ASSUME Init PROVE IInv
  OBVIOUS
<1>1. TypeOK
  <2>1. thread \in [Threads -> Local] /\ \A t \in Threads : ~At(t, "apply") /\ sched_lock # t
    BY ConstantsAssumption, IdleLocal DEF Init, At, Idle
  <2>2. faults \in 0 .. MaxFaults
    BY ConstantsAssumption DEF Init
  <2>3. balance \in Int
    BY DEF Init
  <2>4. /\ reachable \in BOOLEAN /\ connected \in BOOLEAN
        /\ check_job \in BOOLEAN /\ checker \in BOOLEAN
        /\ down_job \in BOOLEAN /\ announcing \in BOOLEAN
        /\ sockets \subseteq Threads /\ died \subseteq Threads
        /\ websocket = NoThread /\ server_up = "unknown" /\ sched_lock = NoThread
    BY DEF Init
  <2>5. QED
    BY <2>1, <2>2, <2>3, <2>4 DEF TypeOK
<1>2. \A t \in Threads : thread[t].pc = "idle"
  BY DEF Init, Idle
<1>3. Parts
  BY <1>2 DEF Init, Parts, ConnectionHeld, JobWillBeSet, JobWillBeRemoved, NotRead, At, Returning
<1>4. QED
  BY <1>1, <1>3 DEF IInv
-----------------------------------------------------------------------------
\* The inductive invariant holds of every run of the websocket threads and jobs.
THEOREM Invariance == Spec => []IInv
<1>1. IInv /\ [Next]_vars => IInv'
  BY TypeKept, PartsKept DEF IInv
<1>2. QED
  BY <1>1, InitIInv, PTL DEF Spec

\* The connection state has its types, and a thread sets the jobs exactly while it
\* holds SCHED_LOCK (initialize_scheduler).
THEOREM TypeCorrect == Spec => []TypeOK
<1>1. IInv => TypeOK
  BY DEF IInv
<1>2. QED
  BY <1>1, Invariance, PTL

\* However many threads run and in whatever order they open, close and overwrite the
\* connection: without a thread there is a way to get one (web_socket.run), unless a
\* thread died in schedule_callback.
THEOREM NotStranded == Spec => []NeverStranded
<1>1. IInv => NeverStranded
  <2> SUFFICES ASSUME IInv, \A t \in Threads : At(t, "idle"), died = {}
               PROVE  checker \/ check_job
    BY DEF NeverStranded
  <2>1. \A t \in Threads : ~Holds(t) /\ ~WillSet(t)
    BY DEF Holds, WillSet, ConnectPath, At
  <2>2. QED
    BY <2>1 DEF IInv, TypeOK, Parts, ConnectionHeld, JobWillBeSet
<1>2. QED
  BY <1>1, Invariance, PTL

\* When the threads rest, 'Check for server response' is in the store exactly while
\* WS_CONNECTED is false (initialize_scheduler), for any number of threads.
THEOREM JobMatches == Spec => []JobMatchesConnection
<1>1. IInv => JobMatchesConnection
  <2> SUFFICES ASSUME IInv, \A t \in Threads : thread[t].pc \in {"idle", "loop"},
                      ~checker, died = {}
               PROVE  check_job <=> ~connected
    BY DEF JobMatchesConnection
  <2>1. \A t \in Threads : ~WillRemove(t) /\ ~WillSet(t)
    BY DEF WillRemove, WillSet, ConnectPath
  <2>2. QED
    BY <2>1 DEF IInv, TypeOK, Parts, JobWillBeSet, JobWillBeRemoved
<1>2. QED
  BY <1>1, Invariance, PTL
-----------------------------------------------------------------------------
\* Outages announced or about to be, less recoveries announced.
Owed == balance + (IF down_job THEN 1 ELSE 0) + (IF announcing THEN 1 ELSE 0)

Cancelling == {"outer", "inner", "remove"}
Scheduling == {"get_job", "set_job"}

\* With one thread t, the account of the announcements at each of its steps: an
\* outage is owed its announcement once on_intdown is scheduled, and a recovery
\* settles it by cancelling the callback or by announcing itself.
Account(t) ==
  /\ server_up = "unknown" =>
       /\ thread[t].pc \notin Cancelling \cup Scheduling \cup {"mark_up"}
       /\ ~down_job /\ Owed = 0
  /\ server_up = "up" =>
       \/ thread[t].pc \in Cancelling /\ Owed = 1
       \/ /\ thread[t].pc \notin Cancelling \cup Scheduling \cup {"mark_up"}
          /\ ~down_job /\ Owed = 0
  /\ server_up = "down" =>
       \/ /\ thread[t].pc \in Scheduling
          /\ ~down_job /\ Owed = 0
          /\ thread[t].pc = "set_job" => ~thread[t].found
       \/ thread[t].pc \notin Cancelling \cup Scheduling /\ Owed = 1

\* Every step of the one thread, and of the callback, keeps the account.
LEMMA AccountKept ==
  ASSUME NEW t, Threads = {t}, IInv, TypeOK', Account(t), [Next]_vars
  PROVE  Account(t)'
<1> DEFINE pc == thread[t].pc
<1>1. /\ balance \in Int /\ balance' \in Int
      /\ down_job \in BOOLEAN /\ down_job' \in BOOLEAN
      /\ announcing \in BOOLEAN /\ announcing' \in BOOLEAN
      /\ server_up \in {"unknown", "up", "down"}
  BY DEF IInv, TypeOK
<1>2. thread[t] \in Local /\ thread'[t] \in Local
  BY DEF IInv, TypeOK
<1>3. CASE UNCHANGED <<server_up, balance, callback, thread>>
  BY <1>3 DEF Account, Owed, callback
<1>4. ASSUME UNCHANGED <<server_up, balance, callback>>,
             pc \notin Cancelling \cup Scheduling \cup {"mark_up"},
             thread'[t].pc \notin Cancelling \cup Scheduling \cup {"mark_up"}
      PROVE  Account(t)'
  BY <1>4 DEF Account, Owed, callback
<1>5. CASE FireDown
  <2>1. /\ down_job = TRUE /\ down_job' = FALSE
        /\ announcing = FALSE /\ announcing' = TRUE
        /\ UNCHANGED <<server_up, balance, thread>>
    BY <1>1, <1>5 DEF FireDown, aux
  <2>2. Owed' = Owed
    BY <1>1, <2>1 DEF Owed
  <2>3. QED
    BY <2>1, <2>2 DEF Account
<1>6. CASE Announce
  BY <1>1, <1>6 DEF Announce, Account, Owed
<1>7. CASE StartThread(t)
  <2>1. pc = "idle" /\ thread'[t].pc = "connect"
    BY <1>2, <1>7 DEF IInv, TypeOK, Local, StartThread, Become, Goto, At
  <2>2. QED
    BY <1>4, <1>7, <2>1 DEF StartThread, aux, Cancelling, Scheduling
<1>8. CASE Connect(t)
  <2>1. pc = "connect" /\ thread'[t].pc \in {"opened", "connected"}
    BY <1>2, <1>8 DEF IInv, TypeOK, Local, Connect, Become, Goto, At
  <2>2. QED
    BY <1>4, <1>8, <2>1 DEF Connect, aux, Cancelling, Scheduling
<1>9. CASE Opened(t)
  <2>1. pc = "opened" /\ thread'[t].pc \in {"connected"}
    BY <1>2, <1>9 DEF IInv, TypeOK, Local, Opened, Become, Goto, At
  <2>2. QED
    BY <1>4, <1>9, <2>1 DEF Opened, aux, Cancelling, Scheduling
<1>10. CASE Connected(t)
  <2>1. pc = "connected" /\ thread'[t].pc \in {"on_connect", "left"}
    BY <1>2, <1>10 DEF IInv, TypeOK, Local, Connected, Become, Goto, At
  <2>2. QED
    BY <1>4, <1>10, <2>1 DEF Connected, aux, Cancelling, Scheduling
<1>11. CASE ReadConnected(t)
  <2>1. pc = "sched" /\ thread'[t].pc \in {"apply"}
    BY <1>2, <1>11 DEF IInv, TypeOK, Local, ReadConnected, Become, At
  <2>2. QED
    BY <1>4, <1>11, <2>1 DEF ReadConnected, aux, Cancelling, Scheduling
<1>12. CASE Apply(t)
  <2>1. pc = "apply" /\ thread'[t].pc \in {"idle", "loop"}
    BY <1>2, <1>12 DEF IInv, TypeOK, Local, Apply, Become, At, Idle
  <2>2. QED
    BY <1>4, <1>12, <2>1 DEF Apply, aux, Cancelling, Scheduling
<1>13. CASE Receive(t)
  <2>1. pc = "loop" /\ thread'[t].pc \in {"left", "close"}
    BY <1>2, <1>13 DEF IInv, TypeOK, Local, Receive, Become, Goto, At
  <2>2. QED
    BY <1>4, <1>13, <2>1 DEF Receive, aux, Cancelling, Scheduling
<1>14. CASE Left(t)
  <2>1. pc = "left" /\ thread'[t].pc \in {"idle", "on_disconnect"}
    BY <1>2, <1>14 DEF IInv, TypeOK, Local, Left, Become, At, Idle
  <2>2. QED
    BY <1>4, <1>14, <2>1 DEF Left, aux, Cancelling, Scheduling
<1>15. CASE Close(t)
  <2>1. pc \in {"close", "closed"} /\ thread'[t].pc \in {"closed", "left"}
    BY <1>2, <1>15 DEF IInv, TypeOK, Local, Close, Become, Goto, At
  <2>2. QED
    BY <1>4, <1>15, <2>1 DEF Close, aux, Cancelling, Scheduling
<1>16. CASE OnConnect(t)
  <2>1. pc = "on_connect" /\ thread'[t].pc = IF server_up = "down" THEN "mark_up" ELSE "sched"
    BY <1>2, <1>16 DEF IInv, TypeOK, Local, OnConnect, Become, Idle, At
  <2>2. QED
    BY <1>1, <1>16, <2>1 DEF OnConnect, Account, Owed, Cancelling, Scheduling, callback, aux
<1>17. CASE MarkUp(t)
  <2>1. pc = "mark_up" /\ thread'[t].pc = "outer"
    BY <1>2, <1>17 DEF IInv, TypeOK, Local, MarkUp, Become, Goto, At
  <2>2. QED
    BY <1>1, <1>17, <2>1 DEF MarkUp, Account, Owed, Cancelling, Scheduling, callback, aux
<1>18. CASE Outer(t)
  <2>1. pc = "outer" /\ thread'[t].pc = IF down_job THEN "inner" ELSE "sched"
    BY <1>2, <1>18 DEF IInv, TypeOK, Local, Outer, Become, Goto, At
  <2>2. QED
    BY <1>1, <1>18, <2>1 DEF Outer, Account, Owed, Cancelling, Scheduling, callback, aux
<1>19. CASE Inner(t)
  <2>1. pc = "inner" /\ thread'[t].pc = IF down_job THEN "remove" ELSE "sched"
    BY <1>2, <1>19 DEF IInv, TypeOK, Local, Inner, Become, Goto, At
  <2>2. QED
    BY <1>1, <1>19, <2>1 DEF Inner, Account, Owed, Cancelling, Scheduling, callback, aux
<1>20. CASE Remove(t)
  <2>1. pc = "remove" /\ thread'[t].pc \in {"sched", "idle"}
    BY <1>2, <1>20 DEF IInv, TypeOK, Local, Remove, Become, Goto, Die, Idle, At
  <2>2. server_up = "up" /\ Owed = 1
    BY <1>1, <2>1 DEF Account, Cancelling, Scheduling
  <2>3. UNCHANGED <<server_up, announcing>> /\ down_job' = FALSE
    BY <1>20 DEF Remove
  <2>4. balance' = IF down_job THEN balance ELSE balance - 1
    BY <1>1, <1>20 DEF Remove, aux
  <2>5. Owed' = 0
    BY <1>1, <2>2, <2>3, <2>4 DEF Owed
  <2>6. QED
    BY <2>1, <2>2, <2>3, <2>5 DEF Account, Cancelling, Scheduling
<1>21. CASE OnDisconnect(t)
  <2>1. pc = "on_disconnect" /\ thread'[t].pc = IF server_up = "up" THEN "get_job" ELSE "sched"
    BY <1>2, <1>21 DEF IInv, TypeOK, Local, OnDisconnect, Become, Goto, At
  <2>2. QED
    BY <1>1, <1>21, <2>1 DEF OnDisconnect, Account, Owed, Cancelling, Scheduling, callback, aux
<1>22. CASE GetJob(t)
  <2>1. /\ pc = "get_job" /\ thread'[t].pc = "set_job"
        /\ thread'[t].found = down_job
    BY <1>2, <1>22 DEF IInv, TypeOK, Local, GetJob, Become, At
  <2>2. QED
    BY <1>1, <1>22, <2>1 DEF GetJob, Account, Owed, Cancelling, Scheduling, callback, aux
<1>23. CASE SetJob(t)
  <2>1. /\ pc = "set_job"
        /\ thread[t].found = down_job => thread'[t].pc = "sched"
    BY <1>2, <1>23 DEF IInv, TypeOK, Local, SetJob, Become, Idle, At
  <2>2. server_up = "down" /\ ~down_job /\ Owed = 0 /\ ~thread[t].found
    BY <1>1, <2>1 DEF Account, Cancelling, Scheduling
  <2>3. thread[t].found = down_job
    BY <1>1, <1>2, <2>2 DEF Local
  <2>4. UNCHANGED <<server_up, announcing, balance>> /\ down_job' = TRUE
    BY <1>23, <2>3 DEF SetJob
  <2>5. Owed' = 1
    BY <1>1, <2>2, <2>4 DEF Owed
  <2>6. QED
    BY <2>1, <2>2, <2>3, <2>4, <2>5 DEF Account, Cancelling, Scheduling
<1>24. CASE ServerStops \/ ServerReturns \/ CheckServer \/ UNCHANGED vars
  BY <1>3, <1>24 DEF ServerStops, ServerReturns, CheckServer, vars, aux
<1>25. QED
  BY <1>5, <1>6, <1>7, <1>8, <1>9, <1>10, <1>11, <1>12, <1>13, <1>14, <1>15,
     <1>16, <1>17, <1>18, <1>19, <1>20, <1>21, <1>22, <1>23, <1>24 DEF Next, Run

\* One thread announces as many recoveries as outages: with the server up and no
\* callback pending none is owed (on_connect, on_disconnect, on_intdown).
THEOREM OutagesAndRecoveries ==
  ASSUME NEW t, Threads = {t}
  PROVE  Spec => []AnnouncementsBalance
<1>1. Init => Account(t)
  BY DEF Init, Account, Owed, Idle, Cancelling, Scheduling
<1>2. IInv /\ IInv' /\ Account(t) /\ [Next]_vars => Account(t)'
  BY AccountKept DEF IInv
<1>3. IInv /\ Account(t) => AnnouncementsBalance
  <2> SUFFICES ASSUME IInv, Account(t), thread[t].pc \in {"idle", "loop"},
                      server_up = "up", ~down_job, ~announcing
               PROVE  balance = 0
    BY DEF AnnouncementsBalance
  <2>1. balance \in Int
    BY DEF IInv, TypeOK
  <2>2. QED
    BY <2>1 DEF Account, Owed, Cancelling
<1>4. QED
  BY <1>1, <1>2, <1>3, Invariance, PTL DEF Spec
-----------------------------------------------------------------------------
\* The first event takes an outage for granted, and no later one.
RemoteIInv ==
  /\ RemoteTypeOK
  /\ remote_up = "unknown" => assumed = 0

\* The same account for remote access.
RemoteOwed ==
  told.down - told.up + assumed + (IF ext_job THEN 1 ELSE 0)
                                + (IF ext_announcing THEN 1 ELSE 0)

\* Steps of the handler that come before it knows of a change.
Asking == {"none", "request", "decide"}

\* Remote access is up, or a recovery is being handled by t.
AccountUp(t) ==
  /\ ~ext_announcing
  /\ \/ /\ handler[t].pc \in Asking
        /\ ~ext_job /\ RemoteOwed = 0 /\ told.last # "down"
     \/ /\ handler[t].pc \in {"pending?", "cancel", "remove"}
        /\ handler[t].pc # "pending?" => ext_job
        /\ RemoteOwed = 1
        /\ ext_job => told.last # "down"

\* Remote access is down, or t is about to schedule its announcement.
AccountDown(t) ==
  \/ /\ handler[t].pc \in {"scheduled?", "get_job", "set_job"}
     /\ ~ext_job /\ ~ext_announcing /\ RemoteOwed = 0 /\ told.last # "down"
     /\ handler[t].pc = "set_job" => ~handler[t].found
  \/ /\ handler[t].pc \in Asking /\ RemoteOwed = 1
     /\ ext_job => ~ext_announcing /\ told.last # "down"
     /\ ext_job \/ ext_announcing \/ told.last = "down" \/ assumed = 1

RemoteAccount(t) ==
  ~met =>
    /\ remote_up = "unknown" => /\ handler[t].pc \in Asking
                                /\ ~ext_job /\ ~ext_announcing
                                /\ RemoteOwed = 0 /\ told.last # "down"
    /\ remote_up = "up" => AccountUp(t)
    /\ remote_up = "down" => AccountDown(t)

\* The handler leaves the connection alone: what holds of every run of the
\* connection holds of every run of both.
THEOREM RemoteConnection == RemoteSpec => Spec
<1>1. RemoteInit => Init
  BY DEF RemoteInit
<1>2. [RemoteNext]_<<vars, remote>> => [Next]_vars
  BY DEF RemoteNext, Next
<1>3. QED
  BY <1>1, <1>2, PTL DEF RemoteSpec, Spec

\* Replacing the state of one handler keeps the handlers' type.
LEMMA HandlerStep ==
  ASSUME RemoteTypeOK, NEW t \in Threads, NEW h \in Handler,
         handler' = [handler EXCEPT ![t] = h]
  PROVE  handler' \in [Threads -> Handler] /\ handler'[t] = h
  BY DEF RemoteTypeOK

LEMMA ProceedStep ==
  ASSUME RemoteTypeOK, NEW t \in Threads, NEW p \in HandlerPC, Proceed(t, p)
  PROVE  /\ handler' \in [Threads -> Handler]
         /\ handler'[t].pc = p /\ handler'[t].found = handler[t].found
  BY DEF RemoteTypeOK, Handler, Proceed

LEMMA DoneStep ==
  ASSUME RemoteTypeOK, NEW t \in Threads, Done(t)
  PROVE  handler' \in [Threads -> Handler] /\ handler'[t].pc = "none"
<1>1. NoHandler \in Handler
  BY DEF NoHandler, Handler, HandlerPC
<1>2. handler' \in [Threads -> Handler] /\ handler'[t] = NoHandler
  BY <1>1, HandlerStep DEF Done
<1>3. QED
  BY <1>2 DEF NoHandler

\* What a notification put in the queue adds to the account.
LEMMA TellStep ==
  ASSUME RemoteTypeOK, NEW news \in {"down", "up"}, Tell(news)
  PROVE  /\ told' \in [down : Nat, up : Nat, last : {"none", "down", "up"}]
         /\ told'.last = news
         /\ told'.down = told.down + (IF news = "down" THEN 1 ELSE 0)
         /\ told'.up = told.up + (IF news = "up" THEN 1 ELSE 0)
<1>1. told \in [down : Nat, up : Nat, last : {"none", "down", "up"}]
  BY DEF RemoteTypeOK
<1>2. CASE news = "down"
  <2>1. told' = [down |-> told.down + 1, up |-> told.up, last |-> "down"]
    BY <1>1, <1>2 DEF Tell
  <2>2. QED
    BY <1>1, <1>2, <2>1
<1>3. CASE news = "up"
  <2>1. told' = [down |-> told.down, up |-> told.up + 1, last |-> "up"]
    BY <1>1, <1>3 DEF Tell
  <2>2. QED
    BY <1>1, <1>3, <2>1
<1>4. QED
  BY <1>2, <1>3

\* Where each step of a handler leaves it.
LEMMA HandlerMoves ==
  ASSUME RemoteTypeOK, NEW t \in Threads, Handle(t)
  PROVE  handler' \in [Threads -> Handler]
<1>1. ASSUME NEW p \in HandlerPC, Proceed(t, p)
      PROVE  handler' \in [Threads -> Handler]
  BY <1>1, ProceedStep
<1>2. CASE Done(t)
  BY <1>2, DoneStep
<1>3. CASE Report(t)
  BY <1>1, <1>3 DEF Report, HandlerPC
<1>4. CASE Response(t)
  <2>1. ASSUME NEW f \in BOOLEAN
        PROVE  [NoHandler EXCEPT !.pc = "decide", !.failed = f] \in Handler
    BY DEF NoHandler, Handler, HandlerPC
  <2>2. QED
    BY <1>2, <1>4, <2>1, HandlerStep DEF Response
<1>5. CASE Fails(t)
  BY <1>1, <1>2, <1>5 DEF Fails, HandlerPC
<1>6. CASE Works(t)
  BY <1>1, <1>2, <1>6 DEF Works, HandlerPC
<1>7. CASE Schedule(t)
  <2>1. ASSUME handler' = [handler EXCEPT ![t].pc = "set_job", ![t].found = ext_job]
        PROVE  handler' \in [Threads -> Handler]
    BY <2>1 DEF RemoteTypeOK, Handler, HandlerPC
  <2>2. QED
    BY <1>1, <1>2, <1>7, <2>1 DEF Schedule, HandlerPC
<1>8. CASE Cancel(t)
  BY <1>1, <1>2, <1>8 DEF Cancel, HandlerPC
<1>9. QED
  BY <1>3, <1>4, <1>5, <1>6, <1>7, <1>8 DEF Handle

\* Every step keeps the handler's types.
LEMMA RemoteTypeKept ==
  ASSUME RemoteIInv, [RemoteNext]_<<vars, remote>>
  PROVE  RemoteIInv'
<1> USE DEF RemoteTypeOK, remote_callback, remote_aux
<1>1. CASE UNCHANGED remote
  BY <1>1 DEF RemoteIInv, remote
<1>2. ASSUME NEW t \in Threads, Handle(t)
      PROVE  RemoteIInv'
  <2>1. handler' \in [Threads -> Handler]
    BY <1>2, HandlerMoves DEF RemoteIInv
  <2>2. CASE Report(t)
    <3>1. reports' \in 0 .. MaxReports
      BY <2>2, MaxReportsAssumption DEF RemoteIInv, Report
    <3>2. QED
      BY <2>1, <2>2, <3>1 DEF RemoteIInv, Report
  <2>3. CASE Response(t)
    BY <2>1, <2>3 DEF RemoteIInv, Response
  <2>4. CASE Fails(t)
    BY <2>1, <2>4 DEF RemoteIInv, Fails
  <2>5. CASE Works(t)
    BY <2>1, <2>5 DEF RemoteIInv, Works
  <2>6. CASE Schedule(t)
    BY <2>1, <2>6 DEF RemoteIInv, Schedule
  <2>7. CASE Cancel(t)
    <3>1. told' \in [down : Nat, up : Nat, last : {"none", "down", "up"}]
      BY <2>7, TellStep DEF RemoteIInv, Cancel
    <3>2. ext_job' \in BOOLEAN
      BY <2>7 DEF RemoteIInv, Cancel
    <3>3. QED
      BY <2>1, <2>7, <3>1, <3>2 DEF RemoteIInv, Cancel
  <2>8. QED
    BY <1>2, <2>2, <2>3, <2>4, <2>5, <2>6, <2>7 DEF Handle
<1>3. CASE FireExt
  BY <1>3 DEF RemoteIInv, FireExt, Recovering
<1>4. CASE AnnounceExt
  <2>1. told' \in [down : Nat, up : Nat, last : {"none", "down", "up"}]
    BY <1>4, TellStep DEF RemoteIInv, AnnounceExt
  <2>2. QED
    BY <1>4, <2>1 DEF RemoteIInv, AnnounceExt
<1>5. QED
  BY <1>1, <1>2, <1>3, <1>4 DEF RemoteNext

\* The inductive invariant of the handler's state, for any number of threads.
THEOREM RemoteInvariance == RemoteSpec => []RemoteIInv
<1>1. RemoteInit => RemoteIInv
  <2> SUFFICES ASSUME RemoteInit PROVE RemoteIInv
    OBVIOUS
  <2>1. handler \in [Threads -> Handler]
    BY DEF RemoteInit, NoHandler, Handler, HandlerPC
  <2>2. told \in [down : Nat, up : Nat, last : {"none", "down", "up"}]
    BY DEF RemoteInit
  <2>3. reports \in 0 .. MaxReports
    BY MaxReportsAssumption DEF RemoteInit
  <2>4. assumed = 0 /\ assumed \in 0 .. 1
    BY DEF RemoteInit
  <2>5. /\ remote_up = "unknown"
        /\ ext_job \in BOOLEAN /\ ext_announcing \in BOOLEAN /\ met \in BOOLEAN
    BY DEF RemoteInit
  <2>6. QED
    BY <2>1, <2>2, <2>3, <2>4, <2>5 DEF RemoteIInv, RemoteTypeOK
<1>2. QED
  BY <1>1, RemoteTypeKept, PTL DEF RemoteSpec

\* The state of ReachabilityHandler has its types, and an outage is taken for
\* granted once at most (ReachabilityHandler.process), for any number of threads.
THEOREM RemoteTypeCorrect == RemoteSpec => []RemoteTypeOK
<1>1. RemoteIInv => RemoteTypeOK
  BY DEF RemoteIInv
<1>2. QED
  BY <1>1, RemoteInvariance, PTL
-----------------------------------------------------------------------------
\* Every step of the one handler, and of the callback, keeps the account of remote
\* access, unless the callback fires while a recovery is handled.
LEMMA RemoteAccountKept ==
  ASSUME NEW t, Threads = {t}, RemoteIInv, RemoteIInv', RemoteAccount(t),
         [RemoteNext]_<<vars, remote>>
  PROVE  RemoteAccount(t)'
<1> DEFINE pc == handler[t].pc
<1>1. /\ told.down \in Nat /\ told.up \in Nat /\ told'.down \in Nat /\ told'.up \in Nat
      /\ assumed \in Nat /\ assumed' \in Nat
      /\ ext_job \in BOOLEAN /\ ext_job' \in BOOLEAN
      /\ ext_announcing \in BOOLEAN /\ ext_announcing' \in BOOLEAN
      /\ met \in BOOLEAN /\ met' \in BOOLEAN
      /\ remote_up \in {"unknown", "up", "down"}
  BY DEF RemoteIInv, RemoteTypeOK
<1>2. RemoteTypeOK /\ t \in Threads
  BY DEF RemoteIInv
<1> USE DEF RemoteAccount, AccountUp, AccountDown, RemoteOwed, Asking,
            remote_callback, remote_aux
<1>3. CASE UNCHANGED remote
  BY <1>3 DEF remote
<1>4. ASSUME UNCHANGED <<remote_up, remote_callback, remote_aux>>,
             pc \in Asking, handler'[t].pc \in Asking
      PROVE  RemoteAccount(t)'
  BY <1>4
<1>5. CASE Report(t)
  <2>1. pc = "none" /\ handler'[t].pc = "request"
    BY <1>2, <1>5, ProceedStep DEF Report, Handling, HandlerPC
  <2>2. QED
    BY <1>4, <1>5, <2>1 DEF Report
<1>6. CASE Response(t)
  <2>1. pc = "request" /\ handler'[t].pc \in {"none", "decide"}
    <3>1. CASE Done(t)
      BY <1>2, <1>6, <3>1, DoneStep DEF Response, Handling
    <3>2. ASSUME NEW f \in BOOLEAN,
                 handler' = [handler EXCEPT ![t] = [NoHandler EXCEPT !.pc = "decide",
                                                                     !.failed = f]]
          PROVE  handler'[t].pc = "decide"
      BY <1>2, <3>2 DEF RemoteTypeOK, NoHandler
    <3>3. QED
      BY <1>6, <3>1, <3>2 DEF Response, Handling
  <2>2. QED
    BY <1>4, <1>6, <2>1 DEF Response
<1>7. CASE Fails(t)
  <2>1. /\ pc = "decide"
        /\ handler'[t].pc = IF remote_up = "down" THEN "none" ELSE "scheduled?"
    BY <1>2, <1>7, DoneStep, ProceedStep DEF Fails, Handling, HandlerPC
  <2>2. QED
    BY <1>1, <1>7, <2>1 DEF Fails
<1>8. CASE Works(t)
  <2>1. /\ pc = "decide"
        /\ handler'[t].pc = IF remote_up = "down" THEN "pending?" ELSE "none"
    BY <1>2, <1>8, DoneStep, ProceedStep DEF Works, Handling, HandlerPC
  <2>2. UNCHANGED <<ext_job, ext_announcing, told>>
    BY <1>8 DEF Works
  <2>3. ~met' => ~met
    BY <1>8 DEF Works
  <2>4. CASE remote_up = "up"
    <3>1. UNCHANGED <<remote_up, assumed>>
      BY <1>8, <2>4 DEF Works
    <3>2. QED
      BY <1>1, <2>1, <2>2, <2>3, <2>4, <3>1
  <2>5. CASE remote_up = "unknown"
    <3>1. remote_up' = "down" /\ assumed' = assumed + 1 /\ assumed = 0
      BY <1>8, <2>5 DEF Works, RemoteIInv
    <3>2. QED
      BY <1>1, <2>1, <2>2, <2>3, <2>5, <3>1
  <2>6. CASE remote_up = "down"
    <3>1. remote_up' = "up" /\ assumed' = assumed /\ (~met' => ~ext_announcing)
      BY <1>8, <2>6 DEF Works
    <3>2. QED
      BY <1>1, <2>1, <2>2, <2>3, <2>6, <3>1
  <2>7. QED
    BY <1>1, <2>4, <2>5, <2>6
<1>9. CASE Schedule(t)
  <2>1. CASE pc = "scheduled?"
    <3>1. handler'[t].pc = IF ext_job THEN "none" ELSE "get_job"
      BY <1>2, <1>9, <2>1, DoneStep, ProceedStep DEF Schedule, Handling, HandlerPC
    <3>2. QED
      BY <1>1, <1>9, <2>1, <3>1 DEF Schedule, Handling
  <2>2. CASE pc = "get_job"
    <3>1. handler'[t].pc = "set_job" /\ handler'[t].found = ext_job
      BY <1>2, <1>9, <2>2 DEF Schedule, Handling, RemoteTypeOK, Handler
    <3>2. QED
      BY <1>1, <1>9, <2>2, <3>1 DEF Schedule, Handling
  <2>3. CASE pc = "set_job"
    <3>1. handler'[t].pc = "none"
      BY <1>2, <1>9, <2>3, DoneStep DEF Schedule, Handling
    <3>2. UNCHANGED <<remote_up, ext_announcing, told, assumed, met>>
      BY <1>9 DEF Schedule
    <3>3. ~handler[t].found => ext_job' = TRUE
      BY <1>9, <2>3 DEF Schedule, Handling
    <3>4. CASE met
      BY <3>2, <3>4
    <3>5. CASE ~met
      <4>1. /\ remote_up = "down" /\ ~ext_job /\ ~ext_announcing
            /\ ~handler[t].found /\ RemoteOwed = 0 /\ told.last # "down"
        BY <1>1, <2>3, <3>5
      <4>2. QED
        BY <1>1, <3>1, <3>2, <3>3, <4>1
    <3>6. QED
      BY <3>4, <3>5
  <2>4. QED
    BY <1>9, <2>1, <2>2, <2>3 DEF Schedule, Handling
<1>10. CASE Cancel(t)
  <2>1. CASE pc = "pending?" /\ ext_job
    <3>1. handler'[t].pc = "cancel"
      BY <1>2, <1>10, <2>1, ProceedStep DEF Cancel, Handling, HandlerPC
    <3>2. QED
      BY <1>1, <1>10, <2>1, <3>1 DEF Cancel, Handling
  <2>2. CASE pc = "pending?" /\ ~ext_job
    <3>1. handler'[t].pc = "none"
      BY <1>2, <1>10, <2>2, DoneStep DEF Cancel, Handling
    <3>2. /\ told'.last = "up" /\ told'.down = told.down
          /\ told'.up = told.up + 1
      BY <1>1, <1>2, <1>10, <2>2, TellStep DEF Cancel, Handling
    <3>3. QED
      BY <1>1, <1>10, <2>2, <3>1, <3>2 DEF Cancel, Handling
  <2>3. CASE pc = "cancel"
    <3>1. handler'[t].pc = IF ext_job THEN "remove" ELSE "none"
      BY <1>2, <1>10, <2>3, DoneStep, ProceedStep DEF Cancel, Handling, HandlerPC
    <3>2. QED
      BY <1>1, <1>10, <2>3, <3>1 DEF Cancel, Handling
  <2>4. CASE pc = "remove"
    <3>1. handler'[t].pc = "none"
      BY <1>2, <1>10, <2>4, DoneStep DEF Cancel, Handling
    <3>2. QED
      BY <1>1, <1>10, <2>4, <3>1 DEF Cancel, Handling
  <2>5. QED
    BY <1>10, <2>1, <2>2, <2>3, <2>4 DEF Cancel, Handling
<1>11. CASE FireExt
  <2>1. ~met' => ~met /\ pc \notin {"pending?", "cancel", "remove"}
    BY <1>1, <1>11 DEF FireExt, Recovering
  <2>2. QED
    BY <1>1, <1>11, <2>1 DEF FireExt
<1>12. CASE AnnounceExt
  <2>1. /\ told'.last = "down" /\ told'.down = told.down + 1
        /\ told'.up = told.up
    BY <1>1, <1>2, <1>12, TellStep DEF AnnounceExt
  <2>2. QED
    BY <1>1, <1>12, <2>1 DEF AnnounceExt
<1>13. QED
  BY <1>3, <1>5, <1>6, <1>7, <1>8, <1>9, <1>10, <1>11, <1>12 DEF RemoteNext, Handle

\* One thread announces remote access to be down and up in turn, and what it is last
\* said to be is true or about to be (ReachabilityHandler.process, on_extdown),
\* unless the callback fired while a recovery was handled.
THEOREM RemoteOutagesAndRecoveries ==
  ASSUME NEW t, Threads = {t}
  PROVE  RemoteSpec => []RemoteAnnouncementsBalance
<1>1. RemoteInit => RemoteAccount(t)
  BY DEF RemoteInit, RemoteAccount, RemoteOwed, Asking, NoHandler
<1>2. RemoteIInv /\ RemoteIInv' /\ RemoteAccount(t) /\ [RemoteNext]_<<vars, remote>>
        => RemoteAccount(t)'
  BY RemoteAccountKept
<1>3. RemoteIInv /\ RemoteAccount(t) => RemoteAnnouncementsBalance
  <2> SUFFICES ASSUME RemoteIInv, RemoteAccount(t), RemoteAtRest, ~met
               PROVE  RemoteAnnouncementsBalance
    BY DEF RemoteAnnouncementsBalance
  <2>1. /\ told.down \in Nat /\ told.up \in Nat /\ assumed \in Nat
        /\ ext_job \in BOOLEAN
    BY DEF RemoteIInv, RemoteTypeOK
  <2>2. handler[t].pc = "none" /\ ~ext_announcing
    BY DEF RemoteAtRest, Handling
  <2>3. CASE remote_up = "up"
    BY <2>1, <2>2, <2>3 DEF RemoteAccount, AccountUp, RemoteOwed, RemoteAnnouncementsBalance
  <2>4. CASE remote_up = "down"
    BY <2>1, <2>2, <2>4 DEF RemoteAccount, AccountDown, RemoteOwed, RemoteAnnouncementsBalance
  <2>5. QED
    BY <2>3, <2>4 DEF RemoteAnnouncementsBalance
<1>4. QED
  BY <1>1, <1>2, <1>3, RemoteInvariance, PTL DEF RemoteSpec
=============================================================================
