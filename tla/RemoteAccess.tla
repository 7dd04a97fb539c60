----------------------------- MODULE RemoteAccess -----------------------------
(***************************************************************************)
(* ReachabilityHandler beside the connection whose threads run it: a       *)
(* websocket thread that receives a reachability event handles it before   *)
(* it receives again, sets PLEX_REMOTE_ACCESS_UP, and sets or cancels the  *)
(* on_extdown callback in ACTIVITY_SCHED that announces an outage longer   *)
(* than NOTIFY_REMOTE_ACCESS_THRESHOLD.                                    *)
(*                                                                         *)
(* What schedule_callback raises is caught by web_socket.process: here it  *)
(* ends the handler and not the thread.                                    *)
(***************************************************************************)
EXTENDS ServerConnection

CONSTANT MaxReports  \* bound: reachability events that reach the handler's requests

ASSUME MaxReportsAssumption == MaxReports \in Nat

VARIABLES
  remote_up,      \* jellypy.PLEX_REMOTE_ACCESS_UP: "unknown", "up" or "down"
  ext_job,        \* on_extdown is in ACTIVITY_SCHED
  ext_announcing, \* on_extdown has been handed to the executor
  handler,        \* ReachabilityHandler.process of each thread
  reports,        \* events handled so far
  told,           \* auxiliary: outages and recoveries put in NOTIFY_QUEUE, the last one
  assumed,        \* auxiliary: outages taken for granted by the first event
  met             \* auxiliary: the callback fired while a recovery was handled

remote_callback == <<ext_job, ext_announcing>>
remote_aux == <<told, assumed, met>>
remote == <<remote_up, remote_callback, handler, reports, remote_aux>>
-----------------------------------------------------------------------------
HandlerPC == {"none", "request", "decide", "scheduled?", "get_job", "set_job",
              "pending?", "cancel", "remove"}

\* failed: server_response has a reason; found: what get_job returned.
Handler == [pc : HandlerPC, failed : BOOLEAN, found : BOOLEAN]

NoHandler == [pc |-> "none", failed |-> FALSE, found |-> FALSE]

Handling(t, pc) == handler[t].pc = pc
Proceed(t, pc) == handler' = [handler EXCEPT ![t].pc = pc]
Done(t) == handler' = [handler EXCEPT ![t] = NoHandler]

\* on_extdown or on_extup is put in NOTIFY_QUEUE.
Tell(news) ==
  told' = [told EXCEPT ![news] = @ + 1, !.last = news]

\* A recovery is being handled, from the change of PLEX_REMOTE_ACCESS_UP on.
Recovering == \E t \in Threads : handler[t].pc \in {"pending?", "cancel", "remove"}

RemoteInit ==
  /\ Init
  /\ remote_up = "unknown"
  /\ ext_job = FALSE /\ ext_announcing = FALSE
  /\ handler = [t \in Threads |-> NoHandler]
  /\ reports = 0
  /\ told = [down |-> 0, up |-> 0, last |-> "none"]
  /\ assumed = 0 /\ met = FALSE

\* An event that says the server is not reachable, while remote access is
\* enabled; any other returns at once.
Report(t) ==
  /\ At(t, "loop") /\ connected /\ websocket \in sockets
  /\ Handling(t, "none")
  /\ reports < MaxReports
  /\ reports' = reports + 1
  /\ Proceed(t, "request")
  /\ UNCHANGED <<remote_up, remote_callback, remote_aux>>

\* get_server_response raises, returns nothing, is still waiting for the port
\* mapping, or has a reason or none.
Response(t) ==
  /\ Handling(t, "request")
  /\ \/ Done(t)
     \/ \E failed \in BOOLEAN :
          handler' = [handler EXCEPT ![t] = [NoHandler EXCEPT !.pc = "decide",
                                                              !.failed = failed]]
  /\ UNCHANGED <<remote_up, remote_callback, reports, remote_aux>>

\* Remote access failed: down unless it is known to be.
Fails(t) ==
  /\ Handling(t, "decide") /\ handler[t].failed
  /\ IF remote_up = "down" THEN Done(t) /\ UNCHANGED remote_up
     ELSE Proceed(t, "scheduled?") /\ remote_up' = "down"
  /\ UNCHANGED <<remote_callback, reports, remote_aux>>

\* Mutated form of Works: the first event does not set the flag.
WorksForgotten(t) ==
  /\ Handling(t, "decide") /\ ~handler[t].failed
  /\ \/ remote_up = "up" /\ Done(t) /\ UNCHANGED <<remote_up, assumed, met>>
     \/ remote_up = "unknown" /\ assumed' = assumed + 1 /\ Done(t)
          /\ UNCHANGED <<remote_up, met>>
     \/ /\ remote_up = "down"
        /\ remote_up' = "up"
        /\ met' = (met \/ ext_announcing)
        /\ Proceed(t, "pending?")
        /\ UNCHANGED assumed
  /\ UNCHANGED <<remote_callback, reports, told>>

\* It works: up again when it was down.  The first event sets the flag to what
\* is_reachable returns, which is false here: an outage is taken for granted.
Works(t) ==
  /\ Handling(t, "decide") /\ ~handler[t].failed
  /\ \/ remote_up = "up" /\ Done(t) /\ UNCHANGED <<remote_up, assumed, met>>
     \/ /\ remote_up = "unknown"
        /\ remote_up' = "down"
        /\ assumed' = assumed + 1
        /\ Done(t)
        /\ UNCHANGED met
     \/ /\ remote_up = "down"
        /\ remote_up' = "up"
        /\ met' = (met \/ ext_announcing)
        /\ Proceed(t, "pending?")
        /\ UNCHANGED assumed
  /\ UNCHANGED <<remote_callback, reports, told>>

\* The handler asks get_job, then schedule_callback does, then it adds or
\* reschedules.
Schedule(t) ==
  /\ \/ /\ Handling(t, "scheduled?")
        /\ IF ext_job THEN Done(t) ELSE Proceed(t, "get_job")
        /\ UNCHANGED ext_job
     \/ /\ Handling(t, "get_job")
        /\ handler' = [handler EXCEPT ![t].pc = "set_job", ![t].found = ext_job]
        /\ UNCHANGED ext_job
     \/ /\ Handling(t, "set_job")
        /\ ext_job' = (ext_job \/ ~handler[t].found)
        /\ Done(t)
  /\ UNCHANGED <<remote_up, ext_announcing, reports, remote_aux>>

\* Mutated form of Cancel: the recovery is announced in either case.
CancelAndTell(t) ==
  /\ Handling(t, "pending?")
  /\ Tell("up")
  /\ ext_job' = FALSE
  /\ Done(t)
  /\ UNCHANGED <<remote_up, ext_announcing, reports, assumed, met>>

\* With on_extdown pending it is cancelled, else the recovery is announced:
\* get_job, get_job again in schedule_callback, remove_job.
Cancel(t) ==
  /\ \/ /\ Handling(t, "pending?")
        /\ IF ext_job THEN Proceed(t, "cancel") /\ UNCHANGED told
                      ELSE Done(t) /\ Tell("up")
        /\ UNCHANGED ext_job
     \/ /\ Handling(t, "cancel")
        /\ IF ext_job THEN Proceed(t, "remove") ELSE Done(t)
        /\ UNCHANGED <<ext_job, told>>
     \/ /\ Handling(t, "remove")
        /\ ext_job' = FALSE
        /\ Done(t)
        /\ UNCHANGED told
  /\ UNCHANGED <<remote_up, ext_announcing, reports, assumed, met>>

\* The callback leaves the scheduler's store for the executor, and announces.
FireExt ==
  /\ ext_job /\ ~ext_announcing
  /\ ext_job' = FALSE
  /\ ext_announcing' = TRUE
  /\ met' = (met \/ Recovering)
  /\ UNCHANGED <<remote_up, handler, reports, told, assumed>>

AnnounceExt ==
  /\ ext_announcing
  /\ ext_announcing' = FALSE
  /\ Tell("down")
  /\ UNCHANGED <<remote_up, ext_job, handler, reports, assumed, met>>

Handle(t) == Report(t) \/ Response(t) \/ Fails(t) \/ Works(t) \/ Schedule(t) \/ Cancel(t)

\* A thread that handles an event does nothing else.
RemoteNext ==
  \/ /\ \/ ServerStops \/ ServerReturns \/ CheckServer \/ FireDown \/ Announce
        \/ \E t \in Threads : StartThread(t) \/ (Handling(t, "none") /\ Run(t))
     /\ UNCHANGED remote
  \/ /\ \/ \E t \in Threads : Handle(t)
        \/ FireExt \/ AnnounceExt
     /\ UNCHANGED vars

RemoteSpec == RemoteInit /\ [][RemoteNext]_<<vars, remote>>
-----------------------------------------------------------------------------
RemoteTypeOK ==
  /\ remote_up \in {"unknown", "up", "down"}
  /\ ext_job \in BOOLEAN /\ ext_announcing \in BOOLEAN
  /\ handler \in [Threads -> Handler]
  /\ reports \in 0 .. MaxReports
  /\ told \in [down : Nat, up : Nat, last : {"none", "down", "up"}]
  /\ assumed \in 0 .. 1 /\ met \in BOOLEAN

RemoteAtRest == (\A t \in Threads : Handling(t, "none")) /\ ~ext_announcing

\* Remote access that is up and has no callback pending has been announced to be
\* up as often as down - the outage the first event takes for granted counts as
\* announced -, and not to be down last; one that is down is announced, or will
\* be.  This holds through lost connections and new threads, unless the callback
\* fired while a recovery was being handled.
RemoteAnnouncementsBalance ==
  RemoteAtRest /\ ~met =>
    /\ remote_up = "up" => /\ ~ext_job
                           /\ told.up = told.down + assumed
                           /\ told.last # "down"
    /\ remote_up = "down" => /\ ext_job \/ told.last = "down" \/ assumed = 1
                             /\ told.up + 1 = told.down + assumed + (IF ext_job THEN 1 ELSE 0)
=============================================================================
