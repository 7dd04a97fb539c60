---------------------------- MODULE SessionMonitor ----------------------------
(***************************************************************************)
(* The temporary sessions table and the three kinds of thread that work on *)
(* it: the websocket handlers (ActivityHandler.process), the force-stop    *)
(* callbacks (force_stop_stream, one per session key, fired by             *)
(* ACTIVITY_SCHED) and the activity check (check_active_sessions).         *)
(*                                                                         *)
(* Each database statement and each call of the scheduler is an action:    *)
(* db_lock and the scheduler's lock are held for one of them at a time.    *)
(* upsert is two statements, schedule_callback two calls.                  *)
(*                                                                         *)
(* A row of sessions is known by its id.  A row inserted by an upsert that *)
(* names only the session key has no item (rating_key is NULL).            *)
(* delete_session(row_id=...) is no action: its first branch tests         *)
(* str(None), so the DELETE it runs matches no row.                        *)
(***************************************************************************)
EXTENDS Naturals, Sequences, Functions

CONSTANTS
  Keys,         \* session keys; each is also the name of its callback thread
  Items,        \* rating keys
  NoItem,       \* the NULL rating key, and the item of an idle thread
  NoKey,        \* the session key of an idle handler
  Handlers,     \* websocket threads
  MaxAttempts,  \* SESSION_DB_WRITE_ATTEMPTS
  EventStates,  \* the states events may carry
  ServerFails,  \* whether a request to the server may fail
  MaxRows,      \* bound: rows ever inserted
  MaxEvents     \* bound: websocket events

ASSUME ConstantsAssumption ==
  /\ NoItem \notin Items /\ NoKey \notin Keys
  /\ Keys \cap Handlers = {}
  /\ MaxAttempts \in Nat \ {0}
  /\ EventStates \subseteq {"playing", "buffering", "paused", "stopped", "error"}
  /\ ServerFails \in BOOLEAN
  /\ MaxRows \in Nat /\ MaxEvents \in Nat

VARIABLES
  sessions,  \* the sessions table: a function from row ids to rows
  next_id,   \* AUTOINCREMENT
  jobs,      \* keys whose force-stop job is in ACTIVITY_SCHED
  thread,    \* local state of handlers and callbacks
  probe,     \* local state of check_active_sessions
  events,    \* websocket events received so far
  written,   \* auxiliary: ids write_session_history returned
  guarded,   \* auxiliary: ids that were in the table when a job of their key was set
  tries,     \* auxiliary: callbacks that failed to write a row, by id
  lost       \* auxiliary: keys on which, since a job was last set, a thread
             \* raised, a run was skipped, or the job was cancelled on behalf of
             \* a row that had been deleted

aux == <<written, guarded, tries, lost>>
vars == <<sessions, next_id, jobs, thread, probe, events, aux>>
-----------------------------------------------------------------------------
Threads == Handlers \cup Keys
Ids == 1 .. MaxRows
States == {"playing", "buffering", "paused", "stopped", "error"}

\* "none" is the NULL state of a row inserted without one.
Row == [key : Keys, item : Items \cup {NoItem}, state : States \cup {"none"},
        attempts : Nat]

PC == {"idle", "read", "get_job", "set_job", "branch", "touch", "touch_insert",
       "live", "write", "write_insert", "state", "state_insert", "load",
       "history", "reread", "bump"}

Goals == {"none", "start", "update", "stop", "switch"}

\* key, item and state come from the event; id, seen, status and attempts from
\* the row a thread last read (id 0: there was none); found, remove and next
\* are the progress, the argument and the return point of schedule_callback; rest
\* is the updates still to come.
Local == [pc : PC, goal : Goals, key : Keys \cup {NoKey},
          item : Items \cup {NoItem}, state : States \cup {"none"},
          id : Nat, seen : Items \cup {NoItem}, status : States \cup {"none"},
          attempts : Nat, found : BOOLEAN, remove : BOOLEAN,
          next : {"idle", "branch", "live"}, rest : Seq({"touch", "live"})]

Idle == [pc |-> "idle", goal |-> "none", key |-> NoKey, item |-> NoItem,
         state |-> "none", id |-> 0, seen |-> NoItem, status |-> "none",
         attempts |-> 0, found |-> FALSE, remove |-> FALSE, next |-> "idle",
         rest |-> << >>]

NoProbe == [pc |-> "idle", key |-> NoKey, item |-> NoItem]

OfKey(k) == {id \in DOMAIN sessions : sessions[id].key = k}

\* The row SELECT ... WHERE session_key = ? finds first: the oldest.
First(k) == {id \in OfKey(k) : \A other \in OfKey(k) : id <= other}

\* A local state after reading the row of its key.
Reading(s, id) == [s EXCEPT !.id = id, !.seen = sessions[id].item,
                            !.status = sessions[id].state,
                            !.attempts = sessions[id].attempts]

At(t, pc) == thread[t].pc = pc
Become(t, s) == thread' = [thread EXCEPT ![t] = s]
Goto(t, pc) == Become(t, [thread[t] EXCEPT !.pc = pc])

\* schedule_callback(key, func, ...) or schedule_callback(key, remove_job=True),
\* then on to next.
Schedule(s, remove, next) ==
  [s EXCEPT !.pc = "get_job", !.remove = remove, !.next = next]

\* The callback of a play that could not be written is set again.
\* Mutated form: it is cancelled as if the play had been written.
RetryCancelled(s, next) == Schedule(s, TRUE, next)

Retry(s, next) == Schedule(s, FALSE, next)

\* The attempts of a play are used up.  Mutated form: one attempt too early.
ExhaustedEarly(attempts) == attempts + 1 >= MaxAttempts

Exhausted(attempts) == attempts >= MaxAttempts

\* What increment_write_attempts stores.  Mutated form: the count it read.
IncrementedNot(attempts) == attempts

Incremented(attempts) == attempts + 1

\* An exception ends the handler or the callback; nothing is rolled back.
Raise(t) ==
  /\ Become(t, Idle)
  /\ lost' = lost \cup {thread[t].key}

\* Mutated form of InsertRow: the id is handed out again.
InsertRowReusingId(row) ==
  /\ next_id <= MaxRows
  /\ sessions' = [id \in DOMAIN sessions \cup {next_id} |->
                    IF id = next_id THEN row ELSE sessions[id]]
  /\ UNCHANGED next_id

InsertRow(row) ==
  /\ next_id <= MaxRows
  /\ sessions' = [id \in DOMAIN sessions \cup {next_id} |->
                    IF id = next_id THEN row ELSE sessions[id]]
  /\ next_id' = next_id + 1

SetRows(ids, f(_)) ==
  sessions' = [id \in DOMAIN sessions |->
                 IF id \in ids THEN f(sessions[id]) ELSE sessions[id]]

DeleteRows(ids) == sessions' = Restrict(sessions, DOMAIN sessions \ ids)
-----------------------------------------------------------------------------
Init ==
  /\ sessions = << >>
  /\ next_id = 1
  /\ jobs = {}
  /\ thread = [t \in Threads |-> Idle]
  /\ probe = NoProbe
  /\ events = 0
  /\ written = {}
  /\ guarded = {}
  /\ tries = [id \in Ids |-> 0]
  /\ lost = {}

\* web_socket.process hands a playing notification to ActivityHandler.process.
Receive(h) ==
  /\ At(h, "idle")
  /\ events < MaxEvents
  /\ events' = events + 1
  /\ \E k \in Keys, i \in Items, s \in EventStates :
       Become(h, [Idle EXCEPT !.pc = "read", !.key = k, !.item = i, !.state = s])
  /\ UNCHANGED <<sessions, next_id, jobs, probe, aux>>

\* The handlers process calls, each from its first step that changes state or
\* asks the server: on_start, on_stop, and the sequence of updates one event may
\* cause.
Enter(s, pc, goal) == [Idle EXCEPT !.pc = pc, !.goal = goal, !.key = s.key,
                                   !.item = s.item, !.state = s.state]

OnStart(s) == Enter(s, "live", "start")
OnStop(s, force_stop) == Enter(s, "touch", IF force_stop THEN "switch" ELSE "stop")

Updates(s, calls) ==
  IF calls = << >> THEN Idle
  ELSE [Enter(s, Head(calls), "update") EXCEPT !.rest = Tail(calls)]

OnPause == <<"touch">>
OnResume == <<"touch">>
OnChange == <<"live">>
OnBuffer == <<"live">>
OnError == <<"live">>

\* A known session has its five-minute callback put off; an unknown one is
\* started unless it is buffering.
Read(h) ==
  LET s == thread[h]
  IN  /\ At(h, "read")
      /\ \/ \E id \in First(s.key) :
              Become(h, Schedule(Reading(s, id), FALSE, "branch"))
         \/ /\ OfKey(s.key) = {}
            /\ Become(h, IF s.state = "buffering" THEN Idle ELSE OnStart(s))
      /\ UNCHANGED <<sessions, next_id, jobs, probe, events, aux>>

GetJob(t) ==
  /\ At(t, "get_job")
  /\ Become(t, [thread[t] EXCEPT !.pc = "set_job", !.found = thread[t].key \in jobs])
  /\ UNCHANGED <<sessions, next_id, jobs, probe, events, aux>>

\* remove_job and reschedule_job raise when the job has gone since get_job,
\* add_job when one has been added.
SetJob(t) ==
  LET s == thread[t]
      on == IF s.next = "idle" THEN Idle
            ELSE [s EXCEPT !.pc = s.next, !.found = FALSE, !.remove = FALSE,
                           !.next = "idle"]
  IN  /\ At(t, "set_job")
      /\ \/ /\ ~s.remove /\ s.found = (s.key \in jobs)
            /\ jobs' = jobs \cup {s.key}
            /\ guarded' = guarded \cup OfKey(s.key)
            /\ lost' = lost \ {s.key}
            /\ Become(t, on)
         \/ /\ s.remove /\ (s.found => s.key \in jobs)
            /\ jobs' = IF s.found THEN jobs \ {s.key} ELSE jobs
            /\ Become(t, on)
            /\ lost' = IF s.id \in DOMAIN sessions THEN lost ELSE lost \cup {s.key}
            /\ UNCHANGED guarded
         \/ /\ IF s.remove THEN s.found /\ s.key \notin jobs
                           ELSE s.found # (s.key \in jobs)
            /\ Raise(t)
            /\ UNCHANGED <<jobs, guarded>>
      /\ UNCHANGED <<sessions, next_id, probe, events, written, tries>>

\* The state checks against the row that was read.  A row with no item has no
\* transcode_key to split, which raises.  stale, paused and changed stand for the
\* age of stopped, for last_paused and for a new transcode key.
Branch(h) ==
  LET s == thread[h]
      same == s.item = s.seen
      news == s.state # s.status
      If(test, calls) == IF test THEN calls ELSE << >>
  IN  /\ At(h, "branch")
      /\ \/ s.seen = NoItem /\ Raise(h)
         \/ /\ s.seen # NoItem
            /\ UNCHANGED lost
            /\ \/ ~same /\ Become(h, OnStop(s, TRUE))
               \/ same /\ s.state = "stopped"
                  /\ Become(h, IF news THEN OnStop(s, FALSE) ELSE Idle)
               \/ /\ same /\ s.state # "stopped"
                  /\ \E stale, paused, changed \in BOOLEAN :
                       Become(h, Updates(s,
                         If(s.state = "playing" /\ stale, <<"live">>)
                         \o If(s.state = "paused", OnPause)
                         \o If(s.state = "playing" /\ news /\ paused, OnResume)
                         \o If(s.state = "error" /\ news, OnError)
                         \o If(s.state = "buffering", OnBuffer)
                         \o If(changed, OnChange)))
      /\ UNCHANGED <<sessions, next_id, jobs, probe, events, written, guarded, tries>>

\* set_session_last_paused: an upsert by session key.
Touch(h) ==
  LET s == thread[h]
      onward == CASE s.goal = "stop"   -> "state"
                  [] s.goal = "switch" -> "load"
                  [] OTHER             -> "live"
  IN  /\ \/ /\ At(h, "touch")
            /\ Goto(h, IF OfKey(s.key) = {} THEN "touch_insert" ELSE onward)
            /\ UNCHANGED <<sessions, next_id>>
         \/ /\ At(h, "touch_insert")
            /\ InsertRow([key |-> s.key, item |-> NoItem, state |-> "none",
                          attempts |-> 0])
            /\ Goto(h, onward)
      /\ UNCHANGED <<jobs, probe, events, aux>>

\* get_live_session: the server lists the session, or does not, or the request
\* raises.  on_start gives up without it; an update only sets the state.
Live(h) ==
  LET s == thread[h]
  IN  /\ At(h, "live")
      /\ \/ Goto(h, "write") /\ UNCHANGED lost
         \/ /\ IF s.goal = "update" THEN Goto(h, "state") ELSE Become(h, Idle)
            /\ UNCHANGED lost
         \/ ServerFails /\ Raise(h)
      /\ UNCHANGED <<sessions, next_id, jobs, probe, events, written, guarded, tries>>

\* write_session: an upsert by session key and rating key.
Write(h) ==
  LET s == thread[h]
      same == {id \in OfKey(s.key) : sessions[id].item = s.item}
  IN  /\ \/ /\ At(h, "write")
            /\ SetRows(same, LAMBDA r : [r EXCEPT !.state = s.state])
            /\ Goto(h, IF same = {} THEN "write_insert" ELSE "state")
            /\ UNCHANGED next_id
         \/ /\ At(h, "write_insert")
            /\ InsertRow([key |-> s.key, item |-> s.item, state |-> s.state,
                          attempts |-> 0])
            /\ Goto(h, "state")
      /\ UNCHANGED <<jobs, probe, events, aux>>

\* ActivityHandler.set_session_state: an upsert by session key.
SetState(h) ==
  LET s == thread[h]
      onward == CASE s.goal = "start" -> Schedule(s, FALSE, "idle")
                  [] s.goal = "stop"  -> [s EXCEPT !.pc = "load"]
                  [] OTHER            -> Updates(s, s.rest)
  IN  /\ \/ /\ At(h, "state")
            /\ SetRows(OfKey(s.key), LAMBDA r : [r EXCEPT !.state = s.state])
            /\ IF OfKey(s.key) = {} THEN Goto(h, "state_insert") ELSE Become(h, onward)
            /\ UNCHANGED next_id
         \/ /\ At(h, "state_insert")
            /\ InsertRow([key |-> s.key, item |-> NoItem, state |-> s.state,
                          attempts |-> 0])
            /\ Become(h, onward)
      /\ UNCHANGED <<jobs, probe, events, aux>>

\* get_session_by_key, in on_stop and in force_stop_stream.
Load(t) ==
  LET s == thread[t]
  IN  /\ At(t, "load")
      /\ \/ \E id \in First(s.key) :
              Become(t, [Reading(s, id) EXCEPT !.pc = "history", !.status = "none"])
         \/ OfKey(s.key) = {} /\ Become(t, [s EXCEPT !.pc = "history", !.id = 0])
      /\ UNCHANGED <<sessions, next_id, jobs, probe, events, aux>>

\* write_session_history returns the row id when the play is logged or need not
\* be, False when the server has no metadata, and raises on a missing row or a
\* failed request.  A row without an item has no media type and is not logged.
HistoryWritten(t) ==
  /\ At(t, "history") /\ thread[t].id # 0
  /\ written' = written \cup {thread[t].id}
  /\ UNCHANGED lost

HistoryEmpty(t) ==
  /\ At(t, "history") /\ thread[t].id # 0 /\ thread[t].seen # NoItem
  /\ UNCHANGED <<written, lost>>

HistoryRaises(t) ==
  /\ At(t, "history")
  /\ thread[t].id = 0 \/ (ServerFails /\ thread[t].seen # NoItem)
  /\ Raise(t)
  /\ UNCHANGED written

\* on_stop after the write: the callback is cancelled, or set to 30 seconds.
\* A forced stop goes on to on_start.
Stop(h) ==
  LET s == thread[h]
      after == IF s.goal = "switch" THEN "live" ELSE "idle"
      goal == IF s.goal = "switch" THEN "start" ELSE s.goal
  IN  /\ \/ HistoryWritten(h) /\ Become(h, [Schedule(s, TRUE, after) EXCEPT !.goal = goal])
         \/ HistoryEmpty(h) /\ Become(h, [Retry(s, after) EXCEPT !.goal = goal])
         \/ HistoryRaises(h)
      /\ UNCHANGED <<sessions, next_id, jobs, probe, events, guarded, tries>>

\* ACTIVITY_SCHED takes a due date job out of its store.  The executor refuses
\* it while an earlier run of the same job goes on (max_instances is 1).
Fire(k) ==
  /\ k \in jobs
  /\ jobs' = jobs \ {k}
  /\ \/ /\ At(k, "idle")
        /\ Become(k, [Idle EXCEPT !.pc = "load", !.key = k])
        /\ UNCHANGED lost
     \/ /\ ~At(k, "idle")
        /\ lost' = lost \cup {k}
        /\ UNCHANGED thread
  /\ UNCHANGED <<sessions, next_id, probe, events, written, guarded, tries>>

\* force_stop_stream after the write: nothing more, another attempt, or, after
\* the last one, every row of the session key is deleted.
ForceStop(k) ==
  LET s == thread[k]
      attempts == s.attempts + 1
  IN  /\ \/ /\ HistoryWritten(k)
            /\ Become(k, Idle)
            /\ UNCHANGED <<sessions, tries>>
         \/ /\ HistoryEmpty(k)
            /\ tries' = [tries EXCEPT ![s.id] = @ + 1]
            /\ \/ /\ ~Exhausted(attempts)
                  /\ Become(k, [s EXCEPT !.pc = "reread"])
                  /\ UNCHANGED sessions
               \/ /\ Exhausted(attempts)
                  /\ DeleteRows(OfKey(k))
                  /\ Become(k, Idle)
         \/ HistoryRaises(k) /\ UNCHANGED <<sessions, tries>>
      /\ UNCHANGED <<next_id, jobs, probe, events, guarded>>

\* increment_write_attempts: a SELECT, then an UPDATE by session key, after
\* which the callback is set to 30 seconds.
Increment(k) ==
  LET s == thread[k]
  IN  /\ \/ /\ At(k, "reread")
            /\ \/ /\ \E id \in First(k) : Become(k, [s EXCEPT !.pc = "bump",
                                                         !.attempts = sessions[id].attempts])
                  /\ UNCHANGED lost
               \/ OfKey(k) = {} /\ Raise(k)
            /\ UNCHANGED sessions
         \/ /\ At(k, "bump")
            /\ SetRows(OfKey(k), LAMBDA r : [r EXCEPT !.attempts = Incremented(s.attempts)])
            /\ Become(k, Retry(s, "idle"))
            /\ UNCHANGED lost
      /\ UNCHANGED <<next_id, jobs, probe, events, written, guarded, tries>>

\* check_active_sessions: get_sessions tests str(None) and so asks for the rows
\* of user NULL, of which there are none; only the sessions the server lists are
\* written, without a callback.  When the request raises, start_thread empties the table.
Probe ==
  LET same == {id \in OfKey(probe.key) : sessions[id].item = probe.item}
  IN  /\ \/ /\ probe.pc = "idle"
            /\ \E k \in Keys, i \in Items :
                 probe' = [pc |-> "write", key |-> k, item |-> i]
            /\ UNCHANGED <<sessions, next_id>>
         \/ /\ probe.pc = "idle" /\ ServerFails
            /\ DeleteRows(DOMAIN sessions)
            /\ UNCHANGED <<probe, next_id>>
         \/ /\ probe.pc = "write"
            /\ SetRows(same, LAMBDA r : [r EXCEPT !.state = "playing"])
            /\ probe' = IF same = {} THEN [probe EXCEPT !.pc = "insert"] ELSE NoProbe
            /\ UNCHANGED next_id
         \/ /\ probe.pc = "insert"
            /\ InsertRow([key |-> probe.key, item |-> probe.item,
                          state |-> "playing", attempts |-> 0])
            /\ probe' = NoProbe
      /\ UNCHANGED <<jobs, thread, events, aux>>

Handle(h) ==
  \/ Read(h) \/ GetJob(h) \/ SetJob(h) \/ Branch(h) \/ Touch(h) \/ Live(h)
  \/ Write(h) \/ SetState(h) \/ Load(h) \/ Stop(h)

Callback(k) ==
  Load(k) \/ ForceStop(k) \/ Increment(k) \/ GetJob(k) \/ SetJob(k)

Next ==
  \/ \E h \in Handlers : Receive(h) \/ Handle(h)
  \/ \E k \in Keys : Fire(k) \/ Callback(k)
  \/ Probe

Spec == Init /\ [][Next]_vars

\* Threads that have work run, and a due job fires: events are finitely many,
\* so no job is put off for ever.
Fairness ==
  /\ \A h \in Handlers : WF_vars(Handle(h))
  /\ \A k \in Keys : WF_vars(Fire(k)) /\ WF_vars(Callback(k))

FairSpec == Spec /\ Fairness
-----------------------------------------------------------------------------
TypeOK ==
  /\ DOMAIN sessions \subseteq 1 .. next_id - 1
  /\ \A id \in DOMAIN sessions : sessions[id] \in Row
  /\ next_id \in 1 .. MaxRows + 1
  /\ jobs \subseteq Keys
  /\ thread \in [Threads -> Local]
  /\ probe \in [pc : {"idle", "write", "insert"}, key : Keys \cup {NoKey},
                item : Items \cup {NoItem}]
  /\ events \in 0 .. MaxEvents
  /\ written \subseteq Ids /\ guarded \subseteq Ids
  /\ tries \in [Ids -> Nat]
  /\ lost \subseteq Keys

Working(k) == \E t \in Threads : thread[t].key = k

\* A play that was once given a force-stop callback (process and on_start set
\* it to five minutes, on_stop and force_stop_stream to thirty seconds) and is
\* not yet in the history is never left behind: its callback is pending, or a
\* handler or a callback is at work on its key, unless since then one of them
\* raised, a run of the callback was skipped, or on_stop cancelled it for an
\* older row of the key that had been deleted meanwhile.
CallbackCoverage ==
  \A k \in Keys : \A id \in First(k) :
    id \in guarded \ written => k \in jobs \/ Working(k) \/ k \in lost

\* write_attempts of the row the callback works on counts the attempts that
\* failed, up to the callback's own UPDATE, while the server answers.
AttemptsCounted ==
  \A k \in Keys : \A id \in First(k) :
    sessions[id].attempts =
      tries[id] - (IF thread[k].id = id /\ thread[k].pc \in {"reread", "bump"}
                   THEN 1 ELSE 0)

\* While the server answers, a row leaves the table only when the callback has
\* failed SESSION_DB_WRITE_ATTEMPTS times on the oldest row of its key.
RowsLeaveAfterLastAttempt ==
  [][\A id \in DOMAIN sessions \ DOMAIN sessions' :
       \E first \in First(sessions[id].key) : tries'[first] = MaxAttempts]_vars

\* A play with a callback ends up in the history or, its attempts used up, out
\* of the table, while the server answers and no callback is skipped or raises.
PlaysEnd ==
  \A id \in Ids : \A k \in Keys :
    (id \in First(k) /\ id \in guarded) ~>
      (id \in written \/ id \notin DOMAIN sessions \/ k \in lost)

\* activity_processor.py:267 "Fetch metadata first so we can return false if it
\* fails" and activity_handler.py:614 "Will try again in 30 seconds": a failing
\* request does not end the attempts.
FailedWritesRetried ==
  \A id \in Ids : id \in guarded ~> (id \in written \/ id \notin DOMAIN sessions)
=============================================================================
