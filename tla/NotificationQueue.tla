-------------------------- MODULE NotificationQueue --------------------------
(***************************************************************************)
(* NOTIFY_QUEUE, the worker threads of notification_handler that serve it, *)
(* and the table notify_log.                                               *)
(*                                                                         *)
(* An event (a stream started, the server is down) goes through the queue  *)
(* twice: a worker turns it into one notification for each notifier        *)
(* (add_notifier_each) and puts these at the end of the queue, where a     *)
(* worker takes each and sends it (notify).  An on_play event also yields  *)
(* an on_concurrent and an on_newdevice event.                             *)
(*                                                                         *)
(* on_watched is put once for each notifier by the websocket thread, which *)
(* asks notify_log who has been notified before.  Newsletters go through   *)
(* the queue in one step and have a table of their own; they are left out. *)
(***************************************************************************)
EXTENDS Naturals, Sequences, FiniteSets, SequencesExt

CONSTANTS
  Workers,     \* threads that may be started
  Notifiers,   \* ids of notifiers
  NoNotifier,
  Streams,     \* (session_key, rating_key, user_id)
  NoStream,    \* what a server event is about
  Subscribed,  \* the actions each notifier is enabled for
  Produced,    \* the actions the other threads put
  HasServerSettings, \* CONFIG defines PMS_NAME and the others that the
               \* parameters read: not at this commit
  MaxEvents,   \* bound: events put by the other threads while one worker serves
  MaxShared,   \* bound: the same while several do
  MaxTime      \* bound: the clock, in seconds

StreamActions == {"on_play", "on_stop", "on_watched"}
ChainedActions == {"on_concurrent", "on_newdevice"}
ServerActions == {"on_intdown"}
Actions == StreamActions \cup ChainedActions \cup ServerActions

ASSUME ConstantsAssumption ==
  /\ NoNotifier \notin Notifiers /\ NoStream \notin Streams
  /\ Subscribed \in [Notifiers -> SUBSET Actions]
  /\ Produced \subseteq StreamActions \cup ServerActions
  /\ HasServerSettings \in BOOLEAN
  /\ MaxEvents \in Nat /\ MaxShared \in 0 .. MaxEvents /\ MaxTime \in Nat
  /\ IsFiniteSet(Workers)

VARIABLES
  queue,      \* NOTIFY_QUEUE
  worker,     \* local state of the started workers
  notify_log, \* a function from row ids to rows
  now,        \* timestamp()
  events,     \* events put so far by the other threads
  watched,    \* streams whose row of sessions is flagged as watched
  stopping,   \* shutdown has run
  watcher,    \* the websocket thread between get_notify_state_enabled and its puts
  sent,       \* auxiliary: notifications handed to a notification agent, in order
  delivered,  \* auxiliary: keys of the notifications that were marked as sent
  collided,   \* auxiliary: keys that were in notify_log when they were set again
  overlap     \* auxiliary: <<stream, notifier>> asked for while one was under way

producers == <<events, watched, watcher, stopping>>
aux == <<sent, delivered, collided, overlap>>
vars == <<queue, worker, notify_log, now, producers, aux>>
-----------------------------------------------------------------------------
\* event numbers the events, chained ones as the on_play they come from.
Item == [kind : {"event", "notification", "stop"}, event : 0 .. MaxEvents,
         action : Actions \cup {"none"}, stream : Streams \cup {NoStream},
         notifier : Notifiers \cup {NoNotifier}]

Stop == [kind |-> "stop", event |-> 0, action |-> "none", stream |-> NoStream,
         notifier |-> NoNotifier]

\* Mutated form of Event: the notifier where the stream belongs.
EventSwapped(e, action, stream, notifier) ==
  [kind |-> "event", event |-> e, action |-> action, stream |-> notifier,
   notifier |-> stream]

Event(e, action, stream, notifier) ==
  [kind |-> "event", event |-> e, action |-> action, stream |-> stream,
   notifier |-> notifier]

PC == {"get", "event", "put", "concurrent", "newdevice", "notification", "insert",
       "send", "success", "success_insert", "exited"}

Key == [time : 0 .. MaxTime, stream : Streams \cup {NoStream},
        notifier : Notifiers \cup {NoNotifier}, action : Actions \cup {"none"}]

\* todo: notifiers still to be put; key and row: what set_notify_state wrote.
Ready == [pc |-> "get", item |-> Stop, todo |-> {}, row |-> 0,
          key |-> [time |-> 0, stream |-> NoStream, notifier |-> NoNotifier,
                   action |-> "none"]]

NoWatcher == [event |-> 0, stream |-> NoStream, todo |-> {}]

At(w, pc) == worker[w].pc = pc
Become(w, s) == worker' = [worker EXCEPT ![w] = s]
Goto(w, pc) == Become(w, [worker[w] EXCEPT !.pc = pc])

\* Mutated form of Put: at the front.
PutFirst(items) == queue' = items \o queue

Put(items) == queue' = queue \o items

Started == DOMAIN worker

\* An on_play counts for two: the events it yields are served as well.
Cost(action) == IF action = "on_play" THEN 2 ELSE 1

Allowed == IF Cardinality(Started) = 1 THEN MaxEvents ELSE MaxShared

\* Rows of notify_log with the given key; a NULL session_key equals nothing.
RowsOf(key) ==
  {id \in DOMAIN notify_log : notify_log[id].key = key /\ key.stream # NoStream}

\* The notifiers with a row for on_watched of this stream, whatever its time.
Logged(stream) ==
  {notify_log[id].key.notifier : id \in
     {i \in DOMAIN notify_log : /\ notify_log[i].key.stream = stream
                                /\ notify_log[i].key.action = "on_watched"}}

\* on_watched of the stream and the notifier, not in notify_log yet.
UnderWay(stream, n) ==
  LET about(i) == i.action = "on_watched" /\ i.stream = stream /\ i.notifier = n
  IN  \/ watcher.stream = stream /\ n \in watcher.todo
      \/ \E i \in ToSet(queue) : about(i)
      \/ \E w \in Started :
           /\ about(worker[w].item)
           /\ worker[w].pc \in {"event", "put", "notification", "insert"}
-----------------------------------------------------------------------------
\* start_threads starts NOTIFICATION_THREADS workers.
Init ==
  /\ queue = << >>
  /\ worker \in UNION {[S -> {Ready}] : S \in (SUBSET Workers) \ {{}}}
  /\ notify_log = << >>
  /\ now = 0
  /\ events = 0 /\ watched = {} /\ watcher = NoWatcher /\ stopping = FALSE
  /\ sent = << >>
  /\ delivered = {} /\ collided = {} /\ overlap = {}

Tick ==
  /\ now < MaxTime
  /\ now' = now + 1
  /\ UNCHANGED <<queue, worker, notify_log, producers, aux>>

\* The session monitor, the websocket thread and on_intdown put their events.
Produce ==
  /\ \E s \in Streams \cup {NoStream}, action \in Produced \ {"on_watched"} :
       /\ s = NoStream <=> action \in ServerActions
       /\ events' = events + Cost(action)
       /\ events' <= Allowed
       /\ Put(<<Event(events', action, s, NoNotifier)>>)
  /\ UNCHANGED <<worker, notify_log, now, watched, watcher, stopping, aux>>

\* Mutated form of NotYetNotified: notify_log is not asked.
NotYetNotifiedEver(stream) == {n \in Notifiers : "on_watched" \in Subscribed[n]}

\* get_notify_state_enabled(notified=False).
NotYetNotified(stream) ==
  {n \in Notifiers : "on_watched" \in Subscribed[n]} \ Logged(stream)

\* The stream passes the watched offset: its row is flagged, then notify_log is
\* asked which notifiers have not been notified.
Watched(s) ==
  /\ "on_watched" \in Produced /\ s \notin watched
  /\ watcher = NoWatcher
  /\ events < Allowed
  /\ events' = events + 1
  /\ watched' = watched \cup {s}
  /\ watcher' = [event |-> events', stream |-> s, todo |-> NotYetNotified(s)]
  /\ overlap' = overlap \cup {<<s, n>> : n \in {m \in Notifiers : UnderWay(s, m)}}
  /\ UNCHANGED <<queue, worker, notify_log, now, stopping, sent, delivered, collided>>

PutWatched ==
  /\ watcher # NoWatcher
  /\ \/ watcher.todo = {} /\ watcher' = NoWatcher /\ UNCHANGED queue
     \/ \E n \in watcher.todo :
          /\ Put(<<Event(watcher.event, "on_watched", watcher.stream, n)>>)
          /\ watcher' = [watcher EXCEPT !.todo = @ \ {n}]
  /\ UNCHANGED <<worker, notify_log, now, events, watched, stopping, aux>>

\* The row of the stream leaves sessions; a new play of it gets a new one.
Replay(s) ==
  /\ s \in watched
  /\ watched' = watched \ {s}
  /\ UNCHANGED <<queue, worker, notify_log, now, events, watcher, stopping, aux>>

\* shutdown puts a None for each thread; the process ends some time later.
Shutdown ==
  /\ ~stopping
  /\ stopping' = TRUE
  /\ Put([i \in 1 .. Cardinality(Started) |-> Stop])
  /\ UNCHANGED <<worker, notify_log, now, events, watched, watcher, aux>>

Get(w) ==
  /\ At(w, "get")
  /\ queue # << >>
  /\ queue' = Tail(queue)
  /\ Become(w, IF Head(queue).kind = "stop" THEN [Ready EXCEPT !.pc = "exited"]
               ELSE [Ready EXCEPT !.pc = Head(queue).kind, !.item = Head(queue)])
  /\ UNCHANGED <<notify_log, now, producers, aux>>

\* Mutated form of Fail: nothing catches what the handlers raise.
FailUncaught(w) == Become(w, [Ready EXCEPT !.pc = "exited"])

\* A handler returns early or raises: process_queue logs it and goes on.
Fail(w) == Become(w, Ready)

\* What follows the notifications of an event.
Onward(w) ==
  IF worker[w].item.action = "on_play"
    THEN [worker[w] EXCEPT !.pc = "concurrent", !.todo = {}]
    ELSE Ready

\* add_notifier_each up to its loop: the enabled notifiers, or the one that was
\* named, the global conditions, the parameters, and which notifiers' custom
\* conditions hold.  The conditions of on_concurrent have no value to return, and
\* raise; so does reading a setting that CONFIG does not define.
AddEach(w) ==
  LET i == worker[w].item
      enabled == IF i.notifier # NoNotifier THEN {i.notifier}
                 ELSE {n \in Notifiers : i.action \in Subscribed[n]}
  IN  /\ At(w, "event")
      /\ \/ enabled = {} /\ Become(w, Onward(w))
         \/ enabled # {} /\ Fail(w)
         \/ /\ enabled # {} /\ i.action # "on_concurrent" /\ HasServerSettings
            /\ \E todo \in SUBSET enabled :
                 Become(w, [worker[w] EXCEPT !.pc = "put", !.todo = todo])
      /\ UNCHANGED <<queue, notify_log, now, producers, aux>>

\* The loop of add_notifier_each.
PutNotification(w) ==
  /\ At(w, "put")
  /\ \/ worker[w].todo = {} /\ Become(w, Onward(w)) /\ UNCHANGED queue
     \/ \E n \in worker[w].todo :
          /\ Put(<<[worker[w].item EXCEPT !.kind = "notification", !.notifier = n]>>)
          /\ Become(w, [worker[w] EXCEPT !.todo = @ \ {n}])
  /\ UNCHANGED <<notify_log, now, producers, aux>>

\* The two events an on_play yields.
Chain(w) ==
  LET put(action) == Put(<<Event(worker[w].item.event, action, worker[w].item.stream,
                                 NoNotifier)>>)
  IN  /\ \/ At(w, "concurrent") /\ put("on_concurrent") /\ Goto(w, "newdevice")
         \/ At(w, "newdevice") /\ put("on_newdevice") /\ Become(w, Ready)
      /\ UNCHANGED <<notify_log, now, producers, aux>>

\* notify up to the UPDATE of set_notify_state, whose keys hold the second and
\* what is notified.  When it finds a row, the connection has inserted none and
\* last_insert_rowid is 0.
Notify(w) ==
  LET i == worker[w].item
      key == [time |-> now, stream |-> i.stream, notifier |-> i.notifier,
              action |-> i.action]
  IN  /\ At(w, "notification")
      /\ \/ Fail(w) /\ UNCHANGED collided
         \/ /\ RowsOf(key) = {}
            /\ Become(w, [worker[w] EXCEPT !.pc = "insert", !.key = key])
            /\ UNCHANGED collided
         \/ /\ RowsOf(key) # {}
            /\ Become(w, [worker[w] EXCEPT !.pc = "send", !.key = key, !.row = 0])
            /\ collided' = collided \cup {key}
      /\ UNCHANGED <<queue, notify_log, now, producers, sent, delivered, overlap>>

\* The INSERT of set_notify_state, and last_insert_rowid.
Insert(w) ==
  LET id == Cardinality(DOMAIN notify_log \ {0}) + 1
  IN  /\ At(w, "insert")
      /\ notify_log' = [r \in DOMAIN notify_log \cup {id} |->
                          IF r = id THEN [key |-> worker[w].key, success |-> FALSE]
                          ELSE notify_log[r]]
      /\ Become(w, [worker[w] EXCEPT !.pc = "send", !.row = id])
      /\ UNCHANGED <<queue, now, producers, aux>>

\* send_notification: the agent succeeds, or fails or raises.
Send(w) ==
  /\ At(w, "send")
  /\ sent' = Append(sent, [event |-> worker[w].item.event, action |-> worker[w].key.action,
                           stream |-> worker[w].key.stream,
                           notifier |-> worker[w].key.notifier])
  /\ Goto(w, "success") \/ Fail(w)
  /\ UNCHANGED <<queue, notify_log, now, producers, delivered, collided, overlap>>

\* Mutated form of RowToMark: the newest row of the table.
RowToMarkNewest(w) == Cardinality(DOMAIN notify_log \ {0})

\* The id set_notify_success is given.
RowToMark(w) == worker[w].row

\* set_notify_success: an upsert by id, which inserts the row when there is none.
SetSuccess(w) ==
  LET id == RowToMark(w)
      found == id \in DOMAIN notify_log
  IN  /\ \/ /\ At(w, "success") /\ found
            /\ notify_log' = [notify_log EXCEPT ![id].success = TRUE]
            /\ delivered' = delivered \cup {worker[w].key}
            /\ Become(w, Ready)
         \/ /\ At(w, "success") /\ ~found
            /\ Goto(w, "success_insert")
            /\ UNCHANGED <<notify_log, delivered>>
         \/ /\ At(w, "success_insert")
            /\ notify_log' = IF found THEN notify_log
                             ELSE [r \in DOMAIN notify_log \cup {id} |->
                                    IF r = id THEN [key |-> Ready.key, success |-> TRUE]
                                    ELSE notify_log[r]]
            /\ delivered' = delivered \cup {worker[w].key}
            /\ Become(w, Ready)
      /\ UNCHANGED <<queue, now, producers, sent, collided, overlap>>

Serve(w) ==
  \/ Get(w) \/ AddEach(w) \/ PutNotification(w) \/ Chain(w)
  \/ Notify(w) \/ Insert(w) \/ Send(w) \/ SetSuccess(w)

Next ==
  \/ Tick \/ Produce \/ PutWatched \/ Shutdown
  \/ \E s \in Streams : Watched(s) \/ Replay(s)
  \/ \E w \in Started : Serve(w)

Spec == Init /\ [][Next]_vars

\* The threads run.
Fairness ==
  /\ WF_vars(PutWatched)
  /\ \A w \in Workers : WF_vars(w \in Started /\ Serve(w))

FairSpec == Spec /\ Fairness
-----------------------------------------------------------------------------
TypeOK ==
  /\ queue \in Seq(Item)
  /\ Started \subseteq Workers
  /\ \A w \in Started :
       worker[w] \in [pc : PC, item : Item, todo : SUBSET Notifiers, row : Nat, key : Key]
  /\ DOMAIN notify_log \subseteq Nat
  /\ \A id \in DOMAIN notify_log : notify_log[id] \in [key : Key, success : BOOLEAN]
  /\ now \in 0 .. MaxTime
  /\ events \in 0 .. MaxEvents
  /\ watched \subseteq Streams /\ stopping \in BOOLEAN
  /\ watcher \in [event : 0 .. MaxEvents, stream : Streams \cup {NoStream},
                  todo : SUBSET Notifiers]

\* What notify_log says of a notification is true: a row is marked only when a
\* notification of its key was sent, and one that was sent is marked, unless the
\* same notification had been set in the same second before: then there is the
\* row 0, of no notification.
SuccessRecorded ==
  LET marked == {id \in DOMAIN notify_log : notify_log[id].success}
  IN  /\ {notify_log[id].key : id \in marked \ {0}} \subseteq delivered
      /\ delivered \ collided \subseteq {notify_log[id].key : id \in marked}
      /\ 0 \in marked => collided # {}

\* A stream's on_watched goes to a notifier at most once, however often the
\* stream is played again, unless notify_log was asked while an earlier one was
\* still in the queue or with a worker.
WatchedOnce ==
  \A i, j \in DOMAIN sent :
    /\ i # j /\ sent[i].action = "on_watched" /\ sent[j].action = "on_watched"
    /\ sent[i].stream = sent[j].stream /\ sent[i].notifier = sent[j].notifier
    => <<sent[i].stream, sent[i].notifier>> \in overlap

\* With one notification thread a notifier gets the events in the order in which
\* they happened, although each goes through the queue twice.
InOrderWithOneThread ==
  Cardinality(Started) = 1 =>
    \A i, j \in DOMAIN sent :
      /\ i < j /\ sent[i].notifier = sent[j].notifier
      /\ {sent[i].action, sent[j].action} \cap (ChainedActions \cup {"on_watched"}) = {}
      => sent[i].event <= sent[j].event

Pending(e) ==
  \/ \E i \in ToSet(queue) : i.event = e
  \/ \E w \in Started : worker[w].item.event = e
  \/ watcher.event = e

\* Every event leaves the queue and the workers with all that it has caused,
\* whatever raises on the way, unless the program shuts down.
EventsHandled ==
  \A e \in 1 .. MaxEvents :
    (e <= events) ~> (~Pending(e) \/ stopping)
=============================================================================
