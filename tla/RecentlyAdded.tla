----------------------------- MODULE RecentlyAdded -----------------------------
(***************************************************************************)
(* RECENTLY_ADDED_QUEUE: library items that were created and wait for      *)
(* their notification.  TimelineHandler.process fills it in the websocket  *)
(* thread and sets one callback for each root (a movie, show or artist);   *)
(* clear_recently_added_queue announces what is there and empties it.      *)
(*                                                                         *)
(* The queue is a dictionary of sets: a root maps to its seasons, a season *)
(* to its episodes, an episode back to the root.  Dictionary and sets are  *)
(* shared by the threads without a lock, so a set is an object of its own  *)
(* here: a thread may add to it after it has left the dictionary.  Going   *)
(* through a set that has grown since raises.                              *)
(***************************************************************************)
EXTENDS Naturals, Sequences, FiniteSets, Functions

CONSTANTS
  Items,        \* rating keys
  Parent,       \* the season of an episode, the show of a season, else NoItem
  NoItem,
  Websocket,    \* the websocket thread; a callback has the name of its root
  Unavailable,  \* the items for whose metadata a request may fail
  MaxEvents     \* bound: timeline events

Roots == {i \in Items : Parent[i] = NoItem}
Middles == {i \in Items : Parent[i] \in Roots}
Leaves == {i \in Items : Parent[i] \in Middles}

ASSUME ConstantsAssumption ==
  /\ NoItem \notin Items /\ Websocket \notin Items
  /\ Parent \in [Items -> Items \cup {NoItem}]
  /\ Items = Roots \cup Middles \cup Leaves
  /\ Unavailable \subseteq Items
  /\ MaxEvents \in Nat

VARIABLES
  queue,      \* RECENTLY_ADDED_QUEUE: a function from some items to sets
  sets,       \* the contents of the sets, by number
  jobs,       \* roots with a callback in ACTIVITY_SCHED
  thread,     \* local state of the websocket thread and of the callbacks
  recorded,   \* table recently_added
  events,     \* timeline events so far
  announced,  \* auxiliary: items announced so far, by themselves or as child keys
  repeated,   \* auxiliary: items announced by themselves when they had been announced
  waiting,    \* auxiliary: items created and not announced since
  raced,      \* auxiliary: items whose event was handled while the callback of
              \* their root ran, or whose callback was refused
  failed      \* auxiliary: items not announced or recorded when a request failed

shared == <<queue, sets>>
aux == <<announced, repeated, waiting, raced, failed>>
vars == <<shared, jobs, thread, recorded, events, aux>>
-----------------------------------------------------------------------------
Threads == Roots \cup {Websocket}

Root(i) == IF i \in Roots THEN i
           ELSE IF i \in Middles THEN Parent[i] ELSE Parent[Parent[i]]

Frame == [set : Nat, all : SUBSET Items, left : SUBSET Items]

PC == {"idle", "get", "add", "assign", "leaf", "get_job", "set_job",
       "deleted", "empty", "start", "walk", "child", "created", "in", "pop",
       "unwind"}

\* item is the subject of the event or the root of the callback; todo the
\* insertions <<key, member>> still to make; set the number of the set a thread
\* holds, 0 for none; key the argument of on_created or del_keys; stack the sets
\* it is going through; found and remove are the progress and the argument of
\* schedule_callback.
Local == [pc : PC, item : Items \cup {NoItem},
          todo : Seq(Items \X (Items \cup {NoItem})), set : Nat,
          key : Items \cup {NoItem}, stack : Seq(Frame),
          found : BOOLEAN, remove : BOOLEAN]

Idle == [pc |-> "idle", item |-> NoItem, todo |-> << >>, set |-> 0, key |-> NoItem,
         stack |-> << >>, found |-> FALSE, remove |-> FALSE]

At(t, pc) == thread[t].pc = pc
Become(t, s) == thread' = [thread EXCEPT ![t] = s]
Goto(t, pc) == Become(t, [thread[t] EXCEPT !.pc = pc])

\* The websocket thread is handling an event of the root's tree.
Handling(r) == ~At(Websocket, "idle") /\ Root(thread[Websocket].item) = r

Queued(i) == i \in DOMAIN queue
Contents(i) == sets[queue[i]]

\* RECENTLY_ADDED_QUEUE[i] = set.
Assign(i, set) ==
  queue' = [k \in DOMAIN queue \cup {i} |-> IF k = i THEN set ELSE queue[k]]

\* An exception ends the handler or the callback; nothing is undone.
Raise(t) == Become(t, Idle)

Tree(r) == {i \in Items : Root(i) = r}

\* The items a notification is about: its item and those above it, the child
\* keys and what is below these.
Covered(key, children) ==
  {i \in Items : \/ i \in {key, Root(key)} \cup children
                 \/ key \in Leaves /\ i = Parent[key]
                 \/ Parent[i] \in children}
-----------------------------------------------------------------------------
Init ==
  /\ queue = << >> /\ sets = << >>
  /\ jobs = {}
  /\ thread = [t \in Threads |-> Idle]
  /\ recorded = {}
  /\ events = 0
  /\ announced = {} /\ repeated = {}
  /\ waiting = {} /\ raced = {} /\ failed = {}

\* Mutated form of Insertions: a show is put in the queue as a season is.
InsertionsOfSeason(i) ==
  IF i \in Leaves THEN <<<<Root(i), Parent[i]>>, <<Parent[i], i>>>> ELSE <<<<Parent[i], i>>>>

\* Mutated form of Insertions: the season of an episode is not put in its show.
InsertionsShowAlone(i) ==
  IF i \in Leaves THEN <<<<Root(i), NoItem>>, <<Parent[i], i>>>>
  ELSE IF i \in Middles THEN <<<<Parent[i], i>>>> ELSE <<<<i, NoItem>>>>

\* Which keys get which members when an item is created; a root gets its key.
Insertions(i) ==
  IF i \in Leaves THEN <<<<Root(i), Parent[i]>>, <<Parent[i], i>>>>
  ELSE IF i \in Middles THEN <<<<Parent[i], i>>>> ELSE <<<<i, NoItem>>>>

\* A timeline event: an item was created, or deleted.
Receive ==
  LET w == Websocket
  IN  /\ At(w, "idle") /\ events < MaxEvents
      /\ events' = events + 1
      /\ \E i \in Items :
           /\ \/ /\ Become(w, [Idle EXCEPT !.pc = "get", !.item = i, !.todo = Insertions(i)])
                 /\ waiting' = waiting \cup {i}
              \/ /\ Become(w, [Idle EXCEPT !.pc = "deleted", !.item = i, !.key = i])
                 /\ UNCHANGED waiting
           /\ raced' = IF At(Root(i), "idle") THEN raced ELSE raced \cup {i}
      /\ UNCHANGED <<shared, jobs, recorded, announced, repeated, failed>>

\* The set of the next key, or a new one, gets its member and is assigned.
Insert ==
  LET w == Websocket
      s == thread[w]
      next == IF Len(s.todo) > 1 THEN "get" ELSE IF s.item \in Leaves THEN "leaf" ELSE "get_job"
  IN  /\ \/ /\ At(w, "get")
            /\ IF Queued(s.todo[1][1])
                 THEN /\ Become(w, [s EXCEPT !.pc = "add", !.set = queue[s.todo[1][1]]])
                      /\ UNCHANGED sets
                 ELSE /\ Become(w, [s EXCEPT !.pc = "add", !.set = Len(sets) + 1])
                      /\ sets' = Append(sets, {})
            /\ UNCHANGED queue
         \/ /\ At(w, "add")
            /\ sets' = [sets EXCEPT ![s.set] = @ \cup ({s.todo[1][2]} \ {NoItem})]
            /\ Goto(w, "assign")
            /\ UNCHANGED queue
         \/ /\ At(w, "assign")
            /\ Assign(s.todo[1][1], s.set)
            /\ Become(w, [s EXCEPT !.pc = next, !.todo = Tail(@), !.set = 0])
            /\ UNCHANGED sets
         \/ /\ At(w, "leaf")
            /\ sets' = Append(sets, {Root(s.item)})
            /\ Assign(s.item, Len(sets) + 1)
            /\ Goto(w, "get_job")
      /\ UNCHANGED <<jobs, recorded, events, aux>>

\* schedule_callback: get_job, then add_job, reschedule_job or remove_job, which
\* raise when get_job's answer is no longer true.
Schedule ==
  LET w == Websocket
      s == thread[w]
      r == Root(s.item)
  IN  /\ \/ /\ At(w, "get_job")
            /\ Become(w, [s EXCEPT !.pc = "set_job", !.found = r \in jobs])
            /\ UNCHANGED jobs
         \/ /\ At(w, "set_job") /\ (s.found = (r \in jobs) \/ (s.remove /\ ~s.found))
            /\ jobs' = IF ~s.remove THEN jobs \cup {r}
                       ELSE IF s.found THEN jobs \ {r} ELSE jobs
            /\ Become(w, Idle)
         \/ /\ At(w, "set_job") /\ s.found # (r \in jobs) /\ (s.remove => s.found)
            /\ Raise(w)
            /\ UNCHANGED jobs
      /\ UNCHANGED <<shared, recorded, events, aux>>

\* A deleted item leaves the queue if nothing hangs on it.
Delete ==
  LET w == Websocket
      i == thread[w].item
  IN  /\ \/ At(w, "deleted") /\ IF Queued(i) THEN Goto(w, "empty") ELSE Become(w, Idle)
         \/ At(w, "empty") /\ ~Queued(i) /\ Raise(w)
         \/ /\ At(w, "empty") /\ Queued(i)
            /\ IF Contents(i) = {} THEN Goto(w, "in") ELSE Become(w, Idle)
      /\ UNCHANGED <<shared, jobs, recorded, events, aux>>

\* ACTIVITY_SCHED takes a due callback out of its store; the executor refuses
\* it while an earlier run goes on.
Fire(r) ==
  /\ r \in jobs
  /\ jobs' = jobs \ {r}
  /\ IF At(r, "idle") THEN Become(r, [Idle EXCEPT !.pc = "start", !.item = r])
                      ELSE UNCHANGED thread
  /\ raced' = raced \cup (IF Handling(r) THEN {thread[Websocket].item} ELSE {})
                    \cup (IF At(r, "idle") THEN {} ELSE waiting \cap Tree(r))
  /\ UNCHANGED <<shared, recorded, events, announced, repeated, waiting, failed>>

\* on_created(key), or on_created(key, child_keys=set) when set is not 0.
OnCreated(s, key, set) == [s EXCEPT !.pc = "created", !.key = key, !.set = set]

\* A loop over a set begins: for key in set.
Push(s, set, pc) ==
  [s EXCEPT !.pc = pc, !.set = 0,
            !.stack = <<[set |-> set, all |-> sets[set], left |-> sets[set]]>> \o @]

\* The choice made of a key and its set: announce it with its members, go through
\* these, or announce it alone.  The grouping setting may be changed at any time.
Choose(t, key, set) ==
  \/ Cardinality(sets[set]) > 1 /\ Become(t, OnCreated(thread[t], key, set))
  \/ sets[set] # {} /\ Become(t, Push(thread[t], set, "walk"))
  \/ sets[set] = {} /\ Become(t, OnCreated(thread[t], key, 0))

\* clear_recently_added_queue: the root's set, then each child's.
Start(r) ==
  /\ At(r, "start")
  /\ IF Queued(r) THEN Choose(r, r, queue[r]) ELSE Raise(r)
  /\ UNCHANGED <<shared, jobs, recorded, events, aux>>

Child(r) ==
  LET key == thread[r].key
  IN  /\ At(r, "child")
      /\ IF Queued(key) THEN Choose(r, key, queue[key])
                        ELSE Become(r, OnCreated(thread[r], key, 0))
      /\ UNCHANGED <<shared, jobs, recorded, events, aux>>

\* for key in set: ... raises when the set has grown since the loop began.
Changed(s) == sets[s.stack[1].set] # s.stack[1].all
Visit(s, key, pc) ==
  [s EXCEPT !.pc = pc, !.key = key, !.stack[1].left = @ \ {key}]

\* A loop has ended or a call has returned: the loop around it goes on, or all keys
\* are removed.
Back(s) == IF s.stack = << >> THEN [s EXCEPT !.pc = "in", !.key = s.item]
                              ELSE [s EXCEPT !.pc = "walk"]

\* The two loops of clear_recently_added_queue, the inner one on top.
Walk(r) ==
  LET s == thread[r]
  IN  /\ At(r, "walk")
      /\ \/ Changed(s) /\ Raise(r)
         \/ ~Changed(s) /\ s.stack[1].left = {} /\ Become(r, Back([s EXCEPT !.stack = Tail(@)]))
         \/ ~Changed(s) /\ \E key \in s.stack[1].left :
              IF Len(s.stack) = 1
                THEN Become(r, Visit(s, key, "child"))
                ELSE Become(r, OnCreated(Visit(s, key, "walk"), key, 0))
      /\ UNCHANGED <<shared, jobs, recorded, events, aux>>

\* Mutated form of Recorded: the item alone, not its child keys.
RecordedItemOnly(key, children) == {key}

\* all_keys: what goes into the table recently_added.
Recorded(key, children) == {key} \cup children

\* on_created: an item without child keys that is in the table already is not
\* announced again; all keys go into the table, the item first, each after a request
\* for its metadata.  No other thread has to do with these rows, so it is one step;
\* a request that fails, or the None it returns, ends the callback there.
Created(r) ==
  LET s == thread[r]
      again == s.set = 0 /\ s.key \in recorded
      children == IF s.set = 0 THEN {} ELSE sets[s.set]
      all == Recorded(s.key, children)
  IN  /\ At(r, "created")
      /\ announced' = IF again THEN announced ELSE announced \cup {s.key} \cup children
      /\ repeated' = IF again \/ s.set # 0 THEN repeated
                     ELSE repeated \cup ({s.key} \cap announced)
      /\ waiting' = waiting \ Covered(s.key, children)
      /\ \/ /\ recorded' = recorded \cup all
            /\ Become(r, Back([s EXCEPT !.set = 0]))
            /\ UNCHANGED failed
         \/ /\ \E done \in SUBSET all :
                 /\ IF done = {} THEN s.key \in Unavailable
                    ELSE s.key \in done /\ (all \ done) \cap Unavailable # {}
                 /\ recorded' = recorded \cup done
                 /\ failed' = failed \cup (all \ done) \cup (waiting' \cap Tree(r))
            /\ Raise(r)
      /\ UNCHANGED <<shared, jobs, events, raced>>

\* The metadata of on_created itself: the request fails or returns None.
MetadataFails(r) ==
  /\ At(r, "created") /\ thread[r].key \in Unavailable
  /\ Raise(r)
  /\ failed' = failed \cup (waiting \cap Tree(r))
  /\ UNCHANGED <<shared, jobs, recorded, events, announced, repeated, waiting, raced>>

\* Mutated form of Unwound: the callback of a deleted item is left.
UnwoundJobKept(t) == Idle

\* After del_keys a callback is done, a deleted item loses its callback.
Unwound(t) ==
  IF t = Websocket THEN [Idle EXCEPT !.pc = "get_job", !.item = thread[t].item, !.remove = TRUE]
  ELSE Idle

\* A call of del_keys returns: the loop around it goes on, or all is done.
Return(t, s) == IF s.stack = << >> THEN Unwound(t) ELSE [s EXCEPT !.pc = "unwind"]

\* del_keys: a key that is in the queue is popped, and each key of the set it had
\* is treated the same way.
DelKeys(t) ==
  LET s == thread[t]
      key == s.key
  IN  /\ \/ /\ At(t, "in")
            /\ Become(t, IF Queued(key) THEN [s EXCEPT !.pc = "pop"] ELSE Return(t, s))
            /\ UNCHANGED <<queue, waiting>>
         \/ At(t, "pop") /\ ~Queued(key) /\ Raise(t) /\ UNCHANGED <<queue, waiting>>
         \/ /\ At(t, "pop") /\ Queued(key)
            /\ queue' = Restrict(queue, DOMAIN queue \ {key})
            /\ waiting' = IF t = Websocket THEN waiting \ {key} ELSE waiting
            /\ Become(t, Push(s, queue[key], "unwind"))
         \/ /\ At(t, "unwind")
            /\ \/ Changed(s) /\ Raise(t)
               \/ ~Changed(s) /\ s.stack[1].left = {} /\ Become(t, Return(t, [s EXCEPT !.stack = Tail(@)]))
               \/ ~Changed(s) /\ \E k \in s.stack[1].left : Become(t, Visit(s, k, "in"))
            /\ UNCHANGED <<queue, waiting>>
      /\ UNCHANGED <<sets, jobs, recorded, events, announced, repeated, raced, failed>>

Callback(r) ==
  \/ Start(r) \/ Child(r) \/ Walk(r) \/ Created(r) \/ MetadataFails(r) \/ DelKeys(r)

Handle == Insert \/ Schedule \/ Delete \/ DelKeys(Websocket)

Next ==
  \/ Receive \/ Handle
  \/ \E r \in Roots : Fire(r) \/ Callback(r)

Spec == Init /\ [][Next]_vars
-----------------------------------------------------------------------------
TypeOK ==
  /\ sets \in Seq(SUBSET Items)
  /\ DOMAIN queue \subseteq Items
  /\ \A i \in DOMAIN queue : queue[i] \in DOMAIN sets
  /\ jobs \subseteq Roots
  /\ thread \in [Threads -> Local]
  /\ recorded \subseteq Items
  /\ events \in 0 .. MaxEvents
  /\ announced \subseteq Items /\ repeated \subseteq announced
  /\ waiting \subseteq Items /\ raced \subseteq Items /\ failed \subseteq Items

Quiet(r) == ~Handling(r) /\ At(r, "idle")

\* No item is forgotten: one that was created and not announced since has a
\* callback of its root pending or running.  Only an item whose own event was
\* handled during a run of that callback may be lost, or one for which a request
\* failed; the races never lose another item of the tree.
NothingForgotten ==
  \A i \in waiting \ (raced \cup failed) : Root(i) \in jobs \/ ~Quiet(Root(i))

\* The queue and the callbacks agree: when no thread is at work on a root, it has
\* a callback exactly while it is in the queue, and without one nothing of its
\* tree is left there, except after a race or a failed request.
QueueMatchesCallbacks ==
  \A r \in Roots : Quiet(r) /\ Tree(r) \cap (raced \cup failed) = {} =>
    /\ r \in jobs <=> Queued(r)
    /\ r \notin jobs => Tree(r) \cap DOMAIN queue = {}

\* An item is not announced by itself when it has been announced before, by itself
\* or among child keys, in whatever order events and callbacks come, unless a
\* request failed before it was recorded.
AnnouncedOnce == repeated \subseteq failed
=============================================================================
