----------------------- MODULE NotificationQueueProofs -----------------------
(***************************************************************************)
(* For any number of workers, notifiers, streams and events: type          *)
(* correctness of the notification queue; that notify_log tells the truth; *)
(* that a notifier is told of a watched stream once; and that one worker   *)
(* keeps the order of the events.                                          *)
(*                                                                         *)
(* Each of the three properties is a count or an order of what has left    *)
(* the queue, so that its invariant has to follow a notification from      *)
(* place to place: RecordInv says which row a worker holds between the     *)
(* INSERT and the mark; OnceInv, that an on_watched is in one place at a   *)
(* time and not yet in notify_log; OrderInv, that what is in the queue,    *)
(* with the worker and sent is in order.                                   *)
(***************************************************************************)
EXTENDS NotificationQueue, FiniteSetTheorems, TLAPS

Local == [pc : PC, item : Item, todo : SUBSET Notifiers, row : Nat, key : Key]

Message == [event : 0 .. MaxEvents, action : Actions \cup {"none"},
            stream : Streams \cup {NoStream}, notifier : Notifiers \cup {NoNotifier}]

\* The notifier of an on_watched is named before it reaches the queue.
Addressed(i) == i.action = "on_watched" => i.notifier \in Notifiers

\* A worker on its way from the INSERT to the mark.
Recording(w) == worker[w].pc \in {"insert", "send", "success", "success_insert"}

KeyFits(w) ==
  Recording(w) => /\ worker[w].key.action = worker[w].item.action
                  /\ worker[w].key.stream = worker[w].item.stream
                  /\ worker[w].key.notifier = worker[w].item.notifier

\* A worker that puts notifications for a notifier that was named has no other.
TodoFits(w) ==
  At(w, "put") /\ worker[w].item.notifier # NoNotifier =>
    worker[w].todo \subseteq {worker[w].item.notifier}

BaseInv ==
  /\ TypeOK
  /\ sent \in Seq(Message)
  /\ \A k \in DOMAIN queue : Addressed(queue[k])
  /\ \A w \in Started : Addressed(worker[w].item) /\ KeyFits(w) /\ TodoFits(w)
  /\ \A k \in DOMAIN sent : Addressed(sent[k])
-----------------------------------------------------------------------------
\* The rows of notify_log have the numbers of their insertion.
RowsNumbered == \E n \in Nat : DOMAIN notify_log \ {0} = 1 .. n

\* A worker holds the row of its notification, or 0 for one that was there.
RowHeld(w) ==
  worker[w].pc \in {"send", "success", "success_insert"} =>
    IF worker[w].row = 0
      THEN worker[w].key \in collided
      ELSE /\ worker[w].row \in DOMAIN notify_log
           /\ notify_log[worker[w].row].key = worker[w].key
           /\ worker[w].pc # "success_insert"

RecordInv ==
  /\ RowsNumbered
  /\ \A w \in Started : RowHeld(w)
  /\ SuccessRecorded
-----------------------------------------------------------------------------
\* The item is the on_watched of stream s for notifier n.
About(i, s, n) == i.action = "on_watched" /\ i.stream = s /\ i.notifier = n

\* The places where it can be before it is in notify_log.
InWatcher(s, n) == watcher.stream = s /\ n \in watcher.todo
InQueue(s, n) == {k \in DOMAIN queue : About(queue[k], s, n)}
HeldBy(w, s, n) ==
  /\ About(worker[w].item, s, n)
  /\ \/ worker[w].pc \in {"event", "notification", "insert"}
     \/ At(w, "put") /\ n \in worker[w].todo

\* The places where it is afterwards.
SentBy(w, s, n) == At(w, "send") /\ About(worker[w].item, s, n)
InSent(s, n) == {k \in DOMAIN sent : About(sent[k], s, n)}

Before(s, n) ==
  InWatcher(s, n) \/ InQueue(s, n) # {} \/ \E w \in Started : HeldBy(w, s, n)

After(s, n) == InSent(s, n) # {} \/ \E w \in Started : SentBy(w, s, n)

\* It is in one place.
Single(s, n) ==
  /\ \A k, l \in InQueue(s, n) : k = l
  /\ \A v, w \in Started : HeldBy(v, s, n) /\ HeldBy(w, s, n) => v = w
  /\ InWatcher(s, n) => InQueue(s, n) = {}
  /\ InWatcher(s, n) \/ InQueue(s, n) # {} => \A w \in Started : ~HeldBy(w, s, n)
  /\ Before(s, n) => n \notin Logged(s)
  /\ After(s, n) => n \in Logged(s)
  /\ \A k, l \in InSent(s, n) : k = l
  /\ \A v, w \in Started : SentBy(v, s, n) /\ SentBy(w, s, n) => v = w
  /\ InSent(s, n) # {} => \A w \in Started : ~SentBy(w, s, n)

OnceInv ==
  \A s \in Streams \cup {NoStream}, n \in Notifiers : <<s, n>> \in overlap \/ Single(s, n)
-----------------------------------------------------------------------------
\* What InOrderWithOneThread speaks of, in the queue, with a worker and sent.
Plain(i) == i.action \notin ChainedActions \cup {"on_watched"}

Queued(kind) == {k \in DOMAIN queue : queue[k].kind = kind /\ Plain(queue[k])}
Served(w) == worker[w].pc \in {"event", "put"} /\ Plain(worker[w].item)
Delivering(w) == worker[w].pc \in {"notification", "insert", "send"} /\ Plain(worker[w].item)
Gone == {k \in DOMAIN sent : Plain(sent[k])}

Kinds == {"event", "notification"}

\* No later event overtakes: what has gone is not younger than what a worker
\* delivers, and so on to the events not yet served.
GoneOrdered ==
  /\ \A k, l \in Gone : k < l => sent[k].event <= sent[l].event
  /\ \A k \in Gone : sent[k].event <= events

QueueOrdered ==
  /\ \A kind \in Kinds : \A k, l \in Queued(kind) : k < l => queue[k].event <= queue[l].event
  /\ \A k \in Queued("notification"), l \in Queued("event") : queue[k].event <= queue[l].event
  /\ \A kind \in Kinds : \A k \in Queued(kind) : queue[k].event <= events

GoneBeforeQueue ==
  \A kind \in Kinds : \A k \in Gone, l \in Queued(kind) : sent[k].event <= queue[l].event

\* Where a worker's item stands among the others.
ServedBetween(w) ==
  Served(w) =>
    /\ \A k \in Queued("notification") : queue[k].event <= worker[w].item.event
    /\ \A l \in Queued("event") : worker[w].item.event <= queue[l].event

DeliveredFirst(w) ==
  Delivering(w) =>
    \A kind \in Kinds : \A l \in Queued(kind) : worker[w].item.event <= queue[l].event

AfterGone(w) ==
  Served(w) \/ Delivering(w) =>
    /\ \A k \in Gone : sent[k].event <= worker[w].item.event
    /\ worker[w].item.event <= events

OrderInv ==
  Cardinality(Started) = 1 =>
    /\ GoneOrdered /\ QueueOrdered /\ GoneBeforeQueue
    /\ \A w \in Started : ServedBetween(w) /\ DeliveredFirst(w) /\ AfterGone(w)

Inv == BaseInv /\ RecordInv /\ OnceInv /\ OrderInv
-----------------------------------------------------------------------------
(* Sequences and local states. *)

LEMMA PutOne ==
  ASSUME NEW S, NEW q \in Seq(S), NEW i \in S
  PROVE  /\ q \o <<i>> \in Seq(S)
         /\ DOMAIN q = 1 .. Len(q) /\ Len(q) \in Nat
         /\ DOMAIN (q \o <<i>>) = DOMAIN q \cup {Len(q) + 1}
         /\ \A k \in DOMAIN q : (q \o <<i>>)[k] = q[k]
         /\ (q \o <<i>>)[Len(q) + 1] = i
  OBVIOUS

\* An element that is taken from the front moves the others down.
LEMMA TakeOne ==
  ASSUME NEW S, NEW q \in Seq(S), q # <<>>
  PROVE  /\ Head(q) \in S /\ Head(q) = q[1] /\ 1 \in DOMAIN q
         /\ Tail(q) \in Seq(S)
         /\ DOMAIN q = 1 .. Len(q) /\ Len(q) \in Nat
         /\ DOMAIN Tail(q) = 1 .. Len(q) - 1
         /\ \A k \in DOMAIN Tail(q) : k + 1 \in DOMAIN q /\ Tail(q)[k] = q[k + 1]
  OBVIOUS

LEMMA Becomes ==
  ASSUME NEW w \in Started, NEW s, Become(w, s)
  PROVE  /\ DOMAIN worker' = Started
         /\ \A v \in Started : worker'[v] = IF v = w THEN s ELSE worker[v]
  BY DEF Become, Started

LEMMA ReadyFacts ==
  /\ Ready \in Local /\ Ready.pc = "get" /\ Ready.item = Stop
  /\ Stop.action = "none" /\ Stop.kind = "stop" /\ Stop \in Item
  /\ [Ready EXCEPT !.pc = "exited"] \in Local
<1>1. MaxTime \in Nat /\ MaxEvents \in Nat
  BY ConstantsAssumption
<1>2. Stop \in Item /\ Stop.action = "none" /\ Stop.kind = "stop"
  BY <1>1 DEF Stop, Item
<1>3. QED
  BY <1>1, <1>2 DEF Ready, Local, Key, PC

\* Rows keep their numbers when one is inserted behind them.
LEMMA NextRow ==
  ASSUME RowsNumbered
  PROVE  /\ Cardinality(DOMAIN notify_log \ {0}) + 1 \in Nat \ {0}
         /\ Cardinality(DOMAIN notify_log \ {0}) + 1 \notin DOMAIN notify_log
         /\ \E n \in Nat :
              (DOMAIN notify_log \cup {Cardinality(DOMAIN notify_log \ {0}) + 1}) \ {0} = 1 .. n
<1>1. PICK n \in Nat : DOMAIN notify_log \ {0} = 1 .. n
  BY DEF RowsNumbered
<1>2. Cardinality(1 .. n) = n
  BY FS_Interval
<1>3. Cardinality(DOMAIN notify_log \ {0}) + 1 = n + 1
  BY <1>1, <1>2
<1>4. n + 1 \notin DOMAIN notify_log /\ n + 1 \in Nat \ {0}
  BY <1>1
<1>5. (DOMAIN notify_log \cup {n + 1}) \ {0} = 1 .. n + 1
  BY <1>1
<1>6. QED
  BY <1>3, <1>4, <1>5
-----------------------------------------------------------------------------
(* Steps that move nothing. *)

\* A step after which the on_watched is in no other place than before.
LEMMA OnceKept ==
  ASSUME OnceInv, DOMAIN worker' = Started, overlap \subseteq overlap',
         \A s \in Streams \cup {NoStream}, n \in Notifiers : <<s, n>> \notin overlap =>
           /\ Logged(s)' = Logged(s)
           /\ InWatcher(s, n)' => InWatcher(s, n)
           /\ InQueue(s, n)' \subseteq InQueue(s, n)
           /\ InSent(s, n)' \subseteq InSent(s, n)
           /\ \A w \in Started : /\ HeldBy(w, s, n)' => HeldBy(w, s, n)
                                 /\ SentBy(w, s, n)' => SentBy(w, s, n)
  PROVE  OnceInv'
<1> SUFFICES ASSUME NEW s \in Streams \cup {NoStream}, NEW n \in Notifiers,
                    <<s, n>> \notin overlap'
             PROVE  Single(s, n)'
  BY DEF OnceInv
<1>1. Single(s, n) /\ <<s, n>> \notin overlap
  BY DEF OnceInv
<1>2. (Before(s, n)' => Before(s, n)) /\ (After(s, n)' => After(s, n))
  BY DEF Before, After, Started
<1>3. QED
  BY <1>1, <1>2 DEF Single, Started

\* A step that changes neither what has gone nor who is to be served next.
LEMMA OrderKept ==
  ASSUME OrderInv, DOMAIN worker' = Started, sent' = sent, events \in Nat, events' \in Nat,
         events <= events', queue \in Seq(Item), sent \in Seq(Message),
         \A w \in Started : worker[w].item \in Item,
         \A kind \in Kinds :
           /\ Queued(kind)' = Queued(kind)
           /\ \A k \in Queued(kind) : queue'[k] = queue[k],
         \A w \in Started :
           /\ Served(w)' => Served(w) /\ worker'[w].item = worker[w].item
           /\ Delivering(w)' => Delivering(w) /\ worker'[w].item = worker[w].item
  PROVE  OrderInv'
<1> SUFFICES ASSUME Cardinality(Started) = 1
             PROVE  OrderInv'
  BY DEF OrderInv, Started
<1>1. Gone' = Gone
  BY DEF Gone
<1>2. \A k \in Gone : sent[k].event \in Nat
  <2>1. \A m \in Message : m.event \in Nat
    BY ConstantsAssumption DEF Message
  <2>2. QED
    BY <2>1 DEF Gone
<1>3. \A i \in Item : i.event \in Nat
  BY ConstantsAssumption DEF Item
<1>4. \A kind \in Kinds : \A k \in Queued(kind) : queue[k].event \in Nat
  BY <1>3 DEF Queued
<1>5. GoneOrdered'
  BY <1>1, <1>2 DEF OrderInv, GoneOrdered
<1>6. QueueOrdered'
  BY <1>4 DEF OrderInv, QueueOrdered, Kinds
<1>7. GoneBeforeQueue'
  BY <1>1 DEF OrderInv, GoneBeforeQueue
<1>8. ASSUME NEW w \in Started PROVE (ServedBetween(w) /\ DeliveredFirst(w) /\ AfterGone(w))'
  <2>1. worker[w].item.event \in Nat
    BY <1>3
  <2>2. (ServedBetween(w) /\ DeliveredFirst(w))'
    BY DEF OrderInv, ServedBetween, DeliveredFirst, Kinds
  <2>3. AfterGone(w)'
    BY <1>1, <2>1 DEF OrderInv, AfterGone
  <2>4. QED
    BY <2>2, <2>3
<1>9. QED
  BY <1>5, <1>6, <1>7, <1>8 DEF OrderInv, Started

\* A step after which the rows and what is said of them are as before, and every
\* worker holds its row.
LEMMA RecordKept ==
  ASSUME RecordInv, UNCHANGED <<notify_log, delivered>>, collided \subseteq collided',
         DOMAIN worker' = Started, \A w \in Started : RowHeld(w)'
  PROVE  RecordInv'
  BY DEF RecordInv, RowsNumbered, SuccessRecorded, Started

\* An item at the end of the queue.
LEMMA Puts ==
  ASSUME queue \in Seq(Item), NEW i \in Item, Put(<<i>>)
  PROVE  /\ queue' \in Seq(Item)
         /\ (\A k \in DOMAIN queue : Addressed(queue[k])) /\ Addressed(i)
              => \A k \in DOMAIN queue' : Addressed(queue'[k])
         /\ \A kind \in Kinds :
              /\ Queued(kind)' = IF i.kind = kind /\ Plain(i)
                                   THEN Queued(kind) \cup {Len(queue) + 1} ELSE Queued(kind)
              /\ \A k \in Queued(kind) : queue'[k] = queue[k] /\ k < Len(queue) + 1
         /\ \A s, n :
              /\ InQueue(s, n)' = IF About(i, s, n)
                                    THEN InQueue(s, n) \cup {Len(queue) + 1} ELSE InQueue(s, n)
         /\ queue'[Len(queue) + 1] = i /\ Len(queue) \in Nat
<1>1. queue' = queue \o <<i>>
  BY DEF Put
<1>2. /\ queue' \in Seq(Item)
      /\ DOMAIN queue = 1 .. Len(queue) /\ Len(queue) \in Nat
      /\ DOMAIN queue' = DOMAIN queue \cup {Len(queue) + 1}
      /\ \A k \in DOMAIN queue : queue'[k] = queue[k]
      /\ queue'[Len(queue) + 1] = i
  BY <1>1, PutOne
<1>3. ASSUME \A k \in DOMAIN queue : Addressed(queue[k]), Addressed(i)
      PROVE  \A k \in DOMAIN queue' : Addressed(queue'[k])
  BY <1>2, <1>3
<1>4. ASSUME NEW kind \in Kinds
      PROVE  /\ Queued(kind)' = IF i.kind = kind /\ Plain(i)
                                   THEN Queued(kind) \cup {Len(queue) + 1} ELSE Queued(kind)
             /\ \A k \in Queued(kind) : queue'[k] = queue[k] /\ k < Len(queue) + 1
  BY <1>2 DEF Queued
<1>5. ASSUME NEW s, NEW n
      PROVE  InQueue(s, n)' = IF About(i, s, n)
                                THEN InQueue(s, n) \cup {Len(queue) + 1} ELSE InQueue(s, n)
  BY <1>2 DEF InQueue
<1>6. QED
  BY <1>2, <1>3, <1>4, <1>5

\* The item at the front leaves the queue.
LEMMA Takes ==
  ASSUME queue \in Seq(Item), queue # <<>>, queue' = Tail(queue),
         NEW i, i = Head(queue)
  PROVE  /\ i \in Item /\ queue' \in Seq(Item)
         /\ \A k \in DOMAIN queue' : k + 1 \in DOMAIN queue /\ queue'[k] = queue[k + 1]
         /\ (\A k \in DOMAIN queue : Addressed(queue[k])) =>
              Addressed(i) /\ \A k \in DOMAIN queue' : Addressed(queue'[k])
         /\ \A kind \in Kinds :
              /\ \A k \in Queued(kind)' : /\ k \in Nat \ {0} /\ k + 1 \in Queued(kind)
                                          /\ queue'[k] = queue[k + 1]
              /\ i.kind = kind /\ Plain(i) => 1 \in Queued(kind)
         /\ \A s, n :
              /\ \A k \in InQueue(s, n)' : k \in Nat \ {0} /\ k + 1 \in InQueue(s, n)
              /\ About(i, s, n) => 1 \in InQueue(s, n)
         /\ queue[1] = i
<1>1. /\ i \in Item /\ i = queue[1] /\ 1 \in DOMAIN queue
      /\ queue' \in Seq(Item)
      /\ DOMAIN queue = 1 .. Len(queue) /\ Len(queue) \in Nat
      /\ DOMAIN queue' = 1 .. Len(queue) - 1
      /\ \A k \in DOMAIN queue' : k + 1 \in DOMAIN queue /\ queue'[k] = queue[k + 1]
  BY TakeOne
<1>2. ASSUME NEW kind \in Kinds
      PROVE  /\ \A k \in Queued(kind)' : /\ k \in Nat \ {0} /\ k + 1 \in Queued(kind)
                                         /\ queue'[k] = queue[k + 1]
             /\ i.kind = kind /\ Plain(i) => 1 \in Queued(kind)
  BY <1>1 DEF Queued
<1>3. ASSUME NEW s, NEW n
      PROVE  /\ \A k \in InQueue(s, n)' : k \in Nat \ {0} /\ k + 1 \in InQueue(s, n)
             /\ About(i, s, n) => 1 \in InQueue(s, n)
  BY <1>1 DEF InQueue
<1>4. QED
  BY <1>1, <1>2, <1>3
-----------------------------------------------------------------------------
(* The other threads. *)

\* Time passes, or a stream is played again.
LEMMA QuietStep ==
  ASSUME Inv, UNCHANGED <<queue, worker, notify_log, events, watcher, aux>>,
         now' \in 0 .. MaxTime, watched' \subseteq Streams, stopping' \in BOOLEAN
  PROVE  Inv'
<1>1. BaseInv'
  BY DEF Inv, BaseInv, TypeOK, Started, aux, KeyFits, TodoFits, At, Recording
<1>2. RecordInv'
  BY DEF Inv, RecordInv, aux, RowsNumbered, RowHeld, SuccessRecorded, Started
<1>3. OnceInv'
  BY OnceKept DEF Inv, aux, Logged, InWatcher, InQueue, InSent, HeldBy, SentBy, At, Started
<1>4. OrderInv'
  <2>1. \A kind \in Kinds : Queued(kind)' = Queued(kind)
    BY DEF Queued
  <2>2. /\ events \in Nat /\ queue \in Seq(Item) /\ sent \in Seq(Message)
        /\ \A w \in Started : worker[w].item \in Item
    BY ConstantsAssumption DEF Inv, BaseInv, TypeOK
  <2>3. QED
    BY <2>1, <2>2, OrderKept DEF Inv, aux, Started, Served, Delivering
<1>5. QED
  BY <1>1, <1>2, <1>3, <1>4 DEF Inv

LEMMA ProduceStep ==
  ASSUME Inv, Produce
  PROVE  Inv'
<1>1. PICK s \in Streams \cup {NoStream}, action \in Produced \ {"on_watched"} :
        /\ events' = events + Cost(action) /\ events' <= Allowed
        /\ Put(<<Event(events', action, s, NoNotifier)>>)
  BY DEF Produce
<1>2. UNCHANGED <<worker, notify_log, now, watched, watcher, stopping, aux>>
  BY DEF Produce
<1>3. events \in 0 .. MaxEvents /\ Allowed \in 0 .. MaxEvents
  BY ConstantsAssumption DEF Inv, BaseInv, TypeOK, Allowed
<1>4. PICK e \in 0 .. MaxEvents : e = events' /\ e > events
  BY <1>1, <1>3, ConstantsAssumption DEF Cost
<1>5. PICK i \in Item : /\ i = Event(e, action, s, NoNotifier) /\ i.kind = "event"
                        /\ i.action # "on_watched" /\ i.event = e
  <2>1. action \in Actions
    BY ConstantsAssumption DEF Actions
  <2>2. Event(e, action, s, NoNotifier) \in Item
    BY <2>1 DEF Item, Event
  <2>3. QED
    BY <2>2 DEF Event
<1>6. Put(<<i>>) /\ queue \in Seq(Item) /\ sent \in Seq(Message)
  BY <1>1, <1>4, <1>5 DEF Inv, BaseInv, TypeOK
<1>7. BaseInv'
  <2>1. queue' \in Seq(Item) /\ \A k \in DOMAIN queue' : Addressed(queue'[k])
    BY <1>5, <1>6, Puts DEF Inv, BaseInv, Addressed
  <2>2. events' \in 0 .. MaxEvents
    BY <1>4
  <2>3. QED
    BY <1>2, <2>1, <2>2
       DEF Inv, BaseInv, TypeOK, Started, aux, KeyFits, TodoFits, At, Recording
<1>8. RecordInv'
  BY <1>2 DEF Inv, RecordInv, aux, RowsNumbered, RowHeld, SuccessRecorded, Started
<1>9. OnceInv'
  <2>1. \A t, n : InQueue(t, n)' = InQueue(t, n)
    BY <1>5, <1>6, Puts DEF About
  <2>2. QED
    BY <1>2, <2>1, OnceKept
       DEF Inv, aux, Logged, InWatcher, InSent, HeldBy, SentBy, At, Started
<1>10. OrderInv'
  <2> SUFFICES ASSUME Cardinality(Started) = 1
               PROVE  OrderInv'
    BY <1>2 DEF OrderInv, Started
  <2>1. /\ Queued("notification")' = Queued("notification")
        /\ Queued("event") \subseteq Queued("event")'
        /\ Queued("event")' \subseteq Queued("event") \cup {Len(queue) + 1}
        /\ \A kind \in Kinds : \A k \in Queued(kind) : queue'[k] = queue[k] /\ k < Len(queue) + 1
        /\ queue'[Len(queue) + 1] = i
    BY <1>5, <1>6, Puts DEF Kinds
  <2>2. Gone' = Gone /\ sent' = sent
    BY <1>2 DEF Gone, aux
  <2>3. \A k \in Gone : sent[k].event \in Nat /\ sent[k].event <= e
    <3>1. \A m \in Message : m.event \in Nat
      BY ConstantsAssumption DEF Message
    <3>2. QED
      BY <1>3, <1>4, <1>6, <3>1 DEF Gone, Inv, OrderInv, GoneOrdered
  <2>4. \A j \in Item : j.event \in Nat
    BY ConstantsAssumption DEF Item
  <2>5. \A kind \in Kinds : \A k \in Queued(kind) :
          k \in Nat /\ queue[k].event \in Nat /\ queue[k].event <= e
    BY <1>3, <1>4, <1>6, <2>4 DEF Queued, Inv, OrderInv, QueueOrdered
  <2>6. GoneOrdered'
    BY <1>4, <2>2, <2>3 DEF Inv, OrderInv, GoneOrdered
  <2>7. QueueOrdered'
    <3>1. \A kind \in Kinds : \A k \in Queued(kind)' :
            /\ k \in Queued(kind) \/ (kind = "event" /\ k = Len(queue) + 1 /\ queue'[k].event = e)
            /\ k \in Nat /\ queue'[k].event \in Nat /\ queue'[k].event <= e
      BY <1>5, <2>1, <2>5 DEF Kinds
    <3>2. QED
      BY <1>4, <2>1, <2>5, <3>1 DEF Inv, OrderInv, QueueOrdered, Kinds
  <2>8. GoneBeforeQueue'
    BY <1>5, <2>1, <2>2, <2>3 DEF Inv, OrderInv, GoneBeforeQueue, Kinds
  <2>9. ASSUME NEW w \in Started PROVE (ServedBetween(w) /\ DeliveredFirst(w) /\ AfterGone(w))'
    <3>1. worker' = worker /\ worker[w].item.event \in Nat
      BY <1>2, <2>4 DEF Inv, BaseInv, TypeOK
    <3>2. (Served(w)' <=> Served(w)) /\ (Delivering(w)' <=> Delivering(w))
      BY <3>1 DEF Served, Delivering
    <3>3. Served(w) \/ Delivering(w) => worker[w].item.event <= e
      BY <1>3, <1>4, <3>1 DEF Inv, OrderInv, AfterGone
    <3>4. AfterGone(w)'
      BY <1>4, <2>2, <3>1, <3>2, <3>3 DEF Inv, OrderInv, AfterGone
    <3>5. (ServedBetween(w) /\ DeliveredFirst(w))'
      BY <1>5, <2>1, <3>1, <3>2, <3>3 DEF Inv, OrderInv, ServedBetween, DeliveredFirst, Kinds
    <3>6. QED
      BY <3>4, <3>5
  <2>10. QED
    BY <1>2, <2>6, <2>7, <2>8, <2>9 DEF OrderInv, Started
<1>11. QED
  BY <1>7, <1>8, <1>9, <1>10 DEF Inv

LEMMA ShutdownStep ==
  ASSUME Inv, Shutdown
  PROVE  Inv'
<1>1. /\ queue' = queue \o [i \in 1 .. Cardinality(Started) |-> Stop]
      /\ UNCHANGED <<worker, notify_log, now, events, watched, watcher, aux>>
      /\ stopping' \in BOOLEAN
  BY DEF Shutdown, Put
<1>2. PICK N \in Nat : N = Cardinality(Started)
  BY ConstantsAssumption, FS_Subset, FS_CardinalityType DEF Inv, BaseInv, TypeOK
<1>3. /\ queue' \in Seq(Item) /\ queue \in Seq(Item)
      /\ DOMAIN queue \subseteq DOMAIN queue'
      /\ \A k \in DOMAIN queue : queue'[k] = queue[k]
      /\ \A k \in DOMAIN queue' \ DOMAIN queue : queue'[k] = Stop
  <2>1. PICK stops \in Seq(Item) :
          stops = [i \in 1 .. N |-> Stop] /\ Len(stops) = N /\ \A k \in 1 .. N : stops[k] = Stop
    <3>1. [i \in 1 .. N |-> Stop] \in Seq(Item) /\ Len([i \in 1 .. N |-> Stop]) = N
      BY ReadyFacts
    <3>2. QED
      BY <3>1
  <2>2. queue \in Seq(Item) /\ queue' = queue \o stops
    BY <1>1, <1>2, <2>1 DEF Inv, BaseInv, TypeOK
  <2>3. /\ queue' \in Seq(Item) /\ DOMAIN queue = 1 .. Len(queue) /\ Len(queue) \in Nat
        /\ DOMAIN queue' = 1 .. Len(queue) + N
        /\ \A k \in 1 .. Len(queue) + N :
             queue'[k] = IF k <= Len(queue) THEN queue[k] ELSE stops[k - Len(queue)]
    BY <2>1, <2>2
  <2>4. QED
    BY <2>1, <2>2, <2>3
<1>4. \A s, n : InQueue(s, n)' = InQueue(s, n)
  BY <1>3, ReadyFacts DEF InQueue, About
<1>5. \A kind \in Kinds : /\ Queued(kind)' = Queued(kind)
                         /\ \A k \in Queued(kind) : queue'[k] = queue[k]
  BY <1>3, ReadyFacts DEF Queued, Kinds
<1>6. BaseInv'
  <2>1. \A k \in DOMAIN queue' : Addressed(queue'[k])
    BY <1>3, ReadyFacts DEF Inv, BaseInv, Addressed
  <2>2. QED
    BY <1>1, <1>3, <2>1
       DEF Inv, BaseInv, TypeOK, Started, aux, KeyFits, TodoFits, At, Recording
<1>7. RecordInv'
  BY <1>1 DEF Inv, RecordInv, aux, RowsNumbered, RowHeld, SuccessRecorded, Started
<1>8. OnceInv'
  BY <1>1, <1>4, OnceKept DEF Inv, aux, Logged, InWatcher, InSent, HeldBy, SentBy, At, Started
<1>9. OrderInv'
  <2>1. /\ events \in Nat /\ sent \in Seq(Message)
        /\ \A w \in Started : worker[w].item \in Item
    BY ConstantsAssumption DEF Inv, BaseInv, TypeOK
  <2>2. \A w \in Started :
          /\ Served(w)' => Served(w) /\ worker'[w].item = worker[w].item
          /\ Delivering(w)' => Delivering(w) /\ worker'[w].item = worker[w].item
    BY <1>1 DEF Served, Delivering
  <2>3. DOMAIN worker' = Started /\ sent' = sent /\ events' = events /\ events <= events'
    BY <1>1, <2>1 DEF aux, Started
  <2>4. QED
    BY <1>3, <1>5, <2>1, <2>2, <2>3, OrderKept DEF Inv
<1>10. QED
  BY <1>6, <1>7, <1>8, <1>9 DEF Inv

\* The websocket thread asks notify_log: no other place holds what it will put,
\* unless it is noted in overlap.
LEMMA WatchedStep ==
  ASSUME Inv, NEW stream \in Streams, Watched(stream)
  PROVE  Inv'
<1>1. /\ watcher = NoWatcher /\ events < Allowed /\ events' = events + 1
      /\ watched' = watched \cup {stream}
      /\ watcher' = [event |-> events', stream |-> stream, todo |-> NotYetNotified(stream)]
      /\ overlap' = overlap \cup {<<stream, n>> : n \in {m \in Notifiers : UnderWay(stream, m)}}
      /\ UNCHANGED <<queue, worker, notify_log, now, stopping, sent, delivered, collided>>
  BY DEF Watched
<1>2. events \in 0 .. MaxEvents /\ Allowed \in 0 .. MaxEvents
  BY ConstantsAssumption DEF Inv, BaseInv, TypeOK, Allowed
<1>3. events' \in 0 .. MaxEvents
  BY <1>1, <1>2, ConstantsAssumption
<1>4. BaseInv'
  <2>1. watcher' \in [event : 0 .. MaxEvents, stream : Streams \cup {NoStream},
                      todo : SUBSET Notifiers]
    BY <1>1, <1>3 DEF NotYetNotified
  <2>2. QED
    BY <1>1, <1>3, <2>1 DEF Inv, BaseInv, TypeOK, Started, KeyFits, TodoFits, At, Recording
<1>5. RecordInv'
  BY <1>1 DEF Inv, RecordInv, RowsNumbered, RowHeld, SuccessRecorded, Started
<1>6. OnceInv'
  <2> SUFFICES ASSUME NEW s \in Streams \cup {NoStream}, NEW n \in Notifiers,
                      <<s, n>> \notin overlap'
               PROVE  Single(s, n)'
    BY DEF OnceInv
  <2>1. Single(s, n)
    BY <1>1 DEF Inv, OnceInv
  <2>2. /\ InQueue(s, n)' = InQueue(s, n) /\ InSent(s, n)' = InSent(s, n)
        /\ Logged(s)' = Logged(s) /\ DOMAIN worker' = Started
        /\ \A w \in Started : /\ HeldBy(w, s, n)' <=> HeldBy(w, s, n)
                              /\ SentBy(w, s, n)' <=> SentBy(w, s, n)
    BY <1>1 DEF InQueue, InSent, Logged, HeldBy, SentBy, At, Started
  <2>3. After(s, n)' <=> After(s, n)
    BY <2>2 DEF After, Started
  <2>4. CASE s # stream
    <3>1. ~InWatcher(s, n)'
      BY <1>1, <2>4 DEF InWatcher
    <3>2. Before(s, n)' => Before(s, n)
      BY <2>2, <3>1 DEF Before, Started
    <3>3. QED
      BY <2>1, <2>2, <2>3, <3>1, <3>2 DEF Single, Started
  <2>5. CASE s = stream
    <3>1. ~UnderWay(s, n)
      BY <1>1, <2>5
    <3>2. InQueue(s, n) = {} /\ \A w \in Started : ~HeldBy(w, s, n)
      <4>1. \A k \in DOMAIN queue : queue[k] \in ToSet(queue)
        BY DEF ToSet
      <4>2. QED
        BY <3>1, <4>1 DEF UnderWay, InQueue, HeldBy, About, At
    <3>3. InWatcher(s, n)' => n \notin Logged(s)
      BY <1>1, <2>5 DEF InWatcher, NotYetNotified
    <3>4. Before(s, n)' => n \notin Logged(s)'
      BY <2>2, <3>2, <3>3 DEF Before, Started
    <3>5. QED
      BY <2>1, <2>2, <2>3, <3>2, <3>4 DEF Single, Started
  <2>6. QED
    BY <2>4, <2>5
<1>7. OrderInv'
  <2>1. /\ events \in Nat /\ sent \in Seq(Message) /\ queue \in Seq(Item)
        /\ \A w \in Started : worker[w].item \in Item
    BY ConstantsAssumption DEF Inv, BaseInv, TypeOK
  <2>2. \A kind \in Kinds : Queued(kind)' = Queued(kind)
    BY <1>1 DEF Queued
  <2>3. events' \in Nat /\ events <= events'
    BY <1>1, <2>1
  <2>4. QED
    BY <1>1, <2>1, <2>2, <2>3, OrderKept DEF Inv, Started, Served, Delivering
<1>8. QED
  BY <1>4, <1>5, <1>6, <1>7 DEF Inv

\* It puts them: each goes from the websocket thread to the queue.
LEMMA PutWatchedStep ==
  ASSUME Inv, PutWatched
  PROVE  Inv'
<1>1. UNCHANGED <<worker, notify_log, now, events, watched, stopping, aux>>
  BY DEF PutWatched
<1>2. /\ watcher \in [event : 0 .. MaxEvents, stream : Streams \cup {NoStream},
                      todo : SUBSET Notifiers]
      /\ events \in Nat /\ sent \in Seq(Message) /\ queue \in Seq(Item)
      /\ \A w \in Started : worker[w].item \in Item
  BY ConstantsAssumption DEF Inv, BaseInv, TypeOK
<1>3. CASE watcher' = NoWatcher /\ UNCHANGED queue
  <2>1. NoWatcher \in [event : 0 .. MaxEvents, stream : Streams \cup {NoStream},
                       todo : SUBSET Notifiers]
    BY ConstantsAssumption DEF NoWatcher
  <2>2. BaseInv'
    BY <1>1, <1>3, <2>1
       DEF Inv, BaseInv, TypeOK, Started, aux, KeyFits, TodoFits, At, Recording
  <2>3. RecordInv'
    BY <1>1 DEF Inv, RecordInv, aux, RowsNumbered, RowHeld, SuccessRecorded, Started
  <2>4. \A s, n : ~InWatcher(s, n)'
    BY <1>3 DEF InWatcher, NoWatcher
  <2>5. OnceInv'
    BY <1>1, <1>3, <2>4, OnceKept
       DEF Inv, aux, Logged, InQueue, InSent, HeldBy, SentBy, At, Started
  <2>6. \A kind \in Kinds : Queued(kind)' = Queued(kind)
    BY <1>3 DEF Queued
  <2>7. OrderInv'
    BY <1>1, <1>2, <1>3, <2>6, OrderKept DEF Inv, aux, Started, Served, Delivering
  <2>8. QED
    BY <2>2, <2>3, <2>5, <2>7 DEF Inv
<1>4. CASE \E n \in watcher.todo :
             /\ Put(<<Event(watcher.event, "on_watched", watcher.stream, n)>>)
             /\ watcher' = [watcher EXCEPT !.todo = @ \ {n}]
  <2>1. PICK m \in Notifiers :
          /\ m \in watcher.todo
          /\ Put(<<Event(watcher.event, "on_watched", watcher.stream, m)>>)
          /\ watcher' = [watcher EXCEPT !.todo = @ \ {m}]
    BY <1>2, <1>4
  <2>2. PICK i \in Item : /\ i = Event(watcher.event, "on_watched", watcher.stream, m)
                          /\ i.action = "on_watched" /\ i.stream = watcher.stream
                          /\ i.notifier = m
    <3>1. Event(watcher.event, "on_watched", watcher.stream, m) \in Item
      BY <1>2 DEF Item, Event, Actions, StreamActions
    <3>2. QED
      BY <3>1 DEF Event
  <2>3. Put(<<i>>) /\ Addressed(i) /\ ~Plain(i)
    BY <2>1, <2>2 DEF Addressed, Plain
  <2>4. BaseInv'
    <3>1. queue' \in Seq(Item) /\ \A k \in DOMAIN queue' : Addressed(queue'[k])
      BY <1>2, <2>3, Puts DEF Inv, BaseInv
    <3>2. watcher' \in [event : 0 .. MaxEvents, stream : Streams \cup {NoStream},
                        todo : SUBSET Notifiers]
      BY <1>2, <2>1
    <3>3. QED
      BY <1>1, <3>1, <3>2
         DEF Inv, BaseInv, TypeOK, Started, aux, KeyFits, TodoFits, At, Recording
  <2>5. RecordInv'
    BY <1>1 DEF Inv, RecordInv, aux, RowsNumbered, RowHeld, SuccessRecorded, Started
  <2>6. OnceInv'
    <3> SUFFICES ASSUME NEW s \in Streams \cup {NoStream}, NEW n \in Notifiers,
                        <<s, n>> \notin overlap'
                 PROVE  Single(s, n)'
      BY DEF OnceInv
    <3>1. Single(s, n)
      BY <1>1 DEF Inv, OnceInv, aux
    <3>2. /\ InSent(s, n)' = InSent(s, n)
          /\ Logged(s)' = Logged(s) /\ DOMAIN worker' = Started
          /\ \A w \in Started : /\ HeldBy(w, s, n)' <=> HeldBy(w, s, n)
                                /\ SentBy(w, s, n)' <=> SentBy(w, s, n)
      BY <1>1 DEF InSent, Logged, HeldBy, SentBy, At, Started, aux
    <3>3. InQueue(s, n)' = IF About(i, s, n) THEN InQueue(s, n) \cup {Len(queue) + 1}
                           ELSE InQueue(s, n)
      BY <1>2, <2>3, Puts
    <3>4. After(s, n)' <=> After(s, n)
      BY <3>2 DEF After, Started
    <3>5. CASE About(i, s, n)
      <4>1. InWatcher(s, n) /\ ~InWatcher(s, n)'
        BY <1>2, <2>1, <2>2, <3>5 DEF About, InWatcher
      <4>2. InQueue(s, n) = {} /\ Before(s, n) /\ \A w \in Started : ~HeldBy(w, s, n)
        BY <3>1, <4>1 DEF Single, Before
      <4>3. QED
        BY <3>1, <3>2, <3>3, <3>4, <3>5, <4>1, <4>2 DEF Single, Started
    <3>6. CASE ~About(i, s, n)
      <4>1. InWatcher(s, n)' => InWatcher(s, n)
        BY <1>2, <2>1 DEF InWatcher
      <4>2. Before(s, n)' => Before(s, n)
        BY <3>2, <3>3, <3>6, <4>1 DEF Before, Started
      <4>3. QED
        BY <3>1, <3>2, <3>3, <3>4, <3>6, <4>1, <4>2 DEF Single, Started
    <3>7. QED
      BY <3>5, <3>6
  <2>7. \A kind \in Kinds : /\ Queued(kind)' = Queued(kind)
                           /\ \A k \in Queued(kind) : queue'[k] = queue[k]
    BY <1>2, <2>3, Puts
  <2>8. OrderInv'
    BY <1>1, <1>2, <2>7, OrderKept DEF Inv, aux, Started, Served, Delivering
  <2>9. QED
    BY <2>4, <2>5, <2>6, <2>8 DEF Inv
<1>5. QED
  BY <1>3, <1>4 DEF PutWatched
-----------------------------------------------------------------------------
(* The workers. *)

LEMMA BaseWorker ==
  ASSUME BaseInv, NEW w \in Started, NEW s \in Local, Become(w, s), Addressed(s.item),
         s.pc \in {"insert", "send", "success", "success_insert"} =>
           /\ s.key.action = s.item.action /\ s.key.stream = s.item.stream
           /\ s.key.notifier = s.item.notifier,
         s.pc = "put" /\ s.item.notifier # NoNotifier => s.todo \subseteq {s.item.notifier},
         queue' \in Seq(Item), \A k \in DOMAIN queue' : Addressed(queue'[k]),
         DOMAIN notify_log' \subseteq Nat,
         \A id \in DOMAIN notify_log' : notify_log'[id] \in [key : Key, success : BOOLEAN],
         UNCHANGED <<now, producers>>,
         sent' \in Seq(Message), \A k \in DOMAIN sent' : Addressed(sent'[k])
  PROVE  BaseInv'
<1>1. DOMAIN worker' = Started /\ \A v \in Started : worker'[v] = IF v = w THEN s ELSE worker[v]
  BY Becomes
<1>2. TypeOK'
  BY <1>1 DEF BaseInv, TypeOK, Started, producers, Local
<1>3. ASSUME NEW v \in Started
      PROVE  Addressed(worker'[v].item) /\ KeyFits(v)' /\ TodoFits(v)'
  BY <1>1 DEF BaseInv, KeyFits, TodoFits, At, Recording
<1>4. QED
  BY <1>1, <1>2, <1>3 DEF BaseInv, Started

\* A worker goes on without a notification moving.
LEMMA Advances ==
  ASSUME Inv, NEW w \in Started, NEW s \in Local, Become(w, s),
         UNCHANGED <<producers, sent, overlap>>,
         s.pc \in {"event", "put"} => At(w, "event") /\ s.item = worker[w].item,
         s.pc \in {"notification", "insert", "send"} =>
           At(w, "notification") /\ s.item = worker[w].item,
         s.pc = "send" => \A str \in Streams \cup {NoStream}, n \in Notifiers :
                            About(s.item, str, n) => <<str, n>> \in overlap,
         \A str \in Streams \cup {NoStream}, n \in Notifiers :
           Logged(str)' = Logged(str) /\ InQueue(str, n)' = InQueue(str, n),
         \A kind \in Kinds : /\ Queued(kind)' = Queued(kind)
                             /\ \A k \in Queued(kind) : queue'[k] = queue[k]
  PROVE  OnceInv' /\ OrderInv'
<1>1. DOMAIN worker' = Started /\ \A v \in Started : worker'[v] = IF v = w THEN s ELSE worker[v]
  BY Becomes
<1>2. OnceInv'
  <2> SUFFICES ASSUME NEW str \in Streams \cup {NoStream}, NEW n \in Notifiers,
                      <<str, n>> \notin overlap
               PROVE  /\ Logged(str)' = Logged(str)
                      /\ InWatcher(str, n)' => InWatcher(str, n)
                      /\ InQueue(str, n)' \subseteq InQueue(str, n)
                      /\ InSent(str, n)' \subseteq InSent(str, n)
                      /\ \A v \in Started : /\ HeldBy(v, str, n)' => HeldBy(v, str, n)
                                            /\ SentBy(v, str, n)' => SentBy(v, str, n)
    BY <1>1, OnceKept DEF Inv
  <2>1. \A v \in Started : HeldBy(v, str, n)' => HeldBy(v, str, n)
    BY <1>1 DEF HeldBy, At
  <2>2. \A v \in Started : SentBy(v, str, n)' => SentBy(v, str, n)
    BY <1>1 DEF SentBy, At
  <2>3. QED
    BY <2>1, <2>2 DEF InWatcher, InSent, producers
<1>3. OrderInv'
  <2>1. \A v \in Started :
          /\ Served(v)' => Served(v) /\ worker'[v].item = worker[v].item
          /\ Delivering(v)' => Delivering(v) /\ worker'[v].item = worker[v].item
    BY <1>1 DEF Served, Delivering, At
  <2>2. /\ events \in Nat /\ sent \in Seq(Message) /\ queue \in Seq(Item)
        /\ \A v \in Started : worker[v].item \in Item
    BY ConstantsAssumption DEF Inv, BaseInv, TypeOK
  <2>3. events' = events /\ events <= events'
    BY <2>2 DEF producers
  <2>4. QED
    BY <1>1, <2>1, <2>2, <2>3, OrderKept DEF Inv
<1>4. QED
  BY <1>2, <1>3

\* A worker that holds no row takes none from the others.
LEMMA RowsKept ==
  ASSUME RecordInv, NEW w \in Started, NEW s \in Local, Become(w, s),
         UNCHANGED <<notify_log, delivered>>, collided \subseteq collided',
         s.pc \in {"send", "success", "success_insert"} =>
           IF s.row = 0
             THEN s.key \in collided'
             ELSE /\ s.row \in DOMAIN notify_log /\ notify_log[s.row].key = s.key
                  /\ s.pc # "success_insert"
  PROVE  RecordInv'
<1>1. DOMAIN worker' = Started /\ \A v \in Started : worker'[v] = IF v = w THEN s ELSE worker[v]
  BY Becomes
<1>2. \A v \in Started : RowHeld(v)'
  BY <1>1 DEF RecordInv, RowHeld
<1>3. QED
  BY <1>1, <1>2, RecordKept

\* What is known of the worker that takes a step.
LEMMA WorkerFacts ==
  ASSUME Inv, NEW w \in Started
  PROVE  /\ worker[w] \in Local /\ Addressed(worker[w].item) /\ KeyFits(w) /\ TodoFits(w)
         /\ RowHeld(w)
         /\ queue \in Seq(Item) /\ \A k \in DOMAIN queue : Addressed(queue[k])
         /\ DOMAIN notify_log \subseteq Nat
         /\ \A id \in DOMAIN notify_log : notify_log[id] \in [key : Key, success : BOOLEAN]
         /\ sent \in Seq(Message) /\ \A k \in DOMAIN sent : Addressed(sent[k])
         /\ now \in 0 .. MaxTime /\ events \in Nat
         /\ \A v \in Started : worker[v].item \in Item
  BY ConstantsAssumption DEF Inv, BaseInv, RecordInv, TypeOK, Local

\* Onward and the end of a handler.
LEMMA OnwardFacts ==
  ASSUME Inv, NEW w \in Started
  PROVE  /\ Onward(w) \in Local /\ Addressed(Onward(w).item)
         /\ Onward(w).pc \in {"get", "concurrent"}
<1>1. worker[w] \in Local /\ Addressed(worker[w].item)
  BY WorkerFacts
<1>2. CASE worker[w].item.action = "on_play"
  <2>1. Onward(w) = [worker[w] EXCEPT !.pc = "concurrent", !.todo = {}]
    BY <1>2 DEF Onward
  <2>2. QED
    BY <1>1, <2>1 DEF Local, PC
<1>3. CASE worker[w].item.action # "on_play"
  BY <1>3, ReadyFacts DEF Onward, Addressed
<1>4. QED
  BY <1>2, <1>3

\* An event is turned into notifications, or into none.
LEMMA AddEachStep ==
  ASSUME Inv, NEW w \in Started, AddEach(w)
  PROVE  Inv'
<1> DEFINE i == worker[w].item
           enabled == IF i.notifier # NoNotifier THEN {i.notifier}
                      ELSE {n \in Notifiers : i.action \in Subscribed[n]}
<1>1. At(w, "event") /\ UNCHANGED <<queue, notify_log, now, producers, aux>>
  BY DEF AddEach
<1>2. PICK s \in Local :
        /\ Become(w, s) /\ Addressed(s.item) /\ s.pc \in {"get", "concurrent", "put"}
        /\ s.pc = "put" => /\ s.item = i
                           /\ i.notifier # NoNotifier => s.todo \subseteq {i.notifier}
  <2>1. CASE Become(w, Onward(w))
    BY <2>1, OnwardFacts
  <2>2. CASE Fail(w)
    BY <2>2, ReadyFacts DEF Fail, Addressed
  <2>3. CASE \E todo \in SUBSET enabled :
               Become(w, [worker[w] EXCEPT !.pc = "put", !.todo = todo])
    <3>1. PICK todo \in SUBSET enabled :
            Become(w, [worker[w] EXCEPT !.pc = "put", !.todo = todo])
      BY <2>3
    <3>2. worker[w] \in Local /\ Addressed(i) /\ i.notifier \in Notifiers \cup {NoNotifier}
      BY WorkerFacts DEF Local, Item
    <3>3. enabled \subseteq Notifiers
      BY <3>2
    <3>4. PICK s \in Local : s = [worker[w] EXCEPT !.pc = "put", !.todo = todo]
      BY <3>2, <3>3 DEF Local, PC
    <3>5. s.pc = "put" /\ s.item = i /\ s.todo = todo
      BY <3>2, <3>4 DEF Local
    <3>6. QED
      BY <3>1, <3>2, <3>4, <3>5
  <2>4. QED
    BY <2>1, <2>2, <2>3 DEF AddEach
<1>3. BaseInv'
  BY <1>1, <1>2, WorkerFacts, BaseWorker DEF Inv, aux
<1>4. RecordInv'
  BY <1>1, <1>2, RowsKept DEF Inv, aux
<1>5. OnceInv' /\ OrderInv'
  <2>1. \A str, n : Logged(str)' = Logged(str) /\ InQueue(str, n)' = InQueue(str, n)
    BY <1>1 DEF Logged, InQueue
  <2>2. \A kind \in Kinds : Queued(kind)' = Queued(kind)
    BY <1>1 DEF Queued
  <2>3. QED
    BY <1>1, <1>2, <2>1, <2>2, Advances DEF aux
<1>6. QED
  BY <1>3, <1>4, <1>5 DEF Inv

LEMMA OneWorker ==
  ASSUME Inv, NEW w \in Started, Cardinality(Started) = 1
  PROVE  \A v \in Started : v = w
<1>1. IsFiniteSet(Started)
  BY ConstantsAssumption, FS_Subset DEF Inv, BaseInv, TypeOK
<1>2. QED
  BY <1>1, FS_Singleton

\* A notification goes from the worker's loop to the end of the queue.
LEMMA PutNotificationStep ==
  ASSUME Inv, NEW w \in Started, PutNotification(w)
  PROVE  Inv'
<1>1. At(w, "put") /\ UNCHANGED <<notify_log, now, producers, aux>>
  BY DEF PutNotification
<1>2. CASE Become(w, Onward(w)) /\ UNCHANGED queue
  <2>1. PICK s \in Local : Become(w, s) /\ Addressed(s.item) /\ s.pc \in {"get", "concurrent"}
    BY <1>2, OnwardFacts
  <2>2. BaseInv'
    BY <1>1, <1>2, <2>1, WorkerFacts, BaseWorker DEF Inv, aux
  <2>3. RecordInv'
    BY <1>1, <2>1, RowsKept DEF Inv, aux
  <2>4. OnceInv' /\ OrderInv'
    <3>1. \A str, n : Logged(str)' = Logged(str) /\ InQueue(str, n)' = InQueue(str, n)
      BY <1>1, <1>2 DEF Logged, InQueue
    <3>2. \A kind \in Kinds : Queued(kind)' = Queued(kind)
      BY <1>2 DEF Queued
    <3>3. QED
      BY <1>1, <1>2, <2>1, <3>1, <3>2, Advances DEF aux
  <2>5. QED
    BY <2>2, <2>3, <2>4 DEF Inv
<1>3. CASE \E n \in worker[w].todo :
             /\ Put(<<[worker[w].item EXCEPT !.kind = "notification", !.notifier = n]>>)
             /\ Become(w, [worker[w] EXCEPT !.todo = @ \ {n}])
  <2>1. PICK me \in Local : me = worker[w] /\ me.pc = "put"
    BY <1>1, WorkerFacts DEF At
  <2>2. PICK n \in Notifiers :
          /\ n \in me.todo
          /\ Put(<<[me.item EXCEPT !.kind = "notification", !.notifier = n]>>)
          /\ Become(w, [me EXCEPT !.todo = @ \ {n}])
    BY <1>3, <2>1 DEF Local
  <2>3. PICK s \in Local : /\ s = [me EXCEPT !.todo = @ \ {n}] /\ Become(w, s)
                           /\ s.item = me.item /\ s.pc = "put" /\ s.todo = me.todo \ {n}
    BY <2>1, <2>2 DEF Local
  <2>4. PICK i \in Item : /\ Put(<<i>>) /\ i.kind = "notification" /\ i.notifier = n
                          /\ i.action = me.item.action /\ i.stream = me.item.stream
                          /\ i.event = me.item.event
    <3>1. me.item \in Item
      BY DEF Local
    <3>2. PICK i \in Item : i = [me.item EXCEPT !.kind = "notification", !.notifier = n]
      BY <3>1 DEF Item
    <3>3. /\ i.kind = "notification" /\ i.notifier = n
          /\ i.action = me.item.action /\ i.stream = me.item.stream /\ i.event = me.item.event
      BY <3>1, <3>2 DEF Item
    <3>4. QED
      BY <2>2, <3>2, <3>3
  <2>5. /\ Addressed(i) /\ (me.item.notifier # NoNotifier => me.todo \subseteq {me.item.notifier})
        /\ Addressed(me.item) /\ queue \in Seq(Item)
    BY <2>1, <2>4, WorkerFacts DEF Addressed, TodoFits, At
  <2>6. /\ DOMAIN worker' = Started
        /\ \A v \in Started : worker'[v] = IF v = w THEN s ELSE worker[v]
    BY <2>3, Becomes
  <2>7. BaseInv'
    <3>1. queue' \in Seq(Item) /\ \A k \in DOMAIN queue' : Addressed(queue'[k])
      BY <2>4, <2>5, Puts, WorkerFacts
    <3>2. QED
      BY <1>1, <2>3, <2>5, <3>1, WorkerFacts, BaseWorker DEF Inv, aux
  <2>8. RecordInv'
    BY <1>1, <2>3, RowsKept DEF Inv, aux
  <2>9. OnceInv'
    <3> SUFFICES ASSUME NEW str \in Streams \cup {NoStream}, NEW m \in Notifiers,
                        <<str, m>> \notin overlap'
                 PROVE  Single(str, m)'
      BY DEF OnceInv
    <3>1. Single(str, m)
      BY <1>1 DEF Inv, OnceInv, aux
    <3>2. /\ InSent(str, m)' = InSent(str, m) /\ Logged(str)' = Logged(str)
          /\ InWatcher(str, m)' = InWatcher(str, m)
      BY <1>1 DEF InSent, Logged, aux, producers, InWatcher
    <3>3. \A v \in Started : SentBy(v, str, m)' <=> SentBy(v, str, m)
      BY <2>1, <2>3, <2>6 DEF SentBy, At
    <3>4. InQueue(str, m)' = IF About(i, str, m) THEN InQueue(str, m) \cup {Len(queue) + 1}
                             ELSE InQueue(str, m)
      BY <2>4, <2>5, Puts
    <3>5. After(str, m)' <=> After(str, m)
      BY <2>6, <3>2, <3>3 DEF After, Started
    <3>6. \A v \in Started : HeldBy(v, str, m)' => HeldBy(v, str, m)
      BY <2>1, <2>3, <2>6 DEF HeldBy, At
    <3>7. CASE About(i, str, m)
      <4>1. me.item.notifier \in Notifiers /\ me.item.notifier = n
        BY <2>2, <2>4, <2>5, <3>7, ConstantsAssumption DEF About, Addressed
      <4>2. HeldBy(w, str, m) /\ ~HeldBy(w, str, m)'
        BY <2>1, <2>2, <2>3, <2>4, <2>5, <2>6, <3>7, <4>1, ConstantsAssumption
           DEF About, HeldBy, At
      <4>3. /\ InQueue(str, m) = {} /\ ~InWatcher(str, m) /\ Before(str, m)
            /\ \A v \in Started : HeldBy(v, str, m) => v = w
        BY <3>1, <4>2 DEF Single, Before
      <4>4. \A v \in Started : ~HeldBy(v, str, m)'
        BY <3>6, <4>2, <4>3
      <4>5. QED
        BY <2>6, <3>1, <3>2, <3>3, <3>4, <3>5, <3>7, <4>3, <4>4 DEF Single, Started
    <3>8. CASE ~About(i, str, m)
      <4>1. Before(str, m)' => Before(str, m)
        BY <2>6, <3>2, <3>4, <3>6, <3>8 DEF Before, Started
      <4>2. QED
        BY <2>6, <3>1, <3>2, <3>3, <3>4, <3>5, <3>6, <3>8, <4>1 DEF Single, Started
    <3>9. QED
      BY <3>7, <3>8
  <2>10. OrderInv'
    <3> SUFFICES ASSUME Cardinality(Started) = 1
                 PROVE  OrderInv'
      BY <2>6 DEF OrderInv, Started
    <3>1. \A v \in Started : v = w
      BY OneWorker
    <3>2. \A kind \in Kinds :
            /\ Queued(kind)' = IF i.kind = kind /\ Plain(i)
                                 THEN Queued(kind) \cup {Len(queue) + 1} ELSE Queued(kind)
            /\ \A k \in Queued(kind) : queue'[k] = queue[k] /\ k < Len(queue) + 1
      BY <2>4, <2>5, Puts
    <3>3. queue'[Len(queue) + 1] = i
      BY <2>4, <2>5, Puts
    <3>4. \A v \in Started : ~Delivering(v)' /\ (Served(v)' <=> Plain(i))
      BY <2>3, <2>4, <2>6, <3>1 DEF Delivering, Served, Plain
    <3>5. CASE ~Plain(i)
      <4>1. \A kind \in Kinds : /\ Queued(kind)' = Queued(kind)
                               /\ \A k \in Queued(kind) : queue'[k] = queue[k]
        BY <3>2, <3>5
      <4>2. QED
        BY <1>1, <2>6, <3>4, <3>5, <4>1, WorkerFacts, OrderKept DEF Inv, aux, producers
    <3>6. CASE Plain(i)
      <4>1. Served(w)
        BY <2>1, <2>4, <3>6 DEF Served, Plain
      <4>2. /\ \A k \in Queued("notification") : queue[k].event <= i.event
            /\ \A l \in Queued("event") : i.event <= queue[l].event
            /\ \A k \in Gone : sent[k].event <= i.event
            /\ i.event <= events
        BY <2>1, <2>4, <4>1 DEF Inv, OrderInv, ServedBetween, AfterGone
      <4>3. Gone' = Gone /\ sent' = sent /\ events' = events
        BY <1>1 DEF Gone, aux, producers
      <4>4. /\ Queued("notification")' = Queued("notification") \cup {Len(queue) + 1}
            /\ Queued("event")' = Queued("event")
            /\ \A kind \in Kinds : \A k \in Queued(kind) : queue'[k] = queue[k] /\ k < Len(queue) + 1
        BY <2>4, <3>2, <3>6 DEF Kinds
      <4>5. \A j \in Item : j.event \in Nat
        BY ConstantsAssumption DEF Item
      <4>6. \A kind \in Kinds : \A k \in Queued(kind) : k \in Nat /\ queue[k].event \in Nat
        BY <2>5, <4>5 DEF Queued
      <4>7. GoneOrdered'
        BY <4>3 DEF Inv, OrderInv, GoneOrdered
      <4>8. QueueOrdered'
        <5>1. i.event \in Nat /\ Len(queue) \in Nat
          BY <2>5, <4>5
        <5>2. QED
          BY <3>3, <4>2, <4>3, <4>4, <4>6, <5>1 DEF Inv, OrderInv, QueueOrdered, Kinds
      <4>9. GoneBeforeQueue'
        BY <3>3, <4>2, <4>3, <4>4 DEF Inv, OrderInv, GoneBeforeQueue, Kinds
      <4>10. worker'[w].item.event = i.event /\ i.event <= i.event
        <5>1. i.event <= i.event
          BY <4>5
        <5>2. worker'[w] = s
          BY <2>6
        <5>3. QED
          BY <2>3, <2>4, <5>1, <5>2
      <4>11. (ServedBetween(w) /\ DeliveredFirst(w) /\ AfterGone(w))'
        BY <3>3, <3>4, <4>2, <4>3, <4>4, <4>10 DEF ServedBetween, DeliveredFirst, AfterGone, Kinds
      <4>12. QED
        BY <2>6, <3>1, <4>7, <4>8, <4>9, <4>11 DEF OrderInv, Started
    <3>7. QED
      BY <3>5, <3>6
  <2>11. QED
    BY <2>7, <2>8, <2>9, <2>10 DEF Inv
<1>4. QED
  BY <1>2, <1>3 DEF PutNotification

\* The chained events, which are plain to nobody.
LEMMA ChainStep ==
  ASSUME Inv, NEW w \in Started, Chain(w)
  PROVE  Inv'
<1>1. UNCHANGED <<notify_log, now, producers, aux>>
  BY DEF Chain
<1>2. PICK me \in Local : me = worker[w]
  BY WorkerFacts
<1>3. PICK action \in ChainedActions, s \in Local :
        /\ Put(<<Event(me.item.event, action, me.item.stream, NoNotifier)>>)
        /\ Become(w, s) /\ Addressed(s.item) /\ s.pc \in {"get", "newdevice"}
  <2>1. CASE At(w, "concurrent")
    <3>1. PICK s \in Local : s = [me EXCEPT !.pc = "newdevice"]
      BY DEF Local, PC
    <3>2. s.pc = "newdevice" /\ s.item = me.item
      BY <3>1 DEF Local
    <3>3. QED
      BY <1>2, <2>1, <3>1, <3>2, WorkerFacts DEF Chain, Goto, At, ChainedActions
  <2>2. CASE At(w, "newdevice")
    BY <1>2, <2>2, ReadyFacts DEF Chain, At, ChainedActions, Addressed
  <2>3. QED
    BY <2>1, <2>2 DEF Chain
<1>4. PICK i \in Item : /\ i = Event(me.item.event, action, me.item.stream, NoNotifier)
                        /\ i.action \in ChainedActions
  <2>1. Event(me.item.event, action, me.item.stream, NoNotifier) \in Item
    BY DEF Item, Event, Local, Actions
  <2>2. QED
    BY <2>1 DEF Event
<1>5. Put(<<i>>) /\ Addressed(i) /\ ~Plain(i) /\ \A str, n : ~About(i, str, n)
  BY <1>3, <1>4 DEF Addressed, Plain, About, ChainedActions
<1>6. /\ queue' \in Seq(Item) /\ \A k \in DOMAIN queue' : Addressed(queue'[k])
      /\ \A str, n : InQueue(str, n)' = InQueue(str, n)
      /\ \A kind \in Kinds : /\ Queued(kind)' = Queued(kind)
                             /\ \A k \in Queued(kind) : queue'[k] = queue[k]
  BY <1>5, Puts, WorkerFacts
<1>7. BaseInv'
  BY <1>1, <1>3, <1>6, WorkerFacts, BaseWorker DEF Inv, aux
<1>8. RecordInv'
  BY <1>1, <1>3, RowsKept DEF Inv, aux
<1>9. OnceInv' /\ OrderInv'
  <2>1. \A str, n : Logged(str)' = Logged(str)
    BY <1>1 DEF Logged
  <2>2. QED
    BY <1>1, <1>3, <1>6, <2>1, Advances DEF aux
<1>10. QED
  BY <1>7, <1>8, <1>9 DEF Inv

\* set_notify_state looks its key up.  A row of the same second for the same
\* on_watched means that another was under way: it has been noted.
LEMMA NotifyStep ==
  ASSUME Inv, NEW w \in Started, Notify(w)
  PROVE  Inv'
<1> DEFINE k == [time |-> now, stream |-> worker[w].item.stream,
                 notifier |-> worker[w].item.notifier, action |-> worker[w].item.action]
<1>1. /\ At(w, "notification")
      /\ UNCHANGED <<queue, notify_log, now, producers, sent, delivered, overlap>>
  BY DEF Notify
<1>2. PICK me \in Local : me = worker[w] /\ me.pc = "notification"
  BY <1>1, WorkerFacts DEF At
<1>3. PICK key \in Key : /\ key = k /\ key.stream = me.item.stream
                         /\ key.notifier = me.item.notifier /\ key.action = me.item.action
  <2>1. k \in Key
    BY <1>2, WorkerFacts DEF Key, Local, Item
  <2>2. QED
    BY <1>2, <2>1
<1>4. PICK s \in Local :
        /\ Become(w, s) /\ Addressed(s.item) /\ collided \subseteq collided'
        /\ \/ s.pc = "get"
           \/ s.pc = "insert" /\ s.item = me.item /\ s.key = key
           \/ /\ s.pc = "send" /\ s.item = me.item /\ s.key = key /\ s.row = 0
              /\ key \in collided' /\ RowsOf(key) # {}
  <2>1. CASE Fail(w) /\ UNCHANGED collided
    BY <2>1, ReadyFacts DEF Fail, Addressed
  <2>2. CASE /\ RowsOf(k) = {}
             /\ Become(w, [worker[w] EXCEPT !.pc = "insert", !.key = k])
             /\ UNCHANGED collided
    <3>1. PICK s \in Local : s = [me EXCEPT !.pc = "insert", !.key = key]
      BY DEF Local, PC
    <3>2. s.pc = "insert" /\ s.item = me.item /\ s.key = key
      BY <3>1 DEF Local
    <3>3. QED
      BY <1>2, <1>3, <2>2, <3>1, <3>2, WorkerFacts
  <2>3. CASE /\ RowsOf(k) # {}
             /\ Become(w, [worker[w] EXCEPT !.pc = "send", !.key = k, !.row = 0])
             /\ collided' = collided \cup {k}
    <3>1. PICK s \in Local : s = [me EXCEPT !.pc = "send", !.key = key, !.row = 0]
      BY DEF Local, PC
    <3>2. s.pc = "send" /\ s.item = me.item /\ s.key = key /\ s.row = 0
      BY <3>1 DEF Local
    <3>3. QED
      BY <1>2, <1>3, <2>3, <3>1, <3>2, WorkerFacts
  <2>4. QED
    BY <2>1, <2>2, <2>3 DEF Notify
<1>5. BaseInv'
  BY <1>1, <1>3, <1>4, WorkerFacts, BaseWorker DEF Inv
<1>6. RecordInv'
  BY <1>1, <1>4, RowsKept DEF Inv
<1>7. OnceInv' /\ OrderInv'
  <2>1. \A str, n : Logged(str)' = Logged(str) /\ InQueue(str, n)' = InQueue(str, n)
    BY <1>1 DEF Logged, InQueue
  <2>2. \A kind \in Kinds : Queued(kind)' = Queued(kind)
    BY <1>1 DEF Queued
  <2>3. ASSUME NEW str \in Streams \cup {NoStream}, NEW n \in Notifiers,
               s.pc = "send", About(s.item, str, n)
        PROVE  <<str, n>> \in overlap
    <3>1. RowsOf(key) # {} /\ s.item = me.item
      BY <1>4, <2>3
    <3>2. n \in Logged(str)
      BY <1>3, <2>3, <3>1 DEF RowsOf, Logged, About
    <3>3. HeldBy(w, str, n)
      BY <1>2, <2>3, <3>1 DEF HeldBy
    <3>4. ~Single(str, n)
      BY <3>2, <3>3 DEF Single, Before
    <3>5. QED
      BY <3>4 DEF Inv, OnceInv
  <2>4. QED
    BY <1>1, <1>2, <1>4, <2>1, <2>2, <2>3, Advances
<1>8. QED
  BY <1>5, <1>6, <1>7 DEF Inv

\* The INSERT: from here on notify_log knows of the notification.
LEMMA InsertStep ==
  ASSUME Inv, NEW w \in Started, Insert(w)
  PROVE  Inv'
<1>1. PICK me \in Local : me = worker[w] /\ me.pc = "insert"
  BY WorkerFacts DEF Insert, At
<1>2. PICK id \in Nat \ {0} :
        /\ id = Cardinality(DOMAIN notify_log \ {0}) + 1
        /\ id \notin DOMAIN notify_log
        /\ \E n \in Nat : (DOMAIN notify_log \cup {id}) \ {0} = 1 .. n
  BY NextRow DEF Inv, RecordInv
<1>3. PICK s \in Local : /\ s = [me EXCEPT !.pc = "send", !.row = id] /\ Become(w, s)
                         /\ s.pc = "send" /\ s.row = id /\ s.item = me.item /\ s.key = me.key
  <2>1. PICK s \in Local : s = [me EXCEPT !.pc = "send", !.row = id]
    BY DEF Local, PC
  <2>2. s.pc = "send" /\ s.row = id /\ s.item = me.item /\ s.key = me.key
    BY <2>1 DEF Local
  <2>3. QED
    BY <1>1, <1>2, <2>1, <2>2 DEF Insert
<1>4. /\ UNCHANGED <<queue, now, producers, aux>>
      /\ DOMAIN notify_log' = DOMAIN notify_log \cup {id}
      /\ notify_log'[id] = [key |-> me.key, success |-> FALSE]
      /\ \A r \in DOMAIN notify_log : notify_log'[r] = notify_log[r]
  BY <1>1, <1>2 DEF Insert
<1>5. /\ me.key.action = me.item.action /\ me.key.stream = me.item.stream
      /\ me.key.notifier = me.item.notifier
  BY <1>1, WorkerFacts DEF KeyFits, Recording
<1>6. /\ DOMAIN worker' = Started
      /\ \A v \in Started : worker'[v] = IF v = w THEN s ELSE worker[v]
  BY <1>3, Becomes
<1>7. me.key \in Key /\ Addressed(me.item)
  BY <1>1, WorkerFacts DEF Local
<1>8. BaseInv'
  <2>1. DOMAIN notify_log' \subseteq Nat
    BY <1>4, WorkerFacts
  <2>2. \A r \in DOMAIN notify_log' : notify_log'[r] \in [key : Key, success : BOOLEAN]
    <3>1. notify_log'[id] \in [key : Key, success : BOOLEAN]
      BY <1>4, <1>7
    <3>2. QED
      BY <1>4, <3>1, WorkerFacts
  <2>3. QED
    BY <1>3, <1>4, <1>5, <1>7, <2>1, <2>2, WorkerFacts, BaseWorker DEF Inv, aux
<1>9. RecordInv'
  <2>1. RowsNumbered'
    BY <1>2, <1>4 DEF RowsNumbered
  <2>2. ASSUME NEW v \in Started PROVE RowHeld(v)'
    <3>1. CASE v = w
      <4>1. worker'[v] = s
        BY <1>6, <3>1
      <4>2. QED
        BY <1>2, <1>3, <1>4, <4>1 DEF RowHeld
    <3>2. CASE v # w
      <4>1. worker'[v] = worker[v] /\ collided' = collided /\ RowHeld(v)
        BY <1>4, <1>6, <3>2 DEF Inv, RecordInv, aux
      <4>2. QED
        BY <1>4, <4>1 DEF RowHeld
    <3>3. QED
      BY <3>1, <3>2
  <2>3. SuccessRecorded'
    <3>1. {r \in DOMAIN notify_log' : notify_log'[r].success}
            = {r \in DOMAIN notify_log : notify_log[r].success}
      BY <1>2, <1>4
    <3>2. \A r \in DOMAIN notify_log : notify_log'[r].key = notify_log[r].key
      BY <1>4
    <3>3. QED
      BY <1>4, <3>1, <3>2 DEF Inv, RecordInv, SuccessRecorded, aux
  <2>4. QED
    BY <1>6, <2>1, <2>2, <2>3 DEF RecordInv, Started
<1>10. OnceInv'
  <2> SUFFICES ASSUME NEW str \in Streams \cup {NoStream}, NEW n \in Notifiers,
                      <<str, n>> \notin overlap'
               PROVE  Single(str, n)'
    BY DEF OnceInv
  <2>1. Single(str, n)
    BY <1>4 DEF Inv, OnceInv, aux
  <2>2. /\ InSent(str, n)' = InSent(str, n) /\ InQueue(str, n)' = InQueue(str, n)
        /\ InWatcher(str, n)' = InWatcher(str, n)
    BY <1>4 DEF InSent, InQueue, InWatcher, aux, producers
  <2>3. n \in Logged(str)' <=> n \in Logged(str) \/ About(me.item, str, n)
    <3>1. \A r : (notify_log'[r].key.stream = str /\ notify_log'[r].key.action = "on_watched"
                    /\ notify_log'[r].key.notifier = n) /\ r = id <=> r = id /\ About(me.item, str, n)
      BY <1>4, <1>5 DEF About
    <3>2. QED
      BY <1>4, <3>1 DEF Logged
  <2>4. /\ \A v \in Started \ {w} : HeldBy(v, str, n)' <=> HeldBy(v, str, n)
        /\ \A v \in Started \ {w} : SentBy(v, str, n)' <=> SentBy(v, str, n)
        /\ ~HeldBy(w, str, n)' /\ ~SentBy(w, str, n)
        /\ HeldBy(w, str, n) <=> About(me.item, str, n)
        /\ SentBy(w, str, n)' <=> About(me.item, str, n)
    BY <1>1, <1>3, <1>6 DEF HeldBy, SentBy, At
  <2>5. CASE About(me.item, str, n)
    <3>1. /\ HeldBy(w, str, n) /\ Before(str, n)
          /\ InQueue(str, n) = {} /\ ~InWatcher(str, n) /\ InSent(str, n) = {}
          /\ \A v \in Started : ~SentBy(v, str, n) /\ (HeldBy(v, str, n) => v = w)
      BY <2>1, <2>4, <2>5 DEF Single, Before, After
    <3>2. ~Before(str, n)'
      BY <1>6, <2>2, <2>4, <3>1 DEF Before, Started
    <3>3. \A v \in Started : SentBy(v, str, n)' => v = w
      BY <2>4, <3>1
    <3>4. \A v \in Started : ~HeldBy(v, str, n)'
      BY <2>4, <3>1
    <3>5. QED
      BY <1>6, <2>2, <2>3, <2>5, <3>1, <3>2, <3>3, <3>4 DEF Single, Started
  <2>6. CASE ~About(me.item, str, n)
    <3>1. /\ \A v \in Started : HeldBy(v, str, n)' <=> HeldBy(v, str, n)
          /\ \A v \in Started : SentBy(v, str, n)' <=> SentBy(v, str, n)
      BY <2>4, <2>6
    <3>2. (Before(str, n)' <=> Before(str, n)) /\ (After(str, n)' <=> After(str, n))
      BY <1>6, <2>2, <3>1 DEF Before, After, Started
    <3>3. QED
      BY <1>6, <2>1, <2>2, <2>3, <2>6, <3>1, <3>2 DEF Single, Started
  <2>7. QED
    BY <2>5, <2>6
<1>11. OrderInv'
  <2>1. \A v \in Started :
          /\ Served(v)' => Served(v) /\ worker'[v].item = worker[v].item
          /\ Delivering(v)' => Delivering(v) /\ worker'[v].item = worker[v].item
    BY <1>1, <1>3, <1>6 DEF Served, Delivering
  <2>2. \A kind \in Kinds : Queued(kind)' = Queued(kind)
    BY <1>4 DEF Queued
  <2>3. QED
    BY <1>4, <1>6, <2>1, <2>2, WorkerFacts, OrderKept DEF Inv, aux, producers
<1>12. QED
  BY <1>8, <1>9, <1>10, <1>11 DEF Inv

\* The agent is called; then the row is marked, or is not.
LEMMA SendStep ==
  ASSUME Inv, NEW w \in Started, Send(w)
  PROVE  Inv'
<1>1. PICK me \in Local : me = worker[w] /\ me.pc = "send"
  BY WorkerFacts DEF Send, At
<1>2. /\ me.key.action = me.item.action /\ me.key.stream = me.item.stream
      /\ me.key.notifier = me.item.notifier /\ Addressed(me.item) /\ me.item \in Item
  BY <1>1, WorkerFacts DEF KeyFits, Recording, Local
<1>3. PICK s \in Local :
        /\ Become(w, s) /\ Addressed(s.item)
        /\ \/ s.pc = "get"
           \/ s.pc = "success" /\ s.item = me.item /\ s.key = me.key /\ s.row = me.row
  <2>1. CASE Goto(w, "success")
    <3>1. PICK s \in Local : s = [me EXCEPT !.pc = "success"]
      BY DEF Local, PC
    <3>2. s.pc = "success" /\ s.item = me.item /\ s.key = me.key /\ s.row = me.row
      BY <3>1 DEF Local
    <3>3. QED
      BY <1>1, <1>2, <2>1, <3>1, <3>2 DEF Goto
  <2>2. CASE Fail(w)
    BY <2>2, ReadyFacts DEF Fail, Addressed
  <2>3. QED
    BY <2>1, <2>2 DEF Send
<1>4. PICK m \in Message : /\ sent' = Append(sent, m)
                           /\ m.event = me.item.event /\ m.action = me.item.action
                           /\ m.stream = me.item.stream /\ m.notifier = me.item.notifier
  <2>1. [event |-> me.item.event, action |-> me.item.action, stream |-> me.item.stream,
         notifier |-> me.item.notifier] \in Message
    BY <1>2 DEF Item, Message
  <2>2. QED
    BY <1>1, <1>2, <2>1 DEF Send
<1>5. /\ sent' \in Seq(Message) /\ DOMAIN sent = 1 .. Len(sent) /\ Len(sent) \in Nat
      /\ DOMAIN sent' = DOMAIN sent \cup {Len(sent) + 1}
      /\ \A k \in DOMAIN sent : sent'[k] = sent[k]
      /\ sent'[Len(sent) + 1] = m
  BY <1>4, WorkerFacts
<1>6. UNCHANGED <<queue, notify_log, now, producers, delivered, collided, overlap>>
  BY DEF Send
<1>7. /\ DOMAIN worker' = Started
      /\ \A v \in Started : worker'[v] = IF v = w THEN s ELSE worker[v]
  BY <1>3, Becomes
<1>8. BaseInv'
  <2>1. \A k \in DOMAIN sent' : Addressed(sent'[k])
    BY <1>2, <1>4, <1>5, WorkerFacts DEF Addressed
  <2>2. QED
    BY <1>2, <1>3, <1>5, <1>6, <2>1, WorkerFacts, BaseWorker DEF Inv
<1>9. RecordInv'
  <2>1. me.row = 0 => me.key \in collided
    BY <1>1, WorkerFacts DEF RowHeld
  <2>2. me.row # 0 => me.row \in DOMAIN notify_log /\ notify_log[me.row].key = me.key
    BY <1>1, WorkerFacts DEF RowHeld
  <2>3. QED
    BY <1>3, <1>6, <2>1, <2>2, RowsKept DEF Inv
<1>10. OnceInv'
  <2> SUFFICES ASSUME NEW str \in Streams \cup {NoStream}, NEW n \in Notifiers,
                      <<str, n>> \notin overlap'
               PROVE  Single(str, n)'
    BY DEF OnceInv
  <2>1. Single(str, n)
    BY <1>6 DEF Inv, OnceInv
  <2>2. /\ InQueue(str, n)' = InQueue(str, n) /\ InWatcher(str, n)' = InWatcher(str, n)
        /\ Logged(str)' = Logged(str)
    BY <1>6 DEF InQueue, InWatcher, producers, Logged
  <2>3. InSent(str, n)' = IF About(me.item, str, n) THEN InSent(str, n) \cup {Len(sent) + 1}
                          ELSE InSent(str, n)
    BY <1>4, <1>5 DEF InSent, About
  <2>4. /\ \A v \in Started : HeldBy(v, str, n)' <=> HeldBy(v, str, n)
        /\ \A v \in Started \ {w} : SentBy(v, str, n)' <=> SentBy(v, str, n)
        /\ ~SentBy(w, str, n)'
        /\ SentBy(w, str, n) <=> About(me.item, str, n)
    BY <1>1, <1>3, <1>7 DEF HeldBy, SentBy, At
  <2>5. Before(str, n)' <=> Before(str, n)
    BY <1>7, <2>2, <2>4 DEF Before, Started
  <2>6. CASE About(me.item, str, n)
    <3>1. /\ InSent(str, n) = {} /\ n \in Logged(str)
          /\ \A v \in Started : SentBy(v, str, n) => v = w
      BY <2>1, <2>4, <2>6 DEF Single, After
    <3>2. \A v \in Started : ~SentBy(v, str, n)'
      BY <2>4, <3>1
    <3>3. QED
      BY <1>7, <2>1, <2>2, <2>3, <2>4, <2>5, <2>6, <3>1, <3>2 DEF Single, Started
  <2>7. CASE ~About(me.item, str, n)
    <3>1. \A v \in Started : SentBy(v, str, n)' <=> SentBy(v, str, n)
      BY <2>4, <2>7
    <3>2. After(str, n)' <=> After(str, n)
      BY <1>7, <2>3, <2>7, <3>1 DEF After, Started
    <3>3. QED
      BY <1>7, <2>1, <2>2, <2>3, <2>4, <2>5, <2>7, <3>1, <3>2 DEF Single, Started
  <2>8. QED
    BY <2>6, <2>7
<1>11. OrderInv'
  <2> SUFFICES ASSUME Cardinality(Started) = 1
               PROVE  OrderInv'
    BY <1>7 DEF OrderInv, Started
  <2>1. \A v \in Started : ~Served(v)' /\ ~Delivering(v)'
    BY <1>3, <1>7, OneWorker DEF Served, Delivering
  <2>2. \A kind \in Kinds : Queued(kind)' = Queued(kind)
    BY <1>6 DEF Queued
  <2>3. queue' = queue /\ events' = events
    BY <1>6 DEF producers
  <2>4. Gone' = IF Plain(me.item) THEN Gone \cup {Len(sent) + 1} ELSE Gone
    BY <1>4, <1>5 DEF Gone, Plain
  <2>5. \A k \in Gone : k \in Nat /\ k < Len(sent) + 1 /\ sent'[k] = sent[k]
    BY <1>5 DEF Gone
  <2>6. Plain(me.item) =>
          /\ \A k \in Gone : sent[k].event <= m.event
          /\ m.event <= events
          /\ \A kind \in Kinds : \A l \in Queued(kind) : m.event <= queue[l].event
    BY <1>1, <1>4 DEF Inv, OrderInv, AfterGone, DeliveredFirst, Delivering
  <2>7. m.event \in Nat
    BY ConstantsAssumption DEF Message
  <2>8. GoneOrdered'
    BY <1>5, <2>3, <2>4, <2>5, <2>6, <2>7 DEF Inv, OrderInv, GoneOrdered
  <2>9. QueueOrdered'
    BY <2>2, <2>3 DEF Inv, OrderInv, QueueOrdered, Kinds
  <2>10. GoneBeforeQueue'
    BY <1>5, <2>2, <2>3, <2>4, <2>5, <2>6 DEF Inv, OrderInv, GoneBeforeQueue
  <2>11. QED
    BY <1>7, <2>1, <2>8, <2>9, <2>10
       DEF OrderInv, ServedBetween, DeliveredFirst, AfterGone, Started
<1>12. QED
  BY <1>8, <1>9, <1>10, <1>11 DEF Inv

\* The mark: of the row the worker holds, or of a row 0 that nobody set.
LEMMA SetSuccessStep ==
  ASSUME Inv, NEW w \in Started, SetSuccess(w)
  PROVE  Inv'
<1>1. PICK me \in Local : /\ me = worker[w] /\ me.pc \in {"success", "success_insert"}
                          /\ RowToMark(w) = me.row
  BY WorkerFacts DEF SetSuccess, At, RowToMark
<1>2. UNCHANGED <<queue, now, producers, sent, collided, overlap>>
  BY DEF SetSuccess
<1>3. /\ me.row = 0 => me.key \in collided
      /\ me.row # 0 => /\ me.row \in DOMAIN notify_log /\ notify_log[me.row].key = me.key
                       /\ me.pc = "success"
      /\ Addressed(me.item) /\ me.key \in Key
  BY <1>1, WorkerFacts DEF RowHeld, Local
<1>4. \A r \in DOMAIN notify_log : r \in Nat /\ notify_log[r] \in [key : Key, success : BOOLEAN]
  BY WorkerFacts
<1>5. CASE At(w, "success") /\ me.row \notin DOMAIN notify_log
  <2>1. PICK s \in Local : s = [me EXCEPT !.pc = "success_insert"]
    BY DEF Local, PC
  <2>2. s.pc = "success_insert" /\ s.item = me.item /\ s.key = me.key /\ s.row = me.row
    BY <2>1 DEF Local
  <2>3. Become(w, s) /\ UNCHANGED <<notify_log, delivered>>
    BY <1>1, <1>5, <2>1 DEF SetSuccess, Goto, At
  <2>4. me.row = 0
    BY <1>3, <1>5
  <2>5. me.key.action = me.item.action /\ me.key.stream = me.item.stream
        /\ me.key.notifier = me.item.notifier
    BY <1>1, WorkerFacts DEF KeyFits, Recording
  <2>6. BaseInv'
    BY <1>2, <1>3, <2>2, <2>3, <2>5, WorkerFacts, BaseWorker DEF Inv
  <2>7. RecordInv'
    BY <1>2, <1>3, <2>2, <2>3, <2>4, RowsKept DEF Inv
  <2>8. OnceInv' /\ OrderInv'
    <3>1. \A str, n : Logged(str)' = Logged(str) /\ InQueue(str, n)' = InQueue(str, n)
      BY <1>2, <2>3 DEF Logged, InQueue
    <3>2. \A kind \in Kinds : Queued(kind)' = Queued(kind)
      BY <1>2 DEF Queued
    <3>3. QED
      BY <1>2, <2>2, <2>3, <3>1, <3>2, Advances
  <2>9. QED
    BY <2>6, <2>7, <2>8 DEF Inv
<1>6. CASE ~(At(w, "success") /\ me.row \notin DOMAIN notify_log)
  <2>1. /\ Become(w, Ready) /\ delivered' = delivered \cup {me.key}
        /\ \/ me.row \in DOMAIN notify_log /\ At(w, "success")
              /\ notify_log' = [notify_log EXCEPT ![me.row].success = TRUE]
           \/ me.row \in DOMAIN notify_log /\ At(w, "success_insert") /\ notify_log' = notify_log
           \/ /\ me.row \notin DOMAIN notify_log /\ At(w, "success_insert")
              /\ notify_log' = [r \in DOMAIN notify_log \cup {me.row} |->
                                  IF r = me.row THEN [key |-> Ready.key, success |-> TRUE]
                                  ELSE notify_log[r]]
    BY <1>1, <1>6 DEF SetSuccess
  <2>2. Ready \in Local /\ Ready.pc = "get" /\ Addressed(Ready.item) /\ Ready.key \in Key
    BY ReadyFacts DEF Addressed, Local
  <2>3. /\ DOMAIN worker' = Started
        /\ \A v \in Started : worker'[v] = IF v = w THEN Ready ELSE worker[v]
    BY <2>1, Becomes
  <2>4. \/ me.row \in DOMAIN notify_log /\ DOMAIN notify_log' = DOMAIN notify_log
        \/ me.row = 0 /\ me.row \notin DOMAIN notify_log /\ DOMAIN notify_log' = DOMAIN notify_log \cup {0}
    BY <1>1, <1>3, <2>1 DEF At
  <2>5. /\ \A r \in DOMAIN notify_log :
             /\ notify_log'[r].key = notify_log[r].key
             /\ notify_log'[r] \in [key : Key, success : BOOLEAN]
             /\ r # me.row => notify_log'[r] = notify_log[r]
             /\ r # 0 /\ r = me.row => notify_log'[r].success
             /\ notify_log[r].success => notify_log'[r].success
        /\ me.row \notin DOMAIN notify_log => notify_log'[me.row] = [key |-> Ready.key, success |-> TRUE]
    <3>1. CASE me.row \in DOMAIN notify_log /\ At(w, "success")
               /\ notify_log' = [notify_log EXCEPT ![me.row].success = TRUE]
      BY <1>4, <3>1
    <3>2. CASE me.row \in DOMAIN notify_log /\ At(w, "success_insert") /\ notify_log' = notify_log
      <4>1. me.row = 0
        BY <1>1, <1>3, <3>2 DEF At
      <4>2. QED
        BY <1>4, <3>2, <4>1
    <3>3. CASE /\ me.row \notin DOMAIN notify_log
               /\ notify_log' = [r \in DOMAIN notify_log \cup {me.row} |->
                                   IF r = me.row THEN [key |-> Ready.key, success |-> TRUE]
                                   ELSE notify_log[r]]
      BY <1>4, <3>3
    <3>4. QED
      BY <2>1, <3>1, <3>2, <3>3
  <2>6. BaseInv'
    <3>1. DOMAIN notify_log' \subseteq Nat
      BY <1>4, <2>4
    <3>2. [key |-> Ready.key, success |-> TRUE] \in [key : Key, success : BOOLEAN]
      BY <2>2
    <3>3. \A r \in DOMAIN notify_log' : notify_log'[r] \in [key : Key, success : BOOLEAN]
      <4>1. \A r \in DOMAIN notify_log' : r \in DOMAIN notify_log \/ r = me.row
        BY <2>4
      <4>2. me.row \notin DOMAIN notify_log => notify_log'[me.row] \in [key : Key, success : BOOLEAN]
        BY <2>5, <3>2
      <4>3. \A r \in DOMAIN notify_log : notify_log'[r] \in [key : Key, success : BOOLEAN]
        BY <2>5
      <4>4. QED
        BY <4>1, <4>2, <4>3
    <3>4. QED
      BY <1>2, <2>1, <2>2, <3>1, <3>3, WorkerFacts, BaseWorker DEF Inv
  <2>7. RecordInv'
    <3>1. RowsNumbered'
      <4>1. DOMAIN notify_log' \ {0} = DOMAIN notify_log \ {0}
        BY <2>4
      <4>2. QED
        BY <4>1 DEF Inv, RecordInv, RowsNumbered
    <3>2. ASSUME NEW v \in Started PROVE RowHeld(v)'
      <4>1. RowHeld(v) /\ collided' = collided
        BY <1>2 DEF Inv, RecordInv
      <4>2. QED
        BY <2>2, <2>3, <2>4, <2>5, <4>1 DEF RowHeld
    <3>3. SuccessRecorded'
      <4> DEFINE marked == {r \in DOMAIN notify_log : notify_log[r].success}
                 marked_next == {r \in DOMAIN notify_log' : notify_log'[r].success}
      <4>1. marked \subseteq marked_next
        BY <2>4, <2>5
      <4>2. marked_next \ {0} \subseteq marked \cup {me.row}
        BY <2>4, <2>5
      <4>3. {notify_log'[r].key : r \in marked_next \ {0}} \subseteq delivered'
        <5>1. ASSUME NEW r \in marked_next \ {0} PROVE notify_log'[r].key \in delivered'
          <6>1. CASE r \in marked
            BY <2>1, <2>5, <5>1, <6>1 DEF Inv, RecordInv, SuccessRecorded
          <6>2. CASE r \notin marked
            BY <1>3, <2>1, <2>5, <4>2, <5>1, <6>2
          <6>3. QED
            BY <6>1, <6>2
        <5>2. QED
          BY <5>1
      <4>4. delivered' \ collided' \subseteq {notify_log'[r].key : r \in marked_next}
        <5>1. ASSUME NEW key \in delivered' \ collided'
              PROVE  \E r \in marked_next : notify_log'[r].key = key
          <6>1. CASE key \in delivered
            <7>1. PICK r \in marked : notify_log[r].key = key
              BY <1>2, <5>1, <6>1 DEF Inv, RecordInv, SuccessRecorded
            <7>2. QED
              BY <2>5, <4>1, <7>1
          <6>2. CASE key = me.key
            BY <1>2, <1>3, <2>4, <2>5, <5>1, <6>2
          <6>3. QED
            BY <2>1, <5>1, <6>1, <6>2
        <5>2. QED
          BY <5>1
      <4>5. 0 \in marked_next => collided' # {}
        <5>1. CASE me.row = 0
          BY <1>2, <1>3, <5>1
        <5>2. CASE me.row # 0
          BY <1>2, <2>4, <2>5, <5>2 DEF Inv, RecordInv, SuccessRecorded
        <5>3. QED
          BY <5>1, <5>2
      <4>6. QED
        BY <4>3, <4>4, <4>5 DEF SuccessRecorded
    <3>4. QED
      BY <2>3, <3>1, <3>2, <3>3 DEF RecordInv, Started
  <2>8. OnceInv' /\ OrderInv'
    <3>1. ASSUME NEW str, NEW n PROVE Logged(str)' = Logged(str) /\ InQueue(str, n)' = InQueue(str, n)
      <4>1. InQueue(str, n)' = InQueue(str, n)
        BY <1>2 DEF InQueue
      <4>2. Ready.key.action = "none"
        BY DEF Ready
      <4>3. Logged(str)' = Logged(str)
        BY <2>4, <2>5, <4>2 DEF Logged
      <4>4. QED
        BY <4>1, <4>3
    <3>2. \A kind \in Kinds : Queued(kind)' = Queued(kind)
      BY <1>2 DEF Queued
    <3>3. QED
      BY <1>2, <2>1, <2>2, <3>1, <3>2, Advances
  <2>9. QED
    BY <2>6, <2>7, <2>8 DEF Inv
<1>7. QED
  BY <1>5, <1>6

\* The item at the front goes from the queue to the worker.
LEMMA GetStep ==
  ASSUME Inv, NEW w \in Started, Get(w)
  PROVE  Inv'
<1>1. /\ At(w, "get") /\ queue # <<>> /\ queue' = Tail(queue) /\ queue \in Seq(Item)
      /\ UNCHANGED <<notify_log, now, producers, aux>>
  BY WorkerFacts DEF Get
<1>2. PICK i \in Item : i = Head(queue)
  BY <1>1, Takes
<1>3. /\ Addressed(i) /\ queue' \in Seq(Item) /\ \A k \in DOMAIN queue' : Addressed(queue'[k])
      /\ \A kind \in Kinds :
           /\ \A k \in Queued(kind)' : /\ k \in Nat \ {0} /\ k + 1 \in Queued(kind)
                                       /\ queue'[k] = queue[k + 1]
           /\ i.kind = kind /\ Plain(i) => 1 \in Queued(kind)
      /\ \A str, n :
           /\ \A k \in InQueue(str, n)' : k \in Nat \ {0} /\ k + 1 \in InQueue(str, n)
           /\ About(i, str, n) => 1 \in InQueue(str, n)
      /\ queue[1] = i
  BY <1>1, <1>2, Takes, WorkerFacts
<1>4. PICK s \in Local :
        /\ Become(w, s)
        /\ \/ s.pc = "exited" /\ s.item = Stop
           \/ s.pc = i.kind /\ i.kind \in Kinds /\ s.item = i
  <2>1. CASE i.kind = "stop"
    <3>1. PICK s \in Local : s = [Ready EXCEPT !.pc = "exited"]
      BY ReadyFacts
    <3>2. s.pc = "exited" /\ s.item = Stop
      BY <3>1, ReadyFacts DEF Local
    <3>3. QED
      BY <1>2, <2>1, <3>1, <3>2 DEF Get
  <2>2. CASE i.kind # "stop"
    <3>1. i.kind \in Kinds
      BY <2>2 DEF Item, Kinds
    <3>2. PICK s \in Local : s = [Ready EXCEPT !.pc = i.kind, !.item = i]
      BY <3>1, ReadyFacts DEF Local, PC, Kinds
    <3>3. s.pc = i.kind /\ s.item = i
      BY <3>2, ReadyFacts DEF Local
    <3>4. QED
      BY <1>2, <2>2, <3>1, <3>2, <3>3 DEF Get
  <2>3. QED
    BY <2>1, <2>2
<1>5. /\ DOMAIN worker' = Started
      /\ \A v \in Started : worker'[v] = IF v = w THEN s ELSE worker[v]
  BY <1>4, Becomes
<1>6. BaseInv'
  <2>1. Addressed(Stop)
    BY ReadyFacts DEF Addressed
  <2>2. QED
    BY <1>1, <1>3, <1>4, <2>1, WorkerFacts, BaseWorker DEF Inv, aux, Kinds
<1>7. RecordInv'
  BY <1>1, <1>4, RowsKept DEF Inv, aux, Kinds
<1>8. OnceInv'
  <2> SUFFICES ASSUME NEW str \in Streams \cup {NoStream}, NEW n \in Notifiers,
                      <<str, n>> \notin overlap'
               PROVE  Single(str, n)'
    BY DEF OnceInv
  <2>1. Single(str, n)
    BY <1>1 DEF Inv, OnceInv, aux
  <2>2. /\ InSent(str, n)' = InSent(str, n) /\ Logged(str)' = Logged(str)
        /\ InWatcher(str, n)' = InWatcher(str, n)
    BY <1>1 DEF InSent, InWatcher, producers, aux, Logged
  <2>3. \A v \in Started : SentBy(v, str, n)' <=> SentBy(v, str, n)
    BY <1>1, <1>4, <1>5 DEF SentBy, At, Kinds
  <2>4. \A v \in Started : HeldBy(v, str, n)' => HeldBy(v, str, n) \/ (v = w /\ About(i, str, n))
    BY <1>4, <1>5, ReadyFacts DEF HeldBy, At, Kinds, About
  <2>5. After(str, n)' <=> After(str, n)
    BY <1>5, <2>2, <2>3 DEF After, Started
  <2>6. /\ \A k, l \in InQueue(str, n)' : k = l
        /\ InQueue(str, n)' # {} => InQueue(str, n) # {}
        /\ About(i, str, n) => InQueue(str, n)' = {}
    <3>1. \A k \in InQueue(str, n)' : k \in Nat \ {0} /\ k + 1 \in InQueue(str, n)
      BY <1>3
    <3>2. About(i, str, n) => 1 \in InQueue(str, n)
      BY <1>3
    <3>3. QED
      BY <2>1, <3>1, <3>2 DEF Single
  <2>7. CASE About(i, str, n)
    <3>1. InQueue(str, n) # {} /\ ~InWatcher(str, n) /\ Before(str, n)
          /\ \A v \in Started : ~HeldBy(v, str, n)
      BY <1>3, <2>1, <2>7 DEF Single, Before
    <3>2. QED
      BY <1>5, <2>1, <2>2, <2>3, <2>4, <2>5, <2>6, <2>7, <3>1 DEF Single, Started
  <2>8. CASE ~About(i, str, n)
    <3>1. Before(str, n)' => Before(str, n)
      BY <1>5, <2>2, <2>4, <2>6, <2>8 DEF Before, Started
    <3>2. QED
      BY <1>5, <2>1, <2>2, <2>3, <2>4, <2>5, <2>6, <2>8, <3>1 DEF Single, Started
  <2>9. QED
    BY <2>7, <2>8
<1>9. OrderInv'
  <2> SUFFICES ASSUME Cardinality(Started) = 1
               PROVE  OrderInv'
    BY <1>5 DEF OrderInv, Started
  <2>1. \A v \in Started : v = w
    BY OneWorker
  <2>2. \A kind \in Kinds : \A k \in Queued(kind)' :
          k \in Nat \ {0} /\ k + 1 \in Queued(kind) /\ queue'[k] = queue[k + 1]
    BY <1>3
  <2>3. Gone' = Gone /\ sent' = sent /\ events' = events
    BY <1>1 DEF Gone, aux, producers
  <2>4. GoneOrdered'
    BY <2>3 DEF Inv, OrderInv, GoneOrdered
  <2>5. QueueOrdered'
    <3>1. ASSUME NEW kind \in Kinds, NEW k \in Queued(kind)', NEW l \in Queued(kind)', k < l
          PROVE  queue'[k].event <= queue'[l].event
      <4>1. k + 1 < l + 1
        BY <2>2, <3>1
      <4>2. QED
        BY <2>2, <3>1, <4>1 DEF Inv, OrderInv, QueueOrdered
    <3>2. QED
      BY <2>2, <2>3, <3>1 DEF Inv, OrderInv, QueueOrdered, Kinds
  <2>6. GoneBeforeQueue'
    BY <2>2, <2>3 DEF Inv, OrderInv, GoneBeforeQueue
  <2>7. worker'[w] = s
    BY <1>5
  <2>8. CASE Plain(i) /\ s.pc = "event" /\ s.item = i
    <3>1. 1 \in Queued("event")
      BY <1>3, <1>4, <2>8 DEF Kinds
    <3>2. \A l \in Queued("event")' : i.event <= queue'[l].event
      <4>1. \A l \in Queued("event")' : 1 < l + 1
        BY <2>2 DEF Kinds
      <4>2. QED
        BY <1>3, <2>2, <3>1, <4>1 DEF Inv, OrderInv, QueueOrdered, Kinds
    <3>3. \A k \in Queued("notification")' : queue'[k].event <= i.event
      BY <1>3, <2>2, <3>1 DEF Inv, OrderInv, QueueOrdered, Kinds
    <3>4. i.event <= events /\ \A k \in Gone : sent[k].event <= i.event
      BY <1>3, <3>1 DEF Inv, OrderInv, QueueOrdered, GoneBeforeQueue, Kinds
    <3>5. (ServedBetween(w) /\ DeliveredFirst(w) /\ AfterGone(w))'
      BY <2>3, <2>7, <2>8, <3>2, <3>3, <3>4 DEF ServedBetween, DeliveredFirst, AfterGone, Delivering
    <3>6. QED
      BY <1>5, <2>1, <2>4, <2>5, <2>6, <3>5 DEF OrderInv, Started
  <2>9. CASE Plain(i) /\ s.pc = "notification" /\ s.item = i
    <3>1. 1 \in Queued("notification")
      BY <1>3, <1>4, <2>9 DEF Kinds
    <3>2. \A l \in Queued("notification")' : i.event <= queue'[l].event
      <4>1. \A l \in Queued("notification")' : 1 < l + 1
        BY <2>2 DEF Kinds
      <4>2. QED
        BY <1>3, <2>2, <3>1, <4>1 DEF Inv, OrderInv, QueueOrdered, Kinds
    <3>3. \A k \in Queued("event")' : i.event <= queue'[k].event
      BY <1>3, <2>2, <3>1 DEF Inv, OrderInv, QueueOrdered, Kinds
    <3>4. i.event <= events /\ \A k \in Gone : sent[k].event <= i.event
      BY <1>3, <3>1 DEF Inv, OrderInv, QueueOrdered, GoneBeforeQueue, Kinds
    <3>5. (ServedBetween(w) /\ DeliveredFirst(w) /\ AfterGone(w))'
      BY <2>3, <2>7, <2>9, <3>2, <3>3, <3>4
         DEF ServedBetween, DeliveredFirst, AfterGone, Served, Kinds
    <3>6. QED
      BY <1>5, <2>1, <2>4, <2>5, <2>6, <3>5 DEF OrderInv, Started
  <2>10. CASE s.pc = "exited" \/ (s.item = i /\ ~Plain(i))
    <3>1. ~Served(w)' /\ ~Delivering(w)'
      BY <2>7, <2>10 DEF Served, Delivering
    <3>2. QED
      BY <1>5, <2>1, <2>4, <2>5, <2>6, <3>1
         DEF OrderInv, ServedBetween, DeliveredFirst, AfterGone, Started
  <2>11. QED
    BY <1>4, <2>8, <2>9, <2>10 DEF Kinds
<1>10. QED
  BY <1>6, <1>7, <1>8, <1>9 DEF Inv
-----------------------------------------------------------------------------
LEMMA InitInv ==
  ASSUME Init
  PROVE  Inv
<1>1. PICK S \in (SUBSET Workers) \ {{}} : worker \in [S -> {Ready}]
  BY DEF Init
<1>2. Started = S /\ \A w \in Started : worker[w] = Ready
  BY <1>1 DEF Started
<1>3. /\ queue = <<>> /\ sent = <<>> /\ notify_log = <<>> /\ events = 0 /\ watcher = NoWatcher
      /\ delivered = {} /\ collided = {} /\ overlap = {} /\ now = 0 /\ watched = {}
      /\ stopping = FALSE
  BY DEF Init
<1>4. DOMAIN queue = {} /\ DOMAIN sent = {} /\ DOMAIN notify_log = {}
  BY <1>3
<1>5. BaseInv
  <2>1. queue \in Seq(Item) /\ sent \in Seq(Message)
    BY <1>3
  <2>2. NoWatcher \in [event : 0 .. MaxEvents, stream : Streams \cup {NoStream},
                       todo : SUBSET Notifiers]
    BY ConstantsAssumption DEF NoWatcher
  <2>3. TypeOK
    <3>1. now \in 0 .. MaxTime /\ events \in 0 .. MaxEvents
      BY <1>3, ConstantsAssumption
    <3>2. watched \subseteq Streams /\ stopping \in BOOLEAN
      BY <1>3
    <3>3. \A w \in Started : worker[w] \in Local
      BY <1>2, ReadyFacts
    <3>4. Started \subseteq Workers
      BY <1>2
    <3>5. \A id \in DOMAIN notify_log : notify_log[id] \in [key : Key, success : BOOLEAN]
      BY <1>4
    <3>6. DOMAIN notify_log \subseteq Nat
      BY <1>4
    <3>7. QED
      BY <1>3, <2>1, <2>2, <3>1, <3>2, <3>3, <3>4, <3>5, <3>6 DEF TypeOK, Local
  <2>4. QED
    BY <1>2, <1>4, <2>1, <2>3, ReadyFacts
       DEF BaseInv, Addressed, KeyFits, TodoFits, Recording, At
<1>6. RecordInv
  <2>1. RowsNumbered
    <3>1. DOMAIN notify_log \ {0} = 1 .. 0
      BY <1>4
    <3>2. QED
      BY <3>1 DEF RowsNumbered
  <2>2. SuccessRecorded
    BY <1>3, <1>4 DEF SuccessRecorded
  <2>3. QED
    BY <1>2, <2>1, <2>2, ReadyFacts DEF RecordInv, RowHeld
<1>7. OnceInv
  <2>1. \A s, n : /\ InQueue(s, n) = {} /\ InSent(s, n) = {} /\ ~InWatcher(s, n)
                  /\ \A w \in Started : ~HeldBy(w, s, n) /\ ~SentBy(w, s, n)
    BY <1>2, <1>3, <1>4, ReadyFacts
       DEF InQueue, InSent, InWatcher, NoWatcher, HeldBy, SentBy, At
  <2>2. QED
    BY <2>1 DEF OnceInv, Single, Before, After
<1>8. OrderInv
  <2>1. Gone = {} /\ \A kind : Queued(kind) = {}
    BY <1>4 DEF Gone, Queued
  <2>2. \A w \in Started : ~Served(w) /\ ~Delivering(w)
    BY <1>2, ReadyFacts DEF Served, Delivering
  <2>3. QED
    BY <2>1, <2>2 DEF OrderInv, GoneOrdered, QueueOrdered, GoneBeforeQueue, ServedBetween,
       DeliveredFirst, AfterGone
<1>9. QED
  BY <1>5, <1>6, <1>7, <1>8 DEF Inv

LEMMA NextInv ==
  ASSUME Inv, [Next]_vars
  PROVE  Inv'
<1>1. now \in 0 .. MaxTime /\ watched \subseteq Streams /\ stopping \in BOOLEAN
  BY DEF Inv, BaseInv, TypeOK
<1>2. CASE Tick
  BY <1>1, <1>2, QuietStep, ConstantsAssumption DEF Tick, producers
<1>3. CASE Produce
  BY <1>3, ProduceStep
<1>4. CASE PutWatched
  BY <1>4, PutWatchedStep
<1>5. CASE Shutdown
  BY <1>5, ShutdownStep
<1>6. CASE \E s \in Streams : Watched(s)
  BY <1>6, WatchedStep
<1>7. CASE \E s \in Streams : Replay(s)
  BY <1>1, <1>7, QuietStep DEF Replay
<1>8. ASSUME NEW w \in Started, Serve(w) PROVE Inv'
  BY <1>8, GetStep, AddEachStep, PutNotificationStep, ChainStep, NotifyStep, InsertStep,
     SendStep, SetSuccessStep DEF Serve
<1>9. CASE UNCHANGED vars
  BY <1>1, <1>9, QuietStep DEF vars, producers
<1>10. QED
  BY <1>2, <1>3, <1>4, <1>5, <1>6, <1>7, <1>8, <1>9 DEF Next

\* Inv holds in every state.
THEOREM Invariance == Spec => []Inv
<1>1. Init => Inv
  BY InitInv
<1>2. Inv /\ [Next]_vars => Inv'
  BY NextInv
<1>3. QED
  BY <1>1, <1>2, PTL DEF Spec

\* The queue, the workers and notify_log keep their types.
THEOREM TypeCorrect == Spec => []TypeOK
<1>1. Inv => TypeOK
  BY DEF Inv, BaseInv
<1>2. QED
  BY <1>1, Invariance, PTL

\* What notify_log says of a notification is true, with any number of workers.
THEOREM RecordTrue == Spec => []SuccessRecorded
<1>1. Inv => SuccessRecorded
  BY DEF Inv, RecordInv
<1>2. QED
  BY <1>1, Invariance, PTL

\* A notifier is told once that a stream was watched, unless notify_log was asked
\* while that was still on its way.
THEOREM ToldOnce == Spec => []WatchedOnce
<1>1. Inv => WatchedOnce
  <2> SUFFICES ASSUME Inv, NEW i \in DOMAIN sent, NEW j \in DOMAIN sent, i # j,
                      sent[i].action = "on_watched", sent[j].action = "on_watched",
                      sent[i].stream = sent[j].stream, sent[i].notifier = sent[j].notifier
               PROVE  <<sent[i].stream, sent[i].notifier>> \in overlap
    BY DEF WatchedOnce
  <2>1. sent[i] \in Message /\ sent[i].notifier \in Notifiers
    BY DEF Inv, BaseInv, Addressed
  <2>2. PICK s \in Streams \cup {NoStream}, n \in Notifiers :
          s = sent[i].stream /\ n = sent[i].notifier
    BY <2>1 DEF Message
  <2>3. i \in InSent(s, n) /\ j \in InSent(s, n)
    BY <2>2 DEF InSent, About
  <2>4. QED
    BY <2>2, <2>3 DEF Inv, OnceInv, Single
<1>2. QED
  BY <1>1, Invariance, PTL

\* With one worker no notifier gets the events in another order than they
\* happened, although other events are between an event and its notifications.
THEOREM OrderKeptByOne == Spec => []InOrderWithOneThread
<1>1. Inv => InOrderWithOneThread
  <2> SUFFICES ASSUME Inv, Cardinality(Started) = 1,
                      NEW i \in DOMAIN sent, NEW j \in DOMAIN sent, i < j,
                      {sent[i].action, sent[j].action} \cap (ChainedActions \cup {"on_watched"}) = {}
               PROVE  sent[i].event <= sent[j].event
    BY DEF InOrderWithOneThread
  <2>1. i \in Gone /\ j \in Gone
    BY DEF Gone, Plain
  <2>2. QED
    BY <2>1 DEF Inv, OrderInv, GoneOrdered
<1>2. QED
  BY <1>1, Invariance, PTL
=============================================================================
