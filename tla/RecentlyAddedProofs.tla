------------------------- MODULE RecentlyAddedProofs -------------------------
(***************************************************************************)
(* Proofs about RECENTLY_ADDED_QUEUE, for any library and any number of    *)
(* events: no item is forgotten, none is announced twice, and the queue    *)
(* and the callbacks agree at rest.                                        *)
(*                                                                         *)
(* None of the properties is inductive.  What makes them so, in the order  *)
(* of this module:                                                         *)
(*   SetsSound    whose set each set is, and which sets the loops of a     *)
(*                callback and the hands of the websocket thread hold;     *)
(*   Undisturbed  which events are not raced: those whose callback rests;  *)
(*   Debts        of every item that waits, what still leads to it: keys   *)
(*                and sets from the root, a loop of a callback, a job;     *)
(*   EachOnce     the loops of a callback come to a key once;              *)
(*   Tidy         of a root whose events and callbacks have not met, what  *)
(*                keeps each of its keys in the queue, and that what is    *)
(*                about to be announced still waits, so that on_created    *)
(*                always takes a waiting item or fails.                    *)
(***************************************************************************)
EXTENDS RecentlyAdded, FiniteSetTheorems, TLAPS

\* What the set of a key may hold: the keys below it, the root of an episode.
Members(k) == IF k \in Leaves THEN {Root(k)} ELSE {i \in Items : Parent[i] = k}

Announcing(s) == s.pc \in {"start", "child", "walk", "created"}
Deleting(s) == s.pc \in {"in", "pop", "unwind"}
Inserting(s) == s.pc \in {"get", "add", "assign"}

\* The event is a created item; what is left of it ends in a callback.
Creating(s) == s.pc \in {"get", "add", "assign", "leaf", "get_job", "set_job"} /\ ~s.remove

\* A deleted root has left the queue; what is left is to remove its callback.
Removing(s) == s.pc = "unwind" \/ s.remove
-----------------------------------------------------------------------------
(* Whose set is whose.  A set is made for one key, its owner, and holds    *)
(* members of that key only, also when it has left the queue.              *)

FrameSound(r, f, owner) ==
  /\ f.set \in DOMAIN sets /\ owner[f.set] \in Tree(r)
  /\ f.left \subseteq f.all /\ f.all \subseteq sets[f.set]

CallbackSound(r, s, owner) ==
  /\ s.pc \in {"idle", "start", "child", "walk", "created", "in", "pop", "unwind"}
  /\ s.pc # "idle" => s.item = r
  /\ \A k \in DOMAIN s.stack : FrameSound(r, s.stack[k], owner)
  /\ Announcing(s) =>
       /\ Len(s.stack) <= 2
       /\ Len(s.stack) = 1 => owner[s.stack[1].set] = r
       /\ Len(s.stack) = 2 => owner[s.stack[2].set] = r /\ owner[s.stack[1].set] \in Members(r)
  /\ s.pc = "start" => s.stack = << >>
  /\ s.pc = "child" => Len(s.stack) = 1 /\ s.key \in Members(r)
  /\ s.pc = "walk" => s.stack # << >>
  /\ s.pc = "created" => /\ s.key \in Tree(r)
                         /\ s.set # 0 => s.set \in DOMAIN sets /\ owner[s.set] = s.key
                         /\ s.key \in Leaves => s.set = 0
  /\ s.pc \in {"in", "pop"} => s.key \in Tree(r)
  /\ s.pc = "unwind" => s.stack # << >>

\* The websocket thread inserts what the kind of the item says, into the set that
\* is queued under the key or into one that nobody else has.
TodoSound(s) ==
  /\ s.item \in Leaves => s.todo \in {Insertions(s.item), Tail(Insertions(s.item))}
  /\ s.item \notin Leaves => s.todo = Insertions(s.item)

WebsocketSound(s, owner) ==
  /\ s.pc \in {"idle", "get", "add", "assign", "leaf", "get_job", "set_job", "deleted", "empty",
               "in", "pop", "unwind"}
  /\ s.pc # "idle" => s.item \in Items
  /\ Inserting(s) => TodoSound(s)
  /\ s.pc \in {"add", "assign"} => /\ s.set \in DOMAIN sets
                                   /\ owner[s.set] = s.todo[1][1]
                                   /\ Queued(s.todo[1][1]) => queue[s.todo[1][1]] = s.set
  /\ s.pc = "assign" => {s.todo[1][2]} \ {NoItem} \subseteq sets[s.set]
  /\ s.pc = "leaf" => s.item \in Leaves
  /\ s.remove => s.pc \in {"get_job", "set_job"}
  /\ s.pc \in {"deleted", "empty", "in", "pop", "unwind"} => s.key = s.item
  /\ s.pc \in {"deleted", "empty", "in", "pop"} => s.stack = << >>
  /\ s.pc \in {"in", "pop"} => s.item \in Roots /\ (Queued(s.item) => Contents(s.item) = {})
  /\ s.pc = "unwind" => /\ Len(s.stack) = 1 /\ s.stack[1].set \in DOMAIN sets
                        /\ s.stack[1].all = {} /\ s.stack[1].left = {}
                        /\ sets[s.stack[1].set] = {}
                        /\ owner[s.stack[1].set] = s.item
  /\ Removing(s) => s.item \in Roots /\ ~Queued(s.item)
  /\ s.pc = "set_job" /\ ~s.found => Root(s.item) \notin jobs

Owners(owner) ==
  /\ owner \in [DOMAIN sets -> Items]
  /\ \A n \in DOMAIN sets : sets[n] \subseteq Members(owner[n])
  /\ \A k \in DOMAIN queue : /\ queue[k] \in DOMAIN sets /\ owner[queue[k]] = k
                             /\ k \in Roots \/ Contents(k) # {}
  /\ \A r \in Roots : CallbackSound(r, thread[r], owner)
  /\ WebsocketSound(thread[Websocket], owner)

SetsSound == \E owner \in [DOMAIN sets -> Items] : Owners(owner)

\* Until the event has met its root's callback that callback does not run.
Undisturbed ==
  LET s == thread[Websocket] IN
  s.pc # "idle" /\ s.item \notin raced => At(Root(s.item), "idle")
-----------------------------------------------------------------------------
(* What is owed to an item that waits.                                     *)

Owed(r) == (waiting \cap Tree(r)) \ (raced \cup failed)

\* A callback that starts now comes to the item.
Reachable(i) ==
  /\ Queued(Root(i))
  /\ i \in Middles => i \in Contents(Root(i))
  /\ i \in Leaves => /\ Parent[i] \in Contents(Root(i))
                     /\ Queued(Parent[i]) /\ i \in Contents(Parent[i])

HalfInserted ==
  LET s == thread[Websocket] IN
  Inserting(s) /\ s.item \notin raced /\ s.item \in Leaves /\ Len(s.todo) = 1 =>
    Queued(Root(s.item)) /\ Parent[s.item] \in Contents(Root(s.item))

OwedReachable ==
  \A r \in Roots : \A i \in Owed(r) :
    Reachable(i) \/ (Inserting(thread[Websocket]) /\ thread[Websocket].item = i)

\* The child keys of on_created.
Children(s) == IF s.set = 0 THEN {} ELSE sets[s.set]

\* What a callback at s comes to in the loops it is in.
InLoops(s, i) ==
  \E k \in DOMAIN s.stack : \E j \in s.stack[k].left :
    i = j \/ i = Parent[j] \/ i = Root(j) \/ (k = Len(s.stack) /\ Parent[i] = j)

\* What the steps of a callback that has come to s will still announce.
Ahead(s, i) ==
  \/ s.pc = "start"
  \/ s.pc = "child" /\ (i \in Roots \/ i = s.key \/ Parent[i] = s.key)
  \/ s.pc = "created" /\ i \in Covered(s.key, Children(s))
  \/ Announcing(s) /\ InLoops(s, i)

OwedAhead ==
  \A r \in Roots : ~At(r, "idle") => \A i \in Owed(r) : Ahead(thread[r], i)

\* No loop of the callback is about to raise.
Steady(s) == \A k \in DOMAIN s.stack : sets[s.stack[k].set] = s.stack[k].all

CreatingIn(r) == Creating(thread[Websocket]) /\ Root(thread[Websocket].item) = r
Serving(r) == ~At(r, "idle") /\ Steady(thread[r])

OwedPledged ==
  \A r \in Roots : Owed(r) # {} => r \in jobs \/ CreatingIn(r) \/ Serving(r)

\* A callback that fired before the event could put it off serves what is owed.
OwedServed ==
  LET s == thread[Websocket]
      r == Root(s.item)
  IN  s.pc = "set_job" /\ s.found /\ r \notin jobs /\ Owed(r) # {} => Serving(r)

Debts == HalfInserted /\ OwedReachable /\ OwedAhead /\ OwedPledged /\ OwedServed
-----------------------------------------------------------------------------
\* A callback that has come to a key is not to come to it again in the loops it is in.
ComesOnce(s) ==
  /\ Announcing(s) /\ Len(s.stack) = 2 =>
       \A i \in s.stack[1].all : Parent[i] \notin s.stack[2].left
  /\ s.pc = "child" => s.key \notin s.stack[1].left
  /\ s.pc = "created" =>
       /\ s.key \in Roots => s.stack = << >>
       /\ s.key \in Middles => Len(s.stack) = 1 /\ s.key \notin s.stack[1].left
       /\ s.key \in Leaves => Len(s.stack) = 2 /\ s.key \in s.stack[1].all \ s.stack[1].left

EachOnce == \A r \in Roots : ComesOnce(thread[r])
-----------------------------------------------------------------------------
(* A root whose events and callbacks have not met, and without failures.   *)

Clean(r) == Tree(r) \cap (raced \cup failed) = {}

\* The key is still to be deleted: it hangs on one that is, or the callback has come
\* to it.
InFrames(s, k) == \E n \in DOMAIN s.stack : k \in s.stack[n].left

Hangs(r, k) ==
  \/ k = r /\ ~Deleting(thread[r])
  \/ k # r /\ Queued(Parent[k]) /\ k \in Contents(Parent[k])

Pending(r, k) ==
  \/ Hangs(r, k)
  \/ /\ Deleting(thread[r])
     /\ \/ InFrames(thread[r], k)
        \/ thread[r].key = k /\ thread[r].pc \in {"in", "pop"}

TreeHangs(r) == \A k \in Tree(r) : Queued(k) => Pending(r, k)

JobsMatch(r) ==
  /\ r \in jobs => /\ At(r, "idle")
                   /\ Queued(r) \/ (Removing(thread[Websocket]) /\ thread[Websocket].item = r)
  /\ Queued(r) => r \in jobs \/ CreatingIn(r) \/ ~At(r, "idle")
  /\ At(Websocket, "set_job") /\ Root(thread[Websocket].item) = r /\ thread[Websocket].found
       => r \in jobs

RunSound(r) ==
  /\ ~At(r, "idle") => Steady(thread[r])
  /\ Announcing(thread[r]) => Queued(r)
  /\ At(r, "pop") => Queued(thread[r].key)

\* The sets of a key: the one in the queue, and the one that is about to be.
Holds(k, i) ==
  \/ Queued(k) /\ i \in Contents(k)
  \/ /\ thread[Websocket].pc \in {"add", "assign"} /\ thread[Websocket].todo[1][1] = k
     /\ i \in sets[thread[Websocket].set]

\* The callback has not yet come to the root, or to the key m below it.
Untouched(r) == thread[r].pc \in {"idle", "start"}
ComesTo(s, m) ==
  \/ s.pc = "child" /\ s.key = m
  \/ Announcing(s) /\ s.stack # << >> /\ m \in s.stack[Len(s.stack)].left
Coming(r, m) == Untouched(r) \/ ComesTo(thread[r], m)

\* Whatever is announced announces something that waits.
RootWaits(r) == Untouched(r) /\ Queued(r) /\ Contents(r) = {} => r \in waiting

MiddleWaits(r, m) ==
  (Untouched(r) => Holds(r, m)) =>
    \/ m \in waiting \/ Queued(m)
    \/ Inserting(thread[Websocket]) /\ Parent[thread[Websocket].item] = m

LeavesWait(m) == \A l \in Members(m) : Holds(m, l) => l \in waiting

AllWait(r) ==
  /\ RootWaits(r)
  /\ \A m \in Members(r) : Coming(r, m) => MiddleWaits(r, m) /\ LeavesWait(m)
  /\ Announcing(thread[r]) /\ Len(thread[r].stack) = 2 => thread[r].stack[1].left \subseteq waiting
  /\ At(r, "created") => waiting \cap Tree(r) # {}
  /\ CreatingIn(r) => thread[Websocket].item \in waiting

TidyIn(r) == TreeHangs(r) /\ JobsMatch(r) /\ RunSound(r) /\ AllWait(r)

Tidy == \A r \in Roots : Clean(r) => TidyIn(r)
-----------------------------------------------------------------------------
AnnouncedRecorded == announced \subseteq recorded \cup failed
-----------------------------------------------------------------------------
(* The library. *)

LEMMA Kinds ==
  /\ Roots \subseteq Items /\ Middles \subseteq Items /\ Leaves \subseteq Items
  /\ Items = Roots \cup Middles \cup Leaves
  /\ Roots \cap Middles = {} /\ Roots \cap Leaves = {} /\ Middles \cap Leaves = {}
  /\ \A r \in Roots : Parent[r] = NoItem
  /\ \A m \in Middles : Parent[m] \in Roots
  /\ \A l \in Leaves : Parent[l] \in Middles
  /\ NoItem \notin Items /\ Websocket \notin Items
<1>1. Roots \subseteq Items /\ Middles \subseteq Items /\ Leaves \subseteq Items
  BY DEF Roots, Middles, Leaves
<1>2. \A r \in Roots : Parent[r] = NoItem
  BY DEF Roots
<1>3. \A m \in Middles : Parent[m] \in Roots
  BY DEF Middles
<1>4. \A l \in Leaves : Parent[l] \in Middles
  BY DEF Leaves
<1>5. NoItem \notin Items /\ Websocket \notin Items /\ Items = Roots \cup Middles \cup Leaves
  BY ConstantsAssumption
<1>6. Roots \cap Middles = {} /\ Roots \cap Leaves = {}
  BY <1>1, <1>2, <1>3, <1>4, <1>5
<1>7. Middles \cap Leaves = {}
  BY <1>1, <1>3, <1>4, <1>6
<1>8. QED
  BY <1>1, <1>2, <1>3, <1>4, <1>5, <1>6, <1>7

\* Every item is in the tree of one root.
LEMMA RootFacts ==
  /\ \A r \in Roots : Root(r) = r
  /\ \A m \in Middles : Root(m) = Parent[m]
  /\ \A l \in Leaves : Root(l) = Parent[Parent[l]] /\ Root(Parent[l]) = Root(l)
  /\ \A i \in Items : Root(i) \in Roots
<1>1. \A r \in Roots : Root(r) = r
  BY DEF Root
<1>2. \A m \in Middles : Root(m) = Parent[m]
  BY Kinds DEF Root
<1>3. ASSUME NEW l \in Leaves PROVE Root(l) = Parent[Parent[l]] /\ Root(Parent[l]) = Root(l)
  <2>1. l \notin Roots /\ l \notin Middles
    BY Kinds
  <2>2. QED
    BY <1>2, <2>1, Kinds DEF Root
<1>4. QED
  BY <1>1, <1>2, <1>3, Kinds

\* The keys a set may hold are of the owner's tree, and of no other owner's set but
\* an episode's.
LEMMA MemberFacts ==
  /\ \A k \in Items : Members(k) \subseteq Items
  /\ \A k \in Items : \A j \in Members(k) : Root(j) = Root(k)
  /\ \A r \in Roots : \A i : i \in Members(r) <=> i \in Middles /\ Parent[i] = r
  /\ \A m \in Middles : \A i : i \in Members(m) <=> i \in Leaves /\ Parent[i] = m
  /\ \A l \in Leaves : Members(l) = {Root(l)}
<1>1. \A l \in Leaves : Members(l) = {Root(l)}
  BY DEF Members
<1>2. ASSUME NEW r \in Roots, NEW i PROVE i \in Members(r) <=> i \in Middles /\ Parent[i] = r
  <2>1. r \notin Leaves /\ r # NoItem
    BY Kinds
  <2>2. i \in Members(r) <=> i \in Items /\ Parent[i] = r
    BY <2>1 DEF Members
  <2>3. i \in Items /\ Parent[i] = r => i \in Middles
    BY DEF Middles
  <2>4. QED
    BY <2>2, <2>3, Kinds
<1>3. ASSUME NEW m \in Middles, NEW i PROVE i \in Members(m) <=> i \in Leaves /\ Parent[i] = m
  <2>1. m \notin Leaves
    BY Kinds
  <2>2. i \in Members(m) <=> i \in Items /\ Parent[i] = m
    BY <2>1 DEF Members
  <2>3. i \in Items /\ Parent[i] = m => i \in Leaves
    BY DEF Leaves
  <2>4. QED
    BY <2>2, <2>3, Kinds
<1>4. ASSUME NEW k \in Items PROVE Members(k) \subseteq Items /\ \A j \in Members(k) : Root(j) = Root(k)
  <2>1. CASE k \in Roots
    BY <1>2, <2>1, Kinds, RootFacts
  <2>2. CASE k \in Middles
    BY <1>3, <2>2, Kinds, RootFacts
  <2>3. CASE k \in Leaves
    BY <1>1, <2>3, Kinds, RootFacts
  <2>4. QED
    BY <2>1, <2>2, <2>3, Kinds
<1>5. QED
  BY <1>1, <1>2, <1>3, <1>4

\* What an item is inserted under.
LEMMA InsertionFacts ==
  ASSUME NEW i \in Items
  PROVE  /\ Insertions(i) \in Seq(Items \X (Items \cup {NoItem}))
         /\ i \in Leaves => /\ Insertions(i) = <<<<Root(i), Parent[i]>>, <<Parent[i], i>>>>
                            /\ Tail(Insertions(i)) = <<<<Parent[i], i>>>>
         /\ i \in Middles => Insertions(i) = <<<<Parent[i], i>>>>
         /\ i \in Roots => Insertions(i) = <<<<i, NoItem>>>>
<1>1. CASE i \in Leaves
  <2>1. Insertions(i) = <<<<Root(i), Parent[i]>>, <<Parent[i], i>>>>
    BY <1>1 DEF Insertions
  <2>2. Tail(<<<<Root(i), Parent[i]>>, <<Parent[i], i>>>>) = <<<<Parent[i], i>>>>
    OBVIOUS
  <2>3. Root(i) \in Items /\ Parent[i] \in Items
    BY <1>1, Kinds, RootFacts
  <2>4. QED
    BY <1>1, <2>1, <2>2, <2>3, Kinds
<1>2. CASE i \in Middles
  <2>1. i \notin Leaves /\ i \notin Roots /\ Parent[i] \in Items
    BY <1>2, Kinds
  <2>2. QED
    BY <1>2, <2>1 DEF Insertions
<1>3. CASE i \in Roots
  <2>1. i \notin Leaves /\ i \notin Middles
    BY <1>3, Kinds
  <2>2. QED
    BY <1>3, <2>1 DEF Insertions
<1>4. QED
  BY <1>1, <1>2, <1>3, Kinds

-----------------------------------------------------------------------------
(* The local states the operators make. *)

LEMMA IdleLocal ==
  /\ Idle \in Local /\ Idle.pc = "idle" /\ Idle.item = NoItem /\ Idle.key = NoItem
  /\ Idle.todo = << >> /\ Idle.set = 0 /\ Idle.stack = << >> /\ ~Idle.found /\ ~Idle.remove
  BY DEF Idle, Local, PC

\* What a step of a thread leaves of its state; the rest is said apart.
Same(s, p) == p.item = s.item /\ p.todo = s.todo /\ p.found = s.found /\ p.remove = s.remove

LEMMA PushFacts ==
  ASSUME NEW s \in Local, NEW set \in Nat, sets[set] \in SUBSET Items, NEW pc \in PC, NEW p,
         p = Push(s, set, pc)
  PROVE  /\ p \in Local /\ Same(s, p) /\ p.pc = pc /\ p.key = s.key /\ p.set = 0
         /\ DOMAIN p.stack = 1 .. Len(s.stack) + 1 /\ Len(p.stack) = Len(s.stack) + 1
         /\ p.stack[1] = [set |-> set, all |-> sets[set], left |-> sets[set]]
         /\ \A k \in DOMAIN s.stack : k + 1 \in DOMAIN p.stack /\ p.stack[k + 1] = s.stack[k]
<1>1. PICK f : f = [set |-> set, all |-> sets[set], left |-> sets[set]]
  OBVIOUS
<1>2. f \in Frame
  BY <1>1 DEF Frame
<1>3. s.stack \in Seq(Frame)
  BY DEF Local
<1>4. PICK q : q = <<f>> \o s.stack
  OBVIOUS
<1>5. /\ q \in Seq(Frame) /\ DOMAIN q = 1 .. Len(s.stack) + 1 /\ Len(q) = Len(s.stack) + 1
      /\ q[1] = f /\ \A k \in DOMAIN s.stack : k + 1 \in DOMAIN q /\ q[k + 1] = s.stack[k]
  BY <1>2, <1>3, <1>4
<1>6. p = [s EXCEPT !.pc = pc, !.set = 0, !.stack = q]
  BY <1>1, <1>4 DEF Push
<1>7. p \in Local
  <2>1. q \in Seq(Frame) /\ 0 \in Nat
    BY <1>5
  <2>2. QED
    BY <1>6, <2>1 DEF Local
<1>8. Same(s, p) /\ p.pc = pc /\ p.key = s.key /\ p.set = 0 /\ p.stack = q
  BY <1>6 DEF Local, Same
<1>9. QED
  BY <1>1, <1>5, <1>7, <1>8

LEMMA OnCreatedFacts ==
  ASSUME NEW s \in Local, NEW key \in Items, NEW set \in Nat, NEW p, p = OnCreated(s, key, set)
  PROVE  /\ p \in Local /\ Same(s, p) /\ p.pc = "created" /\ p.key = key /\ p.set = set
         /\ p.stack = s.stack
<1>1. p = [s EXCEPT !.pc = "created", !.key = key, !.set = set]
  BY DEF OnCreated
<1>2. "created" \in PC
  BY DEF PC
<1>3. QED
  BY <1>1, <1>2 DEF Local, Same

LEMMA VisitFacts ==
  ASSUME NEW s \in Local, s.stack # << >>, NEW key \in s.stack[1].left, NEW pc \in PC, NEW p,
         p = Visit(s, key, pc)
  PROVE  /\ p \in Local /\ Same(s, p) /\ p.pc = pc /\ p.key = key /\ p.set = s.set
         /\ Len(p.stack) = Len(s.stack) /\ DOMAIN p.stack = DOMAIN s.stack
         /\ p.stack[1].set = s.stack[1].set /\ p.stack[1].all = s.stack[1].all
         /\ p.stack[1].left = s.stack[1].left \ {key}
         /\ \A k \in DOMAIN s.stack \ {1} : p.stack[k] = s.stack[k]
<1>1. s.stack \in Seq(Frame) /\ 1 \in DOMAIN s.stack /\ s.stack[1] \in Frame
  BY DEF Local
<1>2. PICK f : f = [s.stack[1] EXCEPT !.left = s.stack[1].left \ {key}]
  OBVIOUS
<1>3. /\ f \in Frame /\ f.set = s.stack[1].set /\ f.all = s.stack[1].all
      /\ f.left = s.stack[1].left \ {key}
  BY <1>1, <1>2 DEF Frame
<1>4. PICK q : q = [s.stack EXCEPT ![1].left = s.stack[1].left \ {key}]
  OBVIOUS
<1>5. /\ q \in Seq(Frame) /\ Len(q) = Len(s.stack) /\ DOMAIN q = DOMAIN s.stack /\ q[1] = f
      /\ \A k \in DOMAIN s.stack \ {1} : q[k] = s.stack[k]
  <2>1. q = [s.stack EXCEPT ![1] = f]
    BY <1>1, <1>2, <1>4
  <2>2. QED
    BY <1>1, <1>3, <2>1
<1>6. p = [s EXCEPT !.pc = pc, !.key = key, !.stack = q]
  BY <1>4 DEF Visit
<1>7. key \in Items
  BY <1>1 DEF Frame
<1>8. p \in Local
  BY <1>5, <1>6, <1>7 DEF Local
<1>9. Same(s, p) /\ p.pc = pc /\ p.key = key /\ p.set = s.set /\ p.stack = q
  BY <1>6 DEF Local, Same
<1>10. QED
  BY <1>3, <1>5, <1>8, <1>9

\* The innermost loop has ended.
LEMMA DropFacts ==
  ASSUME NEW s \in Local, s.stack # << >>, NEW p, p = [s EXCEPT !.stack = Tail(@)]
  PROVE  /\ p \in Local /\ Same(s, p) /\ p.pc = s.pc /\ p.key = s.key /\ p.set = s.set
         /\ Len(p.stack) = Len(s.stack) - 1 /\ Len(s.stack) \in Nat \ {0}
         /\ DOMAIN p.stack = 1 .. Len(s.stack) - 1
         /\ \A k \in DOMAIN p.stack : k + 1 \in DOMAIN s.stack /\ p.stack[k] = s.stack[k + 1]
<1>1. s.stack \in Seq(Frame)
  BY DEF Local
<1>2. PICK q : q = Tail(s.stack)
  OBVIOUS
<1>3. /\ q \in Seq(Frame) /\ Len(q) = Len(s.stack) - 1 /\ Len(s.stack) \in Nat \ {0}
      /\ DOMAIN q = 1 .. Len(s.stack) - 1
      /\ \A k \in DOMAIN q : k + 1 \in DOMAIN s.stack /\ q[k] = s.stack[k + 1]
  BY <1>1, <1>2
<1>4. p = [s EXCEPT !.stack = q]
  BY <1>2
<1>5. p \in Local
  BY <1>3, <1>4 DEF Local
<1>6. Same(s, p) /\ p.pc = s.pc /\ p.key = s.key /\ p.set = s.set /\ p.stack = q
  BY <1>4 DEF Local, Same
<1>7. QED
  BY <1>3, <1>5, <1>6

\* A call has returned to the loops of clear_recently_added_queue.
LEMMA BackFacts ==
  ASSUME NEW s \in Local, NEW p, p = Back(s)
  PROVE  /\ p \in Local /\ Same(s, p) /\ p.set = s.set /\ p.stack = s.stack
         /\ s.stack = << >> => p.pc = "in" /\ p.key = s.item
         /\ s.stack # << >> => p.pc = "walk" /\ p.key = s.key
<1>1. "in" \in PC /\ "walk" \in PC
  BY DEF PC
<1>2. CASE s.stack = << >>
  <2>1. p = [s EXCEPT !.pc = "in", !.key = s.item]
    BY <1>2 DEF Back
  <2>2. QED
    BY <1>1, <1>2, <2>1 DEF Local, Same
<1>3. CASE s.stack # << >>
  <2>1. p = [s EXCEPT !.pc = "walk"]
    BY <1>3 DEF Back
  <2>2. QED
    BY <1>1, <1>3, <2>1 DEF Local, Same
<1>4. QED
  BY <1>2, <1>3

LEMMA PcFacts ==
  ASSUME NEW s \in Local, NEW pc \in PC, NEW p, p = [s EXCEPT !.pc = pc]
  PROVE  /\ p \in Local /\ Same(s, p) /\ p.pc = pc /\ p.key = s.key /\ p.set = s.set
         /\ p.stack = s.stack
  BY DEF Local, Same

LEMMA SetFacts ==
  ASSUME NEW s \in Local, NEW p, p = [s EXCEPT !.set = 0]
  PROVE  /\ p \in Local /\ Same(s, p) /\ p.pc = s.pc /\ p.key = s.key /\ p.set = 0
         /\ p.stack = s.stack
  BY DEF Local, Same

\* A call of del_keys returns: in a callback, and in the websocket thread.
LEMMA ReturnFacts ==
  ASSUME NEW t, NEW s \in Local, NEW p, p = Return(t, s)
  PROVE  /\ s.stack = << >> /\ t # Websocket => p = Idle
         /\ s.stack # << >> => /\ p \in Local /\ Same(s, p) /\ p.pc = "unwind" /\ p.key = s.key
                               /\ p.set = s.set /\ p.stack = s.stack
  BY PcFacts DEF Return, Unwound, PC

-----------------------------------------------------------------------------
(* The moves of a thread from s to p. *)

Asks(s, p, key, set) ==
  /\ p \in Local /\ Same(s, p) /\ p.pc = "created" /\ p.key = key /\ p.set = set
  /\ p.stack = s.stack

Enters(s, p, set, pc) ==
  /\ p \in Local /\ Same(s, p) /\ p.pc = pc /\ p.key = s.key
  /\ DOMAIN p.stack = 1 .. Len(s.stack) + 1 /\ Len(p.stack) = Len(s.stack) + 1
  /\ p.stack[1] = [set |-> set, all |-> sets[set], left |-> sets[set]]
  /\ \A k \in DOMAIN s.stack : k + 1 \in DOMAIN p.stack /\ p.stack[k + 1] = s.stack[k]

Visits(s, p, key, pc) ==
  /\ p \in Local /\ Same(s, p) /\ p.pc = pc /\ p.key = key
  /\ Len(p.stack) = Len(s.stack) /\ DOMAIN p.stack = DOMAIN s.stack
  /\ p.stack[1].set = s.stack[1].set /\ p.stack[1].all = s.stack[1].all
  /\ p.stack[1].left = s.stack[1].left \ {key}
  /\ \A k \in DOMAIN s.stack \ {1} : p.stack[k] = s.stack[k]

Drops(s, p) ==
  /\ p \in Local /\ Same(s, p)
  /\ Len(p.stack) = Len(s.stack) - 1 /\ Len(s.stack) \in Nat \ {0}
  /\ DOMAIN p.stack = 1 .. Len(s.stack) - 1
  /\ \A k \in DOMAIN p.stack : k + 1 \in DOMAIN s.stack /\ p.stack[k] = s.stack[k + 1]

\* The loops of clear_recently_added_queue go on, or the keys are to be removed.
GoesOn(s, p) ==
  \/ p.stack = << >> /\ p.pc = "in" /\ p.key = s.item
  \/ p.stack # << >> /\ p.pc = "walk"

Chooses(s, p, key, set) ==
  \/ sets[set] # {} /\ Asks(s, p, key, set)
  \/ sets[set] # {} /\ Enters(s, p, set, "walk")
  \/ sets[set] = {} /\ Asks(s, p, key, 0)

\* Only thread t moves.
Moves(t, p) ==
  /\ thread' \in [Threads -> Local]
  /\ thread'[t] = p
  /\ \A u \in Threads : u # t => thread'[u] = thread[u]

LEMMA Moved ==
  ASSUME TypeOK, NEW t \in Threads, NEW p \in Local, Become(t, p)
  PROVE  Moves(t, p)
  BY DEF TypeOK, Become, Moves

LEMMA ThreadTyped ==
  ASSUME TypeOK, NEW t \in Threads
  PROVE  /\ thread[t] \in Local /\ thread[t].stack \in Seq(Frame) /\ thread[t].set \in Nat
         /\ thread[t].item \in Items \cup {NoItem} /\ thread[t].key \in Items \cup {NoItem}
         /\ thread[t].found \in BOOLEAN /\ thread[t].remove \in BOOLEAN
         /\ DOMAIN thread[t].stack = 1 .. Len(thread[t].stack) /\ Len(thread[t].stack) \in Nat
         /\ \A k \in DOMAIN thread[t].stack : thread[t].stack[k] \in Frame
<1>1. thread[t] \in Local
  BY DEF TypeOK
<1>2. thread[t].stack \in Seq(Frame)
  BY <1>1 DEF Local
<1>3. /\ thread[t].set \in Nat /\ thread[t].item \in Items \cup {NoItem}
      /\ thread[t].key \in Items \cup {NoItem}
      /\ thread[t].found \in BOOLEAN /\ thread[t].remove \in BOOLEAN
  BY <1>1 DEF Local
<1>4. QED
  BY <1>1, <1>2, <1>3

LEMMA ThreadNames ==
  Roots \subseteq Threads /\ Websocket \in Threads /\ Websocket \notin Roots
  BY Kinds DEF Threads

LEMMA SetTyped ==
  ASSUME TypeOK
  PROVE  /\ DOMAIN sets = 1 .. Len(sets) /\ Len(sets) \in Nat
         /\ \A n \in DOMAIN sets : n \in Nat /\ n # 0 /\ sets[n] \in SUBSET Items
         /\ \A k \in DOMAIN queue : k \in Items /\ queue[k] \in DOMAIN sets
  BY DEF TypeOK

LEMMA ChooseMove ==
  ASSUME TypeOK, NEW t \in Threads, NEW key \in Items, NEW set \in DOMAIN sets,
         Choose(t, key, set)
  PROVE  \E p \in Local : Moves(t, p) /\ Chooses(thread[t], p, key, set)
<1>1. thread[t] \in Local /\ set \in Nat /\ sets[set] \in SUBSET Items /\ "walk" \in PC
  BY ThreadTyped, SetTyped DEF PC
<1>2. CASE Cardinality(sets[set]) > 1 /\ Become(t, OnCreated(thread[t], key, set))
  <2>1. PICK p : p = OnCreated(thread[t], key, set)
    OBVIOUS
  <2>2. Asks(thread[t], p, key, set)
    BY <1>1, <2>1, OnCreatedFacts DEF Asks
  <2>3. sets[set] # {}
    <3>1. Cardinality({}) = 0
      BY FS_EmptySet
    <3>2. QED
      BY <1>2, <3>1
  <2>4. QED
    BY <1>2, <2>1, <2>2, <2>3, Moved DEF Asks, Chooses
<1>3. CASE sets[set] # {} /\ Become(t, Push(thread[t], set, "walk"))
  <2>1. PICK p : p = Push(thread[t], set, "walk")
    OBVIOUS
  <2>2. Enters(thread[t], p, set, "walk")
    BY <1>1, <2>1, PushFacts DEF Enters
  <2>3. QED
    BY <1>3, <2>1, <2>2, Moved DEF Enters, Chooses
<1>4. CASE sets[set] = {} /\ Become(t, OnCreated(thread[t], key, 0))
  <2>1. PICK p : p = OnCreated(thread[t], key, 0)
    OBVIOUS
  <2>2. Asks(thread[t], p, key, 0)
    BY <1>1, <2>1, OnCreatedFacts DEF Asks
  <2>3. QED
    BY <1>4, <2>1, <2>2, Moved DEF Asks, Chooses
<1>5. QED
  BY <1>2, <1>3, <1>4 DEF Choose

Stays(s, p, pc) ==
  /\ p \in Local /\ Same(s, p) /\ p.pc = pc /\ p.key = s.key /\ p.set = s.set
  /\ p.stack = s.stack

LEMMA StartMove ==
  ASSUME TypeOK, NEW r \in Roots, Start(r)
  PROVE  /\ thread[r].pc = "start" /\ UNCHANGED <<shared, jobs, recorded, events, aux>>
         /\ \E p \in Local : /\ Moves(r, p)
                             /\ \/ Queued(r) /\ Chooses(thread[r], p, r, queue[r])
                                \/ ~Queued(r) /\ p = Idle
<1>1. r \in Threads /\ r \in Items
  BY ThreadNames, Kinds
<1>2. CASE Queued(r)
  BY <1>1, <1>2, ChooseMove, SetTyped DEF Start, At, Queued
<1>3. CASE ~Queued(r)
  BY <1>1, <1>3, IdleLocal, Moved DEF Start, At, Raise
<1>4. QED
  BY <1>2, <1>3 DEF Start, At

LEMMA ChildMove ==
  ASSUME TypeOK, NEW r \in Roots, Child(r), thread[r].key \in Items
  PROVE  /\ thread[r].pc = "child" /\ UNCHANGED <<shared, jobs, recorded, events, aux>>
         /\ \E p \in Local :
              /\ Moves(r, p)
              /\ \/ /\ Queued(thread[r].key)
                    /\ Chooses(thread[r], p, thread[r].key, queue[thread[r].key])
                 \/ ~Queued(thread[r].key) /\ Asks(thread[r], p, thread[r].key, 0)
<1>1. r \in Threads /\ thread[r] \in Local
  BY ThreadNames, ThreadTyped
<1>2. CASE Queued(thread[r].key)
  BY <1>1, <1>2, ChooseMove, SetTyped DEF Child, At, Queued
<1>3. CASE ~Queued(thread[r].key)
  <2>1. PICK p : p = OnCreated(thread[r], thread[r].key, 0)
    OBVIOUS
  <2>2. Asks(thread[r], p, thread[r].key, 0)
    BY <1>1, <2>1, OnCreatedFacts DEF Asks
  <2>3. Become(r, p)
    BY <1>3, <2>1 DEF Child
  <2>4. QED
    BY <1>1, <1>3, <2>2, <2>3, Moved DEF Asks, Child, At
<1>4. QED
  BY <1>2, <1>3 DEF Child, At

LEMMA WalkMove ==
  ASSUME TypeOK, NEW r \in Roots, Walk(r), thread[r].stack # << >>
  PROVE  /\ thread[r].pc = "walk" /\ UNCHANGED <<shared, jobs, recorded, events, aux>>
         /\ \E p \in Local :
              /\ Moves(r, p)
              /\ \/ Changed(thread[r]) /\ p = Idle
                 \/ /\ ~Changed(thread[r]) /\ thread[r].stack[1].left = {}
                    /\ Drops(thread[r], p) /\ GoesOn(thread[r], p)
                 \/ /\ ~Changed(thread[r])
                    /\ \E key \in thread[r].stack[1].left :
                         \/ Len(thread[r].stack) = 1 /\ Visits(thread[r], p, key, "child")
                         \/ /\ Len(thread[r].stack) # 1 /\ p.set = 0
                            /\ Visits(thread[r], p, key, "created")
<1>1. PICK s : s = thread[r]
  OBVIOUS
<1>2. r \in Threads /\ s \in Local /\ 1 \in DOMAIN s.stack /\ s.stack[1] \in Frame
  BY <1>1, ThreadNames, ThreadTyped
<1>3. s.pc = "walk" /\ UNCHANGED <<shared, jobs, recorded, events, aux>>
  BY <1>1 DEF Walk, At
<1>4. CASE Changed(s) /\ Raise(r)
  BY <1>1, <1>2, <1>3, <1>4, IdleLocal, Moved DEF Raise
<1>5. CASE /\ ~Changed(s) /\ s.stack[1].left = {}
           /\ Become(r, Back([s EXCEPT !.stack = Tail(@)]))
  <2>1. PICK q : q = [s EXCEPT !.stack = Tail(@)]
    OBVIOUS
  <2>2. Drops(s, q)
    BY <1>1, <1>2, <2>1, DropFacts DEF Drops
  <2>3. PICK p : p = Back(q)
    OBVIOUS
  <2>4. q \in Local /\ q.item = s.item
    BY <2>2 DEF Drops, Same
  <2>5. /\ p \in Local /\ Same(q, p) /\ p.stack = q.stack
        /\ q.stack = << >> => p.pc = "in" /\ p.key = q.item
        /\ q.stack # << >> => p.pc = "walk" /\ p.key = q.key
    BY <2>3, <2>4, BackFacts
  <2>6. Drops(s, p) /\ GoesOn(s, p)
    BY <2>2, <2>4, <2>5 DEF Drops, GoesOn, Same
  <2>7. Moves(r, p)
    BY <1>2, <1>5, <2>1, <2>3, <2>5, Moved
  <2>8. QED
    BY <1>1, <1>3, <1>5, <2>5, <2>6, <2>7
<1>6. ASSUME NEW key \in s.stack[1].left, ~Changed(s), Len(s.stack) = 1,
             Become(r, Visit(s, key, "child"))
      PROVE  \E p \in Local : Moves(r, p) /\ Visits(s, p, key, "child")
  <2>1. PICK p : p = Visit(s, key, "child")
    OBVIOUS
  <2>2. "child" \in PC
    BY DEF PC
  <2>3. Visits(s, p, key, "child")
    BY <1>1, <1>2, <2>1, <2>2, VisitFacts DEF Visits
  <2>4. QED
    BY <1>2, <1>6, <2>1, <2>3, Moved DEF Visits
<1>7. ASSUME NEW key \in s.stack[1].left, ~Changed(s), Len(s.stack) # 1,
             Become(r, OnCreated(Visit(s, key, "walk"), key, 0))
      PROVE  \E p \in Local : Moves(r, p) /\ Visits(s, p, key, "created") /\ p.set = 0
  <2>1. PICK q : q = Visit(s, key, "walk")
    OBVIOUS
  <2>2. "walk" \in PC /\ key \in Items
    BY <1>2 DEF PC, Frame
  <2>3. Visits(s, q, key, "walk")
    BY <1>1, <1>2, <2>1, <2>2, VisitFacts DEF Visits
  <2>4. PICK p : p = OnCreated(q, key, 0)
    OBVIOUS
  <2>5. Asks(q, p, key, 0)
    <3>1. q \in Local
      BY <2>3 DEF Visits
    <3>2. QED
      BY <2>2, <2>4, <3>1, OnCreatedFacts DEF Asks
  <2>6. p \in Local /\ Visits(s, p, key, "created") /\ p.set = 0
    BY <2>3, <2>5 DEF Visits, Asks, Same
  <2>7. Become(r, p)
    BY <1>7, <2>1, <2>4
  <2>8. QED
    BY <1>2, <2>6, <2>7, Moved
<1>8. QED
  BY <1>1, <1>3, <1>4, <1>5, <1>6, <1>7 DEF Walk

LEMMA CreatedMove ==
  ASSUME TypeOK, NEW r \in Roots, thread[r].pc = "created", NEW p,
         p = Back([thread[r] EXCEPT !.set = 0]), Become(r, p)
  PROVE  p \in Local /\ Moves(r, p) /\ Same(thread[r], p) /\ p.stack = thread[r].stack
         /\ GoesOn(thread[r], p)
<1>1. r \in Threads /\ thread[r] \in Local
  BY ThreadNames, ThreadTyped
<1>2. PICK q : q = [thread[r] EXCEPT !.set = 0]
  OBVIOUS
<1>3. q \in Local /\ Same(thread[r], q) /\ q.stack = thread[r].stack
  BY <1>1, <1>2, SetFacts
<1>4. /\ p \in Local /\ Same(q, p) /\ p.stack = q.stack
      /\ q.stack = << >> => p.pc = "in" /\ p.key = q.item
      /\ q.stack # << >> => p.pc = "walk" /\ p.key = q.key
  BY <1>2, <1>3, BackFacts
<1>5. QED
  BY <1>1, <1>3, <1>4, Moved DEF Same, GoesOn

LEMMA UnwoundFacts ==
  ASSUME TypeOK, NEW t \in Threads
  PROVE  /\ Unwound(t) \in Local
         /\ t # Websocket => Unwound(t) = Idle
         /\ t = Websocket => /\ Unwound(t).pc = "get_job" /\ Unwound(t).item = thread[t].item
                             /\ Unwound(t).remove /\ Unwound(t).stack = << >>
<1>1. CASE t = Websocket
  <2>1. Unwound(t) = [Idle EXCEPT !.pc = "get_job", !.item = thread[t].item, !.remove = TRUE]
    BY <1>1 DEF Unwound
  <2>2. "get_job" \in PC /\ thread[t].item \in Items \cup {NoItem} /\ Idle \in Local
    BY ThreadTyped, IdleLocal DEF PC
  <2>3. QED
    BY <1>1, <2>1, <2>2, IdleLocal DEF Local
<1>2. CASE t # Websocket
  BY <1>2, IdleLocal DEF Unwound
<1>3. QED
  BY <1>1, <1>2

\* What del_keys does in its three places.
DelIn(t, s, p) ==
  /\ s.pc = "in" /\ UNCHANGED <<queue, waiting>>
  /\ \/ Queued(s.key) /\ Stays(s, p, "pop")
     \/ ~Queued(s.key) /\ s.stack = << >> /\ p = Unwound(t)
     \/ ~Queued(s.key) /\ s.stack # << >> /\ Stays(s, p, "unwind")

DelPop(t, s, p) ==
  /\ s.pc = "pop"
  /\ \/ ~Queued(s.key) /\ p = Idle /\ UNCHANGED <<queue, waiting>>
     \/ /\ Queued(s.key) /\ Enters(s, p, queue[s.key], "unwind")
        /\ DOMAIN queue' = DOMAIN queue \ {s.key}
        /\ \A k \in DOMAIN queue' : queue'[k] = queue[k]
        /\ waiting' = IF t = Websocket THEN waiting \ {s.key} ELSE waiting

DelUnwind(t, s, p) ==
  /\ s.pc = "unwind" /\ UNCHANGED <<queue, waiting>>
  /\ \/ Changed(s) /\ p = Idle
     \/ ~Changed(s) /\ s.stack[1].left = {} /\ Len(s.stack) = 1 /\ p = Unwound(t)
     \/ ~Changed(s) /\ s.stack[1].left = {} /\ Len(s.stack) # 1 /\ Drops(s, p) /\ p.pc = "unwind"
     \/ ~Changed(s) /\ \E k \in s.stack[1].left : Visits(s, p, k, "in")

LEMMA DelKeysMove ==
  ASSUME TypeOK, NEW t \in Threads, DelKeys(t), thread[t].pc = "unwind" => thread[t].stack # << >>
  PROVE  /\ UNCHANGED <<sets, jobs, recorded, events, announced, repeated, raced, failed>>
         /\ \E p \in Local : Moves(t, p) /\ (DelIn(t, thread[t], p) \/ DelPop(t, thread[t], p)
                                             \/ DelUnwind(t, thread[t], p))
<1>1. PICK s : s = thread[t]
  OBVIOUS
<1>2. s \in Local /\ (s.stack = << >> \/ s.stack # << >>)
  BY <1>1, ThreadTyped
<1>3. UNCHANGED <<sets, jobs, recorded, events, announced, repeated, raced, failed>>
  BY DEF DelKeys
<1>4. Unwound(t) \in Local /\ Idle \in Local /\ "pop" \in PC /\ "unwind" \in PC /\ "in" \in PC
  BY UnwoundFacts, IdleLocal DEF PC
<1>5. CASE /\ At(t, "in") /\ UNCHANGED <<queue, waiting>>
           /\ Become(t, IF Queued(s.key) THEN [s EXCEPT !.pc = "pop"] ELSE Return(t, s))
  <2>1. CASE Queued(s.key)
    <3>1. PICK p : p = [s EXCEPT !.pc = "pop"]
      OBVIOUS
    <3>2. Stays(s, p, "pop")
      BY <1>2, <1>4, <3>1, PcFacts DEF Stays
    <3>3. p \in Local /\ Moves(t, p)
      BY <1>5, <2>1, <3>1, <3>2, Moved DEF Stays
    <3>4. QED
      BY <1>1, <1>3, <1>5, <2>1, <3>2, <3>3 DEF DelIn, At
  <2>2. CASE ~Queued(s.key) /\ s.stack = << >>
    BY <1>1, <1>3, <1>4, <1>5, <2>2, Moved DEF DelIn, At, Return
  <2>3. CASE ~Queued(s.key) /\ s.stack # << >>
    <3>1. PICK p : p = Return(t, s)
      OBVIOUS
    <3>2. Stays(s, p, "unwind")
      BY <1>2, <2>3, <3>1, ReturnFacts DEF Stays
    <3>3. p \in Local /\ Moves(t, p)
      BY <1>5, <2>3, <3>1, <3>2, Moved DEF Stays
    <3>4. QED
      BY <1>1, <1>3, <1>5, <2>3, <3>2, <3>3 DEF DelIn, At
  <2>4. QED
    BY <2>1, <2>2, <2>3
<1>6. CASE At(t, "pop") /\ ~Queued(s.key) /\ Raise(t) /\ UNCHANGED <<queue, waiting>>
  BY <1>1, <1>3, <1>4, <1>6, Moved DEF DelPop, At, Raise
<1>7. CASE /\ At(t, "pop") /\ Queued(s.key)
           /\ queue' = Restrict(queue, DOMAIN queue \ {s.key})
           /\ waiting' = IF t = Websocket THEN waiting \ {s.key} ELSE waiting
           /\ Become(t, Push(s, queue[s.key], "unwind"))
  <2>1. PICK n : n = queue[s.key]
    OBVIOUS
  <2>2. n \in Nat /\ sets[n] \in SUBSET Items
    BY <1>7, <2>1, SetTyped DEF Queued
  <2>3. PICK p : p = Push(s, n, "unwind")
    OBVIOUS
  <2>4. Enters(s, p, n, "unwind")
    <3>1. s \in Local /\ "unwind" \in PC
      BY <1>2, <1>4
    <3>2. QED
      BY <2>2, <2>3, <3>1, PushFacts DEF Enters
  <2>5. p \in Local /\ Moves(t, p)
    BY <1>7, <2>1, <2>3, <2>4, Moved DEF Enters
  <2>6. /\ DOMAIN queue' = DOMAIN queue \ {s.key}
        /\ \A k \in DOMAIN queue' : queue'[k] = queue[k]
    BY <1>7 DEF Restrict
  <2>7. QED
    BY <1>1, <1>3, <1>7, <2>1, <2>4, <2>5, <2>6 DEF DelPop, At
<1>8. CASE At(t, "unwind") /\ UNCHANGED <<queue, waiting>> /\ Changed(s) /\ Raise(t)
  BY <1>1, <1>3, <1>4, <1>8, Moved DEF DelUnwind, At, Raise
<1>9. CASE /\ At(t, "unwind") /\ UNCHANGED <<queue, waiting>> /\ ~Changed(s)
           /\ s.stack[1].left = {} /\ Become(t, Return(t, [s EXCEPT !.stack = Tail(@)]))
  <2>1. PICK q : q = [s EXCEPT !.stack = Tail(@)]
    OBVIOUS
  <2>2. s.stack # << >>
    BY <1>1, <1>9 DEF At
  <2>3. Drops(s, q)
    BY <1>2, <2>1, <2>2, DropFacts DEF Drops
  <2>4. q \in Local /\ q.stack \in Seq(Frame)
    BY <2>3 DEF Drops, Local
  <2>5. q.stack = << >> <=> Len(s.stack) = 1
    <3>1. Len(q.stack) = Len(s.stack) - 1 /\ Len(s.stack) \in Nat
      BY <2>3 DEF Drops
    <3>2. q.stack = << >> <=> Len(q.stack) = 0
      BY <2>4
    <3>3. QED
      BY <3>1, <3>2
  <2>6. CASE q.stack = << >>
    BY <1>1, <1>3, <1>4, <1>9, <2>1, <2>5, <2>6, Moved DEF DelUnwind, At, Return
  <2>7. CASE q.stack # << >>
    <3>1. PICK p : p = Return(t, q)
      OBVIOUS
    <3>2. Stays(q, p, "unwind")
      BY <2>4, <2>7, <3>1, ReturnFacts DEF Stays
    <3>3. Drops(s, p) /\ p.pc = "unwind" /\ p \in Local
      BY <2>3, <3>2 DEF Drops, Stays, Same
    <3>4. Moves(t, p)
      BY <1>9, <2>1, <3>1, <3>3, Moved
    <3>5. QED
      BY <1>1, <1>3, <1>9, <2>5, <2>7, <3>3, <3>4 DEF DelUnwind, At
  <2>8. QED
    BY <2>6, <2>7
<1>10. ASSUME At(t, "unwind"), UNCHANGED <<queue, waiting>>, ~Changed(s), NEW k \in s.stack[1].left,
              Become(t, Visit(s, k, "in"))
       PROVE  \E p \in Local : Moves(t, p) /\ DelUnwind(t, s, p)
  <2>1. PICK p : p = Visit(s, k, "in")
    OBVIOUS
  <2>2. s.stack # << >>
    BY <1>1, <1>10 DEF At
  <2>3. Visits(s, p, k, "in")
    BY <1>2, <1>4, <2>1, <2>2, VisitFacts DEF Visits
  <2>4. p \in Local /\ Moves(t, p)
    BY <1>10, <2>1, <2>3, Moved DEF Visits
  <2>5. QED
    BY <1>1, <1>10, <2>3, <2>4 DEF DelUnwind, At
<1>11. QED
  BY <1>1, <1>3, <1>5, <1>6, <1>7, <1>8, <1>9, <1>10 DEF DelKeys

-----------------------------------------------------------------------------
(* Sets, stacks and types. *)

LEMMA TreeFacts ==
  ASSUME NEW r \in Roots
  PROVE  /\ r \in Tree(r) /\ Tree(r) \subseteq Items /\ Members(r) \subseteq Tree(r)
         /\ \A k \in Tree(r) : Members(k) \subseteq Tree(r)
         /\ \A i : i \in Tree(r) <=> i \in Items /\ Root(i) = r
  BY Kinds, RootFacts, MemberFacts DEF Tree

\* What CallbackSound asks of a stack while the callback announces.
Announces(r, a, owner) ==
  /\ Len(a) <= 2
  /\ Len(a) = 1 => owner[a[1].set] = r
  /\ Len(a) = 2 => owner[a[2].set] = r /\ owner[a[1].set] \in Members(r)

LEMMA IdleSound == \A r, owner : CallbackSound(r, Idle, owner)
<1>1. Idle.pc = "idle" /\ Idle.stack = << >>
  BY IdleLocal
<1>2. QED
  BY <1>1 DEF CallbackSound, Announcing

LEMMA AsksSound ==
  ASSUME TypeOK, NEW owner, NEW r \in Roots, NEW s \in Local, NEW p, NEW key \in Tree(r), NEW set,
         CallbackSound(r, s, owner), s.pc # "idle", Announces(r, s.stack, owner),
         Asks(s, p, key, set), set # 0 => set \in DOMAIN sets /\ owner[set] = key,
         key \in Leaves => set = 0
  PROVE  CallbackSound(r, p, owner)
  BY DEF CallbackSound, Asks, Same, Announces, Announcing

LEMMA EntersSound ==
  ASSUME TypeOK, NEW owner, NEW r \in Roots, NEW s \in Local, NEW p, NEW key \in Tree(r),
         NEW set \in DOMAIN sets, NEW pc \in {"walk", "unwind"},
         CallbackSound(r, s, owner), s.pc # "idle", Enters(s, p, set, pc), owner[set] = key,
         pc = "walk" => \/ s.stack = << >> /\ key = r
                        \/ Len(s.stack) = 1 /\ key \in Members(r) /\ owner[s.stack[1].set] = r
  PROVE  CallbackSound(r, p, owner)
<1>1. /\ p.pc = pc /\ p.item = r /\ p.stack \in Seq(Frame) /\ s.stack \in Seq(Frame)
      /\ DOMAIN p.stack = 1 .. Len(s.stack) + 1 /\ Len(p.stack) = Len(s.stack) + 1
      /\ p.stack[1] = [set |-> set, all |-> sets[set], left |-> sets[set]]
      /\ \A k \in DOMAIN s.stack : k + 1 \in DOMAIN p.stack /\ p.stack[k + 1] = s.stack[k]
  BY DEF Enters, Same, CallbackSound, Local
<1>2. FrameSound(r, p.stack[1], owner)
  BY <1>1 DEF FrameSound
<1>3. ASSUME NEW k \in DOMAIN p.stack PROVE FrameSound(r, p.stack[k], owner)
  <2>1. CASE k = 1
    BY <1>2, <2>1
  <2>2. CASE k # 1
    <3>1. DOMAIN s.stack = 1 .. Len(s.stack) /\ Len(s.stack) \in Nat
      BY <1>1
    <3>2. PICK j \in DOMAIN s.stack : k = j + 1
      <4>1. k \in 1 .. Len(s.stack) + 1
        BY <1>1
      <4>2. k - 1 \in 1 .. Len(s.stack) /\ k = (k - 1) + 1
        BY <2>2, <3>1, <4>1
      <4>3. QED
        BY <3>1, <4>2
    <3>3. p.stack[k] = s.stack[j]
      BY <1>1, <3>2
    <3>4. QED
      BY <3>3 DEF CallbackSound
  <2>3. QED
    BY <2>1, <2>2
<1>4. p.stack # << >>
  BY <1>1
<1>5. pc = "walk" => Announces(r, p.stack, owner)
  <2>1. CASE pc = "walk" /\ s.stack = << >>
    <3>1. Len(p.stack) = 1
      BY <1>1, <2>1
    <3>2. key = r
      BY <2>1
    <3>3. QED
      BY <1>1, <3>1, <3>2 DEF Announces
  <2>2. CASE pc = "walk" /\ s.stack # << >>
    <3>1. Len(s.stack) = 1 /\ key \in Members(r) /\ owner[s.stack[1].set] = r
      BY <2>2
    <3>2. Len(p.stack) = 2 /\ p.stack[2] = s.stack[1]
      BY <1>1, <3>1
    <3>3. QED
      BY <1>1, <3>1, <3>2 DEF Announces
  <2>3. QED
    BY <2>1, <2>2
<1>6. QED
  BY <1>1, <1>3, <1>4, <1>5 DEF CallbackSound, Announces, Announcing

LEMMA VisitsSound ==
  ASSUME TypeOK, NEW owner, NEW r \in Roots, NEW s \in Local, NEW p,
         s.stack # << >>, NEW key \in s.stack[1].left, key \in Tree(r),
         NEW pc \in {"child", "created", "in"}, CallbackSound(r, s, owner), s.pc # "idle",
         Visits(s, p, key, pc), pc # "in" => Announcing(s),
         pc = "child" => Len(s.stack) = 1 /\ key \in Members(r),
         pc = "created" => p.set = 0
  PROVE  CallbackSound(r, p, owner)
<1>1. /\ p.pc = pc /\ p.item = r /\ p.key = key
      /\ DOMAIN p.stack = DOMAIN s.stack /\ Len(p.stack) = Len(s.stack)
      /\ p.stack[1].set = s.stack[1].set /\ p.stack[1].all = s.stack[1].all
      /\ p.stack[1].left = s.stack[1].left \ {key}
      /\ \A k \in DOMAIN s.stack \ {1} : p.stack[k] = s.stack[k]
      /\ p.stack \in Seq(Frame) /\ s.stack \in Seq(Frame)
  BY DEF Visits, Same, CallbackSound, Local
<1>2. 1 \in DOMAIN s.stack
  BY <1>1
<1>3. ASSUME NEW k \in DOMAIN p.stack PROVE FrameSound(r, p.stack[k], owner)
  <2>1. FrameSound(r, s.stack[k], owner)
    BY <1>1 DEF CallbackSound
  <2>2. CASE k = 1
    BY <1>1, <2>1, <2>2 DEF FrameSound
  <2>3. CASE k # 1
    BY <1>1, <2>1, <2>3
  <2>4. QED
    BY <2>2, <2>3
<1>4. pc # "in" => Announces(r, p.stack, owner)
  <2>1. ASSUME pc # "in" PROVE Announces(r, p.stack, owner)
    <3>1. Announces(r, s.stack, owner)
      BY <2>1 DEF CallbackSound, Announces
    <3>2. Len(s.stack) = 2 => p.stack[2] = s.stack[2]
      BY <1>1
    <3>3. QED
      BY <1>1, <3>1, <3>2 DEF Announces
  <2>2. QED
    BY <2>1
<1>5. QED
  BY <1>1, <1>3, <1>4 DEF CallbackSound, Announces, Announcing

LEMMA DropsSound ==
  ASSUME TypeOK, NEW owner, NEW r \in Roots, NEW s \in Local, NEW p,
         CallbackSound(r, s, owner), s.pc # "idle", Drops(s, p),
         \/ Announcing(s) /\ GoesOn(s, p)
         \/ p.pc = "unwind" /\ Len(s.stack) # 1
  PROVE  CallbackSound(r, p, owner)
<1>1. /\ p.item = r /\ s.item = r /\ p.stack \in Seq(Frame) /\ s.stack \in Seq(Frame)
      /\ Len(p.stack) = Len(s.stack) - 1 /\ Len(s.stack) \in Nat \ {0}
      /\ DOMAIN p.stack = 1 .. Len(s.stack) - 1
      /\ \A k \in DOMAIN p.stack : k + 1 \in DOMAIN s.stack /\ p.stack[k] = s.stack[k + 1]
  BY DEF Drops, Same, CallbackSound, Local
<1>2. ASSUME NEW k \in DOMAIN p.stack PROVE FrameSound(r, p.stack[k], owner)
  BY <1>1 DEF CallbackSound
<1>3. CASE p.pc = "unwind" /\ Len(s.stack) # 1
  <2>1. p.stack # << >>
    <3>1. Len(p.stack) # 0
      BY <1>1, <1>3
    <3>2. QED
      BY <3>1
  <2>2. QED
    BY <1>1, <1>2, <1>3, <2>1 DEF CallbackSound, Announcing
<1>4. CASE Announcing(s) /\ GoesOn(s, p)
  <2>1. Announces(r, s.stack, owner)
    BY <1>4 DEF CallbackSound, Announces
  <2>2. Len(p.stack) <= 1
    BY <1>1, <2>1 DEF Announces
  <2>3. ASSUME Len(p.stack) = 1 PROVE p.stack[1] = s.stack[2] /\ Len(s.stack) = 2
    <3>1. Len(p.stack) = Len(s.stack) - 1 /\ Len(s.stack) \in Nat
      BY <1>1
    <3>2. Len(s.stack) = 2
      <4>1. PICK n \in Nat : n = Len(s.stack)
        BY <3>1
      <4>2. n - 1 = 1
        BY <2>3, <3>1, <4>1
      <4>3. QED
        BY <4>1, <4>2
    <3>3. 1 \in DOMAIN p.stack
      BY <1>1, <3>2
    <3>4. QED
      BY <1>1, <3>2, <3>3
  <2>4. Announces(r, p.stack, owner)
    BY <2>1, <2>2, <2>3 DEF Announces
  <2>5. r \in Tree(r)
    BY TreeFacts
  <2>6. QED
    BY <1>1, <1>2, <1>4, <2>4, <2>5 DEF CallbackSound, Announces, Announcing, GoesOn
<1>5. QED
  BY <1>3, <1>4

\* A call returns to the loops, the stack being what it was.
LEMMA GoesOnSound ==
  ASSUME NEW owner, NEW r \in Roots, NEW s \in Local, NEW p,
         CallbackSound(r, s, owner), Announcing(s), Same(s, p), p.stack = s.stack, GoesOn(s, p)
  PROVE  CallbackSound(r, p, owner)
<1>1. r \in Tree(r)
  BY TreeFacts
<1>2. QED
  BY <1>1 DEF CallbackSound, Announcing, GoesOn, Same

LEMMA StaysSound ==
  ASSUME NEW owner, NEW r \in Roots, NEW s \in Local, NEW p, NEW pc \in {"pop", "unwind"},
         CallbackSound(r, s, owner), s.pc = "in", Stays(s, p, pc),
         pc = "unwind" => s.stack # << >>
  PROVE  CallbackSound(r, p, owner)
  BY DEF CallbackSound, Announcing, Stays, Same

\* A step of a callback, which changes no set.
LEMMA CallbackOwners ==
  ASSUME TypeOK, NEW owner, Owners(owner), NEW r \in Roots, NEW p, Moves(r, p),
         CallbackSound(r, p, owner), UNCHANGED sets, jobs' \subseteq jobs,
         DOMAIN queue' \subseteq DOMAIN queue, \A k \in DOMAIN queue' : queue'[k] = queue[k]
  PROVE  Owners(owner)'
<1>1. owner \in [DOMAIN sets -> Items]' /\ \A n \in DOMAIN sets' : sets'[n] \subseteq Members(owner[n])
  BY DEF Owners
<1>2. ASSUME NEW k \in DOMAIN queue'
      PROVE  /\ queue'[k] \in DOMAIN sets' /\ owner[queue'[k]] = k
             /\ k \in Roots \/ Contents(k)' # {}
  BY DEF Owners, Contents
<1>3. ASSUME NEW u \in Roots PROVE CallbackSound(u, thread[u], owner)'
  <2>1. CASE u = r
    BY <2>1 DEF CallbackSound, FrameSound, Moves, Announcing
  <2>2. CASE u # r
    <3>1. thread'[u] = thread[u] /\ CallbackSound(u, thread[u], owner)
      BY <2>2, ThreadNames DEF Moves, Owners
    <3>2. QED
      BY <3>1 DEF CallbackSound, FrameSound
  <2>3. QED
    BY <2>1, <2>2
<1>4. WebsocketSound(thread[Websocket], owner)'
  <2>1. thread'[Websocket] = thread[Websocket] /\ WebsocketSound(thread[Websocket], owner)
    BY ThreadNames DEF Moves, Owners
  <2>2. TodoSound(thread[Websocket])' <=> TodoSound(thread[Websocket])
    BY <2>1 DEF TodoSound
  <2>3. QED
    BY <2>1, <2>2 DEF WebsocketSound, Queued, Contents
<1>5. QED
  BY <1>1, <1>2, <1>3, <1>4 DEF Owners

\* What is known of a callback that is at work.
LEMMA Running ==
  ASSUME TypeOK, NEW owner, Owners(owner), NEW r \in Roots, thread[r].pc # "idle"
  PROVE  /\ thread[r] \in Local /\ CallbackSound(r, thread[r], owner) /\ r \in Threads
         /\ thread[r].item = r /\ thread[r].stack \in Seq(Frame)
         /\ \A k \in DOMAIN thread[r].stack :
              /\ FrameSound(r, thread[r].stack[k], owner)
              /\ thread[r].stack[k].left \subseteq Tree(r)
<1>1. thread[r] \in Local /\ CallbackSound(r, thread[r], owner) /\ r \in Threads
  BY ThreadNames, ThreadTyped DEF Owners
<1>2. thread[r].item = r /\ thread[r].stack \in Seq(Frame)
  BY <1>1 DEF CallbackSound, Local
<1>3. ASSUME NEW k \in DOMAIN thread[r].stack
      PROVE  /\ FrameSound(r, thread[r].stack[k], owner)
             /\ thread[r].stack[k].left \subseteq Tree(r)
  <2>1. PICK f : f = thread[r].stack[k]
    OBVIOUS
  <2>2. FrameSound(r, f, owner)
    BY <1>1, <2>1 DEF CallbackSound
  <2>3. f.left \subseteq sets[f.set] /\ owner[f.set] \in Tree(r) /\ f.set \in DOMAIN sets
    BY <2>2 DEF FrameSound
  <2>4. sets[f.set] \subseteq Members(owner[f.set])
    BY <2>3 DEF Owners
  <2>5. QED
    BY <2>1, <2>2, <2>3, <2>4, TreeFacts
<1>4. QED
  BY <1>1, <1>2, <1>3

\* A queued key's set is its own.
LEMMA QueuedFacts ==
  ASSUME TypeOK, NEW owner, Owners(owner), NEW k, Queued(k)
  PROVE  /\ k \in Items /\ queue[k] \in DOMAIN sets /\ queue[k] # 0 /\ owner[queue[k]] = k
         /\ Contents(k) = sets[queue[k]] /\ Contents(k) \subseteq Members(k)
         /\ k \in Roots \/ Contents(k) # {}
  BY SetTyped DEF Owners, Queued, Contents

LEMMA ChoosesSound ==
  ASSUME TypeOK, NEW owner, Owners(owner), NEW r \in Roots, NEW key, Queued(key), NEW p,
         Chooses(thread[r], p, key, queue[key]),
         \/ thread[r].pc = "start" /\ key = r
         \/ thread[r].pc = "child" /\ key = thread[r].key
  PROVE  CallbackSound(r, p, owner)
<1>1. PICK s : s = thread[r]
  OBVIOUS
<1>2. s \in Local /\ CallbackSound(r, s, owner) /\ s.pc # "idle" /\ s.pc \in {"start", "child"}
  BY <1>1, Running
<1>3. Announces(r, s.stack, owner)
  BY <1>2 DEF CallbackSound, Announces, Announcing
<1>4. PICK n : n = queue[key]
  OBVIOUS
<1>5. n \in DOMAIN sets /\ n # 0 /\ owner[n] = key
  BY <1>4, QueuedFacts
<1>6. key \in Tree(r) /\ key \notin Leaves
  <2>1. CASE key = r
    BY <2>1, TreeFacts, Kinds
  <2>2. CASE key \in Members(r)
    BY <2>2, TreeFacts, MemberFacts, Kinds
  <2>3. QED
    BY <1>1, <1>2, <2>1, <2>2 DEF CallbackSound
<1>7. \/ s.stack = << >> /\ key = r
      \/ Len(s.stack) = 1 /\ key \in Members(r) /\ owner[s.stack[1].set] = r
  BY <1>1, <1>2, <1>3 DEF CallbackSound, Announces
<1>8. CASE Asks(s, p, key, n)
  BY <1>2, <1>3, <1>5, <1>6, <1>8, AsksSound
<1>9. CASE Enters(s, p, n, "walk")
  BY <1>2, <1>5, <1>6, <1>7, <1>9, EntersSound
<1>10. CASE Asks(s, p, key, 0)
  BY <1>2, <1>3, <1>6, <1>10, AsksSound
<1>11. QED
  BY <1>1, <1>4, <1>8, <1>9, <1>10 DEF Chooses

LEMMA StartStep ==
  ASSUME TypeOK, NEW owner, Owners(owner), NEW r \in Roots, Start(r)
  PROVE  TypeOK' /\ Owners(owner)'
<1>1. PICK p \in Local : /\ Moves(r, p)
                         /\ \/ Queued(r) /\ Chooses(thread[r], p, r, queue[r])
                            \/ ~Queued(r) /\ p = Idle
  BY StartMove
<1>2. thread[r].pc = "start" /\ UNCHANGED <<shared, jobs, recorded, events, aux>> /\ r \in Threads
  BY StartMove, ThreadNames
<1>3. CallbackSound(r, p, owner)
  BY <1>1, <1>2, ChoosesSound, IdleSound
<1>4. Owners(owner)'
  BY <1>1, <1>2, <1>3, CallbackOwners DEF shared
<1>5. TypeOK'
  BY <1>1, <1>2 DEF TypeOK, Moves, shared, aux
<1>6. QED
  BY <1>4, <1>5

\* The season that has been come to.
LEMMA ChildKey ==
  ASSUME TypeOK, NEW owner, Owners(owner), NEW r \in Roots, thread[r].pc = "child"
  PROVE  /\ thread[r].key \in Members(r) /\ thread[r].key \in Middles /\ thread[r].key \in Items
         /\ thread[r].key \in Tree(r) /\ Len(thread[r].stack) = 1
         /\ owner[thread[r].stack[1].set] = r
<1>1. CallbackSound(r, thread[r], owner)
  BY Running
<1>2. QED
  BY <1>1, MemberFacts, TreeFacts, Kinds DEF CallbackSound, Announcing

LEMMA ChildStep ==
  ASSUME TypeOK, NEW owner, Owners(owner), NEW r \in Roots, Child(r)
  PROVE  TypeOK' /\ Owners(owner)'
<1>1. thread[r].pc = "child"
  BY DEF Child, At
<1>2. thread[r].key \in Items /\ thread[r].key \in Tree(r)
  BY <1>1, ChildKey
<1>3. PICK p \in Local :
        /\ Moves(r, p)
        /\ \/ /\ Queued(thread[r].key)
              /\ Chooses(thread[r], p, thread[r].key, queue[thread[r].key])
           \/ ~Queued(thread[r].key) /\ Asks(thread[r], p, thread[r].key, 0)
  BY <1>2, ChildMove
<1>4. UNCHANGED <<shared, jobs, recorded, events, aux>> /\ r \in Threads
  BY <1>2, ChildMove, ThreadNames
<1>5. CallbackSound(r, p, owner)
  <2>1. CASE Queued(thread[r].key)
    BY <1>1, <1>3, <2>1, ChoosesSound
  <2>2. CASE ~Queued(thread[r].key)
    <3>1. PICK s : s = thread[r]
      OBVIOUS
    <3>2. s \in Local /\ CallbackSound(r, s, owner) /\ s.pc # "idle" /\ Announces(r, s.stack, owner)
      BY <1>1, <3>1, Running DEF CallbackSound, Announces, Announcing
    <3>3. PICK key \in Tree(r) : key = s.key
      BY <1>2, <3>1
    <3>4. Asks(s, p, key, 0)
      BY <1>3, <2>2, <3>1, <3>3
    <3>5. QED
      BY <3>2, <3>4, AsksSound
  <2>3. QED
    BY <2>1, <2>2
<1>6. Owners(owner)'
  BY <1>3, <1>4, <1>5, CallbackOwners DEF shared
<1>7. TypeOK'
  BY <1>3, <1>4 DEF TypeOK, Moves, shared, aux
<1>8. QED
  BY <1>6, <1>7

LEMMA WalkStep ==
  ASSUME TypeOK, NEW owner, Owners(owner), NEW r \in Roots, Walk(r)
  PROVE  TypeOK' /\ Owners(owner)'
<1>1. PICK s : s = thread[r]
  OBVIOUS
<1>2. s.pc = "walk" /\ r \in Threads
  BY <1>1, ThreadNames DEF Walk, At
<1>3. s \in Local /\ CallbackSound(r, s, owner) /\ s.stack \in Seq(Frame)
  BY <1>1, <1>2, Running
<1>4. s.stack # << >> /\ Announces(r, s.stack, owner) /\ Announcing(s)
  BY <1>2, <1>3 DEF CallbackSound, Announces, Announcing
<1>5. 1 \in DOMAIN s.stack
  BY <1>3, <1>4
<1>6. UNCHANGED <<shared, jobs, recorded, events, aux>>
  BY <1>1, <1>4, WalkMove
<1>7. PICK p \in Local :
        /\ Moves(r, p)
        /\ \/ Changed(s) /\ p = Idle
           \/ ~Changed(s) /\ s.stack[1].left = {} /\ Drops(s, p) /\ GoesOn(s, p)
           \/ /\ ~Changed(s)
              /\ \E key \in s.stack[1].left :
                   \/ Len(s.stack) = 1 /\ Visits(s, p, key, "child")
                   \/ Len(s.stack) # 1 /\ p.set = 0 /\ Visits(s, p, key, "created")
  BY <1>1, <1>4, WalkMove
<1>8. CallbackSound(r, p, owner)
  <2>1. CASE p = Idle
    BY <2>1, IdleSound
  <2>2. CASE Drops(s, p) /\ GoesOn(s, p)
    BY <1>2, <1>3, <1>4, <2>2, DropsSound
  <2>3. ASSUME NEW key \in s.stack[1].left,
               \/ Len(s.stack) = 1 /\ Visits(s, p, key, "child")
               \/ Len(s.stack) # 1 /\ p.set = 0 /\ Visits(s, p, key, "created")
        PROVE  CallbackSound(r, p, owner)
    <3>1. key \in Tree(r) /\ FrameSound(r, s.stack[1], owner)
      BY <1>1, <1>2, <1>5, Running
    <3>2. Len(s.stack) = 1 => key \in Members(r)
      BY <1>4, <3>1 DEF FrameSound, Announces, Owners
    <3>3. QED
      BY <1>2, <1>3, <1>4, <2>3, <3>1, <3>2, VisitsSound
  <2>4. QED
    BY <1>7, <2>1, <2>2, <2>3
<1>9. Owners(owner)'
  BY <1>6, <1>7, <1>8, CallbackOwners DEF shared
<1>10. TypeOK'
  BY <1>6, <1>7 DEF TypeOK, Moves, shared, aux
<1>11. QED
  BY <1>9, <1>10

\* on_created: the keys it announces, and what it leaves.
LEMMA AskedKeys ==
  ASSUME TypeOK, NEW owner, Owners(owner), NEW r \in Roots, thread[r].pc = "created"
  PROVE  /\ thread[r].key \in Tree(r) /\ thread[r].key \in Items
         /\ Children(thread[r]) \subseteq Members(thread[r].key)
         /\ Children(thread[r]) \subseteq Tree(r) /\ Children(thread[r]) \subseteq Items
         /\ thread[r].key \in Leaves => Children(thread[r]) = {}
<1>1. PICK s : s = thread[r]
  OBVIOUS
<1>2. CallbackSound(r, s, owner) /\ s.pc = "created"
  BY <1>1, Running
<1>3. /\ s.key \in Tree(r)
      /\ s.key \in Leaves => s.set = 0
      /\ s.set # 0 => s.set \in DOMAIN sets /\ owner[s.set] = s.key
  BY <1>2 DEF CallbackSound
<1>4. Children(s) \subseteq Members(s.key)
  BY <1>3 DEF Children, Owners
<1>5. QED
  BY <1>1, <1>3, <1>4, TreeFacts, MemberFacts DEF Children

\* What on_created does to the tables and to what is announced.
LEMMA CreatedEffect ==
  ASSUME TypeOK, NEW owner, Owners(owner), NEW r \in Roots, Created(r)
  PROVE  /\ thread[r].pc = "created" /\ UNCHANGED <<shared, jobs, events, raced>>
         /\ waiting' = waiting \ Covered(thread[r].key, Children(thread[r]))
         /\ announced' \subseteq announced \cup {thread[r].key} \cup Children(thread[r])
         /\ announced \subseteq announced' /\ repeated \subseteq repeated'
         /\ recorded \subseteq recorded'
         /\ recorded' \subseteq recorded \cup {thread[r].key} \cup Children(thread[r])
         /\ announced' \ announced \subseteq recorded' \cup failed'
         /\ \/ repeated' = repeated
            \/ /\ repeated' = repeated \cup ({thread[r].key} \cap announced)
               /\ thread[r].set = 0 /\ thread[r].key \notin recorded
               /\ announced' = announced \cup {thread[r].key}
         /\ \E p \in Local :
              /\ Moves(r, p)
              /\ \/ /\ UNCHANGED failed /\ Same(thread[r], p)
                    /\ p.stack = thread[r].stack /\ GoesOn(thread[r], p)
                 \/ /\ p = Idle
                    /\ failed \cup (waiting' \cap Tree(r)) \subseteq failed'
                    /\ failed' \subseteq failed \cup Tree(r) /\ failed' \cap Tree(r) # {}
<1>1. PICK s : s = thread[r]
  OBVIOUS
<1>2. s.pc = "created" /\ UNCHANGED <<shared, jobs, events, raced>> /\ r \in Threads
  BY <1>1, ThreadNames DEF Created, At
<1>3. PICK children : children = Children(s)
  OBVIOUS
<1>4. PICK again \in BOOLEAN : again = (s.set = 0 /\ s.key \in recorded)
  OBVIOUS
<1>5. /\ announced' = IF again THEN announced ELSE announced \cup {s.key} \cup children
      /\ repeated' = IF again \/ s.set # 0 THEN repeated
                     ELSE repeated \cup ({s.key} \cap announced)
      /\ waiting' = waiting \ Covered(s.key, children)
  BY <1>1, <1>3, <1>4 DEF Created, Children
<1>6. PICK all : all = {s.key} \cup children
  OBVIOUS
<1>7. \/ /\ recorded' = recorded \cup all
         /\ Become(r, Back([s EXCEPT !.set = 0]))
         /\ UNCHANGED failed
      \/ /\ \E done \in SUBSET all :
              /\ all \ done # {} /\ recorded' = recorded \cup done
              /\ failed' = failed \cup (all \ done) \cup (waiting' \cap Tree(r))
         /\ Raise(r)
  <2>1. \/ /\ recorded' = recorded \cup all
           /\ Become(r, Back([s EXCEPT !.set = 0]))
           /\ UNCHANGED failed
        \/ /\ \E done \in SUBSET all :
                /\ done = {} \/ (all \ done) \cap Unavailable # {}
                /\ recorded' = recorded \cup done
                /\ failed' = failed \cup (all \ done) \cup (waiting' \cap Tree(r))
           /\ Raise(r)
    BY <1>1, <1>3, <1>6 DEF Created, Children, Recorded
  <2>2. all # {}
    BY <1>6
  <2>3. QED
    BY <2>1, <2>2
<1>8. all \subseteq Tree(r) /\ (s.set = 0 => children = {})
  BY <1>1, <1>2, <1>3, <1>6, AskedKeys DEF Children
<1>9. /\ recorded \subseteq recorded' /\ recorded' \subseteq recorded \cup all
      /\ all \subseteq recorded' \cup failed'
  BY <1>7
<1>10. /\ announced \subseteq announced' /\ announced' \subseteq announced \cup all
       /\ repeated \subseteq repeated' /\ announced' \ announced \subseteq recorded' \cup failed'
  BY <1>5, <1>6, <1>9
<1>11. \/ repeated' = repeated
       \/ /\ repeated' = repeated \cup ({s.key} \cap announced)
          /\ s.set = 0 /\ s.key \notin recorded /\ announced' = announced \cup {s.key}
  BY <1>4, <1>5, <1>8
<1>12. \E p \in Local :
         /\ Moves(r, p)
         /\ \/ UNCHANGED failed /\ Same(s, p) /\ p.stack = s.stack /\ GoesOn(s, p)
            \/ /\ p = Idle
               /\ failed \cup (waiting' \cap Tree(r)) \subseteq failed'
               /\ failed' \subseteq failed \cup Tree(r) /\ failed' \cap Tree(r) # {}
  <2>1. CASE Become(r, Back([s EXCEPT !.set = 0])) /\ UNCHANGED failed
    BY <1>1, <1>2, <2>1, CreatedMove
  <2>2. CASE /\ \E done \in SUBSET all :
                  all \ done # {} /\ failed' = failed \cup (all \ done) \cup (waiting' \cap Tree(r))
             /\ Raise(r)
    <3>1. /\ failed \cup (waiting' \cap Tree(r)) \subseteq failed'
          /\ failed' \subseteq failed \cup Tree(r) /\ failed' \cap Tree(r) # {}
      BY <1>8, <2>2
    <3>2. Idle \in Local /\ Moves(r, Idle)
      BY <1>2, <2>2, IdleLocal, Moved DEF Raise
    <3>3. QED
      BY <3>1, <3>2
  <2>3. QED
    BY <1>7, <2>1, <2>2
<1>13. QED
  BY <1>1, <1>2, <1>3, <1>5, <1>6, <1>9, <1>10, <1>11, <1>12

LEMMA CreatedStep ==
  ASSUME TypeOK, NEW owner, Owners(owner), NEW r \in Roots, Created(r)
  PROVE  TypeOK' /\ Owners(owner)'
<1>1. PICK s : s = thread[r]
  OBVIOUS
<1>2. s.pc = "created" /\ UNCHANGED <<shared, jobs, events, raced>> /\ r \in Threads
  BY <1>1, CreatedEffect, ThreadNames
<1>3. s \in Local /\ CallbackSound(r, s, owner) /\ Announcing(s)
  BY <1>1, <1>2, Running DEF Announcing
<1>4. PICK p \in Local :
        /\ Moves(r, p)
        /\ \/ Same(s, p) /\ p.stack = s.stack /\ GoesOn(s, p)
           \/ p = Idle
  BY <1>1, CreatedEffect
<1>5. CallbackSound(r, p, owner)
  BY <1>3, <1>4, GoesOnSound, IdleSound
<1>6. Owners(owner)'
  BY <1>2, <1>4, <1>5, CallbackOwners DEF shared
<1>7. s.key \in Items /\ Children(s) \subseteq Items /\ Tree(r) \subseteq Items
  BY <1>1, <1>2, AskedKeys, TreeFacts
<1>8. failed' \subseteq failed \cup Tree(r)
  BY CreatedEffect
<1>9. /\ announced' \subseteq announced \cup {s.key} \cup Children(s)
      /\ recorded' \subseteq recorded \cup {s.key} \cup Children(s)
      /\ waiting' \subseteq waiting /\ announced \subseteq announced'
  BY <1>1, CreatedEffect
<1>10. repeated' \subseteq announced'
  <2>1. repeated' \subseteq repeated \cup announced
    BY CreatedEffect
  <2>2. QED
    BY <1>9, <2>1 DEF TypeOK
<1>11. TypeOK'
  BY <1>2, <1>4, <1>7, <1>8, <1>9, <1>10 DEF TypeOK, Moves, shared
<1>12. QED
  BY <1>6, <1>11

LEMMA FailsMove ==
  ASSUME TypeOK, NEW r \in Roots, MetadataFails(r)
  PROVE  /\ thread[r].pc = "created" /\ Moves(r, Idle)
         /\ failed' = failed \cup (waiting \cap Tree(r))
         /\ UNCHANGED <<shared, jobs, recorded, events, announced, repeated, waiting, raced>>
  BY ThreadNames, IdleLocal, Moved DEF MetadataFails, At, Raise

LEMMA FailsStep ==
  ASSUME TypeOK, NEW owner, Owners(owner), NEW r \in Roots, MetadataFails(r)
  PROVE  TypeOK' /\ Owners(owner)'
<1>1. /\ Moves(r, Idle) /\ failed' = failed \cup (waiting \cap Tree(r))
      /\ UNCHANGED <<shared, jobs, recorded, events, announced, repeated, waiting, raced>>
  BY FailsMove
<1>2. Owners(owner)'
  BY <1>1, IdleSound, CallbackOwners DEF shared
<1>3. TypeOK'
  BY <1>1 DEF TypeOK, Moves, shared
<1>4. QED
  BY <1>2, <1>3

LEMMA DelStep ==
  ASSUME TypeOK, NEW owner, Owners(owner), NEW r \in Roots, DelKeys(r)
  PROVE  TypeOK' /\ Owners(owner)'
<1>1. PICK s : s = thread[r]
  OBVIOUS
<1>2. s.pc \in {"in", "pop", "unwind"} /\ r \in Threads /\ r # Websocket
  BY <1>1, ThreadNames DEF DelKeys, At
<1>3. s \in Local /\ CallbackSound(r, s, owner) /\ s.stack \in Seq(Frame) /\ s.pc # "idle"
  BY <1>1, <1>2, Running
<1>4. s.pc = "unwind" => s.stack # << >>
  BY <1>3 DEF CallbackSound
<1>5. UNCHANGED <<sets, jobs, recorded, events, announced, repeated, raced, failed>>
  BY <1>1, <1>2, <1>4, DelKeysMove
<1>6. PICK p \in Local : Moves(r, p) /\ (DelIn(r, s, p) \/ DelPop(r, s, p) \/ DelUnwind(r, s, p))
  BY <1>1, <1>2, <1>4, DelKeysMove
<1>7. /\ DOMAIN queue' \subseteq DOMAIN queue /\ \A k \in DOMAIN queue' : queue'[k] = queue[k]
      /\ waiting' = waiting
  BY <1>2, <1>6 DEF DelIn, DelPop, DelUnwind
<1>8. p = Unwound(r) => p = Idle
  BY <1>2, UnwoundFacts
<1>9. CallbackSound(r, p, owner)
  <2>1. CASE p = Idle
    BY <2>1, IdleSound
  <2>2. CASE DelIn(r, s, p)
    BY <1>3, <1>8, <2>1, <2>2, StaysSound DEF DelIn
  <2>3. CASE DelPop(r, s, p)
    <3>1. CASE Queued(s.key) /\ Enters(s, p, queue[s.key], "unwind")
      <4>1. PICK n : n = queue[s.key]
        OBVIOUS
      <4>2. n \in DOMAIN sets /\ owner[n] = s.key
        BY <3>1, <4>1, QueuedFacts
      <4>3. PICK key \in Tree(r) : key = s.key
        BY <1>3, <2>3 DEF CallbackSound, DelPop
      <4>4. Enters(s, p, n, "unwind") /\ owner[n] = key
        BY <3>1, <4>1, <4>2, <4>3
      <4>5. QED
        BY <1>3, <4>2, <4>4, EntersSound
    <3>2. QED
      BY <2>1, <2>3, <3>1 DEF DelPop
  <2>4. CASE DelUnwind(r, s, p)
    <3>1. s.pc = "unwind" /\ s.stack # << >> /\ 1 \in DOMAIN s.stack
      BY <1>3, <1>4, <2>4 DEF DelUnwind
    <3>2. CASE Len(s.stack) # 1 /\ Drops(s, p) /\ p.pc = "unwind"
      BY <1>3, <3>2, DropsSound
    <3>3. ASSUME NEW k \in s.stack[1].left, Visits(s, p, k, "in") PROVE CallbackSound(r, p, owner)
      <4>1. k \in Tree(r)
        BY <1>1, <1>3, <3>1, Running
      <4>2. QED
        BY <1>3, <3>1, <3>3, <4>1, VisitsSound
    <3>4. QED
      BY <1>8, <2>1, <2>4, <3>2, <3>3 DEF DelUnwind
  <2>5. QED
    BY <1>6, <2>2, <2>3, <2>4
<1>10. Owners(owner)'
  BY <1>5, <1>6, <1>7, <1>9, CallbackOwners
<1>11. TypeOK'
  BY <1>5, <1>6, <1>7 DEF TypeOK, Moves
<1>12. QED
  BY <1>10, <1>11

LEMMA FireMove ==
  ASSUME TypeOK, NEW r \in Roots, Fire(r)
  PROVE  /\ r \in jobs /\ jobs' = jobs \ {r}
         /\ UNCHANGED <<shared, recorded, events, announced, repeated, waiting, failed>>
         /\ \E p \in Local :
              /\ Moves(r, p)
              /\ \/ thread[r].pc # "idle" /\ p = thread[r]
                 \/ /\ thread[r].pc = "idle" /\ p.pc = "start" /\ p.item = r
                    /\ p.stack = << >> /\ ~p.remove
         /\ raced' = raced \cup (IF Handling(r) THEN {thread[Websocket].item} ELSE {})
                     \cup (IF At(r, "idle") THEN {} ELSE waiting \cap Tree(r))
<1>1. r \in Threads /\ r \in Items
  BY ThreadNames, Kinds
<1>2. CASE At(r, "idle")
  <2>1. PICK p : p = [Idle EXCEPT !.pc = "start", !.item = r]
    OBVIOUS
  <2>2. "start" \in PC
    BY DEF PC
  <2>3. p \in Local /\ p.pc = "start" /\ p.item = r /\ p.stack = << >> /\ ~p.remove
    BY <1>1, <2>1, <2>2, IdleLocal DEF Local
  <2>4. Moves(r, p)
    BY <1>1, <1>2, <2>1, <2>3, Moved DEF Fire
  <2>5. QED
    BY <1>2, <2>3, <2>4 DEF Fire, At
<1>3. CASE ~At(r, "idle")
  <2>1. thread' = thread
    BY <1>3 DEF Fire
  <2>2. thread[r] \in Local /\ Moves(r, thread[r])
    BY <1>1, <2>1, ThreadTyped DEF TypeOK, Moves
  <2>3. QED
    BY <1>3, <2>2 DEF Fire, At
<1>4. QED
  BY <1>2, <1>3

LEMMA FireStep ==
  ASSUME TypeOK, NEW owner, Owners(owner), NEW r \in Roots, Fire(r)
  PROVE  TypeOK' /\ Owners(owner)'
<1>1. PICK p \in Local :
        /\ Moves(r, p)
        /\ \/ thread[r].pc # "idle" /\ p = thread[r]
           \/ p.pc = "start" /\ p.item = r /\ p.stack = << >>
  BY FireMove
<1>2. UNCHANGED <<shared, recorded, events, announced, repeated, waiting, failed>>
  BY FireMove
<1>3. raced' \subseteq raced \cup (IF Handling(r) THEN {thread[Websocket].item} ELSE {}) \cup waiting
  BY FireMove
<1>4. thread[Websocket].pc # "idle" => thread[Websocket].item \in Items
  BY DEF Owners, WebsocketSound
<1>5. raced' \subseteq Items
  BY <1>3, <1>4 DEF TypeOK, Handling, At
<1>6. CallbackSound(r, p, owner)
  BY <1>1 DEF Owners, CallbackSound, Announcing
<1>7. jobs' \subseteq jobs
  BY FireMove
<1>8. Owners(owner)'
  BY <1>1, <1>2, <1>6, <1>7, CallbackOwners DEF shared
<1>9. TypeOK'
  BY <1>1, <1>2, <1>5, <1>7 DEF TypeOK, Moves, shared
<1>10. QED
  BY <1>8, <1>9

-----------------------------------------------------------------------------
(* The insertions of the websocket thread. *)

\* The insertion that comes next.
Inserts(s, key, member) ==
  \/ /\ s.item \in Leaves /\ key = Root(s.item) /\ member = Parent[s.item] /\ Len(s.todo) = 2
     /\ Tail(s.todo) = Tail(Insertions(s.item))
  \/ s.item \in Leaves /\ key = Parent[s.item] /\ member = s.item /\ Len(s.todo) = 1
  \/ s.item \in Middles /\ key = Parent[s.item] /\ member = s.item /\ Len(s.todo) = 1
  \/ s.item \in Roots /\ key = s.item /\ member = NoItem /\ Len(s.todo) = 1

\* The key and the member that come next.
LEMMA TodoFacts ==
  ASSUME NEW s, s.item \in Items, TodoSound(s)
  PROVE  \E key \in Items, member \in Items \cup {NoItem} :
           /\ s.todo[1][1] = key /\ s.todo[1][2] = member /\ Inserts(s, key, member)
           /\ {member} \ {NoItem} \subseteq Members(key)
           /\ key \notin Leaves /\ key \in Tree(Root(s.item))
<1>1. CASE s.item \in Leaves
  <2>1. PICK i \in Leaves : i = s.item
    BY <1>1
  <2>2. Parent[i] \in Middles /\ Root(i) \in Roots /\ Parent[i] \in Items /\ Root(i) \in Items
    BY Kinds, RootFacts
  <2>3. /\ Insertions(i) = <<<<Root(i), Parent[i]>>, <<Parent[i], i>>>>
        /\ Tail(Insertions(i)) = <<<<Parent[i], i>>>>
    BY InsertionFacts, Kinds
  <2>4. /\ Parent[i] \in Members(Root(i)) /\ i \in Members(Parent[i])
        /\ Root(i) \in Tree(Root(i)) /\ Parent[i] \in Tree(Root(i))
        /\ Root(i) \notin Leaves /\ Parent[i] \notin Leaves
    BY <2>2, MemberFacts, RootFacts, TreeFacts, Kinds
  <2>5. CASE s.todo = Insertions(i)
    <3>1. s.todo[1][1] = Root(i) /\ s.todo[1][2] = Parent[i] /\ Len(s.todo) = 2
      BY <2>3, <2>5
    <3>2. QED
      BY <1>1, <2>1, <2>2, <2>4, <2>5, <3>1 DEF Inserts
  <2>6. CASE s.todo = Tail(Insertions(i))
    <3>1. s.todo[1][1] = Parent[i] /\ s.todo[1][2] = i /\ Len(s.todo) = 1
      BY <2>3, <2>6
    <3>2. QED
      BY <1>1, <2>1, <2>2, <2>4, <3>1, Kinds DEF Inserts
  <2>7. QED
    BY <1>1, <2>1, <2>5, <2>6 DEF TodoSound
<1>2. CASE s.item \in Middles
  <2>1. PICK i \in Middles : i = s.item
    BY <1>2
  <2>2. s.todo = <<<<Parent[i], i>>>>
    BY <1>2, <2>1, InsertionFacts, Kinds DEF TodoSound
  <2>3. /\ Parent[i] \in Items /\ Parent[i] \in Roots
        /\ i \in Members(Parent[i]) /\ Parent[i] \notin Leaves
    BY Kinds, MemberFacts
  <2>4. Root(i) = Parent[i] /\ Parent[i] \in Tree(Root(i))
    BY <2>3, RootFacts, TreeFacts
  <2>5. s.todo[1][1] = Parent[i] /\ s.todo[1][2] = i /\ Len(s.todo) = 1
    BY <2>2
  <2>6. QED
    BY <1>2, <2>1, <2>3, <2>4, <2>5, Kinds DEF Inserts
<1>3. CASE s.item \in Roots
  <2>1. PICK i \in Roots : i = s.item
    BY <1>3
  <2>2. s.todo = <<<<i, NoItem>>>>
    BY <1>3, <2>1, InsertionFacts, Kinds DEF TodoSound
  <2>3. s.todo[1][1] = i /\ s.todo[1][2] = NoItem /\ Len(s.todo) = 1
    BY <2>2
  <2>4. i \in Items /\ i \notin Leaves /\ i \in Tree(Root(i))
    BY Kinds, RootFacts, TreeFacts
  <2>5. QED
    BY <1>3, <2>1, <2>3, <2>4 DEF Inserts
<1>4. QED
  BY <1>1, <1>2, <1>3, Kinds

\* A set is made, or grows, or is queued.
LEMMA GetMove ==
  ASSUME TypeOK, NEW s, s = thread[Websocket], s.pc = "get", Insert,
         NEW key \in Items, s.todo[1][1] = key
  PROVE  /\ UNCHANGED <<queue, jobs, recorded, events, aux>>
         /\ \E p \in Local :
              /\ Moves(Websocket, p) /\ Same(s, p) /\ p.pc = "add" /\ p.key = s.key
              /\ p.stack = s.stack
              /\ \/ Queued(key) /\ UNCHANGED sets /\ p.set = queue[key]
                 \/ ~Queued(key) /\ sets' = Append(sets, {}) /\ p.set = Len(sets) + 1
<1>1. Websocket \in Threads /\ s \in Local
  BY ThreadNames, ThreadTyped
<1>2. PICK n \in Nat : n = IF Queued(key) THEN queue[key] ELSE Len(sets) + 1
  BY SetTyped DEF Queued
<1>3. PICK p : p = [s EXCEPT !.pc = "add", !.set = n]
  OBVIOUS
<1>4. "add" \in PC
  BY DEF PC
<1>5. /\ p \in Local /\ Same(s, p) /\ p.pc = "add" /\ p.key = s.key /\ p.stack = s.stack
      /\ p.set = n
  BY <1>1, <1>3, <1>4 DEF Local, Same
<1>6. /\ Become(Websocket, p) /\ UNCHANGED <<queue, jobs, recorded, events, aux>>
      /\ sets' = IF Queued(key) THEN sets ELSE Append(sets, {})
  BY <1>2, <1>3 DEF Insert, At
<1>7. Moves(Websocket, p)
  BY <1>1, <1>5, <1>6, Moved
<1>8. QED
  BY <1>2, <1>5, <1>6, <1>7

LEMMA AddMove ==
  ASSUME TypeOK, NEW s, s = thread[Websocket], s.pc = "add", Insert,
         NEW member, s.todo[1][2] = member
  PROVE  /\ UNCHANGED <<queue, jobs, recorded, events, aux>>
         /\ sets' = [sets EXCEPT ![s.set] = @ \cup ({member} \ {NoItem})]
         /\ \E p \in Local : Moves(Websocket, p) /\ Stays(s, p, "assign")
<1>1. Websocket \in Threads /\ s \in Local /\ "assign" \in PC
  BY ThreadNames, ThreadTyped DEF PC
<1>2. PICK p : p = [s EXCEPT !.pc = "assign"]
  OBVIOUS
<1>3. Stays(s, p, "assign")
  BY <1>1, <1>2, PcFacts DEF Stays
<1>4. /\ Become(Websocket, p) /\ UNCHANGED <<queue, jobs, recorded, events, aux>>
      /\ sets' = [sets EXCEPT ![s.set] = @ \cup ({member} \ {NoItem})]
  BY <1>2 DEF Insert, At, Goto
<1>5. QED
  BY <1>1, <1>3, <1>4, Moved DEF Stays

\* RECENTLY_ADDED_QUEUE[key] = set.
Assigned(key, set) ==
  /\ DOMAIN queue' = DOMAIN queue \cup {key}
  /\ queue'[key] = set
  /\ \A k \in DOMAIN queue : k # key => queue'[k] = queue[k]

LEMMA AssignMove ==
  ASSUME TypeOK, NEW s, s = thread[Websocket], s.pc = "assign", Insert, s.todo # << >>,
         NEW key, s.todo[1][1] = key
  PROVE  /\ UNCHANGED <<sets, jobs, recorded, events, aux>> /\ Assigned(key, s.set)
         /\ \E p \in Local :
              /\ Moves(Websocket, p) /\ p.item = s.item /\ p.found = s.found
              /\ p.remove = s.remove /\ p.key = s.key /\ p.stack = s.stack
              /\ p.todo = Tail(s.todo)
              /\ p.pc = IF Len(s.todo) > 1 THEN "get"
                        ELSE IF s.item \in Leaves THEN "leaf" ELSE "get_job"
<1>1. Websocket \in Threads /\ s \in Local /\ s.todo \in Seq(Items \X (Items \cup {NoItem}))
  BY ThreadNames, ThreadTyped DEF Local
<1>2. PICK pc \in PC : pc = IF Len(s.todo) > 1 THEN "get"
                            ELSE IF s.item \in Leaves THEN "leaf" ELSE "get_job"
  BY DEF PC
<1>3. PICK todo : todo = Tail(s.todo)
  OBVIOUS
<1>4. todo \in Seq(Items \X (Items \cup {NoItem}))
  BY <1>1, <1>3
<1>5. PICK p : p = [s EXCEPT !.pc = pc, !.todo = todo, !.set = 0]
  OBVIOUS
<1>6. p \in Local /\ p.item = s.item /\ p.found = s.found /\ p.remove = s.remove
      /\ p.key = s.key /\ p.stack = s.stack /\ p.todo = todo /\ p.pc = pc
  BY <1>1, <1>4, <1>5 DEF Local
<1>7. /\ Become(Websocket, p) /\ UNCHANGED <<sets, jobs, recorded, events, aux>>
      /\ Assign(key, s.set)
  BY <1>2, <1>3, <1>5 DEF Insert, At
<1>8. Assigned(key, s.set)
  BY <1>7 DEF Assign, Assigned
<1>9. QED
  BY <1>1, <1>2, <1>3, <1>6, <1>7, <1>8, Moved

LEMMA LeafMove ==
  ASSUME TypeOK, NEW s, s = thread[Websocket], s.pc = "leaf", Insert
  PROVE  /\ UNCHANGED <<jobs, recorded, events, aux>> /\ sets' = Append(sets, {Root(s.item)})
         /\ Assigned(s.item, Len(sets) + 1)
         /\ \E p \in Local : Moves(Websocket, p) /\ Stays(s, p, "get_job")
<1>1. Websocket \in Threads /\ s \in Local /\ "get_job" \in PC
  BY ThreadNames, ThreadTyped DEF PC
<1>2. PICK p : p = [s EXCEPT !.pc = "get_job"]
  OBVIOUS
<1>3. Stays(s, p, "get_job")
  BY <1>1, <1>2, PcFacts DEF Stays
<1>4. /\ Become(Websocket, p) /\ UNCHANGED <<jobs, recorded, events, aux>>
      /\ sets' = Append(sets, {Root(s.item)}) /\ Assign(s.item, Len(sets) + 1)
  BY <1>2 DEF Insert, At, Goto
<1>5. Assigned(s.item, Len(sets) + 1)
  BY <1>4 DEF Assign, Assigned
<1>6. QED
  BY <1>1, <1>3, <1>4, <1>5, Moved DEF Stays

\* The sets of before are still there, and hold what they held.
Grown(owner, owner2) ==
  \A n \in DOMAIN sets :
    /\ n \in DOMAIN sets' /\ sets[n] \subseteq sets'[n] /\ owner2[n] = owner[n]

\* A step of the websocket thread.
LEMMA WebsocketOwners ==
  ASSUME TypeOK, NEW owner, Owners(owner), NEW owner2, NEW p, Moves(Websocket, p),
         owner2 \in [DOMAIN sets' -> Items], Grown(owner, owner2),
         \A n \in DOMAIN sets' : sets'[n] \subseteq Members(owner2[n]),
         \A k \in DOMAIN queue' : /\ queue'[k] \in DOMAIN sets' /\ owner2[queue'[k]] = k
                                  /\ k \in Roots \/ sets'[queue'[k]] # {},
         WebsocketSound(p, owner2)'
  PROVE  Owners(owner2)'
<1>1. ASSUME NEW r \in Roots PROVE CallbackSound(r, thread[r], owner2)'
  <2>1. thread'[r] = thread[r] /\ CallbackSound(r, thread[r], owner)
    BY ThreadNames DEF Moves, Owners
  <2>2. PICK s : s = thread[r]
    OBVIOUS
  <2>3. thread'[r] = s /\ CallbackSound(r, s, owner)
    BY <2>1, <2>2
  <2>4. ASSUME NEW k \in DOMAIN s.stack PROVE FrameSound(r, s.stack[k], owner2)'
    <3>1. FrameSound(r, s.stack[k], owner)
      BY <2>3 DEF CallbackSound
    <3>2. QED
      BY <3>1 DEF FrameSound, Grown
  <2>5. Announcing(s) => /\ Len(s.stack) <= 2
                         /\ Len(s.stack) = 1 => owner2[s.stack[1].set] = r
                         /\ Len(s.stack) = 2 => /\ owner2[s.stack[2].set] = r
                                                /\ owner2[s.stack[1].set] \in Members(r)
    <3>1. ASSUME NEW k \in DOMAIN s.stack PROVE owner2[s.stack[k].set] = owner[s.stack[k].set]
      BY <2>3 DEF CallbackSound, FrameSound, Grown
    <3>2. s.stack \in Seq(Frame)
      BY <2>2, ThreadNames, ThreadTyped
    <3>3. /\ Len(s.stack) = 1 => 1 \in DOMAIN s.stack
          /\ Len(s.stack) = 2 => 1 \in DOMAIN s.stack /\ 2 \in DOMAIN s.stack
      BY <3>2
    <3>4. QED
      BY <2>3, <3>1, <3>3 DEF CallbackSound
  <2>6. QED
    BY <2>3, <2>4, <2>5 DEF CallbackSound, Grown
<1>2. WebsocketSound(thread[Websocket], owner2)'
  BY DEF Moves, WebsocketSound, TodoSound
<1>3. QED
  BY <1>1, <1>2 DEF Owners, Contents

LEMMA ReceiveMove ==
  ASSUME TypeOK, Receive
  PROVE  /\ thread[Websocket].pc = "idle" /\ events' = events + 1 /\ events < MaxEvents
         /\ UNCHANGED <<shared, jobs, recorded, announced, repeated, failed>>
         /\ \E i \in Items, p \in Local :
              /\ Moves(Websocket, p) /\ p.item = i /\ p.stack = << >> /\ ~p.remove /\ ~p.found
              /\ \/ p.pc = "get" /\ p.todo = Insertions(i) /\ waiting' = waiting \cup {i}
                 \/ p.pc = "deleted" /\ p.key = i /\ UNCHANGED waiting
              /\ raced' = IF At(Root(i), "idle") THEN raced ELSE raced \cup {i}
<1>1. PICK i \in Items :
        /\ \/ /\ Become(Websocket, [Idle EXCEPT !.pc = "get", !.item = i, !.todo = Insertions(i)])
              /\ waiting' = waiting \cup {i}
           \/ /\ Become(Websocket, [Idle EXCEPT !.pc = "deleted", !.item = i, !.key = i])
              /\ UNCHANGED waiting
        /\ raced' = IF At(Root(i), "idle") THEN raced ELSE raced \cup {i}
  BY DEF Receive
<1>2. "get" \in PC /\ "deleted" \in PC /\ Websocket \in Threads
  BY ThreadNames DEF PC
<1>3. PICK p, q : /\ p = [Idle EXCEPT !.pc = "get", !.item = i, !.todo = Insertions(i)]
                  /\ q = [Idle EXCEPT !.pc = "deleted", !.item = i, !.key = i]
  OBVIOUS
<1>4. p \in Local /\ p.item = i /\ p.stack = << >> /\ ~p.remove /\ ~p.found
      /\ p.pc = "get" /\ p.todo = Insertions(i)
  BY <1>2, <1>3, IdleLocal, InsertionFacts DEF Local
<1>5. q \in Local /\ q.item = i /\ q.stack = << >> /\ ~q.remove /\ ~q.found
      /\ q.pc = "deleted" /\ q.key = i
  BY <1>2, <1>3, IdleLocal DEF Local
<1>6. /\ thread[Websocket].pc = "idle" /\ events' = events + 1 /\ events < MaxEvents
      /\ UNCHANGED <<shared, jobs, recorded, announced, repeated, failed>>
  BY DEF Receive, At
<1>7. CASE Become(Websocket, p) /\ waiting' = waiting \cup {i}
  BY <1>1, <1>2, <1>4, <1>6, <1>7, Moved
<1>8. CASE Become(Websocket, q) /\ UNCHANGED waiting
  BY <1>1, <1>2, <1>5, <1>6, <1>8, Moved
<1>9. QED
  BY <1>1, <1>3, <1>7, <1>8

\* A step of the websocket thread that leaves the sets and the queue alone.
LEMMA QuietOwners ==
  ASSUME TypeOK, NEW owner, Owners(owner), NEW p, Moves(Websocket, p), UNCHANGED shared,
         WebsocketSound(p, owner)'
  PROVE  Owners(owner)'
<1>1. sets' = sets /\ queue' = queue
  BY DEF shared
<1>2. Grown(owner, owner) /\ owner \in [DOMAIN sets' -> Items]
  BY <1>1 DEF Grown, Owners
<1>3. \A n \in DOMAIN sets' : sets'[n] \subseteq Members(owner[n])
  BY <1>1 DEF Owners
<1>4. \A k \in DOMAIN queue' : /\ queue'[k] \in DOMAIN sets' /\ owner[queue'[k]] = k
                               /\ k \in Roots \/ sets'[queue'[k]] # {}
  BY <1>1 DEF Owners, Contents
<1>5. QED
  BY <1>2, <1>3, <1>4, WebsocketOwners

LEMMA ReceiveStep ==
  ASSUME TypeOK, NEW owner, Owners(owner), Receive
  PROVE  TypeOK' /\ Owners(owner)'
<1>1. /\ events' = events + 1 /\ events < MaxEvents
      /\ UNCHANGED <<shared, jobs, recorded, announced, repeated, failed>>
  BY ReceiveMove
<1>2. PICK i \in Items, p \in Local :
        /\ Moves(Websocket, p) /\ p.item = i /\ p.stack = << >> /\ ~p.remove /\ ~p.found
        /\ \/ p.pc = "get" /\ p.todo = Insertions(i) /\ waiting' = waiting \cup {i}
           \/ p.pc = "deleted" /\ p.key = i /\ UNCHANGED waiting
        /\ raced' = IF At(Root(i), "idle") THEN raced ELSE raced \cup {i}
  BY ReceiveMove
<1>3. TodoSound(p) \/ p.pc = "deleted"
  BY <1>2 DEF TodoSound
<1>4. WebsocketSound(p, owner)'
  BY <1>2, <1>3 DEF WebsocketSound, TodoSound, Inserting, Removing
<1>5. Owners(owner)'
  BY <1>1, <1>2, <1>4, QuietOwners
<1>6. events' \in 0 .. MaxEvents
  BY <1>1, ConstantsAssumption DEF TypeOK
<1>7. TypeOK'
  BY <1>1, <1>2, <1>6 DEF TypeOK, Moves, shared
<1>8. QED
  BY <1>5, <1>7

\* What is known of the websocket thread at work.
LEMMA AtWork ==
  ASSUME TypeOK, NEW owner, Owners(owner), thread[Websocket].pc # "idle"
  PROVE  /\ thread[Websocket] \in Local /\ WebsocketSound(thread[Websocket], owner)
         /\ thread[Websocket].item \in Items /\ Root(thread[Websocket].item) \in Roots
         /\ thread[Websocket].stack \in Seq(Frame) /\ Websocket \in Threads
  BY ThreadNames, ThreadTyped, RootFacts DEF Owners, WebsocketSound

\* A new set has the key it is made for as its owner.
LEMMA NewSet ==
  ASSUME TypeOK, NEW owner, Owners(owner), NEW key \in Items, NEW set \in SUBSET Members(key),
         sets' = Append(sets, set)
  PROVE  /\ sets' \in Seq(SUBSET Items)
         /\ Len(sets) + 1 \in DOMAIN sets' /\ sets'[Len(sets) + 1] = set
         /\ \A n \in DOMAIN sets : sets'[n] = sets[n]
         /\ \E owner2 : /\ owner2 \in [DOMAIN sets' -> Items] /\ Grown(owner, owner2)
                        /\ owner2[Len(sets) + 1] = key
                        /\ \A n \in DOMAIN sets' : sets'[n] \subseteq Members(owner2[n])
<1>1. set \in SUBSET Items /\ sets \in Seq(SUBSET Items) /\ Len(sets) \in Nat
      /\ DOMAIN sets = 1 .. Len(sets)
  BY MemberFacts, SetTyped DEF TypeOK
<1>2. /\ sets' \in Seq(SUBSET Items) /\ DOMAIN sets' = 1 .. Len(sets) + 1
      /\ sets'[Len(sets) + 1] = set /\ \A n \in DOMAIN sets : sets'[n] = sets[n]
  BY <1>1
<1>3. PICK m \in Nat : m = Len(sets)
  BY <1>1
<1>4. PICK owner2 : owner2 = [n \in 1 .. m + 1 |-> IF n = m + 1 THEN key ELSE owner[n]]
  OBVIOUS
<1>5. \A n \in 1 .. m + 1 : n # m + 1 => n \in DOMAIN sets
  BY <1>1, <1>3
<1>6. owner2 \in [DOMAIN sets' -> Items] /\ owner2[m + 1] = key
  BY <1>2, <1>3, <1>4, <1>5 DEF Owners
<1>7. Grown(owner, owner2)
  BY <1>1, <1>2, <1>3, <1>4 DEF Grown
<1>8. \A n \in DOMAIN sets' : sets'[n] \subseteq Members(owner2[n])
  BY <1>2, <1>3, <1>4, <1>5 DEF Owners
<1>9. QED
  BY <1>2, <1>3, <1>6, <1>7, <1>8

LEMMA WebsocketTyped ==
  ASSUME TypeOK, NEW p, Moves(Websocket, p), sets' \in Seq(SUBSET Items),
         DOMAIN queue' \subseteq Items, \A k \in DOMAIN queue' : queue'[k] \in DOMAIN sets',
         jobs' \subseteq Roots, UNCHANGED <<recorded, events, announced, repeated, raced, failed>>,
         waiting' \subseteq waiting
  PROVE  TypeOK'
  BY DEF TypeOK, Moves

LEMMA GetStep ==
  ASSUME TypeOK, NEW owner, Owners(owner), thread[Websocket].pc = "get", Insert
  PROVE  TypeOK' /\ \E owner2 : Owners(owner2)' /\ owner2 \in [DOMAIN sets' -> Items]
<1>1. PICK s : s = thread[Websocket]
  OBVIOUS
<1>2. WebsocketSound(s, owner) /\ s.pc = "get" /\ s.item \in Items /\ TodoSound(s) /\ ~s.remove
  BY <1>1, AtWork DEF WebsocketSound, Inserting
<1>3. PICK key \in Items : s.todo[1][1] = key
  BY <1>2, TodoFacts
<1>4. PICK p \in Local :
        /\ Moves(Websocket, p) /\ Same(s, p) /\ p.pc = "add"
        /\ \/ Queued(key) /\ UNCHANGED sets /\ p.set = queue[key]
           \/ ~Queued(key) /\ sets' = Append(sets, {}) /\ p.set = Len(sets) + 1
  BY <1>1, <1>2, <1>3, GetMove
<1>5. UNCHANGED <<queue, jobs, recorded, events, aux>>
  BY <1>1, <1>2, <1>3, GetMove
<1>6. TodoSound(p) /\ p.item \in Items /\ ~p.remove /\ p.todo[1][1] = key
  BY <1>2, <1>3, <1>4 DEF TodoSound, Same
<1>7. ASSUME NEW owner2, p.set \in DOMAIN sets', owner2[p.set] = key,
             Queued(key) => queue[key] = p.set
      PROVE  WebsocketSound(p, owner2)'
  BY <1>4, <1>5, <1>6, <1>7 DEF WebsocketSound, Inserting, Removing, TodoSound, Queued
<1>8. CASE Queued(key) /\ UNCHANGED sets /\ p.set = queue[key]
  <2>1. WebsocketSound(p, owner)'
    BY <1>7, <1>8, QueuedFacts
  <2>2. Owners(owner)'
    BY <1>4, <1>5, <1>8, <2>1, QuietOwners DEF shared
  <2>3. TypeOK'
    BY <1>4, <1>5, <1>8 DEF TypeOK, Moves, aux
  <2>4. owner \in [DOMAIN sets' -> Items]
    BY <1>8 DEF Owners
  <2>5. QED
    BY <2>2, <2>3, <2>4
<1>9. CASE ~Queued(key) /\ sets' = Append(sets, {}) /\ p.set = Len(sets) + 1
  <2>1. /\ sets' \in Seq(SUBSET Items)
        /\ Len(sets) + 1 \in DOMAIN sets' /\ sets'[Len(sets) + 1] = {}
        /\ \A n \in DOMAIN sets : sets'[n] = sets[n]
    BY <1>9, NewSet
  <2>2. PICK owner2 : /\ owner2 \in [DOMAIN sets' -> Items] /\ Grown(owner, owner2)
                      /\ owner2[Len(sets) + 1] = key
                      /\ \A n \in DOMAIN sets' : sets'[n] \subseteq Members(owner2[n])
    BY <1>9, NewSet
  <2>3. WebsocketSound(p, owner2)'
    BY <1>7, <1>9, <2>1, <2>2
  <2>4. \A k \in DOMAIN queue' : /\ queue'[k] \in DOMAIN sets' /\ owner2[queue'[k]] = k
                                 /\ k \in Roots \/ sets'[queue'[k]] # {}
    BY <1>5, <2>1, <2>2 DEF Owners, Grown, Contents
  <2>5. Owners(owner2)'
    BY <1>4, <2>2, <2>3, <2>4, WebsocketOwners
  <2>6. TypeOK'
    BY <1>4, <1>5, <2>1, <2>4, WebsocketTyped DEF TypeOK, aux
  <2>7. QED
    BY <2>2, <2>5, <2>6
<1>10. QED
  BY <1>4, <1>8, <1>9

LEMMA AddStep ==
  ASSUME TypeOK, NEW owner, Owners(owner), thread[Websocket].pc = "add", Insert
  PROVE  TypeOK' /\ Owners(owner)'
<1>1. PICK s : s = thread[Websocket]
  OBVIOUS
<1>2. /\ WebsocketSound(s, owner) /\ s.pc = "add" /\ s.item \in Items /\ TodoSound(s) /\ ~s.remove
      /\ s.set \in DOMAIN sets /\ owner[s.set] = s.todo[1][1]
      /\ Queued(s.todo[1][1]) => queue[s.todo[1][1]] = s.set
  BY <1>1, AtWork DEF WebsocketSound, Inserting
<1>3. PICK key \in Items, member \in Items \cup {NoItem} :
        /\ s.todo[1][1] = key /\ s.todo[1][2] = member
        /\ {member} \ {NoItem} \subseteq Members(key)
  BY <1>2, TodoFacts
<1>4. /\ UNCHANGED <<queue, jobs, recorded, events, aux>>
      /\ sets' = [sets EXCEPT ![s.set] = @ \cup ({member} \ {NoItem})]
  BY <1>1, <1>2, <1>3, AddMove
<1>5. PICK p \in Local : Moves(Websocket, p) /\ Stays(s, p, "assign")
  BY <1>1, <1>2, <1>3, AddMove
<1>6. /\ sets' \in Seq(SUBSET Items) /\ DOMAIN sets' = DOMAIN sets
      /\ sets'[s.set] = sets[s.set] \cup ({member} \ {NoItem})
      /\ \A n \in DOMAIN sets : n # s.set => sets'[n] = sets[n]
  <2>1. PICK new : new = sets[s.set] \cup ({member} \ {NoItem})
    OBVIOUS
  <2>2. new \in SUBSET Items /\ sets \in Seq(SUBSET Items)
    BY <1>2, <1>3, <2>1, SetTyped DEF TypeOK
  <2>3. sets' = [sets EXCEPT ![s.set] = new]
    BY <1>4, <2>1
  <2>4. QED
    BY <1>2, <2>1, <2>2, <2>3
<1>7. Grown(owner, owner) /\ owner \in [DOMAIN sets' -> Items]
  BY <1>2, <1>6 DEF Grown, Owners
<1>8. \A n \in DOMAIN sets' : sets'[n] \subseteq Members(owner[n])
  BY <1>2, <1>3, <1>6 DEF Owners
<1>9. \A k \in DOMAIN queue' : /\ queue'[k] \in DOMAIN sets' /\ owner[queue'[k]] = k
                               /\ k \in Roots \/ sets'[queue'[k]] # {}
  BY <1>2, <1>4, <1>6 DEF Owners, Contents
<1>10. WebsocketSound(p, owner)'
  <2>1. /\ p.pc = "assign" /\ p.item = s.item /\ p.todo = s.todo /\ p.set = s.set /\ ~p.remove
    BY <1>2, <1>5 DEF Stays, Same
  <2>2. TodoSound(p)
    BY <1>2, <2>1 DEF TodoSound
  <2>3. QED
    BY <1>2, <1>3, <1>4, <1>6, <2>1, <2>2
    DEF WebsocketSound, Inserting, Removing, TodoSound, Queued
<1>11. Owners(owner)'
  BY <1>5, <1>7, <1>8, <1>9, <1>10, WebsocketOwners
<1>12. TypeOK'
  BY <1>4, <1>5, <1>6, <1>9, WebsocketTyped DEF TypeOK, aux
<1>13. QED
  BY <1>11, <1>12

LEMMA AssignStep ==
  ASSUME TypeOK, NEW owner, Owners(owner), thread[Websocket].pc = "assign", Insert
  PROVE  TypeOK' /\ Owners(owner)'
<1>1. PICK s : s = thread[Websocket]
  OBVIOUS
<1>2. /\ WebsocketSound(s, owner) /\ s.pc = "assign" /\ s.item \in Items /\ TodoSound(s)
      /\ ~s.remove /\ s.set \in DOMAIN sets /\ owner[s.set] = s.todo[1][1]
      /\ {s.todo[1][2]} \ {NoItem} \subseteq sets[s.set]
  BY <1>1, AtWork DEF WebsocketSound, Inserting
<1>3. PICK key \in Items, member \in Items \cup {NoItem} :
        /\ s.todo[1][1] = key /\ s.todo[1][2] = member /\ Inserts(s, key, member)
  BY <1>2, TodoFacts
<1>4. s.todo # << >>
  BY <1>3 DEF Inserts
<1>5. UNCHANGED <<sets, jobs, recorded, events, aux>> /\ Assigned(key, s.set)
  BY <1>1, <1>2, <1>3, <1>4, AssignMove
<1>6. PICK p \in Local :
        /\ Moves(Websocket, p) /\ p.item = s.item /\ p.found = s.found
        /\ p.remove = s.remove /\ p.key = s.key /\ p.stack = s.stack
        /\ p.todo = Tail(s.todo)
        /\ p.pc = IF Len(s.todo) > 1 THEN "get"
                  ELSE IF s.item \in Leaves THEN "leaf" ELSE "get_job"
  BY <1>1, <1>2, <1>3, <1>4, AssignMove
<1>7. Grown(owner, owner) /\ owner \in [DOMAIN sets' -> Items]
      /\ \A n \in DOMAIN sets' : sets'[n] \subseteq Members(owner[n])
  BY <1>5 DEF Grown, Owners
<1>8. key \in Roots \/ sets[s.set] # {}
  <2>1. key \in Roots \/ member \in Items
    BY <1>3, Kinds DEF Inserts
  <2>2. QED
    BY <1>2, <1>3, <2>1, Kinds
<1>9. \A k \in DOMAIN queue' : /\ queue'[k] \in DOMAIN sets' /\ owner[queue'[k]] = k
                               /\ k \in Roots \/ sets'[queue'[k]] # {}
  BY <1>2, <1>3, <1>5, <1>8 DEF Owners, Assigned, Contents
<1>10. WebsocketSound(p, owner)'
  <2>1. CASE Len(s.todo) > 1
    <3>1. s.item \in Leaves /\ p.todo = Tail(Insertions(s.item)) /\ p.pc = "get"
      <4>1. Len(s.todo) = 2 => s.item \in Leaves /\ Tail(s.todo) = Tail(Insertions(s.item))
        BY <1>3 DEF Inserts
      <4>2. Len(s.todo) \in {1, 2}
        BY <1>3 DEF Inserts
      <4>3. Len(s.todo) = 2
        <5>1. PICK n : n = Len(s.todo)
          OBVIOUS
        <5>2. n \in {1, 2} /\ n > 1
          BY <2>1, <4>2, <5>1
        <5>3. QED
          BY <5>1, <5>2
      <4>4. QED
        BY <1>6, <2>1, <4>1, <4>3
    <3>2. TodoSound(p)
      BY <1>6, <3>1 DEF TodoSound
    <3>3. QED
      BY <1>2, <1>6, <3>1, <3>2 DEF WebsocketSound, Inserting, Removing, TodoSound
  <2>2. CASE ~(Len(s.todo) > 1)
    BY <1>2, <1>6, <2>2 DEF WebsocketSound, Inserting, Removing
  <2>3. QED
    BY <2>1, <2>2
<1>11. Owners(owner)'
  BY <1>6, <1>7, <1>9, <1>10, WebsocketOwners
<1>12. TypeOK'
  <2>1. DOMAIN queue' \subseteq Items /\ sets' \in Seq(SUBSET Items)
    BY <1>5 DEF TypeOK, Assigned
  <2>2. QED
    BY <1>5, <1>6, <1>9, <2>1, WebsocketTyped DEF TypeOK, aux
<1>13. QED
  BY <1>11, <1>12

LEMMA LeafStep ==
  ASSUME TypeOK, NEW owner, Owners(owner), thread[Websocket].pc = "leaf", Insert
  PROVE  TypeOK' /\ \E owner2 : Owners(owner2)' /\ owner2 \in [DOMAIN sets' -> Items]
<1>1. PICK s : s = thread[Websocket]
  OBVIOUS
<1>2. WebsocketSound(s, owner) /\ s.pc = "leaf" /\ s.item \in Leaves /\ ~s.remove /\ s.item \in Items
  BY <1>1, AtWork DEF WebsocketSound
<1>3. /\ UNCHANGED <<jobs, recorded, events, aux>> /\ sets' = Append(sets, {Root(s.item)})
      /\ Assigned(s.item, Len(sets) + 1)
  BY <1>1, <1>2, LeafMove
<1>4. PICK p \in Local : Moves(Websocket, p) /\ Stays(s, p, "get_job")
  BY <1>1, <1>2, LeafMove
<1>5. PICK set : set = {Root(s.item)}
  OBVIOUS
<1>6. set \in SUBSET Members(s.item) /\ set # {} /\ sets' = Append(sets, set)
  BY <1>2, <1>3, <1>5, MemberFacts
<1>7. /\ sets' \in Seq(SUBSET Items)
      /\ Len(sets) + 1 \in DOMAIN sets' /\ sets'[Len(sets) + 1] = set
      /\ \A n \in DOMAIN sets : sets'[n] = sets[n]
  BY <1>2, <1>6, NewSet
<1>8. PICK owner2 : /\ owner2 \in [DOMAIN sets' -> Items] /\ Grown(owner, owner2)
                    /\ owner2[Len(sets) + 1] = s.item
                    /\ \A n \in DOMAIN sets' : sets'[n] \subseteq Members(owner2[n])
  BY <1>2, <1>6, NewSet
<1>9. \A k \in DOMAIN queue' : /\ queue'[k] \in DOMAIN sets' /\ owner2[queue'[k]] = k
                               /\ k \in Roots \/ sets'[queue'[k]] # {}
  BY <1>3, <1>6, <1>7, <1>8 DEF Owners, Assigned, Grown, Contents
<1>10. WebsocketSound(p, owner2)'
  BY <1>2, <1>4 DEF WebsocketSound, Inserting, Removing, Stays, Same
<1>11. Owners(owner2)'
  BY <1>4, <1>8, <1>9, <1>10, WebsocketOwners
<1>12. TypeOK'
  <2>1. DOMAIN queue' \subseteq Items
    BY <1>2, <1>3 DEF TypeOK, Assigned
  <2>2. QED
    BY <1>3, <1>4, <1>7, <1>9, <2>1, WebsocketTyped DEF TypeOK, aux
<1>13. QED
  BY <1>8, <1>11, <1>12

LEMMA ScheduleMove ==
  ASSUME TypeOK, Schedule, NEW s, s = thread[Websocket], NEW r, r = Root(s.item)
  PROVE  /\ UNCHANGED <<shared, recorded, events, aux>>
         /\ \E p \in Local :
              /\ Moves(Websocket, p)
              /\ \/ /\ s.pc = "get_job" /\ p.pc = "set_job" /\ p.found = (r \in jobs)
                    /\ p.item = s.item /\ p.remove = s.remove /\ p.stack = s.stack
                    /\ UNCHANGED jobs
                 \/ /\ s.pc = "set_job" /\ p = Idle
                    /\ s.found = (r \in jobs) \/ (s.remove /\ ~s.found)
                    /\ jobs' = IF ~s.remove THEN jobs \cup {r}
                               ELSE IF s.found THEN jobs \ {r} ELSE jobs
                 \/ /\ s.pc = "set_job" /\ p = Idle /\ UNCHANGED jobs
                    /\ s.found # (r \in jobs) /\ (s.remove => s.found)
<1>1. Websocket \in Threads /\ s \in Local /\ "set_job" \in PC /\ Idle \in Local
  BY ThreadNames, ThreadTyped, IdleLocal DEF PC
<1>2. PICK p : p = [s EXCEPT !.pc = "set_job", !.found = r \in jobs]
  OBVIOUS
<1>3. PICK found \in BOOLEAN : found <=> r \in jobs
  OBVIOUS
<1>4. /\ p \in Local /\ p.pc = "set_job" /\ p.found = (r \in jobs)
      /\ p.item = s.item /\ p.remove = s.remove /\ p.stack = s.stack
  <2>1. p = [s EXCEPT !.pc = "set_job", !.found = found]
    BY <1>2, <1>3
  <2>2. p \in Local
    BY <1>1, <2>1 DEF Local
  <2>3. p.pc = "set_job" /\ p.item = s.item /\ p.remove = s.remove /\ p.stack = s.stack
    BY <1>1, <2>1 DEF Local
  <2>4. p.found = (r \in jobs)
    BY <1>1, <1>2 DEF Local
  <2>5. QED
    BY <2>2, <2>3, <2>4
<1>5. UNCHANGED <<shared, recorded, events, aux>>
  BY DEF Schedule
<1>6. CASE s.pc = "get_job"
  <2>1. Become(Websocket, p) /\ UNCHANGED jobs
    BY <1>2, <1>6 DEF Schedule, At
  <2>2. QED
    BY <1>1, <1>4, <1>5, <1>6, <2>1, Moved
<1>7. CASE s.pc = "set_job"
  <2>1. Become(Websocket, Idle)
    BY <1>7 DEF Schedule, At, Raise
  <2>2. Moves(Websocket, Idle)
    BY <1>1, <2>1, Moved
  <2>3. \/ /\ s.found = (r \in jobs) \/ (s.remove /\ ~s.found)
           /\ jobs' = IF ~s.remove THEN jobs \cup {r}
                      ELSE IF s.found THEN jobs \ {r} ELSE jobs
        \/ s.found # (r \in jobs) /\ (s.remove => s.found) /\ UNCHANGED jobs
    BY <1>7 DEF Schedule, At
  <2>4. QED
    BY <1>1, <1>5, <1>7, <2>2, <2>3
<1>8. QED
  BY <1>6, <1>7 DEF Schedule, At

LEMMA ScheduleStep ==
  ASSUME TypeOK, NEW owner, Owners(owner), Schedule
  PROVE  TypeOK' /\ Owners(owner)'
<1>1. PICK s : s = thread[Websocket]
  OBVIOUS
<1>2. PICK r : r = Root(s.item)
  OBVIOUS
<1>3. WebsocketSound(s, owner) /\ s.item \in Items /\ r \in Roots
  BY <1>1, <1>2, AtWork DEF Schedule, At
<1>4. UNCHANGED <<shared, recorded, events, aux>>
  BY <1>1, <1>2, ScheduleMove
<1>5. PICK p \in Local :
        /\ Moves(Websocket, p)
        /\ \/ /\ s.pc = "get_job" /\ p.pc = "set_job" /\ p.found = (r \in jobs)
              /\ p.item = s.item /\ p.remove = s.remove /\ p.stack = s.stack
              /\ UNCHANGED jobs
           \/ p = Idle /\ jobs' \subseteq jobs \cup {r}
  BY <1>1, <1>2, ScheduleMove
<1>6. WebsocketSound(p, owner)'
  <2>1. CASE p = Idle
    BY <2>1, IdleLocal DEF WebsocketSound, Inserting, Removing
  <2>2. CASE /\ s.pc = "get_job" /\ p.pc = "set_job" /\ p.found = (r \in jobs)
             /\ p.item = s.item /\ p.remove = s.remove /\ UNCHANGED jobs
    <3>1. s.remove => s.item \in Roots /\ ~Queued(s.item)
      BY <1>3 DEF WebsocketSound, Removing
    <3>2. QED
      BY <1>2, <1>3, <1>4, <2>2, <3>1 DEF WebsocketSound, Inserting, Removing, Queued, shared
  <2>3. QED
    BY <1>5, <2>1, <2>2
<1>7. Owners(owner)'
  BY <1>4, <1>5, <1>6, QuietOwners
<1>8. TypeOK'
  BY <1>3, <1>4, <1>5 DEF TypeOK, Moves, shared, aux
<1>9. QED
  BY <1>7, <1>8

LEMMA DeleteMove ==
  ASSUME TypeOK, Delete, NEW s, s = thread[Websocket]
  PROVE  /\ UNCHANGED <<shared, jobs, recorded, events, aux>>
         /\ \E p \in Local :
              /\ Moves(Websocket, p)
              /\ \/ s.pc \in {"deleted", "empty"} /\ p = Idle
                 \/ s.pc = "deleted" /\ Stays(s, p, "empty")
                 \/ /\ s.pc = "empty" /\ Queued(s.item) /\ Contents(s.item) = {}
                    /\ Stays(s, p, "in")
<1>1. Websocket \in Threads /\ s \in Local /\ Idle \in Local /\ "empty" \in PC /\ "in" \in PC
  BY ThreadNames, ThreadTyped, IdleLocal DEF PC
<1>2. PICK p, q : p = [s EXCEPT !.pc = "empty"] /\ q = [s EXCEPT !.pc = "in"]
  OBVIOUS
<1>3. Stays(s, p, "empty") /\ Stays(s, q, "in")
  BY <1>1, <1>2, PcFacts DEF Stays
<1>4. UNCHANGED <<shared, jobs, recorded, events, aux>>
  BY DEF Delete
<1>5. \/ s.pc \in {"deleted", "empty"} /\ Become(Websocket, Idle)
      \/ s.pc = "deleted" /\ Become(Websocket, p)
      \/ s.pc = "empty" /\ Queued(s.item) /\ Contents(s.item) = {} /\ Become(Websocket, q)
  BY <1>2 DEF Delete, At, Goto, Raise
<1>6. QED
  BY <1>1, <1>3, <1>4, <1>5, Moved DEF Stays

LEMMA DeleteStep ==
  ASSUME TypeOK, NEW owner, Owners(owner), Delete
  PROVE  TypeOK' /\ Owners(owner)'
<1>1. PICK s : s = thread[Websocket]
  OBVIOUS
<1>2. WebsocketSound(s, owner) /\ s.item \in Items
  BY <1>1, AtWork DEF Delete, At
<1>3. UNCHANGED <<shared, jobs, recorded, events, aux>>
  BY <1>1, DeleteMove
<1>4. PICK p \in Local :
        /\ Moves(Websocket, p)
        /\ \/ p = Idle
           \/ s.pc = "deleted" /\ Stays(s, p, "empty")
           \/ /\ s.pc = "empty" /\ Queued(s.item) /\ Contents(s.item) = {}
              /\ Stays(s, p, "in")
  BY <1>1, DeleteMove
<1>5. WebsocketSound(p, owner)'
  <2>1. CASE p = Idle
    BY <2>1, IdleLocal DEF WebsocketSound, Inserting, Removing
  <2>2. CASE s.pc = "deleted" /\ Stays(s, p, "empty")
    BY <1>2, <2>2 DEF WebsocketSound, Inserting, Removing, Stays, Same
  <2>3. CASE /\ s.pc = "empty" /\ Queued(s.item) /\ Contents(s.item) = {}
             /\ Stays(s, p, "in")
    <3>1. s.item \in Roots
      BY <2>3, QueuedFacts
    <3>2. Contents(s.item)' = {}
      BY <1>3, <2>3 DEF Contents, shared
    <3>3. QED
      BY <1>2, <2>3, <3>1, <3>2 DEF WebsocketSound, Inserting, Removing, Stays, Same
  <2>4. QED
    BY <1>4, <2>1, <2>2, <2>3
<1>6. Owners(owner)'
  BY <1>3, <1>4, <1>5, QuietOwners
<1>7. TypeOK'
  BY <1>3, <1>4 DEF TypeOK, Moves, shared, aux
<1>8. QED
  BY <1>6, <1>7

\* In the websocket thread del_keys has a root without members to remove.
LEMMA WebsocketDelMove ==
  ASSUME TypeOK, NEW owner, Owners(owner), DelKeys(Websocket), NEW s, s = thread[Websocket]
  PROVE  /\ UNCHANGED <<sets, jobs, recorded, events, announced, repeated, raced, failed>>
         /\ s.item \in Roots
         /\ \E p \in Local :
              /\ Moves(Websocket, p)
              /\ \/ s.pc = "in" /\ Queued(s.item) /\ Stays(s, p, "pop") /\ UNCHANGED <<queue, waiting>>
                 \/ /\ ~Queued(s.item) /\ p.pc = "get_job" /\ p.item = s.item /\ p.remove
                    /\ p.stack = << >> /\ UNCHANGED <<queue, waiting>>
                 \/ s.pc = "pop" /\ ~Queued(s.item) /\ p = Idle /\ UNCHANGED <<queue, waiting>>
                 \/ /\ s.pc = "pop" /\ Queued(s.item) /\ Contents(s.item) = {}
                    /\ DOMAIN queue' = DOMAIN queue \ {s.item}
                    /\ \A k \in DOMAIN queue' : queue'[k] = queue[k]
                    /\ waiting' = waiting \ {s.item}
                    /\ p.pc = "unwind" /\ p.item = s.item /\ p.key = s.key /\ ~p.remove
                    /\ Len(p.stack) = 1
                    /\ p.stack[1] = [set |-> queue[s.item], all |-> {}, left |-> {}]
<1>1. s.pc \in {"in", "pop", "unwind"}
  BY DEF DelKeys, At
<1>2. WebsocketSound(s, owner) /\ s.item \in Items /\ s.stack \in Seq(Frame) /\ Websocket \in Threads
  BY <1>1, AtWork
<1>3. s.key = s.item /\ ~s.remove /\ (s.pc = "unwind" => s.stack # << >>) /\ s.item \in Roots
  BY <1>1, <1>2 DEF WebsocketSound, Removing
<1>4. UNCHANGED <<sets, jobs, recorded, events, announced, repeated, raced, failed>>
  BY <1>2, <1>3, DelKeysMove
<1>5. PICK p \in Local : /\ Moves(Websocket, p)
                         /\ \/ DelIn(Websocket, s, p) \/ DelPop(Websocket, s, p)
                            \/ DelUnwind(Websocket, s, p)
  BY <1>2, <1>3, DelKeysMove
<1>6. /\ Unwound(Websocket).pc = "get_job" /\ Unwound(Websocket).item = s.item
      /\ Unwound(Websocket).remove /\ Unwound(Websocket).stack = << >>
  BY <1>2, UnwoundFacts
<1>7. CASE DelIn(Websocket, s, p)
  <2>1. s.stack = << >>
    BY <1>2, <1>7 DEF DelIn, WebsocketSound
  <2>2. QED
    BY <1>3, <1>4, <1>5, <1>6, <1>7, <2>1 DEF DelIn
<1>8. CASE DelPop(Websocket, s, p)
  <2>1. s.stack = << >> /\ (Queued(s.item) => Contents(s.item) = {})
    BY <1>2, <1>8 DEF DelPop, WebsocketSound
  <2>2. CASE p = Idle
    BY <1>3, <1>4, <1>5, <1>8, <2>2, IdleLocal DEF DelPop, Enters
  <2>3. CASE Queued(s.item) /\ Enters(s, p, queue[s.item], "unwind")
    <3>1. sets[queue[s.item]] = {}
      BY <2>1, <2>3 DEF Contents
    <3>2. Len(p.stack) = 1 /\ p.stack[1] = [set |-> queue[s.item], all |-> {}, left |-> {}]
      BY <2>1, <2>3, <3>1 DEF Enters
    <3>3. p.pc = "unwind" /\ p.item = s.item /\ p.key = s.key /\ ~p.remove
      BY <1>3, <2>3 DEF Enters, Same
    <3>4. /\ DOMAIN queue' = DOMAIN queue \ {s.item}
          /\ \A k \in DOMAIN queue' : queue'[k] = queue[k]
          /\ waiting' = waiting \ {s.item}
      BY <1>3, <1>8, <2>3 DEF DelPop
    <3>5. QED
      BY <1>3, <1>4, <1>5, <1>8, <2>1, <2>3, <3>2, <3>3, <3>4 DEF DelPop
  <2>4. QED
    BY <1>3, <1>8, <2>2, <2>3 DEF DelPop
<1>9. CASE DelUnwind(Websocket, s, p)
  <2>1. Len(s.stack) = 1 /\ s.stack[1].left = {} /\ ~Queued(s.item) /\ ~Changed(s)
    BY <1>2, <1>9 DEF DelUnwind, WebsocketSound, Removing, Changed
  <2>2. QED
    BY <1>3, <1>4, <1>5, <1>6, <1>9, <2>1 DEF DelUnwind
<1>10. QED
  BY <1>5, <1>7, <1>8, <1>9

LEMMA WebsocketDelStep ==
  ASSUME TypeOK, NEW owner, Owners(owner), DelKeys(Websocket)
  PROVE  TypeOK' /\ Owners(owner)'
<1>1. PICK s : s = thread[Websocket]
  OBVIOUS
<1>2. s.pc \in {"in", "pop", "unwind"}
  BY <1>1 DEF DelKeys, At
<1>3. WebsocketSound(s, owner) /\ s.item \in Items
  BY <1>1, <1>2, AtWork
<1>4. /\ UNCHANGED <<sets, jobs, recorded, events, announced, repeated, raced, failed>>
      /\ s.item \in Roots
  BY <1>1, WebsocketDelMove
<1>5. PICK p \in Local :
        /\ Moves(Websocket, p)
        /\ \/ s.pc = "in" /\ Queued(s.item) /\ Stays(s, p, "pop") /\ UNCHANGED <<queue, waiting>>
           \/ /\ ~Queued(s.item) /\ p.pc = "get_job" /\ p.item = s.item /\ p.remove
              /\ p.stack = << >> /\ UNCHANGED <<queue, waiting>>
           \/ p = Idle /\ UNCHANGED <<queue, waiting>>
           \/ /\ s.pc = "pop" /\ Queued(s.item) /\ Contents(s.item) = {}
              /\ DOMAIN queue' = DOMAIN queue \ {s.item}
              /\ \A k \in DOMAIN queue' : queue'[k] = queue[k]
              /\ waiting' = waiting \ {s.item}
              /\ p.pc = "unwind" /\ p.item = s.item /\ p.key = s.key /\ ~p.remove
              /\ Len(p.stack) = 1
              /\ p.stack[1] = [set |-> queue[s.item], all |-> {}, left |-> {}]
  BY <1>1, WebsocketDelMove
<1>6. WebsocketSound(p, owner)'
  <2>1. CASE p = Idle
    BY <2>1, IdleLocal DEF WebsocketSound, Inserting, Removing
  <2>2. CASE s.pc = "in" /\ Queued(s.item) /\ Stays(s, p, "pop") /\ UNCHANGED <<queue, waiting>>
    <3>1. s.key = s.item /\ s.stack = << >> /\ ~s.remove /\ Contents(s.item) = {}
      BY <1>3, <2>2 DEF WebsocketSound
    <3>2. Contents(s.item)' = {}
      BY <1>4, <2>2, <3>1 DEF Contents
    <3>3. QED
      BY <1>3, <1>4, <2>2, <3>1, <3>2 DEF WebsocketSound, Inserting, Removing, Stays, Same
  <2>3. CASE /\ ~Queued(s.item) /\ p.pc = "get_job" /\ p.item = s.item /\ p.remove
             /\ p.stack = << >> /\ UNCHANGED <<queue, waiting>>
    BY <1>3, <1>4, <2>3 DEF WebsocketSound, Inserting, Removing, Queued
  <2>4. CASE /\ s.pc = "pop" /\ Queued(s.item) /\ Contents(s.item) = {}
             /\ DOMAIN queue' = DOMAIN queue \ {s.item}
             /\ p.pc = "unwind" /\ p.item = s.item /\ p.key = s.key /\ ~p.remove
             /\ Len(p.stack) = 1
             /\ p.stack[1] = [set |-> queue[s.item], all |-> {}, left |-> {}]
    <3>1. s.key = s.item
      BY <1>3, <2>4 DEF WebsocketSound
    <3>2. PICK n : n = queue[s.item]
      OBVIOUS
    <3>3. n \in DOMAIN sets /\ owner[n] = s.item /\ sets[n] = {}
      BY <2>4, <3>2, QueuedFacts
    <3>4. p.stack[1].set = n /\ p.stack[1].all = {} /\ p.stack[1].left = {}
      BY <2>4, <3>2
    <3>5. ~Queued(s.item)'
      BY <2>4 DEF Queued
    <3>6. QED
      BY <1>3, <1>4, <2>4, <3>1, <3>3, <3>4, <3>5 DEF WebsocketSound, Inserting, Removing
  <2>5. QED
    BY <1>5, <2>1, <2>2, <2>3, <2>4
<1>7. /\ DOMAIN queue' \subseteq DOMAIN queue /\ \A k \in DOMAIN queue' : queue'[k] = queue[k]
      /\ waiting' \subseteq waiting
  BY <1>5
<1>8. /\ Grown(owner, owner) /\ owner \in [DOMAIN sets' -> Items]
      /\ \A n \in DOMAIN sets' : sets'[n] \subseteq Members(owner[n])
  BY <1>4 DEF Grown, Owners
<1>9. \A k \in DOMAIN queue' : /\ queue'[k] \in DOMAIN sets' /\ owner[queue'[k]] = k
                               /\ k \in Roots \/ sets'[queue'[k]] # {}
  BY <1>4, <1>7 DEF Owners, Contents
<1>10. Owners(owner)'
  BY <1>5, <1>6, <1>8, <1>9, WebsocketOwners
<1>11. TypeOK'
  BY <1>4, <1>5, <1>7, <1>9, WebsocketTyped DEF TypeOK
<1>12. QED
  BY <1>10, <1>11

\* A step of an event after the first.
LEMMA HandleMove ==
  ASSUME TypeOK, NEW owner, Owners(owner), Handle
  PROVE  /\ thread[Websocket].pc # "idle"
         /\ UNCHANGED <<recorded, events, announced, repeated, raced, failed>>
         /\ waiting' \subseteq waiting
         /\ \E p \in Local : Moves(Websocket, p) /\ (p = Idle \/ p.item = thread[Websocket].item)
<1>1. PICK s : s = thread[Websocket]
  OBVIOUS
<1>2. CASE Insert
  <2>1. s.pc \in {"get", "add", "assign", "leaf"}
    BY <1>1, <1>2 DEF Insert, At
  <2>2. CASE s.pc = "leaf"
    BY <1>1, <1>2, <2>2, LeafMove DEF Stays, Same, aux
  <2>3. CASE s.pc # "leaf"
    <3>1. s.item \in Items /\ TodoSound(s)
      BY <1>1, <2>1, <2>3, AtWork DEF WebsocketSound, Inserting
    <3>2. PICK key \in Items, member \in Items \cup {NoItem} :
            s.todo[1][1] = key /\ s.todo[1][2] = member /\ Inserts(s, key, member)
      BY <3>1, TodoFacts
    <3>3. s.todo # << >>
      BY <3>2 DEF Inserts
    <3>4. CASE s.pc = "get"
      BY <1>1, <1>2, <3>2, <3>4, GetMove DEF Same, aux
    <3>5. CASE s.pc = "add"
      BY <1>1, <1>2, <3>2, <3>5, AddMove DEF Stays, Same, aux
    <3>6. CASE s.pc = "assign"
      BY <1>1, <1>2, <3>2, <3>3, <3>6, AssignMove DEF aux
    <3>7. QED
      BY <2>1, <2>3, <3>4, <3>5, <3>6
  <2>4. QED
    BY <2>2, <2>3
<1>3. CASE Schedule
  <2>1. PICK r : r = Root(s.item)
    OBVIOUS
  <2>2. s.pc # "idle"
    BY <1>1, <1>3 DEF Schedule, At
  <2>3. QED
    BY <1>1, <1>3, <2>1, <2>2, ScheduleMove DEF aux
<1>4. CASE Delete
  <2>1. s.pc # "idle"
    BY <1>1, <1>4 DEF Delete, At
  <2>2. QED
    BY <1>1, <1>4, <2>1, DeleteMove DEF aux, Stays, Same
<1>5. CASE DelKeys(Websocket)
  <2>1. s.pc # "idle"
    BY <1>1, <1>5 DEF DelKeys, At
  <2>2. QED
    BY <1>1, <1>5, <2>1, WebsocketDelMove DEF Stays, Same
<1>6. QED
  BY <1>2, <1>3, <1>4, <1>5 DEF Handle

\* A step of a callback: what it may change, whatever it does.
LEMMA CallbackMove ==
  ASSUME TypeOK, NEW owner, Owners(owner), NEW r \in Roots, Callback(r)
  PROVE  /\ thread[r].pc # "idle" /\ UNCHANGED <<sets, jobs, events, raced>>
         /\ waiting' \subseteq waiting /\ failed \subseteq failed'
         /\ DOMAIN queue' \subseteq DOMAIN queue /\ \A k \in DOMAIN queue' : queue'[k] = queue[k]
         /\ \E p \in Local : Moves(r, p)
<1>1. CASE Start(r)
  BY <1>1, StartMove DEF shared, aux
<1>2. CASE Child(r)
  <2>1. thread[r].key \in Items
    BY <1>2, ChildKey DEF Child, At
  <2>2. QED
    BY <1>2, <2>1, ChildMove DEF shared, aux
<1>3. CASE Walk(r)
  <2>1. thread[r].stack # << >>
    BY <1>3 DEF Walk, At, Owners, CallbackSound
  <2>2. QED
    BY <1>3, <2>1, WalkMove DEF shared, aux
<1>4. CASE Created(r)
  <2>1. thread[r].pc = "created" /\ UNCHANGED <<sets, queue, jobs, events, raced>>
        /\ waiting' \subseteq waiting
    BY <1>4, CreatedEffect DEF shared
  <2>2. failed \subseteq failed' /\ \E p \in Local : Moves(r, p)
    BY <1>4, CreatedEffect
  <2>3. QED
    BY <2>1, <2>2
<1>5. CASE MetadataFails(r)
  <2>1. Idle \in Local
    BY IdleLocal
  <2>2. QED
    BY <1>5, <2>1, FailsMove DEF shared
<1>6. CASE DelKeys(r)
  <2>1. r \in Threads /\ r # Websocket
    BY ThreadNames
  <2>2. thread[r].pc # "idle" /\ (thread[r].pc = "unwind" => thread[r].stack # << >>)
    BY <1>6 DEF DelKeys, At, Owners, CallbackSound
  <2>3. QED
    BY <1>6, <2>1, <2>2, DelKeysMove DEF DelIn, DelPop, DelUnwind
<1>7. QED
  BY <1>1, <1>2, <1>3, <1>4, <1>5, <1>6 DEF Callback

\* Types and the owners of the sets are kept by every step.
LEMMA SetsNext == TypeOK /\ SetsSound /\ [Next]_vars => TypeOK' /\ SetsSound'
<1>1. SUFFICES ASSUME TypeOK, NEW owner \in [DOMAIN sets -> Items], Owners(owner), [Next]_vars
               PROVE  TypeOK' /\ \E owner2 : Owners(owner2)' /\ owner2 \in [DOMAIN sets' -> Items]
  BY DEF SetsSound
<1>2. CASE Receive \/ (\E r \in Roots : Fire(r) \/ Callback(r))
  <2>1. TypeOK' /\ Owners(owner)'
    <3>1. CASE Receive
      BY <1>1, <3>1, ReceiveStep
    <3>2. ASSUME NEW r \in Roots, Fire(r) PROVE TypeOK' /\ Owners(owner)'
      BY <1>1, <3>2, FireStep
    <3>3. ASSUME NEW r \in Roots, Callback(r) PROVE TypeOK' /\ Owners(owner)'
      BY <1>1, <3>3, StartStep, ChildStep, WalkStep, CreatedStep, FailsStep, DelStep DEF Callback
    <3>4. QED
      BY <1>2, <3>1, <3>2, <3>3
  <2>2. QED
    BY <2>1 DEF Owners
<1>3. CASE Insert
  <2>1. thread[Websocket].pc \in {"get", "add", "assign", "leaf"}
    BY <1>3 DEF Insert, At
  <2>2. CASE thread[Websocket].pc \in {"get", "leaf"}
    BY <1>1, <1>3, <2>2, GetStep, LeafStep
  <2>3. CASE thread[Websocket].pc \in {"add", "assign"}
    <3>1. TypeOK' /\ Owners(owner)'
      BY <1>1, <1>3, <2>3, AddStep, AssignStep
    <3>2. QED
      BY <3>1 DEF Owners
  <2>4. QED
    BY <2>1, <2>2, <2>3
<1>4. CASE Schedule \/ Delete \/ DelKeys(Websocket)
  <2>1. TypeOK' /\ Owners(owner)'
    BY <1>1, <1>4, ScheduleStep, DeleteStep, WebsocketDelStep
  <2>2. QED
    BY <2>1 DEF Owners
<1>5. CASE UNCHANGED vars
  <2>1. TypeOK' /\ Owners(owner)'
    BY <1>1, <1>5 DEF TypeOK, Owners, CallbackSound, FrameSound, WebsocketSound, TodoSound,
                      Queued, Contents, vars, shared, aux
  <2>2. QED
    BY <2>1 DEF Owners
<1>6. QED
  BY <1>1, <1>2, <1>3, <1>4, <1>5 DEF Next, Handle

\* A callback that starts while its tree has an event makes that event a raced one.
LEMMA UndisturbedNext ==
  ASSUME TypeOK, SetsSound, Undisturbed, [Next]_vars
  PROVE  Undisturbed'
<1>1. PICK owner : Owners(owner)
  BY DEF SetsSound
<1>2. PICK s : s = thread[Websocket]
  OBVIOUS
<1>3. s.pc # "idle" => s.item \in Items /\ Root(s.item) \in Roots
  BY <1>1, <1>2, AtWork
<1>4. s.pc # "idle" /\ s.item \notin raced => thread[Root(s.item)].pc = "idle"
  BY <1>2 DEF Undisturbed, At
<1>5. CASE Receive
  <2>1. PICK i \in Items, p \in Local :
          /\ Moves(Websocket, p) /\ p.item = i
          /\ raced' = IF At(Root(i), "idle") THEN raced ELSE raced \cup {i}
    BY <1>5, ReceiveMove
  <2>2. thread'[Root(i)] = thread[Root(i)]
    BY <2>1, RootFacts, ThreadNames DEF Moves
  <2>3. QED
    BY <2>1, <2>2 DEF Undisturbed, At, Moves
<1>6. CASE Handle
  <2>1. s.pc # "idle" /\ raced' = raced
    BY <1>1, <1>2, <1>6, HandleMove
  <2>2. PICK p \in Local : Moves(Websocket, p) /\ (p = Idle \/ p.item = s.item)
    BY <1>1, <1>2, <1>6, HandleMove
  <2>3. thread'[Root(s.item)] = thread[Root(s.item)]
    BY <1>3, <2>1, <2>2, ThreadNames DEF Moves
  <2>4. QED
    BY <1>4, <2>1, <2>2, <2>3, IdleLocal DEF Undisturbed, At, Moves
<1>7. ASSUME NEW r \in Roots, Fire(r) PROVE Undisturbed'
  <2>1. PICK p \in Local : Moves(r, p)
    BY <1>7, FireMove
  <2>2. raced' = raced \cup (IF Handling(r) THEN {s.item} ELSE {})
                 \cup (IF At(r, "idle") THEN {} ELSE waiting \cap Tree(r))
    BY <1>2, <1>7, FireMove
  <2>3. thread'[Websocket] = s
    BY <1>2, <2>1, ThreadNames DEF Moves
  <2>4. s.pc # "idle" /\ Root(s.item) = r => s.item \in raced'
    BY <1>2, <2>2 DEF Handling, At
  <2>5. s.pc # "idle" /\ Root(s.item) # r => thread'[Root(s.item)] = thread[Root(s.item)]
    BY <1>3, <2>1, ThreadNames DEF Moves
  <2>6. QED
    BY <1>4, <2>2, <2>3, <2>4, <2>5 DEF Undisturbed, At
<1>8. ASSUME NEW r \in Roots, Callback(r) PROVE Undisturbed'
  <2>1. thread[r].pc # "idle" /\ raced' = raced
    BY <1>1, <1>8, CallbackMove
  <2>2. PICK p \in Local : Moves(r, p)
    BY <1>1, <1>8, CallbackMove
  <2>3. thread'[Websocket] = s
    BY <1>2, <2>2, ThreadNames DEF Moves
  <2>4. s.pc # "idle" /\ Root(s.item) # r => thread'[Root(s.item)] = thread[Root(s.item)]
    BY <1>3, <2>2, ThreadNames DEF Moves
  <2>5. QED
    BY <1>4, <2>1, <2>3, <2>4 DEF Undisturbed, At
<1>9. CASE UNCHANGED vars
  BY <1>9 DEF Undisturbed, At, vars, aux
<1>10. QED
  BY <1>5, <1>6, <1>7, <1>8, <1>9 DEF Next

\* An item is in the table, or its request failed, before it can be announced again.
LEMMA RecordedNext ==
  ASSUME TypeOK, SetsSound, AnnouncedRecorded, AnnouncedOnce, [Next]_vars
  PROVE  AnnouncedRecorded' /\ AnnouncedOnce'
<1>1. PICK owner : Owners(owner)
  BY DEF SetsSound
<1>2. ASSUME UNCHANGED <<announced, repeated, recorded>>, failed \subseteq failed'
      PROVE  AnnouncedRecorded' /\ AnnouncedOnce'
  BY <1>2 DEF AnnouncedRecorded, AnnouncedOnce
<1>3. CASE Receive
  BY <1>2, <1>3, ReceiveMove
<1>4. CASE Handle
  BY <1>1, <1>2, <1>4, HandleMove
<1>5. ASSUME NEW r \in Roots, Fire(r) PROVE AnnouncedRecorded' /\ AnnouncedOnce'
  BY <1>2, <1>5, FireMove
<1>6. ASSUME NEW r \in Roots, Callback(r), ~Created(r)
      PROVE  AnnouncedRecorded' /\ AnnouncedOnce'
  <2>1. UNCHANGED <<announced, repeated, recorded>>
    BY <1>6 DEF Callback, Start, Child, Walk, MetadataFails, DelKeys, aux
  <2>2. QED
    BY <1>1, <1>2, <1>6, <2>1, CallbackMove
<1>7. ASSUME NEW r \in Roots, Created(r) PROVE AnnouncedRecorded' /\ AnnouncedOnce'
  <2>1. PICK s : s = thread[r]
    OBVIOUS
  <2>2. /\ announced' \ announced \subseteq recorded' \cup failed' /\ recorded \subseteq recorded'
        /\ \/ repeated' = repeated
           \/ repeated' = repeated \cup ({s.key} \cap announced) /\ s.key \notin recorded
    BY <1>1, <1>7, <2>1, CreatedEffect
  <2>3. failed \subseteq failed'
    BY <1>1, <1>7, CallbackMove DEF Callback
  <2>4. QED
    BY <2>2, <2>3 DEF AnnouncedRecorded, AnnouncedOnce
<1>8. CASE UNCHANGED vars
  BY <1>2, <1>8 DEF vars, aux
<1>9. QED
  BY <1>3, <1>4, <1>5, <1>6, <1>7, <1>8 DEF Next

-----------------------------------------------------------------------------
(* What the loops of a callback still come to. *)

Base == TypeOK /\ SetsSound /\ Undisturbed

LEMMA LoopsEntered ==
  ASSUME TypeOK, NEW s \in Local, NEW p, NEW set, NEW pc, NEW i, Enters(s, p, set, pc)
  PROVE  /\ InLoops(s, i) => InLoops(p, i)
         /\ \A j \in sets[set] :
              /\ i = j \/ i = Parent[j] \/ i = Root(j) => InLoops(p, i)
              /\ s.stack = << >> /\ Parent[i] = j => InLoops(p, i)
<1>1. s.stack \in Seq(Frame) /\ Len(s.stack) \in Nat
  BY DEF Local
<1>2. /\ DOMAIN p.stack = 1 .. Len(s.stack) + 1 /\ Len(p.stack) = Len(s.stack) + 1
      /\ p.stack[1].left = sets[set]
      /\ \A k \in DOMAIN s.stack : k + 1 \in DOMAIN p.stack /\ p.stack[k + 1] = s.stack[k]
  BY DEF Enters
<1>3. ASSUME InLoops(s, i) PROVE InLoops(p, i)
  <2>1. PICK k \in DOMAIN s.stack : \E j \in s.stack[k].left :
          i = j \/ i = Parent[j] \/ i = Root(j) \/ (k = Len(s.stack) /\ Parent[i] = j)
    BY <1>3 DEF InLoops
  <2>2. k + 1 \in DOMAIN p.stack /\ p.stack[k + 1].left = s.stack[k].left
    BY <1>2, <2>1
  <2>3. k = Len(s.stack) => k + 1 = Len(p.stack)
    BY <1>2
  <2>4. QED
    BY <2>1, <2>2, <2>3 DEF InLoops
<1>4. ASSUME NEW j \in sets[set],
             \/ i = j \/ i = Parent[j] \/ i = Root(j)
             \/ s.stack = << >> /\ Parent[i] = j
      PROVE  InLoops(p, i)
  <2>1. 1 \in DOMAIN p.stack /\ j \in p.stack[1].left
    BY <1>1, <1>2
  <2>2. s.stack = << >> => Len(p.stack) = 1
    BY <1>2
  <2>3. QED
    BY <1>4, <2>1, <2>2 DEF InLoops
<1>5. QED
  BY <1>3, <1>4

LEMMA LoopsDropped ==
  ASSUME NEW s \in Local, NEW p, NEW i, Drops(s, p), s.stack[1].left = {}, InLoops(s, i)
  PROVE  InLoops(p, i) /\ p.stack # << >>
<1>1. /\ DOMAIN s.stack = 1 .. Len(s.stack) /\ Len(s.stack) \in Nat
      /\ Len(p.stack) = Len(s.stack) - 1 /\ DOMAIN p.stack = 1 .. Len(s.stack) - 1
      /\ \A k \in DOMAIN p.stack : p.stack[k] = s.stack[k + 1]
  BY DEF Drops, Local
<1>2. PICK k \in DOMAIN s.stack : \E j \in s.stack[k].left :
        i = j \/ i = Parent[j] \/ i = Root(j) \/ (k = Len(s.stack) /\ Parent[i] = j)
  BY DEF InLoops
<1>3. k # 1
  BY <1>2
<1>4. PICK n \in Nat : n = Len(s.stack)
  BY <1>1
<1>5. PICK m \in 1 .. n - 1 : k = m + 1
  <2>1. k \in 1 .. n
    BY <1>1, <1>2, <1>4
  <2>2. k - 1 \in 1 .. n - 1 /\ k = (k - 1) + 1
    BY <1>3, <1>4, <2>1
  <2>3. QED
    BY <2>2
<1>6. m \in DOMAIN p.stack /\ p.stack[m].left = s.stack[k].left
  BY <1>1, <1>2, <1>4, <1>5
<1>7. k = Len(s.stack) => m = Len(p.stack)
  BY <1>1, <1>4, <1>5
<1>8. p.stack # << >>
  BY <1>6
<1>9. QED
  BY <1>2, <1>6, <1>7, <1>8 DEF InLoops

LEMMA LoopsVisited ==
  ASSUME NEW s \in Local, NEW p, NEW key, NEW pc, NEW i, Visits(s, p, key, pc), InLoops(s, i)
  PROVE  \/ InLoops(p, i) \/ i = key \/ i = Parent[key] \/ i = Root(key)
         \/ Len(s.stack) = 1 /\ Parent[i] = key
<1>1. PICK k \in DOMAIN s.stack : \E j \in s.stack[k].left :
        i = j \/ i = Parent[j] \/ i = Root(j) \/ (k = Len(s.stack) /\ Parent[i] = j)
  BY DEF InLoops
<1>2. PICK j \in s.stack[k].left :
        i = j \/ i = Parent[j] \/ i = Root(j) \/ (k = Len(s.stack) /\ Parent[i] = j)
  BY <1>1
<1>3. CASE j = key /\ k = 1
  BY <1>2, <1>3
<1>4. CASE ~(j = key /\ k = 1)
  <2>1. k \in DOMAIN p.stack /\ j \in p.stack[k].left /\ Len(p.stack) = Len(s.stack)
    BY <1>1, <1>2, <1>4 DEF Visits
  <2>2. QED
    BY <1>2, <2>1 DEF InLoops
<1>5. QED
  BY <1>3, <1>4
-----------------------------------------------------------------------------
(* What is owed and who will pay it. *)

\* Where an item that is owed something stands in its tree.
LEMMA OwedFacts ==
  ASSUME NEW r \in Roots, NEW i \in Owed(r)
  PROVE  /\ i \in Items /\ Root(i) = r /\ i \in Tree(r) /\ i \notin raced /\ i \in waiting
         /\ i \in Roots => i = r
         /\ i \in Middles => Parent[i] = r /\ i \in Members(r)
         /\ i \in Leaves => /\ Parent[i] \in Middles /\ Parent[i] \in Members(r)
                            /\ Parent[Parent[i]] = r /\ Root(Parent[i]) = r
         /\ i \in Roots \/ i \in Middles \/ i \in Leaves
<1>1. i \in Items /\ Root(i) = r /\ i \in Tree(r) /\ i \notin raced /\ i \in waiting
  BY TreeFacts DEF Owed
<1>2. i \in Leaves => Parent[i] \in Middles /\ Parent[Parent[i]] = r /\ Root(Parent[i]) = r
  BY <1>1, Kinds, RootFacts
<1>3. QED
  BY <1>1, <1>2, Kinds, RootFacts, MemberFacts

\* What is owed to an item whose callback runs is in the queue.
LEMMA OwedQueued ==
  ASSUME Base, OwedReachable, NEW r \in Roots, thread[r].pc # "idle", NEW i \in Owed(r)
  PROVE  Reachable(i)
<1>1. i \notin raced /\ Root(i) = r
  BY OwedFacts
<1>2. ~(Inserting(thread[Websocket]) /\ thread[Websocket].item = i)
  BY <1>1 DEF Base, Undisturbed, Inserting, At
<1>3. QED
  BY <1>2 DEF OwedReachable

LEMMA AheadStart ==
  ASSUME Base, OwedReachable, OwedAhead, NEW r \in Roots, Start(r), NEW i \in Owed(r)
  PROVE  Queued(r) /\ \A p : Chooses(thread[r], p, r, queue[r]) => Ahead(p, i)
<1>1. PICK owner : Owners(owner)
  BY DEF Base, SetsSound
<1>2. PICK s : s = thread[r]
  OBVIOUS
<1>3. s.pc = "start" /\ s \in Local /\ s.stack = << >>
  BY <1>1, <1>2, Running DEF Start, At, Base, CallbackSound
<1>4. Reachable(i)
  BY <1>2, <1>3, OwedQueued
<1>5. /\ Queued(r)
      /\ i \in Middles => i \in Contents(r)
      /\ i \in Leaves => Parent[i] \in Contents(r)
  BY <1>4, OwedFacts DEF Reachable
<1>6. Contents(r) = sets[queue[r]] /\ Contents(r) \subseteq Members(r) /\ queue[r] # 0
  BY <1>1, <1>5, QueuedFacts DEF Base
<1>7. ASSUME NEW p, Chooses(s, p, r, queue[r]) PROVE Ahead(p, i)
  <2>1. PICK set : set = queue[r]
    OBVIOUS
  <2>2. CASE Asks(s, p, r, set)
    <3>1. i \in Covered(r, sets[set])
      BY <1>5, <1>6, <2>1, OwedFacts DEF Covered
    <3>2. QED
      BY <1>6, <2>1, <2>2, <3>1 DEF Asks, Ahead, Children
  <2>3. CASE sets[set] # {} /\ Enters(s, p, set, "walk")
    <3>1. PICK j \in sets[set] : TRUE
      BY <2>3
    <3>2. Root(j) = r
      BY <1>6, <2>1, <3>1, MemberFacts, RootFacts, Kinds
    <3>3. InLoops(p, i)
      BY <1>3, <1>5, <1>6, <2>1, <2>3, <3>1, <3>2, OwedFacts, LoopsEntered DEF Base
    <3>4. QED
      BY <2>3, <3>3 DEF Enters, Ahead, Announcing
  <2>4. CASE sets[set] = {} /\ Asks(s, p, r, 0)
    <3>1. i = r
      BY <1>5, <1>6, <2>1, <2>4, OwedFacts
    <3>2. QED
      BY <2>4, <3>1, Kinds DEF Asks, Ahead, Covered
  <2>5. QED
    BY <1>7, <2>1, <2>2, <2>3, <2>4 DEF Chooses
<1>8. QED
  BY <1>2, <1>5, <1>7

LEMMA AheadChild ==
  ASSUME Base, OwedReachable, OwedAhead, NEW r \in Roots, Child(r), NEW i \in Owed(r), NEW key,
         key = thread[r].key
  PROVE  /\ \A p : Queued(key) /\ Chooses(thread[r], p, key, queue[key]) => Ahead(p, i)
         /\ \A p : ~Queued(key) /\ Asks(thread[r], p, key, 0) => Ahead(p, i)
<1>1. PICK owner : Owners(owner)
  BY DEF Base, SetsSound
<1>2. PICK s : s = thread[r]
  OBVIOUS
<1>3. s.pc = "child" /\ s \in Local /\ key \in Middles /\ key \in Members(r) /\ key = s.key
  BY <1>1, <1>2, Running, ChildKey DEF Child, At, Base
<1>4. Reachable(i)
  BY <1>2, <1>3, OwedQueued
<1>5. i \in Leaves => Queued(Parent[i]) /\ i \in Contents(Parent[i])
  BY <1>4 DEF Reachable
<1>6. i = r \/ i = key \/ (i \in Leaves /\ Parent[i] = key) \/ InLoops(s, i)
  <2>1. Ahead(s, i)
    BY <1>2, <1>3 DEF OwedAhead, At
  <2>2. Parent[i] = key => i \in Leaves
    BY <1>3, OwedFacts, MemberFacts, Kinds
  <2>3. QED
    BY <1>3, <2>1, <2>2, OwedFacts DEF Ahead
<1>7. Root(key) = r /\ r \in Items /\ key \in Items
  BY <1>3, MemberFacts, RootFacts, Kinds
<1>8. ASSUME NEW p, NEW set, Asks(s, p, key, set),
             i \in Leaves /\ Parent[i] = key => set # 0 /\ i \in sets[set]
      PROVE  Ahead(p, i)
  <2>1. CASE InLoops(s, i)
    BY <1>8, <2>1 DEF Asks, Ahead, Announcing, InLoops
  <2>2. CASE i = r \/ i = key \/ (i \in Leaves /\ Parent[i] = key)
    <3>1. i \in Covered(key, IF set = 0 THEN {} ELSE sets[set])
      BY <1>7, <1>8, <2>2, OwedFacts DEF Covered
    <3>2. QED
      BY <1>8, <3>1 DEF Asks, Ahead, Children
  <2>3. QED
    BY <1>6, <2>1, <2>2
<1>9. ASSUME Queued(key), NEW p, Chooses(s, p, key, queue[key]) PROVE Ahead(p, i)
  <2>1. PICK set : set = queue[key]
    OBVIOUS
  <2>2. Contents(key) = sets[set] /\ sets[set] \subseteq Members(key) /\ set # 0
    BY <1>1, <1>9, <2>1, QueuedFacts DEF Base
  <2>3. CASE Asks(s, p, key, set)
    BY <1>5, <1>8, <2>2, <2>3
  <2>4. CASE sets[set] # {} /\ Enters(s, p, set, "walk")
    <3>1. PICK j \in sets[set] : TRUE
      BY <2>4
    <3>2. Root(j) = r /\ Parent[j] = key
      BY <1>3, <1>7, <2>2, <3>1, MemberFacts
    <3>3. InLoops(p, i)
      <4>1. CASE InLoops(s, i)
        BY <1>3, <2>4, <4>1, LoopsEntered DEF Base
      <4>2. CASE i = r \/ i = key
        BY <1>3, <2>4, <3>1, <3>2, <4>2, LoopsEntered DEF Base
      <4>3. CASE i \in Leaves /\ Parent[i] = key
        <5>1. i \in sets[set]
          BY <1>5, <2>2, <4>3
        <5>2. QED
          BY <1>3, <2>4, <5>1, LoopsEntered DEF Base
      <4>4. QED
        BY <1>6, <4>1, <4>2, <4>3
    <3>4. QED
      BY <2>4, <3>3 DEF Enters, Ahead, Announcing
  <2>5. CASE sets[set] = {} /\ Asks(s, p, key, 0)
    BY <1>5, <1>8, <2>2, <2>5
  <2>6. QED
    BY <1>9, <2>1, <2>3, <2>4, <2>5 DEF Chooses
<1>10. ASSUME ~Queued(key), NEW p, Asks(s, p, key, 0) PROVE Ahead(p, i)
  BY <1>5, <1>8, <1>10
<1>11. QED
  BY <1>2, <1>9, <1>10

LEMMA AheadWalk ==
  ASSUME Base, OwedReachable, OwedAhead, NEW r \in Roots, Walk(r), NEW i \in Owed(r)
  PROVE  /\ \A p : thread[r].stack[1].left = {} /\ Drops(thread[r], p) /\ GoesOn(thread[r], p) =>
              Ahead(p, i)
         /\ \A key \in thread[r].stack[1].left : \A p :
              Len(thread[r].stack) = 1 /\ Visits(thread[r], p, key, "child") => Ahead(p, i)
         /\ \A key \in thread[r].stack[1].left : \A p :
              Len(thread[r].stack) # 1 /\ p.set = 0 /\ Visits(thread[r], p, key, "created") =>
                Ahead(p, i)
<1>1. PICK owner : Owners(owner)
  BY DEF Base, SetsSound
<1>2. PICK s : s = thread[r]
  OBVIOUS
<1>3. s.pc = "walk" /\ s \in Local /\ CallbackSound(r, s, owner) /\ s.stack \in Seq(Frame)
  BY <1>1, <1>2, Running DEF Walk, At, Base
<1>4. InLoops(s, i)
  BY <1>2, <1>3 DEF OwedAhead, At, Ahead
<1>5. s.stack # << >> /\ 1 \in DOMAIN s.stack
  BY <1>3 DEF CallbackSound
<1>6. ASSUME NEW p, s.stack[1].left = {}, Drops(s, p), GoesOn(s, p) PROVE Ahead(p, i)
  <2>1. InLoops(p, i) /\ p.stack # << >>
    BY <1>3, <1>4, <1>6, LoopsDropped
  <2>2. QED
    BY <1>6, <2>1 DEF GoesOn, Ahead, Announcing
<1>7. ASSUME NEW key \in s.stack[1].left, Len(s.stack) = 1, NEW p, Visits(s, p, key, "child")
      PROVE  Ahead(p, i)
  <2>1. FrameSound(r, s.stack[1], owner) /\ owner[s.stack[1].set] = r
    BY <1>3, <1>5, <1>7 DEF CallbackSound, Announcing
  <2>2. key \in Members(r)
    BY <1>1, <2>1 DEF FrameSound, Owners
  <2>3. Parent[key] = r /\ Root(key) = r
    BY <2>2, MemberFacts, RootFacts
  <2>4. InLoops(p, i) \/ i = key \/ i = r \/ Parent[i] = key
    BY <1>3, <1>4, <1>7, <2>3, LoopsVisited
  <2>5. QED
    BY <1>7, <2>4 DEF Visits, Ahead, Announcing
<1>8. ASSUME NEW key \in s.stack[1].left, Len(s.stack) # 1, NEW p, p.set = 0,
             Visits(s, p, key, "created")
      PROVE  Ahead(p, i)
  <2>1. FrameSound(r, s.stack[1], owner) /\ owner[s.stack[1].set] \in Members(r)
    <3>1. Len(s.stack) <= 2 /\ (Len(s.stack) = 2 => owner[s.stack[1].set] \in Members(r))
      BY <1>3 DEF CallbackSound, Announcing
    <3>2. Len(s.stack) \in Nat /\ Len(s.stack) # 0
      BY <1>3, <1>5
    <3>3. PICK n \in Nat : n = Len(s.stack)
      BY <3>2
    <3>4. n = 2
      <4>1. n <= 2 /\ n # 0 /\ n # 1
        BY <1>8, <3>1, <3>2, <3>3
      <4>2. QED
        BY <4>1
    <3>5. FrameSound(r, s.stack[1], owner)
      BY <1>3, <1>5 DEF CallbackSound
    <3>6. QED
      BY <3>1, <3>3, <3>4, <3>5
  <2>2. key \in Members(owner[s.stack[1].set])
    BY <1>1, <2>1 DEF FrameSound, Owners
  <2>3. key \in Leaves
    BY <2>1, <2>2, MemberFacts
  <2>4. InLoops(p, i) \/ i = key \/ i = Parent[key] \/ i = Root(key)
    BY <1>3, <1>4, <1>8, LoopsVisited
  <2>5. CASE InLoops(p, i)
    BY <1>8, <2>5 DEF Visits, Ahead, Announcing
  <2>6. CASE i = key \/ i = Parent[key] \/ i = Root(key)
    <3>1. i \in Covered(key, {})
      BY <2>3, <2>6, OwedFacts DEF Covered
    <3>2. QED
      BY <1>8, <3>1 DEF Visits, Ahead, Children
  <2>7. QED
    BY <2>4, <2>5, <2>6
<1>9. QED
  BY <1>2, <1>6, <1>7, <1>8

LEMMA AheadCreated ==
  ASSUME NEW s, s.pc = "created", NEW i, Ahead(s, i), i \notin Covered(s.key, Children(s)),
         NEW p, p.stack = s.stack, GoesOn(s, p)
  PROVE  Ahead(p, i)
<1>1. InLoops(s, i)
  BY DEF Ahead
<1>2. s.stack # << >>
  BY <1>1 DEF InLoops
<1>3. QED
  BY <1>1, <1>2 DEF Ahead, InLoops, GoesOn, Announcing

\* Nothing is owed while keys are deleted.
LEMMA NoneOwed ==
  ASSUME OwedAhead, NEW r \in Roots, thread[r].pc \in {"in", "pop", "unwind"}
  PROVE  Owed(r) = {}
  BY DEF OwedAhead, At, Ahead, Announcing

LEMMA SteadyEntered ==
  ASSUME NEW s \in Local, NEW p, NEW set, NEW pc, Steady(s), Enters(s, p, set, pc)
  PROVE  Steady(p)
<1>1. s.stack \in Seq(Frame) /\ Len(s.stack) \in Nat /\ DOMAIN s.stack = 1 .. Len(s.stack)
  BY DEF Local
<1>2. PICK n \in Nat : n = Len(s.stack)
  BY <1>1
<1>3. ASSUME NEW k \in DOMAIN p.stack PROVE sets[p.stack[k].set] = p.stack[k].all
  <2>1. CASE k = 1
    BY <2>1 DEF Enters
  <2>2. CASE k # 1
    <3>1. k \in 1 .. n + 1
      BY <1>2 DEF Enters
    <3>2. k - 1 \in 1 .. n /\ k = (k - 1) + 1
      BY <1>2, <2>2, <3>1
    <3>3. PICK m \in DOMAIN s.stack : k = m + 1
      BY <1>1, <1>2, <3>2
    <3>4. p.stack[k] = s.stack[m]
      BY <3>3 DEF Enters
    <3>5. QED
      BY <3>4 DEF Steady
  <2>3. QED
    BY <2>1, <2>2
<1>4. QED
  BY <1>3 DEF Steady

LEMMA SteadyMoves ==
  ASSUME NEW s, NEW p, Steady(s)
  PROVE  /\ p.stack = s.stack => Steady(p)
         /\ Drops(s, p) => Steady(p)
         /\ \A key, pc : Visits(s, p, key, pc) => Steady(p)
<1>1. p.stack = s.stack => Steady(p)
  BY DEF Steady
<1>2. Drops(s, p) => Steady(p)
  BY DEF Steady, Drops
<1>3. ASSUME NEW key, NEW pc, Visits(s, p, key, pc) PROVE Steady(p)
  <2>1. ASSUME NEW k \in DOMAIN p.stack PROVE sets[p.stack[k].set] = p.stack[k].all
    BY <1>3 DEF Visits, Steady
  <2>2. QED
    BY <2>1 DEF Steady
<1>4. QED
  BY <1>1, <1>2, <1>3

LEMMA SteadyChosen ==
  ASSUME NEW s \in Local, NEW p, NEW key, NEW set, Steady(s), Chooses(s, p, key, set)
  PROVE  Steady(p)
<1>1. CASE Enters(s, p, set, "walk")
  BY <1>1, SteadyEntered
<1>2. CASE Asks(s, p, key, set) \/ Asks(s, p, key, 0)
  BY <1>2, SteadyMoves DEF Asks
<1>3. QED
  BY <1>1, <1>2 DEF Chooses

\* A callback that owes something comes to it, step by step.
LEMMA CallbackAhead ==
  ASSUME Base, OwedReachable, OwedAhead, NEW r \in Roots, Callback(r)
  PROVE  /\ Owed(r)' \subseteq Owed(r)
         /\ \A i \in Owed(r)' : thread'[r].pc # "idle" => Ahead(thread'[r], i)
         /\ Owed(r)' # {} /\ Steady(thread[r]) => thread'[r].pc # "idle" /\ Steady(thread'[r])
<1>1. PICK owner : Owners(owner)
  BY DEF Base, SetsSound
<1>2. PICK s : s = thread[r]
  OBVIOUS
<1>3. s.pc # "idle" /\ s \in Local /\ s.stack \in Seq(Frame) /\ r # Websocket
  BY <1>1, <1>2, CallbackMove, Running, ThreadNames DEF Base
<1>4. Owed(r)' \subseteq Owed(r)
  BY <1>1, CallbackMove DEF Base, Owed
<1>5. ASSUME NEW p, Moves(r, p),
             \A i \in Owed(r)' : p.pc # "idle" => Ahead(p, i),
             Owed(r)' # {} /\ Steady(s) => p.pc # "idle" /\ Steady(p)
      PROVE  /\ \A i \in Owed(r)' : thread'[r].pc # "idle" => Ahead(thread'[r], i)
             /\ Owed(r)' # {} /\ Steady(s) => thread'[r].pc # "idle" /\ Steady(thread'[r])
  BY <1>5 DEF Moves
<1>6. CASE Start(r)
  <2>1. PICK p \in Local : /\ Moves(r, p)
                           /\ \/ Queued(r) /\ Chooses(s, p, r, queue[r])
                              \/ ~Queued(r) /\ p = Idle
    BY <1>2, <1>6, StartMove DEF Base
  <2>2. \A i \in Owed(r)' : Queued(r) /\ Ahead(p, i)
    BY <1>2, <1>4, <1>6, <2>1, AheadStart
  <2>3. Queued(r) /\ Steady(s) => p.pc # "idle" /\ Steady(p)
    BY <1>3, <2>1, SteadyChosen DEF Chooses, Asks, Enters
  <2>4. QED
    BY <1>2, <1>4, <1>5, <2>1, <2>2, <2>3
<1>7. CASE Child(r)
  <2>1. PICK key : key = s.key
    OBVIOUS
  <2>2. key \in Items
    BY <1>1, <1>2, <1>7, <2>1, ChildKey DEF Child, At, Base
  <2>3. PICK p \in Local : /\ Moves(r, p)
                           /\ \/ Queued(key) /\ Chooses(s, p, key, queue[key])
                              \/ ~Queued(key) /\ Asks(s, p, key, 0)
    BY <1>2, <1>7, <2>1, <2>2, ChildMove DEF Base
  <2>4. \A i \in Owed(r)' : Ahead(p, i)
    BY <1>2, <1>4, <1>7, <2>1, <2>3, AheadChild
  <2>5. p.pc # "idle"
    BY <2>3 DEF Chooses, Asks, Enters
  <2>6. Steady(s) => Steady(p)
    BY <1>3, <2>3, SteadyChosen, SteadyMoves DEF Asks
  <2>7. QED
    BY <1>2, <1>4, <1>5, <2>3, <2>4, <2>5, <2>6
<1>8. CASE Walk(r)
  <2>1. s.stack # << >> /\ 1 \in DOMAIN s.stack
    BY <1>1, <1>2, <1>3, <1>8 DEF Walk, At, Owners, CallbackSound
  <2>2. PICK p \in Local :
        /\ Moves(r, p)
        /\ \/ Changed(s) /\ p = Idle
           \/ ~Changed(s) /\ s.stack[1].left = {} /\ Drops(s, p) /\ GoesOn(s, p)
           \/ /\ ~Changed(s)
              /\ \E key \in s.stack[1].left :
                   \/ Len(s.stack) = 1 /\ Visits(s, p, key, "child")
                   \/ Len(s.stack) # 1 /\ p.set = 0 /\ Visits(s, p, key, "created")
    BY <1>2, <1>8, <2>1, WalkMove DEF Base
  <2>3. CASE Changed(s) /\ p = Idle
    <3>1. ~Steady(s)
      BY <2>1, <2>3 DEF Steady, Changed
    <3>2. QED
      BY <1>2, <1>4, <1>5, <2>2, <2>3, <3>1, IdleLocal
  <2>4. CASE s.stack[1].left = {} /\ Drops(s, p) /\ GoesOn(s, p)
    <3>1. \A i \in Owed(r)' : Ahead(p, i)
      BY <1>2, <1>4, <1>8, <2>4, AheadWalk
    <3>2. p.pc # "idle"
      BY <2>4 DEF GoesOn
    <3>3. QED
      BY <1>2, <1>4, <1>5, <2>2, <2>4, <3>1, <3>2, SteadyMoves
  <2>5. ASSUME NEW key \in s.stack[1].left,
               \/ Len(s.stack) = 1 /\ Visits(s, p, key, "child")
               \/ Len(s.stack) # 1 /\ p.set = 0 /\ Visits(s, p, key, "created")
        PROVE  /\ \A i \in Owed(r)' : Ahead(p, i)
               /\ p.pc # "idle" /\ (Steady(s) => Steady(p))
    <3>1. \A i \in Owed(r)' : Ahead(p, i)
      BY <1>2, <1>4, <1>8, <2>5, AheadWalk
    <3>2. p.pc # "idle"
      BY <2>5 DEF Visits
    <3>3. Steady(s) => Steady(p)
      BY <2>5, SteadyMoves
    <3>4. QED
      BY <3>1, <3>2, <3>3
  <2>6. QED
    BY <1>2, <1>4, <1>5, <2>2, <2>3, <2>4, <2>5
<1>9. CASE Created(r)
  <2>1. s.pc = "created" /\ waiting' = waiting \ Covered(s.key, Children(s)) /\ raced' = raced
    BY <1>1, <1>2, <1>9, CreatedEffect DEF Base
  <2>2. PICK p \in Local :
          /\ Moves(r, p)
          /\ \/ Same(s, p) /\ p.stack = s.stack /\ GoesOn(s, p)
             \/ p = Idle /\ waiting' \cap Tree(r) \subseteq failed'
    BY <1>1, <1>2, <1>9, CreatedEffect DEF Base
  <2>3. CASE p.stack = s.stack /\ GoesOn(s, p)
    <3>1. \A i \in Owed(r)' : i \in Owed(r) /\ i \notin Covered(s.key, Children(s))
      BY <1>4, <2>1 DEF Owed
    <3>2. \A i \in Owed(r)' : Ahead(p, i)
      BY <1>2, <2>1, <2>3, <3>1, AheadCreated DEF OwedAhead, At
    <3>3. p.pc # "idle" /\ (Steady(s) => Steady(p))
      BY <2>3, SteadyMoves DEF GoesOn
    <3>4. QED
      BY <1>2, <1>4, <1>5, <2>2, <3>2, <3>3
  <2>4. CASE p = Idle /\ waiting' \cap Tree(r) \subseteq failed'
    <3>1. Owed(r)' = {}
      BY <2>4 DEF Owed, Tree
    <3>2. QED
      BY <1>2, <1>4, <1>5, <2>2, <3>1
  <2>5. QED
    BY <2>2, <2>3, <2>4
<1>10. CASE MetadataFails(r)
  <2>1. waiting' \cap Tree(r) \subseteq failed'
    BY <1>10, FailsMove DEF Base
  <2>2. Owed(r)' = {}
    BY <2>1 DEF Owed, Tree
  <2>3. QED
    BY <1>4, <2>2
<1>11. CASE DelKeys(r)
  <2>1. Owed(r) = {}
    BY <1>11, NoneOwed DEF DelKeys, At
  <2>2. QED
    BY <1>4, <2>1
<1>12. QED
  BY <1>2, <1>4, <1>6, <1>7, <1>8, <1>9, <1>10, <1>11 DEF Callback

-----------------------------------------------------------------------------
(* The debts in a step of Receive, Fire or a callback. *)

LEMMA OwedShrinks ==
  ASSUME waiting' \subseteq waiting, raced \subseteq raced', failed \subseteq failed', NEW r
  PROVE  Owed(r)' \subseteq Owed(r)
  BY DEF Owed, Tree

\* Sets only grow, so a callback comes to what it came to.
LEMMA AheadGrown ==
  ASSUME TypeOK, NEW owner, Owners(owner), NEW r \in Roots, NEW i, Ahead(thread[r], i),
         thread'[r] = thread[r], \A n \in DOMAIN sets : sets[n] \subseteq sets'[n]
  PROVE  Ahead(thread[r], i)'
<1>1. PICK s : s = thread[r]
  OBVIOUS
<1>2. s.pc # "idle"
  BY <1>1 DEF Ahead, Announcing
<1>3. s.pc = "created" => Children(s) \subseteq Children(s)'
  <2>1. s.pc = "created" => s.set = 0 \/ s.set \in DOMAIN sets
    BY <1>1, <1>2, Running DEF CallbackSound
  <2>2. QED
    BY <2>1 DEF Children
<1>4. s.pc = "created" /\ i \in Covered(s.key, Children(s)) => i \in Covered(s.key, Children(s)')
  BY <1>3 DEF Covered
<1>5. Ahead(s, i)'
  BY <1>1, <1>4 DEF Ahead, Announcing, InLoops
<1>6. QED
  BY <1>1, <1>5

LEMMA ReceiveDebts ==
  ASSUME Base, Debts, Receive
  PROVE  Debts'
<1>1. PICK owner : Owners(owner)
  BY DEF Base, SetsSound
<1>2. thread[Websocket].pc = "idle" /\ UNCHANGED <<queue, sets, jobs, failed>>
  BY ReceiveMove DEF Base, shared
<1>3. PICK i \in Items, p \in Local :
        /\ Moves(Websocket, p) /\ p.item = i /\ ~p.remove
        /\ \/ p.pc = "get" /\ p.todo = Insertions(i) /\ waiting' = waiting \cup {i}
           \/ p.pc = "deleted" /\ UNCHANGED waiting
        /\ raced' = IF At(Root(i), "idle") THEN raced ELSE raced \cup {i}
  BY ReceiveMove DEF Base
<1>4. thread'[Websocket] = p /\ \A r \in Roots : thread'[r] = thread[r]
  BY <1>3, ThreadNames DEF Moves
<1>5. ASSUME NEW r \in Roots, NEW j \in Owed(r)'
      PROVE  j \in Owed(r) \/ (j = i /\ p.pc = "get" /\ r = Root(i) /\ At(r, "idle"))
  <2>1. j \in waiting' /\ j \in Tree(r) /\ j \notin raced' /\ j \notin failed /\ Root(j) = r
    BY <1>2, <1>5, TreeFacts DEF Owed, Tree
  <2>2. QED
    BY <1>3, <2>1 DEF Owed
<1>6. HalfInserted'
  <2>1. i \in Leaves /\ p.pc = "get" => Len(p.todo) # 1
    <3>1. i \in Leaves => Insertions(i) = <<<<Root(i), Parent[i]>>, <<Parent[i], i>>>>
      BY InsertionFacts
    <3>2. QED
      BY <1>3, <3>1
  <2>2. QED
    BY <1>3, <1>4, <2>1 DEF HalfInserted, Inserting
<1>7. OwedReachable'
  <2>1. ASSUME NEW r \in Roots, NEW j \in Owed(r)'
        PROVE  Reachable(j)' \/ (Inserting(p) /\ p.item = j)
    <3>1. CASE j \in Owed(r)
      <4>1. Reachable(j)
        BY <1>2, <3>1 DEF Debts, OwedReachable, Inserting
      <4>2. QED
        BY <1>2, <4>1 DEF Reachable, Queued, Contents
    <3>2. QED
      BY <1>3, <1>5, <2>1, <3>1 DEF Inserting
  <2>2. QED
    BY <1>4, <2>1 DEF OwedReachable, Inserting
<1>8. OwedAhead'
  <2>1. ASSUME NEW r \in Roots, thread'[r].pc # "idle", NEW j \in Owed(r)'
        PROVE  Ahead(thread[r], j)'
    <3>1. j \in Owed(r)
      BY <1>4, <1>5, <2>1 DEF At
    <3>2. Ahead(thread[r], j)
      BY <1>4, <2>1, <3>1 DEF Debts, OwedAhead, At
    <3>3. QED
      BY <1>1, <1>2, <1>4, <3>2, AheadGrown DEF Base
  <2>2. QED
    BY <2>1 DEF OwedAhead, At
<1>9. OwedPledged'
  <2>1. ASSUME NEW r \in Roots, Owed(r)' # {}
        PROVE  r \in jobs' \/ CreatingIn(r)' \/ Serving(r)'
    <3>1. PICK j \in Owed(r)' : TRUE
      BY <2>1
    <3>2. CASE j \in Owed(r)
      <4>1. r \in jobs \/ Serving(r)
        BY <1>2, <3>2 DEF Debts, OwedPledged, CreatingIn, Creating
      <4>2. QED
        BY <1>2, <1>4, <4>1 DEF Serving, Steady, At
    <3>3. CASE j = i /\ p.pc = "get" /\ r = Root(i)
      BY <1>3, <1>4, <3>3 DEF CreatingIn, Creating
    <3>4. QED
      BY <1>5, <3>1, <3>2, <3>3
  <2>2. QED
    BY <2>1 DEF OwedPledged
<1>10. OwedServed'
  BY <1>3, <1>4 DEF OwedServed
<1>11. QED
  BY <1>6, <1>7, <1>8, <1>9, <1>10 DEF Debts

\* A callback that starts comes to whatever is reachable.
LEMMA FireDebts ==
  ASSUME Base, Debts, NEW q \in Roots, Fire(q)
  PROVE  Debts'
<1>1. PICK owner : Owners(owner)
  BY DEF Base, SetsSound
<1>2. UNCHANGED <<queue, sets, waiting, failed>> /\ jobs' = jobs \ {q}
  BY FireMove DEF Base, shared
<1>3. PICK p \in Local :
        /\ Moves(q, p)
        /\ \/ thread[q].pc # "idle" /\ p = thread[q]
           \/ thread[q].pc = "idle" /\ p.pc = "start" /\ p.stack = << >>
  BY FireMove DEF Base
<1>4. /\ raced \subseteq raced'
      /\ thread[q].pc # "idle" => waiting \cap Tree(q) \subseteq raced'
  BY FireMove DEF Base, At
<1>5. /\ thread'[Websocket] = thread[Websocket] /\ thread'[q] = p
      /\ \A r \in Roots : r # q => thread'[r] = thread[r]
  BY <1>3, ThreadNames DEF Moves
<1>6. \A r \in Roots : Owed(r)' \subseteq Owed(r)
  BY <1>2, <1>4, OwedShrinks
<1>7. ASSUME Owed(q)' # {} PROVE p.pc = "start" /\ p.stack = << >> /\ Serving(q)'
  <2>1. thread[q].pc = "idle"
    BY <1>2, <1>4, <1>7 DEF Owed, Tree
  <2>2. p.pc = "start" /\ p.stack = << >>
    BY <1>3, <2>1
  <2>3. QED
    BY <1>5, <2>2 DEF Serving, Steady, At
<1>8. HalfInserted'
  BY <1>2, <1>4, <1>5 DEF Debts, HalfInserted, Queued, Contents
<1>9. OwedReachable'
  <2>1. ASSUME NEW r \in Roots, NEW j \in Owed(r)'
        PROVE  \/ Reachable(j)'
               \/ Inserting(thread'[Websocket]) /\ thread'[Websocket].item = j
    <3>1. Reachable(j) \/ (Inserting(thread[Websocket]) /\ thread[Websocket].item = j)
      BY <1>6, <2>1 DEF Debts, OwedReachable
    <3>2. QED
      BY <1>2, <1>5, <3>1 DEF Reachable, Queued, Contents
  <2>2. QED
    BY <2>1 DEF OwedReachable, Inserting
<1>10. OwedAhead'
  <2>1. ASSUME NEW r \in Roots, thread'[r].pc # "idle", NEW j \in Owed(r)'
        PROVE  Ahead(thread[r], j)'
    <3>1. CASE r = q
      BY <1>5, <1>7, <2>1, <3>1 DEF Ahead
    <3>2. CASE r # q
      <4>1. Ahead(thread[r], j)
        BY <1>5, <1>6, <2>1, <3>2 DEF Debts, OwedAhead, At
      <4>2. QED
        BY <1>1, <1>2, <1>5, <3>2, <4>1, AheadGrown DEF Base
    <3>3. QED
      BY <3>1, <3>2
  <2>2. QED
    BY <2>1 DEF OwedAhead, At
<1>11. \A r \in Roots : r # q /\ Serving(r) => Serving(r)'
  BY <1>2, <1>5 DEF Serving, Steady, At
<1>12. OwedPledged'
  <2>1. ASSUME NEW r \in Roots, Owed(r)' # {}, r # q
        PROVE  r \in jobs' \/ CreatingIn(r)' \/ Serving(r)'
    <3>1. r \in jobs \/ CreatingIn(r) \/ Serving(r)
      BY <1>6, <2>1 DEF Debts, OwedPledged
    <3>2. QED
      BY <1>2, <1>5, <1>11, <2>1, <3>1 DEF CreatingIn, Creating
  <2>2. QED
    BY <1>7, <2>1 DEF OwedPledged
<1>13. OwedServed'
  <2>1. PICK s, r : s = thread[Websocket] /\ r = Root(s.item)
    OBVIOUS
  <2>2. ASSUME s.pc = "set_job", s.found, r \notin jobs', Owed(r)' # {} PROVE Serving(r)'
    <3>1. r \in Roots
      BY <1>1, <2>1, <2>2, AtWork DEF Base
    <3>2. CASE r = q
      BY <1>7, <2>2, <3>2
    <3>3. CASE r # q
      <4>1. Serving(r)
        BY <1>2, <1>6, <2>1, <2>2, <3>1, <3>3 DEF Debts, OwedServed
      <4>2. QED
        BY <1>11, <3>1, <3>3, <4>1
    <3>4. QED
      BY <3>2, <3>3
  <2>3. QED
    BY <1>5, <2>1, <2>2 DEF OwedServed
<1>14. QED
  BY <1>8, <1>9, <1>10, <1>12, <1>13 DEF Debts
\* Only a callback that pops a key of its tree makes the queue smaller.
LEMMA CallbackQueue ==
  ASSUME TypeOK, NEW owner, Owners(owner), NEW q \in Roots, Callback(q)
  PROVE  /\ DOMAIN queue \ DOMAIN queue' \subseteq Tree(q)
         /\ queue' # queue => thread[q].pc = "pop"
<1>1. CASE DelKeys(q)
  <2>1. q \in Threads /\ q # Websocket
    BY ThreadNames
  <2>2. PICK s : s = thread[q]
    OBVIOUS
  <2>3. s.pc = "pop" => s.key \in Tree(q)
    BY <2>2, Running DEF CallbackSound
  <2>4. s.pc = "pop" /\ queue' # queue => queue' = Restrict(queue, DOMAIN queue \ {s.key})
    BY <1>1, <2>2 DEF DelKeys, At
  <2>5. s.pc # "pop" => queue' = queue
    BY <1>1, <2>2 DEF DelKeys, At
  <2>6. queue' # queue => DOMAIN queue \ DOMAIN queue' \subseteq Tree(q)
    BY <2>3, <2>4, <2>5 DEF Restrict
  <2>7. QED
    BY <2>2, <2>5, <2>6
<1>2. CASE ~DelKeys(q)
  <2>1. queue' = queue
    BY <1>2 DEF Callback, Start, Child, Walk, Created, MetadataFails, shared
  <2>2. QED
    BY <2>1
<1>3. QED
  BY <1>1, <1>2

\* A step of a callback: what is owed in its tree is still ahead of it.
LEMMA CallbackDebts ==
  ASSUME Base, Debts, NEW q \in Roots, Callback(q)
  PROVE  Debts'
<1>1. PICK owner : Owners(owner)
  BY DEF Base, SetsSound
<1>2. /\ thread[q].pc # "idle" /\ UNCHANGED <<sets, jobs, raced>>
      /\ waiting' \subseteq waiting /\ failed \subseteq failed'
      /\ \A k \in DOMAIN queue' : queue'[k] = queue[k]
  BY <1>1, CallbackMove DEF Base
<1>3. /\ thread'[Websocket] = thread[Websocket]
      /\ \A r \in Roots : r # q => thread'[r] = thread[r]
  <2>1. PICK p \in Local : Moves(q, p)
    BY <1>1, CallbackMove DEF Base
  <2>2. QED
    BY <2>1, ThreadNames DEF Moves
<1>4. \A r \in Roots : Owed(r)' \subseteq Owed(r)
  BY <1>2, OwedShrinks
<1>5. \A k \in DOMAIN queue : k \in DOMAIN queue' \/ k \in Tree(q)
  BY <1>1, CallbackQueue DEF Base
<1>6. ASSUME NEW r \in Roots, r # q, NEW j \in Items, Root(j) = r, Reachable(j)
      PROVE  Reachable(j)'
  <2>1. \A k \in Items : Root(k) = r => k \notin Tree(q)
    BY <1>6 DEF Tree
  <2>2. Root(r) = r /\ (j \in Leaves => Parent[j] \in Items /\ Root(Parent[j]) = r)
    BY <1>6, Kinds, RootFacts
  <2>3. Queued(r) => Queued(r)' /\ Contents(r)' = Contents(r)
    BY <1>2, <1>5, <2>1, <2>2, Kinds DEF Queued, Contents
  <2>4. j \in Leaves /\ Queued(Parent[j]) =>
          Queued(Parent[j])' /\ Contents(Parent[j])' = Contents(Parent[j])
    BY <1>2, <1>5, <2>1, <2>2 DEF Queued, Contents
  <2>5. QED
    BY <1>6, <2>3, <2>4 DEF Reachable
<1>7. HalfInserted'
  <2>1. PICK s, r : s = thread[Websocket] /\ r = Root(s.item)
    OBVIOUS
  <2>2. ASSUME Inserting(s), s.item \notin raced, s.item \in Leaves, Len(s.todo) = 1
        PROVE  Queued(r)' /\ Parent[s.item] \in Contents(r)'
    <3>1. Queued(r) /\ Parent[s.item] \in Contents(r)
      BY <2>1, <2>2 DEF Debts, HalfInserted
    <3>2. s.pc # "idle"
      BY <2>2 DEF Inserting
    <3>3. r \in Roots /\ r # q /\ Root(r) = r /\ r \in Items
      BY <1>1, <1>2, <2>1, <2>2, <3>2, AtWork, RootFacts, Kinds DEF Base, Undisturbed, At
    <3>4. r \in DOMAIN queue'
      BY <1>5, <3>1, <3>3 DEF Queued, Tree
    <3>5. QED
      BY <1>2, <3>1, <3>4 DEF Queued, Contents
  <2>3. QED
    BY <1>2, <1>3, <2>1, <2>2 DEF HalfInserted, Inserting
<1>8. OwedReachable'
  <2>1. ASSUME NEW r \in Roots, NEW j \in Owed(r)'
        PROVE  \/ Reachable(j)'
               \/ Inserting(thread'[Websocket]) /\ thread'[Websocket].item = j
    <3>1. j \in Owed(r)
      BY <1>4, <2>1
    <3>2. Reachable(j) \/ (Inserting(thread[Websocket]) /\ thread[Websocket].item = j)
      BY <3>1 DEF Debts, OwedReachable
    <3>3. j \in Items /\ Root(j) = r
      BY <3>1, OwedFacts
    <3>4. CASE r # q
      BY <1>3, <1>6, <3>2, <3>3, <3>4
    <3>5. CASE r = q
      <4>1. queue' = queue
        BY <1>1, <3>1, <3>5, CallbackQueue, NoneOwed DEF Base, Debts
      <4>2. QED
        BY <1>2, <1>3, <3>2, <4>1 DEF Reachable, Queued, Contents
    <3>6. QED
      BY <3>4, <3>5
  <2>2. QED
    BY <2>1 DEF OwedReachable, Inserting
<1>9. /\ \A i \in Owed(q)' : thread'[q].pc # "idle" => Ahead(thread'[q], i)
      /\ Owed(q)' # {} /\ Steady(thread[q]) => thread'[q].pc # "idle" /\ Steady(thread'[q])
  BY CallbackAhead DEF Debts
<1>10. OwedAhead'
  <2>1. ASSUME NEW r \in Roots, thread'[r].pc # "idle", NEW j \in Owed(r)'
        PROVE  Ahead(thread[r], j)'
    <3>1. CASE r = q
      <4>1. Ahead(thread'[q], j)
        BY <1>9, <2>1, <3>1
      <4>2. QED
        BY <1>2, <3>1, <4>1 DEF Ahead, Announcing, InLoops, Children
    <3>2. CASE r # q
      <4>1. Ahead(thread[r], j)
        BY <1>3, <1>4, <2>1, <3>2 DEF Debts, OwedAhead, At
      <4>2. QED
        BY <1>1, <1>2, <1>3, <3>2, <4>1, AheadGrown DEF Base
    <3>3. QED
      BY <3>1, <3>2
  <2>2. QED
    BY <2>1 DEF OwedAhead, At
<1>11. ASSUME NEW r \in Roots, Owed(r)' # {}, Serving(r) PROVE Serving(r)'
  <2>1. CASE r = q
    BY <1>2, <1>9, <1>11, <2>1 DEF Serving, Steady, At
  <2>2. CASE r # q
    BY <1>2, <1>3, <1>11, <2>2 DEF Serving, Steady, At
  <2>3. QED
    BY <2>1, <2>2
<1>12. OwedPledged'
  <2>1. ASSUME NEW r \in Roots, Owed(r)' # {}
        PROVE  r \in jobs' \/ CreatingIn(r)' \/ Serving(r)'
    <3>1. r \in jobs \/ CreatingIn(r) \/ Serving(r)
      BY <1>4, <2>1 DEF Debts, OwedPledged
    <3>2. QED
      BY <1>2, <1>3, <1>11, <2>1, <3>1 DEF CreatingIn, Creating
  <2>2. QED
    BY <2>1 DEF OwedPledged
<1>13. OwedServed'
  <2>1. PICK s, r : s = thread[Websocket] /\ r = Root(s.item)
    OBVIOUS
  <2>2. ASSUME s.pc = "set_job", s.found, r \notin jobs', Owed(r)' # {} PROVE Serving(r)'
    <3>1. r \in Roots
      BY <1>1, <2>1, <2>2, AtWork DEF Base
    <3>2. Serving(r)
      BY <1>2, <1>4, <2>1, <2>2, <3>1 DEF Debts, OwedServed
    <3>3. QED
      BY <1>11, <2>2, <3>1, <3>2
  <2>3. QED
    BY <1>3, <2>1, <2>2 DEF OwedServed
<1>14. QED
  BY <1>7, <1>8, <1>10, <1>12, <1>13 DEF Debts
-----------------------------------------------------------------------------
(* The debts in a step of an event. *)

\* The keys but those of episodes keep what is queued under them.
Kept ==
  \A k \in DOMAIN queue \ Leaves : k \in DOMAIN queue' /\ sets[queue[k]] \subseteq sets'[queue'[k]]

\* What is reachable stays reachable while keys and members stay.
LEMMA ReachableKept ==
  ASSUME Kept, NEW i \in Items, Reachable(i)
  PROVE  Reachable(i)'
<1>1. Root(i) \notin Leaves /\ (i \in Leaves => Parent[i] \notin Leaves)
  BY RootFacts, Kinds
<1>2. \A k : k \notin Leaves /\ Queued(k) => Queued(k)' /\ Contents(k) \subseteq Contents(k)'
  BY DEF Kept, Queued, Contents
<1>3. QED
  BY <1>1, <1>2 DEF Reachable

\* What the steps of Insert do to the sets and the queue, and what the last of them
\* has done.
LEMMA InsertMove ==
  ASSUME TypeOK, NEW owner, Owners(owner), Insert, NEW s, s = thread[Websocket]
  PROVE  /\ s.pc \in {"get", "add", "assign", "leaf"} /\ s.item \in Items /\ ~s.remove
         /\ UNCHANGED <<jobs, waiting, raced, failed>>
         /\ \A n \in DOMAIN sets :
              /\ n \in DOMAIN sets' /\ sets[n] \subseteq sets'[n]
              /\ sets'[n] = sets[n] \/ owner[n] \in Tree(Root(s.item))
         /\ Kept
         /\ \E p \in Local :
              /\ Moves(Websocket, p) /\ p.item = s.item /\ ~p.remove
              /\ p.pc \in {"get", "add", "assign", "leaf", "get_job"}
              /\ Inserting(p) =>
                   \/ Inserting(s) /\ p.todo = s.todo
                   \/ s.item \in Leaves => /\ Queued(Root(s.item))'
                                           /\ Parent[s.item] \in Contents(Root(s.item))'
              /\ Inserting(s) =>
                   \/ Inserting(p)
                   \/ s.item \in Roots /\ Queued(s.item)'
                   \/ /\ s.item \notin Roots /\ (s.item \in Leaves => Len(s.todo) = 1)
                      /\ Queued(Parent[s.item])' /\ s.item \in Contents(Parent[s.item])'
<1>1. /\ s.pc \in {"get", "add", "assign", "leaf"} /\ s.item \in Items /\ ~s.remove
      /\ WebsocketSound(s, owner)
  <2>1. s.pc \in {"get", "add", "assign", "leaf"}
    BY DEF Insert, At
  <2>2. s.pc \notin {"get_job", "set_job"} /\ s.pc # "idle"
    BY <2>1
  <2>3. QED
    BY <2>1, <2>2, AtWork DEF WebsocketSound
<1>2. \A k \in DOMAIN queue : queue[k] \in DOMAIN sets
  BY SetTyped
<1>3. CASE s.pc = "leaf"
  <2>1. s.item \in Leaves
    BY <1>1, <1>3 DEF WebsocketSound
  <2>2. /\ UNCHANGED <<jobs, waiting, raced, failed>> /\ sets' = Append(sets, {Root(s.item)})
        /\ Assigned(s.item, Len(sets) + 1)
    BY <1>3, LeafMove DEF aux
  <2>3. PICK p \in Local : Moves(Websocket, p) /\ Stays(s, p, "get_job")
    BY <1>3, LeafMove
  <2>4. \A n \in DOMAIN sets : n \in DOMAIN sets' /\ sets'[n] = sets[n]
    BY <2>2, SetTyped
  <2>5. Kept
    BY <1>2, <2>1, <2>2, <2>4 DEF Kept, Assigned
  <2>6. ~Inserting(p) /\ ~Inserting(s)
    BY <1>3, <2>3 DEF Inserting, Stays
  <2>7. QED
    BY <1>1, <2>2, <2>3, <2>4, <2>5, <2>6 DEF Stays, Same
<1>4. CASE s.pc # "leaf"
  <2>1. Inserting(s) /\ TodoSound(s)
    BY <1>1, <1>4 DEF Inserting, WebsocketSound
  <2>2. PICK key \in Items, member \in Items \cup {NoItem} :
          /\ s.todo[1][1] = key /\ s.todo[1][2] = member /\ Inserts(s, key, member)
          /\ key \notin Leaves /\ key \in Tree(Root(s.item))
    BY <1>1, <2>1, TodoFacts
  <2>3. CASE s.pc = "get"
    <3>1. UNCHANGED <<queue, jobs, waiting, raced, failed>>
      BY <2>2, <2>3, GetMove DEF aux
    <3>2. PICK p \in Local :
            /\ Moves(Websocket, p) /\ Same(s, p) /\ p.pc = "add"
            /\ UNCHANGED sets \/ sets' = Append(sets, {})
      BY <2>2, <2>3, GetMove
    <3>3. \A n \in DOMAIN sets : n \in DOMAIN sets' /\ sets'[n] = sets[n]
      BY <3>2, SetTyped
    <3>4. Kept
      BY <1>2, <3>1, <3>3 DEF Kept
    <3>5. Inserting(p)
      BY <3>2 DEF Inserting
    <3>6. QED
      BY <1>1, <2>1, <3>1, <3>2, <3>3, <3>4, <3>5 DEF Same
  <2>4. CASE s.pc = "add"
    <3>1. UNCHANGED <<queue, jobs, waiting, raced, failed>>
          /\ sets' = [sets EXCEPT ![s.set] = @ \cup ({member} \ {NoItem})]
      BY <2>2, <2>4, AddMove DEF aux
    <3>2. PICK p \in Local : Moves(Websocket, p) /\ Stays(s, p, "assign")
      BY <2>2, <2>4, AddMove
    <3>3. owner[s.set] = key
      BY <1>1, <2>2, <2>4 DEF WebsocketSound
    <3>4. \A n \in DOMAIN sets : /\ n \in DOMAIN sets' /\ sets[n] \subseteq sets'[n]
                                 /\ sets'[n] = sets[n] \/ owner[n] \in Tree(Root(s.item))
      BY <2>2, <3>1, <3>3
    <3>5. Kept
      BY <1>2, <3>1, <3>4 DEF Kept
    <3>6. Inserting(p) /\ p.todo = s.todo /\ p.item = s.item /\ ~p.remove /\ p.pc = "assign"
      BY <1>1, <3>2 DEF Inserting, Stays, Same
    <3>7. QED
      BY <1>1, <2>1, <3>1, <3>2, <3>4, <3>5, <3>6
  <2>5. CASE s.pc = "assign"
    <3>1. s.todo # << >>
      BY <2>2 DEF Inserts
    <3>2. UNCHANGED <<sets, jobs, waiting, raced, failed>> /\ Assigned(key, s.set)
      BY <2>2, <2>5, <3>1, AssignMove DEF aux
    <3>3. PICK p \in Local :
            /\ Moves(Websocket, p) /\ p.item = s.item /\ p.remove = s.remove
            /\ p.pc = IF Len(s.todo) > 1 THEN "get"
                      ELSE IF s.item \in Leaves THEN "leaf" ELSE "get_job"
      BY <2>2, <2>5, <3>1, AssignMove
    <3>4. /\ {member} \ {NoItem} \subseteq sets[s.set]
          /\ Queued(key) => queue[key] = s.set
      BY <1>1, <2>2, <2>5 DEF WebsocketSound
    <3>5. Kept
      BY <1>2, <3>2, <3>4 DEF Kept, Assigned, Queued
    <3>6. Queued(key)' /\ ({member} \ {NoItem} \subseteq Contents(key)')
      BY <3>2, <3>4 DEF Assigned, Queued, Contents
    <3>7. CASE Len(s.todo) = 2
      <4>1. s.item \in Leaves /\ key = Root(s.item) /\ member = Parent[s.item] /\ p.pc = "get"
        BY <2>2, <3>3, <3>7 DEF Inserts
      <4>2. member # NoItem
        BY <4>1, Kinds
      <4>3. Inserting(p)
        BY <4>1 DEF Inserting
      <4>4. QED
        BY <1>1, <3>2, <3>3, <3>5, <3>6, <4>1, <4>2, <4>3
    <3>8. CASE Len(s.todo) = 1
      <4>1. p.pc = IF s.item \in Leaves THEN "leaf" ELSE "get_job"
        BY <3>3, <3>8
      <4>2. ~Inserting(p)
        BY <4>1 DEF Inserting
      <4>3. \/ s.item \in Roots /\ key = s.item
            \/ s.item \notin Roots /\ key = Parent[s.item] /\ member = s.item
        BY <2>2, <3>8, Kinds DEF Inserts
      <4>4. s.item # NoItem
        BY <1>1, Kinds
      <4>5. QED
        BY <1>1, <3>2, <3>3, <3>5, <3>6, <3>8, <4>1, <4>2, <4>3, <4>4
    <3>9. QED
      BY <2>2, <3>7, <3>8 DEF Inserts
  <2>6. QED
    BY <1>1, <1>4, <2>3, <2>4, <2>5
<1>5. QED
  BY <1>3, <1>4
\* A step of an event that pays nothing: the callbacks stay where they are.
LEMMA EventAhead ==
  ASSUME Base, OwedAhead, NEW p, Moves(Websocket, p), NEW r \in Roots, Owed(r)' \subseteq Owed(r),
         \A n \in DOMAIN sets : sets[n] \subseteq sets'[n]
  PROVE  /\ thread'[r] = thread[r]
         /\ thread'[r].pc # "idle" => \A i \in Owed(r)' : Ahead(thread[r], i)'
<1>1. thread'[r] = thread[r]
  BY ThreadNames DEF Moves
<1>2. PICK owner : Owners(owner)
  BY DEF Base, SetsSound
<1>3. ASSUME thread'[r].pc # "idle", NEW i \in Owed(r)' PROVE Ahead(thread[r], i)'
  <2>1. Ahead(thread[r], i)
    BY <1>1, <1>3 DEF OwedAhead, At
  <2>2. QED
    BY <1>1, <1>2, <2>1, AheadGrown DEF Base
<1>4. QED
  BY <1>1, <1>3

\* A step of Insert: what was reachable stays so, the new item becomes reachable.
LEMMA InsertDebts ==
  ASSUME Base, Debts, Insert
  PROVE  Debts'
<1>1. PICK owner : Owners(owner)
  BY DEF Base, SetsSound
<1>2. PICK s : s = thread[Websocket]
  OBVIOUS
<1>3. /\ s.pc \in {"get", "add", "assign", "leaf"} /\ s.item \in Items /\ ~s.remove
      /\ UNCHANGED <<jobs, waiting, raced, failed>>
      /\ \A n \in DOMAIN sets :
           /\ n \in DOMAIN sets' /\ sets[n] \subseteq sets'[n]
           /\ sets'[n] = sets[n] \/ owner[n] \in Tree(Root(s.item))
      /\ Kept
  BY <1>1, <1>2, InsertMove DEF Base
<1>4. PICK p \in Local :
        /\ Moves(Websocket, p) /\ p.item = s.item /\ ~p.remove
        /\ p.pc \in {"get", "add", "assign", "leaf", "get_job"}
        /\ Inserting(p) =>
             \/ Inserting(s) /\ p.todo = s.todo
             \/ s.item \in Leaves => /\ Queued(Root(s.item))'
                                     /\ Parent[s.item] \in Contents(Root(s.item))'
        /\ Inserting(s) =>
             \/ Inserting(p)
             \/ s.item \in Roots /\ Queued(s.item)'
             \/ /\ s.item \notin Roots /\ (s.item \in Leaves => Len(s.todo) = 1)
                /\ Queued(Parent[s.item])' /\ s.item \in Contents(Parent[s.item])'
  BY <1>1, <1>2, InsertMove DEF Base
<1>5. thread'[Websocket] = p /\ \A r \in Roots : thread'[r] = thread[r]
  BY <1>4, ThreadNames DEF Moves
<1>6. \A r : Owed(r)' \subseteq Owed(r)
  BY <1>3, OwedShrinks
<1>7. PICK r0 \in Roots : r0 = Root(s.item)
  BY <1>3, RootFacts
<1>8. s.item \in Leaves => \A n : Queued(r0) /\ n \in Contents(r0) => Queued(r0)' /\ n \in Contents(r0)'
  BY <1>3, <1>7, Kinds DEF Kept, Queued, Contents
<1>9. HalfInserted'
  <2>1. ASSUME Inserting(p), s.item \notin raced, s.item \in Leaves, Len(p.todo) = 1
        PROVE  Queued(r0)' /\ Parent[s.item] \in Contents(r0)'
    <3>1. CASE Inserting(s) /\ p.todo = s.todo
      <4>1. Queued(r0) /\ Parent[s.item] \in Contents(r0)
        BY <1>2, <1>7, <2>1, <3>1 DEF Debts, HalfInserted
      <4>2. QED
        BY <1>8, <2>1, <4>1
    <3>2. CASE ~(Inserting(s) /\ p.todo = s.todo)
      BY <1>4, <1>7, <2>1, <3>2
    <3>3. QED
      BY <3>1, <3>2
  <2>2. QED
    BY <1>3, <1>4, <1>5, <1>7, <2>1 DEF HalfInserted, Inserting
<1>10. OwedReachable'
  <2>1. ASSUME NEW r \in Roots, NEW j \in Owed(r)'
        PROVE  Reachable(j)' \/ (Inserting(p) /\ p.item = j)
    <3>1. j \in Owed(r) /\ j \in Items /\ Root(j) = r /\ j \notin raced
      BY <1>6, <2>1, OwedFacts
    <3>2. CASE Reachable(j)
      BY <1>3, <3>1, <3>2, ReachableKept
    <3>3. CASE Inserting(s) /\ s.item = j /\ ~Inserting(p)
      <4>1. r = r0
        BY <1>7, <3>1, <3>3
      <4>2. CASE j \in Roots
        BY <1>4, <3>1, <3>3, <4>2, Kinds, RootFacts DEF Reachable
      <4>3. CASE j \in Middles
        BY <1>4, <3>1, <3>3, <4>3, Kinds, RootFacts DEF Reachable
      <4>4. CASE j \in Leaves
        <5>1. Queued(Parent[j])' /\ j \in Contents(Parent[j])' /\ Len(s.todo) = 1
          BY <1>4, <3>3, <4>4, Kinds
        <5>2. Queued(r) /\ Parent[j] \in Contents(r)
          BY <1>2, <1>7, <3>1, <3>3, <4>1, <4>4, <5>1 DEF Debts, HalfInserted
        <5>3. Queued(r)' /\ Parent[j] \in Contents(r)'
          BY <1>8, <3>3, <4>1, <4>4, <5>2
        <5>4. QED
          BY <3>1, <4>4, <5>1, <5>3, Kinds DEF Reachable
      <4>5. QED
        BY <3>1, <4>2, <4>3, <4>4, Kinds
    <3>4. Reachable(j) \/ (Inserting(s) /\ s.item = j)
      BY <1>2, <3>1 DEF Debts, OwedReachable
    <3>5. QED
      BY <1>4, <3>2, <3>3, <3>4
  <2>2. QED
    BY <1>5, <2>1 DEF OwedReachable, Inserting
<1>11. OwedAhead'
  <2>1. OwedAhead
    BY DEF Debts
  <2>2. \A r \in Roots : thread'[r].pc # "idle" => \A i \in Owed(r)' : Ahead(thread[r], i)'
    BY <1>3, <1>4, <1>6, <2>1, EventAhead
  <2>3. QED
    BY <2>2 DEF OwedAhead, At
<1>12. ASSUME NEW r \in Roots, r # r0, Serving(r) PROVE Serving(r)'
  <2>1. PICK q : q = thread[r]
    OBVIOUS
  <2>2. q.pc # "idle" /\ thread'[r] = q
    BY <1>5, <1>12, <2>1 DEF Serving, At
  <2>3. ASSUME NEW k \in DOMAIN q.stack PROVE sets'[q.stack[k].set] = q.stack[k].all
    <3>1. FrameSound(r, q.stack[k], owner)
      BY <1>1, <2>1, <2>2, <2>3, Running DEF Base
    <3>2. owner[q.stack[k].set] \notin Tree(r0) /\ q.stack[k].set \in DOMAIN sets
      BY <1>7, <1>12, <3>1, TreeFacts DEF FrameSound
    <3>3. QED
      BY <1>3, <1>7, <1>12, <2>1, <2>3, <3>2 DEF Serving, Steady
  <2>4. QED
    BY <2>1, <2>2, <2>3 DEF Serving, Steady, At
<1>13. OwedPledged'
  <2>1. ASSUME NEW r \in Roots, Owed(r)' # {}
        PROVE  r \in jobs' \/ CreatingIn(r)' \/ Serving(r)'
    <3>1. CASE r = r0
      BY <1>4, <1>5, <1>7, <3>1 DEF CreatingIn, Creating
    <3>2. CASE r # r0
      <4>1. r \in jobs \/ Serving(r)
        BY <1>2, <1>6, <1>7, <2>1, <3>2 DEF Debts, OwedPledged, CreatingIn
      <4>2. QED
        BY <1>3, <1>12, <3>2, <4>1
    <3>3. QED
      BY <3>1, <3>2
  <2>2. QED
    BY <2>1 DEF OwedPledged
<1>14. OwedServed'
  BY <1>4, <1>5 DEF OwedServed
<1>15. QED
  BY <1>9, <1>10, <1>11, <1>13, <1>14 DEF Debts
\* A step of an event that leaves queue and sets and inserts nothing.
LEMMA QuietDebts ==
  ASSUME Base, Debts, NEW p, Moves(Websocket, p), UNCHANGED <<queue, sets, waiting, raced, failed>>,
         ~Inserting(thread[Websocket]), ~Inserting(p)
  PROVE  /\ HalfInserted' /\ OwedReachable' /\ OwedAhead'
         /\ \A r : Owed(r)' = Owed(r)
         /\ \A r \in Roots : Serving(r) => Serving(r)'
<1>1. thread'[Websocket] = p /\ \A r \in Roots : thread'[r] = thread[r]
  BY ThreadNames DEF Moves
<1>2. \A r : Owed(r)' = Owed(r)
  BY DEF Owed, Tree
<1>3. HalfInserted'
  BY <1>1 DEF HalfInserted, Inserting
<1>4. OwedReachable'
  BY <1>2 DEF Debts, OwedReachable, Reachable, Queued, Contents
<1>5. OwedAhead'
  <2>1. OwedAhead
    BY DEF Debts
  <2>2. \A r \in Roots : thread'[r].pc # "idle" => \A i \in Owed(r)' : Ahead(thread[r], i)'
    BY <1>2, <2>1, EventAhead
  <2>3. QED
    BY <2>2 DEF OwedAhead, At
<1>6. \A r \in Roots : Serving(r) => Serving(r)'
  BY <1>1 DEF Serving, Steady, At
<1>7. QED
  BY <1>2, <1>3, <1>4, <1>5, <1>6

LEMMA ScheduleDebts ==
  ASSUME Base, Debts, Schedule
  PROVE  Debts'
<1>1. PICK owner : Owners(owner)
  BY DEF Base, SetsSound
<1>2. PICK s, r0 : s = thread[Websocket] /\ r0 = Root(s.item)
  OBVIOUS
<1>3. UNCHANGED <<queue, sets, waiting, raced, failed>>
  BY DEF Schedule, shared, aux
<1>4. s.pc \in {"get_job", "set_job"} /\ r0 \in Roots /\ WebsocketSound(s, owner)
  <2>1. s.pc \in {"get_job", "set_job"}
    BY <1>2 DEF Schedule, At
  <2>2. s.pc # "idle"
    BY <2>1
  <2>3. QED
    BY <1>1, <1>2, <2>1, <2>2, AtWork DEF Base
<1>5. PICK p \in Local :
        /\ Moves(Websocket, p)
        /\ \/ /\ s.pc = "get_job" /\ p.pc = "set_job" /\ p.found = (r0 \in jobs)
              /\ p.item = s.item /\ p.remove = s.remove /\ UNCHANGED jobs
           \/ /\ s.pc = "set_job" /\ p = Idle
              /\ s.found = (r0 \in jobs) \/ (s.remove /\ ~s.found)
              /\ jobs' = IF ~s.remove THEN jobs \cup {r0}
                         ELSE IF s.found THEN jobs \ {r0} ELSE jobs
           \/ /\ s.pc = "set_job" /\ p = Idle /\ UNCHANGED jobs
              /\ s.found # (r0 \in jobs) /\ (s.remove => s.found)
  BY <1>2, ScheduleMove DEF Base
<1>6. p.pc \in {"set_job", "idle"} /\ ~Inserting(s) /\ ~Inserting(p)
  <2>1. p.pc \in {"set_job", "idle"}
    BY <1>5, IdleLocal
  <2>2. QED
    BY <1>4, <2>1 DEF Inserting
<1>7. thread'[Websocket] = p
  BY <1>5, ThreadNames DEF Moves
<1>8. /\ HalfInserted' /\ OwedReachable' /\ OwedAhead'
      /\ \A r : Owed(r)' = Owed(r)
      /\ \A r \in Roots : Serving(r) => Serving(r)'
  BY <1>2, <1>3, <1>5, <1>6, QuietDebts
<1>9. ASSUME s.remove PROVE Owed(r0) = {}
  <2>1. s.item = r0 /\ ~Queued(r0)
    BY <1>2, <1>4, <1>9, RootFacts DEF WebsocketSound, Removing
  <2>2. ASSUME NEW i \in Owed(r0) PROVE FALSE
    <3>1. Reachable(i)
      BY <1>2, <1>4, <1>6, <2>2 DEF Debts, OwedReachable
    <3>2. QED
      BY <1>4, <2>1, <2>2, <3>1, OwedFacts DEF Reachable
  <2>3. QED
    BY <2>2
<1>10. OwedPledged'
  <2>1. ASSUME NEW r \in Roots, Owed(r)' # {}
        PROVE  r \in jobs' \/ CreatingIn(r)' \/ Serving(r)'
    <3>1. r \in jobs \/ (~s.remove /\ r0 = r) \/ Serving(r)
      BY <1>2, <1>8, <2>1 DEF Debts, OwedPledged, CreatingIn, Creating
    <3>2. CASE p.pc = "set_job"
      <4>1. p.item = s.item /\ p.remove = s.remove /\ jobs' = jobs
        BY <1>5, <3>2, IdleLocal
      <4>2. QED
        BY <1>2, <1>7, <1>8, <3>1, <3>2, <4>1 DEF CreatingIn, Creating
    <3>3. CASE r # r0
      BY <1>5, <1>8, <3>1, <3>2, <3>3
    <3>4. CASE r = r0 /\ p = Idle
      <4>1. ~s.remove
        BY <1>8, <1>9, <2>1, <3>4
      <4>2. s.found /\ r \notin jobs' => s.pc = "set_job" /\ r0 \notin jobs
        BY <1>5, <3>4, <4>1, IdleLocal
      <4>3. s.found /\ r \notin jobs' => Serving(r)
        BY <1>2, <1>8, <2>1, <3>4, <4>2 DEF Debts, OwedServed
      <4>4. ~s.found => r \in jobs'
        <5>1. CASE s.found = FALSE
          <6>1. p.pc = "idle"
            BY <3>4, IdleLocal
          <6>2. \/ jobs' = jobs \cup {r0}
                \/ jobs' = jobs /\ s.found # (r0 \in jobs)
            BY <1>5, <4>1, <6>1
          <6>3. s.found # (r0 \in jobs) => r0 \in jobs
            <7>1. r0 \notin jobs => (r0 \in jobs) = FALSE
              OBVIOUS
            <7>2. QED
              BY <5>1, <7>1
          <6>4. QED
            BY <3>4, <6>2, <6>3
        <5>2. CASE s.found = TRUE
          BY <5>2
        <5>3. s.found \in BOOLEAN
          BY <1>2, ThreadTyped, ThreadNames DEF Base
        <5>4. QED
          BY <5>1, <5>2, <5>3
      <4>5. QED
        BY <1>8, <4>3, <4>4
    <3>5. QED
      BY <1>5, <3>2, <3>3, <3>4
  <2>2. QED
    BY <2>1 DEF OwedPledged
<1>11. OwedServed'
  <2>1. p.pc = "set_job" => (p.found <=> r0 \in jobs') /\ Root(p.item) = r0
    BY <1>2, <1>5, IdleLocal
  <2>2. QED
    BY <1>7, <2>1 DEF OwedServed
<1>12. QED
  BY <1>8, <1>10, <1>11 DEF Debts

LEMMA DeleteDebts ==
  ASSUME Base, Debts, Delete
  PROVE  Debts'
<1>1. PICK s : s = thread[Websocket]
  OBVIOUS
<1>2. UNCHANGED <<queue, sets, waiting, raced, failed, jobs>>
  BY DEF Delete, shared, aux
<1>3. s.pc \in {"deleted", "empty"}
  BY <1>1 DEF Delete, At
<1>4. PICK p \in Local : Moves(Websocket, p) /\ p.pc \in {"idle", "empty", "in"}
  <2>1. PICK p \in Local : /\ Moves(Websocket, p)
                           /\ p = Idle \/ Stays(s, p, "empty") \/ Stays(s, p, "in")
    BY <1>1, DeleteMove DEF Base
  <2>2. QED
    BY <2>1, IdleLocal DEF Stays
<1>5. /\ HalfInserted' /\ OwedReachable' /\ OwedAhead'
      /\ \A r : Owed(r)' = Owed(r)
      /\ \A r \in Roots : Serving(r) => Serving(r)'
  <2>1. ~Inserting(s) /\ ~Inserting(p)
    BY <1>3, <1>4 DEF Inserting
  <2>2. QED
    BY <1>1, <1>2, <1>4, <2>1, QuietDebts
<1>6. thread'[Websocket] = p
  BY <1>4, ThreadNames DEF Moves
<1>7. OwedPledged'
  BY <1>1, <1>2, <1>3, <1>5 DEF Debts, OwedPledged, CreatingIn, Creating
<1>8. OwedServed'
  BY <1>4, <1>6 DEF OwedServed
<1>9. QED
  BY <1>5, <1>7, <1>8 DEF Debts

\* A root that is deleted waits no longer, and nothing hangs on it.
LEMMA WebsocketDelDebts ==
  ASSUME Base, Debts, DelKeys(Websocket)
  PROVE  Debts'
<1>1. PICK owner : Owners(owner)
  BY DEF Base, SetsSound
<1>2. PICK s : s = thread[Websocket]
  OBVIOUS
<1>3. UNCHANGED <<sets, jobs, raced, failed>> /\ s.item \in Roots
  BY <1>1, <1>2, WebsocketDelMove DEF Base
<1>4. s.pc \in {"in", "pop", "unwind"}
  BY <1>2 DEF DelKeys, At
<1>5. PICK p \in Local :
        /\ Moves(Websocket, p) /\ p.pc \in {"pop", "get_job", "idle", "unwind"}
        /\ \/ UNCHANGED <<queue, waiting>>
           \/ /\ Queued(s.item) /\ Contents(s.item) = {}
              /\ DOMAIN queue' = DOMAIN queue \ {s.item}
              /\ \A k \in DOMAIN queue' : queue'[k] = queue[k]
              /\ waiting' = waiting \ {s.item}
  <2>1. PICK p \in Local :
          /\ Moves(Websocket, p)
          /\ \/ s.pc = "in" /\ Queued(s.item) /\ Stays(s, p, "pop") /\ UNCHANGED <<queue, waiting>>
             \/ /\ ~Queued(s.item) /\ p.pc = "get_job" /\ p.item = s.item /\ p.remove
                /\ p.stack = << >> /\ UNCHANGED <<queue, waiting>>
             \/ s.pc = "pop" /\ ~Queued(s.item) /\ p = Idle /\ UNCHANGED <<queue, waiting>>
             \/ /\ s.pc = "pop" /\ Queued(s.item) /\ Contents(s.item) = {}
                /\ DOMAIN queue' = DOMAIN queue \ {s.item}
                /\ \A k \in DOMAIN queue' : queue'[k] = queue[k]
                /\ waiting' = waiting \ {s.item}
                /\ p.pc = "unwind" /\ p.item = s.item /\ p.key = s.key /\ ~p.remove
                /\ Len(p.stack) = 1
                /\ p.stack[1] = [set |-> queue[s.item], all |-> {}, left |-> {}]
    BY <1>1, <1>2, WebsocketDelMove DEF Base
  <2>2. QED
    BY <2>1, IdleLocal DEF Stays
<1>6. thread'[Websocket] = p /\ \A r \in Roots : thread'[r] = thread[r]
  BY <1>5, ThreadNames DEF Moves
<1>7. \A r : Owed(r)' \subseteq Owed(r)
  <2>1. waiting' \subseteq waiting
    BY <1>5
  <2>2. QED
    BY <1>3, <2>1, OwedShrinks
<1>8. HalfInserted'
  BY <1>5, <1>6 DEF HalfInserted, Inserting
<1>9. OwedReachable'
  <2>1. ASSUME NEW r \in Roots, NEW j \in Owed(r)'
        PROVE  Reachable(j)'
    <3>1. j \in Owed(r) /\ j \in Items /\ Root(j) = r
      BY <1>7, <2>1, OwedFacts
    <3>2. Reachable(j)
      BY <1>2, <1>4, <3>1 DEF Debts, OwedReachable, Inserting
    <3>3. CASE UNCHANGED queue
      BY <1>3, <3>2, <3>3 DEF Reachable, Queued, Contents
    <3>4. CASE /\ Contents(s.item) = {} /\ DOMAIN queue' = DOMAIN queue \ {s.item}
               /\ \A k \in DOMAIN queue' : queue'[k] = queue[k]
               /\ waiting' = waiting \ {s.item}
      <4>1. j # s.item
        BY <2>1, <3>4 DEF Owed
      <4>2. r # s.item
        BY <3>1, <3>2, <3>4, <4>1, OwedFacts DEF Reachable
      <4>3. j \in Leaves => Parent[j] # s.item
        BY <1>3, Kinds
      <4>4. Queued(r) => Queued(r)' /\ Contents(r)' = Contents(r)
        BY <1>3, <3>4, <4>2 DEF Queued, Contents
      <4>5. j \in Leaves /\ Queued(Parent[j]) =>
              Queued(Parent[j])' /\ Contents(Parent[j])' = Contents(Parent[j])
        BY <1>3, <3>4, <4>3 DEF Queued, Contents
      <4>6. QED
        BY <3>1, <3>2, <4>4, <4>5 DEF Reachable
    <3>5. QED
      BY <1>5, <3>3, <3>4
  <2>2. QED
    BY <2>1 DEF OwedReachable
<1>10. OwedAhead'
  <2>1. OwedAhead
    BY DEF Debts
  <2>2. \A r \in Roots : thread'[r].pc # "idle" => \A i \in Owed(r)' : Ahead(thread[r], i)'
    BY <1>3, <1>5, <1>7, <2>1, EventAhead
  <2>3. QED
    BY <2>2 DEF OwedAhead, At
<1>11. OwedPledged'
  <2>1. ASSUME NEW r \in Roots, Owed(r)' # {}
        PROVE  r \in jobs' \/ Serving(r)'
    <3>1. r \in jobs \/ Serving(r)
      BY <1>2, <1>4, <1>7, <2>1 DEF Debts, OwedPledged, CreatingIn, Creating
    <3>2. QED
      BY <1>3, <1>6, <3>1 DEF Serving, Steady, At
  <2>2. QED
    BY <2>1 DEF OwedPledged
<1>12. OwedServed'
  BY <1>5, <1>6 DEF OwedServed
<1>13. QED
  BY <1>8, <1>9, <1>10, <1>11, <1>12 DEF Debts

\* No step forgets what is owed to an item that waits.
LEMMA DebtsNext == Base /\ Debts /\ [Next]_vars => Debts'
<1>1. SUFFICES ASSUME Base, Debts, [Next]_vars PROVE Debts'
  OBVIOUS
<1>2. CASE Receive
  BY <1>1, <1>2, ReceiveDebts
<1>3. CASE Handle
  BY <1>1, <1>3, InsertDebts, ScheduleDebts, DeleteDebts, WebsocketDelDebts DEF Handle
<1>4. ASSUME NEW r \in Roots, Fire(r) \/ Callback(r) PROVE Debts'
  BY <1>1, <1>4, FireDebts, CallbackDebts
<1>5. CASE UNCHANGED vars
  <2>1. UNCHANGED <<queue, sets, jobs, thread, waiting, raced, failed>>
    BY <1>5 DEF vars, shared, aux
  <2>2. \A r : Owed(r)' = Owed(r)
    BY <2>1 DEF Owed, Tree
  <2>3. HalfInserted' /\ OwedReachable'
    BY <1>1, <2>1, <2>2 DEF Debts, HalfInserted, OwedReachable, Inserting, Reachable, Queued, Contents
  <2>4. OwedAhead'
    BY <1>1, <2>1, <2>2 DEF Debts, OwedAhead, Ahead, At, Announcing, InLoops, Children
  <2>5. OwedPledged' /\ OwedServed'
    BY <1>1, <2>1, <2>2 DEF Debts, OwedPledged, OwedServed, CreatingIn, Creating, Serving, Steady, At
  <2>6. QED
    BY <2>3, <2>4, <2>5 DEF Debts
<1>6. QED
  BY <1>1, <1>2, <1>3, <1>4, <1>5 DEF Next
-----------------------------------------------------------------------------
(* No callback comes to a key twice. *)

LEMMA ComesOnceGoesOn ==
  ASSUME NEW s, NEW p, ComesOnce(s), GoesOn(s, p), Announcing(s), p.stack = s.stack
  PROVE  ComesOnce(p)
  BY DEF ComesOnce, GoesOn, Announcing

\* The loops of a callback do not come to a key twice.
LEMMA EachOnceNext ==
  ASSUME Base, EachOnce, [Next]_vars
  PROVE  EachOnce'
<1>1. PICK owner : Owners(owner)
  BY DEF Base, SetsSound
<1>2. ASSUME NEW t \in Threads, NEW p, Moves(t, p), t \in Roots => ComesOnce(p)
      PROVE  EachOnce'
  <2>1. \A r \in Roots : thread'[r] = thread[r] \/ (r = t /\ thread'[r] = p)
    BY <1>2, ThreadNames DEF Moves
  <2>2. \A r \in Roots : ComesOnce(thread'[r])
    BY <1>2, <2>1 DEF EachOnce
  <2>3. QED
    BY <2>2 DEF EachOnce, ComesOnce, Announcing
<1>3. CASE Receive \/ Handle
  <2>1. \E p \in Local : Moves(Websocket, p)
    BY <1>1, <1>3, ReceiveMove, HandleMove DEF Base
  <2>2. QED
    BY <1>2, <2>1, ThreadNames
<1>4. ASSUME NEW r \in Roots, NEW s, s = thread[r], s.pc # "idle"
      PROVE  /\ s \in Local /\ ComesOnce(s) /\ CallbackSound(r, s, owner) /\ r \in Threads
             /\ s.stack \in Seq(Frame) /\ s.item = r
  BY <1>1, <1>4, Running DEF Base, EachOnce
<1>5. ASSUME NEW r \in Roots, Fire(r) PROVE EachOnce'
  <2>1. PICK p \in Local : /\ Moves(r, p)
                           /\ p = thread[r] \/ (p.pc = "start" /\ p.stack = << >>)
    BY <1>5, FireMove DEF Base
  <2>2. ComesOnce(p)
    BY <2>1 DEF EachOnce, ComesOnce
  <2>3. QED
    BY <1>2, <2>1, <2>2, ThreadNames
<1>6. ComesOnce(Idle)
  BY IdleLocal DEF ComesOnce, Announcing
<1>7. ASSUME NEW r \in Roots, Start(r) PROVE EachOnce'
  <2>1. PICK s : s = thread[r]
    OBVIOUS
  <2>2. s.pc = "start" /\ s.stack = << >> /\ r \in Threads /\ s.stack \in Seq(Frame)
    BY <1>4, <1>7, <2>1 DEF Start, At, CallbackSound
  <2>3. PICK p \in Local : /\ Moves(r, p)
                           /\ Chooses(s, p, r, queue[r]) \/ p = Idle
    BY <1>7, <2>1, StartMove DEF Base
  <2>4. CASE Chooses(s, p, r, queue[r])
    <3>1. Len(s.stack) = 0
      BY <2>2
    <3>2. \/ p.pc = "created" /\ p.key = r /\ p.stack = << >>
          \/ p.pc = "walk" /\ Len(p.stack) = 1
      BY <2>2, <2>4, <3>1 DEF Chooses, Asks, Enters
    <3>3. ComesOnce(p)
      BY <3>2, Kinds DEF ComesOnce, Announcing
    <3>4. QED
      BY <1>2, <2>2, <2>3, <3>3
  <2>5. QED
    BY <1>2, <1>6, <2>2, <2>3, <2>4
<1>8. ASSUME NEW r \in Roots, Child(r) PROVE EachOnce'
  <2>1. PICK s, key : s = thread[r] /\ key = s.key
    OBVIOUS
  <2>2. s.pc = "child" /\ r \in Threads /\ key \in Middles /\ Len(s.stack) = 1
    BY <1>1, <1>4, <1>8, <2>1, ChildKey DEF Child, At, Base
  <2>3. key \notin s.stack[1].left /\ key \in Items /\ key \notin Roots /\ key \notin Leaves
    BY <1>4, <2>1, <2>2, Kinds DEF ComesOnce
  <2>4. PICK p \in Local : /\ Moves(r, p)
                           /\ \/ Queued(key) /\ Chooses(s, p, key, queue[key])
                              \/ Asks(s, p, key, 0)
    BY <1>8, <2>1, <2>3, ChildMove DEF Base
  <2>5. ASSUME NEW set, Asks(s, p, key, set) PROVE ComesOnce(p)
    BY <2>2, <2>3, <2>5 DEF Asks, ComesOnce
  <2>6. ASSUME Queued(key), Enters(s, p, queue[key], "walk") PROVE ComesOnce(p)
    <3>1. sets[queue[key]] \subseteq Members(key)
      BY <1>1, <2>6, QueuedFacts DEF Base
    <3>2. p.stack[1].all = sets[queue[key]] /\ p.pc = "walk" /\ p.stack[2] = s.stack[1]
      <4>1. 1 \in DOMAIN s.stack
        BY <1>4, <2>1, <2>2
      <4>2. QED
        BY <2>6, <4>1 DEF Enters
    <3>3. \A i \in p.stack[1].all : Parent[i] = key
      BY <2>2, <3>1, <3>2, MemberFacts
    <3>4. QED
      BY <2>3, <3>2, <3>3 DEF ComesOnce
  <2>7. ComesOnce(p)
    BY <2>4, <2>5, <2>6 DEF Chooses
  <2>8. QED
    BY <1>2, <2>2, <2>4, <2>7
<1>9. ASSUME NEW r \in Roots, Walk(r) PROVE EachOnce'
  <2>1. PICK s : s = thread[r]
    OBVIOUS
  <2>2. /\ s.pc = "walk" /\ r \in Threads /\ s.stack # << >> /\ s.stack \in Seq(Frame)
        /\ Len(s.stack) <= 2 /\ ComesOnce(s) /\ s \in Local
        /\ Len(s.stack) = 2 => owner[s.stack[1].set] \in Members(r)
        /\ \A k \in DOMAIN s.stack : FrameSound(r, s.stack[k], owner)
    BY <1>4, <1>9, <2>1 DEF Walk, At, CallbackSound, Announcing
  <2>3. PICK n \in Nat : n = Len(s.stack)
    BY <2>2
  <2>4. n \in {1, 2}
    <3>1. n <= 2
      BY <2>2, <2>3
    <3>2. n # 0
      BY <2>2, <2>3
    <3>3. QED
      BY <3>1, <3>2
  <2>5. PICK p \in Local :
          /\ Moves(r, p)
          /\ \/ p = Idle
             \/ Drops(s, p) /\ GoesOn(s, p)
             \/ \E key \in s.stack[1].left :
                  \/ Len(s.stack) = 1 /\ Visits(s, p, key, "child")
                  \/ Len(s.stack) # 1 /\ Visits(s, p, key, "created")
    BY <1>9, <2>1, <2>2, WalkMove DEF Base
  <2>6. ASSUME Drops(s, p), GoesOn(s, p) PROVE ComesOnce(p)
    <3>1. Len(p.stack) = n - 1
      BY <2>3, <2>6 DEF Drops
    <3>2. Len(p.stack) # 2
      BY <2>4, <3>1
    <3>3. QED
      BY <2>6, <3>2 DEF ComesOnce, GoesOn
  <2>7. ASSUME NEW key \in s.stack[1].left, Len(s.stack) = 1, Visits(s, p, key, "child")
        PROVE  ComesOnce(p)
    BY <2>7 DEF Visits, ComesOnce
  <2>8. ASSUME NEW key \in s.stack[1].left, Len(s.stack) # 1, Visits(s, p, key, "created")
        PROVE  ComesOnce(p)
    <3>1. Len(s.stack) = 2 /\ 1 \in DOMAIN s.stack /\ 2 \in DOMAIN s.stack
      BY <2>2, <2>3, <2>4, <2>8
    <3>2. key \in s.stack[1].all /\ key \in Members(owner[s.stack[1].set])
      BY <1>1, <2>2, <3>1 DEF FrameSound, Owners
    <3>3. key \in Leaves
      BY <2>2, <3>1, <3>2, MemberFacts
    <3>4. \A i \in s.stack[1].all : Parent[i] \notin s.stack[2].left
      BY <2>2, <3>1 DEF ComesOnce, Announcing
    <3>5. QED
      BY <2>8, <3>1, <3>2, <3>3, <3>4, Kinds DEF Visits, ComesOnce
  <2>9. QED
    BY <1>2, <1>6, <2>2, <2>5, <2>6, <2>7, <2>8
<1>10. ASSUME NEW r \in Roots, Created(r) PROVE EachOnce'
  <2>1. PICK s : s = thread[r]
    OBVIOUS
  <2>2. s.pc = "created" /\ r \in Threads /\ ComesOnce(s)
    BY <1>4, <1>10, <2>1 DEF Created, At
  <2>3. PICK p \in Local : Moves(r, p) /\ ((p.stack = s.stack /\ GoesOn(s, p)) \/ p = Idle)
    BY <1>1, <1>10, <2>1, CreatedEffect DEF Base
  <2>4. ComesOnce(p)
    BY <1>6, <2>2, <2>3, ComesOnceGoesOn DEF Announcing
  <2>5. QED
    BY <1>2, <2>2, <2>3, <2>4
<1>11. ASSUME NEW r \in Roots, MetadataFails(r) PROVE EachOnce'
  BY <1>2, <1>6, <1>11, FailsMove, ThreadNames DEF Base
<1>12. ASSUME NEW r \in Roots, DelKeys(r) PROVE EachOnce'
  <2>1. r \in Threads /\ r # Websocket
    BY ThreadNames
  <2>2. thread[r].pc # "idle" /\ (thread[r].pc = "unwind" => thread[r].stack # << >>)
    BY <1>1, <1>12 DEF DelKeys, At, Owners, CallbackSound
  <2>3. PICK p \in Local : Moves(r, p) /\ p.pc \in {"idle", "pop", "in", "unwind"}
    <3>1. PICK p \in Local : /\ Moves(r, p)
                             /\ \/ DelIn(r, thread[r], p) \/ DelPop(r, thread[r], p)
                                \/ DelUnwind(r, thread[r], p)
      BY <1>12, <2>1, <2>2, DelKeysMove DEF Base
    <3>2. Unwound(r) = Idle
      BY <2>1 DEF Unwound
    <3>3. QED
      BY <3>1, <3>2, IdleLocal DEF DelIn, DelPop, DelUnwind, Stays, Enters, Visits
  <2>4. ComesOnce(p)
    BY <2>3 DEF ComesOnce, Announcing
  <2>5. QED
    BY <1>2, <2>1, <2>3, <2>4
<1>13. CASE UNCHANGED vars
  BY <1>13 DEF EachOnce, ComesOnce, Announcing, vars
<1>14. QED
  BY <1>3, <1>5, <1>7, <1>8, <1>9, <1>10, <1>11, <1>12, <1>13 DEF Next, Callback
-----------------------------------------------------------------------------
(* A root that a step has nothing to do with stays as tidy as it was. *)

\* What the websocket thread is at in the tree of a root makes it handle the root.
LEMMA HandlingFacts ==
  ASSUME TypeOK, NEW owner, Owners(owner), NEW r \in Roots
  PROVE  LET s == thread[Websocket] IN
         /\ Removing(s) /\ s.item = r => Handling(r)
         /\ CreatingIn(r) => Handling(r)
         /\ s.pc = "set_job" /\ Root(s.item) = r => Handling(r)
         /\ \A m \in Members(r) : Inserting(s) /\ Parent[s.item] = m => Handling(r) /\ s.item \in Leaves
         /\ \A k \in Tree(r) : s.pc \in {"add", "assign"} /\ s.todo[1][1] = k =>
              Handling(r) /\ Inserting(s) /\ s.set \in DOMAIN sets /\ owner[s.set] = k
<1>1. PICK s : s = thread[Websocket]
  OBVIOUS
<1>2. WebsocketSound(s, owner)
  BY <1>1 DEF Owners
<1>3. s.pc # "idle" => s.item \in Items
  BY <1>1, AtWork
<1>4. Handling(r) <=> s.pc # "idle" /\ Root(s.item) = r
  BY <1>1 DEF Handling, At
<1>5. Removing(s) /\ s.item = r => s.pc # "idle" /\ Root(s.item) = r
  <2>1. Root(r) = r
    BY RootFacts
  <2>2. Removing(s) => s.pc \in {"unwind", "get_job", "set_job"}
    BY <1>2 DEF Removing, WebsocketSound
  <2>3. QED
    BY <2>1, <2>2
<1>6. Creating(s) => s.pc # "idle"
  BY DEF Creating
<1>7. ASSUME NEW m \in Members(r), Inserting(s), Parent[s.item] = m
      PROVE  s.pc # "idle" /\ Root(s.item) = r /\ s.item \in Leaves
  <2>1. s.pc # "idle"
    BY <1>7 DEF Inserting
  <2>2. m \in Middles /\ Root(m) = r
    BY MemberFacts, RootFacts, Kinds
  <2>3. s.item \in Leaves
    BY <1>3, <1>7, <2>1, <2>2, Kinds
  <2>4. QED
    BY <1>7, <2>1, <2>2, <2>3, RootFacts
<1>8. ASSUME NEW k \in Tree(r), s.pc \in {"add", "assign"}, s.todo[1][1] = k
      PROVE  /\ s.pc # "idle" /\ Root(s.item) = r /\ Inserting(s) /\ s.set \in DOMAIN sets
             /\ owner[s.set] = k
  <2>1. Inserting(s) /\ s.pc # "idle" /\ s.item \in Items
    BY <1>3, <1>8 DEF Inserting
  <2>2. TodoSound(s) /\ s.set \in DOMAIN sets /\ owner[s.set] = k
    BY <1>2, <1>8, <2>1 DEF WebsocketSound
  <2>3. k \in Tree(Root(s.item))
    BY <1>8, <2>1, <2>2, TodoFacts
  <2>4. QED
    BY <2>1, <2>2, <2>3 DEF Tree
<1>9. QED
  BY <1>1, <1>4, <1>5, <1>6, <1>7, <1>8 DEF CreatingIn

Elsewhere(owner, r) ==
  /\ thread'[r] = thread[r] /\ (r \in jobs' <=> r \in jobs)
  /\ \A k \in Tree(r) : (Queued(k)' <=> Queued(k)) /\ (Queued(k) => queue'[k] = queue[k])
  /\ \A n \in DOMAIN sets : owner[n] \in Tree(r) => sets'[n] = sets[n]
  /\ waiting' \cap Tree(r) = waiting \cap Tree(r)
  /\ thread'[Websocket] = thread[Websocket] \/ (~Handling(r) /\ ~Handling(r)')

\* A step that leaves the tree, the callback and the events of a root keeps it tidy.
LEMMA ElsewhereTidy ==
  ASSUME Base, TypeOK', SetsSound', NEW owner, Owners(owner), NEW r \in Roots, TidyIn(r),
         Elsewhere(owner, r)
  PROVE  TidyIn(r)'
<1>1. PICK s, w, v : s = thread[r] /\ w = thread[Websocket] /\ v = thread'[Websocket]
  OBVIOUS
<1>2. thread'[r] = s /\ TypeOK
  BY <1>1 DEF Elsewhere, Base
<1>3. PICK owner2 : Owners(owner2)'
  BY DEF SetsSound
<1>4. WebsocketSound(w, owner) /\ CallbackSound(r, s, owner)
  BY <1>1 DEF Owners
<1>5. WebsocketSound(v, owner2)' /\ (v.pc # "idle" => v.item \in Items)
  <2>1. WebsocketSound(v, owner2)'
    BY <1>1, <1>3 DEF Owners
  <2>2. QED
    BY <2>1 DEF WebsocketSound
<1>6. ASSUME v # w
      PROVE  /\ ~(v.pc # "idle" /\ Root(v.item) = r)
             /\ ~Handling(r)
  BY <1>1, <1>6 DEF Elsewhere, Handling, At
<1>7. ASSUME NEW k \in Tree(r), Queued(k)
      PROVE  Queued(k)' /\ Contents(k)' = Contents(k)
  <2>1. queue'[k] = queue[k] /\ Queued(k)'
    BY <1>7 DEF Elsewhere
  <2>2. queue[k] \in DOMAIN sets /\ owner[queue[k]] = k
    BY <1>2, <1>7, QueuedFacts
  <2>3. QED
    BY <2>1, <2>2 DEF Elsewhere, Contents
<1>8. \A k \in Tree(r) : Queued(k)' => Queued(k)
  BY DEF Elsewhere
<1>9. ASSUME v # w, NEW k \in Tree(r)
      PROVE  ~(v.pc \in {"add", "assign"} /\ v.todo[1][1] = k)
  <2>1. SUFFICES ASSUME v.pc \in {"add", "assign"}, v.todo[1][1] = k PROVE FALSE
    OBVIOUS
  <2>2. v.pc # "idle" /\ Inserting(v)
    BY <2>1 DEF Inserting
  <2>3. TodoSound(v)
    BY <1>5, <2>2 DEF WebsocketSound, Inserting, TodoSound
  <2>4. k \in Tree(Root(v.item))
    BY <1>5, <2>1, <2>2, <2>3, TodoFacts
  <2>5. QED
    BY <1>6, <1>9, <2>2, <2>4 DEF Tree
<1>10. ASSUME NEW k \in Tree(r), NEW i, Holds(k, i)' PROVE Holds(k, i)
  <2>1. CASE Queued(k)' /\ i \in Contents(k)'
    BY <1>7, <1>8, <2>1 DEF Holds
  <2>2. CASE v.pc \in {"add", "assign"} /\ v.todo[1][1] = k /\ i \in sets'[v.set]
    <3>1. v = w
      BY <1>9, <2>2
    <3>2. w.set \in DOMAIN sets /\ owner[w.set] = k
      BY <1>1, <1>2, <2>2, <3>1, HandlingFacts
    <3>3. sets'[w.set] = sets[w.set]
      BY <3>2 DEF Elsewhere
    <3>4. QED
      BY <1>1, <2>2, <3>1, <3>3 DEF Holds
  <2>3. QED
    BY <1>1, <1>10, <2>1, <2>2 DEF Holds
<1>11. TreeHangs(r)'
  <2>1. ASSUME NEW k \in Tree(r), Queued(k)' PROVE Pending(r, k)'
    <3>1. Pending(r, k)
      BY <1>8, <2>1 DEF TidyIn, TreeHangs
    <3>2. k # r => Parent[k] \in Tree(r)
      BY Kinds, RootFacts DEF Tree
    <3>3. Hangs(r, k) => Hangs(r, k)'
      BY <1>1, <1>2, <1>7, <3>2 DEF Hangs
    <3>4. QED
      BY <1>1, <1>2, <3>1, <3>3 DEF Pending
  <2>2. QED
    BY <2>1 DEF TreeHangs, Tree
<1>12. JobsMatch(r)'
  <2>1. r \in Tree(r)
    BY TreeFacts
  <2>2. v # w => ~(Removing(w) /\ w.item = r) /\ ~CreatingIn(r)
    BY <1>1, <1>2, <1>6, HandlingFacts
  <2>3. v # w => ~(v.pc = "set_job" /\ Root(v.item) = r)
    BY <1>6
  <2>4. r \in jobs' => s.pc = "idle" /\ (Queued(r)' \/ (Removing(v) /\ v.item = r))
    BY <1>1, <1>7, <2>1, <2>2 DEF TidyIn, JobsMatch, At, Elsewhere
  <2>5. Queued(r)' => r \in jobs' \/ CreatingIn(r)' \/ s.pc # "idle"
    BY <1>1, <1>8, <2>1, <2>2 DEF TidyIn, JobsMatch, At, Elsewhere, CreatingIn
  <2>6. v.pc = "set_job" /\ Root(v.item) = r /\ v.found => r \in jobs'
    BY <1>1, <2>3 DEF TidyIn, JobsMatch, At, Elsewhere
  <2>7. QED
    BY <1>1, <1>2, <2>4, <2>5, <2>6 DEF JobsMatch, At, Removing
<1>13. RunSound(r)'
  <2>1. ASSUME s.pc # "idle", NEW k \in DOMAIN s.stack PROVE sets'[s.stack[k].set] = s.stack[k].all
    <3>1. FrameSound(r, s.stack[k], owner)
      BY <1>4, <2>1 DEF CallbackSound
    <3>2. sets[s.stack[k].set] = s.stack[k].all
      BY <1>1, <2>1 DEF TidyIn, RunSound, Steady, At
    <3>3. QED
      BY <3>1, <3>2 DEF FrameSound, Elsewhere
  <2>2. Announcing(s) => Queued(r)'
    BY <1>1, <1>7, TreeFacts DEF TidyIn, RunSound
  <2>3. s.pc = "pop" => Queued(s.key)'
    BY <1>1, <1>4, <1>7 DEF TidyIn, RunSound, At, CallbackSound
  <2>4. QED
    BY <1>2, <2>1, <2>2, <2>3 DEF RunSound, Steady, At, Announcing
<1>14. AllWait(r)'
  <2>1. /\ r \in Tree(r)
        /\ \A m \in Members(r) : m \in Tree(r) /\ \A l \in Members(m) : l \in Tree(r)
    BY TreeFacts
  <2>2. \A i \in Tree(r) : i \in waiting => i \in waiting'
    BY DEF Elsewhere
  <2>3. RootWaits(r)'
    <3>1. Queued(r)' => Queued(r) /\ Contents(r) = Contents(r)'
      BY <1>7, <1>8, <2>1
    <3>2. QED
      BY <1>1, <1>2, <2>1, <2>2, <3>1 DEF TidyIn, AllWait, RootWaits, Untouched
  <2>4. ASSUME NEW m \in Members(r), Coming(r, m)' PROVE MiddleWaits(r, m)' /\ LeavesWait(m)'
    <3>1. Coming(r, m)
      BY <1>1, <1>2, <2>4 DEF Coming, ComesTo, Untouched, Announcing
    <3>2. MiddleWaits(r, m) /\ LeavesWait(m)
      BY <3>1 DEF TidyIn, AllWait
    <3>3. MiddleWaits(r, m)'
      <4>1. Inserting(w) /\ Parent[w.item] = m => v = w
        BY <1>1, <1>2, <1>6, HandlingFacts
      <4>2. (Untouched(r)' => Holds(r, m)') =>
              m \in waiting \/ Queued(m) \/ (Inserting(w) /\ Parent[w.item] = m)
        BY <1>1, <1>2, <1>10, <2>1, <3>2 DEF MiddleWaits, Untouched
      <4>3. QED
        BY <1>1, <1>7, <2>1, <2>2, <4>1, <4>2 DEF MiddleWaits, Inserting
    <3>4. LeavesWait(m)'
      BY <1>10, <2>1, <2>2, <3>2 DEF LeavesWait, Members
    <3>5. QED
      BY <3>3, <3>4
  <2>5. Announcing(s) /\ Len(s.stack) = 2 => s.stack[1].left \subseteq waiting'
    <3>1. Announcing(s) /\ Len(s.stack) = 2 => s.stack[1].left \subseteq waiting
      BY <1>1 DEF TidyIn, AllWait
    <3>2. Announcing(s) /\ Len(s.stack) = 2 => s.stack[1].left \subseteq Tree(r)
      <4>1. Announcing(s) => s.pc # "idle"
        BY DEF Announcing
      <4>2. Len(s.stack) = 2 /\ s.pc # "idle" => 1 \in DOMAIN s.stack
        BY <1>1, <1>2, Running
      <4>3. QED
        BY <1>1, <1>2, <4>1, <4>2, Running
    <3>3. QED
      BY <2>2, <3>1, <3>2
  <2>6. s.pc = "created" => waiting' \cap Tree(r) # {}
    BY <1>1 DEF TidyIn, AllWait, At, Elsewhere
  <2>7. CreatingIn(r)' => v.item \in waiting'
    <3>1. CASE v = w
      <4>1. CreatingIn(r)' => CreatingIn(r) /\ Root(w.item) = r /\ w.pc # "idle"
        BY <1>1, <3>1 DEF CreatingIn, Creating
      <4>2. w.pc # "idle" => w.item \in Items
        BY <1>1, <1>2, AtWork
      <4>3. QED
        BY <1>1, <2>2, <3>1, <4>1, <4>2 DEF TidyIn, AllWait, Tree
    <3>2. CASE v # w
      BY <1>1, <1>6, <3>2 DEF CreatingIn, Creating
    <3>3. QED
      BY <3>1, <3>2
  <2>8. QED
    BY <1>1, <1>2, <2>3, <2>4, <2>5, <2>6, <2>7 DEF AllWait, At, Announcing, Tree, Members
<1>15. QED
  BY <1>11, <1>12, <1>13, <1>14 DEF TidyIn
-----------------------------------------------------------------------------
(* A callback that no event disturbs. *)

\* A callback of a clean root runs alone.
LEMMA Alone ==
  ASSUME Base, NEW r \in Roots, Clean(r), thread[r].pc # "idle"
  PROVE  ~Handling(r)
<1>1. PICK owner : Owners(owner)
  BY DEF Base, SetsSound
<1>2. thread[Websocket].pc # "idle" => thread[Websocket].item \in Items
  BY <1>1, AtWork DEF Base
<1>3. QED
  BY <1>2 DEF Base, Undisturbed, Clean, Handling, At, Tree

StillWaits(m) == (m \in waiting \/ Queued(m)) /\ (Queued(m) => Contents(m) \subseteq waiting)

\* What the invariant says of a callback that runs alone.
LEMMA AloneFacts ==
  ASSUME Base, NEW r \in Roots, TidyIn(r), thread[r].pc # "idle", ~Handling(r)
  PROVE  /\ r \notin jobs /\ Steady(thread[r])
         /\ thread[r].pc # "start" => \A m \in Members(r) : ComesTo(thread[r], m) => StillWaits(m)
         /\ thread[r].pc = "start" =>
              /\ Queued(r) /\ Contents(r) = {} => r \in waiting
              /\ \A m \in Members(r) : Queued(r) /\ m \in Contents(r) => StillWaits(m)
<1>1. PICK owner : Owners(owner)
  BY DEF Base, SetsSound
<1>2. r \notin jobs /\ Steady(thread[r])
  BY DEF TidyIn, JobsMatch, RunSound, At
<1>3. \A m \in Members(r) : ~(Inserting(thread[Websocket]) /\ Parent[thread[Websocket].item] = m)
  BY <1>1, HandlingFacts DEF Base
<1>4. ASSUME NEW m \in Members(r), LeavesWait(m) PROVE Queued(m) => Contents(m) \subseteq waiting
  <2>1. Queued(m) => Contents(m) \subseteq Members(m)
    BY <1>1, QueuedFacts DEF Base
  <2>2. QED
    BY <1>4, <2>1 DEF LeavesWait, Holds
<1>5. ASSUME thread[r].pc # "start", NEW m \in Members(r), ComesTo(thread[r], m)
      PROVE  StillWaits(m)
  <2>1. MiddleWaits(r, m) /\ LeavesWait(m) /\ ~Untouched(r)
    BY <1>5 DEF TidyIn, AllWait, Coming, Untouched
  <2>2. QED
    BY <1>3, <1>4, <2>1 DEF MiddleWaits, StillWaits
<1>6. ASSUME thread[r].pc = "start"
      PROVE  /\ Queued(r) /\ Contents(r) = {} => r \in waiting
             /\ \A m \in Members(r) : Queued(r) /\ m \in Contents(r) => StillWaits(m)
  <2>1. Untouched(r) /\ RootWaits(r) /\ \A m \in Members(r) : MiddleWaits(r, m) /\ LeavesWait(m)
    BY <1>6 DEF TidyIn, AllWait, Coming, Untouched
  <2>2. \A m \in Members(r) : Queued(r) /\ m \in Contents(r) => Holds(r, m)
    BY DEF Holds
  <2>3. QED
    BY <1>3, <1>4, <2>1, <2>2 DEF MiddleWaits, RootWaits, StillWaits
<1>7. QED
  BY <1>2, <1>5, <1>6

\* What is left to show of a step of such a callback.
LEMMA RunTidy ==
  ASSUME Base, NEW r \in Roots, TidyIn(r), thread[r].pc # "idle", ~Handling(r),
         NEW p, Moves(r, p), UNCHANGED jobs, p.pc \notin {"idle", "start"},
         TreeHangs(r)', Steady(p)', Announcing(p) => Queued(r)', p.pc = "pop" => Queued(p.key)',
         \A m \in Members(r) : ComesTo(p, m) => StillWaits(m)',
         Announcing(p) /\ Len(p.stack) = 2 => p.stack[1].left \subseteq waiting',
         p.pc = "created" => waiting' \cap Tree(r) # {}
  PROVE  TidyIn(r)'
<1>1. PICK owner : Owners(owner)
  BY DEF Base, SetsSound
<1>2. PICK w : w = thread[Websocket]
  OBVIOUS
<1>3. thread'[r] = p /\ thread'[Websocket] = w
  BY <1>2, ThreadNames DEF Moves
<1>4. /\ ~CreatingIn(r) /\ ~(w.pc = "set_job" /\ Root(w.item) = r)
      /\ \A k \in Tree(r) : ~(w.pc \in {"add", "assign"} /\ w.todo[1][1] = k)
  BY <1>1, <1>2, HandlingFacts DEF Base
<1>5. r \notin jobs
  BY AloneFacts
<1>6. JobsMatch(r)'
  BY <1>3, <1>4, <1>5 DEF JobsMatch, At
<1>7. RunSound(r)'
  BY <1>3 DEF RunSound, Steady, At, Announcing
<1>8. AllWait(r)'
  <2>1. ~Untouched(r)' /\ RootWaits(r)'
    BY <1>3 DEF Untouched, RootWaits
  <2>2. ~CreatingIn(r)'
    BY <1>2, <1>3, <1>4 DEF CreatingIn, Creating
  <2>3. ASSUME NEW m \in Members(r), Coming(r, m)' PROVE MiddleWaits(r, m)' /\ LeavesWait(m)'
    <3>1. ComesTo(p, m)
      BY <1>3, <2>1, <2>3 DEF Coming, ComesTo, Announcing
    <3>2. StillWaits(m)'
      BY <3>1
    <3>3. m \in Tree(r)
      BY TreeFacts
    <3>4. \A l : Holds(m, l)' => Queued(m)' /\ l \in Contents(m)'
      BY <1>3, <1>4, <3>3 DEF Holds
    <3>5. QED
      BY <3>2, <3>4 DEF MiddleWaits, LeavesWait, StillWaits
  <2>4. QED
    BY <1>3, <2>1, <2>2, <2>3 DEF AllWait, At, Announcing, Members, Tree
<1>9. QED
  BY <1>6, <1>7, <1>8 DEF TidyIn
\* The steps that announce leave the queue as it is.
LEMMA HangsOn ==
  ASSUME Base, NEW r \in Roots, TidyIn(r), Announcing(thread[r]), NEW p, Moves(r, p),
         UNCHANGED <<queue, sets>>, Announcing(p) \/ (p.pc = "in" /\ p.key = r)
  PROVE  TreeHangs(r)' /\ (Announcing(p) => Queued(r)')
<1>1. thread'[r] = p /\ ~Deleting(thread[r])
  BY DEF Moves, Announcing, Deleting
<1>2. ASSUME NEW k \in Tree(r), Queued(k)' PROVE Pending(r, k)'
  <2>1. Hangs(r, k)
    BY <1>1, <1>2 DEF TidyIn, TreeHangs, Pending, Queued
  <2>2. CASE k # r
    BY <2>1, <2>2 DEF Hangs, Pending, Queued, Contents
  <2>3. CASE k = r
    BY <1>1, <2>3 DEF Hangs, Pending, Deleting, Announcing
  <2>4. QED
    BY <2>2, <2>3
<1>3. Queued(r)'
  BY DEF TidyIn, RunSound, Queued
<1>4. QED
  BY <1>2, <1>3 DEF TreeHangs, Tree

LEMMA StartTidy ==
  ASSUME Base, NEW r \in Roots, Clean(r), TidyIn(r), Start(r)
  PROVE  TidyIn(r)'
<1>1. PICK owner : Owners(owner)
  BY DEF Base, SetsSound
<1>2. PICK s : s = thread[r]
  OBVIOUS
<1>3. /\ s.pc = "start" /\ s.pc # "idle" /\ s \in Local /\ s.stack = << >> /\ Announcing(s)
      /\ ~Handling(r)
  BY <1>1, <1>2, Running, Alone DEF Start, At, Base, CallbackSound, Announcing
<1>4. UNCHANGED <<queue, sets, jobs, waiting>> /\ Queued(r)
  BY <1>2, <1>3 DEF Start, shared, aux, TidyIn, RunSound
<1>5. PICK p \in Local : Moves(r, p) /\ Chooses(s, p, r, queue[r])
  <2>1. Start(r)
    OBVIOUS
  <2>2. QED
    BY <1>2, <1>4, <2>1, StartMove DEF Base
<1>6. PICK set : set = queue[r]
  OBVIOUS
<1>7. /\ Contents(r) = sets[set] /\ sets[set] \subseteq Members(r)
      /\ r \in Tree(r) /\ Members(r) \subseteq Tree(r)
  BY <1>1, <1>4, <1>6, QueuedFacts, TreeFacts DEF Base
<1>8. /\ Steady(s)
      /\ sets[set] = {} => r \in waiting
      /\ \A m \in sets[set] : StillWaits(m)
  BY <1>2, <1>3, <1>4, <1>7, AloneFacts
<1>9. Len(s.stack) = 0
  BY <1>3
<1>10. \/ p.pc = "created" /\ p.stack = << >>
       \/ p.pc = "walk" /\ Len(p.stack) = 1 /\ p.stack[1].left = sets[set]
  BY <1>3, <1>5, <1>6, <1>9 DEF Chooses, Asks, Enters
<1>11. \A m \in Members(r) : ComesTo(p, m) => StillWaits(m)'
  <2>1. ASSUME NEW m \in Members(r), ComesTo(p, m) PROVE StillWaits(m)
    BY <1>8, <1>10, <2>1 DEF ComesTo
  <2>2. QED
    BY <1>4, <2>1 DEF StillWaits, Queued, Contents
<1>12. waiting \cap Tree(r) # {}
  <2>1. CASE sets[set] = {}
    BY <1>7, <1>8, <2>1
  <2>2. CASE sets[set] # {}
    <3>1. PICK m \in sets[set] : TRUE
      BY <2>2
    <3>2. m \in Tree(r) /\ StillWaits(m)
      BY <1>7, <1>8, <3>1
    <3>3. CASE m \in waiting
      BY <3>2, <3>3
    <3>4. CASE Queued(m)
      <4>1. Contents(m) # {} /\ Contents(m) \subseteq Members(m)
        BY <1>1, <1>7, <3>1, <3>4, QueuedFacts, MemberFacts, Kinds DEF Base
      <4>2. Members(m) \subseteq Tree(r) /\ Contents(m) \subseteq waiting
        BY <3>2, <3>4, TreeFacts DEF StillWaits
      <4>3. QED
        BY <4>1, <4>2
    <3>5. QED
      BY <3>2, <3>3, <3>4 DEF StillWaits
  <2>3. QED
    BY <2>1, <2>2
<1>13. Steady(p)'
  <2>1. Steady(p)
    BY <1>3, <1>5, <1>8, SteadyChosen
  <2>2. QED
    BY <1>4, <2>1 DEF Steady
<1>14. Announcing(p) /\ p.pc \notin {"idle", "start", "pop"} /\ Len(p.stack) # 2
  <2>1. p.pc \in {"created", "walk"}
    BY <1>10
  <2>2. Len(p.stack) # 2
    <3>1. Len(<< >>) = 0
      OBVIOUS
    <3>2. QED
      BY <1>10, <3>1
  <2>3. QED
    BY <2>1, <2>2 DEF Announcing
<1>15. TreeHangs(r)' /\ (Announcing(p) => Queued(r)')
  BY <1>2, <1>3, <1>4, <1>5, <1>14, HangsOn
<1>16. QED
  BY <1>2, <1>3, <1>4, <1>5, <1>11, <1>12, <1>13, <1>14, <1>15, RunTidy

LEMMA ChildTidy ==
  ASSUME Base, NEW r \in Roots, Clean(r), TidyIn(r), Child(r)
  PROVE  TidyIn(r)'
<1>1. PICK owner : Owners(owner)
  BY DEF Base, SetsSound
<1>2. PICK s, m : s = thread[r] /\ m = s.key
  OBVIOUS
<1>3. /\ s.pc = "child" /\ s.pc # "idle" /\ s \in Local /\ Announcing(s) /\ ~Handling(r)
      /\ Len(s.stack) = 1 /\ m \in Members(r) /\ m \in Middles /\ m \in Items /\ m \in Tree(r)
      /\ s.stack \in Seq(Frame)
  BY <1>1, <1>2, Running, ChildKey, Alone DEF Child, At, Base, Announcing
<1>4. UNCHANGED <<queue, sets, jobs, waiting>>
  BY DEF Child, shared, aux
<1>5. PICK p \in Local : /\ Moves(r, p)
                         /\ \/ Queued(m) /\ Chooses(s, p, m, queue[m])
                            \/ ~Queued(m) /\ Asks(s, p, m, 0)
  BY <1>2, <1>3, ChildMove DEF Base
<1>6. /\ Steady(s)
      /\ \A j \in Members(r) : ComesTo(s, j) => StillWaits(j)
  BY <1>2, <1>3, AloneFacts
<1>7. StillWaits(m)
  BY <1>2, <1>3, <1>6 DEF ComesTo
<1>8. Queued(m) => Contents(m) = sets[queue[m]] /\ Contents(m) # {} /\ Contents(m) \subseteq Tree(r)
                   /\ Contents(m) \subseteq waiting
  <2>1. Queued(m) => /\ Contents(m) = sets[queue[m]] /\ Contents(m) # {}
                     /\ Contents(m) \subseteq Members(m)
    BY <1>1, <1>3, QueuedFacts, Kinds DEF Base
  <2>2. Members(m) \subseteq Tree(r)
    BY <1>3, TreeFacts
  <2>3. QED
    BY <1>7, <2>1, <2>2 DEF StillWaits
<1>9. \/ p.pc = "created" /\ p.stack = s.stack
      \/ /\ Queued(m) /\ p.pc = "walk" /\ Len(p.stack) = 2 /\ p.stack[2] = s.stack[1]
         /\ p.stack[1].left = Contents(m)
  <2>1. 1 \in DOMAIN s.stack
    BY <1>3
  <2>2. CASE Queued(m) /\ Enters(s, p, queue[m], "walk")
    BY <1>3, <1>8, <2>1, <2>2 DEF Enters
  <2>3. CASE \E set : Asks(s, p, m, set)
    BY <2>3 DEF Asks
  <2>4. QED
    BY <1>5, <2>2, <2>3 DEF Chooses
<1>10. \A j \in Members(r) : ComesTo(p, j) => StillWaits(j)'
  <2>1. ASSUME NEW j \in Members(r), ComesTo(p, j) PROVE StillWaits(j)
    <3>1. s.stack # << >>
      <4>1. Len(<< >>) = 0
        OBVIOUS
      <4>2. Len(s.stack) # 0
        BY <1>3
      <4>3. QED
        BY <4>1, <4>2
    <3>2. ComesTo(s, j)
      BY <1>3, <1>9, <2>1, <3>1 DEF ComesTo
    <3>3. QED
      BY <1>6, <3>2
  <2>2. QED
    BY <1>4, <2>1 DEF StillWaits, Queued, Contents
<1>11. waiting \cap Tree(r) # {}
  BY <1>3, <1>7, <1>8 DEF StillWaits
<1>12. Len(p.stack) = 2 => p.stack[1].left \subseteq waiting
  <2>1. CASE p.stack = s.stack
    <3>1. Len(p.stack) = 1
      BY <1>3, <2>1
    <3>2. QED
      BY <3>1
  <2>2. CASE Queued(m) /\ p.stack[1].left = Contents(m)
    BY <1>8, <2>2
  <2>3. QED
    BY <1>9, <2>1, <2>2
<1>13. Steady(p)'
  <2>1. Steady(p)
    BY <1>3, <1>5, <1>6, SteadyChosen, SteadyMoves DEF Asks
  <2>2. QED
    BY <1>4, <2>1 DEF Steady
<1>14. Announcing(p) /\ p.pc \notin {"idle", "start", "pop"}
  <2>1. p.pc \in {"created", "walk"}
    BY <1>9
  <2>2. QED
    BY <2>1 DEF Announcing
<1>15. TreeHangs(r)' /\ (Announcing(p) => Queued(r)')
  BY <1>2, <1>3, <1>4, <1>5, <1>14, HangsOn
<1>16. QED
  BY <1>2, <1>3, <1>4, <1>5, <1>10, <1>11, <1>12, <1>13, <1>14, <1>15, RunTidy

\* The loops of clear_recently_added_queue, each key once.
LEMMA WalkTidy ==
  ASSUME Base, EachOnce, NEW r \in Roots, Clean(r), TidyIn(r), Walk(r)
  PROVE  TidyIn(r)'
<1>1. PICK owner : Owners(owner)
  BY DEF Base, SetsSound
<1>2. PICK s : s = thread[r]
  OBVIOUS
<1>3. /\ s.pc = "walk" /\ s.pc # "idle" /\ s \in Local /\ Announcing(s) /\ ~Handling(r)
      /\ s.stack \in Seq(Frame) /\ s.stack # << >> /\ Len(s.stack) <= 2 /\ s.item = r
      /\ \A k \in DOMAIN s.stack : s.stack[k].left \subseteq Tree(r)
  BY <1>1, <1>2, Running, Alone DEF Walk, At, Base, Announcing, CallbackSound
<1>4. UNCHANGED <<queue, sets, jobs, waiting>>
  BY DEF Walk, shared, aux
<1>5. /\ Steady(s)
      /\ \A m \in Members(r) : ComesTo(s, m) => StillWaits(m)
      /\ Len(s.stack) = 2 => s.stack[1].left \subseteq waiting
  <2>1. Steady(s) /\ \A m \in Members(r) : ComesTo(s, m) => StillWaits(m)
    BY <1>2, <1>3, AloneFacts
  <2>2. QED
    BY <1>2, <1>3, <2>1 DEF TidyIn, AllWait
<1>6. PICK n \in {1, 2} : n = Len(s.stack)
  <2>1. PICK n \in Nat : n = Len(s.stack)
    BY <1>3
  <2>2. n <= 2 /\ n # 0
    BY <1>3, <2>1
  <2>3. n \in {1, 2}
    BY <2>2
  <2>4. QED
    BY <2>1, <2>3
<1>7. 1 \in DOMAIN s.stack /\ n \in DOMAIN s.stack
  BY <1>3, <1>6
<1>8. PICK p \in Local :
        /\ Moves(r, p)
        /\ \/ Changed(s) /\ p = Idle
           \/ Drops(s, p) /\ GoesOn(s, p)
           \/ \E key \in s.stack[1].left :
                \/ Len(s.stack) = 1 /\ Visits(s, p, key, "child")
                \/ Len(s.stack) # 1 /\ Visits(s, p, key, "created")
  BY <1>2, <1>3, WalkMove DEF Base
<1>9. ~Changed(s)
  BY <1>5, <1>7 DEF Steady, Changed
<1>10. /\ Steady(p)
       /\ Announcing(p) \/ (p.pc = "in" /\ p.key = r)
       /\ p.pc \notin {"idle", "start", "pop"}
  <2>1. Steady(p)
    BY <1>5, <1>8, <1>9, SteadyMoves
  <2>2. p.pc \in {"walk", "child", "created"} \/ (p.pc = "in" /\ p.key = r)
    BY <1>3, <1>8, <1>9 DEF GoesOn, Visits
  <2>3. QED
    BY <2>1, <2>2 DEF Announcing
<1>11. ASSUME NEW m \in Members(r), ComesTo(p, m) PROVE ComesTo(s, m)
  <2>1. SUFFICES m \in s.stack[n].left
    BY <1>3, <1>6 DEF ComesTo
  <2>2. CASE Drops(s, p) /\ GoesOn(s, p)
    <3>1. p.stack # << >> /\ m \in p.stack[Len(p.stack)].left
      BY <1>11, <2>2 DEF ComesTo, GoesOn, Announcing
    <3>2. Len(p.stack) = n - 1 /\ DOMAIN p.stack = 1 .. n - 1 /\ p.stack \in Seq(Frame)
      BY <1>6, <1>8, <2>2 DEF Drops, Local
    <3>3. n = 2
      <4>1. ASSUME n = 1 PROVE FALSE
        <5>1. Len(p.stack) = 0
          BY <3>2, <4>1
        <5>2. QED
          BY <3>1, <3>2, <5>1
      <4>2. QED
        BY <4>1
    <3>4. p.stack[1] = s.stack[2] /\ Len(p.stack) = 1
      <4>1. Len(p.stack) = 1 /\ 1 \in DOMAIN p.stack
        BY <3>2, <3>3
      <4>2. p.stack[1] = s.stack[1 + 1]
        BY <2>2, <4>1 DEF Drops
      <4>3. QED
        BY <4>1, <4>2
    <3>5. QED
      BY <3>1, <3>3, <3>4
  <2>3. ASSUME NEW key \in s.stack[1].left, n = 1, Visits(s, p, key, "child")
        PROVE  m \in s.stack[n].left
    BY <1>6, <1>11, <2>3 DEF Visits, ComesTo
  <2>4. ASSUME NEW key \in s.stack[1].left, n # 1, Visits(s, p, key, "created")
        PROVE  m \in s.stack[n].left
    <3>1. Len(p.stack) = 2 /\ p.stack[2] = s.stack[2] /\ n = 2
      BY <1>6, <1>7, <2>4 DEF Visits
    <3>2. QED
      BY <1>11, <2>4, <3>1 DEF ComesTo, Visits
  <2>5. QED
    BY <1>6, <1>8, <1>9, <2>2, <2>3, <2>4
<1>12. \A m \in Members(r) : ComesTo(p, m) => StillWaits(m)'
  <2>1. ASSUME NEW m \in Members(r), ComesTo(p, m) PROVE StillWaits(m)
    BY <1>5, <1>11, <2>1
  <2>2. QED
    BY <1>4, <2>1 DEF StillWaits, Queued, Contents
<1>13. /\ Announcing(p) /\ Len(p.stack) = 2 => p.stack[1].left \subseteq waiting
       /\ p.pc = "created" => waiting \cap Tree(r) # {}
  <2>1. CASE Drops(s, p) /\ GoesOn(s, p)
    <3>1. Len(p.stack) = n - 1
      BY <1>6, <2>1 DEF Drops
    <3>2. n - 1 # 2
      OBVIOUS
    <3>3. QED
      BY <2>1, <3>1, <3>2 DEF GoesOn
  <2>2. ASSUME NEW key \in s.stack[1].left, n = 1, Visits(s, p, key, "child")
        PROVE  Len(p.stack) # 2 /\ p.pc # "created"
    BY <1>6, <2>2 DEF Visits
  <2>3. ASSUME NEW key \in s.stack[1].left, n # 1, Visits(s, p, key, "created")
        PROVE  p.stack[1].left \subseteq waiting /\ waiting \cap Tree(r) # {}
    <3>1. s.stack[1].left \subseteq waiting /\ key \in Tree(r)
      BY <1>3, <1>5, <1>6, <1>7, <2>3
    <3>2. QED
      BY <2>3, <3>1 DEF Visits
  <2>4. QED
    BY <1>6, <1>8, <1>9, <2>1, <2>2, <2>3
<1>14. TreeHangs(r)' /\ (Announcing(p) => Queued(r)')
  BY <1>2, <1>3, <1>4, <1>8, <1>10, HangsOn
<1>15. Steady(p)'
  BY <1>4, <1>10 DEF Steady
<1>16. QED
  BY <1>2, <1>3, <1>4, <1>8, <1>10, <1>12, <1>13, <1>14, <1>15, RunTidy

\* What a notification covers, the loops of the callback do not come to again.
LEMMA NotCovered ==
  ASSUME Base, EachOnce, NEW r \in Roots, NEW s, s = thread[r], s.pc = "created"
  PROVE  /\ \A m \in Members(r) : ComesTo(s, m) =>
              /\ m \notin Covered(s.key, Children(s))
              /\ Members(m) \cap Covered(s.key, Children(s)) = {}
         /\ Len(s.stack) = 2 => s.stack[1].left \cap Covered(s.key, Children(s)) = {}
<1>1. PICK owner : Owners(owner)
  BY DEF Base, SetsSound
<1>2. PICK key, children : key = s.key /\ children = Children(s)
  OBVIOUS
<1>3. /\ s.pc # "idle" /\ CallbackSound(r, s, owner) /\ Announcing(s) /\ ComesOnce(s)
      /\ \A k \in DOMAIN s.stack : FrameSound(r, s.stack[k], owner)
  BY <1>1, Running DEF Base, EachOnce, Announcing
<1>4. /\ key \in Tree(r) /\ key \in Items /\ Root(key) = r /\ children \subseteq Members(key)
      /\ key \in Leaves => children = {}
  <2>1. thread[r].pc = "created"
    OBVIOUS
  <2>2. /\ thread[r].key \in Tree(r) /\ thread[r].key \in Items
        /\ Children(thread[r]) \subseteq Members(thread[r].key)
        /\ thread[r].key \in Leaves => Children(thread[r]) = {}
    BY <1>1, <2>1, AskedKeys DEF Base
  <2>3. QED
    BY <1>2, <2>2 DEF Tree
<1>5. CASE key \in Roots
  <2>1. s.stack = << >>
    BY <1>2, <1>3, <1>5 DEF ComesOnce
  <2>2. Len(<< >>) # 2
    OBVIOUS
  <2>3. QED
    BY <2>1, <2>2 DEF ComesTo
<1>6. CASE key \in Middles
  <2>1. Len(s.stack) = 1 /\ key \notin s.stack[1].left
    BY <1>2, <1>3, <1>6 DEF ComesOnce
  <2>2. \A j \in children : j \in Leaves /\ Parent[j] = key
    BY <1>4, <1>6, MemberFacts
  <2>3. ASSUME NEW m \in Members(r), ComesTo(s, m)
        PROVE  m \notin Covered(key, children) /\ Members(m) \cap Covered(key, children) = {}
    <3>1. m # key
      BY <2>1, <2>3 DEF ComesTo
    <3>2. m \in Middles /\ Parent[m] = r /\ m \notin Leaves /\ m # r /\ r \notin Leaves
      BY MemberFacts, Kinds
    <3>3. m \notin Covered(key, children)
      BY <1>4, <1>6, <2>2, <3>1, <3>2, Kinds DEF Covered
    <3>4. ASSUME NEW l \in Members(m) PROVE l \notin Covered(key, children)
      <4>1. l \in Leaves /\ Parent[l] = m
        BY <3>2, MemberFacts
      <4>2. l # key /\ l # r /\ l \notin children /\ Parent[l] \notin children
        BY <1>6, <2>2, <3>1, <3>2, <4>1, Kinds
      <4>3. QED
        BY <1>4, <1>6, <4>2, Kinds DEF Covered
    <3>5. QED
      BY <3>3, <3>4
  <2>4. Len(s.stack) # 2
    BY <2>1
  <2>5. QED
    BY <1>2, <2>3, <2>4
<1>7. CASE key \in Leaves
  <2>1. Len(s.stack) = 2 /\ key \in s.stack[1].all \ s.stack[1].left
    BY <1>2, <1>3, <1>7 DEF ComesOnce
  <2>2. children = {} /\ \A i \in s.stack[1].all : Parent[i] \notin s.stack[2].left
    BY <1>3, <1>4, <1>7, <2>1 DEF ComesOnce
  <2>3. Covered(key, children) = {key, r, Parent[key]} \cap Items
    BY <1>4, <1>7, <2>2 DEF Covered
  <2>4. ASSUME NEW m \in Members(r), ComesTo(s, m)
        PROVE  m \notin Covered(key, children) /\ Members(m) \cap Covered(key, children) = {}
    <3>1. m \in s.stack[2].left
      BY <1>2, <2>1, <2>4 DEF ComesTo
    <3>2. m # Parent[key]
      BY <2>1, <2>2, <3>1
    <3>3. m \in Middles /\ m \notin Leaves /\ m # r /\ r \notin Leaves /\ Parent[key] \notin Leaves
      BY <1>7, MemberFacts, Kinds
    <3>4. m \notin Covered(key, children)
      BY <1>7, <2>3, <3>2, <3>3
    <3>5. \A l \in Members(m) : l \in Leaves /\ Parent[l] = m
      BY <3>3, MemberFacts
    <3>6. QED
      BY <2>3, <3>2, <3>3, <3>4, <3>5
  <2>5. s.stack[1].left \cap Covered(key, children) = {}
    <3>1. /\ s.stack[1].left \subseteq Members(owner[s.stack[1].set])
          /\ owner[s.stack[1].set] \in Members(r)
      <4>1. 1 \in DOMAIN s.stack
        <5>1. s.stack \in Seq(Frame)
          BY <1>1, <1>3, Running DEF Base
        <5>2. QED
          BY <2>1, <5>1
      <4>2. FrameSound(r, s.stack[1], owner)
        BY <1>3, <4>1
      <4>3. owner[s.stack[1].set] \in Members(r)
        BY <1>3, <2>1 DEF CallbackSound
      <4>4. QED
        BY <1>1, <4>2, <4>3 DEF FrameSound, Owners
    <3>2. s.stack[1].left \subseteq Leaves
      BY <3>1, MemberFacts
    <3>3. Parent[key] \notin Leaves /\ r \notin Leaves
      BY <1>7, Kinds
    <3>4. QED
      BY <2>1, <2>3, <3>2, <3>3
  <2>6. QED
    BY <1>2, <2>4, <2>5
<1>8. QED
  BY <1>4, <1>5, <1>6, <1>7, Kinds

\* What on_created announces leaves what the loops still come to waiting.
LEMMA CreatedTidy ==
  ASSUME Base, EachOnce, NEW r \in Roots, Clean(r), TidyIn(r), Created(r), Clean(r)'
  PROVE  TidyIn(r)'
<1>1. PICK owner : Owners(owner)
  BY DEF Base, SetsSound
<1>2. PICK s : s = thread[r]
  OBVIOUS
<1>3. s.pc = "created" /\ s.pc # "idle" /\ s.pc # "start" /\ Announcing(s) /\ ~Handling(r)
  BY <1>1, <1>2, CreatedEffect, Alone DEF Base, Announcing
<1>4. PICK covered : covered = Covered(s.key, Children(s))
  OBVIOUS
<1>5. UNCHANGED <<queue, sets, jobs>> /\ waiting' = waiting \ covered
  BY <1>1, <1>2, <1>4, CreatedEffect DEF Base, shared
<1>6. PICK p \in Local : Moves(r, p) /\ p.stack = s.stack /\ GoesOn(s, p)
  <2>1. PICK p \in Local :
          /\ Moves(r, p)
          /\ \/ p.stack = s.stack /\ GoesOn(s, p)
             \/ failed' \cap Tree(r) # {}
    BY <1>1, <1>2, CreatedEffect DEF Base
  <2>2. failed' \cap Tree(r) = {}
    BY DEF Clean, Tree
  <2>3. QED
    BY <2>1, <2>2
<1>7. /\ Steady(s) /\ s.item = r
      /\ \A m \in Members(r) : ComesTo(s, m) => StillWaits(m)
      /\ Len(s.stack) = 2 => s.stack[1].left \subseteq waiting
  <2>1. Steady(s) /\ \A m \in Members(r) : ComesTo(s, m) => StillWaits(m)
    BY <1>2, <1>3, AloneFacts
  <2>2. s.item = r
    BY <1>1, <1>2, <1>3, Running DEF Base
  <2>3. QED
    BY <1>2, <1>3, <2>1, <2>2 DEF TidyIn, AllWait
<1>8. /\ \A m \in Members(r) : ComesTo(s, m) =>
           m \notin covered /\ Members(m) \cap covered = {}
      /\ Len(s.stack) = 2 => s.stack[1].left \cap covered = {}
  BY <1>2, <1>3, <1>4, NotCovered
<1>9. ASSUME NEW m \in Members(r), ComesTo(p, m) PROVE StillWaits(m)'
  <2>1. ComesTo(s, m)
    BY <1>3, <1>6, <1>9 DEF ComesTo, GoesOn
  <2>2. StillWaits(m) /\ m \notin covered /\ Members(m) \cap covered = {}
    BY <1>7, <1>8, <2>1
  <2>3. Queued(m) => Contents(m) \subseteq Members(m)
    BY <1>1, QueuedFacts DEF Base
  <2>4. QED
    BY <1>5, <2>2, <2>3 DEF StillWaits, Queued, Contents
<1>10. Len(p.stack) = 2 => p.stack[1].left \subseteq waiting'
  BY <1>5, <1>6, <1>7, <1>8
<1>11. /\ Announcing(p) \/ (p.pc = "in" /\ p.key = r)
       /\ p.pc \notin {"idle", "start", "pop", "created"}
  BY <1>6, <1>7 DEF GoesOn, Announcing
<1>12. Steady(p)'
  BY <1>5, <1>6, <1>7 DEF Steady
<1>13. TreeHangs(r)' /\ (Announcing(p) => Queued(r)')
  BY <1>2, <1>3, <1>5, <1>6, <1>11, HangsOn
<1>14. QED
  BY <1>2, <1>3, <1>5, <1>6, <1>9, <1>10, <1>11, <1>12, <1>13, RunTidy

\* The end of a callback that ran alone: nothing of the tree is in the queue.
LEMMA EmptyTidy ==
  ASSUME Base, NEW r \in Roots, TidyIn(r), thread[r].pc # "idle", ~Handling(r), Moves(r, Idle),
         UNCHANGED <<jobs, queue>>, \A k \in Tree(r) : ~Queued(k)
  PROVE  TidyIn(r)'
<1>1. PICK owner : Owners(owner)
  BY DEF Base, SetsSound
<1>2. PICK w : w = thread[Websocket]
  OBVIOUS
<1>3. /\ thread'[Websocket] = w /\ thread'[r].pc = "idle" /\ thread'[r].stack = << >>
  BY <1>2, ThreadNames, IdleLocal DEF Moves
<1>4. \A k \in Tree(r) : ~Queued(k)'
  BY DEF Queued
<1>5. /\ ~CreatingIn(r) /\ ~(w.pc = "set_job" /\ Root(w.item) = r)
      /\ \A k \in Tree(r) : ~(w.pc \in {"add", "assign"} /\ w.todo[1][1] = k)
  BY <1>1, <1>2, HandlingFacts DEF Base
<1>6. r \notin jobs /\ r \in Tree(r) /\ \A m \in Members(r) : m \in Tree(r)
  BY AloneFacts, TreeFacts
<1>7. TreeHangs(r)'
  BY <1>4 DEF TreeHangs, Tree
<1>8. JobsMatch(r)'
  BY <1>3, <1>4, <1>5, <1>6 DEF JobsMatch, At
<1>9. RunSound(r)'
  BY <1>3 DEF RunSound, At, Announcing
<1>10. AllWait(r)'
  <2>1. RootWaits(r)' /\ ~CreatingIn(r)'
    BY <1>2, <1>3, <1>4, <1>5, <1>6 DEF RootWaits, CreatingIn, Creating
  <2>2. Untouched(r)' /\ ~Announcing(thread'[r])
    BY <1>3 DEF Untouched, Announcing
  <2>3. \A k \in Tree(r) : \A i : ~Holds(k, i)'
    BY <1>3, <1>4, <1>5 DEF Holds
  <2>4. \A m \in Members(r) : MiddleWaits(r, m)' /\ LeavesWait(m)'
    BY <1>6, <2>2, <2>3 DEF MiddleWaits, LeavesWait
  <2>5. QED
    BY <1>3, <2>1, <2>2, <2>4 DEF AllWait, At, Announcing, Members
<1>11. QED
  BY <1>7, <1>8, <1>9, <1>10 DEF TidyIn

\* del_keys comes to every key of the tree.
LEMMA DelTidy ==
  ASSUME Base, NEW r \in Roots, Clean(r), TidyIn(r), DelKeys(r)
  PROVE  TidyIn(r)'
<1>1. PICK owner : Owners(owner)
  BY DEF Base, SetsSound
<1>2. PICK s : s = thread[r]
  OBVIOUS
<1>3. /\ s.pc \in {"in", "pop", "unwind"} /\ s.pc # "idle" /\ Deleting(s) /\ ~Announcing(s)
      /\ ~Handling(r) /\ r \in Threads /\ r # Websocket
  <2>1. s.pc \in {"in", "pop", "unwind"}
    BY <1>2 DEF DelKeys, At
  <2>2. s.pc # "idle" /\ Deleting(s) /\ ~Announcing(s)
    BY <2>1 DEF Deleting, Announcing
  <2>3. QED
    BY <1>2, <2>1, <2>2, Alone, ThreadNames
<1>4. /\ s \in Local /\ s.stack \in Seq(Frame) /\ CallbackSound(r, s, owner)
      /\ s.pc = "unwind" => s.stack # << >> /\ 1 \in DOMAIN s.stack
  <2>1. s \in Local /\ s.stack \in Seq(Frame) /\ CallbackSound(r, s, owner)
    BY <1>1, <1>2, <1>3, Running DEF Base
  <2>2. s.pc = "unwind" => s.stack # << >>
    BY <2>1 DEF CallbackSound
  <2>3. QED
    BY <2>1, <2>2
<1>5. Steady(s) /\ (s.pc = "pop" => Queued(s.key))
  BY <1>2, <1>3, AloneFacts DEF TidyIn, RunSound, At
<1>6. ASSUME NEW k \in Tree(r), Queued(k)
      PROVE  \/ k # r /\ Queued(Parent[k]) /\ k \in Contents(Parent[k])
             \/ InFrames(s, k)
             \/ s.key = k /\ s.pc \in {"in", "pop"}
  BY <1>2, <1>3, <1>6 DEF TidyIn, TreeHangs, Pending, Hangs
<1>7. /\ UNCHANGED <<sets, jobs>>
      /\ \E p \in Local : Moves(r, p) /\ (DelIn(r, s, p) \/ DelPop(r, s, p) \/ DelUnwind(r, s, p))
  BY <1>2, <1>3, <1>4, DelKeysMove DEF Base
<1>8. PICK p \in Local : Moves(r, p) /\ (DelIn(r, s, p) \/ DelPop(r, s, p) \/ DelUnwind(r, s, p))
  BY <1>7
<1>9. Unwound(r) = Idle /\ thread'[r] = p
  BY <1>3, <1>8 DEF Unwound, Moves
<1>10. ASSUME UNCHANGED queue, p = Idle,
              \A k \in Tree(r) : InFrames(s, k) \/ (s.key = k /\ s.pc \in {"in", "pop"}) => ~Queued(k)
       PROVE  TidyIn(r)'
  <2>1. ~Queued(r)
    BY <1>6, <1>10, TreeFacts
  <2>2. \A m \in Middles : m \in Tree(r) => ~Queued(m)
    BY <1>6, <1>10, <2>1, RootFacts DEF Tree
  <2>3. \A l \in Leaves : l \in Tree(r) => ~Queued(l)
    BY <1>6, <1>10, <2>2, RootFacts, Kinds DEF Tree
  <2>4. \A k \in Tree(r) : ~Queued(k)
    BY <2>1, <2>2, <2>3, Kinds, RootFacts DEF Tree
  <2>5. QED
    BY <1>2, <1>3, <1>7, <1>8, <1>10, <2>4, EmptyTidy
<1>11. ASSUME p.pc \in {"in", "pop", "unwind"}, Steady(p), p.pc = "pop" => Queued(p.key)',
              \A k \in Tree(r) : Queued(k)' =>
                \/ k # r /\ Queued(Parent[k])' /\ k \in Contents(Parent[k])'
                \/ InFrames(p, k)
                \/ p.key = k /\ p.pc \in {"in", "pop"}
       PROVE  TidyIn(r)'
  <2>1. Deleting(p) /\ ~Announcing(p) /\ p.pc \notin {"idle", "start", "created", "child"}
    BY <1>11 DEF Deleting, Announcing
  <2>2. TreeHangs(r)'
    BY <1>9, <1>11, <2>1 DEF TreeHangs, Pending, Hangs, InFrames, Tree, Deleting
  <2>3. Steady(p)'
    BY <1>7, <1>11 DEF Steady
  <2>4. \A m : ~ComesTo(p, m)
    BY <2>1 DEF ComesTo
  <2>5. QED
    BY <1>2, <1>3, <1>7, <1>8, <1>11, <2>1, <2>2, <2>3, <2>4, RunTidy
<1>12. CASE DelIn(r, s, p)
  <2>1. UNCHANGED queue /\ s.pc = "in"
    BY <1>12 DEF DelIn
  <2>2. \A k : Queued(k)' = Queued(k) /\ Contents(k)' = Contents(k)
    BY <1>7, <2>1 DEF Queued, Contents
  <2>3. CASE Queued(s.key) /\ Stays(s, p, "pop")
    <3>1. p.pc = "pop" /\ p.key = s.key /\ p.stack = s.stack
      BY <2>3 DEF Stays
    <3>2. Steady(p)
      BY <1>5, <3>1, SteadyMoves
    <3>3. QED
      BY <1>6, <1>11, <2>2, <2>3, <3>1, <3>2 DEF InFrames
  <2>4. CASE ~Queued(s.key) /\ s.stack = << >> /\ p = Idle
    <3>1. \A k \in Tree(r) : ~InFrames(s, k)
      BY <2>4 DEF InFrames
    <3>2. QED
      BY <1>10, <2>1, <2>4, <3>1
  <2>5. CASE ~Queued(s.key) /\ Stays(s, p, "unwind")
    <3>1. p.pc = "unwind" /\ p.stack = s.stack
      BY <2>5 DEF Stays
    <3>2. Steady(p)
      BY <1>5, <3>1, SteadyMoves
    <3>3. QED
      BY <1>6, <1>11, <2>2, <2>5, <3>1, <3>2 DEF InFrames
  <2>6. QED
    BY <1>9, <1>12, <2>3, <2>4, <2>5 DEF DelIn
<1>13. CASE DelPop(r, s, p)
  <2>1. PICK key : key = s.key
    OBVIOUS
  <2>2. /\ s.pc = "pop" /\ Queued(key) /\ Enters(s, p, queue[key], "unwind")
        /\ DOMAIN queue' = DOMAIN queue \ {key} /\ \A k \in DOMAIN queue' : queue'[k] = queue[k]
    BY <1>5, <1>13, <2>1 DEF DelPop
  <2>3. /\ p.pc = "unwind" /\ Steady(p) /\ 1 \in DOMAIN p.stack /\ p.stack[1].left = Contents(key)
        /\ \A n \in DOMAIN s.stack : n + 1 \in DOMAIN p.stack /\ p.stack[n + 1] = s.stack[n]
    <3>1. Steady(p)
      BY <1>4, <1>5, <2>2, SteadyEntered
    <3>2. Len(s.stack) \in Nat
      BY <1>4
    <3>3. QED
      BY <2>2, <3>1, <3>2 DEF Enters, Contents
  <2>4. ASSUME NEW k \in Tree(r), Queued(k)'
        PROVE  \/ k # r /\ Queued(Parent[k])' /\ k \in Contents(Parent[k])'
               \/ InFrames(p, k)
    <3>1. Queued(k) /\ k # key
      BY <2>2, <2>4 DEF Queued
    <3>2. CASE InFrames(s, k)
      BY <2>3, <3>2 DEF InFrames
    <3>3. CASE k # r /\ Queued(Parent[k]) /\ k \in Contents(Parent[k])
      <4>1. CASE Parent[k] = key
        BY <2>3, <3>3, <4>1 DEF InFrames
      <4>2. CASE Parent[k] # key
        BY <1>7, <2>2, <3>3, <4>2 DEF Queued, Contents
      <4>3. QED
        BY <4>1, <4>2
    <3>4. QED
      BY <1>6, <2>1, <3>1, <3>2, <3>3
  <2>5. QED
    BY <1>11, <2>3, <2>4
<1>14. CASE DelUnwind(r, s, p)
  <2>1. UNCHANGED queue /\ s.pc = "unwind" /\ ~Changed(s)
    BY <1>4, <1>5, <1>14 DEF DelUnwind, Steady, Changed
  <2>2. \A k : Queued(k)' = Queued(k) /\ Contents(k)' = Contents(k)
    BY <1>7, <2>1 DEF Queued, Contents
  <2>3. CASE s.stack[1].left = {} /\ Len(s.stack) = 1 /\ p = Idle
    <3>1. \A k \in Tree(r) : ~InFrames(s, k)
      BY <1>4, <2>3 DEF InFrames
    <3>2. QED
      BY <1>10, <2>1, <2>3, <3>1
  <2>4. CASE s.stack[1].left = {} /\ Drops(s, p) /\ p.pc = "unwind"
    <3>1. Steady(p)
      BY <1>5, <2>4, SteadyMoves
    <3>2. \A k : InFrames(s, k) => InFrames(p, k)
      <4>1. SUFFICES ASSUME NEW k, NEW n \in DOMAIN s.stack, k \in s.stack[n].left
                     PROVE  InFrames(p, k)
        BY DEF InFrames
      <4>2. PICK len \in Nat : len = Len(s.stack)
        BY <1>4
      <4>3. n \in 1 .. len /\ n # 1
        BY <1>4, <2>4, <4>1, <4>2
      <4>4. n - 1 \in 1 .. len - 1 /\ n = (n - 1) + 1
        BY <4>2, <4>3
      <4>5. n - 1 \in DOMAIN p.stack /\ p.stack[n - 1] = s.stack[n]
        BY <2>4, <4>2, <4>4 DEF Drops
      <4>6. QED
        BY <4>1, <4>5 DEF InFrames
    <3>3. QED
      BY <1>6, <1>11, <2>1, <2>2, <2>4, <3>1, <3>2
  <2>5. ASSUME NEW key \in s.stack[1].left, Visits(s, p, key, "in")
        PROVE  TidyIn(r)'
    <3>1. Steady(p) /\ p.pc = "in" /\ p.key = key
      BY <1>5, <2>5, SteadyMoves DEF Visits
    <3>2. \A k : InFrames(s, k) => InFrames(p, k) \/ k = key
      <4>1. SUFFICES ASSUME NEW k, NEW n \in DOMAIN s.stack, k \in s.stack[n].left, k # key
                     PROVE  InFrames(p, k)
        BY DEF InFrames
      <4>2. n \in DOMAIN p.stack /\ k \in p.stack[n].left
        BY <2>5, <4>1 DEF Visits
      <4>3. QED
        BY <4>2 DEF InFrames
    <3>3. QED
      BY <1>6, <1>11, <2>1, <2>2, <3>1, <3>2
  <2>6. QED
    BY <1>9, <1>14, <2>1, <2>3, <2>4, <2>5 DEF DelUnwind
<1>15. QED
  BY <1>8, <1>12, <1>13, <1>14

\* The steps of the callback of the root.
LEMMA CallbackTidy ==
  ASSUME Base, EachOnce, NEW r \in Roots, Clean(r), TidyIn(r), Callback(r), Clean(r)'
  PROVE  TidyIn(r)'
<1>1. CASE MetadataFails(r)
  <2>1. thread[r].pc = "created" /\ failed' = failed \cup (waiting \cap Tree(r))
    BY <1>1, FailsMove DEF Base
  <2>2. waiting \cap Tree(r) # {}
    BY <2>1 DEF TidyIn, AllWait, At
  <2>3. failed' \cap Tree(r) = {}
    BY DEF Clean, Tree
  <2>4. QED
    BY <2>1, <2>2, <2>3
<1>2. QED
  BY <1>1, StartTidy, ChildTidy, WalkTidy, CreatedTidy, DelTidy DEF Callback

\* The callback of a root that no event is about starts.
LEMMA FireTidy ==
  ASSUME Base, NEW r \in Roots, TidyIn(r), Fire(r), Clean(r)'
  PROVE  TidyIn(r)'
<1>1. PICK owner : Owners(owner)
  BY DEF Base, SetsSound
<1>2. PICK w : w = thread[Websocket]
  OBVIOUS
<1>3. /\ r \in jobs /\ jobs' = jobs \ {r} /\ UNCHANGED <<queue, sets, waiting>>
      /\ Handling(r) => w.item \in raced'
  BY <1>2, FireMove DEF Base, shared
<1>4. ~Handling(r)
  <2>1. ASSUME Handling(r) PROVE FALSE
    <3>1. w.item \in Items /\ Root(w.item) = r
      BY <1>1, <1>2, <2>1, AtWork DEF Handling, At, Base
    <3>2. QED
      BY <1>3, <2>1, <3>1 DEF Clean, Tree
  <2>2. QED
    BY <2>1
<1>5. thread[r].pc = "idle"
  BY <1>3 DEF TidyIn, JobsMatch, At
<1>6. PICK p \in Local : Moves(r, p) /\ p.pc = "start" /\ p.stack = << >>
  BY <1>5, FireMove DEF Base
<1>7. thread'[r] = p /\ thread'[Websocket] = w
  BY <1>2, <1>6, ThreadNames DEF Moves
<1>8. Queued(r) /\ ~CreatingIn(r) /\ ~(w.pc = "set_job" /\ Root(w.item) = r)
  BY <1>1, <1>2, <1>3, <1>4, HandlingFacts DEF TidyIn, JobsMatch, Base
<1>9. TreeHangs(r)'
  <2>1. ~Deleting(thread[r]) /\ ~Deleting(p)
    BY <1>5, <1>6 DEF Deleting
  <2>2. QED
    BY <1>3, <1>7, <2>1 DEF TidyIn, TreeHangs, Pending, Hangs, Queued, Contents, Tree, Deleting
<1>10. JobsMatch(r)'
  BY <1>3, <1>6, <1>7, <1>8 DEF JobsMatch, At
<1>11. RunSound(r)'
  BY <1>3, <1>6, <1>7, <1>8 DEF RunSound, At, Steady, Queued
<1>12. AllWait(r)'
  <2>1. Untouched(r) /\ Untouched(r)'
    BY <1>5, <1>6, <1>7 DEF Untouched
  <2>2. \A k, i : Holds(k, i)' <=> Holds(k, i)
    BY <1>2, <1>3, <1>7 DEF Holds, Queued, Contents
  <2>3. RootWaits(r)'
    BY <1>3, <2>1 DEF TidyIn, AllWait, RootWaits, Queued, Contents
  <2>4. ASSUME NEW m \in Members(r) PROVE MiddleWaits(r, m)' /\ LeavesWait(m)'
    <3>1. MiddleWaits(r, m) /\ LeavesWait(m)
      BY <2>1 DEF TidyIn, AllWait, Coming
    <3>2. MiddleWaits(r, m)'
      BY <1>2, <1>3, <1>7, <2>1, <2>2, <3>1 DEF MiddleWaits, Queued, Inserting
    <3>3. LeavesWait(m)'
      BY <1>3, <2>2, <3>1 DEF LeavesWait, Members
    <3>4. QED
      BY <3>2, <3>3
  <2>5. ~CreatingIn(r)'
    BY <1>2, <1>7, <1>8 DEF CreatingIn, Creating
  <2>6. Len(p.stack) # 2
    <3>1. Len(<< >>) = 0
      OBVIOUS
    <3>2. QED
      BY <1>6, <3>1
  <2>7. QED
    BY <1>6, <1>7, <2>3, <2>4, <2>5, <2>6 DEF AllWait, At, Members
<1>13. QED
  BY <1>9, <1>10, <1>11, <1>12 DEF TidyIn
-----------------------------------------------------------------------------
(* An event that no callback disturbs. *)

\* The item of an event that creates it waits, and is reachable from the queue
\* when it has been inserted.
LEMMA Inserted ==
  ASSUME Base, Debts, NEW r \in Roots, Clean(r), TidyIn(r), CreatingIn(r),
         ~Inserting(thread[Websocket])
  PROVE  Reachable(thread[Websocket].item)
<1>1. PICK owner : Owners(owner)
  BY DEF Base, SetsSound
<1>2. PICK i : i = thread[Websocket].item
  OBVIOUS
<1>3. i \in waiting /\ Root(i) = r
  BY <1>2 DEF TidyIn, AllWait, CreatingIn
<1>4. i \in Tree(r)
  BY <1>3 DEF Base, TypeOK, Tree
<1>5. i \in Owed(r)
  BY <1>3, <1>4 DEF Owed, Clean
<1>6. QED
  BY <1>2, <1>5 DEF Debts, OwedReachable

\* What is left to show of a step that handles the root.
LEMMA EventTidy ==
  ASSUME Base, NEW r \in Roots, TidyIn(r), thread[r].pc = "idle", NEW p, Moves(Websocket, p),
         \A k \in Tree(r) : Queued(k)' =>
           k = r \/ (Queued(Parent[k])' /\ k \in Contents(Parent[k])'),
         r \in jobs' => Queued(r)' \/ (Removing(p) /\ p.item = r),
         Queued(r)' => r \in jobs' \/ (Creating(p) /\ Root(p.item) = r),
         p.pc = "set_job" /\ Root(p.item) = r /\ p.found => r \in jobs',
         RootWaits(r)',
         \A m \in Members(r) : MiddleWaits(r, m)' /\ LeavesWait(m)',
         Creating(p) /\ Root(p.item) = r => p.item \in waiting'
  PROVE  TidyIn(r)'
<1>1. thread'[Websocket] = p /\ thread'[r] = thread[r]
  BY ThreadNames DEF Moves
<1>2. TreeHangs(r)'
  BY <1>1 DEF TreeHangs, Pending, Hangs, Deleting, Tree
<1>3. JobsMatch(r)'
  BY <1>1 DEF JobsMatch, CreatingIn, At, Removing, Creating
<1>4. RunSound(r)'
  BY <1>1 DEF RunSound, At, Announcing
<1>5. AllWait(r)'
  <2>1. ~Announcing(thread'[r]) /\ ~At(r, "created")'
    BY <1>1 DEF Announcing, At
  <2>2. CreatingIn(r)' => p.item \in waiting'
    BY <1>1 DEF CreatingIn, Creating
  <2>3. QED
    BY <1>1, <2>1, <2>2 DEF AllWait, Announcing, Members
<1>6. QED
  BY <1>2, <1>3, <1>4, <1>5 DEF TidyIn

\* What the invariant says of a root that an event is about.
LEMMA EventFacts ==
  ASSUME Base, NEW r \in Roots, TidyIn(r), thread[r].pc = "idle"
  PROVE  /\ \A k \in Tree(r) : Queued(k) => k = r \/ (Queued(Parent[k]) /\ k \in Contents(Parent[k]))
         /\ r \in jobs => Queued(r) \/ (Removing(thread[Websocket]) /\ thread[Websocket].item = r)
         /\ Queued(r) => r \in jobs \/ CreatingIn(r)
         /\ RootWaits(r)
         /\ \A m \in Members(r) : MiddleWaits(r, m) /\ LeavesWait(m)
         /\ Untouched(r)
<1>1. Untouched(r) /\ ~Deleting(thread[r])
  BY DEF Untouched, Deleting
<1>2. QED
  BY <1>1 DEF TidyIn, TreeHangs, Pending, Hangs, JobsMatch, AllWait, Coming, At
-----------------------------------------------------------------------------
(* The steps of an event that no callback disturbs. *)

\* A step of Insert keeps a root tidy when it keeps what is queued and what waits.
LEMMA InsertTidy ==
  ASSUME Base, NEW r \in Roots, TidyIn(r), thread[r].pc = "idle",
         NEW s, s = thread[Websocket], NEW p, Moves(Websocket, p), Root(s.item) = r,
         Creating(s), p.item = s.item, ~p.remove,
         p.pc \in {"get", "add", "assign", "leaf", "get_job"}, UNCHANGED <<jobs, waiting>>,
         \A k \in Tree(r) : Queued(k)' =>
           k = r \/ (Queued(Parent[k])' /\ k \in Contents(Parent[k])'),
         Queued(r) => Queued(r)', \A m \in Members(r) : Queued(m) => Queued(m)',
         RootWaits(r) => RootWaits(r)',
         \A m \in Members(r) : Holds(r, m)' =>
           Holds(r, m) \/ m \in waiting \/ (Inserting(p) /\ Parent[p.item] = m),
         \A m \in Members(r) : Inserting(s) /\ Parent[s.item] = m => Inserting(p) \/ Queued(m)',
         \A m \in Members(r) : \A l \in Members(m) : Holds(m, l)' => Holds(m, l) \/ l \in waiting
  PROVE  TidyIn(r)'
<1>1. thread'[Websocket] = p /\ thread'[r] = thread[r]
  BY ThreadNames DEF Moves
<1>2. /\ r \in jobs => Queued(r) \/ (Removing(s) /\ s.item = r)
      /\ RootWaits(r) /\ Untouched(r)
      /\ \A m \in Members(r) : MiddleWaits(r, m) /\ LeavesWait(m)
  BY EventFacts
<1>3. ~Removing(s) /\ Creating(p) /\ p.pc # "set_job"
  BY DEF Removing, Creating
<1>4. s.item \in waiting
  BY DEF TidyIn, AllWait, CreatingIn
<1>5. Untouched(r)'
  BY <1>1, <1>2 DEF Untouched
<1>6. ASSUME NEW m \in Members(r) PROVE MiddleWaits(r, m)' /\ LeavesWait(m)'
  <2>1. SUFFICES ASSUME Holds(r, m)'
                 PROVE  m \in waiting' \/ Queued(m)' \/ (Inserting(p) /\ Parent[p.item] = m)
    <3>1. LeavesWait(m)'
      BY <1>2 DEF LeavesWait, Members
    <3>2. QED
      BY <1>1, <1>5, <2>1, <3>1 DEF MiddleWaits, Inserting
  <2>2. CASE Holds(r, m)
    <3>1. m \in waiting \/ Queued(m) \/ (Inserting(s) /\ Parent[s.item] = m)
      BY <1>2, <2>2 DEF MiddleWaits
    <3>2. QED
      BY <3>1
  <2>3. QED
    BY <2>1, <2>2
<1>7. QED
  BY <1>1, <1>2, <1>3, <1>4, <1>6, EventTidy

LEMMA GetTidy ==
  ASSUME Base, NEW r \in Roots, TidyIn(r), thread[r].pc = "idle",
         thread[Websocket].pc = "get", Insert, Root(thread[Websocket].item) = r
  PROVE  TidyIn(r)'
<1>1. PICK owner, s : Owners(owner) /\ s = thread[Websocket]
  BY DEF Base, SetsSound
<1>2. /\ WebsocketSound(s, owner) /\ s.item \in Items /\ Inserting(s) /\ ~s.remove /\ Creating(s)
      /\ TodoSound(s)
  <2>1. s.pc # "idle" /\ s.pc \notin {"get_job", "set_job"} /\ Inserting(s)
    BY <1>1 DEF Inserting
  <2>2. WebsocketSound(s, owner) /\ s.item \in Items
    BY <1>1, <2>1, AtWork DEF Base
  <2>3. QED
    BY <1>1, <2>1, <2>2 DEF WebsocketSound, Creating
<1>3. PICK key \in Items : s.todo[1][1] = key
  BY <1>2, TodoFacts
<1>4. UNCHANGED <<queue, jobs, waiting>>
  BY <1>1, <1>3, GetMove DEF Base, aux
<1>5. PICK p \in Local :
        /\ Moves(Websocket, p) /\ Same(s, p) /\ p.pc = "add" /\ p.key = s.key
        /\ p.stack = s.stack
        /\ \/ Queued(key) /\ UNCHANGED sets /\ p.set = queue[key]
           \/ ~Queued(key) /\ sets' = Append(sets, {}) /\ p.set = Len(sets) + 1
  BY <1>1, <1>3, GetMove DEF Base
<1>6. thread'[Websocket] = p /\ thread'[r] = thread[r]
  BY <1>5, ThreadNames DEF Moves
<1>7. \A n \in DOMAIN sets : sets'[n] = sets[n]
  <2>1. sets \in Seq(SUBSET Items)
    BY DEF Base, TypeOK
  <2>2. QED
    BY <1>5, <2>1
<1>8. \A k : (Queued(k)' <=> Queued(k)) /\ (Queued(k) => Contents(k)' = Contents(k))
  BY <1>4, <1>7, SetTyped DEF Base, Queued, Contents
<1>9. ASSUME NEW k, NEW i, Holds(k, i)' PROVE Holds(k, i)
  <2>1. CASE Queued(k)' /\ i \in Contents(k)'
    BY <1>8, <2>1 DEF Holds
  <2>2. CASE k = key /\ i \in sets'[p.set]
    <3>1. CASE Queued(key)
      BY <1>5, <2>2, <3>1 DEF Holds, Contents
    <3>2. CASE ~Queued(key)
      <4>1. sets \in Seq(SUBSET Items)
        BY DEF Base, TypeOK
      <4>2. sets'[Len(sets) + 1] = {}
        BY <1>5, <3>2, <4>1
      <4>3. QED
        BY <1>5, <2>2, <3>2, <4>2
    <3>3. QED
      BY <3>1, <3>2
  <2>3. QED
    BY <1>3, <1>5, <1>6, <1>9, <2>1, <2>2 DEF Holds, Same
<1>10. RootWaits(r) => RootWaits(r)'
  BY <1>4, <1>6, <1>8 DEF RootWaits, Untouched
<1>11. /\ p.item = s.item /\ ~p.remove /\ Inserting(p)
       /\ p.pc \in {"get", "add", "assign", "leaf", "get_job"}
  BY <1>2, <1>5 DEF Same, Inserting
<1>12. \A k \in Tree(r) : Queued(k)' =>
         k = r \/ (Queued(Parent[k])' /\ k \in Contents(Parent[k])')
  BY <1>8, EventFacts
<1>13. QED
  BY <1>1, <1>2, <1>4, <1>5, <1>8, <1>9, <1>10, <1>11, <1>12, InsertTidy

LEMMA AddTidy ==
  ASSUME Base, NEW r \in Roots, TidyIn(r), thread[r].pc = "idle",
         thread[Websocket].pc = "add", Insert, Root(thread[Websocket].item) = r
  PROVE  TidyIn(r)'
<1>1. PICK owner, s : Owners(owner) /\ s = thread[Websocket]
  BY DEF Base, SetsSound
<1>2. /\ WebsocketSound(s, owner) /\ s.item \in Items /\ Inserting(s) /\ ~s.remove /\ Creating(s)
      /\ TodoSound(s) /\ s.item \in waiting
  <2>1. s.pc # "idle" /\ s.pc \notin {"get_job", "set_job"} /\ Inserting(s)
    BY <1>1 DEF Inserting
  <2>2. WebsocketSound(s, owner) /\ s.item \in Items
    BY <1>1, <2>1, AtWork DEF Base
  <2>3. Creating(s) /\ ~s.remove /\ TodoSound(s)
    BY <1>1, <2>1, <2>2 DEF WebsocketSound, Creating
  <2>4. QED
    BY <1>1, <2>1, <2>2, <2>3 DEF TidyIn, AllWait, CreatingIn
<1>3. PICK key \in Items, member \in Items \cup {NoItem} :
        s.todo[1][1] = key /\ s.todo[1][2] = member /\ Inserts(s, key, member)
  BY <1>2, TodoFacts
<1>4. /\ UNCHANGED <<queue, jobs, waiting>>
      /\ sets' = [sets EXCEPT ![s.set] = @ \cup ({member} \ {NoItem})]
  BY <1>1, <1>3, AddMove DEF Base, aux
<1>5. PICK p \in Local : Moves(Websocket, p) /\ Stays(s, p, "assign")
  BY <1>1, <1>3, AddMove DEF Base
<1>6. thread'[Websocket] = p /\ thread'[r] = thread[r]
  BY <1>5, ThreadNames DEF Moves
<1>7. s.set \in DOMAIN sets /\ owner[s.set] = key
  BY <1>1, <1>2, <1>3 DEF WebsocketSound
<1>8. /\ sets'[s.set] = sets[s.set] \cup ({member} \ {NoItem})
      /\ \A n \in DOMAIN sets : n # s.set => sets'[n] = sets[n]
      /\ \A n \in DOMAIN sets : sets[n] \subseteq sets'[n]
  BY <1>4, <1>7
<1>9. \A k : Queued(k) => queue[k] \in DOMAIN sets /\ owner[queue[k]] = k
  BY <1>1, QueuedFacts DEF Base
<1>10. \A k : Queued(k)' <=> Queued(k)
  BY <1>4 DEF Queued
<1>11. \A k : Queued(k) => Contents(k) \subseteq Contents(k)'
  BY <1>4, <1>8, <1>9 DEF Contents
<1>12. /\ p.item = s.item /\ ~p.remove /\ Inserting(p) /\ p.todo = s.todo /\ p.set = s.set
       /\ p.pc = "assign" /\ p.pc \in {"get", "add", "assign", "leaf", "get_job"}
  BY <1>2, <1>5 DEF Stays, Same, Inserting
<1>13. ASSUME NEW k, NEW i, Holds(k, i)', i \in Items
       PROVE  Holds(k, i) \/ (k = key /\ i = member)
  <2>1. CASE Queued(k)' /\ i \in Contents(k)'
    <3>1. i \in sets'[queue[k]] /\ Queued(k)
      BY <1>4, <1>10, <2>1 DEF Contents
    <3>2. CASE queue[k] = s.set
      <4>1. k = key
        BY <1>7, <1>9, <3>1, <3>2
      <4>2. QED
        BY <1>8, <3>1, <3>2, <4>1 DEF Holds, Contents
    <3>3. CASE queue[k] # s.set
      BY <1>8, <1>9, <3>1, <3>3 DEF Holds, Contents
    <3>4. QED
      BY <3>2, <3>3
  <2>2. CASE k = key /\ i \in sets'[s.set]
    BY <1>1, <1>3, <1>8, <2>2 DEF Holds
  <2>3. QED
    BY <1>3, <1>6, <1>12, <1>13, <2>1, <2>2 DEF Holds
<1>14. RootWaits(r) => RootWaits(r)'
  BY <1>4, <1>6, <1>10, <1>11 DEF RootWaits, Untouched
<1>15. \A k \in Tree(r) : Queued(k)' =>
         k = r \/ (Queued(Parent[k])' /\ k \in Contents(Parent[k])')
  BY <1>10, <1>11, EventFacts
<1>16. ASSUME NEW m \in Members(r), Holds(r, m)'
       PROVE  Holds(r, m) \/ m \in waiting \/ Parent[s.item] = m
  <2>1. m \in Items /\ m \in Middles
    BY MemberFacts, Kinds
  <2>2. Holds(r, m) \/ (r = key /\ m = member)
    BY <1>13, <1>16, <2>1
  <2>3. m = member => m = Parent[s.item] \/ m = s.item
    BY <1>3, <2>1, Kinds DEF Inserts
  <2>4. QED
    BY <1>2, <2>2, <2>3
<1>17. ASSUME NEW m \in Members(r), NEW l \in Members(m), Holds(m, l)'
       PROVE  Holds(m, l) \/ l \in waiting
  <2>1. m \in Middles /\ l \in Items /\ l \in Leaves
    BY MemberFacts, Kinds
  <2>2. Holds(m, l) \/ (m = key /\ l = member)
    BY <1>13, <1>17, <2>1
  <2>3. l = member => l = s.item
    BY <1>2, <1>3, <2>1, Kinds DEF Inserts
  <2>4. QED
    BY <1>2, <2>2, <2>3
<1>18. QED
  BY <1>1, <1>2, <1>4, <1>5, <1>10, <1>12, <1>14, <1>15, <1>16, <1>17, InsertTidy

LEMMA AssignTidy ==
  ASSUME Base, Debts, NEW r \in Roots, Clean(r), TidyIn(r), thread[r].pc = "idle",
         thread[Websocket].pc = "assign", Insert, Root(thread[Websocket].item) = r
  PROVE  TidyIn(r)'
<1>1. PICK owner, s : Owners(owner) /\ s = thread[Websocket]
  BY DEF Base, SetsSound
<1>2. /\ WebsocketSound(s, owner) /\ s.item \in Items /\ Inserting(s) /\ ~s.remove /\ Creating(s)
      /\ TodoSound(s) /\ s.item \in waiting
  <2>1. s.pc # "idle" /\ s.pc \notin {"get_job", "set_job"} /\ Inserting(s)
    BY <1>1 DEF Inserting
  <2>2. WebsocketSound(s, owner) /\ s.item \in Items
    BY <1>1, <2>1, AtWork DEF Base
  <2>3. Creating(s) /\ ~s.remove /\ TodoSound(s)
    BY <1>1, <2>1, <2>2 DEF WebsocketSound, Creating
  <2>4. QED
    BY <1>1, <2>1, <2>2, <2>3 DEF TidyIn, AllWait, CreatingIn
<1>3. PICK key \in Items, member \in Items \cup {NoItem} :
        s.todo[1][1] = key /\ s.todo[1][2] = member /\ Inserts(s, key, member)
  BY <1>2, TodoFacts
<1>4. s.todo # << >>
  BY <1>3 DEF Inserts
<1>5. UNCHANGED <<sets, jobs, waiting>> /\ Assigned(key, s.set)
  BY <1>1, <1>3, <1>4, AssignMove DEF Base, aux
<1>6. PICK p \in Local :
        /\ Moves(Websocket, p) /\ p.item = s.item /\ p.found = s.found
        /\ p.remove = s.remove /\ p.key = s.key /\ p.stack = s.stack
        /\ p.todo = Tail(s.todo)
        /\ p.pc = IF Len(s.todo) > 1 THEN "get"
                  ELSE IF s.item \in Leaves THEN "leaf" ELSE "get_job"
  BY <1>1, <1>3, <1>4, AssignMove DEF Base
<1>7. thread'[Websocket] = p /\ thread'[r] = thread[r]
  BY <1>6, ThreadNames DEF Moves
<1>8. /\ Queued(key) => queue[key] = s.set
      /\ member # NoItem => member \in sets[s.set]
  BY <1>1, <1>2, <1>3 DEF WebsocketSound
<1>9. /\ \A k : Queued(k)' <=> Queued(k) \/ k = key
      /\ \A k : Queued(k) => Contents(k)' = Contents(k)
      /\ Contents(key)' = sets[s.set]
  BY <1>5, <1>8 DEF Assigned, Queued, Contents
<1>10. /\ p.item = s.item /\ ~p.remove /\ p.pc \notin {"add", "assign"}
       /\ p.pc \in {"get", "add", "assign", "leaf", "get_job"}
  BY <1>2, <1>6
<1>11. ASSUME NEW k, NEW i, Holds(k, i)' PROVE Holds(k, i)
  <2>1. Queued(k)' /\ i \in Contents(k)'
    BY <1>7, <1>10, <1>11 DEF Holds
  <2>2. QED
    BY <1>1, <1>3, <1>9, <2>1 DEF Holds
<1>12. key = r \/ (s.item \in Leaves /\ key = Parent[s.item] /\ member = s.item /\ Len(s.todo) = 1)
  <2>1. s.item \in Leaves => Root(s.item) = r
    BY <1>1
  <2>2. s.item \in Middles => Parent[s.item] = r
    BY <1>1, RootFacts
  <2>3. s.item \in Roots => s.item = r
    BY <1>1, RootFacts
  <2>4. QED
    BY <1>3, <2>1, <2>2, <2>3 DEF Inserts
<1>13. RootWaits(r) => RootWaits(r)'
  <2>1. CASE Queued(r)
    BY <1>5, <1>7, <1>9, <2>1 DEF RootWaits, Untouched
  <2>2. CASE ~Queued(r) /\ key = r
    <3>1. CASE member = NoItem
      <4>1. s.item \in Roots
        BY <1>3, <3>1, Kinds DEF Inserts
      <4>2. s.item = r
        BY <1>1, <4>1, RootFacts
      <4>3. QED
        BY <1>2, <1>5, <4>2 DEF RootWaits
    <3>2. CASE member # NoItem
      BY <1>8, <1>9, <2>2, <3>2 DEF RootWaits
    <3>3. QED
      BY <3>1, <3>2
  <2>3. CASE ~Queued(r) /\ key # r
    BY <1>9, <2>3 DEF RootWaits
  <2>4. QED
    BY <2>1, <2>2, <2>3
<1>14. ASSUME NEW k \in Tree(r), Queued(k)'
       PROVE  k = r \/ (Queued(Parent[k])' /\ k \in Contents(Parent[k])')
  <2>1. CASE Queued(k)
    BY <1>9, <2>1, EventFacts
  <2>2. CASE k = key /\ key # r
    <3>1. s.item \in Leaves /\ key = Parent[s.item] /\ Len(s.todo) = 1
      BY <1>12, <2>2
    <3>2. s.item \notin raced
      BY <1>1, <1>2 DEF Clean, Tree
    <3>3. Queued(Root(s.item)) /\ Parent[s.item] \in Contents(Root(s.item))
      BY <1>1, <1>2, <3>1, <3>2 DEF Debts, HalfInserted
    <3>4. Parent[key] = Root(s.item)
      BY <3>1, RootFacts
    <3>5. QED
      BY <1>9, <2>2, <3>1, <3>3, <3>4
  <2>3. QED
    BY <1>9, <1>14, <2>1, <2>2
<1>15. ASSUME NEW m \in Members(r), Parent[s.item] = m
       PROVE  Inserting(p) \/ Queued(m)'
  <2>1. m \in Middles
    BY MemberFacts
  <2>2. s.item \in Leaves
    BY <1>2, <1>15, <2>1, Kinds
  <2>3. CASE Len(s.todo) > 1
    BY <1>6, <2>3 DEF Inserting
  <2>4. CASE ~(Len(s.todo) > 1)
    <3>1. Len(s.todo) # 2
      <4>1. PICK n : n = Len(s.todo)
        OBVIOUS
      <4>2. ~(n > 1)
        BY <2>4, <4>1
      <4>3. n # 2
        BY <4>2
      <4>4. QED
        BY <4>1, <4>3
    <3>2. key = Parent[s.item]
      BY <1>3, <2>2, <3>1, Kinds DEF Inserts
    <3>3. QED
      BY <1>9, <1>15, <3>2
  <2>5. QED
    BY <2>3, <2>4
<1>16. QED
  BY <1>1, <1>2, <1>5, <1>6, <1>9, <1>10, <1>11, <1>13, <1>14, <1>15, InsertTidy

LEMMA LeafTidy ==
  ASSUME Base, Debts, NEW r \in Roots, Clean(r), TidyIn(r), thread[r].pc = "idle",
         thread[Websocket].pc = "leaf", Insert, Root(thread[Websocket].item) = r
  PROVE  TidyIn(r)'
<1>1. PICK owner, s : Owners(owner) /\ s = thread[Websocket]
  BY DEF Base, SetsSound
<1>2. /\ WebsocketSound(s, owner) /\ s.item \in Leaves /\ ~Inserting(s) /\ ~s.remove /\ Creating(s)
      /\ Reachable(s.item)
  <2>1. s.pc # "idle" /\ s.pc \notin {"get_job", "set_job"} /\ ~Inserting(s)
    BY <1>1 DEF Inserting
  <2>2. WebsocketSound(s, owner)
    BY <1>1, <2>1, AtWork DEF Base
  <2>3. Creating(s) /\ ~s.remove /\ s.item \in Leaves
    BY <1>1, <2>1, <2>2 DEF WebsocketSound, Creating
  <2>4. CreatingIn(r)
    BY <1>1, <2>3 DEF CreatingIn
  <2>5. QED
    BY <1>1, <2>1, <2>2, <2>3, <2>4, Inserted
<1>3. /\ UNCHANGED <<jobs, waiting>> /\ sets' = Append(sets, {Root(s.item)})
      /\ Assigned(s.item, Len(sets) + 1)
  BY <1>1, LeafMove DEF Base, aux
<1>4. PICK p \in Local : Moves(Websocket, p) /\ Stays(s, p, "get_job")
  BY <1>1, LeafMove DEF Base
<1>5. thread'[Websocket] = p /\ thread'[r] = thread[r]
  BY <1>4, ThreadNames DEF Moves
<1>6. \A n \in DOMAIN sets : sets'[n] = sets[n]
  <2>1. sets \in Seq(SUBSET Items)
    BY DEF Base, TypeOK
  <2>2. QED
    BY <1>3, <2>1
<1>7. /\ \A k : Queued(k)' <=> Queued(k) \/ k = s.item
      /\ \A k : Queued(k) /\ k \notin Leaves => Contents(k)' = Contents(k)
  BY <1>2, <1>3, <1>6, SetTyped DEF Base, Assigned, Queued, Contents
<1>8. r \notin Leaves /\ \A m \in Members(r) : m \in Middles /\ m \notin Leaves
  BY Kinds, MemberFacts
<1>9. /\ p.item = s.item /\ ~p.remove /\ p.pc = "get_job"
      /\ p.pc \in {"get", "add", "assign", "leaf", "get_job"}
  BY <1>2, <1>4 DEF Stays, Same
<1>10. ASSUME NEW k, NEW i, Holds(k, i)', k \notin Leaves PROVE Holds(k, i)
  <2>1. Queued(k)' /\ i \in Contents(k)'
    BY <1>5, <1>9, <1>10 DEF Holds
  <2>2. QED
    BY <1>2, <1>7, <1>10, <2>1 DEF Holds
<1>11. RootWaits(r) => RootWaits(r)'
  BY <1>2, <1>3, <1>5, <1>7, <1>8 DEF RootWaits, Untouched
<1>12. ASSUME NEW k \in Tree(r), Queued(k)', k # r
       PROVE  Queued(Parent[k])' /\ k \in Contents(Parent[k])'
  <2>1. Parent[k] \notin Leaves
    BY <1>12, Kinds, RootFacts DEF Tree
  <2>2. Queued(Parent[k]) /\ k \in Contents(Parent[k])
    <3>1. CASE k = s.item
      BY <1>2, <3>1 DEF Reachable
    <3>2. CASE k # s.item
      BY <1>7, <1>12, <3>2, EventFacts
    <3>3. QED
      BY <3>1, <3>2
  <2>3. QED
    BY <1>7, <2>1, <2>2
<1>13. QED
  BY <1>1, <1>2, <1>3, <1>4, <1>7, <1>8, <1>9, <1>10, <1>11, <1>12, InsertTidy

\* A step of an event that leaves queue and sets.
LEMMA QuietTidy ==
  ASSUME Base, NEW r \in Roots, TidyIn(r), thread[r].pc = "idle", NEW p, Moves(Websocket, p),
         UNCHANGED <<queue, sets>>, waiting \subseteq waiting',
         ~Inserting(thread[Websocket]), p.pc \notin {"add", "assign"},
         r \in jobs' => Queued(r) \/ (Removing(p) /\ p.item = r),
         Queued(r) => r \in jobs' \/ (Creating(p) /\ Root(p.item) = r),
         p.pc = "set_job" /\ Root(p.item) = r /\ p.found => r \in jobs',
         Creating(p) /\ Root(p.item) = r => p.item \in waiting'
  PROVE  TidyIn(r)'
<1>1. thread'[Websocket] = p /\ thread'[r] = thread[r]
  BY ThreadNames DEF Moves
<1>2. \A k : (Queued(k)' <=> Queued(k)) /\ Contents(k)' = Contents(k)
  BY DEF Queued, Contents
<1>3. ASSUME NEW k, NEW i, Holds(k, i)' PROVE Holds(k, i)
  BY <1>1, <1>2, <1>3 DEF Holds
<1>4. Untouched(r)' <=> Untouched(r)
  BY <1>1 DEF Untouched
<1>5. RootWaits(r)'
  BY <1>2, <1>4, EventFacts DEF RootWaits
<1>6. ASSUME NEW m \in Members(r) PROVE MiddleWaits(r, m)' /\ LeavesWait(m)'
  <2>1. MiddleWaits(r, m) /\ LeavesWait(m)
    BY EventFacts
  <2>2. MiddleWaits(r, m)'
    BY <1>2, <1>3, <1>4, <2>1 DEF MiddleWaits
  <2>3. LeavesWait(m)'
    BY <1>3, <2>1 DEF LeavesWait, Members
  <2>4. QED
    BY <2>2, <2>3
<1>7. \A k \in Tree(r) : Queued(k)' =>
        k = r \/ (Queued(Parent[k])' /\ k \in Contents(Parent[k])')
  BY <1>2, EventFacts
<1>8. QED
  BY <1>2, <1>5, <1>6, <1>7, EventTidy

\* An event begins; the callback of its root does not run.
LEMMA ReceiveTidy ==
  ASSUME Base, TypeOK', SetsSound', NEW r \in Roots, TidyIn(r), Receive, Clean(r)'
  PROVE  TidyIn(r)'
<1>1. PICK owner, s : Owners(owner) /\ s = thread[Websocket]
  BY DEF Base, SetsSound
<1>2. s.pc = "idle" /\ UNCHANGED <<queue, sets, jobs>>
  BY <1>1, ReceiveMove DEF Base, shared
<1>3. PICK i \in Items, p \in Local :
        /\ Moves(Websocket, p) /\ p.item = i /\ p.stack = << >> /\ ~p.remove /\ ~p.found
        /\ \/ p.pc = "get" /\ p.todo = Insertions(i) /\ waiting' = waiting \cup {i}
           \/ p.pc = "deleted" /\ p.key = i /\ UNCHANGED waiting
        /\ raced' = IF At(Root(i), "idle") THEN raced ELSE raced \cup {i}
  BY ReceiveMove DEF Base
<1>4. thread'[Websocket] = p /\ thread'[r] = thread[r]
  BY <1>3, ThreadNames DEF Moves
<1>5. ~Handling(r)
  BY <1>1, <1>2 DEF Handling, At
<1>6. CASE Root(i) # r
  <2>1. i \notin Tree(r) /\ ~Handling(r)'
    BY <1>3, <1>4, <1>6 DEF Tree, Handling
  <2>2. waiting' \cap Tree(r) = waiting \cap Tree(r)
    BY <1>3, <2>1
  <2>3. Elsewhere(owner, r)
    BY <1>2, <1>4, <1>5, <2>1, <2>2 DEF Elsewhere, Queued
  <2>4. QED
    BY <1>1, <2>3, ElsewhereTidy
<1>7. CASE Root(i) = r
  <2>1. thread[r].pc = "idle"
    BY <1>3, <1>7 DEF Clean, Tree, At
  <2>2. ~Inserting(s) /\ ~Removing(s) /\ ~CreatingIn(r)
    <3>1. WebsocketSound(s, owner)
      BY <1>1 DEF Owners
    <3>2. QED
      BY <1>1, <1>2, <3>1 DEF Inserting, Removing, CreatingIn, Creating, WebsocketSound
  <2>3. (r \in jobs => Queued(r)) /\ (Queued(r) => r \in jobs)
    BY <1>1, <2>1, <2>2, EventFacts
  <2>4. waiting \subseteq waiting' /\ (Creating(p) => p.item \in waiting')
    BY <1>3 DEF Creating
  <2>5. p.pc \notin {"add", "assign", "set_job"}
    BY <1>3
  <2>6. QED
    BY <1>1, <1>2, <1>3, <2>1, <2>2, <2>3, <2>4, <2>5, QuietTidy
<1>8. QED
  BY <1>6, <1>7

\* schedule_callback adds the callback of a root in the queue, or removes that of a deleted one.
LEMMA ScheduleTidy ==
  ASSUME Base, Debts, NEW r \in Roots, Clean(r), TidyIn(r), thread[r].pc = "idle", Schedule,
         Root(thread[Websocket].item) = r
  PROVE  TidyIn(r)'
<1>1. PICK owner, s : Owners(owner) /\ s = thread[Websocket]
  BY DEF Base, SetsSound
<1>2. UNCHANGED <<queue, sets, waiting>>
  BY <1>1, ScheduleMove DEF Base, shared, aux
<1>3. PICK p \in Local :
        /\ Moves(Websocket, p)
        /\ \/ /\ s.pc = "get_job" /\ p.pc = "set_job" /\ p.found = (r \in jobs)
              /\ p.item = s.item /\ p.remove = s.remove /\ p.stack = s.stack
              /\ UNCHANGED jobs
           \/ /\ s.pc = "set_job" /\ p = Idle
              /\ s.found = (r \in jobs) \/ (s.remove /\ ~s.found)
              /\ jobs' = IF ~s.remove THEN jobs \cup {r}
                         ELSE IF s.found THEN jobs \ {r} ELSE jobs
           \/ /\ s.pc = "set_job" /\ p = Idle /\ UNCHANGED jobs
              /\ s.found # (r \in jobs) /\ (s.remove => s.found)
  BY <1>1, ScheduleMove DEF Base
<1>4. WebsocketSound(s, owner) /\ ~Inserting(s) /\ s.pc \in {"get_job", "set_job"}
  BY <1>1, <1>3 DEF Owners, Inserting
<1>5. /\ s.remove => s.item = r /\ ~Queued(r)
      /\ Removing(s) <=> s.remove
      /\ Creating(s) <=> ~s.remove
  BY <1>1, <1>4, RootFacts DEF WebsocketSound, Removing, Creating
<1>6. /\ r \in jobs => Queued(r) \/ s.remove
      /\ Queued(r) => r \in jobs \/ ~s.remove
      /\ s.pc = "set_job" /\ s.found => r \in jobs
      /\ s.pc = "set_job" /\ ~s.found => r \notin jobs
      /\ ~s.remove => s.item \in waiting /\ Queued(r)
  <2>1. CreatingIn(r) <=> ~s.remove
    BY <1>1, <1>5 DEF CreatingIn
  <2>2. ~s.remove => s.item \in waiting /\ Reachable(s.item)
    BY <1>1, <1>4, <2>1, Inserted DEF TidyIn, AllWait
  <2>3. Reachable(s.item) => Queued(r)
    BY <1>1 DEF Reachable
  <2>4. s.pc = "set_job" /\ s.found => r \in jobs
    BY <1>1 DEF TidyIn, JobsMatch, At
  <2>5. s.pc = "set_job" /\ ~s.found => r \notin jobs
    BY <1>1, <1>4 DEF WebsocketSound
  <2>6. (r \in jobs => Queued(r) \/ Removing(s)) /\ (Queued(r) => r \in jobs \/ CreatingIn(r))
    BY <1>1, EventFacts
  <2>7. QED
    BY <1>5, <2>1, <2>2, <2>3, <2>4, <2>5, <2>6
<1>7. CASE s.pc = "get_job"
  <2>1. /\ p.pc = "set_job" /\ p.item = s.item /\ p.remove = s.remove /\ UNCHANGED jobs
        /\ p.found => r \in jobs
    BY <1>3, <1>7
  <2>2. (Removing(p) <=> s.remove) /\ (Creating(p) <=> ~s.remove) /\ p.pc \notin {"add", "assign"}
    BY <2>1 DEF Removing, Creating
  <2>3. QED
    BY <1>1, <1>2, <1>3, <1>4, <1>5, <1>6, <2>1, <2>2, QuietTidy
<1>8. CASE s.pc = "set_job"
  <2>1. /\ p = Idle /\ p.pc \notin {"add", "assign", "set_job"} /\ ~Creating(p)
    BY <1>3, <1>8, IdleLocal DEF Creating
  <2>2. (r \in jobs' => Queued(r)) /\ (Queued(r) => r \in jobs')
    <3>1. CASE s.remove
      <4>1. r \notin jobs'
        BY <1>3, <1>6, <1>8, <3>1
      <4>2. QED
        BY <1>5, <3>1, <4>1
    <3>2. CASE ~s.remove
      <4>1. r \in jobs'
        <5>1. s.found \in BOOLEAN
          BY <1>1, ThreadTyped, ThreadNames DEF Base
        <5>2. \/ jobs' = jobs \cup {r}
              \/ jobs' = jobs /\ s.found # (r \in jobs)
          BY <1>3, <1>8, <3>2
        <5>3. CASE s.found = TRUE
          BY <1>6, <1>8, <5>2, <5>3
        <5>4. CASE s.found = FALSE
          <6>1. s.found # (r \in jobs) => r \in jobs
            <7>1. r \notin jobs => (r \in jobs) = FALSE
              OBVIOUS
            <7>2. QED
              BY <5>4, <7>1
          <6>2. QED
            BY <5>2, <6>1
        <5>5. QED
          BY <5>1, <5>3, <5>4
      <4>2. QED
        BY <1>6, <3>2, <4>1
    <3>3. QED
      BY <3>1, <3>2
  <2>3. QED
    BY <1>1, <1>2, <1>3, <1>4, <2>1, <2>2, QuietTidy
<1>9. QED
  BY <1>4, <1>7, <1>8

LEMMA DeleteTidy ==
  ASSUME Base, NEW r \in Roots, TidyIn(r), thread[r].pc = "idle", Delete
  PROVE  TidyIn(r)'
<1>1. PICK owner, s : Owners(owner) /\ s = thread[Websocket]
  BY DEF Base, SetsSound
<1>2. UNCHANGED <<queue, sets, jobs, waiting>>
  BY <1>1, DeleteMove DEF Base, shared, aux
<1>3. PICK p \in Local :
        /\ Moves(Websocket, p)
        /\ \/ s.pc \in {"deleted", "empty"} /\ p = Idle
           \/ s.pc = "deleted" /\ Stays(s, p, "empty")
           \/ /\ s.pc = "empty" /\ Queued(s.item) /\ Contents(s.item) = {}
              /\ Stays(s, p, "in")
  BY <1>1, DeleteMove DEF Base
<1>4. WebsocketSound(s, owner) /\ s.pc \in {"deleted", "empty"}
  BY <1>1, <1>3 DEF Owners
<1>5. ~Inserting(s) /\ ~Removing(s) /\ ~CreatingIn(r)
  BY <1>1, <1>4 DEF WebsocketSound, Inserting, Removing, CreatingIn, Creating
<1>6. p.pc \in {"idle", "empty", "in"}
  BY <1>3, IdleLocal DEF Stays
<1>7. p.pc \notin {"add", "assign", "set_job"} /\ ~Creating(p)
  BY <1>6 DEF Creating
<1>8. (r \in jobs => Queued(r)) /\ (Queued(r) => r \in jobs)
  BY <1>1, <1>5, EventFacts
<1>9. QED
  BY <1>1, <1>2, <1>3, <1>5, <1>7, <1>8, QuietTidy

\* A deleted root leaves the queue and will lose its callback.
LEMMA WebsocketDelTidy ==
  ASSUME Base, NEW r \in Roots, TidyIn(r), thread[r].pc = "idle", DelKeys(Websocket),
         Root(thread[Websocket].item) = r
  PROVE  TidyIn(r)'
<1>1. PICK owner : Owners(owner)
  BY DEF Base, SetsSound
<1>2. PICK s : s = thread[Websocket]
  OBVIOUS
<1>3. UNCHANGED <<sets, jobs>> /\ s.item = r
  BY <1>1, <1>2, WebsocketDelMove, RootFacts DEF Base
<1>4. PICK p \in Local :
        /\ Moves(Websocket, p)
        /\ \/ s.pc = "in" /\ Queued(s.item) /\ Stays(s, p, "pop") /\ UNCHANGED <<queue, waiting>>
           \/ /\ ~Queued(s.item) /\ p.pc = "get_job" /\ p.item = s.item /\ p.remove
              /\ p.stack = << >> /\ UNCHANGED <<queue, waiting>>
           \/ s.pc = "pop" /\ ~Queued(s.item) /\ p = Idle /\ UNCHANGED <<queue, waiting>>
           \/ /\ s.pc = "pop" /\ Queued(s.item) /\ Contents(s.item) = {}
              /\ DOMAIN queue' = DOMAIN queue \ {s.item}
              /\ \A k \in DOMAIN queue' : queue'[k] = queue[k]
              /\ waiting' = waiting \ {s.item}
              /\ p.pc = "unwind" /\ p.item = s.item /\ p.key = s.key /\ ~p.remove
              /\ Len(p.stack) = 1
              /\ p.stack[1] = [set |-> queue[s.item], all |-> {}, left |-> {}]
  <2>1. TypeOK /\ DelKeys(Websocket) /\ Owners(owner) /\ s = thread[Websocket]
    BY <1>1, <1>2 DEF Base
  <2>2. QED
    BY ONLY <2>1, WebsocketDelMove
<1>5. s.pc \in {"in", "pop", "unwind"} /\ ~Inserting(s) /\ ~CreatingIn(r)
  <2>1. s.pc \in {"in", "pop", "unwind"}
    BY <1>2 DEF DelKeys, At
  <2>2. QED
    BY <1>2, <2>1 DEF Inserting, CreatingIn, Creating
<1>6. WebsocketSound(s, owner)
  BY <1>1, <1>2 DEF Owners
<1>7. s.pc \in {"in", "pop"} => ~Removing(s)
  BY <1>6 DEF WebsocketSound, Removing
<1>8. /\ r \in jobs => Queued(r) \/ Removing(s)
      /\ Queued(r) => r \in jobs
  BY <1>2, <1>5, EventFacts
<1>9. CASE UNCHANGED <<queue, waiting>>
  <2>1. p.pc \in {"pop", "get_job", "idle", "unwind"}
    BY <1>4, IdleLocal DEF Stays
  <2>2. p.pc \notin {"add", "assign", "set_job"} /\ (Creating(p) => p.pc = "get_job" /\ ~p.remove)
    BY <2>1 DEF Creating
  <2>3. ~Creating(p)
    BY <1>4, <2>2, IdleLocal DEF Stays
  <2>4. r \in jobs => Queued(r) \/ (Removing(p) /\ p.item = r)
    BY <1>3, <1>4, <1>7, <1>8 DEF Removing
  <2>5. QED
    BY <1>2, <1>3, <1>4, <1>5, <1>8, <1>9, <2>2, <2>3, <2>4, QuietTidy
<1>10. CASE /\ s.pc = "pop" /\ Queued(s.item) /\ Contents(s.item) = {}
            /\ DOMAIN queue' = DOMAIN queue \ {s.item}
            /\ \A k \in DOMAIN queue' : queue'[k] = queue[k]
            /\ waiting' = waiting \ {s.item}
            /\ p.pc = "unwind" /\ p.item = s.item
  <2>1. thread'[Websocket] = p /\ thread'[r] = thread[r]
    BY <1>4, ThreadNames DEF Moves
  <2>2. /\ \A k : Queued(k)' <=> Queued(k) /\ k # r
        /\ \A k : Queued(k)' => Contents(k)' = Contents(k)
    BY <1>3, <1>10 DEF Queued, Contents
  <2>3. ASSUME NEW k, NEW i, Holds(k, i)' PROVE Holds(k, i) /\ k # r
    BY <1>10, <2>1, <2>2, <2>3 DEF Holds
  <2>4. RootWaits(r)'
    BY <2>2 DEF RootWaits
  <2>5. Untouched(r)'
    BY <2>1 DEF Untouched
  <2>6. ASSUME NEW m \in Members(r) PROVE MiddleWaits(r, m)' /\ LeavesWait(m)'
    <3>1. MiddleWaits(r, m)'
      BY <2>3, <2>5 DEF MiddleWaits
    <3>2. ASSUME NEW l \in Members(m), Holds(m, l)' PROVE l \in waiting'
      <4>1. l \in waiting
        BY <2>3, <3>2, EventFacts DEF LeavesWait
      <4>2. l # r
        BY MemberFacts, Kinds
      <4>3. QED
        BY <1>3, <1>10, <4>1, <4>2
    <3>3. LeavesWait(m)'
      BY <3>2 DEF LeavesWait, Members
    <3>4. QED
      BY <3>1, <3>3
  <2>7. ASSUME NEW k \in Tree(r), Queued(k)', k # r
        PROVE  Queued(Parent[k])' /\ k \in Contents(Parent[k])'
    <3>1. Queued(Parent[k]) /\ k \in Contents(Parent[k])
      BY <2>2, <2>7, EventFacts
    <3>2. Parent[k] # r
      BY <1>3, <1>10, <3>1
    <3>3. QED
      BY <2>2, <3>1, <3>2
  <2>8. Removing(p) /\ ~Creating(p) /\ p.pc # "set_job"
    BY <1>10 DEF Removing, Creating
  <2>9. QED
    BY <1>3, <1>4, <1>10, <2>2, <2>4, <2>6, <2>7, <2>8, EventTidy
<1>11. QED
  BY <1>4, <1>9, <1>10
-----------------------------------------------------------------------------
(* Steps for another root. *)

\* Insert assigns only keys of the tree of its item.
LEMMA InsertKeys ==
  ASSUME TypeOK, NEW owner, Owners(owner), Insert, NEW k, k \notin Tree(Root(thread[Websocket].item))
  PROVE  (Queued(k)' <=> Queued(k)) /\ (Queued(k) => queue'[k] = queue[k])
<1>1. PICK s : s = thread[Websocket]
  OBVIOUS
<1>2. s.pc \in {"get", "add", "assign", "leaf"}
  BY <1>1 DEF Insert, At
<1>3. WebsocketSound(s, owner) /\ s.item \in Items
  <2>1. s.pc # "idle"
    BY <1>2
  <2>2. QED
    BY <1>1, <2>1, AtWork
<1>4. CASE Inserting(s)
  <2>1. TodoSound(s)
    BY <1>3, <1>4 DEF WebsocketSound
  <2>2. PICK key \in Items, member \in Items \cup {NoItem} :
          /\ s.todo[1][1] = key /\ s.todo[1][2] = member /\ Inserts(s, key, member)
          /\ key \in Tree(Root(s.item))
    BY <1>3, <2>1, TodoFacts
  <2>3. s.todo # << >>
    BY <2>2 DEF Inserts
  <2>4. CASE s.pc = "get"
    BY <1>1, <2>2, <2>4, GetMove DEF Queued
  <2>5. CASE s.pc = "add"
    BY <1>1, <2>2, <2>5, AddMove DEF Queued
  <2>6. CASE s.pc = "assign"
    <3>1. Assigned(key, s.set)
      BY <1>1, <2>2, <2>3, <2>6, AssignMove
    <3>2. QED
      BY <1>1, <2>2, <3>1 DEF Assigned, Queued
  <2>7. QED
    BY <1>4, <2>4, <2>5, <2>6 DEF Inserting
<1>5. CASE s.pc = "leaf"
  <2>1. Assigned(s.item, Len(sets) + 1)
    BY <1>1, <1>5, LeafMove
  <2>2. k # s.item
    BY <1>1, <1>3 DEF Tree
  <2>3. QED
    BY <2>1, <2>2 DEF Assigned, Queued
<1>6. QED
  BY <1>2, <1>4, <1>5 DEF Inserting

LEMMA HandleElsewhere ==
  ASSUME Base, NEW owner, Owners(owner), NEW r \in Roots, Handle, Root(thread[Websocket].item) # r
  PROVE  Elsewhere(owner, r)
<1>1. PICK s : s = thread[Websocket]
  OBVIOUS
<1>2. PICK q : q = Root(s.item)
  OBVIOUS
<1>3. PICK p \in Local : Moves(Websocket, p) /\ (p = Idle \/ p.item = s.item)
  BY <1>1, HandleMove DEF Base
<1>4. thread'[Websocket] = p /\ thread'[r] = thread[r]
  BY <1>3, ThreadNames DEF Moves
<1>5. ~Handling(r) /\ ~Handling(r)'
  <2>1. ~Handling(r)'
    BY <1>1, <1>3, <1>4, IdleLocal DEF Handling, At
  <2>2. QED
    BY <1>1, <2>1 DEF Handling
<1>6. s.item \in Items /\ q \in Roots /\ q # r /\ Tree(q) \cap Tree(r) = {}
  <2>1. s.pc # "idle"
    BY <1>1, HandleMove DEF Base
  <2>2. s.item \in Items /\ q \in Roots
    BY <1>1, <1>2, <2>1, AtWork DEF Base
  <2>3. QED
    BY <1>1, <1>2, <2>2 DEF Tree
<1>7. CASE Insert
  <2>1. \A n \in DOMAIN sets : owner[n] \in Tree(r) => sets'[n] = sets[n]
    <3>1. \A n \in DOMAIN sets : sets'[n] = sets[n] \/ owner[n] \in Tree(q)
      BY <1>1, <1>2, <1>7, InsertMove DEF Base
    <3>2. QED
      BY <1>6, <3>1
  <2>2. \A k \in Tree(r) : (Queued(k)' <=> Queued(k)) /\ (Queued(k) => queue'[k] = queue[k])
    <3>1. \A k : k \notin Tree(q) => (Queued(k)' <=> Queued(k)) /\ (Queued(k) => queue'[k] = queue[k])
      BY <1>1, <1>2, <1>7, InsertKeys DEF Base
    <3>2. QED
      BY <1>6, <3>1
  <2>3. UNCHANGED <<jobs, waiting>>
    BY <1>7 DEF Insert, aux
  <2>4. QED
    BY <1>4, <1>5, <2>1, <2>2, <2>3 DEF Elsewhere
<1>8. CASE Schedule
  <2>1. UNCHANGED <<queue, sets, waiting>>
    BY <1>8 DEF Schedule, shared, aux
  <2>2. r \in jobs' <=> r \in jobs
    <3>1. jobs' \in {jobs, jobs \cup {q}, jobs \ {q}}
      BY <1>1, <1>2, <1>8 DEF Schedule
    <3>2. QED
      BY <1>6, <3>1
  <2>3. QED
    BY <1>4, <1>5, <2>1, <2>2 DEF Elsewhere, Queued
<1>9. CASE Delete
  <2>1. UNCHANGED <<queue, sets, jobs, waiting>>
    BY <1>9 DEF Delete, shared, aux
  <2>2. QED
    BY <1>4, <1>5, <2>1 DEF Elsewhere, Queued
<1>10. CASE DelKeys(Websocket)
  <2>1. TypeOK /\ s = thread[Websocket]
    BY <1>1 DEF Base
  <2>2. PICK p0 \in Local :
          /\ Moves(Websocket, p0)
          /\ \/ s.pc = "in" /\ Queued(s.item) /\ Stays(s, p0, "pop") /\ UNCHANGED <<queue, waiting>>
             \/ /\ ~Queued(s.item) /\ p0.pc = "get_job" /\ p0.item = s.item /\ p0.remove
                /\ p0.stack = << >> /\ UNCHANGED <<queue, waiting>>
             \/ s.pc = "pop" /\ ~Queued(s.item) /\ p0 = Idle /\ UNCHANGED <<queue, waiting>>
             \/ /\ s.pc = "pop" /\ Queued(s.item) /\ Contents(s.item) = {}
                /\ DOMAIN queue' = DOMAIN queue \ {s.item}
                /\ \A k \in DOMAIN queue' : queue'[k] = queue[k]
                /\ waiting' = waiting \ {s.item}
                /\ p0.pc = "unwind" /\ p0.item = s.item /\ p0.key = s.key /\ ~p0.remove
                /\ Len(p0.stack) = 1
                /\ p0.stack[1] = [set |-> queue[s.item], all |-> {}, left |-> {}]
    BY ONLY <1>10, <2>1, Owners(owner), WebsocketDelMove
  <2>3. \/ UNCHANGED <<queue, waiting>>
        \/ /\ DOMAIN queue' = DOMAIN queue \ {s.item}
           /\ \A k \in DOMAIN queue' : queue'[k] = queue[k]
           /\ waiting' = waiting \ {s.item}
    BY <2>2
  <2>4. s.item \notin Tree(r)
    BY <1>2, <1>6 DEF Tree
  <2>5. UNCHANGED <<sets, jobs>>
    BY <1>10, <2>1, WebsocketDelMove
  <2>6. \A k \in Tree(r) : (Queued(k)' <=> Queued(k)) /\ (Queued(k) => queue'[k] = queue[k])
    BY <2>3, <2>4 DEF Queued
  <2>7. waiting' \cap Tree(r) = waiting \cap Tree(r)
    BY <2>3, <2>4
  <2>8. QED
    BY <1>4, <1>5, <2>5, <2>6, <2>7 DEF Elsewhere
<1>11. QED
  BY <1>7, <1>8, <1>9, <1>10 DEF Handle

\* A notification is about items of one tree.
LEMMA CoveredFacts ==
  ASSUME NEW q \in Roots, NEW key \in Tree(q), NEW children \in SUBSET Tree(q)
  PROVE  Covered(key, children) \subseteq Tree(q)
<1>1. SUFFICES ASSUME NEW i \in Items, i \in Covered(key, children) PROVE Root(i) = q
  BY DEF Covered, Tree
<1>2. key \in Items /\ Root(key) = q
  BY DEF Tree
<1>3. CASE i \in {key, Root(key)} \cup children
  BY <1>2, <1>3, RootFacts DEF Tree
<1>4. CASE key \in Leaves /\ i = Parent[key]
  BY <1>2, <1>4, RootFacts
<1>5. CASE Parent[i] \in children
  <2>1. Parent[i] \in Items /\ Root(Parent[i]) = q
    BY <1>5 DEF Tree
  <2>2. i \notin Roots
    BY <2>1, Kinds
  <2>3. i \in Middles => Root(i) = Parent[i] /\ Root(Parent[i]) = Parent[i]
    BY Kinds, RootFacts
  <2>4. i \in Leaves => Root(i) = Root(Parent[i])
    BY RootFacts
  <2>5. QED
    BY <2>1, <2>2, <2>3, <2>4, Kinds
<1>6. QED
  BY <1>1, <1>3, <1>4, <1>5 DEF Covered

LEMMA CallbackElsewhere ==
  ASSUME Base, NEW owner, Owners(owner), NEW q \in Roots, NEW r \in Roots, q # r, Callback(q)
  PROVE  Elsewhere(owner, r)
<1>1. /\ UNCHANGED <<sets, jobs>> /\ DOMAIN queue' \subseteq DOMAIN queue
      /\ \A k \in DOMAIN queue' : queue'[k] = queue[k]
  BY CallbackMove DEF Base
<1>2. thread'[Websocket] = thread[Websocket] /\ thread'[r] = thread[r]
  <2>1. PICK p \in Local : Moves(q, p)
    BY CallbackMove DEF Base
  <2>2. QED
    BY <2>1, ThreadNames DEF Moves
<1>3. Tree(q) \cap Tree(r) = {}
  BY DEF Tree
<1>4. \A k \in Tree(r) : (Queued(k)' <=> Queued(k)) /\ (Queued(k) => queue'[k] = queue[k])
  <2>1. DOMAIN queue \ DOMAIN queue' \subseteq Tree(q)
    BY CallbackQueue DEF Base
  <2>2. QED
    BY <1>1, <1>3, <2>1 DEF Queued
<1>5. waiting' \cap Tree(r) = waiting \cap Tree(r)
  <2>1. CASE Created(q)
    <3>1. thread[q].pc = "created" /\ waiting' = waiting \ Covered(thread[q].key, Children(thread[q]))
      BY <2>1, CreatedEffect DEF Base
    <3>2. thread[q].key \in Tree(q) /\ Children(thread[q]) \subseteq Tree(q)
      BY <3>1, AskedKeys DEF Base
    <3>3. Covered(thread[q].key, Children(thread[q])) \subseteq Tree(q)
      BY <3>2, CoveredFacts
    <3>4. QED
      BY <1>3, <3>1, <3>3
  <2>2. CASE DelKeys(q)
    <3>1. q # Websocket
      BY ThreadNames
    <3>2. waiting' = waiting
      BY <2>2, <3>1 DEF DelKeys
    <3>3. QED
      BY <3>2
  <2>3. CASE Start(q) \/ Child(q) \/ Walk(q) \/ MetadataFails(q)
    BY <2>3 DEF Start, Child, Walk, MetadataFails, aux
  <2>4. QED
    BY <2>1, <2>2, <2>3 DEF Callback
<1>6. QED
  BY <1>1, <1>2, <1>4, <1>5 DEF Elsewhere

LEMMA FireElsewhere ==
  ASSUME Base, NEW owner, Owners(owner), NEW q \in Roots, NEW r \in Roots, q # r, Fire(q)
  PROVE  Elsewhere(owner, r)
<1>1. UNCHANGED <<queue, sets, waiting>> /\ jobs' = jobs \ {q}
  BY FireMove DEF Base, shared
<1>2. thread'[Websocket] = thread[Websocket] /\ thread'[r] = thread[r]
  <2>1. PICK p \in Local : Moves(q, p)
    BY FireMove DEF Base
  <2>2. QED
    BY <2>1, ThreadNames DEF Moves
<1>3. QED
  BY <1>1, <1>2 DEF Elsewhere, Queued

\* The steps of the event that is handled.
LEMMA HandleTidy ==
  ASSUME Base, Debts, TypeOK', SetsSound', NEW r \in Roots, Clean(r), TidyIn(r), Handle
  PROVE  TidyIn(r)'
<1>1. PICK owner : Owners(owner)
  BY DEF Base, SetsSound
<1>2. CASE Root(thread[Websocket].item) # r
  BY <1>1, <1>2, HandleElsewhere, ElsewhereTidy
<1>3. CASE Root(thread[Websocket].item) = r
  <2>1. thread[r].pc = "idle"
    <3>1. Handling(r)
      BY <1>1, <1>3, HandleMove DEF Base, Handling, At
    <3>2. QED
      BY <3>1, Alone
  <2>2. CASE Insert
    <3>1. thread[Websocket].pc \in {"get", "add", "assign", "leaf"}
      BY <2>2 DEF Insert, At
    <3>2. QED
      BY <1>3, <2>1, <2>2, <3>1, GetTidy, AddTidy, AssignTidy, LeafTidy
  <2>3. CASE Schedule
    BY <1>3, <2>1, <2>3, ScheduleTidy
  <2>4. CASE Delete
    BY <2>1, <2>4, DeleteTidy
  <2>5. CASE DelKeys(Websocket)
    BY <1>3, <2>1, <2>5, WebsocketDelTidy
  <2>6. QED
    BY <2>2, <2>3, <2>4, <2>5 DEF Handle
<1>4. QED
  BY <1>2, <1>3

\* Every step keeps the roots tidy whose events and callbacks do not meet.
LEMMA TidyNext ==
  ASSUME Base, Debts, EachOnce, Tidy, [Next]_vars
  PROVE  Tidy'
<1>1. PICK owner : Owners(owner)
  BY DEF Base, SetsSound
<1>2. TypeOK' /\ SetsSound'
  BY SetsNext DEF Base
<1>3. raced \subseteq raced' /\ failed \subseteq failed'
  <2>1. CASE Receive
    BY <2>1, ReceiveMove DEF Base
  <2>2. CASE Handle
    BY <1>1, <2>2, HandleMove DEF Base
  <2>3. ASSUME NEW q \in Roots, Fire(q) \/ Callback(q)
        PROVE  raced \subseteq raced' /\ failed \subseteq failed'
    BY <1>1, <2>3, FireMove, CallbackMove DEF Base
  <2>4. QED
    BY <2>1, <2>2, <2>3 DEF Next, vars, aux
<1>4. ASSUME NEW r \in Roots, Clean(r)' PROVE TidyIn(r)'
  <2>1. Clean(r)
    BY <1>3, <1>4 DEF Clean, Tree
  <2>2. TidyIn(r)
    BY <2>1 DEF Tidy
  <2>3. CASE Receive
    BY <1>2, <1>4, <2>2, <2>3, ReceiveTidy
  <2>4. CASE Handle
    BY <1>2, <2>1, <2>2, <2>4, HandleTidy
  <2>5. ASSUME NEW q \in Roots, Fire(q) PROVE TidyIn(r)'
    <3>1. CASE q = r
      BY <1>4, <2>2, <2>5, <3>1, FireTidy
    <3>2. CASE q # r
      BY <1>1, <1>2, <2>2, <2>5, <3>2, FireElsewhere, ElsewhereTidy
    <3>3. QED
      BY <3>1, <3>2
  <2>6. ASSUME NEW q \in Roots, Callback(q) PROVE TidyIn(r)'
    <3>1. CASE q = r
      BY <1>4, <2>1, <2>2, <2>6, <3>1, CallbackTidy
    <3>2. CASE q # r
      BY <1>1, <1>2, <2>2, <2>6, <3>2, CallbackElsewhere, ElsewhereTidy
    <3>3. QED
      BY <3>1, <3>2
  <2>7. CASE UNCHANGED vars
    <3>1. Elsewhere(owner, r)
      BY <2>7 DEF vars, shared, aux, Elsewhere, Queued
    <3>2. QED
      BY <1>1, <1>2, <2>2, <3>1, ElsewhereTidy
  <2>8. QED
    BY <2>3, <2>4, <2>5, <2>6, <2>7 DEF Next
<1>5. QED
  BY <1>4 DEF Tidy
-----------------------------------------------------------------------------
(* The inductive invariant, and what it gives. *)

IInv ==
  /\ TypeOK /\ SetsSound /\ Undisturbed
  /\ AnnouncedRecorded /\ AnnouncedOnce
  /\ Debts /\ EachOnce /\ Tidy

LEMMA InitSets == Init => TypeOK /\ SetsSound
<1>1. SUFFICES ASSUME Init PROVE TypeOK /\ SetsSound
  OBVIOUS
<1>2. /\ DOMAIN queue = {} /\ DOMAIN sets = {} /\ sets \in Seq(SUBSET Items)
      /\ thread \in [Threads -> Local] /\ \A t \in Threads : thread[t] = Idle
  BY <1>1, IdleLocal DEF Init
<1>3. TypeOK
  BY <1>1, <1>2, ConstantsAssumption DEF Init, TypeOK
<1>4. PICK owner : owner = [n \in DOMAIN sets |-> NoItem]
  OBVIOUS
<1>5. owner \in [DOMAIN sets -> Items]
  BY <1>2, <1>4
<1>6. \A r \in Roots : CallbackSound(r, thread[r], owner)
  BY <1>2, IdleSound, ThreadNames
<1>7. WebsocketSound(thread[Websocket], owner)
  BY <1>2, IdleLocal, ThreadNames DEF WebsocketSound, Inserting, Removing
<1>8. Owners(owner)
  BY <1>2, <1>5, <1>6, <1>7 DEF Owners
<1>9. QED
  BY <1>3, <1>5, <1>8 DEF SetsSound

LEMMA InitIInv == Init => IInv
<1>1. SUFFICES ASSUME Init PROVE IInv
  OBVIOUS
<1>2. TypeOK /\ SetsSound
  BY <1>1, InitSets
<1>3. /\ DOMAIN queue = {} /\ jobs = {} /\ waiting = {} /\ announced = {} /\ repeated = {}
      /\ thread[Websocket] = Idle /\ \A r \in Roots : thread[r] = Idle
  BY <1>1, ThreadNames DEF Init
<1>4. /\ Idle.pc = "idle" /\ ~Inserting(Idle) /\ ~Announcing(Idle) /\ ~Deleting(Idle)
      /\ ~Creating(Idle) /\ ~Removing(Idle)
  BY IdleLocal DEF Inserting, Announcing, Deleting, Creating, Removing
<1>5. \A r : Owed(r) = {}
  BY <1>3 DEF Owed
<1>6. \A k : ~Queued(k)
  BY <1>3 DEF Queued
<1>7. Undisturbed
  BY <1>3, <1>4 DEF Undisturbed
<1>8. AnnouncedRecorded /\ AnnouncedOnce
  BY <1>3 DEF AnnouncedRecorded, AnnouncedOnce
<1>9. Debts
  <2>1. HalfInserted /\ OwedReachable /\ OwedAhead /\ OwedPledged
    BY <1>3, <1>4, <1>5 DEF HalfInserted, OwedReachable, OwedAhead, OwedPledged
  <2>2. OwedServed
    BY <1>3, <1>4 DEF OwedServed
  <2>3. QED
    BY <2>1, <2>2 DEF Debts
<1>10. EachOnce
  BY <1>3, <1>4 DEF EachOnce, ComesOnce
<1>11. ASSUME NEW r \in Roots PROVE TidyIn(r)
  <2>1. TreeHangs(r)
    BY <1>6 DEF TreeHangs
  <2>2. JobsMatch(r)
    BY <1>3, <1>4, <1>6 DEF JobsMatch, At
  <2>3. RunSound(r)
    BY <1>3, <1>4, <1>11 DEF RunSound, At
  <2>4. \A k, i : ~Holds(k, i)
    BY <1>3, <1>4, <1>6 DEF Holds
  <2>5. RootWaits(r) /\ Untouched(r)
    BY <1>3, <1>4, <1>6, <1>11 DEF RootWaits, Untouched
  <2>6. \A m : MiddleWaits(r, m) /\ LeavesWait(m)
    BY <2>4, <2>5 DEF MiddleWaits, LeavesWait
  <2>7. AllWait(r)
    BY <1>3, <1>4, <1>11, <2>5, <2>6 DEF AllWait, At, CreatingIn
  <2>8. QED
    BY <2>1, <2>2, <2>3, <2>7 DEF TidyIn
<1>12. QED
  BY <1>2, <1>7, <1>8, <1>9, <1>10, <1>11 DEF IInv, Tidy

\* The invariant is inductive.
LEMMA NextIInv == IInv /\ [Next]_vars => IInv'
<1>1. SUFFICES ASSUME IInv, [Next]_vars PROVE IInv'
  OBVIOUS
<1>2. Base
  BY <1>1 DEF IInv, Base
<1>3. TypeOK' /\ SetsSound'
  BY <1>1, SetsNext DEF IInv
<1>4. Undisturbed'
  BY <1>1, UndisturbedNext DEF IInv
<1>5. AnnouncedRecorded' /\ AnnouncedOnce'
  BY <1>1, RecordedNext DEF IInv
<1>6. Debts'
  BY <1>1, <1>2, DebtsNext DEF IInv
<1>7. EachOnce'
  BY <1>1, <1>2, EachOnceNext DEF IInv
<1>8. Tidy'
  BY <1>1, <1>2, TidyNext DEF IInv
<1>9. QED
  BY <1>3, <1>4, <1>5, <1>6, <1>7, <1>8 DEF IInv

\* The invariant holds of every behaviour of the queue, the callbacks and the timeline.
THEOREM Invariance == Spec => []IInv
<1>1. QED
  BY InitIInv, NextIInv, PTL DEF Spec

\* Type correctness of the queue, the sets, the callbacks and the threads.
THEOREM TypeCorrect == Spec => []TypeOK
<1>1. IInv => TypeOK
  BY DEF IInv
<1>2. QED
  BY <1>1, Invariance, PTL

\* No item is announced by itself when it has been announced before, in whatever order
\* events and callbacks come, unless a request failed before it was recorded.
THEOREM OnceAnnounced == Spec => []AnnouncedOnce
<1>1. IInv => AnnouncedOnce
  BY DEF IInv
<1>2. QED
  BY <1>1, Invariance, PTL

\* An item that was created and not announced since has a callback of its root
\* pending or running, or its event is not done, unless it met such a callback or a
\* request failed.
THEOREM NotForgotten == Spec => []NothingForgotten
<1>1. ASSUME IInv PROVE NothingForgotten
  <2>1. SUFFICES ASSUME NEW i \in waiting \ (raced \cup failed), Quiet(Root(i))
                 PROVE  Root(i) \in jobs
    BY DEF NothingForgotten
  <2>2. PICK owner : Owners(owner)
    BY <1>1 DEF IInv, SetsSound
  <2>3. PICK r : r = Root(i)
    OBVIOUS
  <2>4. i \in Items /\ r \in Roots
    BY <1>1, <2>3, RootFacts DEF IInv, TypeOK
  <2>5. i \in Owed(r)
    BY <2>3, <2>4 DEF Owed, Tree
  <2>6. r \in jobs \/ CreatingIn(r) \/ Serving(r)
    BY <1>1, <2>4, <2>5 DEF IInv, Debts, OwedPledged
  <2>7. CreatingIn(r) => Handling(r)
    BY <1>1, <2>2, <2>4, HandlingFacts DEF IInv
  <2>8. QED
    BY <2>1, <2>3, <2>6, <2>7 DEF Quiet, Serving
<1>2. QED
  BY <1>1, Invariance, PTL

\* When no thread is at work on a root, it has a callback exactly while it is in the
\* queue, and without one nothing of its tree is left there, unless events and
\* callbacks of the root have met or a request has failed.
THEOREM QueueAgrees == Spec => []QueueMatchesCallbacks
<1>1. ASSUME IInv PROVE QueueMatchesCallbacks
  <2>1. SUFFICES ASSUME NEW r \in Roots, Quiet(r), Clean(r)
                 PROVE  /\ r \in jobs <=> Queued(r)
                        /\ r \notin jobs => Tree(r) \cap DOMAIN queue = {}
    BY DEF QueueMatchesCallbacks, Clean
  <2>2. PICK owner : Owners(owner)
    BY <1>1 DEF IInv, SetsSound
  <2>3. TidyIn(r)
    BY <1>1, <2>1 DEF IInv, Tidy
  <2>4. ~CreatingIn(r) /\ ~(Removing(thread[Websocket]) /\ thread[Websocket].item = r)
    BY <1>1, <2>1, <2>2, HandlingFacts DEF IInv, Quiet
  <2>5. r \in jobs <=> Queued(r)
    BY <2>1, <2>3, <2>4 DEF TidyIn, JobsMatch, Quiet
  <2>6. ASSUME r \notin jobs, NEW k \in Tree(r), Queued(k) PROVE FALSE
    <3>1. ASSUME NEW j \in Tree(r), Queued(j)
          PROVE  j # r /\ Queued(Parent[j])
      <4>1. Pending(r, j) /\ ~Deleting(thread[r])
        BY <2>1, <2>3, <3>1 DEF TidyIn, TreeHangs, Quiet, At, Deleting
      <4>2. QED
        BY <2>5, <2>6, <3>1, <4>1 DEF Pending, Hangs
    <3>2. k # r /\ Queued(Parent[k])
      BY <2>6, <3>1
    <3>3. k \in Middles => Parent[k] = r
      BY RootFacts DEF Tree
    <3>4. k \in Leaves => Parent[k] \in Tree(r) /\ Parent[Parent[k]] = r
      BY RootFacts, Kinds DEF Tree
    <3>5. k \in Middles \/ k \in Leaves
      BY <3>2, Kinds, RootFacts DEF Tree
    <3>6. QED
      BY <2>5, <2>6, <3>1, <3>2, <3>3, <3>4, <3>5
  <2>7. QED
    BY <2>5, <2>6 DEF Queued
<1>2. QED
  BY <1>1, Invariance, PTL
=============================================================================
