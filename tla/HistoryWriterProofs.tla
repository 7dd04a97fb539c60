------------------------- MODULE HistoryWriterProofs -------------------------
(***************************************************************************)
(* Type correctness of the history writer, and the soundness of grouping:  *)
(* a reference_id, once set, names the row's own group, for any number of  *)
(* threads, rows, views and offsets.  Then that it implements PlayHistory, *)
(* and that a row is left without a reference_id only for the reasons that *)
(* UngroupedHasCause names.                                                *)
(*                                                                         *)
(* GroupedCorrectly is not inductive: it says nothing of what a thread has *)
(* read and not yet written.  The invariant adds what fixes a row's group  *)
(* when it is inserted (HeadRule) and what a thread's pending UPDATE may   *)
(* hold (WritersSound).  The refinement rests on one more invariant,       *)
(* relative to that one: what the rows owe to the threads that are still   *)
(* on their way to the UPDATE of reference_id.                             *)
(***************************************************************************)
EXTENDS HistoryRefinement, SequenceTheorems, TLAPS

\* The rows of row id's view that were there before it.
Before(id) == {j \in Rows : history[j].view = history[id].view /\ j < id}

\* head is what the grouping rule says, applied to the row just before.
HeadRule ==
  \A id \in Rows :
    \/ /\ head[id] = id
       /\ \A prev \in Newest(Before(id)) : ~Continues(prev, history[id].offset)
    \/ \E prev \in Newest(Before(id)) : /\ Continues(prev, history[id].offset)
                                        /\ head[id] = head[prev]

\* What a thread's local state promises about the tables.
Sound(s) ==
  /\ s.pc # "idle" => s.view \in Views
  /\ s.pc \in {"select", "link", "media", "meta"} => s.last_id \in Rows
  /\ s.pc = "select" => history[s.last_id].view = s.view
  /\ s.pc = "link" => s.target \in Rows /\ s.value \in {0, head[s.target]}

WritersSound == \A w \in Writers : Sound(writer[w])

IInv == TypeOK /\ GroupedCorrectly /\ HeadRule /\ WritersSound
-----------------------------------------------------------------------------
\* A row is found at its index after any append, and only one is new.
LEMMA AppendRow ==
  ASSUME TypeOK, NEW r \in Row, history' = Append(history, r)
  PROVE  /\ history' \in Seq(Row)
         /\ Len(history') = Len(history) + 1
         /\ \A id \in Rows : history'[id] = history[id]
         /\ history'[Len(history) + 1] = r
  BY DEF TypeOK, Rows

\* Setting one row's reference_id leaves every other field of every row alone.
LEMMA SetReference ==
  ASSUME TypeOK, NEW t \in Rows, NEW x \in Nat,
         history' = [history EXCEPT ![t].reference_id = x]
  PROVE  /\ history' \in Seq(Row)
         /\ Len(history') = Len(history)
         /\ \A id \in Rows : /\ history'[id].view = history[id].view
                             /\ history'[id].offset = history[id].offset
                             /\ history'[id].reference_id =
                                  IF id = t THEN x ELSE history[id].reference_id
<1> DEFINE r == [history[t] EXCEPT !.reference_id = x]
<1>1. history[t] \in Row /\ \A id \in Rows : history[id] \in Row
  BY DEF TypeOK, Rows
<1>2. r \in Row /\ r.view = history[t].view /\ r.offset = history[t].offset
      /\ r.reference_id = x
  BY <1>1 DEF Row
<1>3. history' = [history EXCEPT ![t] = r]
  OBVIOUS
<1>4. history \in Seq(Row) /\ t \in 1 .. Len(history)
  BY DEF TypeOK, Rows
<1> HIDE DEF r
<1>5. /\ history' \in Seq(Row)
      /\ Len(history') = Len(history)
      /\ \A id \in 1 .. Len(history) : history'[id] = IF id = t THEN r ELSE history[id]
  BY <1>2, <1>3, <1>4, ExceptSeq
<1>6. QED
  BY <1>2, <1>5 DEF Rows

\* A step that changes one thread's local state and neither the rows nor the
\* groups keeps the invariant if the new local state is legal and sound.
LEMMA LocalStep ==
  ASSUME IInv, NEW w \in Writers, NEW s \in WriterState, Sound(s),
         writer' = [writer EXCEPT ![w] = s],
         UNCHANGED <<history, aux>>,
         media_info' \subseteq Rows, metadata' \subseteq Rows
  PROVE  IInv'
<1>1. TypeOK'
  BY DEF IInv, TypeOK, Rows, aux
<1>2. GroupedCorrectly'
  BY DEF IInv, GroupedCorrectly, Rows, aux
<1>3. HeadRule'
  BY DEF IInv, HeadRule, Rows, aux, Before, Newest, Continues
<1>4. WritersSound'
  <2> SUFFICES ASSUME NEW u \in Writers PROVE Sound(writer[u])'
    BY DEF WritersSound
  <2>1. writer'[u] = IF u = w THEN s ELSE writer[u]
    BY DEF IInv, TypeOK
  <2>2. Sound(writer[u])
    BY DEF IInv, WritersSound
  <2>3. QED
    BY <2>1, <2>2 DEF Sound, Rows, aux
<1>5. QED
  BY <1>1, <1>2, <1>3, <1>4 DEF IInv

LEMMA IdleSound == Idle \in WriterState /\ Sound(Idle)
  BY DEF Idle, WriterState, PC, Sound

LEMMA BeginStep ==
  ASSUME IInv, NEW w \in Writers, NEW s \in Sessions, Begin(w, s)
  PROVE  IInv'
<1> DEFINE t == [Idle EXCEPT !.pc = "fetch", !.view = s.view, !.offset = s.offset]
<1>1. t \in WriterState /\ Sound(t)
  BY ConstantsAssumption DEF Session, WriterState, PC, Idle, Sound
<1>2. QED
  BY <1>1, LocalStep DEF Begin, tables, aux, IInv, TypeOK

LEMMA FetchStep ==
  ASSUME IInv, NEW w \in Writers, Fetch(w)
  PROVE  IInv'
<1> DEFINE t == [writer[w] EXCEPT !.pc = "insert"]
<1>1. writer[w] \in WriterState /\ Sound(writer[w]) /\ writer[w].pc = "fetch"
  BY DEF IInv, TypeOK, WritersSound, Fetch
<1>2. t \in WriterState /\ t.pc = "insert" /\ t.view = writer[w].view
  BY <1>1 DEF WriterState, PC
<1>4. Sound(t)
  BY <1>1, <1>2 DEF Sound
<1>3. \/ writer' = [writer EXCEPT ![w] = Idle]
      \/ writer' = [writer EXCEPT ![w] = t]
  BY DEF Fetch
<1> HIDE DEF t
<1>5. QED
  BY <1>2, <1>3, <1>4, IdleSound, LocalStep DEF Fetch, tables, aux, IInv, TypeOK

\* HeadOf returns either the new row's own id, when no newest row of the view
\* is continued, or the group of the one that is.
LEMMA HeadOfRule ==
  ASSUME TypeOK, NEW v \in Views, NEW offset \in Nat
  PROVE  /\ HeadOf(v, offset) \in Nat
         /\ \/ /\ HeadOf(v, offset) = Len(history) + 1
               /\ \A p \in Newest(OfView(v)) : ~Continues(p, offset)
            \/ \E p \in Newest(OfView(v)) : /\ Continues(p, offset)
                                            /\ HeadOf(v, offset) = head[p]
<1> DEFINE prev == {p \in Newest(OfView(v)) : Continues(p, offset)}
           q == CHOOSE p \in prev : TRUE
<1>1. HeadOf(v, offset) = IF prev = {} THEN Len(history) + 1 ELSE head[q]
  BY DEF HeadOf
<1>2. prev # {} => q \in prev
  OBVIOUS
<1>3. prev \subseteq Rows
  BY DEF Newest, OfView
<1>4. \A p \in Rows : head[p] \in Nat
  BY DEF TypeOK, Rows
<1>5. Len(history) \in Nat
  BY DEF TypeOK
<1> HIDE DEF q
<1>6. CASE prev = {}
  BY <1>1, <1>5, <1>6
<1>7. CASE prev # {}
  BY <1>1, <1>2, <1>3, <1>4, <1>7
<1>8. QED
  BY <1>6, <1>7

\* The group of a new row is the one HeadRule asks for, and no older row's
\* group depends on it.
LEMMA InsertStep ==
  ASSUME IInv, NEW w \in Writers, Insert(w)
  PROVE  IInv'
<1>1. /\ writer[w] \in WriterState /\ TypeOK /\ Sound(writer[w])
      /\ writer[w].pc = "insert"
      /\ Len(history) \in Nat
  BY DEF IInv, TypeOK, WritersSound, Insert
<1>2. /\ writer[w].view \in Views /\ writer[w].offset \in Nat
      /\ Len(history) + 1 \in Nat
  BY <1>1 DEF Sound, WriterState
<1>. PICK v \in Views, offset \in Nat, new \in Nat :
       /\ v = writer[w].view
       /\ offset = writer[w].offset
       /\ new = Len(history) + 1
  BY <1>2
<1> DEFINE r == [view |-> v, offset |-> offset, reference_id |-> 0]
           t == [writer[w] EXCEPT !.pc = "select", !.last_id = new]
<1>3. r \in Row /\ r.view = v /\ r.offset = offset /\ r.reference_id = 0
  BY DEF Row
<1>4. PICK h \in Nat :
        /\ h = HeadOf(v, offset)
        /\ \/ h = new /\ \A p \in Newest(OfView(v)) : ~Continues(p, offset)
           \/ \E p \in Newest(OfView(v)) : Continues(p, offset) /\ h = head[p]
  BY <1>1, HeadOfRule
<1>5. /\ t \in WriterState /\ t.pc = "select" /\ t.last_id = new /\ t.view = v
  BY <1>1 DEF WriterState, PC
<1>6. /\ history' = Append(history, r)
      /\ writer' = [writer EXCEPT ![w] = t]
      /\ head' = Append(head, h)
      /\ UNCHANGED <<media_info, metadata>>
  BY <1>4 DEF Insert
<1>7. /\ overlapped' \subseteq overlapped \cup {new}
                        \cup {writer[u].last_id : u \in Ungrouped(v)}
  BY DEF Insert
<1> HIDE DEF r, t
<1>8. /\ history' \in Seq(Row)
      /\ Len(history') = new
      /\ \A id \in Rows : history'[id] = history[id]
      /\ history'[new] = r
  BY <1>1, <1>3, <1>6, AppendRow
<1>9. /\ head' \in Seq(Nat)
      /\ Len(head') = new
      /\ \A id \in Rows : head'[id] = head[id]
      /\ head'[new] = h
  BY <1>1, <1>4, <1>6 DEF TypeOK, Rows
<1>10. Rows' = Rows \cup {new} /\ new \notin Rows /\ \A id \in Rows : id < new
  BY <1>1, <1>8 DEF Rows
<1>11. TypeOK'
  <2>1. {writer[u].last_id : u \in Ungrouped(v)} \subseteq Rows
    BY DEF Ungrouped, IInv, WritersSound, Sound
  <2>2. overlapped' \subseteq Rows'
    BY <1>1, <1>7, <1>10, <2>1 DEF TypeOK
  <2>3. media_info' \subseteq Rows' /\ metadata' \subseteq Rows'
    BY <1>1, <1>6, <1>10 DEF TypeOK
  <2>4. writer' \in [Writers -> WriterState]
    BY <1>1, <1>5, <1>6 DEF TypeOK
  <2>5. QED
    BY <1>8, <1>9, <2>2, <2>3, <2>4 DEF TypeOK
<1>12. GroupedCorrectly'
  BY <1>3, <1>8, <1>9, <1>10 DEF IInv, GroupedCorrectly
<1>13. HeadRule'
  <2>1. \A id \in Rows : Before(id)' = Before(id)
    BY <1>8, <1>10 DEF Before, Rows
  <2>2. Before(new)' = OfView(v)
    BY <1>3, <1>8, <1>10 DEF Before, OfView
  <2>3. /\ \A id \in Rows : Newest(Before(id))' = Newest(Before(id))
        /\ Newest(Before(new))' = Newest(OfView(v))
    BY <2>1, <2>2 DEF Newest
  <2>4. \A prev \in Rows, o \in Nat : Continues(prev, o)' <=> Continues(prev, o)
    BY <1>8 DEF Continues
  <2>5. /\ \A id \in Rows : Newest(Before(id)) \subseteq Rows
        /\ Newest(OfView(v)) \subseteq Rows
        /\ \A id \in Rows : history[id].offset \in Nat
    <3>1. \A id \in Rows : history[id] \in Row
      BY <1>1 DEF TypeOK, Rows
    <3>2. QED
      BY <3>1 DEF Newest, Before, OfView, Row
  <2>6. ASSUME NEW id \in Rows
        PROVE  (\/ /\ head[id] = id
                   /\ \A prev \in Newest(Before(id)) :
                        ~Continues(prev, history[id].offset)
                \/ \E prev \in Newest(Before(id)) :
                        /\ Continues(prev, history[id].offset)
                        /\ head[id] = head[prev])'
    <3>1. /\ history'[id].offset = history[id].offset /\ history[id].offset \in Nat
          /\ head'[id] = head[id]
      BY <1>8, <1>9, <2>5
    <3>2. \A prev \in Newest(Before(id)) :
            /\ prev \in Rows
            /\ head'[prev] = head[prev]
            /\ Continues(prev, history[id].offset)' <=> Continues(prev, history[id].offset)
      BY <1>8, <1>9, <2>4, <2>5, <3>1
    <3>3. QED
      BY <2>3, <3>1, <3>2 DEF IInv, HeadRule
  <2>7. (\/ /\ head[new] = new
            /\ \A prev \in Newest(Before(new)) : ~Continues(prev, history[new].offset)
         \/ \E prev \in Newest(Before(new)) : /\ Continues(prev, history[new].offset)
                                              /\ head[new] = head[prev])'
    <3>1. /\ history'[new].offset = offset /\ head'[new] = h
      BY <1>3, <1>8, <1>9
    <3>2. \A prev \in Newest(OfView(v)) :
            /\ prev \in Rows
            /\ head'[prev] = head[prev]
            /\ Continues(prev, offset)' <=> Continues(prev, offset)
      BY <1>9, <2>4, <2>5
    <3>3. QED
      BY <1>4, <2>3, <3>1, <3>2
  <2>8. QED
    BY <1>10, <2>6, <2>7 DEF HeadRule
<1>14. WritersSound'
  <2> SUFFICES ASSUME NEW u \in Writers PROVE Sound(writer[u])'
    BY DEF WritersSound
  <2>1. writer'[u] = IF u = w THEN t ELSE writer[u]
    BY <1>1, <1>6 DEF TypeOK
  <2>2. Sound(writer[u])
    BY DEF IInv, WritersSound
  <2>3. QED
    BY <1>2, <1>3, <1>5, <1>8, <1>9, <1>10, <2>1, <2>2 DEF Sound
<1>15. QED
  BY <1>11, <1>12, <1>13, <1>14 DEF IInv

\* The last two rows of a view are what HeadRule looks at.
LEMMA LastTwo ==
  ASSUME IInv, NEW v \in Views, NEW new \in Newest(OfView(v))
  PROVE  /\ new \in Rows
         /\ OfView(v) = {new} => head[new] = new
         /\ \A prev \in Newest(OfView(v) \ {new}) :
              /\ prev \in Rows
              /\ head[new] = IF Continues(prev, history[new].offset)
                               THEN head[prev] ELSE new
<1>1. new \in Rows /\ Rows \subseteq Nat /\ history[new].view = v
  BY DEF Newest, OfView, Rows
<1>2. Before(new) = OfView(v) \ {new}
  BY <1>1 DEF Before, OfView, Newest, Rows
<1>3. OfView(v) = {new} => head[new] = new
  BY <1>1, <1>2 DEF IInv, HeadRule, Newest
<1>4. ASSUME NEW prev \in Newest(OfView(v) \ {new})
      PROVE  /\ prev \in Rows
             /\ head[new] = IF Continues(prev, history[new].offset)
                              THEN head[prev] ELSE new
  <2>1. prev \in Rows /\ prev \in Newest(Before(new))
    BY <1>2 DEF Newest, OfView
  <2>2. \A other \in Newest(Before(new)) : other = prev
    BY <2>1, <1>1 DEF Newest, Before, Rows
  <2>3. QED
    BY <1>1, <2>1, <2>2 DEF IInv, HeadRule
<1>5. QED
  BY <1>1, <1>3, <1>4

LEMMA DecideStep ==
  ASSUME IInv, NEW w \in Writers, NEW target \in Rows,
         NEW value \in {0, head[target]},
         writer[w].pc = "select", Decide(w, target, value),
         UNCHANGED <<tables, aux>>
  PROVE  IInv'
<1> DEFINE t == [writer[w] EXCEPT !.pc = "link", !.target = target, !.value = value]
<1>1. /\ writer[w] \in WriterState /\ Sound(writer[w]) /\ value \in Nat
      /\ target \in Nat /\ media_info \subseteq Rows /\ metadata \subseteq Rows
  BY DEF IInv, TypeOK, WritersSound, Rows
<1>2. /\ t \in WriterState /\ t.pc = "link" /\ t.target = target /\ t.value = value
      /\ t.last_id = writer[w].last_id /\ t.view = writer[w].view
  BY <1>1 DEF WriterState, PC
<1>3. Sound(t)
  BY <1>1, <1>2 DEF Sound
<1>4. writer' = [writer EXCEPT ![w] = t]
  BY DEF Decide
<1> HIDE DEF t
<1>5. QED
  BY <1>1, <1>2, <1>3, <1>4, LocalStep DEF tables, aux

LEMMA SelectStep ==
  ASSUME IInv, NEW w \in Writers, Select(w)
  PROVE  IInv'
<1> DEFINE ids == OfView(writer[w].view)
           last_id == writer[w].last_id
<1>1. /\ writer[w].pc = "select"
      /\ last_id \in ids
      /\ writer[w].view \in Views
      /\ GroupedCorrectly
      /\ UNCHANGED <<tables, aux>>
  <2>1. last_id \in Rows /\ history[last_id].view = writer[w].view
    BY DEF Select, Inherited, IInv, WritersSound, Sound
  <2>2. history[last_id] \in Row
    BY <2>1 DEF IInv, TypeOK, Rows
  <2>3. QED
    BY <2>1, <2>2 DEF Select, Inherited, OfView, IInv, Row
<1>2. PICK new \in Newest(ids) :
        \/ ids = {new} /\ Decide(w, last_id, last_id)
        \/ \E prev \in Newest(ids \ {new}) :
             IF Continues(prev, history[new].offset)
               THEN Decide(w, new, history[prev].reference_id)
               ELSE Decide(w, new, new)
  BY DEF Select, Inherited
<1>3. CASE ids = {new} /\ Decide(w, last_id, last_id)
  <2>1. last_id = new /\ last_id \in Rows /\ last_id = head[last_id]
    BY <1>1, <1>3, LastTwo
  <2>2. QED
    BY <1>1, <1>3, <2>1, DecideStep
<1>4. ASSUME NEW prev \in Newest(ids \ {new}),
             IF Continues(prev, history[new].offset)
               THEN Decide(w, new, history[prev].reference_id)
               ELSE Decide(w, new, new)
      PROVE  IInv'
  <2>1. /\ new \in Rows /\ prev \in Rows
        /\ head[new] = IF Continues(prev, history[new].offset)
                         THEN head[prev] ELSE new
    BY <1>1, LastTwo
  <2>2. history[prev].reference_id \in {0, head[prev]}
    BY <1>1, <2>1 DEF GroupedCorrectly
  <2>3. CASE Continues(prev, history[new].offset)
    BY <1>1, <1>4, <2>1, <2>2, <2>3, DecideStep
  <2>4. CASE ~Continues(prev, history[new].offset)
    BY <1>1, <1>4, <2>1, <2>4, DecideStep
  <2>5. QED
    BY <2>3, <2>4
<1>5. QED
  BY <1>2, <1>3, <1>4

\* The UPDATE gives the target row 0 or its own group.
LEMMA LinkStep ==
  ASSUME IInv, NEW w \in Writers, Link(w)
  PROVE  IInv'
<1> DEFINE target == writer[w].target
           value == writer[w].value
           t == [writer[w] EXCEPT !.pc = "media"]
<1>1. /\ writer[w] \in WriterState /\ Sound(writer[w]) /\ TypeOK
      /\ writer[w].pc = "link"
  BY DEF IInv, TypeOK, WritersSound, Link
<1>2. target \in Rows /\ value \in {0, head[target]} /\ value \in Nat
  BY <1>1 DEF Sound, WriterState
<1>3. /\ history' \in Seq(Row)
      /\ Len(history') = Len(history)
      /\ \A id \in Rows : /\ history'[id].view = history[id].view
                          /\ history'[id].offset = history[id].offset
                          /\ history'[id].reference_id =
                               IF id = target THEN value
                               ELSE history[id].reference_id
  BY <1>1, <1>2, SetReference DEF Link
<1>4. Rows' = Rows /\ head' = head /\ UNCHANGED <<media_info, metadata, aux>>
  BY <1>3 DEF Rows, Link, aux
<1>5. /\ t \in WriterState /\ t.pc = "media" /\ t.last_id \in Rows /\ t.view \in Views
      /\ writer' = [writer EXCEPT ![w] = t]
  BY <1>1 DEF WriterState, PC, Sound, Link
<1> HIDE DEF t, target, value
<1>6. TypeOK'
  BY <1>1, <1>3, <1>4, <1>5 DEF TypeOK, aux
<1>7. GroupedCorrectly'
  BY <1>2, <1>3, <1>4 DEF IInv, GroupedCorrectly
<1>8. HeadRule'
  <2>1. \A id \in Rows : Before(id)' = Before(id)
    BY <1>3, <1>4 DEF Before
  <2>2. \A id \in Rows : Newest(Before(id))' = Newest(Before(id))
    BY <2>1 DEF Newest
  <2>3. \A prev \in Rows, id \in Rows :
          Continues(prev, history[id].offset)' <=> Continues(prev, history[id].offset)
    BY <1>3 DEF Continues
  <2>4. \A id \in Rows : Newest(Before(id)) \subseteq Rows
    BY DEF Newest, Before
  <2>5. QED
    BY <1>4, <2>2, <2>3, <2>4 DEF IInv, HeadRule
<1>9. WritersSound'
  <2> SUFFICES ASSUME NEW u \in Writers PROVE Sound(writer[u])'
    BY DEF WritersSound
  <2>1. writer'[u] = IF u = w THEN t ELSE writer[u]
    BY <1>1, <1>5 DEF TypeOK
  <2>2. Sound(writer[u])
    BY DEF IInv, WritersSound
  <2>3. QED
    BY <1>3, <1>4, <1>5, <2>1, <2>2 DEF Sound
<1>10. QED
  BY <1>6, <1>7, <1>8, <1>9 DEF IInv

\* The statements after the UPDATE, and an aborted writer, touch no row.
LEMMA TailStep ==
  ASSUME IInv, NEW w \in Writers,
         WriteMediaInfo(w) \/ WriteMetadata(w) \/ Abort(w)
  PROVE  IInv'
<1> DEFINE t == [writer[w] EXCEPT !.pc = "meta"]
<1>0. writer[w] \in WriterState /\ Sound(writer[w]) /\ media_info \subseteq Rows /\ metadata \subseteq Rows
  BY DEF IInv, TypeOK, WritersSound
<1>1. CASE WriteMediaInfo(w)
  <2>1. /\ t \in WriterState /\ t.pc = "meta" /\ t.last_id = writer[w].last_id
        /\ t.view = writer[w].view
    BY <1>0 DEF WriterState, PC
  <2>2. writer[w].last_id \in Rows /\ writer[w].view \in Views
    BY <1>0, <1>1 DEF WriteMediaInfo, Sound
  <2>3. Sound(t)
    BY <2>1, <2>2 DEF Sound
  <2> HIDE DEF t
  <2>4. QED
    BY <1>0, <1>1, <2>1, <2>2, <2>3, LocalStep DEF WriteMediaInfo, aux, t
<1>2. CASE WriteMetadata(w)
  BY <1>0, <1>2, IdleSound, LocalStep DEF WriteMetadata, aux, Sound
<1>3. CASE Abort(w)
  BY <1>0, <1>3, IdleSound, LocalStep DEF Abort, tables, aux
<1>4. QED
  BY <1>1, <1>2, <1>3
-----------------------------------------------------------------------------
LEMMA InitIInv ==
  ASSUME Init
  PROVE  IInv
<1>1. history = <<>> /\ head = <<>> /\ Rows = {} /\ media_info = {} /\ metadata = {}
      /\ overlapped = {}
  BY DEF Init, Rows
<1>2. \A w \in Writers : writer[w] = Idle
  BY DEF Init
<1>3. TypeOK
  <2>1. writer \in [Writers -> WriterState]
    BY IdleSound DEF Init
  <2>2. QED
    BY <1>1, <2>1 DEF TypeOK
<1>4. GroupedCorrectly /\ HeadRule
  BY <1>1 DEF GroupedCorrectly, HeadRule
<1>5. WritersSound
  BY <1>2, IdleSound DEF WritersSound
<1>6. QED
  BY <1>3, <1>4, <1>5 DEF IInv

LEMMA NextIInv ==
  ASSUME IInv, [Next]_vars
  PROVE  IInv'
<1>1. CASE UNCHANGED vars
  BY <1>1 DEF vars, tables, aux, IInv, TypeOK, GroupedCorrectly, HeadRule,
              WritersSound, Sound, Rows, Before, Newest, Continues
<1>2. ASSUME NEW w \in Writers,
             \/ \E s \in Sessions : Begin(w, s)
             \/ Fetch(w) \/ Insert(w) \/ Select(w) \/ Link(w)
             \/ WriteMediaInfo(w) \/ WriteMetadata(w) \/ Abort(w)
      PROVE  IInv'
  BY <1>2, BeginStep, FetchStep, InsertStep, SelectStep, LinkStep, TailStep
<1>3. QED
  BY <1>1, <1>2 DEF Next

\* The inductive invariant holds of every behaviour of the history writer.
THEOREM Invariance == Spec => []IInv
  BY InitIInv, NextIInv, PTL DEF Spec

\* The tables and the threads' local state keep their types: in particular no
\* media-info or metadata row is written for a history row that is not there.
THEOREM TypeCorrect == Spec => []TypeOK
  BY Invariance, PTL DEF IInv

\* Whichever thread's UPDATE sets a row's reference_id, and however the
\* statements of the threads interleave, it names the row's own group.
THEOREM GroupingSound == Spec => []GroupedCorrectly
  BY Invariance, PTL DEF IInv
-----------------------------------------------------------------------------
(* The refinement.                                                         *)

\* A thread that has inserted its row and not set a reference_id yet.
Undecided(s) == s.pc \in {"select", "link"}

\* A thread that has inserted its row and not written the last of its metadata.
Unfinished(s) == s.pc \in {"select", "link", "media", "meta"}

\* What UngroupedHasCause asks of a row without a reference_id.
Cause(id) ==
  \/ id \in overlapped
  \/ \E prev \in 1 .. id - 1 : /\ head[prev] = head[id]
                              /\ history[prev].view = history[id].view
                              /\ history[prev].reference_id = 0

\* No group is 0, the NULL of reference_id.
HeadsPositive == \A id \in Rows : head[id] # 0

\* Every row has one thread, and metadata only when that thread has ended.
OwnRows ==
  \A w \in Writers : Unfinished(writer[w]) =>
    /\ writer[w].last_id \notin metadata
    /\ writer[w].pc = "meta" => writer[w].last_id \in media_info
    /\ \A u \in Writers \ {w} :
         Unfinished(writer[u]) => writer[u].last_id # writer[w].last_id

\* A row inserted after that of an undecided thread of its view has overlapped
\* with it.
Late(s) ==
  Undecided(s) =>
    \A id \in Rows : history[id].view = s.view /\ s.last_id < id
                       => id \in overlapped /\ s.last_id \in overlapped

Offsets == {s.offset : s \in Sessions}

\* A thread inserts the offset of a stream it was given.  Before its UPDATE its own
\* row has a reference_id only if another thread set it.  The UPDATE is of its own
\* row or of one inserted later, and sets 0 for a cause, which the row still has
\* afterwards.
Due(s) ==
  /\ s.pc \in {"fetch", "insert"} => s.offset \in Offsets
  /\ Undecided(s) => /\ history[s.last_id].view = s.view
                     /\ history[s.last_id].reference_id # 0 => s.last_id \in overlapped
  /\ s.pc = "link" => /\ history[s.target].view = s.view
                      /\ s.last_id <= s.target
                      /\ s.value = 0 => Cause(s.target)
  /\ s.pc \in {"media", "meta"} /\ history[s.last_id].reference_id = 0
       => Cause(s.last_id)

OnTheWay == \A w \in Writers : Late(writer[w]) /\ Due(writer[w])

RInv == HeadsPositive /\ OwnRows /\ OnTheWay /\ UngroupedHasCause
-----------------------------------------------------------------------------
\* What the typing of a row and of a thread says, for the steps below.
LEMMA Typed ==
  ASSUME IInv
  PROVE  /\ \A id \in Rows : history[id] \in Row /\ id \in Nat /\ head[id] \in Nat
         /\ \A w \in Writers : writer[w] \in WriterState /\ Sound(writer[w])
         /\ Len(history) \in Nat
  BY DEF IInv, TypeOK, Rows, WritersSound

\* A step of one thread that changes neither rows nor groups keeps the invariant
\* when the thread is no further from its UPDATE than before.
LEMMA LocalProgress ==
  ASSUME IInv, RInv, NEW w \in Writers, NEW s \in WriterState, Late(s), Due(s),
         Unfinished(s) => /\ Unfinished(writer[w])
                          /\ s.last_id = writer[w].last_id
                          /\ s.pc = "meta" => s.last_id \in media_info',
         writer' = [writer EXCEPT ![w] = s],
         UNCHANGED <<history, aux>>, media_info \subseteq media_info',
         \/ metadata' = metadata
         \/ /\ metadata' = metadata \cup {writer[w].last_id}
            /\ writer[w].pc = "meta" /\ ~Unfinished(s)
  PROVE  RInv'
<1>1. \A u \in Writers : writer'[u] = IF u = w THEN s ELSE writer[u]
  BY DEF IInv, TypeOK
<1>2. HeadsPositive'
  BY DEF RInv, HeadsPositive, Rows, aux
<1>3. OwnRows'
  <2> SUFFICES ASSUME NEW u \in Writers, Unfinished(writer[u])'
               PROVE  (/\ writer[u].last_id \notin metadata
                       /\ writer[u].pc = "meta" => writer[u].last_id \in media_info
                       /\ \A x \in Writers \ {u} :
                            Unfinished(writer[x]) => writer[x].last_id # writer[u].last_id)'
    BY DEF OwnRows
  <2>1. /\ Unfinished(writer[u]) /\ writer'[u].last_id = writer[u].last_id
        /\ \A x \in Writers : Unfinished(writer[x])' =>
             Unfinished(writer[x]) /\ writer'[x].last_id = writer[x].last_id
    BY <1>1 DEF Unfinished
  <2>2. /\ writer[u].last_id \notin metadata
        /\ writer[u].pc = "meta" => writer[u].last_id \in media_info
        /\ \A x \in Writers \ {u} :
             Unfinished(writer[x]) => writer[x].last_id # writer[u].last_id
    BY <2>1 DEF RInv, OwnRows
  <2>3. writer'[u].last_id \notin metadata'
    <3>1. CASE metadata' = metadata
      BY <2>1, <2>2, <3>1
    <3>2. CASE /\ metadata' = metadata \cup {writer[w].last_id}
               /\ writer[w].pc = "meta" /\ ~Unfinished(s)
      <4>1. u # w /\ Unfinished(writer[w])
        BY <1>1, <3>2 DEF Unfinished
      <4>2. QED
        BY <2>1, <2>2, <3>2, <4>1
    <3>3. QED
      BY <3>1, <3>2
  <2>4. writer'[u].pc = "meta" => writer'[u].last_id \in media_info'
    BY <1>1, <2>2 DEF Unfinished
  <2>5. QED
    BY <2>1, <2>2, <2>3, <2>4
<1>4. OnTheWay'
  <2> SUFFICES ASSUME NEW u \in Writers PROVE Late(writer[u])' /\ Due(writer[u])'
    BY DEF OnTheWay
  <2>1. Late(writer[u]) /\ Due(writer[u])
    BY DEF RInv, OnTheWay
  <2>2. Late(writer[u])'
    BY <1>1, <2>1 DEF Late, Undecided, Rows, aux
  <2>3. Due(writer[u])'
    BY <1>1, <2>1 DEF Due, Undecided, Cause, aux
  <2>4. QED
    BY <2>2, <2>3
<1>5. UngroupedHasCause'
  <2> SUFFICES ASSUME NEW id \in metadata', history[id].reference_id = 0
               PROVE  Cause(id)
    BY DEF UngroupedHasCause, Cause, aux
  <2>1. CASE id \in metadata
    BY <2>1 DEF RInv, UngroupedHasCause, Cause
  <2>2. CASE id \notin metadata
    BY <2>2 DEF RInv, OnTheWay, Due
  <2>3. QED
    BY <2>1, <2>2
<1>6. QED
  BY <1>2, <1>3, <1>4, <1>5 DEF RInv

LEMMA IdleProgress == ~Unfinished(Idle) /\ Late(Idle) /\ Due(Idle)
  BY DEF Idle, Unfinished, Undecided, Late, Due

LEMMA BeginProgress ==
  ASSUME IInv, RInv, NEW w \in Writers, NEW s \in Sessions, Begin(w, s)
  PROVE  RInv'
<1> DEFINE t == [Idle EXCEPT !.pc = "fetch", !.view = s.view, !.offset = s.offset]
<1>1. t \in WriterState /\ t.pc = "fetch" /\ t.offset = s.offset
  BY ConstantsAssumption DEF Session, WriterState, PC, Idle
<1>2. ~Unfinished(t) /\ Late(t) /\ Due(t)
  BY <1>1 DEF Unfinished, Undecided, Late, Due, Offsets
<1>3. writer' = [writer EXCEPT ![w] = t] /\ UNCHANGED <<tables, aux>>
  BY DEF Begin
<1> HIDE DEF t
<1>4. QED
  BY <1>1, <1>2, <1>3, LocalProgress DEF tables, aux

LEMMA FetchProgress ==
  ASSUME IInv, RInv, NEW w \in Writers, Fetch(w)
  PROVE  RInv'
<1> DEFINE t == [writer[w] EXCEPT !.pc = "insert"]
<1>1. t \in WriterState /\ t.pc = "insert" /\ t.offset = writer[w].offset
  BY Typed DEF WriterState, PC
<1>2. ~Unfinished(t) /\ Late(t) /\ Due(t)
  BY <1>1 DEF Fetch, Unfinished, Undecided, Late, Due, RInv, OnTheWay
<1>3. /\ writer' = [writer EXCEPT ![w] = Idle] \/ writer' = [writer EXCEPT ![w] = t]
      /\ UNCHANGED <<tables, aux>>
  BY DEF Fetch
<1> HIDE DEF t
<1>4. QED
  BY <1>1, <1>2, <1>3, IdleSound, IdleProgress, LocalProgress DEF tables, aux

\* A row that has a cause keeps it while rows are appended.
LEMMA InsertProgress ==
  ASSUME IInv, RInv, NEW w \in Writers, Insert(w)
  PROVE  RInv'
<1>1. /\ TypeOK /\ writer[w] \in WriterState /\ writer[w].pc = "insert"
      /\ writer[w].view \in Views /\ Len(history) \in Nat /\ writer[w].offset \in Nat
  BY Typed DEF IInv, Insert, Sound, WriterState
<1>. PICK v \in Views, offset \in Nat, new \in Nat :
       v = writer[w].view /\ offset = writer[w].offset /\ new = Len(history) + 1
  BY <1>1
<1> DEFINE r == [view |-> v, offset |-> offset, reference_id |-> 0]
           t == [writer[w] EXCEPT !.pc = "select", !.last_id = new]
<1>2. r \in Row /\ r.view = v /\ r.reference_id = 0
  BY DEF Row
<1>3. t \in WriterState /\ t.pc = "select" /\ t.last_id = new /\ t.view = v
  BY <1>1 DEF WriterState, PC
<1>4. PICK h \in Nat : h = HeadOf(v, offset) /\ h # 0
  <2>1. \A p \in Newest(OfView(v)) : head[p] # 0
    BY DEF RInv, HeadsPositive, Newest, OfView
  <2>2. new # 0
    BY <1>1
  <2>3. /\ HeadOf(v, offset) \in Nat
        /\ \/ HeadOf(v, offset) = new
           \/ \E p \in Newest(OfView(v)) : HeadOf(v, offset) = head[p]
    BY <1>1, HeadOfRule
  <2>4. HeadOf(v, offset) # 0
    BY <2>1, <2>2, <2>3
  <2>5. QED
    BY <2>3, <2>4
<1>5. /\ history' = Append(history, r) /\ writer' = [writer EXCEPT ![w] = t]
      /\ head' = Append(head, h) /\ UNCHANGED <<media_info, metadata>>
      /\ overlapped' = IF Ungrouped(v) = {} THEN overlapped
                       ELSE overlapped \cup {new} \cup {writer[u].last_id : u \in Ungrouped(v)}
  BY <1>4 DEF Insert
<1> HIDE DEF r, t
<1>6. /\ Len(history') = new /\ history'[new] = r
      /\ \A id \in Rows : history'[id] = history[id]
  BY <1>1, <1>2, <1>5, AppendRow
<1>7. /\ head'[new] = h
      /\ \A id \in Rows : head'[id] = head[id]
  BY <1>1, <1>4, <1>5 DEF TypeOK, Rows
<1>8. Rows' = Rows \cup {new} /\ new \notin Rows /\ \A id \in Rows : id < new
  BY <1>1, <1>6 DEF Rows
<1>9. /\ \A u \in Writers : writer'[u] = IF u = w THEN t ELSE writer[u]
      /\ \A u \in Writers : Unfinished(writer[u]) => writer[u].last_id \in Rows
      /\ metadata \subseteq Rows
      /\ overlapped \subseteq overlapped'
  BY <1>1, <1>3, <1>5, Typed DEF TypeOK, Sound, Unfinished
<1>10. \A id \in Rows : Cause(id) => Cause(id)'
  <2> SUFFICES ASSUME NEW id \in Rows, Cause(id) PROVE Cause(id)'
    OBVIOUS
  <2>1. \A prev \in 1 .. id - 1 : prev \in Rows
    BY <1>1 DEF Rows
  <2>2. QED
    BY <1>6, <1>7, <1>9, <2>1 DEF Cause
<1>11. HeadsPositive'
  BY <1>4, <1>7, <1>8 DEF RInv, HeadsPositive
<1>12. OwnRows'
  BY <1>3, <1>5, <1>8, <1>9 DEF RInv, OwnRows, Unfinished
<1>13. ASSUME NEW u \in Writers
       PROVE  Late(writer[u])' /\ Due(writer[u])'
  <2>1. CASE u = w
    <3>1. writer'[u] = t /\ ~\E id \in Rows' : new < id
      BY <1>1, <1>8, <1>9, <2>1 DEF Rows
    <3>2. Late(writer[u])'
      BY <1>3, <3>1 DEF Late
    <3>3. Due(writer[u])'
      BY <1>2, <1>3, <1>6, <3>1 DEF Due, Undecided
    <3>4. QED
      BY <3>2, <3>3
  <2>2. CASE u # w
    <3>1. /\ writer'[u] = writer[u] /\ Late(writer[u]) /\ Due(writer[u])
          /\ writer[u] \in WriterState /\ Sound(writer[u])
      BY <1>9, <2>2, Typed DEF RInv, OnTheWay
    <3>2. Undecided(writer[u]) /\ writer[u].view = v =>
            new \in overlapped' /\ writer[u].last_id \in overlapped'
      BY <1>5 DEF Ungrouped, Undecided
    <3>3. Late(writer[u])'
      BY <1>2, <1>6, <1>8, <1>9, <3>1, <3>2 DEF Late, Undecided
    <3>4. Due(writer[u])'
      BY <1>6, <1>8, <1>9, <1>10, <3>1 DEF Due, Undecided, Sound, Unfinished
    <3>5. QED
      BY <3>3, <3>4
  <2>3. QED
    BY <2>1, <2>2
<1>14. UngroupedHasCause'
  <2> SUFFICES ASSUME NEW id \in metadata, history'[id].reference_id = 0
               PROVE  Cause(id)'
    BY <1>5 DEF UngroupedHasCause, Cause
  <2>1. id \in Rows /\ history[id].reference_id = 0
    BY <1>6, <1>9
  <2>2. Cause(id)
    BY <2>1 DEF RInv, UngroupedHasCause, Cause
  <2>3. QED
    BY <1>10, <2>1, <2>2
<1>15. QED
  BY <1>11, <1>12, <1>13, <1>14 DEF RInv, OnTheWay

\* The row a thread decides on is the newest of its view: its own, or a later one,
\* and then both have overlapped.
LEMMA SelectProgress ==
  ASSUME IInv, RInv, NEW w \in Writers, Select(w)
  PROVE  RInv'
<1> DEFINE s == writer[w]
           ids == OfView(s.view)
           t(target, value) == [s EXCEPT !.pc = "link", !.target = target, !.value = value]
<1>1. /\ s \in WriterState /\ s.pc = "select" /\ s.last_id \in Rows /\ s.view \in Views
      /\ history[s.last_id].view = s.view /\ s.last_id \in ids
      /\ Late(s) /\ Due(s) /\ UNCHANGED <<tables, aux>>
  BY Typed DEF Select, Sound, RInv, OnTheWay, OfView
<1>2. PICK new \in Newest(ids) :
        \/ ids = {new} /\ Decide(w, s.last_id, s.last_id)
        \/ \E prev \in Newest(ids \ {new}) :
             IF Continues(prev, history[new].offset)
               THEN Decide(w, new, history[prev].reference_id)
               ELSE Decide(w, new, new)
  BY DEF Select, Inherited
<1>3. new \in Rows /\ history[new].view = s.view /\ s.last_id <= new /\ new # 0
  BY <1>1 DEF Newest, OfView, Rows
<1>4. ASSUME NEW target \in Rows, history[target].view = s.view, s.last_id <= target,
             NEW value \in Nat, value = 0 => Cause(target), Decide(w, target, value)
      PROVE  RInv'
  <2>1. /\ t(target, value) \in WriterState /\ t(target, value).pc = "link"
        /\ t(target, value).target = target /\ t(target, value).value = value
        /\ t(target, value).last_id = s.last_id /\ t(target, value).view = s.view
    BY <1>1, Typed DEF WriterState, PC
  <2>2. Late(t(target, value)) /\ Due(t(target, value))
    BY <1>1, <1>4, <2>1 DEF Late, Due, Undecided
  <2>3. writer' = [writer EXCEPT ![w] = t(target, value)]
    BY <1>4 DEF Decide
  <2> HIDE DEF t
  <2>4. QED
    BY <1>1, <2>1, <2>2, <2>3, LocalProgress DEF tables, aux, Unfinished
<1>5. CASE ids = {new} /\ Decide(w, s.last_id, s.last_id)
  BY <1>1, <1>3, <1>4, <1>5, Typed DEF Rows
<1>6. ASSUME NEW prev \in Newest(ids \ {new}),
             IF Continues(prev, history[new].offset)
               THEN Decide(w, new, history[prev].reference_id)
               ELSE Decide(w, new, new)
      PROVE  RInv'
  <2>1. /\ prev \in Rows /\ prev < new /\ history[prev].view = s.view
        /\ head[new] = IF Continues(prev, history[new].offset)
                         THEN head[prev] ELSE new
    BY <1>1, <1>2, <1>3, LastTwo DEF Newest, OfView, Rows
  <2>2. history[prev].reference_id \in Nat
    BY <2>1, Typed DEF Row
  <2>3. CASE Continues(prev, history[new].offset)
    <3>1. history[prev].reference_id = 0 => Cause(new)
      <4>1. prev \in 1 .. new - 1
        BY <1>3, <2>1 DEF Rows
      <4>2. QED
        BY <1>3, <2>1, <2>3, <4>1 DEF Cause
    <3>2. QED
      BY <1>3, <1>4, <1>6, <2>2, <2>3, <3>1
  <2>4. CASE ~Continues(prev, history[new].offset)
    BY <1>3, <1>4, <1>6, <2>4, Typed
  <2>5. QED
    BY <2>3, <2>4
<1>7. QED
  BY <1>2, <1>5, <1>6

\* The UPDATE takes a row's cause away only if the row came after its target, and
\* has overlapped with the thread.  A row that loses a reference_id was set by two
\* threads.
LEMMA LinkProgress ==
  ASSUME IInv, RInv, NEW w \in Writers, Link(w)
  PROVE  RInv'
<1> DEFINE s == writer[w]
           t == [s EXCEPT !.pc = "media"]
<1>1. /\ s \in WriterState /\ s.pc = "link" /\ s.target \in Rows /\ s.last_id \in Rows
      /\ s.value \in Nat /\ Late(s) /\ Due(s) /\ Undecided(s) /\ Unfinished(s) /\ TypeOK
  BY Typed DEF Link, Sound, RInv, OnTheWay, WriterState, Undecided, Unfinished, IInv
<1>2. /\ Len(history') = Len(history)
      /\ \A id \in Rows : /\ history'[id].view = history[id].view
                          /\ history'[id].reference_id =
                               IF id = s.target THEN s.value ELSE history[id].reference_id
  BY <1>1, SetReference DEF Link
<1>3. /\ Rows' = Rows /\ Rows \subseteq Nat
      /\ UNCHANGED <<media_info, metadata, head, overlapped>>
  BY <1>2 DEF Rows, Link, aux
<1>4. /\ t \in WriterState /\ t.pc = "media" /\ t.last_id = s.last_id /\ t.view = s.view
      /\ writer' = [writer EXCEPT ![w] = t]
  BY <1>1 DEF WriterState, PC, Link
<1> HIDE DEF t
<1>5. \A u \in Writers : writer'[u] = IF u = w THEN t ELSE writer[u]
  BY <1>1, <1>4 DEF TypeOK
<1>6. /\ history[s.target].view = s.view /\ s.last_id <= s.target
       /\ s.last_id \in Nat /\ s.target \in Nat
       /\ \A id \in Rows : history[id].view = s.view /\ s.last_id < id
                            => id \in overlapped /\ s.last_id \in overlapped
  BY <1>1, <1>3 DEF Late, Due
<1>7. s.last_id # s.target => s.target \in overlapped /\ s.last_id \in overlapped
  <2>1. s.last_id # s.target => s.last_id < s.target
    BY <1>6
  <2>2. QED
    BY <1>1, <1>6, <2>1
<1>8. ASSUME NEW id \in Rows, Cause(id) PROVE Cause(id)'
  <2>1. CASE id \in overlapped
    BY <1>3, <2>1 DEF Cause
  <2>2. CASE id \notin overlapped
    <3>1. PICK prev \in 1 .. id - 1 : /\ head[prev] = head[id]
                                     /\ history[prev].view = history[id].view
                                     /\ history[prev].reference_id = 0
      BY <1>8, <2>2 DEF Cause
    <3>2. prev \in Rows /\ prev < id
      BY <1>3 DEF Rows
    <3>3. prev # s.target
      <4>1. prev = s.target => s.last_id < id
        BY <1>3, <1>6, <3>2
      <4>2. QED
        BY <1>6, <2>2, <3>1, <4>1
    <3>4. QED
      BY <1>2, <1>3, <3>1, <3>2, <3>3 DEF Cause
  <2>3. QED
    BY <2>1, <2>2
\* A row that is left without a reference_id by this step, or was before it.
<1>9. ASSUME NEW id \in Rows, history'[id].reference_id = 0,
             id # s.target => Cause(id)
      PROVE  Cause(id)'
  BY <1>1, <1>2, <1>8, <1>9 DEF Due
<1>10. HeadsPositive'
  BY <1>3 DEF RInv, HeadsPositive
<1>11. OwnRows'
  BY <1>1, <1>3, <1>4, <1>5 DEF RInv, OwnRows, Unfinished
<1>12. ASSUME NEW u \in Writers
       PROVE  Late(writer[u])' /\ Due(writer[u])'
  <2>1. CASE u = w
    <3>1. Late(writer[u])'
      BY <1>4, <1>5, <2>1 DEF Late, Undecided
    <3>2. \A id \in Rows : id = s.last_id /\ history'[id].reference_id = 0 => Cause(id)'
      <4>1. s.last_id # s.target => Cause(s.last_id)
        BY <1>7 DEF Cause
      <4>2. QED
        BY <1>1, <1>9, <4>1
    <3>3. Due(writer[u])'
      BY <1>1, <1>4, <1>5, <2>1, <3>2 DEF Due, Undecided
    <3>4. QED
      BY <3>1, <3>3
  <2>2. CASE u # w
    <3> DEFINE x == writer[u]
    <3>1. /\ writer'[u] = x /\ Late(x) /\ Due(x) /\ Sound(x) /\ x \in WriterState
          /\ Unfinished(x) => x.last_id \in Rows /\ x.last_id # s.last_id
      BY <1>1, <1>5, <2>2, Typed DEF RInv, OnTheWay, OwnRows, Sound, Unfinished
    <3>2. Late(x)'
      BY <1>2, <1>3, <3>1 DEF Late, Undecided
    <3>3. /\ Undecided(x) => Unfinished(x)
          /\ x.pc = "link" => Undecided(x) /\ x.target \in Rows
          /\ x.pc \in {"media", "meta"} => Unfinished(x)
      BY <3>1 DEF Undecided, Unfinished, Sound
    <3>4. Undecided(x) => /\ history'[x.last_id].view = x.view
                          /\ history'[x.last_id].reference_id # 0 => x.last_id \in overlapped'
      <4>1. Undecided(x) /\ x.last_id = s.target => x.last_id \in overlapped
        BY <1>7, <3>1, <3>3
      <4>2. QED
        BY <1>2, <1>3, <3>1, <3>3, <4>1 DEF Due
    <3>5. x.pc = "link" => /\ history'[x.target].view = x.view
                           /\ x.last_id <= x.target
                           /\ x.value = 0 => Cause(x.target)'
      BY <1>2, <1>8, <3>1, <3>3 DEF Due
    <3>6. x.pc \in {"media", "meta"} /\ history'[x.last_id].reference_id = 0
            => Cause(x.last_id)'
      BY <1>2, <1>9, <3>1, <3>3 DEF Due
    <3>7. Due(x)'
      BY <3>1, <3>4, <3>5, <3>6 DEF Due, Undecided
    <3> HIDE DEF x
    <3>8. QED
      BY <3>1, <3>2, <3>7 DEF x
  <2>3. QED
    BY <2>1, <2>2
<1>13. UngroupedHasCause'
  <2> SUFFICES ASSUME NEW id \in metadata, history'[id].reference_id = 0
               PROVE  Cause(id)'
    BY <1>3 DEF UngroupedHasCause, Cause
  <2>1. id \in Rows
    BY <1>1 DEF TypeOK
  <2>2. id # s.target => Cause(id)
    BY <1>2, <2>1 DEF RInv, UngroupedHasCause, Cause
  <2>3. QED
    BY <1>9, <2>1, <2>2
<1>14. QED
  BY <1>10, <1>11, <1>12, <1>13 DEF RInv, OnTheWay

LEMMA TailProgress ==
  ASSUME IInv, RInv, NEW w \in Writers,
         WriteMediaInfo(w) \/ WriteMetadata(w) \/ Abort(w)
  PROVE  RInv'
<1> DEFINE t == [writer[w] EXCEPT !.pc = "meta"]
<1>1. writer[w] \in WriterState /\ Sound(writer[w]) /\ Late(writer[w]) /\ Due(writer[w])
  BY Typed DEF RInv, OnTheWay
<1>2. CASE WriteMediaInfo(w)
  <2>1. /\ t \in WriterState /\ t.pc = "meta" /\ t.last_id = writer[w].last_id
    BY <1>1 DEF WriterState, PC
  <2>2. Late(t) /\ Due(t)
    BY <1>1, <1>2, <2>1 DEF WriteMediaInfo, Late, Due, Undecided, Cause
  <2>3. Unfinished(writer[w]) /\ t.last_id \in media_info'
    BY <1>2, <2>1 DEF WriteMediaInfo, Unfinished
  <2>4. /\ writer' = [writer EXCEPT ![w] = t] /\ UNCHANGED <<history, metadata, aux>>
        /\ media_info \subseteq media_info'
    BY <1>2 DEF WriteMediaInfo
  <2> HIDE DEF t
  <2>5. QED
    BY <2>1, <2>2, <2>3, <2>4, LocalProgress
<1>3. CASE WriteMetadata(w)
  BY <1>3, IdleSound, IdleProgress, LocalProgress DEF WriteMetadata, aux
<1>4. CASE Abort(w)
  BY <1>4, IdleSound, IdleProgress, LocalProgress DEF Abort, tables, aux
<1>5. QED
  BY <1>2, <1>3, <1>4
-----------------------------------------------------------------------------
LEMMA InitRInv ==
  ASSUME Init
  PROVE  RInv
<1>1. Rows = {} /\ metadata = {} /\ \A w \in Writers : writer[w] = Idle
  BY DEF Init, Rows
<1>2. HeadsPositive /\ UngroupedHasCause
  BY <1>1 DEF HeadsPositive, UngroupedHasCause
<1>3. OwnRows /\ OnTheWay
  BY <1>1, IdleProgress DEF OwnRows, OnTheWay
<1>4. QED
  BY <1>2, <1>3 DEF RInv

LEMMA NextRInv ==
  ASSUME IInv, RInv, [Next]_vars
  PROVE  RInv'
<1>1. CASE UNCHANGED vars
  BY <1>1 DEF vars, tables, aux, RInv, HeadsPositive, OwnRows, OnTheWay, Late, Due, Undecided,
              Unfinished, Cause, UngroupedHasCause, Rows
<1>2. ASSUME NEW w \in Writers,
             \/ \E s \in Sessions : Begin(w, s)
             \/ Fetch(w) \/ Insert(w) \/ Select(w) \/ Link(w)
             \/ WriteMediaInfo(w) \/ WriteMetadata(w) \/ Abort(w)
      PROVE  RInv'
  BY <1>2, BeginProgress, FetchProgress, InsertProgress, SelectProgress, LinkProgress,
     TailProgress
<1>3. QED
  BY <1>1, <1>2 DEF Next

\* What is under way for the rows that are not yet in their group, in every state.
THEOREM ProgressInvariance == Spec => []RInv
  BY Invariance, InitRInv, NextRInv, PTL DEF Spec

\* A row whose thread finished is left out of its group only when another row of
\* its view was on its way at the same time, or the row it continues is left out.
THEOREM UngroupedForCause == Spec => []UngroupedHasCause
  BY ProgressInvariance, PTL DEF RInv
-----------------------------------------------------------------------------
\* What the readers of the history see: the values of PlayHistory's variables.
Plays == [id \in Rows |-> [view |-> history[id].view, offset |-> history[id].offset,
                           group |-> head[id]]]

Shown == {id \in Rows : history[id].reference_id = head[id]}

\* The play that a new one continues is the row that HeadOf looks at.
LEMMA ContinuedIsPrevious ==
  ASSUME NEW v, NEW offset
  PROVE  /\ History!Of(v) = OfView(v)
         /\ History!Continued(v, offset) = {p \in Newest(OfView(v)) : Continues(p, offset)}
<1>1. History!Of(v) = OfView(v)
  BY DEF History!Of, OfView
<1>2. ASSUME NEW p \in Rows
      PROVE  /\ Plays[p].offset = history[p].offset
             /\ p \in OfView(v) /\ (\A q \in OfView(v) : q <= p) <=> p \in Newest(OfView(v))
  BY DEF Plays, Newest
<1>3. History!Continued(v, offset) = {p \in OfView(v) : /\ \A q \in OfView(v) : q <= p
                                                       /\ Plays[p].offset < WatchedOffset
                                                       /\ Plays[p].offset <= offset}
  BY <1>1 DEF History!Continued, Plays
<1>4. OfView(v) \subseteq Rows
  BY DEF OfView
<1>5. QED
  BY <1>1, <1>2, <1>3, <1>4 DEF Newest, Continues

\* A step that leaves rows, groups and completeness alone is not seen.
LEMMA LocalUnseen ==
  ASSUME UNCHANGED <<history, head, overlapped>>,
         UNCHANGED (media_info \cap metadata)
  PROVE  UNCHANGED History!vars
  BY DEF History!vars, Rows

\* An INSERT adds a play, in the group of the one it continues.
LEMMA InsertSeen ==
  ASSUME IInv, RInv, NEW w \in Writers, Insert(w)
  PROVE  \E offset \in Offsets : History!Add(writer[w].view, offset)
<1>1. /\ TypeOK /\ writer[w] \in WriterState /\ writer[w].pc = "insert"
      /\ writer[w].view \in Views /\ Len(history) \in Nat /\ writer[w].offset \in Nat
      /\ writer[w].offset \in Offsets
  BY Typed DEF IInv, Insert, Sound, WriterState, RInv, OnTheWay, Due
<1>. PICK v \in Views, offset \in Offsets \cap Nat, new \in Nat :
       v = writer[w].view /\ offset = writer[w].offset /\ new = Len(history) + 1
  BY <1>1
<1> DEFINE r == [view |-> v, offset |-> offset, reference_id |-> 0]
           play(h) == [view |-> v, offset |-> offset, group |-> h]
           others == {writer[u].last_id : u \in Ungrouped(v)}
<1>2. PICK h \in Nat : h = HeadOf(v, offset) /\ h # 0
  <2>1. \A p \in Newest(OfView(v)) : head[p] # 0
    BY DEF RInv, HeadsPositive, Newest, OfView
  <2>2. new # 0
    BY <1>1
  <2>3. /\ HeadOf(v, offset) \in Nat
        /\ \/ HeadOf(v, offset) = new
           \/ \E p \in Newest(OfView(v)) : HeadOf(v, offset) = head[p]
    BY <1>1, HeadOfRule
  <2>4. HeadOf(v, offset) # 0
    BY <2>1, <2>2, <2>3
  <2>5. QED
    BY <2>3, <2>4
<1>3. /\ history' = Append(history, r) /\ head' = Append(head, h)
      /\ UNCHANGED <<media_info, metadata>>
      /\ overlapped' = IF Ungrouped(v) = {} THEN overlapped
                       ELSE overlapped \cup {new} \cup others
  BY <1>2 DEF Insert
<1>4. r \in Row /\ r.view = v /\ r.offset = offset /\ r.reference_id = 0
  BY DEF Row
<1> HIDE DEF r
<1>5. /\ Len(history') = new /\ history'[new] = r
      /\ \A id \in Rows : history'[id] = history[id]
  BY <1>1, <1>3, <1>4, AppendRow
<1>6. /\ head'[new] = h
      /\ \A id \in Rows : head'[id] = head[id]
  BY <1>1, <1>2, <1>3 DEF TypeOK, Rows
<1>7. Rows' = Rows \cup {new} /\ new \notin Rows /\ Rows = 1 .. Len(history)
  BY <1>1, <1>5 DEF Rows
<1>8. Plays' = Append(Plays, play(h)) /\ Len(Plays) + 1 = new
  <2>1. Plays \in Seq({Plays[id] : id \in Rows}) /\ Len(Plays) = Len(history)
    BY <1>1, <1>7 DEF Plays
  <2>2. Append(Plays, play(h)) = [id \in 1 .. new |-> IF id = new THEN play(h) ELSE Plays[id]]
    BY <1>1, <2>1
  <2>3. Plays' = [id \in 1 .. new |-> IF id = new THEN play(h) ELSE Plays[id]]
    BY <1>4, <1>5, <1>6, <1>7 DEF Plays
  <2>4. QED
    BY <1>1, <2>1, <2>2, <2>3
<1>9. h \in IF History!Continued(v, offset) = {} THEN {new}
            ELSE {Plays[p].group : p \in History!Continued(v, offset)}
  <2> DEFINE prev == {p \in Newest(OfView(v)) : Continues(p, offset)}
  <2>1. /\ History!Continued(v, offset) = prev
        /\ \A p \in prev : Plays[p].group = head[p]
    BY ContinuedIsPrevious DEF Plays, Newest, OfView
  <2>2. h = IF prev = {} THEN new ELSE head[CHOOSE p \in prev : TRUE]
    BY <1>2 DEF HeadOf
  <2>3. prev # {} => (CHOOSE p \in prev : TRUE) \in prev
    OBVIOUS
  <2> HIDE DEF prev
  <2>4. QED
    BY <2>1, <2>2, <2>3
<1>10. Shown' = Shown
  BY <1>2, <1>4, <1>5, <1>6, <1>7 DEF Shown
<1>11. \/ UNCHANGED overlapped
       \/ \E those \in (SUBSET (History!Of(v) \ (media_info \cap metadata))) \ {{}} :
            overlapped' = overlapped \cup those \cup {new}
  <2>1. ASSUME NEW u \in Ungrouped(v)
        PROVE  writer[u].last_id \in OfView(v) \ metadata
    <3>1. /\ u \in Writers /\ writer[u].view = v
          /\ Undecided(writer[u]) /\ Unfinished(writer[u])
      BY DEF Ungrouped, Undecided, Unfinished
    <3>2. writer[u].last_id \in Rows
      BY <3>1, Typed DEF Sound, Unfinished
    <3>3. history[writer[u].last_id].view = v /\ writer[u].last_id \notin metadata
      BY <3>1 DEF RInv, OnTheWay, OwnRows, Due
    <3>4. QED
      BY <3>2, <3>3 DEF OfView
  <2>2. CASE Ungrouped(v) = {}
    BY <1>3, <2>2
  <2>3. CASE Ungrouped(v) # {}
    <3>1. others \in (SUBSET (History!Of(v) \ (media_info \cap metadata))) \ {{}}
      <4>1. others # {}
        BY <2>3
      <4>2. \A id \in others : id \in History!Of(v) \ (media_info \cap metadata)
        BY <2>1, ContinuedIsPrevious
      <4> HIDE DEF others
      <4>3. QED
        BY <4>1, <4>2
    <3>2. overlapped' = overlapped \cup others \cup {new}
      BY <1>3, <2>3
    <3> HIDE DEF others
    <3>3. QED
      BY <3>1, <3>2
  <2>4. QED
    BY <2>2, <2>3
<1>12. History!Add(v, offset)
  <2>1. Plays' \in {Append(Plays, play(g)) :
                      g \in IF History!Continued(v, offset) = {} THEN {new}
                            ELSE {Plays[p].group : p \in History!Continued(v, offset)}}
    BY <1>8, <1>9
  <2>2. UNCHANGED (media_info \cap metadata)
    BY <1>3
  <2>3. QED
    BY <1>8, <1>10, <1>11, <2>1, <2>2 DEF History!Add, Plays, Shown
<1>13. QED
  BY <1>12

\* The UPDATE moves a play into its group, or out of it when it is contended.
LEMMA LinkSeen ==
  ASSUME IInv, RInv, NEW w \in Writers, Link(w)
  PROVE  (\E p \in Rows : History!Group(p)) \/ UNCHANGED History!vars
<1> DEFINE s == writer[w]
<1>1. /\ TypeOK /\ s.pc = "link" /\ s.target \in Rows /\ s.last_id \in Rows
      /\ s.value \in {0, head[s.target]} /\ s.value \in Nat
      /\ Late(s) /\ Due(s) /\ Undecided(s)
  BY Typed DEF Link, Sound, RInv, OnTheWay, WriterState, Undecided, IInv
<1>2. /\ Len(history') = Len(history)
      /\ \A id \in Rows : /\ history'[id].view = history[id].view
                          /\ history'[id].offset = history[id].offset
                          /\ history'[id].reference_id =
                               IF id = s.target THEN s.value ELSE history[id].reference_id
  BY <1>1, SetReference DEF Link
<1>3. Rows' = Rows /\ UNCHANGED <<media_info, metadata, head, overlapped>>
  BY <1>2 DEF Rows, Link, aux
<1>4. Plays' = Plays
  BY <1>2, <1>3 DEF Plays
<1> PICK p \in Rows : p = s.target
  BY <1>1
<1>5. CASE s.value = head[p]
  <2>1. Shown' = Shown \cup {p}
    BY <1>2, <1>3, <1>5 DEF Shown
  <2>2. History!Group(p)
    BY <1>3, <1>4, <2>1 DEF History!Group, Plays, Shown
  <2>3. QED
    BY <2>2
<1>6. CASE s.value = 0
  <2>1. Shown' = Shown \ {p}
    BY <1>2, <1>3, <1>6 DEF Shown, RInv, HeadsPositive
  <2>2. p \in Shown => p \in overlapped
    <3>1. s.last_id = p /\ p \in Shown => p \in overlapped
      BY <1>1 DEF Shown, Due, RInv, HeadsPositive
    <3>2. s.last_id # p => p \in overlapped
      <4>1. s.last_id # p => s.last_id < p
        BY <1>1 DEF Due, Rows
      <4>2. QED
        BY <1>1, <4>1 DEF Late, Due
    <3>3. QED
      BY <3>1, <3>2
  <2>3. CASE p \in Shown
    <3>1. History!Group(p)
      BY <1>3, <1>4, <2>1, <2>2, <2>3 DEF History!Group, Plays, Shown
    <3>2. QED
      BY <3>1
  <2>4. CASE p \notin Shown
    BY <1>3, <1>4, <2>1, <2>4 DEF History!vars, Plays, Shown
  <2>5. QED
    BY <2>3, <2>4
<1>7. QED
  BY <1>1, <1>5, <1>6

\* The last statement completes a play that is in its group, or has a reason.
LEMMA MetadataSeen ==
  ASSUME IInv, RInv, NEW w \in Writers, WriteMetadata(w)
  PROVE  \E p \in Rows : History!Complete(p)
<1>1. /\ writer[w].last_id \in Rows /\ writer[w].last_id \in media_info
      /\ history[writer[w].last_id].reference_id = 0 => Cause(writer[w].last_id)
      /\ metadata' = metadata \cup {writer[w].last_id}
      /\ UNCHANGED <<history, media_info, aux>>
  BY Typed DEF WriteMetadata, Sound, RInv, OnTheWay, Due, OwnRows, Unfinished
<1> PICK p \in Rows : p = writer[w].last_id
  BY <1>1
<1>2. (media_info \cap metadata)' = (media_info \cap metadata) \cup {p}
  BY <1>1
<1>3. Plays' = Plays /\ Shown' = Shown /\ overlapped' = overlapped
  BY <1>1 DEF Plays, Shown, Rows, aux
<1>4. \/ p \in Shown \cup overlapped
      \/ \E q \in Rows \ Shown : q < p /\ Plays[q].group = Plays[p].group
  <2>1. history[p].reference_id \in {0, head[p]}
    BY DEF IInv, GroupedCorrectly
  <2>2. CASE history[p].reference_id = 0
    <3>1. CASE p \in overlapped
      BY <3>1
    <3>2. CASE p \notin overlapped
      <4>1. PICK q \in 1 .. p - 1 : head[q] = head[p] /\ history[q].reference_id = 0
        BY <1>1, <2>2, <3>2 DEF Cause
      <4>2. q \in Rows /\ q < p
        BY Typed DEF Rows
      <4>3. q \notin Shown /\ Plays[q].group = Plays[p].group
        BY <4>1, <4>2 DEF RInv, HeadsPositive, Shown, Plays
      <4>4. QED
        BY <4>2, <4>3
    <3>3. QED
      BY <3>1, <3>2
  <2>3. CASE history[p].reference_id = head[p]
    BY <2>3 DEF Shown
  <2>4. QED
    BY <2>1, <2>2, <2>3
<1>5. History!Complete(p)
  BY <1>2, <1>3, <1>4 DEF History!Complete, Plays, Shown
<1>6. QED
  BY <1>5

LEMMA StepImplements ==
  ASSUME IInv, RInv, [Next]_vars
  PROVE  [History!Next]_History!vars
<1>1. CASE UNCHANGED vars
  BY <1>1, LocalUnseen DEF vars, tables, aux
<1>2. ASSUME NEW w \in Writers,
             \/ \E s \in Sessions : Begin(w, s)
             \/ Fetch(w) \/ Insert(w) \/ Select(w) \/ Link(w)
             \/ WriteMediaInfo(w) \/ WriteMetadata(w) \/ Abort(w)
      PROVE  [History!Next]_History!vars
  <2>1. CASE (\E s \in Sessions : Begin(w, s)) \/ Fetch(w) \/ Select(w) \/ Abort(w)
    BY <2>1, LocalUnseen DEF Begin, Fetch, Select, Abort, tables, aux
  <2>2. CASE Insert(w)
    <3>1. writer[w].view \in Views
      BY <2>2, Typed DEF Insert, Sound
    <3>2. QED
      BY <2>2, <3>1, InsertSeen DEF History!Next, Offsets
  <2>3. CASE Link(w)
    BY <2>3, LinkSeen DEF History!Next
  <2>4. CASE WriteMediaInfo(w)
    <3>1. writer[w].last_id \notin metadata
      BY <2>4 DEF RInv, OwnRows, WriteMediaInfo, Unfinished
    <3>2. UNCHANGED (media_info \cap metadata)
      BY <2>4, <3>1 DEF WriteMediaInfo
    <3>3. QED
      BY <2>4, <3>2, LocalUnseen DEF WriteMediaInfo, aux
  <2>5. CASE WriteMetadata(w)
    BY <2>5, MetadataSeen DEF History!Next
  <2>6. QED
    BY <1>2, <2>1, <2>2, <2>3, <2>4, <2>5
<1>3. QED
  BY <1>1, <1>2 DEF Next

\* The statements of write_session_history, in whatever order its threads run
\* them, do what PlayHistory promises the history queries.
THEOREM Implementation == Spec => ImplementsPlayHistory
<1>1. Init => History!Init
  BY DEF Init, History!Init, Rows
<1>2. IInv /\ RInv /\ [Next]_vars => [History!Next]_History!vars
  BY StepImplements
<1>3. QED
  BY <1>1, <1>2, Invariance, ProgressInvariance, PTL
     DEF Spec, History!Spec, ImplementsPlayHistory
=============================================================================
