-------------------------- MODULE SessionMonitorProofs --------------------------
(***************************************************************************)
(* For any number of session keys, websocket threads, rows and events:     *)
(* type correctness of the session monitor; that a play that was given a   *)
(* force-stop callback is not left behind; and, while the server answers,  *)
(* that write_attempts counts the attempts that failed and that a row      *)
(* leaves the table after the last of them only.                           *)
(*                                                                         *)
(* CallbackCoverage says that some thread is at work on the key of a play. *)
(* Which thread, and what it will do, is Watches: it is about to set the   *)
(* callback, or it is the callback and has read this row or none yet.  A   *)
(* thread that is about to cancel the callback is not, so what it read     *)
(* must be the row that is first now or gone: ThreadSound, which rests on  *)
(* the table only ever losing all rows of a key at once (TableStep).       *)
(***************************************************************************)
EXTENDS SessionMonitor, TLAPS

\* s is the local state of thread t.
ThreadSound(t, s) ==
  /\ s.pc # "idle" => s.key \in Keys /\ (t \in Keys => s.key = t)
  /\ s.id < next_id
  /\ s.id \in DOMAIN sessions => s.id \in First(s.key)
  /\ s.pc \in {"get_job", "set_job"} /\ s.remove => s.id \in written

ProbeSound == probe.pc # "idle" => probe.key \in Keys

\* In local state s thread t will set the callback of k for row id, or write it.
Watches(t, s, k, id) ==
  \/ s.key = k /\ s.pc \in {"get_job", "set_job"} /\ ~s.remove
  \/ t = k /\ (s.pc = "load" \/ (s.pc \in {"history", "reread", "bump"} /\ s.id = id))

Covered ==
  \A k \in Keys : \A id \in First(k) : id \in guarded \ written =>
    k \in jobs \/ k \in lost \/ \E t \in Threads : Watches(t, thread[t], k, id)

IInv ==
  /\ TypeOK
  /\ \A t \in Threads : ThreadSound(t, thread[t])
  /\ ProbeSound
  /\ guarded \subseteq 1 .. next_id - 1
  /\ Covered
-----------------------------------------------------------------------------
(* The table. *)

\* Rows keep their key, new ones are the youngest, and a key loses all its rows.
TableStep ==
  /\ \A id \in DOMAIN sessions' : sessions'[id] \in Row
  /\ \A id \in DOMAIN sessions' \cap DOMAIN sessions : sessions'[id].key = sessions[id].key
  /\ \A id \in DOMAIN sessions' \ DOMAIN sessions : id >= next_id
  /\ \A id \in DOMAIN sessions \ DOMAIN sessions' :
       OfKey(sessions[id].key) \cap DOMAIN sessions' = {}
  /\ next_id' \in 1 .. MaxRows + 1 /\ next_id' >= next_id
  /\ DOMAIN sessions' \subseteq 1 .. next_id' - 1

LEMMA TableKept ==
  ASSUME TypeOK, UNCHANGED <<sessions, next_id>>
  PROVE  TableStep
  BY DEF TypeOK, TableStep

LEMMA RowInserted ==
  ASSUME TypeOK, NEW row \in Row, InsertRow(row)
  PROVE  /\ TableStep
         /\ DOMAIN sessions' = DOMAIN sessions \cup {next_id} /\ sessions'[next_id] = row
         /\ \A id \in DOMAIN sessions : sessions'[id] = sessions[id]
<1>1. /\ DOMAIN sessions' = DOMAIN sessions \cup {next_id} /\ next_id' = next_id + 1
      /\ next_id <= MaxRows /\ next_id \notin DOMAIN sessions
      /\ next_id \in 1 .. MaxRows + 1 /\ MaxRows \in Nat
      /\ sessions'[next_id] = row
      /\ \A id \in DOMAIN sessions : sessions'[id] = sessions[id]
  BY ConstantsAssumption DEF TypeOK, InsertRow
<1>2. DOMAIN sessions' \subseteq 1 .. next_id' - 1
  BY <1>1 DEF TypeOK
<1>3. next_id' \in 1 .. MaxRows + 1 /\ next_id' >= next_id
  BY <1>1
<1>4. \A id \in DOMAIN sessions' : sessions'[id] \in Row
  BY <1>1 DEF TypeOK
<1>5. QED
  BY <1>1, <1>2, <1>3, <1>4 DEF TableStep

LEMMA RowsSet ==
  ASSUME TypeOK, UNCHANGED next_id, DOMAIN sessions' = DOMAIN sessions,
         \A id \in DOMAIN sessions :
           sessions'[id] \in Row /\ sessions'[id].key = sessions[id].key
  PROVE  TableStep
  BY DEF TypeOK, TableStep

\* The rows of a key, or all rows.
LEMMA RowsDeleted ==
  ASSUME TypeOK, UNCHANGED next_id, NEW ids, DeleteRows(ids),
         ids = DOMAIN sessions \/ \E k \in Keys : ids = OfKey(k)
  PROVE  TableStep
<1>1. /\ DOMAIN sessions' = DOMAIN sessions \ ids
      /\ \A id \in DOMAIN sessions' : sessions'[id] = sessions[id]
  BY DEF DeleteRows, Restrict
<1>2. \A id \in DOMAIN sessions \cap ids : OfKey(sessions[id].key) \subseteq ids
  BY DEF OfKey
<1>3. QED
  BY <1>1, <1>2 DEF TypeOK, TableStep

\* A row that was there before a step is first after it if and only if it was.
LEMMA FirstKept ==
  ASSUME TypeOK, TableStep
  PROVE  /\ \A k : \A id \in First(k)' : id < next_id => id \in First(k)
         /\ \A k : \A id \in First(k) : id \in DOMAIN sessions' => id \in First(k)'
<1>1. /\ DOMAIN sessions \subseteq Nat /\ DOMAIN sessions' \subseteq Nat /\ next_id \in Nat
      /\ \A id \in DOMAIN sessions : id < next_id
  BY DEF TypeOK, TableStep
<1>2. ASSUME NEW k, NEW id \in First(k)', id < next_id PROVE id \in First(k)
  <2>1. id \in DOMAIN sessions' /\ sessions'[id].key = k /\ \A other \in OfKey(k)' : id <= other
    BY DEF First, OfKey
  <2>2. id \in DOMAIN sessions /\ sessions[id].key = k
    BY <1>1, <1>2, <2>1 DEF TableStep
  <2>3. \A other \in OfKey(k) : other \in DOMAIN sessions'
    BY <2>1, <2>2 DEF TableStep, OfKey
  <2>4. \A other \in OfKey(k) : other \in OfKey(k)'
    BY <2>3 DEF TableStep, OfKey
  <2>5. QED
    BY <2>1, <2>2, <2>4 DEF First, OfKey
<1>3. ASSUME NEW k, NEW id \in First(k), id \in DOMAIN sessions' PROVE id \in First(k)'
  <2>1. id \in DOMAIN sessions /\ sessions[id].key = k /\ \A other \in OfKey(k) : id <= other
    BY DEF First, OfKey
  <2>2. sessions'[id].key = k
    BY <1>3, <2>1 DEF TableStep
  <2>3. ASSUME NEW other \in OfKey(k)' PROVE id <= other
    <3>1. CASE other \in DOMAIN sessions
      BY <2>1, <3>1 DEF TableStep, OfKey
    <3>2. CASE other \notin DOMAIN sessions
      <4>1. other \in DOMAIN sessions' /\ other >= next_id
        BY <3>2 DEF TableStep, OfKey
      <4>2. QED
        BY <1>1, <2>1, <4>1
    <3>3. QED
      BY <3>1, <3>2
  <2>4. QED
    BY <1>3, <2>2, <2>3 DEF First, OfKey
<1>4. QED
  BY <1>2, <1>3

\* The first row of a key.
LEMMA FirstIs ==
  ASSUME TypeOK, NEW k
  PROVE  /\ First(k) \subseteq OfKey(k)
         /\ \A id \in First(k) : id \in DOMAIN sessions /\ sessions[id].key = k
         /\ \A id, other \in First(k) : id = other
         /\ 0 \notin DOMAIN sessions
<1>1. DOMAIN sessions \subseteq Nat /\ 0 \notin DOMAIN sessions
  BY DEF TypeOK
<1>2. QED
  BY <1>1 DEF First, OfKey
-----------------------------------------------------------------------------
(* The steps of a thread. *)

LEMMA IdleLocal ==
  /\ Idle \in Local /\ Idle.pc = "idle" /\ Idle.id = 0 /\ Idle.key = NoKey
  /\ Idle.item = NoItem /\ Idle.rest = << >>
  BY DEF Idle, Local, PC, Goals, States

\* Where thread t may go without confusing the rows it has read.
Follows(t, s) ==
  /\ s.pc # "idle" => s.key \in Keys /\ (t \in Keys => s.key = t)
  /\ \/ s.id = 0
     \/ s.id = thread[t].id /\ s.key = thread[t].key
     \/ s.id \in First(s.key)
  /\ s.pc \in {"get_job", "set_job"} /\ s.remove => s.id \in written'

LEMMA Becomes ==
  ASSUME TypeOK, NEW t \in Threads, NEW s \in Local, Become(t, s)
  PROVE  /\ thread' \in [Threads -> Local]
         /\ \A u \in Threads : thread'[u] = IF u = t THEN s ELSE thread[u]
  BY DEF TypeOK, Become

\* What is known of the types at a step.
LEMMA Typed ==
  ASSUME IInv
  PROVE  /\ \A t \in Threads : thread[t] \in Local /\ thread[t].id \in Nat
         /\ next_id \in 1 .. MaxRows + 1 /\ MaxRows \in Nat /\ next_id \in Nat
         /\ \A id \in DOMAIN sessions : id \in Nat /\ id < next_id /\ sessions[id] \in Row
         /\ written \subseteq Ids /\ guarded \subseteq Ids /\ lost \subseteq Keys
         /\ jobs \subseteq Keys /\ tries \in [Ids -> Nat]
         /\ 0 \notin DOMAIN sessions /\ 0 \notin written
  BY ConstantsAssumption DEF IInv, TypeOK, Local, Ids

LEMMA ThreadStep ==
  ASSUME IInv, NEW t \in Threads, NEW s \in Local, Become(t, s), Follows(t, s), TableStep,
         UNCHANGED probe, guarded' \subseteq Ids, guarded' \subseteq 1 .. next_id - 1,
         written \subseteq written', written' \subseteq Ids, lost' \subseteq Keys,
         jobs' \subseteq Keys, events' \in 0 .. MaxEvents, tries' \in [Ids -> Nat],
         Covered'
  PROVE  IInv'
<1>1. /\ thread' \in [Threads -> Local]
      /\ \A u \in Threads : thread'[u] = IF u = t THEN s ELSE thread[u]
  BY Becomes DEF IInv
<1>2. next_id' >= next_id /\ next_id \in Nat /\ next_id' \in Nat
  BY Typed DEF TableStep
<1>3. TypeOK'
  BY <1>1 DEF IInv, TypeOK, TableStep, Ids
\* What a thread has read stays first or goes.
<1>4. ASSUME NEW id \in Nat, NEW k, id < next_id, id \in DOMAIN sessions => id \in First(k)
      PROVE  id < next_id' /\ (id \in DOMAIN sessions' => id \in First(k)')
  <2>1. id \in DOMAIN sessions' => id \in DOMAIN sessions
    BY <1>2, <1>4 DEF TableStep
  <2>2. QED
    BY <1>2, <1>4, <2>1, FirstKept DEF IInv
<1>5. ASSUME NEW u \in Threads PROVE ThreadSound(u, thread[u])'
  <2>1. CASE u # t
    <3>1. thread'[u] = thread[u] /\ ThreadSound(u, thread[u]) /\ thread[u].id \in Nat
      BY <1>1, <2>1, Typed DEF IInv
    <3>2. QED
      BY <1>4, <3>1 DEF ThreadSound
  <2>2. CASE u = t
    <3>1. s.id \in Nat /\ s.id < next_id /\ (s.id \in DOMAIN sessions => s.id \in First(s.key))
      <4>1. ThreadSound(t, thread[t]) /\ thread[t].id \in Nat /\ next_id > 0
        BY Typed DEF IInv
      <4>2. CASE s.id = 0
        BY <4>1, <4>2, Typed
      <4>3. CASE s.id = thread[t].id /\ s.key = thread[t].key
        BY <4>1, <4>3 DEF ThreadSound
      <4>4. CASE s.id \in First(s.key)
        BY <4>4, Typed, FirstIs DEF IInv
      <4>5. QED
        BY <4>2, <4>3, <4>4 DEF Follows
    <3>2. s.id < next_id' /\ (s.id \in DOMAIN sessions' => s.id \in First(s.key)')
      BY <1>4, <3>1
    <3>3. thread'[u] = s
      BY <1>1, <2>2
    <3>4. QED
      BY <2>2, <3>2, <3>3 DEF ThreadSound, Follows
  <2>3. QED
    BY <2>1, <2>2
<1>6. ProbeSound'
  BY DEF IInv, ProbeSound
<1>7. guarded' \subseteq 1 .. next_id' - 1
  <2>1. \A m, n \in Nat : n >= m => 1 .. m - 1 \subseteq 1 .. n - 1
    OBVIOUS
  <2>2. QED
    BY <1>2, <2>1
<1>8. QED
  BY <1>3, <1>5, <1>6, <1>7 DEF IInv

\* A step that takes no callback away.
LEMMA CoverageKept ==
  ASSUME IInv, NEW t \in Threads, NEW s \in Local, Become(t, s), TableStep,
         UNCHANGED <<jobs, guarded>>, written \subseteq written', lost \subseteq lost',
         \A k \in Keys : \A id \in First(k) : Watches(t, thread[t], k, id) =>
           \/ k \in lost' \/ id \in written' \/ id \notin DOMAIN sessions'
           \/ Watches(t, s, k, id)
  PROVE  Covered'
<1>1. \A u \in Threads : thread'[u] = IF u = t THEN s ELSE thread[u]
  BY Becomes DEF IInv
<1>2. SUFFICES ASSUME NEW k \in Keys, NEW id \in First(k)', id \in guarded', id \notin written'
               PROVE  \/ k \in jobs' \/ k \in lost'
                      \/ \E u \in Threads : Watches(u, thread'[u], k, id)
  BY DEF Covered, Watches
<1>3. id \in Nat /\ id < next_id
  BY <1>2, Typed DEF IInv
<1>4. id \in First(k) /\ id \in DOMAIN sessions'
  BY <1>3, FirstKept DEF IInv, First, OfKey
<1>5. k \in jobs \/ k \in lost \/ \E u \in Threads : Watches(u, thread[u], k, id)
  BY <1>2, <1>4 DEF IInv, Covered
<1>6. CASE k \in jobs \/ k \in lost
  BY <1>6
<1>7. ASSUME NEW u \in Threads, Watches(u, thread[u], k, id)
      PROVE  k \in lost' \/ Watches(u, thread'[u], k, id)
  <2>1. CASE u = t
    BY <1>1, <1>2, <1>4, <1>7, <2>1
  <2>2. CASE u # t
    BY <1>1, <1>7, <2>2
  <2>3. QED
    BY <2>1, <2>2
<1>8. QED
  BY <1>5, <1>6, <1>7

\* A step of a websocket thread that is not setting a callback.
LEMMA HandlerStep ==
  ASSUME IInv, NEW h \in Handlers, thread[h].pc \notin {"get_job", "set_job"},
         NEW s \in Local, Become(h, s), Follows(h, s), TableStep,
         UNCHANGED <<jobs, probe, guarded, tries>>,
         written \subseteq written', written' \subseteq Ids,
         lost \subseteq lost', lost' \subseteq Keys, events' \in 0 .. MaxEvents
  PROVE  IInv'
<1>1. h \in Threads /\ h \notin Keys
  BY ConstantsAssumption DEF Threads
<1>2. Covered'
  BY <1>1, CoverageKept DEF Watches
<1>3. guarded' \subseteq Ids /\ guarded' \subseteq 1 .. next_id - 1
  BY Typed DEF IInv
<1>4. QED
  BY <1>1, <1>2, <1>3, Typed, ThreadStep

\* A thread with something to do has a session key, a callback its own.
LEMMA BusyThread ==
  ASSUME IInv, NEW t \in Threads, thread[t].pc # "idle"
  PROVE  /\ thread[t] \in Local /\ thread[t].key \in Keys
         /\ t \in Keys => thread[t].key = t
         /\ ThreadSound(t, thread[t])
  BY Typed DEF IInv, ThreadSound
-----------------------------------------------------------------------------
(* The local states the operators make. *)

LEMMA EnterTyped ==
  ASSUME NEW s \in Local, NEW pc \in PC, NEW goal \in Goals
  PROVE  /\ Enter(s, pc, goal) \in Local
         /\ Enter(s, pc, goal).pc = pc /\ Enter(s, pc, goal).key = s.key
         /\ Enter(s, pc, goal).id = 0
  BY IdleLocal DEF Enter, Local

LEMMA ScheduleTyped ==
  ASSUME NEW s \in Local, NEW remove \in BOOLEAN, NEW next \in {"idle", "branch", "live"}
  PROVE  /\ Schedule(s, remove, next) \in Local
         /\ Schedule(s, remove, next).pc = "get_job"
         /\ Schedule(s, remove, next).remove = remove
         /\ Schedule(s, remove, next).key = s.key /\ Schedule(s, remove, next).id = s.id
<1>1. PICK x : x = [s EXCEPT !.pc = "get_job", !.remove = remove, !.next = next]
  OBVIOUS
<1>2. x \in Local
  <2>1. "get_job" \in PC
    BY DEF PC
  <2>2. QED
    BY <1>1, <2>1 DEF Local
<1>3. x.pc = "get_job" /\ x.remove = remove /\ x.key = s.key /\ x.id = s.id
  BY <1>1 DEF Local
<1>4. QED
  BY <1>1, <1>2, <1>3 DEF Schedule

LEMMA ReadingTyped ==
  ASSUME NEW s \in Local, NEW id \in DOMAIN sessions, TypeOK
  PROVE  /\ Reading(s, id) \in Local /\ Reading(s, id).id = id /\ Reading(s, id).key = s.key
         /\ Reading(s, id).attempts = sessions[id].attempts
         /\ Reading(s, id).seen = sessions[id].item /\ Reading(s, id).remove = s.remove
<1>1. id \in Nat /\ sessions[id] \in Row
  BY DEF TypeOK
<1>2. QED
  BY <1>1 DEF Reading, Local, Row

Calls == Seq({"touch", "live"})

LEMMA UpdatesTyped ==
  ASSUME NEW s \in Local, NEW calls \in Calls
  PROVE  /\ Updates(s, calls) \in Local
         /\ Updates(s, calls).pc \in {"idle", "touch", "live"}
         /\ Updates(s, calls).pc # "idle" => Updates(s, calls).key = s.key
         /\ Updates(s, calls).id = 0
<1>1. CASE calls = << >>
  BY <1>1, IdleLocal DEF Updates
<1>2. CASE calls # << >>
  <2>1. Head(calls) \in {"touch", "live"} /\ Tail(calls) \in Calls
    BY <1>2 DEF Calls
  <2>2. PICK e \in Local : e = Enter(s, Head(calls), "update") /\ e.pc = Head(calls)
                           /\ e.key = s.key /\ e.id = 0
    BY <2>1, EnterTyped DEF PC, Goals
  <2>3. Updates(s, calls) = [e EXCEPT !.rest = Tail(calls)]
    BY <1>2, <2>2 DEF Updates
  <2>4. QED
    BY <2>1, <2>2, <2>3 DEF Local, Calls
<1>3. QED
  BY <1>1, <1>2

LEMMA CallsJoined ==
  ASSUME NEW first \in Calls, NEW second \in Calls
  PROVE  first \o second \in Calls
  BY DEF Calls
-----------------------------------------------------------------------------
(* The websocket threads, before they write. *)

LEMMA ReceiveStep ==
  ASSUME IInv, NEW h \in Handlers, Receive(h)
  PROVE  IInv'
<1>1. PICK k \in Keys, i \in Items, state \in EventStates :
        Become(h, [Idle EXCEPT !.pc = "read", !.key = k, !.item = i, !.state = state])
  BY DEF Receive
<1>2. PICK s : s = [Idle EXCEPT !.pc = "read", !.key = k, !.item = i, !.state = state]
  OBVIOUS
<1>3. state \in States
  BY ConstantsAssumption DEF States
<1>4. s \in Local /\ s.pc = "read" /\ s.key = k /\ s.id = 0
  BY <1>2, <1>3, IdleLocal DEF Local, PC
<1>5. TableStep
  BY TableKept DEF Receive, IInv
<1>6. thread[h].pc = "idle" /\ events' \in 0 .. MaxEvents
  BY ConstantsAssumption DEF Receive, At, IInv, TypeOK
<1>7. Follows(h, s)
  BY <1>4, ConstantsAssumption DEF Follows
<1>8. UNCHANGED <<jobs, probe, guarded, tries, written, lost>>
  BY DEF Receive, aux
<1>9. Become(h, s)
  BY <1>1, <1>2
<1>10. QED
  BY <1>4, <1>5, <1>6, <1>7, <1>8, <1>9, Typed, HandlerStep

\* A step that leaves the table, the scheduler and the auxiliary variables alone.
LEMMA QuietStep ==
  ASSUME IInv, NEW h \in Handlers, thread[h].pc \notin {"idle", "get_job", "set_job"},
         NEW s \in Local, Become(h, s), Follows(h, s),
         UNCHANGED <<sessions, next_id, jobs, probe, events, aux>>
  PROVE  IInv'
<1>1. TableStep
  BY TableKept DEF IInv
<1>2. events' \in 0 .. MaxEvents /\ UNCHANGED <<guarded, tries, written, lost>>
  BY DEF IInv, TypeOK, aux
<1>3. QED
  BY <1>1, <1>2, Typed, HandlerStep

LEMMA ReadStep ==
  ASSUME IInv, NEW h \in Handlers, Read(h)
  PROVE  IInv'
<1>1. PICK me \in Local : me = thread[h] /\ me.pc = "read" /\ me.key \in Keys
  BY BusyThread, ConstantsAssumption DEF Read, At, Threads
<1>2. h \notin Keys
  BY ConstantsAssumption
<1>3. ASSUME NEW id \in First(me.key), Become(h, Schedule(Reading(me, id), FALSE, "branch"))
      PROVE  IInv'
  <2>1. PICK x \in Local : x = Reading(me, id) /\ x.id = id /\ x.key = me.key
    BY ReadingTyped, FirstIs DEF IInv
  <2>2. PICK s : s = Schedule(x, FALSE, "branch")
    OBVIOUS
  <2>3. s \in Local /\ s.pc = "get_job" /\ ~s.remove /\ s.key = me.key /\ s.id = id
    BY <2>1, <2>2, ScheduleTyped
  <2>4. Follows(h, s)
    BY <1>1, <1>2, <2>3 DEF Follows
  <2>5. QED
    BY <1>1, <1>3, <2>1, <2>2, <2>3, <2>4, QuietStep DEF Read
<1>4. ASSUME NEW s \in Local, Become(h, s), s.id = 0, s.pc \in {"idle", "live"},
             s.pc # "idle" => s.key = me.key
      PROVE  IInv'
  <2>1. Follows(h, s)
    BY <1>1, <1>2, <1>4 DEF Follows
  <2>2. QED
    BY <1>1, <1>4, <2>1, QuietStep DEF Read
<1>5. CASE Become(h, Idle)
  BY <1>4, <1>5, IdleLocal
<1>6. CASE Become(h, OnStart(me))
  <2>1. PICK s \in Local : s = Enter(me, "live", "start") /\ s.pc = "live" /\ s.key = me.key
                           /\ s.id = 0
    BY EnterTyped DEF PC, Goals
  <2>2. QED
    BY <1>4, <1>6, <2>1 DEF OnStart
<1>7. QED
  BY <1>1, <1>3, <1>5, <1>6 DEF Read

LEMMA BranchStep ==
  ASSUME IInv, NEW h \in Handlers, Branch(h)
  PROVE  IInv'
<1>1. PICK me \in Local : me = thread[h] /\ me.pc = "branch" /\ me.key \in Keys
  BY BusyThread, ConstantsAssumption DEF Branch, At, Threads
<1>2. h \notin Keys
  BY ConstantsAssumption
<1>3. UNCHANGED <<sessions, next_id, jobs, probe, events, written, guarded, tries>>
  BY DEF Branch
<1>4. CASE Raise(h)
  <2>1. Follows(h, Idle) /\ TableStep /\ events' \in 0 .. MaxEvents
    BY <1>3, IdleLocal, TableKept DEF Follows, IInv, TypeOK
  <2>2. lost \subseteq lost' /\ lost' \subseteq Keys
    BY <1>1, <1>4, Typed DEF Raise
  <2>3. QED
    BY <1>1, <1>3, <1>4, <2>1, <2>2, IdleLocal, Typed, HandlerStep DEF Raise
<1>5. ASSUME NEW s \in Local, Become(h, s), lost' = lost,
             s.id = 0, s.pc \in {"idle", "touch", "live"}, s.pc # "idle" => s.key = me.key
      PROVE  IInv'
  <2>1. Follows(h, s)
    BY <1>1, <1>2, <1>5 DEF Follows
  <2>2. QED
    BY <1>1, <1>3, <1>5, <2>1, QuietStep DEF aux
<1>6. ASSUME NEW goal \in Goals, Become(h, Enter(me, "touch", goal)), lost' = lost
      PROVE  IInv'
  <2>1. PICK s \in Local : s = Enter(me, "touch", goal) /\ s.pc = "touch" /\ s.key = me.key
                           /\ s.id = 0
    BY EnterTyped DEF PC
  <2>2. QED
    BY <1>5, <1>6, <2>1
<1>7. ASSUME NEW calls \in Calls, Become(h, Updates(me, calls)), lost' = lost
      PROVE  IInv'
  <2>1. PICK s \in Local : /\ s = Updates(me, calls) /\ s.pc \in {"idle", "touch", "live"}
                           /\ s.pc # "idle" => s.key = me.key
                           /\ s.id = 0
    BY UpdatesTyped
  <2>2. QED
    BY <1>5, <1>7, <2>1
<1>8. CASE ~Raise(h)
  <2>1. lost' = lost
    BY <1>8 DEF Branch
  <2>2. CASE Become(h, Idle)
    BY <1>5, <2>1, <2>2, IdleLocal
  <2>3. CASE Become(h, OnStop(me, TRUE)) \/ Become(h, OnStop(me, FALSE))
    BY <1>6, <2>1, <2>3 DEF OnStop, Goals
  <2>4. ASSUME NEW stale \in BOOLEAN, NEW paused \in BOOLEAN, NEW changed \in BOOLEAN,
               NEW c1, NEW c2, NEW c3, NEW c4, NEW c5, NEW c6,
               c1 \in {<<"live">>, << >>}, c2 \in {<<"touch">>, << >>},
               c3 \in {<<"touch">>, << >>}, c4 \in {<<"live">>, << >>},
               c5 \in {<<"live">>, << >>}, c6 \in {<<"live">>, << >>},
               Become(h, Updates(me, c1 \o c2 \o c3 \o c4 \o c5 \o c6))
        PROVE  IInv'
    <3>1. /\ c1 \in Calls /\ c2 \in Calls /\ c3 \in Calls
          /\ c4 \in Calls /\ c5 \in Calls /\ c6 \in Calls
      <4>1. << >> \in Calls /\ <<"live">> \in Calls /\ <<"touch">> \in Calls
        BY DEF Calls
      <4>2. QED
        BY <2>4, <4>1
    <3>2. c1 \o c2 \in Calls
      BY <3>1, CallsJoined
    <3>3. c1 \o c2 \o c3 \in Calls
      BY <3>1, <3>2, CallsJoined
    <3>4. c1 \o c2 \o c3 \o c4 \in Calls
      BY <3>1, <3>3, CallsJoined
    <3>5. c1 \o c2 \o c3 \o c4 \o c5 \in Calls
      BY <3>1, <3>4, CallsJoined
    <3>6. c1 \o c2 \o c3 \o c4 \o c5 \o c6 \in Calls
      BY <3>1, <3>5, CallsJoined
    <3>7. QED
      BY <1>7, <2>1, <2>4, <3>6
  <2>5. QED
    BY <1>1, <1>8, <2>2, <2>3, <2>4 DEF Branch, OnPause, OnResume, OnChange, OnBuffer, OnError
<1>9. QED
  BY <1>4, <1>8

\* An exception ends any thread that has something to do.
LEMMA RaiseStep ==
  ASSUME IInv, NEW t \in Threads, thread[t].pc # "idle", Raise(t),
         UNCHANGED <<sessions, next_id, jobs, probe, events, guarded, tries, written>>
  PROVE  IInv'
<1>1. PICK me \in Local : me = thread[t] /\ me.key \in Keys /\ (t \in Keys => me.key = t)
  BY BusyThread
<1>2. Become(t, Idle) /\ lost' = lost \cup {me.key}
  BY <1>1 DEF Raise
<1>3. Follows(t, Idle) /\ TableStep
  BY IdleLocal, TableKept DEF Follows, IInv
<1>4. lost' \subseteq Keys /\ events' \in 0 .. MaxEvents
  BY <1>1, <1>2, Typed DEF IInv, TypeOK
<1>5. Covered'
  BY <1>1, <1>2, <1>3, IdleLocal, CoverageKept DEF Watches
<1>6. guarded' \subseteq Ids /\ guarded' \subseteq 1 .. next_id - 1
  BY Typed DEF IInv
<1>7. QED
  BY <1>2, <1>3, <1>4, <1>5, <1>6, IdleLocal, Typed, ThreadStep

\* A step of a websocket thread that is not about the callback.
LEMMA MoveStep ==
  ASSUME IInv, NEW h \in Handlers, thread[h].pc \notin {"idle", "get_job", "set_job"},
         NEW pc \in PC \ {"get_job", "set_job"}, Goto(h, pc), TableStep,
         UNCHANGED <<jobs, probe, events, aux>>
  PROVE  IInv'
<1>1. PICK me \in Local : me = thread[h] /\ me.key \in Keys
  BY BusyThread DEF Threads
<1>2. PICK s : s = [me EXCEPT !.pc = pc]
  OBVIOUS
<1>3. s \in Local /\ s.pc = pc /\ s.key = me.key /\ s.id = me.id
  BY <1>1, <1>2 DEF Local
<1>4. Follows(h, s)
  BY <1>1, <1>3, ConstantsAssumption DEF Follows
<1>5. Become(h, s) /\ events' \in 0 .. MaxEvents
  BY <1>1, <1>2 DEF Goto, IInv, TypeOK
<1>6. QED
  BY <1>3, <1>4, <1>5, Typed, HandlerStep DEF aux

LEMMA TouchStep ==
  ASSUME IInv, NEW h \in Handlers, Touch(h)
  PROVE  IInv'
<1>1. PICK me \in Local : me = thread[h] /\ me.pc \in {"touch", "touch_insert"} /\ me.key \in Keys
  BY BusyThread, ConstantsAssumption DEF Touch, At, Threads
<1>2. UNCHANGED <<jobs, probe, events, aux>>
  BY DEF Touch
<1>3. PICK onward \in {"state", "load", "live"} :
        onward = CASE me.goal = "stop"   -> "state"
                   [] me.goal = "switch" -> "load"
                   [] OTHER              -> "live"
  OBVIOUS
<1>4. CASE At(h, "touch")
  <2>1. TableStep
    BY <1>4, TableKept DEF Touch, At, IInv
  <2>2. PICK pc \in PC \ {"get_job", "set_job"} : Goto(h, pc)
    BY <1>1, <1>3, <1>4 DEF Touch, At, PC
  <2>3. QED
    BY <1>1, <1>2, <2>1, <2>2, MoveStep
<1>5. CASE At(h, "touch_insert")
  <2>1. [key |-> me.key, item |-> NoItem, state |-> "none", attempts |-> 0] \in Row
    BY <1>1 DEF Row
  <2>2. TableStep
    BY <1>1, <1>5, <2>1, RowInserted DEF Touch, At, IInv
  <2>3. Goto(h, onward) /\ onward \in PC \ {"get_job", "set_job"}
    BY <1>1, <1>3, <1>5 DEF Touch, At, PC
  <2>4. QED
    BY <1>1, <1>2, <2>2, <2>3, MoveStep
<1>6. QED
  BY <1>4, <1>5 DEF Touch

LEMMA LiveStep ==
  ASSUME IInv, NEW h \in Handlers, Live(h)
  PROVE  IInv'
<1>1. PICK me \in Local : me = thread[h] /\ me.pc = "live" /\ me.key \in Keys
  BY BusyThread, ConstantsAssumption DEF Live, At, Threads
<1>2. UNCHANGED <<sessions, next_id, jobs, probe, events, written, guarded, tries>>
  BY DEF Live
<1>3. TableStep
  BY <1>2, TableKept DEF IInv
<1>4. CASE Raise(h)
  BY <1>1, <1>2, <1>4, RaiseStep DEF Threads
<1>5. CASE lost' = lost /\ (Goto(h, "write") \/ Goto(h, "state"))
  <2>1. UNCHANGED aux /\ {"write", "state"} \subseteq PC \ {"get_job", "set_job"}
    BY <1>2, <1>5 DEF aux, PC
  <2>2. QED
    BY <1>1, <1>2, <1>3, <1>5, <2>1, MoveStep
<1>6. CASE lost' = lost /\ Become(h, Idle)
  <2>1. Follows(h, Idle)
    BY IdleLocal DEF Follows
  <2>2. QED
    BY <1>1, <1>2, <1>6, <2>1, IdleLocal, QuietStep DEF aux
<1>7. QED
  BY <1>4, <1>5, <1>6 DEF Live

\* An UPDATE of some rows' state.
LEMMA StateSet ==
  ASSUME IInv, NEW ids, NEW state \in States \cup {"none"}, UNCHANGED next_id,
         SetRows(ids, LAMBDA r : [r EXCEPT !.state = state])
  PROVE  /\ TableStep /\ DOMAIN sessions' = DOMAIN sessions
         /\ \A id \in DOMAIN sessions : sessions'[id].attempts = sessions[id].attempts
<1>1. sessions' = [id \in DOMAIN sessions |->
                    IF id \in ids THEN [sessions[id] EXCEPT !.state = state] ELSE sessions[id]]
  BY DEF SetRows
<1>2. ASSUME NEW id \in DOMAIN sessions
      PROVE  /\ sessions'[id] \in Row /\ sessions'[id].key = sessions[id].key
             /\ sessions'[id].attempts = sessions[id].attempts
  <2>1. sessions[id] \in Row
    BY Typed
  <2>2. QED
    BY <1>1, <2>1 DEF Row
<1>3. QED
  BY <1>1, <1>2, RowsSet DEF IInv

LEMMA WriteStep ==
  ASSUME IInv, NEW h \in Handlers, Write(h)
  PROVE  IInv'
<1>1. PICK me \in Local : me = thread[h] /\ me.pc \in {"write", "write_insert"} /\ me.key \in Keys
  BY BusyThread, ConstantsAssumption DEF Write, At, Threads
<1>2. UNCHANGED <<jobs, probe, events, aux>>
  BY DEF Write
<1>3. CASE At(h, "write")
  <2>1. PICK ids : ids = {id \in OfKey(me.key) : sessions[id].item = me.item}
    OBVIOUS
  <2>2. SetRows(ids, LAMBDA r : [r EXCEPT !.state = me.state]) /\ UNCHANGED next_id
    BY <1>1, <1>3, <2>1 DEF Write, At
  <2>3. TableStep
    BY <2>2, StateSet DEF Local
  <2>4. PICK pc \in PC \ {"get_job", "set_job"} : Goto(h, pc)
    BY <1>1, <1>3 DEF Write, At, PC
  <2>5. QED
    BY <1>1, <1>2, <2>3, <2>4, MoveStep
<1>4. CASE At(h, "write_insert")
  <2>1. [key |-> me.key, item |-> me.item, state |-> me.state, attempts |-> 0] \in Row
    BY <1>1 DEF Row, Local
  <2>2. TableStep
    BY <1>1, <1>4, <2>1, RowInserted DEF Write, At, IInv
  <2>3. Goto(h, "state") /\ "state" \in PC \ {"get_job", "set_job"}
    BY <1>1, <1>4 DEF Write, At, PC
  <2>4. QED
    BY <1>1, <1>2, <2>2, <2>3, MoveStep
<1>5. QED
  BY <1>3, <1>4 DEF Write

LEMMA SetStateStep ==
  ASSUME IInv, NEW h \in Handlers, SetState(h)
  PROVE  IInv'
<1>1. PICK me \in Local : me = thread[h] /\ me.pc \in {"state", "state_insert"} /\ me.key \in Keys
  BY BusyThread, ConstantsAssumption DEF SetState, At, Threads
<1>2. h \notin Keys
  BY ConstantsAssumption
<1>3. PICK onward :
        onward = CASE me.goal = "start" -> Schedule(me, FALSE, "idle")
                   [] me.goal = "stop"  -> [me EXCEPT !.pc = "load"]
                   [] OTHER             -> Updates(me, me.rest)
  OBVIOUS
<1>4. /\ onward \in Local /\ (onward.pc # "idle" => onward.key = me.key)
      /\ onward.pc = "get_job" => ~onward.remove
      /\ onward.pc # "set_job"
      /\ onward.id = 0 \/ (onward.id = me.id /\ onward.key = me.key)
  <2>1. CASE me.goal = "start"
    <3>1. onward = Schedule(me, FALSE, "idle")
      BY <1>3, <2>1
    <3>2. QED
      BY <3>1, ScheduleTyped
  <2>2. CASE me.goal = "stop"
    BY <1>3, <2>2 DEF Local, PC
  <2>3. CASE me.goal \notin {"start", "stop"}
    <3>1. onward = Updates(me, me.rest) /\ me.rest \in Calls
      BY <1>3, <2>3 DEF Local, Calls
    <3>2. QED
      BY <3>1, UpdatesTyped
  <2>4. QED
    BY <2>1, <2>2, <2>3
<1>5. Follows(h, onward)
  BY <1>1, <1>2, <1>4 DEF Follows
<1>6. ASSUME TableStep, Become(h, onward) PROVE IInv'
  <2>1. events' \in 0 .. MaxEvents /\ UNCHANGED <<jobs, probe, guarded, tries, written, lost>>
    BY DEF SetState, aux, IInv, TypeOK
  <2>2. QED
    BY <1>1, <1>4, <1>5, <1>6, <2>1, Typed, HandlerStep
<1>7. CASE At(h, "state")
  <2>1. Goto(h, "state_insert") \/ Become(h, onward)
    BY <1>1, <1>3, <1>7 DEF SetState, At
  <2>2. TableStep
    <3>1. SetRows(OfKey(me.key), LAMBDA r : [r EXCEPT !.state = me.state]) /\ UNCHANGED next_id
      BY <1>1, <1>7 DEF SetState, At
    <3>2. QED
      BY <3>1, StateSet DEF Local
  <2>3. CASE Goto(h, "state_insert")
    <3>1. "state_insert" \in PC \ {"get_job", "set_job"} /\ UNCHANGED <<jobs, probe, events, aux>>
      BY DEF PC, SetState
    <3>2. QED
      BY <1>1, <2>2, <2>3, <3>1, MoveStep
  <2>4. QED
    BY <1>6, <2>1, <2>2, <2>3
<1>8. CASE At(h, "state_insert")
  <2>1. [key |-> me.key, item |-> NoItem, state |-> me.state, attempts |-> 0] \in Row
    BY <1>1 DEF Row, Local
  <2>2. TableStep
    BY <1>1, <1>8, <2>1, RowInserted DEF SetState, At, IInv
  <2>3. Become(h, onward)
    BY <1>1, <1>3, <1>8 DEF SetState, At
  <2>4. QED
    BY <1>6, <2>2, <2>3
<1>9. QED
  BY <1>7, <1>8 DEF SetState
-----------------------------------------------------------------------------
(* The steps of websocket threads and callbacks that look at the callback. *)

\* A step that leaves all but the thread alone, and what it watches.
LEMMA WatchStep ==
  ASSUME IInv, NEW t \in Threads, NEW s \in Local, Become(t, s), Follows(t, s),
         UNCHANGED <<sessions, next_id, jobs, probe, events, guarded, lost>>,
         written \subseteq written', written' \subseteq Ids, tries' \in [Ids -> Nat],
         \A k \in Keys : \A id \in First(k) : Watches(t, thread[t], k, id) =>
           id \in written' \/ Watches(t, s, k, id)
  PROVE  IInv'
<1>1. TableStep
  BY TableKept DEF IInv
<1>2. Covered'
  BY <1>1, CoverageKept
<1>3. guarded' \subseteq Ids /\ guarded' \subseteq 1 .. next_id - 1
  BY Typed DEF IInv
<1>4. events' \in 0 .. MaxEvents
  BY DEF IInv, TypeOK
<1>5. QED
  BY <1>1, <1>2, <1>3, <1>4, Typed, ThreadStep

LEMMA LoadStep ==
  ASSUME IInv, NEW t \in Threads, Load(t)
  PROVE  IInv'
<1>1. PICK me \in Local : /\ me = thread[t] /\ me.pc = "load" /\ me.key \in Keys
                          /\ t \in Keys => me.key = t
  BY BusyThread DEF Load, At
<1>2. ASSUME NEW id \in First(me.key),
             Become(t, [Reading(me, id) EXCEPT !.pc = "history", !.status = "none"])
      PROVE  IInv'
  <2>1. PICK x \in Local : x = Reading(me, id) /\ x.id = id /\ x.key = me.key
    BY ReadingTyped, FirstIs DEF IInv
  <2>2. PICK s : s = [x EXCEPT !.pc = "history", !.status = "none"]
    OBVIOUS
  <2>3. s \in Local /\ s.pc = "history" /\ s.id = id /\ s.key = me.key
    <3>1. "history" \in PC
      BY DEF PC
    <3>2. s \in Local
      BY <2>1, <2>2, <3>1 DEF Local
    <3>3. QED
      BY <2>1, <2>2, <3>2 DEF Local
  <2>4. Follows(t, s) /\ Become(t, s)
    BY <1>1, <1>2, <2>1, <2>2, <2>3 DEF Follows
  <2>5. \A k \in Keys : \A other \in First(k) : Watches(t, me, k, other) => Watches(t, s, k, other)
    BY <1>1, <2>3, FirstIs DEF Watches, IInv
  <2>6. QED
    BY <1>1, <2>3, <2>4, <2>5, Typed, WatchStep DEF Load, aux
<1>3. ASSUME OfKey(me.key) = {}, Become(t, [me EXCEPT !.pc = "history", !.id = 0])
      PROVE  IInv'
  <2>1. PICK s : s = [me EXCEPT !.pc = "history", !.id = 0]
    OBVIOUS
  <2>2. s \in Local /\ s.pc = "history" /\ s.id = 0 /\ s.key = me.key
    BY <2>1 DEF Local, PC
  <2>3. Follows(t, s) /\ Become(t, s)
    BY <1>1, <1>3, <2>1, <2>2 DEF Follows
  <2>4. \A k \in Keys : \A other \in First(k) : ~Watches(t, me, k, other)
    BY <1>1, <1>3 DEF Watches, First
  <2>5. QED
    BY <1>1, <2>2, <2>3, <2>4, Typed, WatchStep DEF Load, aux
<1>4. QED
  BY <1>1, <1>2, <1>3 DEF Load

LEMMA GetJobStep ==
  ASSUME IInv, NEW t \in Threads, GetJob(t)
  PROVE  IInv'
<1>1. PICK me \in Local : /\ me = thread[t] /\ me.pc = "get_job" /\ me.key \in Keys
                          /\ t \in Keys => me.key = t
                          /\ me.remove => me.id \in written
  BY BusyThread DEF GetJob, At, ThreadSound
<1>2. PICK found : found = (me.key \in jobs)
  OBVIOUS
<1>3. PICK s : s = [me EXCEPT !.pc = "set_job", !.found = found]
  OBVIOUS
<1>4. s \in Local
  <2>1. "set_job" \in PC /\ found \in BOOLEAN
    BY <1>2 DEF PC
  <2>2. QED
    BY <1>2, <1>3, <2>1 DEF Local
<1>5. s.pc = "set_job" /\ s.id = me.id /\ s.key = me.key /\ s.remove = me.remove
  BY <1>3 DEF Local
<1>6. Become(t, s)
  BY <1>1, <1>2, <1>3 DEF GetJob
<1>7. written' = written /\ UNCHANGED <<guarded, tries, lost>>
  BY DEF GetJob, aux
<1>8. Follows(t, s)
  BY <1>1, <1>5, <1>7 DEF Follows
<1>9. \A k \in Keys : \A id \in First(k) : Watches(t, me, k, id) => Watches(t, s, k, id)
  BY <1>1, <1>5 DEF Watches
<1>10. QED
  BY <1>1, <1>4, <1>6, <1>7, <1>8, <1>9, Typed, WatchStep DEF GetJob

LEMMA StopStep ==
  ASSUME IInv, NEW h \in Handlers, Stop(h)
  PROVE  IInv'
<1>1. PICK me \in Local : me = thread[h] /\ me.pc = "history" /\ me.key \in Keys
  BY BusyThread, ConstantsAssumption DEF Stop, HistoryWritten, HistoryEmpty, HistoryRaises, At, Threads
<1>2. PICK after \in {"live", "idle"} : after = IF me.goal = "switch" THEN "live" ELSE "idle"
  OBVIOUS
<1>3. PICK goal \in Goals : goal = IF me.goal = "switch" THEN "start" ELSE me.goal
  BY DEF Goals, Local
<1>4. UNCHANGED <<sessions, next_id, jobs, probe, events, guarded, tries>>
  BY DEF Stop
<1>5. me.id # 0 => me.id \in Ids
  <2>1. me.id \in Nat /\ me.id < next_id
    BY <1>1, BusyThread DEF ThreadSound, Local, Threads
  <2>2. QED
    BY <2>1, Typed DEF Ids
<1>6. ASSUME NEW remove \in BOOLEAN, lost' = lost, written \subseteq written', written' \subseteq Ids,
             remove => me.id \in written',
             Become(h, [Schedule(me, remove, after) EXCEPT !.goal = goal])
      PROVE  IInv'
  <2>1. PICK x \in Local : x = Schedule(me, remove, after)
    BY <1>2, ScheduleTyped
  <2>2. x.pc = "get_job" /\ x.remove = remove /\ x.key = me.key /\ x.id = me.id
    BY <1>2, <2>1, ScheduleTyped
  <2>3. PICK s : s = [x EXCEPT !.goal = goal]
    OBVIOUS
  <2>4. /\ s \in Local /\ s.pc = "get_job" /\ s.remove = remove
        /\ s.key = me.key /\ s.id = me.id
    <3>1. s \in Local
      BY <1>3, <2>3 DEF Local
    <3>2. s.pc = x.pc /\ s.remove = x.remove /\ s.key = x.key /\ s.id = x.id
      BY <2>3 DEF Local
    <3>3. QED
      BY <2>2, <3>1, <3>2
  <2>5. Follows(h, s) /\ Become(h, s)
    BY <1>1, <1>6, <2>1, <2>3, <2>4, ConstantsAssumption DEF Follows
  <2>6. \A k \in Keys : \A id \in First(k) : ~Watches(h, me, k, id)
    BY <1>1, ConstantsAssumption DEF Watches
  <2>7. QED
    BY <1>1, <1>4, <1>6, <2>4, <2>5, <2>6, Typed, WatchStep DEF Threads
<1>7. CASE HistoryWritten(h) /\ Become(h, [Schedule(me, TRUE, after) EXCEPT !.goal = goal])
  <2>1. written' = written \cup {me.id} /\ me.id \in Ids /\ lost' = lost
    BY <1>1, <1>5, <1>7 DEF HistoryWritten
  <2>2. QED
    BY <1>6, <1>7, <2>1, Typed
<1>8. CASE HistoryEmpty(h) /\ Become(h, [Retry(me, after) EXCEPT !.goal = goal])
  <2>1. written' = written /\ lost' = lost
    BY <1>8 DEF HistoryEmpty
  <2>2. QED
    BY <1>6, <1>8, <2>1, Typed DEF Retry
<1>9. CASE HistoryRaises(h)
  BY <1>1, <1>4, <1>9, RaiseStep DEF HistoryRaises, Threads
<1>10. QED
  BY <1>1, <1>2, <1>3, <1>7, <1>8, <1>9 DEF Stop

LEMMA SetJobStep ==
  ASSUME IInv, NEW t \in Threads, SetJob(t)
  PROVE  IInv'
<1>1. PICK me \in Local : /\ me = thread[t] /\ me.pc = "set_job" /\ me.key \in Keys
                          /\ t \in Keys => me.key = t
                          /\ me.remove => me.id \in written
                          /\ me.id \in DOMAIN sessions => me.id \in First(me.key)
  BY BusyThread DEF SetJob, At, ThreadSound
<1>2. PICK on : on = IF me.next = "idle" THEN Idle
                     ELSE [me EXCEPT !.pc = me.next, !.found = FALSE, !.remove = FALSE,
                                     !.next = "idle"]
  OBVIOUS
<1>3. /\ on \in Local /\ on.pc \in {"idle", "branch", "live"}
      /\ on.id = 0 \/ (on.id = me.id /\ on.key = me.key)
      /\ on.pc # "idle" => on.key = me.key
  <2>1. CASE me.next = "idle"
    BY <1>2, <2>1, IdleLocal
  <2>2. CASE me.next # "idle"
    <3>1. me.next \in {"branch", "live"} /\ me.next \in PC
      BY <2>2 DEF Local, PC
    <3>2. QED
      BY <1>2, <2>2, <3>1 DEF Local
  <2>3. QED
    BY <2>1, <2>2
<1>4. Follows(t, on)
  BY <1>1, <1>3 DEF Follows
<1>5. /\ UNCHANGED <<sessions, next_id, probe, events, written, tries>>
      /\ \A k : First(k)' = First(k) /\ OfKey(k)' = OfKey(k)
      /\ TableStep
  BY TableKept DEF SetJob, IInv, First, OfKey
<1>6. \A k \in Keys \ {me.key} : \A id : ~Watches(t, me, k, id)
  BY <1>1 DEF Watches
\* The callbacks of the other keys stay as they are.
<1>7. ASSUME Become(t, on), jobs' \subseteq Keys, lost' \subseteq Keys,
             \A k \in Keys \ {me.key} : (k \in jobs => k \in jobs') /\ (k \in lost => k \in lost'),
             guarded' \subseteq guarded \cup OfKey(me.key),
             \A id \in First(me.key) : id \in guarded' \ written =>
               me.key \in jobs' \/ me.key \in lost'
      PROVE  IInv'
  <2>1. \A u \in Threads : thread'[u] = IF u = t THEN on ELSE thread[u]
    BY <1>3, <1>7, Becomes DEF IInv
  <2>2. guarded' \subseteq Ids /\ guarded' \subseteq 1 .. next_id - 1
    <3>1. OfKey(me.key) \subseteq 1 .. next_id - 1
      BY DEF OfKey, IInv, TypeOK
    <3>2. guarded \subseteq 1 .. next_id - 1
      BY DEF IInv
    <3>3. 1 .. next_id - 1 \subseteq Ids
      BY Typed DEF Ids
    <3>4. QED
      BY <1>7, <3>1, <3>2, <3>3
  <2>3. Covered'
    <3>1. SUFFICES ASSUME NEW k \in Keys, NEW id \in First(k), id \in guarded', id \notin written
                   PROVE  \/ k \in jobs' \/ k \in lost'
                          \/ \E u \in Threads : Watches(u, thread'[u], k, id)
      BY <1>5 DEF Covered, Watches
    <3>2. CASE k = me.key
      BY <1>7, <3>1, <3>2
    <3>3. CASE k # me.key
      <4>1. id \in guarded
        BY <1>7, <3>1, <3>3, FirstIs DEF OfKey, IInv
      <4>2. k \in jobs \/ k \in lost \/ \E u \in Threads : Watches(u, thread[u], k, id)
        BY <3>1, <4>1 DEF IInv, Covered
      <4>3. \A u \in Threads : Watches(u, thread[u], k, id) => Watches(u, thread'[u], k, id)
        BY <1>1, <1>6, <2>1, <3>3
      <4>4. QED
        BY <1>7, <3>3, <4>2, <4>3
    <3>4. QED
      BY <3>2, <3>3
  <2>4. events' \in 0 .. MaxEvents
    BY <1>5 DEF IInv, TypeOK
  <2>5. QED
    BY <1>3, <1>4, <1>5, <1>7, <2>2, <2>3, <2>4, Typed, ThreadStep
<1>8. CASE /\ jobs' = jobs \cup {me.key} /\ guarded' = guarded \cup OfKey(me.key)
           /\ lost' = lost \ {me.key} /\ Become(t, on)
  BY <1>1, <1>7, <1>8, Typed
<1>9. CASE /\ me.remove /\ jobs' = IF me.found THEN jobs \ {me.key} ELSE jobs
           /\ Become(t, on) /\ guarded' = guarded
           /\ lost' = IF me.id \in DOMAIN sessions THEN lost ELSE lost \cup {me.key}
  <2>1. \A id \in First(me.key) : id \notin written => me.key \in lost'
    BY <1>1, <1>9, FirstIs DEF IInv
  <2>2. QED
    BY <1>1, <1>7, <1>9, <2>1, Typed
<1>10. CASE Raise(t) /\ UNCHANGED <<jobs, guarded>>
  BY <1>1, <1>5, <1>10, RaiseStep
<1>11. QED
  BY <1>1, <1>2, <1>8, <1>9, <1>10 DEF SetJob
-----------------------------------------------------------------------------
(* The force-stop callbacks. *)

LEMMA FireStep ==
  ASSUME IInv, NEW k \in Keys, Fire(k)
  PROVE  IInv'
<1>1. /\ UNCHANGED <<sessions, next_id, probe, events, written, guarded, tries>>
      /\ jobs' = jobs \ {k} /\ k \in jobs /\ k \in Threads
      /\ \A key : First(key)' = First(key)
  BY DEF Fire, First, OfKey, Threads
<1>2. CASE ~At(k, "idle")
  <2>1. lost' = lost \cup {k} /\ thread' = thread
    BY <1>2 DEF Fire
  <2>2. TypeOK'
    BY <1>1, <2>1 DEF IInv, TypeOK
  <2>3. \A t \in Threads : ThreadSound(t, thread[t])'
    BY <1>1, <2>1 DEF IInv, ThreadSound
  <2>4. Covered'
    BY <1>1, <2>1 DEF IInv, Covered, Watches
  <2>5. ProbeSound' /\ guarded' \subseteq 1 .. next_id' - 1
    BY <1>1 DEF IInv, ProbeSound
  <2>6. QED
    BY <2>2, <2>3, <2>4, <2>5 DEF IInv
<1>3. CASE At(k, "idle")
  <2>1. PICK s : s = [Idle EXCEPT !.pc = "load", !.key = k]
    OBVIOUS
  <2>2. s \in Local /\ s.pc = "load" /\ s.key = k /\ s.id = 0
    BY <2>1, IdleLocal DEF Local, PC
  <2>3. Become(k, s) /\ lost' = lost
    BY <1>3, <2>1 DEF Fire
  <2>4. Follows(k, s) /\ TableStep
    BY <1>1, <2>2, TableKept DEF Follows, IInv
  <2>5. \A u \in Threads : thread'[u] = IF u = k THEN s ELSE thread[u]
    BY <1>1, <2>2, <2>3, Becomes DEF IInv
  <2>6. Covered'
    <3>1. SUFFICES ASSUME NEW key \in Keys, NEW id \in First(key), id \in guarded, id \notin written
                   PROVE  \/ key \in jobs' \/ key \in lost'
                          \/ \E u \in Threads : Watches(u, thread'[u], key, id)
      BY <1>1 DEF Covered, Watches
    <3>2. CASE key = k
      BY <1>1, <2>2, <2>5, <3>2 DEF Watches
    <3>3. CASE key # k
      <4>1. key \in jobs \/ key \in lost \/ \E u \in Threads : Watches(u, thread[u], key, id)
        BY <3>1 DEF IInv, Covered
      <4>2. \A u \in Threads : Watches(u, thread[u], key, id) => Watches(u, thread'[u], key, id)
        BY <1>3, <2>5, <3>3 DEF At, Watches
      <4>3. QED
        BY <1>1, <2>3, <3>3, <4>1, <4>2
    <3>4. QED
      BY <3>2, <3>3
  <2>7. guarded' \subseteq Ids /\ guarded' \subseteq 1 .. next_id - 1 /\ events' \in 0 .. MaxEvents
    BY <1>1, Typed DEF IInv, TypeOK
  <2>8. QED
    BY <1>1, <2>2, <2>3, <2>4, <2>6, <2>7, Typed, ThreadStep
<1>4. QED
  BY <1>2, <1>3

LEMMA ForceStopStep ==
  ASSUME IInv, NEW k \in Keys, ForceStop(k)
  PROVE  IInv'
<1>1. PICK me \in Local : me = thread[k] /\ me.pc = "history" /\ me.key = k /\ k \in Threads
  BY BusyThread DEF ForceStop, HistoryWritten, HistoryEmpty, HistoryRaises, At, Threads
<1>2. UNCHANGED <<next_id, jobs, probe, events, guarded>>
  BY DEF ForceStop
<1>3. me.id # 0 => me.id \in Ids
  <2>1. me.id \in Nat /\ me.id < next_id
    BY <1>1, BusyThread DEF ThreadSound, Local
  <2>2. QED
    BY <2>1, Typed DEF Ids
<1>4. Follows(k, Idle)
  BY IdleLocal DEF Follows
<1>5. CASE HistoryWritten(k) /\ Become(k, Idle) /\ UNCHANGED <<sessions, tries>>
  <2>1. written' = written \cup {me.id} /\ me.id \in Ids /\ lost' = lost
    BY <1>1, <1>3, <1>5 DEF HistoryWritten
  <2>2. \A key \in Keys : \A id \in First(key) : Watches(k, me, key, id) => id \in written'
    BY <1>1, <2>1 DEF Watches
  <2>3. QED
    BY <1>1, <1>2, <1>4, <1>5, <2>1, <2>2, IdleLocal, Typed, WatchStep
<1>6. CASE /\ HistoryEmpty(k) /\ tries' = [tries EXCEPT ![me.id] = @ + 1]
           /\ \/ Become(k, [me EXCEPT !.pc = "reread"]) /\ UNCHANGED sessions
              \/ DeleteRows(OfKey(k)) /\ Become(k, Idle)
  <2>1. written' = written /\ lost' = lost /\ me.id \in Ids
    BY <1>1, <1>3, <1>6 DEF HistoryEmpty
  <2>2. tries' \in [Ids -> Nat]
    BY <1>6, <2>1, Typed
  <2>3. CASE Become(k, [me EXCEPT !.pc = "reread"]) /\ UNCHANGED sessions
    <3>1. PICK s : s = [me EXCEPT !.pc = "reread"]
      OBVIOUS
    <3>2. s \in Local /\ s.pc = "reread" /\ s.key = k /\ s.id = me.id
      BY <1>1, <3>1 DEF Local, PC
    <3>3. Follows(k, s) /\ \A key \in Keys : \A id : Watches(k, me, key, id) => Watches(k, s, key, id)
      BY <1>1, <3>2 DEF Follows, Watches
    <3>4. QED
      BY <1>1, <1>2, <2>1, <2>2, <2>3, <3>1, <3>2, <3>3, Typed, WatchStep
  <2>4. CASE DeleteRows(OfKey(k)) /\ Become(k, Idle)
    <3>1. TableStep
      BY <1>2, <2>4, RowsDeleted DEF IInv
    <3>2. \A id \in First(k) : id \notin DOMAIN sessions'
      BY <2>4 DEF DeleteRows, Restrict, First
    <3>3. Covered'
      BY <1>1, <1>2, <2>1, <2>4, <3>1, <3>2, IdleLocal, CoverageKept DEF Watches
    <3>4. guarded' \subseteq Ids /\ guarded' \subseteq 1 .. next_id - 1 /\ events' \in 0 .. MaxEvents
      BY <1>2, Typed DEF IInv, TypeOK
    <3>5. QED
      BY <1>1, <1>2, <1>4, <2>1, <2>2, <2>4, <3>1, <3>3, <3>4, IdleLocal, Typed, ThreadStep
  <2>5. QED
    BY <1>6, <2>3, <2>4
<1>7. CASE HistoryRaises(k) /\ UNCHANGED <<sessions, tries>>
  BY <1>1, <1>2, <1>7, RaiseStep DEF HistoryRaises
<1>8. QED
  BY <1>1, <1>5, <1>6, <1>7 DEF ForceStop

LEMMA IncrementStep ==
  ASSUME IInv, NEW k \in Keys, Increment(k)
  PROVE  IInv'
<1>1. PICK me \in Local : me = thread[k] /\ me.pc \in {"reread", "bump"} /\ me.key = k /\ k \in Threads
  BY BusyThread DEF Increment, At, Threads
<1>2. UNCHANGED <<next_id, jobs, probe, events, written, guarded, tries>>
  BY DEF Increment
<1>3. ASSUME UNCHANGED <<sessions, lost>>, NEW id \in First(k),
             Become(k, [me EXCEPT !.pc = "bump", !.attempts = sessions[id].attempts])
      PROVE  IInv'
  <2>1. sessions[id].attempts \in Nat /\ "bump" \in PC
    BY FirstIs, Typed DEF Row, PC, IInv
  <2>2. PICK s : s = [me EXCEPT !.pc = "bump", !.attempts = sessions[id].attempts]
    OBVIOUS
  <2>3. s \in Local /\ s.pc = "bump" /\ s.key = k /\ s.id = me.id
    BY <1>1, <2>1, <2>2 DEF Local
  <2>4. Follows(k, s) /\ \A key \in Keys : \A x : Watches(k, me, key, x) => Watches(k, s, key, x)
    BY <1>1, <2>3 DEF Follows, Watches
  <2>5. QED
    BY <1>1, <1>2, <1>3, <2>2, <2>3, <2>4, Typed, WatchStep
<1>4. CASE Raise(k) /\ UNCHANGED sessions
  BY <1>1, <1>2, <1>4, RaiseStep
<1>5. CASE /\ At(k, "bump") /\ Become(k, Retry(me, "idle")) /\ UNCHANGED lost
           /\ SetRows(OfKey(k), LAMBDA r : [r EXCEPT !.attempts = Incremented(me.attempts)])
  <2>1. TableStep
    <3>1. sessions' = [id \in DOMAIN sessions |->
                        IF id \in OfKey(k)
                        THEN [sessions[id] EXCEPT !.attempts = Incremented(me.attempts)]
                        ELSE sessions[id]]
      BY <1>5 DEF SetRows
    <3>2. Incremented(me.attempts) \in Nat
      BY DEF Incremented, Local
    <3>3. \A id \in DOMAIN sessions :
            sessions'[id] \in Row /\ sessions'[id].key = sessions[id].key
      BY <3>1, <3>2, Typed DEF Row
    <3>4. QED
      BY <1>2, <3>1, <3>3, RowsSet DEF IInv
  <2>2. PICK s : s = Schedule(me, FALSE, "idle")
    OBVIOUS
  <2>3. s \in Local /\ s.pc = "get_job" /\ ~s.remove /\ s.key = k /\ s.id = me.id
    BY <1>1, <2>2, ScheduleTyped
  <2>4. Become(k, s)
    BY <1>5, <2>2 DEF Retry
  <2>5. Follows(k, s) /\ \A key \in Keys : \A x : Watches(k, me, key, x) => Watches(k, s, key, x)
    BY <1>1, <2>3 DEF Follows, Watches
  <2>6. Covered'
    BY <1>1, <1>2, <1>5, <2>1, <2>3, <2>4, <2>5, CoverageKept
  <2>7. guarded' \subseteq Ids /\ guarded' \subseteq 1 .. next_id - 1 /\ events' \in 0 .. MaxEvents
    BY <1>2, Typed DEF IInv, TypeOK
  <2>8. QED
    BY <1>1, <1>2, <1>5, <2>1, <2>3, <2>4, <2>5, <2>6, <2>7, Typed, ThreadStep
<1>6. CASE At(k, "reread")
  <2>1. \/ \E id \in First(k) :
             /\ Become(k, [me EXCEPT !.pc = "bump", !.attempts = sessions[id].attempts])
             /\ UNCHANGED <<sessions, lost>>
        \/ Raise(k) /\ UNCHANGED sessions
    BY <1>1, <1>6 DEF Increment, At
  <2>2. QED
    BY <1>3, <1>4, <2>1
<1>7. CASE At(k, "bump")
  BY <1>1, <1>5, <1>7 DEF Increment, At
<1>8. QED
  BY <1>1, <1>6, <1>7 DEF At
-----------------------------------------------------------------------------
LEMMA ProbeStep ==
  ASSUME IInv, Probe
  PROVE  IInv'
<1>1. UNCHANGED <<jobs, thread, events, written, guarded, tries, lost>>
  BY DEF Probe, aux
<1>2. probe \in [pc : {"idle", "write", "insert"}, key : Keys \cup {NoKey},
                 item : Items \cup {NoItem}]
  BY DEF IInv, TypeOK
<1>3. /\ TableStep
      /\ probe' \in [pc : {"idle", "write", "insert"}, key : Keys \cup {NoKey},
                     item : Items \cup {NoItem}]
      /\ probe'.pc # "idle" => probe'.key \in Keys
  <2>1. ASSUME NEW k \in Keys, NEW i \in Items, probe' = [pc |-> "write", key |-> k, item |-> i],
               UNCHANGED <<sessions, next_id>>
        PROVE  <1>3!1 /\ <1>3!2 /\ <1>3!3
    BY <2>1, TableKept DEF IInv
  <2>2. CASE DeleteRows(DOMAIN sessions) /\ UNCHANGED <<probe, next_id>>
    BY <1>2, <2>2, RowsDeleted DEF IInv, ProbeSound
  <2>3. ASSUME NEW ids, SetRows(ids, LAMBDA r : [r EXCEPT !.state = "playing"]), UNCHANGED next_id
        PROVE  TableStep
    <3>1. "playing" \in States \cup {"none"}
      BY DEF States
    <3>2. QED
      BY <2>3, <3>1, StateSet
  <2>4. NoProbe \in [pc : {"idle", "write", "insert"}, key : Keys \cup {NoKey},
                     item : Items \cup {NoItem}] /\ NoProbe.pc = "idle"
    BY DEF NoProbe
  <2>5. CASE probe.pc = "write"
    <3>1. PICK ids : ids = {id \in OfKey(probe.key) : sessions[id].item = probe.item}
      OBVIOUS
    <3>2. SetRows(ids, LAMBDA r : [r EXCEPT !.state = "playing"]) /\ UNCHANGED next_id
      BY <2>5, <3>1 DEF Probe
    <3>3. probe' = [probe EXCEPT !.pc = "insert"] \/ probe' = NoProbe
      BY <2>5 DEF Probe
    <3>4. QED
      BY <1>2, <2>3, <2>4, <2>5, <3>2, <3>3 DEF IInv, ProbeSound
  <2>6. CASE probe.pc = "insert"
    <3>1. [key |-> probe.key, item |-> probe.item, state |-> "playing", attempts |-> 0] \in Row
      BY <1>2, <2>6 DEF Row, States, IInv, ProbeSound
    <3>2. /\ InsertRow([key |-> probe.key, item |-> probe.item, state |-> "playing", attempts |-> 0])
          /\ probe' = NoProbe
      BY <2>6 DEF Probe
    <3>3. QED
      BY <2>4, <3>1, <3>2, RowInserted DEF IInv
  <2>7. QED
    BY <2>1, <2>2, <2>5, <2>6 DEF Probe
<1>4. TypeOK'
  BY <1>1, <1>3 DEF IInv, TypeOK, TableStep
<1>5. next_id \in Nat /\ next_id' \in Nat /\ next_id' >= next_id
  BY <1>3, Typed DEF TableStep
<1>6. \A t \in Threads : ThreadSound(t, thread[t])'
  <2>1. SUFFICES ASSUME NEW t \in Threads PROVE ThreadSound(t, thread[t])'
    OBVIOUS
  <2>2. ThreadSound(t, thread[t]) /\ thread[t].id \in Nat
    BY Typed DEF IInv
  <2>3. thread[t].id \in DOMAIN sessions' => thread[t].id \in DOMAIN sessions
    BY <1>3, <1>5, <2>2 DEF TableStep, ThreadSound
  <2>4. thread[t].id \in DOMAIN sessions' => thread[t].id \in First(thread[t].key)'
    <3>1. PICK key, id : key = thread[t].key /\ id = thread[t].id
      OBVIOUS
    <3>2. id \in DOMAIN sessions' => id \in First(key)
      BY <2>2, <2>3, <3>1 DEF ThreadSound
    <3>3. id \in DOMAIN sessions' => id \in First(key)'
      BY <1>3, <3>2, FirstKept DEF IInv
    <3>4. QED
      BY <1>1, <3>1, <3>3 DEF First, OfKey
  <2>5. QED
    BY <1>1, <1>5, <2>2, <2>4 DEF ThreadSound
<1>7. guarded' \subseteq 1 .. next_id' - 1
  <2>1. \A m, n \in Nat : n >= m => 1 .. m - 1 \subseteq 1 .. n - 1
    OBVIOUS
  <2>2. guarded \subseteq 1 .. next_id - 1
    BY DEF IInv
  <2>3. QED
    BY <1>1, <1>5, <2>1, <2>2
<1>8. Covered'
  <2>1. SUFFICES ASSUME NEW k \in Keys, NEW id \in First(k)', id \in guarded, id \notin written
                 PROVE  k \in jobs \/ k \in lost \/ \E t \in Threads : Watches(t, thread[t], k, id)
    BY <1>1 DEF Covered, Watches
  <2>2. id \in Nat /\ id < next_id
    BY <2>1, Typed DEF IInv
  <2>3. id \in First(k)
    BY <1>3, <2>2, FirstKept DEF IInv
  <2>4. QED
    BY <2>1, <2>3 DEF IInv, Covered
<1>9. ProbeSound'
  BY <1>3 DEF ProbeSound
<1>10. QED
  BY <1>4, <1>6, <1>7, <1>8, <1>9 DEF IInv

LEMMA InitIInv == Init => IInv
<1>1. SUFFICES ASSUME Init PROVE IInv
  OBVIOUS
<1>2. DOMAIN sessions = {}
  BY <1>1 DEF Init
<1>3. TypeOK
  BY <1>1, <1>2, IdleLocal, ConstantsAssumption DEF Init, TypeOK, NoProbe, Ids
<1>4. \A t \in Threads : ThreadSound(t, thread[t])
  BY <1>1, <1>2, IdleLocal DEF Init, ThreadSound
<1>5. ProbeSound /\ guarded \subseteq 1 .. next_id - 1
  BY <1>1 DEF Init, ProbeSound, NoProbe
<1>6. Covered
  BY <1>1 DEF Init, Covered
<1>7. QED
  BY <1>3, <1>4, <1>5, <1>6 DEF IInv

LEMMA NextIInv == IInv /\ [Next]_vars => IInv'
<1>1. SUFFICES ASSUME IInv, [Next]_vars PROVE IInv'
  OBVIOUS
<1>2. CASE UNCHANGED vars
  <2>1. UNCHANGED <<sessions, next_id, jobs, thread, probe, events, written, guarded, tries, lost>>
    BY <1>2 DEF vars, aux
  <2>2. TypeOK' /\ ProbeSound' /\ guarded' \subseteq 1 .. next_id' - 1
    BY <1>1, <2>1 DEF IInv, TypeOK, ProbeSound
  <2>3. (\A t \in Threads : ThreadSound(t, thread[t]))'
    BY <1>1, <2>1 DEF IInv, ThreadSound, First, OfKey
  <2>4. Covered'
    BY <1>1, <2>1 DEF IInv, Covered, Watches, First, OfKey
  <2>5. QED
    BY <2>2, <2>3, <2>4 DEF IInv
<1>3. ASSUME NEW h \in Handlers, Receive(h) \/ Handle(h) PROVE IInv'
  <2>1. h \in Threads
    BY DEF Threads
  <2>2. QED
    BY <1>1, <1>3, <2>1, ReceiveStep, ReadStep, GetJobStep, SetJobStep, BranchStep, TouchStep,
       LiveStep, WriteStep, SetStateStep, LoadStep, StopStep DEF Handle
<1>4. ASSUME NEW k \in Keys, Fire(k) \/ Callback(k) PROVE IInv'
  <2>1. k \in Threads
    BY DEF Threads
  <2>2. QED
    BY <1>1, <1>4, <2>1, FireStep, LoadStep, ForceStopStep, IncrementStep, GetJobStep, SetJobStep
       DEF Callback
<1>5. CASE Probe
  BY <1>1, <1>5, ProbeStep
<1>6. QED
  BY <1>1, <1>2, <1>3, <1>4, <1>5 DEF Next

\* The invariant the properties rest on: whom a play may count on, and what a
\* thread that has read a row still knows of it.
THEOREM Invariance == Spec => []IInv
  BY InitIInv, NextIInv, PTL DEF Spec

\* The rows, the threads and the scheduler's store keep their types, whatever the
\* websocket threads, the callbacks and the activity check do in between.
THEOREM TypeCorrect == Spec => []TypeOK
<1>1. IInv => TypeOK
  BY DEF IInv
<1>2. QED
  BY <1>1, Invariance, PTL

\* A play that was given a force-stop callback and is not in the history has its
\* callback pending or a thread at work on its key, but for the named losses.
THEOREM NotLeftBehind == Spec => []CallbackCoverage
<1>1. IInv => CallbackCoverage
  <2>1. SUFFICES ASSUME IInv, NEW k \in Keys, NEW id \in First(k), id \in guarded \ written
                 PROVE  k \in jobs \/ Working(k) \/ k \in lost
    BY DEF CallbackCoverage
  <2>2. ASSUME NEW t \in Threads, Watches(t, thread[t], k, id) PROVE Working(k)
    BY <2>1, <2>2, BusyThread DEF Watches, Working
  <2>3. QED
    BY <2>1, <2>2 DEF IInv, Covered
<1>2. QED
  BY <1>1, Invariance, PTL
-----------------------------------------------------------------------------
(* The attempts, while the server answers: then only a callback deletes    *)
(* rows, those of its own key, after its last attempt.                     *)

\* In local state s callback k has read the first row of its key, and no other
\* thread has changed the row's attempts since.
AttemptsRead(k, s) ==
  /\ s.pc \in {"reread", "bump"} => s.id \in First(k)
  /\ s.pc \in {"history", "bump"} /\ s.id # 0 =>
       s.id \in First(k) /\ s.attempts = sessions[s.id].attempts

\* A failed attempt on row id that is not yet in the table.
Pending(s, id) == IF s.id = id /\ s.pc \in {"reread", "bump"} THEN 1 ELSE 0

KeySound(k) ==
  /\ AttemptsRead(k, thread[k])
  /\ \A id \in First(k) :
       /\ tries[id] = sessions[id].attempts + Pending(thread[k], id)
       /\ tries[id] < MaxAttempts

Untried == \A id \in Ids : id >= next_id => tries[id] = 0

AInv == Untried /\ \A k \in Keys : KeySound(k)

\* What a step means for the rows it deletes.
LeaveTried ==
  \A id \in DOMAIN sessions \ DOMAIN sessions' :
    \E first \in First(sessions[id].key) : tries'[first] = MaxAttempts

\* Callback k has no attempt open before or after the step.
Settled(k) ==
  /\ thread[k].pc \notin {"reread", "bump"} /\ thread'[k].pc \notin {"reread", "bump"}
  /\ AttemptsRead(k, thread[k])'

LEMMA KeyKept ==
  ASSUME IInv, AInv, TableStep, NEW k \in Keys,
         \A id \in OfKey(k) : /\ id \in DOMAIN sessions' /\ tries'[id] = tries[id]
                              /\ sessions'[id].attempts = sessions[id].attempts,
         \A id \in DOMAIN sessions' \ DOMAIN sessions :
           tries'[id] = tries[id] /\ sessions'[id].attempts = 0,
         thread'[k] = thread[k] \/ Settled(k)
  PROVE  KeySound(k)'
<1>1. KeySound(k) /\ First(k) \subseteq OfKey(k)
  BY FirstIs DEF IInv, AInv
<1>2. \A id \in First(k) : id \in First(k)'
  BY <1>1, FirstKept DEF IInv
<1>3. AttemptsRead(k, thread[k])'
  BY <1>1, <1>2 DEF Settled, KeySound, AttemptsRead
<1>4. ASSUME NEW id \in First(k)'
      PROVE  tries'[id] = sessions'[id].attempts + Pending(thread'[k], id) /\ tries'[id] < MaxAttempts
  <2>1. id \in DOMAIN sessions' /\ next_id' \in 1 .. MaxRows + 1 /\ DOMAIN sessions' \subseteq 1 .. next_id' - 1
    BY DEF First, OfKey, TableStep
  <2>2. CASE id \in DOMAIN sessions
    <3>1. id \in First(k)
      BY <2>2, Typed, FirstKept DEF IInv
    <3>2. Pending(thread'[k], id) = Pending(thread[k], id)
      BY DEF Settled, Pending
    <3>3. QED
      BY <1>1, <3>1, <3>2 DEF KeySound
  <2>3. CASE id \notin DOMAIN sessions
    <3>1. id \in Ids /\ id >= next_id
      BY <2>1, <2>3, Typed DEF TableStep, Ids
    <3>2. tries'[id] = 0 /\ sessions'[id].attempts = 0
      BY <2>1, <2>3, <3>1 DEF AInv, Untried
    <3>3. Pending(thread'[k], id) = 0
      BY <1>1, <2>3, FirstIs DEF Settled, Pending, KeySound, AttemptsRead, IInv
    <3>4. QED
      BY <3>2, <3>3, ConstantsAssumption
  <2>4. QED
    BY <2>2, <2>3
<1>5. QED
  BY <1>3, <1>4 DEF KeySound

\* A step that inserts rows without attempts at most.
AttemptsKept ==
  /\ TableStep
  /\ \A id \in DOMAIN sessions :
       id \in DOMAIN sessions' /\ sessions'[id].attempts = sessions[id].attempts
  /\ \A id \in DOMAIN sessions' \ DOMAIN sessions : sessions'[id].attempts = 0

LEMMA KeptStep ==
  ASSUME IInv, AInv, AttemptsKept, UNCHANGED tries,
         \A k \in Keys : thread'[k] = thread[k] \/ Settled(k)
  PROVE  AInv' /\ LeaveTried
<1>1. ASSUME NEW k \in Keys PROVE KeySound(k)'
  BY KeyKept DEF AttemptsKept, OfKey
<1>2. Untried'
  BY Typed DEF AttemptsKept, TableStep, AInv, Untried, Ids
<1>3. LeaveTried
  BY DEF AttemptsKept, LeaveTried
<1>4. QED
  BY <1>1, <1>2, <1>3 DEF AInv

LEMMA InsertKept ==
  ASSUME IInv, NEW row \in Row, row.attempts = 0, InsertRow(row)
  PROVE  AttemptsKept
  BY RowInserted DEF AttemptsKept, IInv

LEMMA StateKept ==
  ASSUME IInv, NEW ids, NEW state \in States \cup {"none"}, UNCHANGED next_id,
         SetRows(ids, LAMBDA r : [r EXCEPT !.state = state])
  PROVE  AttemptsKept
  BY StateSet DEF AttemptsKept

LEMMA UnchangedKept ==
  ASSUME IInv, UNCHANGED <<sessions, next_id>>
  PROVE  AttemptsKept
  BY TableKept DEF AttemptsKept, IInv

\* The websocket threads.
LEMMA HandlerKept ==
  ASSUME IInv, NEW h \in Handlers, Receive(h) \/ Handle(h)
  PROVE  AttemptsKept
<1>1. CASE UNCHANGED <<sessions, next_id>>
  BY <1>1, UnchangedKept
<1>2. CASE Touch(h) \/ Write(h) \/ SetState(h)
  <2>1. PICK me \in Local : me = thread[h] /\ me.key \in Keys
    BY <1>2, BusyThread DEF Touch, Write, SetState, At, Threads
  <2>2. ASSUME NEW item \in Items \cup {NoItem}, NEW state \in States \cup {"none"},
               InsertRow([key |-> me.key, item |-> item, state |-> state, attempts |-> 0])
        PROVE  AttemptsKept
    <3>1. [key |-> me.key, item |-> item, state |-> state, attempts |-> 0] \in Row
      BY <2>1 DEF Row
    <3>2. QED
      BY <2>2, <3>1, InsertKept
  <2>3. me.item \in Items \cup {NoItem} /\ me.state \in States \cup {"none"}
    BY DEF Local
  <2>4. CASE Touch(h)
    BY <1>1, <2>1, <2>2, <2>4 DEF Touch
  <2>5. CASE Write(h)
    <3>1. CASE At(h, "write")
      <4>1. PICK ids : ids = {id \in OfKey(me.key) : sessions[id].item = me.item}
        OBVIOUS
      <4>2. SetRows(ids, LAMBDA r : [r EXCEPT !.state = me.state]) /\ UNCHANGED next_id
        BY <2>1, <2>5, <3>1, <4>1 DEF Write, At
      <4>3. QED
        BY <2>3, <4>2, StateKept
    <3>2. CASE At(h, "write_insert")
      <4>1. InsertRow([key |-> me.key, item |-> me.item, state |-> me.state, attempts |-> 0])
        BY <2>1, <2>5, <3>2 DEF Write, At
      <4>2. QED
        BY <2>2, <2>3, <4>1
    <3>3. QED
      BY <2>5, <3>1, <3>2 DEF Write
  <2>6. CASE SetState(h)
    <3>1. CASE At(h, "state")
      <4>1. SetRows(OfKey(me.key), LAMBDA r : [r EXCEPT !.state = me.state]) /\ UNCHANGED next_id
        BY <2>1, <2>6, <3>1 DEF SetState, At
      <4>2. QED
        BY <2>3, <4>1, StateKept
    <3>2. CASE At(h, "state_insert")
      <4>1. InsertRow([key |-> me.key, item |-> NoItem, state |-> me.state, attempts |-> 0])
        BY <2>1, <2>6, <3>2 DEF SetState, At
      <4>2. QED
        BY <2>2, <2>3, <4>1
    <3>3. QED
      BY <2>6, <3>1, <3>2 DEF SetState
  <2>7. QED
    BY <1>2, <2>4, <2>5, <2>6
<1>3. QED
  BY <1>1, <1>2 DEF Receive, Handle, Read, GetJob, SetJob, Branch, Live, Load, Stop

LEMMA OthersKept ==
  ASSUME IInv, NEW t \in Threads, NEW s, Become(t, s)
  PROVE  \A u \in Threads : u # t => thread'[u] = thread[u]
  BY DEF IInv, TypeOK, Become

LEMMA HandlerAttempts ==
  ASSUME IInv, AInv, NEW h \in Handlers, Receive(h) \/ Handle(h)
  PROVE  AInv' /\ LeaveTried
<1>1. h \in Threads /\ h \notin Keys /\ Keys \subseteq Threads
  BY ConstantsAssumption DEF Threads
<1>2. UNCHANGED tries
  BY DEF Receive, Handle, Read, GetJob, SetJob, Branch, Touch, Live, Write, SetState, Load, Stop, aux
<1>3. \E s : Become(h, s)
  BY DEF Receive, Handle, Read, GetJob, SetJob, Branch, Touch, Live, Write, SetState, Load, Stop,
     Goto, Raise, HistoryRaises
<1>4. \A k \in Keys : thread'[k] = thread[k]
  BY <1>1, <1>3, OthersKept
<1>5. QED
  BY <1>2, <1>4, HandlerKept, KeptStep

\* A step of a callback that has no attempt open.
LEMMA SettledStep ==
  ASSUME IInv, AInv, NEW k \in Keys, NEW s \in Local, Become(k, s),
         UNCHANGED <<sessions, next_id, tries>>,
         thread[k].pc \notin {"reread", "bump"}, s.pc \notin {"reread", "bump"},
         s.pc = "history" /\ s.id # 0 => s.id \in First(k) /\ s.attempts = sessions[s.id].attempts
  PROVE  AInv' /\ LeaveTried
<1>1. k \in Threads /\ Keys \subseteq Threads
  BY DEF Threads
<1>2. \A u \in Threads : thread'[u] = IF u = k THEN s ELSE thread[u]
  BY <1>1, Becomes DEF IInv
<1>3. First(k)' = First(k)
  BY DEF First, OfKey
<1>4. Settled(k)
  BY <1>1, <1>2, <1>3 DEF Settled, AttemptsRead
<1>5. \A u \in Keys : u # k => thread'[u] = thread[u]
  BY <1>1, <1>2
<1>6. AttemptsKept
  BY UnchangedKept
<1>7. QED
  BY <1>4, <1>5, <1>6, KeptStep

LEMMA JobAttempts ==
  ASSUME IInv, AInv, NEW k \in Keys, Fire(k) \/ GetJob(k) \/ SetJob(k)
  PROVE  AInv' /\ LeaveTried
<1>1. UNCHANGED <<sessions, next_id, tries>> /\ k \in Threads
  BY DEF Fire, GetJob, SetJob, Threads, aux
<1>2. CASE UNCHANGED thread
  BY <1>1, <1>2, UnchangedKept, KeptStep
<1>3. CASE Become(k, [Idle EXCEPT !.pc = "load", !.key = k]) /\ At(k, "idle")
  <2>1. PICK s : s = [Idle EXCEPT !.pc = "load", !.key = k]
    OBVIOUS
  <2>2. s \in Local /\ s.pc = "load"
    BY <2>1, IdleLocal DEF Local, PC
  <2>3. QED
    BY <1>1, <1>3, <2>1, <2>2, SettledStep DEF At
<1>4. CASE Become(k, Idle) /\ At(k, "set_job")
  BY <1>1, <1>4, IdleLocal, SettledStep DEF At
<1>5. CASE GetJob(k)
  <2>1. PICK s : s = [thread[k] EXCEPT !.pc = "set_job", !.found = thread[k].key \in jobs]
    OBVIOUS
  <2>2. s \in Local
    <3>1. "set_job" \in PC /\ (thread[k].key \in jobs) \in BOOLEAN /\ thread[k] \in Local
      BY <1>1, Typed DEF PC
    <3>2. QED
      BY <2>1, <3>1 DEF Local
  <2>3. s.pc = "set_job"
    BY <1>1, <2>1, Typed DEF Local
  <2>4. QED
    BY <1>1, <1>5, <2>1, <2>2, <2>3, SettledStep DEF GetJob, At
<1>6. ASSUME At(k, "set_job"), thread[k].next # "idle",
             Become(k, [thread[k] EXCEPT !.pc = thread[k].next, !.found = FALSE,
                                         !.remove = FALSE, !.next = "idle"])
      PROVE  AInv' /\ LeaveTried
  <2>1. PICK me \in Local : me = thread[k] /\ me.next \in {"branch", "live"}
    BY <1>1, <1>6, Typed DEF Local
  <2>2. PICK s : s = [me EXCEPT !.pc = me.next, !.found = FALSE, !.remove = FALSE, !.next = "idle"]
    OBVIOUS
  <2>3. s \in Local
    <3>1. me.next \in PC /\ FALSE \in BOOLEAN
      BY <2>1 DEF PC
    <3>2. QED
      BY <2>2, <3>1 DEF Local
  <2>4. s.pc \in {"branch", "live"}
    BY <2>1, <2>2 DEF Local
  <2>5. QED
    BY <1>1, <1>6, <2>1, <2>2, <2>3, <2>4, SettledStep DEF At
<1>7. CASE SetJob(k)
  BY <1>1, <1>4, <1>6, <1>7 DEF SetJob, Raise
<1>8. CASE Fire(k)
  BY <1>2, <1>3, <1>8 DEF Fire
<1>9. QED
  BY <1>5, <1>7, <1>8

LEMMA LoadAttempts ==
  ASSUME IInv, AInv, NEW k \in Keys, Load(k)
  PROVE  AInv' /\ LeaveTried
<1>1. UNCHANGED <<sessions, next_id, tries>>
  BY DEF Load, aux
<1>2. PICK me \in Local : me = thread[k] /\ me.pc = "load" /\ me.key = k
  BY BusyThread DEF Load, At, Threads
<1>3. ASSUME NEW id \in First(k),
             Become(k, [Reading(me, id) EXCEPT !.pc = "history", !.status = "none"])
      PROVE  AInv' /\ LeaveTried
  <2>1. PICK x \in Local : x = Reading(me, id) /\ x.id = id /\ x.attempts = sessions[id].attempts
    BY ReadingTyped, FirstIs DEF IInv
  <2>2. PICK s : s = [x EXCEPT !.pc = "history", !.status = "none"]
    OBVIOUS
  <2>3. s \in Local
    <3>1. "history" \in PC
      BY DEF PC
    <3>2. QED
      BY <2>1, <2>2, <3>1 DEF Local
  <2>4. s.pc = "history" /\ s.id = id /\ s.attempts = sessions[id].attempts
    BY <2>1, <2>2 DEF Local
  <2>5. QED
    BY <1>1, <1>2, <1>3, <2>1, <2>2, <2>3, <2>4, SettledStep
<1>4. CASE Become(k, [me EXCEPT !.pc = "history", !.id = 0])
  <2>1. PICK s : s = [me EXCEPT !.pc = "history", !.id = 0]
    OBVIOUS
  <2>2. s \in Local /\ s.id = 0 /\ s.pc = "history"
    BY <2>1 DEF Local, PC
  <2>3. QED
    BY <1>1, <1>2, <1>4, <2>1, <2>2, SettledStep
<1>5. QED
  BY <1>2, <1>3, <1>4 DEF Load

\* Another callback while callback k works on its own rows.
LEMMA OtherKey ==
  ASSUME IInv, AInv, NEW k \in Keys, NEW s, Become(k, s), TableStep,
         DOMAIN sessions' \subseteq DOMAIN sessions,
         \A id \in DOMAIN sessions \ OfKey(k) :
           /\ id \in DOMAIN sessions' /\ sessions'[id] = sessions[id]
           /\ tries'[id] = tries[id],
         NEW u \in Keys, u # k
  PROVE  KeySound(u)'
<1>1. thread'[u] = thread[u]
  BY OthersKept DEF Threads
<1>2. \A id \in OfKey(u) : id \in DOMAIN sessions \ OfKey(k)
  BY DEF OfKey
<1>3. QED
  BY <1>1, <1>2, KeyKept

LEMMA ForceStopAttempts ==
  ASSUME IInv, AInv, NEW k \in Keys, ForceStop(k)
  PROVE  AInv' /\ LeaveTried
<1>1. PICK me \in Local : me = thread[k] /\ me.pc = "history" /\ me.key = k /\ k \in Threads
  BY BusyThread DEF ForceStop, HistoryWritten, HistoryEmpty, HistoryRaises, At, Threads
<1>2. UNCHANGED next_id
  BY DEF ForceStop
<1>3. CASE Become(k, Idle) /\ UNCHANGED <<sessions, tries>>
  BY <1>1, <1>2, <1>3, IdleLocal, SettledStep
<1>4. ASSUME me.id # 0, tries' = [tries EXCEPT ![me.id] = @ + 1],
             \/ /\ ~Exhausted(me.attempts + 1)
                /\ Become(k, [me EXCEPT !.pc = "reread"]) /\ UNCHANGED sessions
             \/ Exhausted(me.attempts + 1) /\ DeleteRows(OfKey(k)) /\ Become(k, Idle)
      PROVE  AInv' /\ LeaveTried
  <2>1. PICK id \in First(k) : id = me.id /\ me.attempts = sessions[id].attempts
    BY <1>1, <1>4 DEF AInv, KeySound, AttemptsRead
  <2>2. id \in OfKey(k) /\ id \in Ids /\ id < next_id /\ (\A other \in First(k) : other = id)
    BY FirstIs, Typed DEF IInv, OfKey, Ids
  <2>3. tries'[id] = me.attempts + 1 /\ me.attempts \in Nat /\ (\A x \in Ids : x # id => tries'[x] = tries[x])
    <3>1. tries[id] = me.attempts + Pending(me, id)
      BY <1>1, <2>1 DEF AInv, KeySound
    <3>2. Pending(me, id) = 0 /\ me.attempts \in Nat
      BY <1>1 DEF Pending, Local
    <3>3. QED
      BY <1>4, <2>1, <2>2, <3>1, <3>2, Typed
  <2>4. DOMAIN sessions \subseteq Ids
    BY Typed DEF Ids
  <2>5. Untried'
    <3>1. ASSUME NEW x \in Ids, x >= next_id PROVE tries'[x] = 0
      <4>1. x # id
        BY <2>2, <3>1, Typed DEF Ids
      <4>2. QED
        BY <2>3, <3>1, <4>1 DEF AInv, Untried
    <3>2. QED
      BY <1>2, <3>1 DEF Untried
  <2>6. CASE /\ ~Exhausted(me.attempts + 1) /\ UNCHANGED sessions
             /\ Become(k, [me EXCEPT !.pc = "reread"])
    <3>1. TableStep
      BY <1>2, <2>6, TableKept DEF IInv
    <3>2. \A u \in Keys : u # k => KeySound(u)'
      BY <2>2, <2>3, <2>4, <2>6, <3>1, OtherKey
    <3>3. thread'[k] = [me EXCEPT !.pc = "reread"]
      BY <1>1, <2>6 DEF IInv, TypeOK, Become
    <3>4. PICK s : s = [me EXCEPT !.pc = "reread"]
      OBVIOUS
    <3>5. thread'[k] = s /\ s.pc = "reread" /\ s.id = id /\ First(k)' = First(k)
      BY <2>1, <2>6, <3>3, <3>4 DEF Local, First, OfKey
    <3>6. tries'[id] < MaxAttempts
      BY <2>3, <2>6, ConstantsAssumption DEF Exhausted
    <3>7. KeySound(k)'
      BY <2>1, <2>2, <2>3, <2>6, <3>5, <3>6 DEF KeySound, AttemptsRead, Pending
    <3>8. LeaveTried
      BY <2>6 DEF LeaveTried
    <3>9. QED
      BY <2>5, <3>2, <3>7, <3>8 DEF AInv
  <2>7. CASE Exhausted(me.attempts + 1) /\ DeleteRows(OfKey(k)) /\ Become(k, Idle)
    <3>1. TableStep
      BY <1>2, <2>7, RowsDeleted DEF IInv
    <3>2. /\ DOMAIN sessions' = DOMAIN sessions \ OfKey(k)
          /\ \A x \in DOMAIN sessions' : sessions'[x] = sessions[x]
      BY <2>7 DEF DeleteRows, Restrict
    <3>3. \A x \in DOMAIN sessions \ OfKey(k) : x \in Ids /\ x # id
      BY <2>2, <2>4
    <3>4. \A u \in Keys : u # k => KeySound(u)'
      BY <2>3, <2>7, <3>1, <3>2, <3>3, OtherKey
    <3>5. First(k)' = {}
      BY <3>2 DEF First, OfKey
    <3>6. thread'[k] = Idle
      BY <1>1, <2>7 DEF IInv, TypeOK, Become
    <3>7. KeySound(k)'
      BY <3>5, <3>6, IdleLocal DEF KeySound, AttemptsRead
    <3>8. tries'[id] = MaxAttempts
      <4>1. tries[id] < MaxAttempts /\ tries[id] = me.attempts + Pending(me, id)
        BY <1>1, <2>1 DEF AInv, KeySound
      <4>2. Pending(me, id) = 0
        BY <1>1 DEF Pending
      <4>3. QED
        BY <2>3, <2>7, <4>1, <4>2, ConstantsAssumption DEF Exhausted
    <3>9. LeaveTried
      BY <3>2, <3>8 DEF LeaveTried, OfKey
    <3>10. QED
      BY <2>5, <3>4, <3>7, <3>9 DEF AInv
  <2>8. QED
    BY <1>4, <2>6, <2>7
<1>5. QED
  BY <1>1, <1>3, <1>4 DEF ForceStop, HistoryWritten, HistoryEmpty, HistoryRaises, Raise

LEMMA IncrementAttempts ==
  ASSUME IInv, AInv, NEW k \in Keys, Increment(k)
  PROVE  AInv' /\ LeaveTried
<1>1. PICK me \in Local : me = thread[k] /\ me.pc \in {"reread", "bump"} /\ me.key = k /\ k \in Threads
  BY BusyThread DEF Increment, At, Threads
<1>2. UNCHANGED <<next_id, tries>>
  BY DEF Increment
<1>3. PICK id \in First(k) : id = me.id
  BY <1>1 DEF AInv, KeySound, AttemptsRead
<1>4. id \in OfKey(k) /\ (\A other \in First(k) : other = id) /\ id # 0
  BY FirstIs DEF IInv, OfKey
<1>5. tries[id] = sessions[id].attempts + 1 /\ tries[id] < MaxAttempts
  BY <1>1, <1>3 DEF AInv, KeySound, Pending
<1>6. Untried'
  BY <1>2 DEF AInv, Untried
<1>7. CASE At(k, "reread")
  <2>1. /\ Become(k, [me EXCEPT !.pc = "bump", !.attempts = sessions[id].attempts])
        /\ UNCHANGED sessions
    BY <1>1, <1>4, <1>7 DEF Increment, At
  <2>2. PICK s : s = [me EXCEPT !.pc = "bump", !.attempts = sessions[id].attempts]
    OBVIOUS
  <2>3. thread'[k] = s
    BY <1>1, <2>1, <2>2 DEF IInv, TypeOK, Become
  <2>4. s.pc = "bump" /\ s.id = id /\ s.attempts = sessions[id].attempts /\ First(k)' = First(k)
    BY <1>3, <2>1, <2>2 DEF Local, First, OfKey
  <2>5. KeySound(k)'
    BY <1>2, <1>4, <1>5, <2>1, <2>3, <2>4 DEF KeySound, AttemptsRead, Pending
  <2>6. TableStep
    BY <1>2, <2>1, TableKept DEF IInv
  <2>7. \A u \in Keys : u # k => KeySound(u)'
    BY <1>2, <2>1, <2>6, OtherKey
  <2>8. LeaveTried
    BY <2>1 DEF LeaveTried
  <2>9. QED
    BY <1>6, <2>5, <2>7, <2>8 DEF AInv
<1>8. CASE At(k, "bump")
  <2>1. /\ SetRows(OfKey(k), LAMBDA r : [r EXCEPT !.attempts = Incremented(me.attempts)])
        /\ Become(k, Retry(me, "idle"))
    BY <1>1, <1>8 DEF Increment, At
  <2>2. sessions' = [x \in DOMAIN sessions |->
                      IF x \in OfKey(k)
                      THEN [sessions[x] EXCEPT !.attempts = Incremented(me.attempts)]
                      ELSE sessions[x]]
    BY <2>1 DEF SetRows
  <2>3. me.attempts = sessions[id].attempts /\ Incremented(me.attempts) = me.attempts + 1
        /\ Incremented(me.attempts) \in Nat
    BY <1>1, <1>3, <1>4, <1>8 DEF AInv, KeySound, AttemptsRead, At, Incremented, Local
  <2>4. \A x \in DOMAIN sessions : sessions'[x] \in Row /\ sessions'[x].key = sessions[x].key
    BY <2>2, <2>3, Typed DEF Row
  <2>5. sessions'[id].attempts = tries[id]
    <3>1. sessions[id] \in Row /\ id \in DOMAIN sessions
      BY <1>4, Typed DEF OfKey
    <3>2. QED
      BY <1>4, <1>5, <2>2, <2>3, <3>1 DEF Row
  <2>6. TableStep
    BY <1>2, <2>2, <2>4, RowsSet DEF IInv
  <2>7. PICK s : s = Schedule(me, FALSE, "idle")
    OBVIOUS
  <2>8. thread'[k] = s /\ s.pc = "get_job"
    <3>1. thread'[k] = Schedule(me, FALSE, "idle")
      BY <1>1, <2>1 DEF IInv, TypeOK, Become, Retry
    <3>2. QED
      BY <2>7, <3>1, ScheduleTyped
  <2>9. \A x \in First(k)' : x = id
    <3>1. \A x \in First(k)' : x \in DOMAIN sessions
      BY <2>2 DEF First, OfKey
    <3>2. QED
      BY <1>4, <2>6, <3>1, Typed, FirstKept DEF IInv
  <2>10. KeySound(k)'
    <3>1. tries'[id] = sessions'[id].attempts + 0 /\ tries'[id] < MaxAttempts
      BY <1>2, <1>4, <1>5, <2>5, Typed DEF OfKey, Ids
    <3>2. QED
      BY <2>8, <2>9, <3>1 DEF KeySound, AttemptsRead, Pending
  <2>11. \A u \in Keys : u # k => KeySound(u)'
    BY <1>2, <2>1, <2>2, <2>6, OtherKey
  <2>12. LeaveTried
    BY <2>2 DEF LeaveTried
  <2>13. QED
    BY <1>6, <2>10, <2>11, <2>12 DEF AInv
<1>9. QED
  BY <1>7, <1>8 DEF Increment

LEMMA ProbeAttempts ==
  ASSUME IInv, AInv, Probe, ServerFails = FALSE
  PROVE  AInv' /\ LeaveTried
<1>1. UNCHANGED <<thread, tries>>
  BY DEF Probe, aux
<1>2. probe \in [pc : {"idle", "write", "insert"}, key : Keys \cup {NoKey},
                 item : Items \cup {NoItem}]
  BY DEF IInv, TypeOK
<1>3. ASSUME UNCHANGED <<sessions, next_id>> PROVE AttemptsKept
  BY <1>3, UnchangedKept
<1>4. ASSUME NEW ids, SetRows(ids, LAMBDA r : [r EXCEPT !.state = "playing"]), UNCHANGED next_id
      PROVE  AttemptsKept
  <2>1. "playing" \in States \cup {"none"}
    BY DEF States
  <2>2. QED
    BY <1>4, <2>1, StateKept
<1>5. ASSUME probe.pc = "insert" PROVE AttemptsKept
  <2>1. [key |-> probe.key, item |-> probe.item, state |-> "playing", attempts |-> 0] \in Row
    BY <1>2, <1>5 DEF Row, States, IInv, ProbeSound
  <2>2. InsertRow([key |-> probe.key, item |-> probe.item, state |-> "playing", attempts |-> 0])
    BY <1>5 DEF Probe
  <2>3. QED
    BY <2>1, <2>2, InsertKept
<1>6. ASSUME probe.pc = "write" PROVE AttemptsKept
  <2>1. PICK ids : ids = {id \in OfKey(probe.key) : sessions[id].item = probe.item}
    OBVIOUS
  <2>2. SetRows(ids, LAMBDA r : [r EXCEPT !.state = "playing"]) /\ UNCHANGED next_id
    BY <1>6, <2>1 DEF Probe
  <2>3. QED
    BY <1>4, <2>2
<1>7. AttemptsKept
  BY <1>3, <1>5, <1>6 DEF Probe
<1>8. QED
  BY <1>1, <1>7, KeptStep

LEMMA InitAInv == Init => AInv
<1>1. SUFFICES ASSUME Init PROVE AInv
  OBVIOUS
<1>2. Untried
  BY <1>1 DEF Init, Untried
<1>3. ASSUME NEW k \in Keys PROVE KeySound(k)
  <2>1. First(k) = {} /\ thread[k] = Idle
    BY <1>1 DEF Init, First, OfKey, Threads
  <2>2. QED
    BY <2>1, IdleLocal DEF KeySound, AttemptsRead
<1>4. QED
  BY <1>2, <1>3 DEF AInv

LEMMA NextAInv ==
  ASSUME IInv, AInv, [Next]_vars, ServerFails = FALSE
  PROVE  AInv' /\ LeaveTried
<1>1. CASE UNCHANGED vars
  BY <1>1, UnchangedKept, KeptStep DEF vars, aux
<1>2. ASSUME NEW h \in Handlers, Receive(h) \/ Handle(h) PROVE AInv' /\ LeaveTried
  BY <1>2, HandlerAttempts
<1>3. ASSUME NEW k \in Keys, Fire(k) \/ Callback(k) PROVE AInv' /\ LeaveTried
  BY <1>3, JobAttempts, LoadAttempts, ForceStopAttempts, IncrementAttempts DEF Callback
<1>4. CASE Probe
  BY <1>4, ProbeAttempts
<1>5. QED
  BY <1>1, <1>2, <1>3, <1>4 DEF Next

\* While the server answers, write_attempts of the row a callback works on is the
\* number of attempts that failed, up to the callback's own UPDATE.
THEOREM CountsAttempts == ASSUME ServerFails = FALSE PROVE Spec => []AttemptsCounted
<1>1. IInv /\ AInv => AttemptsCounted
  <2>1. SUFFICES ASSUME IInv, NEW k \in Keys, KeySound(k), NEW id \in First(k)
                 PROVE  sessions[id].attempts = tries[id] -
                          (IF thread[k].id = id /\ thread[k].pc \in {"reread", "bump"}
                           THEN 1 ELSE 0)
    BY DEF AInv, AttemptsCounted
  <2>2. sessions[id].attempts \in Nat
    <3>1. id \in DOMAIN sessions
      BY <2>1, FirstIs DEF IInv
    <3>2. QED
      BY <2>1, <3>1, Typed DEF Row
  <2>3. tries[id] = sessions[id].attempts + Pending(thread[k], id)
    BY <2>1 DEF KeySound
  <2>4. QED
    BY <2>2, <2>3 DEF Pending
<1>2. IInv /\ AInv /\ [Next]_vars => AInv'
  BY NextAInv
<1>3. QED
  BY <1>1, <1>2, InitAInv, Invariance, PTL DEF Spec

\* While the server answers, no row leaves the sessions table before the callback
\* has failed SESSION_DB_WRITE_ATTEMPTS times on the oldest row of its key.
THEOREM KeptUntilLastAttempt == ASSUME ServerFails = FALSE PROVE Spec => RowsLeaveAfterLastAttempt
<1>1. IInv /\ AInv /\ [Next]_vars => AInv' /\ [LeaveTried]_vars
  BY NextAInv
<1>2. QED
  BY <1>1, InitAInv, Invariance, PTL DEF Spec, RowsLeaveAfterLastAttempt, LeaveTried
=============================================================================
