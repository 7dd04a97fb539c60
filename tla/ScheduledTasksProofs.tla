------------------------- MODULE ScheduledTasksProofs -------------------------
(***************************************************************************)
(* Type correctness of the background tasks, that they are the ones the    *)
(* settings and the connection ask for when nobody is at work on them, and *)
(* that nothing defers a task that keeps its interval: for any number of   *)
(* requests that save settings and any intervals.                          *)
(*                                                                         *)
(* JobsAsConfigured speaks of quiet states only.  What makes it inductive  *)
(* is JobsFollow: at any time a job is as it should be, or a thread is on  *)
(* its way to setting it; and FoundHolds: the value of WS_CONNECTED that a *)
(* call has read is the current one, or the websocket thread is about to   *)
(* make another call.                                                      *)
(***************************************************************************)
EXTENDS ScheduledTasks, TLAPS

\* Which pc a thread may have, and what comes with it.
CallerSound(c) ==
  LET s == caller[c] IN
  /\ c = Link => s.pc # "write"
  /\ c # Link => s.pc \notin {"connect", "listen"}
  /\ s.pc = "write" => s.todo # <<>>
  /\ s.pc = "set" => s.left # <<>> /\ created

\* A thread sets jobs exactly while it holds SCHED_LOCK.
LockHeld == \A c \in Callers : At(c, "set") <=> lock = c

\* What initialize_scheduler read of the connection before its last job.
FoundHolds ==
  \A c \in Callers :
    At(c, "set") /\ caller[c].left = <<"server">> =>
      /\ caller[c].found = connected \/ At(Link, "enter")
      /\ "connected" \notin missed

\* Until SCHED is there no job is set and no change has been seen.
NothingSetBefore ==
  ~created => missed = Settings \cup {"connected"} /\ interval["optimize"] = 0

\* The jobs that a call which is under way has still to set.
Left(left) == {left[k] : k \in 1 .. Len(left)}

\* The thread will set the job with what it finds then.
WillSet(c, j) ==
  \/ At(c, "enter")
  \/ At(c, "write") /\ caller[c].changed
  \/ At(c, "set") /\ j \in Left(caller[c].left)

\* A call has set the job since what it depends on changed, or is told to.
Seen(j) == Reads(j) \cap missed = {} /\ (j = "optimize" => interval[j] # 0)

JobsFollow ==
  \A j \in Jobs : Seen(j) =>
    interval[j] = Required(j, connected) \/ \E c \in Callers : WillSet(c, j)

IInv ==
  /\ TypeOK
  /\ \A c \in Callers : CallerSound(c)
  /\ LockHeld
  /\ FoundHolds
  /\ NothingSetBefore
  /\ JobsFollow
  /\ Punctual
-----------------------------------------------------------------------------
\* The first of the jobs left, and what remains after it.
LEMMA FirstLeft ==
  ASSUME NEW left \in Remaining, left # <<>>
  PROVE  /\ Head(left) \in Jobs
         /\ Tail(left) \in Remaining
         /\ Left(left) = {Head(left)} \cup Left(Tail(left))
         /\ Len(left) = 1 <=> left = <<"server">>
         /\ Len(left) = 1 <=> Tail(left) = <<>>
         /\ Head(left) = "refresh" <=> Tail(left) = <<"server">>
         /\ Head(left) = "server" <=> left = <<"server">>
<1> DEFINE P(x) == /\ Head(x) \in Jobs
                   /\ Tail(x) \in Remaining
                   /\ Left(x) = {Head(x)} \cup Left(Tail(x))
                   /\ Len(x) = 1 <=> x = <<"server">>
                   /\ Len(x) = 1 <=> Tail(x) = <<>>
                   /\ Head(x) = "refresh" <=> Tail(x) = <<"server">>
                   /\ Head(x) = "server" <=> x = <<"server">>
<1>1. P(Order)
  <2>1. Tail(Order) = <<"optimize", "refresh", "server">> /\ Head(Order) = "update" /\ Len(Order) = 4
    BY DEF Order
  <2>2. Left(Order) = Jobs /\ Left(Tail(Order)) = Jobs \ {"update"}
    BY <2>1 DEF Order, Left, Jobs
  <2>3. QED
    BY <2>1, <2>2 DEF Order, Jobs, Remaining
<1>2. P(<<"optimize", "refresh", "server">>)
  <2> DEFINE x == <<"optimize", "refresh", "server">>
  <2>1. Tail(x) = <<"refresh", "server">> /\ Head(x) = "optimize" /\ Len(x) = 3
    OBVIOUS
  <2>2. Left(x) = {"optimize", "refresh", "server"} /\ Left(Tail(x)) = {"refresh", "server"}
    BY <2>1 DEF Left
  <2>3. QED
    BY <2>1, <2>2 DEF Jobs, Remaining
<1>3. P(<<"refresh", "server">>)
  <2> DEFINE x == <<"refresh", "server">>
  <2>1. Tail(x) = <<"server">> /\ Head(x) = "refresh" /\ Len(x) = 2
    OBVIOUS
  <2>2. Left(x) = {"refresh", "server"} /\ Left(Tail(x)) = {"server"}
    BY <2>1 DEF Left
  <2>3. QED
    BY <2>1, <2>2 DEF Jobs, Remaining
<1>4. P(<<"server">>)
  <2> DEFINE x == <<"server">>
  <2>1. Tail(x) = <<>> /\ Head(x) = "server" /\ Len(x) = 1
    OBVIOUS
  <2>2. Left(x) = {"server"} /\ Left(Tail(x)) = {}
    BY <2>1 DEF Left
  <2>3. QED
    BY <2>1, <2>2 DEF Jobs, Remaining
<1> HIDE DEF P
<1>5. P(left)
  BY <1>1, <1>2, <1>3, <1>4 DEF Remaining
<1>6. QED
  BY <1>5 DEF P

\* The intervals that may be asked for, and what they depend on.
LEMMA RequiredTyped ==
  ASSUME TypeOK, NEW j \in Jobs, NEW is_connected \in BOOLEAN
  PROVE  Required(j, is_connected) \in Nat
  BY ConstantsAssumption DEF TypeOK, Required, Jobs, Settings

LEMMA RestTyped ==
  ASSUME TypeOK
  PROVE  /\ Rest \in Local /\ NoForm \in [Settings -> Hours]
         /\ [Rest EXCEPT !.pc = "connect"] \in Local
         /\ [Rest EXCEPT !.pc = "listen"] \in Local
         /\ [Rest EXCEPT !.pc = "enter"] \in Local
         /\ [Rest EXCEPT !.pc = "set", !.left = Order] \in Local
<1>1. config["github"] \in Hours
  BY DEF TypeOK, Settings
<1>2. NoForm \in [Settings -> Hours]
  BY <1>1 DEF NoForm
<1>3. QED
  BY <1>2 DEF Rest, Local, Remaining

\* A thread's local state after a step of one thread.
LEMMA Becomes ==
  ASSUME TypeOK, NEW c \in Callers, NEW s, Become(c, s)
  PROVE  \A d \in Callers : caller'[d] = IF d = c THEN s ELSE caller[d]
  BY DEF TypeOK, Become
-----------------------------------------------------------------------------
(* Steps that set no job. *)

\* A thread that is not setting jobs before or after a step, and does not give up
\* a call it owes, disturbs nothing if no job depends on what it changes.
LEMMA OutsideStep ==
  ASSUME IInv, NEW c \in Callers, NEW s \in Local, Become(c, s),
         ~At(c, "set"), s.pc # "set",
         c = Link => s.pc # "write", c # Link => s.pc \notin {"connect", "listen"},
         s.pc = "write" => s.todo # <<>>,
         At(Link, "enter") => c # Link \/ s.pc = "enter",
         UNCHANGED <<created, lock, store>>,
         missed \subseteq missed', missed' \subseteq missed \cup Settings,
         connected' \in BOOLEAN, connected' # connected => c = Link /\ s.pc = "enter",
         config' \in [Settings -> Hours],
         \A j \in Jobs : Seen(j)' /\ interval[j] = Required(j, connected)
           => \/ interval[j] = Required(j, connected)'
              \/ s.pc = "enter" \/ (s.pc = "write" /\ s.changed),
         \A j \in Jobs : WillSet(c, j) => s.pc = "enter" \/ (s.pc = "write" /\ s.changed)
  PROVE  IInv'
<1>1. \A d \in Callers : caller'[d] = IF d = c THEN s ELSE caller[d]
  BY Becomes DEF IInv
<1>2. TypeOK'
  BY <1>1 DEF IInv, TypeOK, store, Become
<1>3. ASSUME NEW d \in Callers PROVE CallerSound(d)'
  BY <1>1 DEF IInv, CallerSound
<1>4. LockHeld'
  BY <1>1 DEF IInv, LockHeld, At
<1>5. FoundHolds'
  <2> SUFFICES ASSUME NEW d \in Callers, At(d, "set")', caller'[d].left = <<"server">>
               PROVE  /\ caller'[d].found = connected' \/ At(Link, "enter")'
                      /\ "connected" \notin missed'
    BY DEF FoundHolds
  <2>1. d # c /\ At(d, "set") /\ caller'[d] = caller[d]
    BY <1>1 DEF At
  <2>2. /\ caller[d].found = connected \/ At(Link, "enter")
        /\ "connected" \notin missed
    BY <2>1 DEF IInv, FoundHolds
  <2>3. "connected" \notin missed'
    BY <2>2 DEF Settings
  <2>4. At(Link, "enter") \/ connected' # connected => At(Link, "enter")'
    BY <1>1 DEF At, Callers
  <2>5. QED
    BY <2>1, <2>2, <2>3, <2>4
<1>6. NothingSetBefore'
  BY DEF IInv, NothingSetBefore, store
<1>7. JobsFollow'
  <2> SUFFICES ASSUME NEW j \in Jobs, Seen(j)'
               PROVE  (interval[j] = Required(j, connected) \/ \E d \in Callers : WillSet(d, j))'
    BY DEF JobsFollow
  <2>1. Seen(j)
    BY DEF Seen, Reads, store, Jobs
  <2>2. \A d \in Callers : WillSet(d, j) => WillSet(d, j)' \/ WillSet(c, j)'
    BY <1>1 DEF WillSet, At
  <2>3. s.pc = "enter" \/ (s.pc = "write" /\ s.changed) => WillSet(c, j)'
    BY <1>1 DEF WillSet, At
  <2>4. CASE interval[j] = Required(j, connected)
    BY <2>1, <2>3, <2>4 DEF store
  <2>5. CASE \E d \in Callers : WillSet(d, j)
    BY <2>2, <2>5
  <2>6. QED
    BY <2>1, <2>4, <2>5 DEF IInv, JobsFollow
<1>8. Punctual'
  BY DEF IInv, Punctual, store
<1>9. QED
  BY <1>2, <1>3, <1>4, <1>5, <1>6, <1>7, <1>8 DEF IInv

LEMMA SaveStep ==
  ASSUME IInv, NEW c \in Savers, Save(c)
  PROVE  IInv'
<1>1. PICK form \in [Settings -> Hours] :
        Become(c, [Rest EXCEPT !.pc = "write", !.form = form, !.todo = FormOrder,
                               !.changed = form # config])
  BY DEF Save
<1> DEFINE s == [Rest EXCEPT !.pc = "write", !.form = form, !.todo = FormOrder,
                             !.changed = form # config]
<1>2. /\ s \in Local /\ s.pc = "write" /\ s.todo # <<>>
  BY RestTyped DEF Rest, Local, FormOrder, IInv
<1>3. /\ c \in Callers /\ c # Link /\ At(c, "rest")
      /\ UNCHANGED <<created, lock, config, connected, store, missed>>
  BY ConstantsAssumption DEF Callers, Save
<1>4. \A j \in Jobs : ~WillSet(c, j)
  BY <1>3 DEF WillSet, At
<1>5. \A j \in Jobs : Required(j, connected)' = Required(j, connected)
  BY <1>3 DEF Required
<1>6. ~At(c, "set") /\ connected \in BOOLEAN /\ config \in [Settings -> Hours]
  BY <1>3 DEF At, IInv, TypeOK
<1>7. Become(c, s)
  BY <1>1
<1>8. missed \subseteq missed' /\ missed' \subseteq missed \cup Settings
  BY <1>3
<1> HIDE DEF s
<1>9. \A j \in Jobs : Seen(j)' /\ interval[j] = Required(j, connected)
           => \/ interval[j] = Required(j, connected)'
              \/ s.pc = "enter" \/ (s.pc = "write" /\ s.changed)
  <2>1. SUFFICES ASSUME NEW j \in Jobs PROVE Required(j, connected)' = Required(j, connected)
    OBVIOUS
  <2>2. QED
    BY <1>5
<1>10. QED
  BY <1>2, <1>3, <1>4, <1>6, <1>7, <1>8, <1>9, OutsideStep

\* A setting that is written without a call to follow is missed by the jobs that
\* read it.
LEMMA WriteStep ==
  ASSUME IInv, NEW c \in Savers, Write(c)
  PROVE  IInv'
<1> DEFINE me == caller[c]
           x == Head(me.todo)
           s == IF Len(me.todo) > 1
                  THEN [me EXCEPT !.todo = Tail(@), !.form[x] = NoForm[x]]
                ELSE IF me.changed THEN [Rest EXCEPT !.pc = "enter"] ELSE Rest
<1>1. /\ c \in Callers /\ c # Link /\ me \in Local /\ me.pc = "write"
      /\ me.todo \in {<<"refresh">>, FormOrder}
      /\ UNCHANGED <<created, lock, connected, store>>
      /\ connected \in BOOLEAN /\ missed \subseteq Settings \cup {"connected"}
  <2>1. c \in Callers /\ c # Link /\ me \in Local /\ me.pc = "write" /\ me.todo # <<>>
    BY ConstantsAssumption DEF Callers, Write, At, IInv, TypeOK, CallerSound
  <2>2. QED
    BY <2>1 DEF Local, Write, IInv, TypeOK
<1>2. /\ me.todo = FormOrder => Tail(me.todo) = <<"refresh">>
      /\ me.todo = FormOrder => Len(me.todo) = 2 /\ x = "github"
      /\ me.todo = <<"refresh">> => Len(me.todo) = 1 /\ x = "refresh"
  <2>1. /\ Tail(<<"github", "refresh">>) = <<"refresh">>
        /\ Len(<<"github", "refresh">>) = 2 /\ Head(<<"github", "refresh">>) = "github"
    OBVIOUS
  <2>2. Len(<<"refresh">>) = 1 /\ Head(<<"refresh">>) = "refresh"
    OBVIOUS
  <2>3. QED
    BY <2>1, <2>2 DEF FormOrder
<1>3. x \in Settings /\ me.form[x] \in Hours /\ me.form \in [Settings -> Hours]
  BY <1>1, <1>2 DEF Settings, Local
<1>4. Become(c, s) /\ config' = [config EXCEPT ![x] = me.form[x]]
      /\ missed' = IF ~me.changed /\ config[x] # me.form[x] THEN missed \cup {x} ELSE missed
  BY DEF Write
<1>5. config' \in [Settings -> Hours] /\ missed \subseteq missed'
      /\ missed' \subseteq missed \cup Settings
  BY <1>1, <1>3, <1>4 DEF IInv, TypeOK
<1>6. /\ s \in Local
      /\ \/ s.pc = "write" /\ s.changed = me.changed /\ s.todo # <<>>
         \/ s.pc = "enter" /\ me.changed
         \/ s.pc = "rest" /\ ~me.changed
  <2>1. CASE me.todo = FormOrder
    <3> DEFINE t == [me EXCEPT !.todo = <<"refresh">>,
                               !.form = [me.form EXCEPT ![x] = NoForm[x]]]
    <3>1. s = t
      <4>1. Tail(me.todo) = <<"refresh">> /\ Len(me.todo) > 1
        <5>1. Tail(me.todo) = <<"refresh">>
          BY <1>2, <2>1
        <5>2. Len(me.todo) = 2
          BY <1>2, <2>1
        <5>3. QED
          BY <5>1, <5>2
      <4>2. s = [me EXCEPT !.todo = Tail(@), !.form[x] = NoForm[x]]
        BY <4>1
      <4>3. QED
        BY <1>1, <4>1, <4>2 DEF Local
    <3>2. NoForm[x] \in Hours
      BY <1>3, RestTyped DEF IInv
    <3>3. [me.form EXCEPT ![x] = NoForm[x]] \in [Settings -> Hours]
      BY <1>3, <3>2
    <3>4. t \in Local /\ t.pc = "write" /\ t.changed = me.changed /\ t.todo # <<>>
      BY <1>1, <3>3 DEF Local
    <3> HIDE DEF s, t
    <3>5. QED
      BY <3>1, <3>4
  <2>2. CASE me.todo = <<"refresh">>
    BY <1>1, <1>2, <2>2, RestTyped DEF Rest, IInv, Local
  <2>3. QED
    BY <1>1, <2>1, <2>2
<1>7. ASSUME NEW j \in Jobs, Seen(j)'
      PROVE  Required(j, connected)' = Required(j, connected) \/ me.changed
  <2>1. CASE x \in missed'
    BY <1>1, <1>2, <1>3, <1>4, <1>5, <1>7, <2>1
       DEF Required, Seen, Reads, Jobs, IInv, TypeOK, Settings
  <2>2. CASE x \notin missed' /\ ~me.changed
    <3>1. config[x] = me.form[x]
      BY <1>4, <2>2
    <3>2. config' = config
      BY <1>3, <1>4, <3>1 DEF IInv, TypeOK
    <3>3. QED
      BY <1>1, <3>2 DEF Required
  <2>3. QED
    BY <2>1, <2>2
<1>8. /\ \A j \in Jobs : WillSet(c, j) => me.changed
      /\ ~At(c, "set")
  BY <1>1 DEF WillSet, At
<1> HIDE DEF s
<1>9. QED
  BY <1>1, <1>4, <1>5, <1>6, <1>7, <1>8, OutsideStep

\* The websocket thread makes or loses the connection, and calls.
LEMMA LinkStep ==
  ASSUME IInv, Connect \/ Lose
  PROVE  IInv'
<1> DEFINE s == [Rest EXCEPT !.pc = "enter"]
<1>1. s \in Local /\ s.pc = "enter" /\ Link \in Callers
  BY RestTyped DEF Rest, IInv, Callers
<1>2. /\ Become(Link, s) /\ connected' \in BOOLEAN
      /\ UNCHANGED <<created, lock, config, store, missed>>
      /\ ~At(Link, "set")
  BY DEF Connect, Lose, At
<1>3. missed \subseteq missed' /\ missed' \subseteq missed \cup Settings
      /\ config' \in [Settings -> Hours]
  BY <1>2 DEF IInv, TypeOK
<1> HIDE DEF s
<1>4. s.pc # "set" /\ s.pc # "write" /\ s.pc \notin {"connect", "listen"}
  BY <1>1
<1>5. \A j \in Jobs : Seen(j)' /\ interval[j] = Required(j, connected)
           => \/ interval[j] = Required(j, connected)'
              \/ s.pc = "enter" \/ (s.pc = "write" /\ s.changed)
  BY <1>1
<1>6. \A j \in Jobs : WillSet(Link, j) => s.pc = "enter" \/ (s.pc = "write" /\ s.changed)
  BY <1>1
<1>7. QED
  BY <1>1, <1>2, <1>3, <1>4, <1>5, <1>6, OutsideStep
-----------------------------------------------------------------------------
(* The calls of initialize_scheduler. *)

LEMMA CreateStep ==
  ASSUME IInv, Create
  PROVE  IInv'
<1>1. UNCHANGED <<lock, config, connected, store, caller, missed>> /\ created'
  BY DEF Create
<1>2. TypeOK' /\ Punctual'
  BY <1>1 DEF IInv, TypeOK, Punctual, store
<1>3. (\A c \in Callers : CallerSound(c)') /\ LockHeld' /\ FoundHolds' /\ NothingSetBefore'
  BY <1>1 DEF IInv, CallerSound, LockHeld, FoundHolds, NothingSetBefore, At
<1>4. JobsFollow'
  <2> SUFFICES ASSUME NEW j \in Jobs, Seen(j)'
               PROVE  (interval[j] = Required(j, connected) \/ \E c \in Callers : WillSet(c, j))'
    BY DEF JobsFollow
  <2>1. Seen(j) /\ Required(j, connected)' = Required(j, connected) /\ interval' = interval
    BY <1>1 DEF Seen, Reads, Required, store
  <2>2. \A c \in Callers : WillSet(c, j)' <=> WillSet(c, j)
    BY <1>1 DEF WillSet, At, Left
  <2>3. QED
    BY <2>1, <2>2 DEF IInv, JobsFollow
<1>5. QED
  BY <1>2, <1>3, <1>4 DEF IInv

\* Before SCHED is there the call raises, and nothing is as it should be anyway.
LEMMA EnterStep ==
  ASSUME IInv, NEW c \in Callers, Enter(c)
  PROVE  IInv'
<1>1. /\ At(c, "enter") /\ lock = Nobody
      /\ lock' = IF created THEN c ELSE Nobody
      /\ UNCHANGED <<created, config, connected, store, missed>>
      /\ created \in BOOLEAN
  BY DEF Enter, IInv, TypeOK
<1>2. PICK s \in Local : /\ \A d \in Callers : caller'[d] = IF d = c THEN s ELSE caller[d]
                         /\ caller' = [caller EXCEPT ![c] = s]
                         /\ created => s.pc = "set" /\ s.left = Order
                         /\ ~created => s.pc = "rest"
  <2>1. CASE created
    <3> DEFINE t == [Rest EXCEPT !.pc = "set", !.left = Order]
    <3>1. t \in Local /\ t.pc = "set" /\ t.left = Order
      BY RestTyped DEF IInv, Rest
    <3>2. Become(c, t)
      BY <2>1 DEF Enter
    <3> HIDE DEF t
    <3>3. QED
      BY <2>1, <3>1, <3>2, Becomes DEF IInv, Become
  <2>2. CASE ~created
    <3>1. Rest \in Local /\ Rest.pc = "rest"
      BY RestTyped DEF IInv, Rest
    <3>2. Become(c, Rest)
      BY <2>2 DEF Enter
    <3>3. QED
      <4>1. caller' = [caller EXCEPT ![c] = Rest]
        BY <3>2 DEF Become
      <4>2. \A d \in Callers : caller'[d] = IF d = c THEN Rest ELSE caller[d]
        BY <3>2, Becomes DEF IInv
      <4>3. QED
        BY <2>2, <3>1, <4>1, <4>2
  <2>3. QED
    BY <2>1, <2>2
<1>3. \A d \in Callers : ~At(d, "set") /\ d # Nobody
  BY <1>1, ConstantsAssumption DEF IInv, LockHeld, Callers
<1>4. Order # <<>> /\ Order # <<"server">> /\ Left(Order) = Jobs
  <2>1. Len(Order) = 4
    BY DEF Order
  <2>2. Order # <<>> /\ Order # <<"server">>
    BY <2>1
  <2>3. Left(Order) = Jobs
    BY <2>1 DEF Order, Left, Jobs
  <2>4. QED
    BY <2>2, <2>3
<1>5. TypeOK'
  BY <1>1, <1>2 DEF IInv, TypeOK, store
<1>6. ASSUME NEW d \in Callers PROVE CallerSound(d)'
  BY <1>1, <1>2, <1>4 DEF IInv, CallerSound
<1>7. LockHeld'
  BY <1>1, <1>2, <1>3 DEF LockHeld, At
<1>8. FoundHolds'
  BY <1>1, <1>2, <1>3, <1>4 DEF FoundHolds, At
<1>9. NothingSetBefore' /\ Punctual'
  BY <1>1 DEF IInv, NothingSetBefore, Punctual, store
<1>10. JobsFollow'
  <2> SUFFICES ASSUME NEW j \in Jobs, Seen(j)'
               PROVE  (interval[j] = Required(j, connected) \/ \E d \in Callers : WillSet(d, j))'
    BY DEF JobsFollow
  <2>1. Seen(j) /\ Required(j, connected)' = Required(j, connected)
    BY <1>1 DEF Seen, Reads, Required, store
  <2>2. CASE created
    BY <1>2, <1>4, <2>2 DEF WillSet, At
  <2>3. CASE ~created
    BY <2>1, <2>3 DEF IInv, NothingSetBefore, Seen, Reads, Jobs, Settings
  <2>4. QED
    BY <2>2, <2>3
<1>11. QED
  BY <1>5, <1>6, <1>7, <1>8, <1>9, <1>10 DEF IInv

\* A job is set: nobody else is at work on the jobs, and a call that has read a
\* WS_CONNECTED which no longer holds is followed by another.
LEMMA SetJobStep ==
  ASSUME IInv, NEW c \in Callers, SetJob(c)
  PROVE  IInv'
<1>1. PICK me \in Local : me = caller[c] /\ me.pc = "set" /\ me.left # <<>>
  BY DEF IInv, TypeOK, SetJob, At, CallerSound
<1>2. PICK j \in Jobs : j = Head(me.left)
  BY <1>1, FirstLeft DEF Local
<1>3. PICK found \in BOOLEAN : found = IF j = "refresh" THEN connected ELSE me.found
  BY <1>1 DEF Local, IInv, TypeOK
<1>4. PICK h \in Nat : h = Required(j, found)
  BY <1>3, RequiredTyped DEF IInv
<1>5. /\ ScheduleJob(j, h) /\ missed' = missed \ Reads(j)
      /\ UNCHANGED <<created, config, connected>>
  BY <1>1, <1>2, <1>3, <1>4 DEF SetJob
<1>6. PICK s \in Local :
        /\ Become(c, s)
        /\ Tail(me.left) = <<>> =>
             s.pc \in {"rest", "listen"} /\ lock' = Nobody /\ (s.pc = "listen" => c = Link)
        /\ Tail(me.left) # <<>> =>
             s.pc = "set" /\ s.left = Tail(me.left) /\ s.found = found /\ lock' = lock
  <2>1. Len(me.left) = 1 <=> Tail(me.left) = <<>>
    BY <1>1, FirstLeft DEF Local
  <2>2. CASE Len(me.left) = 1
    <3>1. PICK s \in Local : /\ s = IF c = Link /\ connected THEN [Rest EXCEPT !.pc = "listen"] ELSE Rest
                             /\ s.pc \in {"rest", "listen"} /\ (s.pc = "listen" => c = Link)
      BY RestTyped DEF IInv, Rest
    <3>2. Become(c, s) /\ lock' = Nobody
      BY <1>1, <2>2, <3>1 DEF SetJob
    <3>3. QED
      BY <2>1, <2>2, <3>1, <3>2
  <2>3. CASE Len(me.left) # 1
    <3>1. PICK s \in Local : s = [me EXCEPT !.left = Tail(@), !.found = found]
      BY <1>1, FirstLeft DEF Local
    <3>2. s.pc = "set" /\ s.left = Tail(me.left) /\ s.found = found
      BY <1>1, <3>1 DEF Local
    <3>3. Become(c, s) /\ lock' = lock
      BY <1>1, <1>2, <1>3, <2>3, <3>1 DEF SetJob
    <3>4. QED
      BY <2>1, <2>3, <3>2, <3>3
  <2>4. QED
    BY <2>2, <2>3
<1>7. \A d \in Callers : caller'[d] = IF d = c THEN s ELSE caller[d]
  BY <1>6, Becomes DEF IInv
<1>8. /\ interval' = [interval EXCEPT ![j] = h]
      /\ due' = [due EXCEPT ![j] = NextRun(j, h)]
      /\ waited' = IF j \in Hourly /\ interval[j] # h THEN [waited EXCEPT ![j] = 0] ELSE waited
  BY <1>5 DEF ScheduleJob
<1>9. NextRun(j, h) \in Nat /\ NextRun(j, h) <= h
  BY DEF NextRun, Differs, IInv, TypeOK
<1>10. /\ created /\ lock = c
       /\ \A d \in Callers : d # c => ~At(d, "set")
  BY <1>1 DEF IInv, CallerSound, LockHeld, At
<1>11. TypeOK'
  <2>1. interval' \in [Jobs -> Nat] /\ due' \in [Jobs -> Nat] /\ waited' \in [Hourly -> Nat]
    BY <1>8, <1>9 DEF IInv, TypeOK
  <2>2. \A i \in Jobs : due'[i] <= interval'[i]
    BY <1>8, <1>9 DEF IInv, TypeOK
  <2>3. caller' \in [Callers -> Local] /\ lock' \in Callers \cup {Nobody}
    BY <1>6 DEF IInv, TypeOK, Become
  <2>4. QED
    BY <1>5, <2>1, <2>2, <2>3 DEF IInv, TypeOK
<1>12. ASSUME NEW d \in Callers PROVE CallerSound(d)'
  BY <1>1, <1>5, <1>6, <1>7, <1>10 DEF IInv, CallerSound
<1>13. LockHeld'
  <2>1. \A d \in Callers : d # Nobody
    BY ConstantsAssumption DEF Callers
  <2>2. QED
    BY <1>6, <1>7, <1>10, <2>1 DEF LockHeld, At
<1>14. FoundHolds'
  <2>1. CASE Tail(me.left) = <<"server">>
    <3>1. j = "refresh"
      BY <1>1, <1>2, <2>1, FirstLeft DEF Local
    <3>2. QED
      BY <1>3, <1>5, <1>6, <1>7, <1>10, <2>1, <3>1 DEF FoundHolds, At, Reads
  <2>2. CASE Tail(me.left) # <<"server">>
    BY <1>6, <1>7, <1>10, <2>2 DEF FoundHolds, At
  <2>3. QED
    BY <2>1, <2>2
<1>15. NothingSetBefore'
  BY <1>5, <1>10 DEF NothingSetBefore
<1>16. JobsFollow'
  <2> SUFFICES ASSUME NEW i \in Jobs, Seen(i)'
               PROVE  (interval[i] = Required(i, connected) \/ \E d \in Callers : WillSet(d, i))'
    BY DEF JobsFollow
  <2>1. Required(i, connected)' = Required(i, connected)
    BY <1>5 DEF Required
  <2>2. CASE i = j
    <3>1. interval'[j] = Required(j, found)
      BY <1>4, <1>8 DEF IInv, TypeOK
    <3>2. CASE j # "server"
      BY <1>3, <2>1, <2>2, <3>1, <3>2 DEF Required, Jobs
    <3>3. CASE j = "server"
      <4>1. me.left = <<"server">> /\ found = me.found
        BY <1>1, <1>2, <1>3, <3>3, FirstLeft DEF Local
      <4>2. found = connected \/ (At(Link, "enter") /\ Link # c)
        BY <1>1, <4>1 DEF IInv, FoundHolds, At
      <4>3. CASE found = connected
        BY <2>1, <2>2, <3>1, <4>3
      <4>4. CASE At(Link, "enter") /\ Link # c
        <5>1. WillSet(Link, i)'
          BY <1>7, <4>4 DEF WillSet, At, Callers
        <5>2. QED
          BY <5>1 DEF Callers
      <4>5. QED
        BY <4>2, <4>3, <4>4
    <3>4. QED
      BY <3>2, <3>3
  <2>3. CASE i # j
    <3>1. interval'[i] = interval[i]
      BY <1>8, <2>3 DEF IInv, TypeOK
    <3>2. Left(me.left) = {j} \cup Left(Tail(me.left)) /\ Left(<<>>) = {}
      <4>1. Left(me.left) = {j} \cup Left(Tail(me.left))
        BY <1>1, <1>2, FirstLeft DEF Local
      <4>2. Left(<<>>) = {}
        BY DEF Left
      <4>3. QED
        BY <4>1, <4>2
    <3>3. i \in Left(me.left) => WillSet(c, i)'
      BY <1>6, <1>7, <2>3, <3>2 DEF WillSet, At
    <3>4. Seen(i) \/ i \in Left(me.left)
      <4>1. CASE j = "server"
        <5>1. "connected" \notin missed
          BY <1>1, <1>2, <4>1, FirstLeft DEF IInv, FoundHolds, At, Local
        <5>2. QED
          BY <1>5, <2>3, <3>1, <4>1, <5>1 DEF Seen, Reads, Jobs
      <4>2. CASE j = "refresh"
        <5>1. Left(<<"server">>) = {"server"}
          BY DEF Left
        <5>2. "server" \in Left(me.left)
          BY <1>1, <1>2, <3>2, <4>2, <5>1, FirstLeft DEF Local
        <5>3. QED
          BY <1>5, <2>3, <3>1, <4>2, <5>2 DEF Seen, Reads, Jobs
      <4>3. CASE j \in {"update", "optimize"}
        BY <1>5, <2>3, <3>1, <4>3 DEF Seen, Reads, Jobs
      <4>4. QED
        BY <4>1, <4>2, <4>3 DEF Jobs
    <3>5. \A d \in Callers \ {c} : WillSet(d, i) => WillSet(d, i)'
      BY <1>7 DEF WillSet, At
    <3>6. WillSet(c, i) => i \in Left(me.left)
      BY <1>1 DEF WillSet, At
    <3>7. QED
      BY <2>1, <3>1, <3>3, <3>4, <3>5, <3>6 DEF IInv, JobsFollow
  <2>4. QED
    BY <2>2, <2>3
<1>17. Punctual'
  <2> SUFFICES ASSUME NEW i \in Hourly, interval'[i] # 0
               PROVE  waited'[i] + due'[i] = interval'[i]
    BY DEF Punctual
  <2>1. CASE i = j
    <3>1. interval'[i] = h /\ due'[i] = NextRun(j, h) /\ h # 0 /\ j # "server"
      BY <1>8, <2>1 DEF IInv, TypeOK, Hourly
    <3>2. CASE interval[j] = h
      BY <1>8, <2>1, <3>1, <3>2 DEF NextRun, Differs, IInv, TypeOK, Punctual
    <3>3. CASE interval[j] # h
      BY <1>8, <2>1, <3>1, <3>3 DEF NextRun, Differs, IInv, TypeOK
    <3>4. QED
      BY <3>2, <3>3
  <2>2. CASE i # j
    BY <1>8, <2>2 DEF IInv, TypeOK, Punctual, Hourly
  <2>3. QED
    BY <2>1, <2>2
<1>18. QED
  BY <1>11, <1>12, <1>13, <1>14, <1>15, <1>16, <1>17 DEF IInv
-----------------------------------------------------------------------------
(* The scheduler. *)

\* A job that runs starts the websocket thread at most; its time begins again.
LEMMA FireStep ==
  ASSUME IInv, NEW j \in Jobs, Fire(j)
  PROVE  IInv'
<1>1. /\ interval[j] # 0 /\ due[j] = 0
      /\ due' = [due EXCEPT ![j] = interval[j]]
      /\ waited' = [i \in Hourly |-> IF i = j THEN 0 ELSE waited[i]]
      /\ UNCHANGED <<created, lock, config, connected, interval, missed>>
  BY DEF Fire
<1>2. /\ caller' \in [Callers -> Local]
      /\ \A d \in Callers :
           caller'[d] = caller[d] \/ (At(d, "rest") /\ caller'[d].pc = "connect" /\ d = Link)
  <2>1. CASE j = "server" /\ At(Link, "rest")
    <3>1. PICK s \in Local : s = [Rest EXCEPT !.pc = "connect"] /\ s.pc = "connect"
      BY RestTyped DEF IInv, Rest
    <3>2. Become(Link, s)
      BY <2>1, <3>1 DEF Fire
    <3>3. QED
      BY <2>1, <3>1, <3>2 DEF Become, IInv, TypeOK
  <2>2. CASE ~(j = "server" /\ At(Link, "rest"))
    BY <2>2 DEF Fire, IInv, TypeOK
  <2>3. QED
    BY <2>1, <2>2
<1>3. TypeOK'
  BY <1>1, <1>2 DEF IInv, TypeOK
<1>4. ASSUME NEW d \in Callers PROVE CallerSound(d)'
  BY <1>1, <1>2 DEF IInv, CallerSound
<1>5. LockHeld'
  BY <1>1, <1>2 DEF IInv, LockHeld, At
<1>6. FoundHolds'
  BY <1>1, <1>2 DEF IInv, FoundHolds, At, Callers
<1>7. NothingSetBefore'
  BY <1>1 DEF IInv, NothingSetBefore
<1>8. JobsFollow'
  <2> SUFFICES ASSUME NEW i \in Jobs, Seen(i)'
               PROVE  (interval[i] = Required(i, connected) \/ \E d \in Callers : WillSet(d, i))'
    BY DEF JobsFollow
  <2>1. Seen(i) /\ Required(i, connected)' = Required(i, connected)
    BY <1>1 DEF Seen, Reads, Required
  <2>2. \A d \in Callers : WillSet(d, i) => WillSet(d, i)'
    BY <1>2 DEF WillSet, At
  <2>3. QED
    BY <1>1, <2>1, <2>2 DEF IInv, JobsFollow
<1>9. Punctual'
  BY <1>1 DEF IInv, TypeOK, Punctual, Hourly
<1>10. QED
  BY <1>3, <1>4, <1>5, <1>6, <1>7, <1>8, <1>9 DEF IInv

LEMMA TickStep ==
  ASSUME IInv, Tick
  PROVE  IInv'
<1>1. /\ \A j \in Jobs : interval[j] # 0 => due[j] # 0
      /\ due' = [j \in Jobs |-> IF interval[j] = 0 THEN 0 ELSE due[j] - 1]
      /\ waited' = [j \in Hourly |-> IF interval[j] = 0 THEN 0 ELSE waited[j] + 1]
      /\ UNCHANGED <<created, lock, config, connected, interval, caller, missed>>
  BY DEF Tick
<1>2. TypeOK' /\ Punctual'
  BY <1>1 DEF IInv, TypeOK, Punctual, Hourly
<1>3. (\A c \in Callers : CallerSound(c)') /\ LockHeld' /\ FoundHolds' /\ NothingSetBefore'
  BY <1>1 DEF IInv, CallerSound, LockHeld, FoundHolds, NothingSetBefore, At
<1>4. JobsFollow'
  <2> SUFFICES ASSUME NEW j \in Jobs, Seen(j)'
               PROVE  (interval[j] = Required(j, connected) \/ \E c \in Callers : WillSet(c, j))'
    BY DEF JobsFollow
  <2>1. Seen(j) /\ Required(j, connected)' = Required(j, connected) /\ interval' = interval
    BY <1>1 DEF Seen, Reads, Required
  <2>2. \A c \in Callers : WillSet(c, j)' <=> WillSet(c, j)
    BY <1>1 DEF WillSet, At, Left
  <2>3. QED
    BY <2>1, <2>2 DEF IInv, JobsFollow
<1>5. QED
  BY <1>2, <1>3, <1>4 DEF IInv
-----------------------------------------------------------------------------
LEMMA InitIInv ==
  ASSUME Init
  PROVE  IInv
<1>1. TypeOK
  <2>1. config["github"] \in Hours
    BY DEF Init, Settings
  <2>2. Rest \in Local /\ [Rest EXCEPT !.pc = "connect"] \in Local
    BY <2>1 DEF Rest, Local, NoForm, Remaining
  <2>3. caller \in [Callers -> Local]
    BY <2>2 DEF Init
  <2>4. interval \in [Jobs -> Nat] /\ due \in [Jobs -> Nat] /\ waited \in [Hourly -> Nat]
        /\ \A j \in Jobs : due[j] <= interval[j]
    BY DEF Init
  <2>5. QED
    BY <2>3, <2>4 DEF Init, TypeOK
<1>2. \A c \in Callers : /\ caller[c].pc \in {"rest", "connect"}
                         /\ caller[c].pc = "connect" => c = Link
  BY DEF Init, Rest
<1>3. lock = Nobody /\ \A c \in Callers : c # Nobody
  BY ConstantsAssumption DEF Init, Callers
<1>4. QED
  BY <1>1, <1>2, <1>3 DEF Init, IInv, CallerSound, LockHeld, FoundHolds, NothingSetBefore,
     JobsFollow, Seen, Reads, Settings, Jobs, Punctual, At, Hourly

LEMMA NextIInv ==
  ASSUME IInv, [Next]_vars
  PROVE  IInv'
<1>1. CASE Create
  BY <1>1, CreateStep
<1>2. CASE Connect \/ Lose
  BY <1>2, LinkStep
<1>3. CASE Tick
  BY <1>3, TickStep
<1>4. CASE \E j \in Jobs : Fire(j)
  BY <1>4, FireStep
<1>5. CASE \E c \in Savers : Save(c) \/ Write(c)
  BY <1>5, SaveStep, WriteStep
<1>6. CASE \E c \in Callers : Enter(c) \/ SetJob(c)
  BY <1>6, EnterStep, SetJobStep
<1>7. CASE UNCHANGED vars
  <2>1. TypeOK' /\ Punctual'
    BY <1>7 DEF IInv, TypeOK, Punctual, vars, store
  <2>2. (\A c \in Callers : CallerSound(c)') /\ LockHeld' /\ FoundHolds' /\ NothingSetBefore'
    BY <1>7 DEF IInv, CallerSound, LockHeld, FoundHolds, NothingSetBefore, At, vars, store
  <2>3. JobsFollow'
    <3> SUFFICES ASSUME NEW j \in Jobs, Seen(j)'
                 PROVE  (interval[j] = Required(j, connected) \/ \E c \in Callers : WillSet(c, j))'
      BY DEF JobsFollow
    <3>1. Seen(j) /\ Required(j, connected)' = Required(j, connected) /\ interval' = interval
      BY <1>7 DEF Seen, Reads, Required, vars, store
    <3>2. \A c \in Callers : WillSet(c, j)' <=> WillSet(c, j)
      BY <1>7 DEF WillSet, At, Left, vars
    <3>3. QED
      BY <3>1, <3>2 DEF IInv, JobsFollow
  <2>4. QED
    BY <2>1, <2>2, <2>3 DEF IInv
<1>8. QED
  BY <1>1, <1>2, <1>3, <1>4, <1>5, <1>6, <1>7 DEF Next

\* IInv holds in every state.
THEOREM Invariance == Spec => []IInv
<1>1. Init => IInv
  BY InitIInv
<1>2. IInv /\ [Next]_vars => IInv'
  BY NextIInv
<1>3. QED
  BY <1>1, <1>2, PTL DEF Spec

\* The variables keep their types; no job is due later than its interval allows.
THEOREM TypeCorrect == Spec => []TypeOK
<1>1. IInv => TypeOK
  BY DEF IInv
<1>2. QED
  BY <1>1, Invariance, PTL

\* However saves, connections made and lost and the calls they lead to follow each
\* other: when no thread is at work on the jobs, they are the ones that the
\* settings and the connection ask for.
THEOREM JobsFollowConfig == Spec => []JobsAsConfigured
<1>1. IInv => JobsAsConfigured
  <2>1. SUFFICES ASSUME IInv, Quiet, NEW j \in Jobs,
                        Reads(j) \cap missed = {}, interval["optimize"] # 0
                 PROVE  interval[j] = Required(j, connected)
    BY DEF JobsAsConfigured
  <2>2. \A c \in Callers : ~WillSet(c, j)
    BY <2>1 DEF Quiet, WillSet, At
  <2>3. QED
    BY <2>1, <2>2 DEF IInv, JobsFollow, Seen
<1>2. QED
  BY <1>1, Invariance, PTL

\* A job that keeps its interval runs when it is due, however often the settings
\* are saved and the connection is made and lost meanwhile.
THEOREM RunsOnTime == Spec => []Punctual
<1>1. IInv => Punctual
  BY DEF IInv
<1>2. QED
  BY <1>1, Invariance, PTL
=============================================================================
