--------------------------- MODULE ScheduledTasks ---------------------------
(***************************************************************************)
(* The background tasks of SCHED and the threads that set them:            *)
(* initialize_scheduler, called under SCHED_LOCK by the websocket thread   *)
(* when it has connected or lost its connection and by every request that  *)
(* saves changed settings.  Of the tasks one of each kind is kept:         *)
(*                                                                         *)
(*   "update"    as long as a setting says, or not at all (check_update)   *)
(*   "optimize"  always (optimize_db; the two backups differ in the source *)
(*               of their interval only)                                   *)
(*   "refresh"   by a setting and only while connected (refresh_users,     *)
(*               refresh_libraries, check_server_updates, send_ping)       *)
(*   "server"    every 30 seconds and only while not connected             *)
(*                                                                         *)
(* A unit of time is the thirty seconds of "server"; the hours of the      *)
(* others are a few units.  What a second websocket thread does is in      *)
(* ServerConnection; here there is at most one.                            *)
(***************************************************************************)
EXTENDS Integers, Sequences

CONSTANTS
  Savers,     \* requests that save settings
  Link,       \* the websocket thread
  Nobody,     \* a free lock
  Hours,      \* intervals a setting may ask for, 0 included
  Fallback    \* the interval of "optimize", and of "refresh" set to 0

ASSUME ConstantsAssumption ==
  /\ Hours \subseteq Nat /\ Fallback \in Nat \ {0}
  /\ Link \notin Savers /\ Nobody \notin Savers \cup {Link}

Callers == Savers \cup {Link}
FormOrder == <<"github", "refresh">>  \* as in the page that sends the form
Settings == {"github", "refresh"}
Jobs == {"update", "optimize", "refresh", "server"}

\* The jobs that run after hours.
Hourly == Jobs \ {"server"}

VARIABLES
  created,    \* SCHED has been assigned
  lock,       \* holder of SCHED_LOCK
  config,     \* CONFIG: the two interval settings
  connected,  \* WS_CONNECTED
  interval,   \* of each job in SCHED, 0 when it is not there
  due,        \* units until the job runs
  caller,     \* local state of the threads
  missed,     \* auxiliary: settings and flags no call has seen since they changed
  waited      \* auxiliary: units since an hourly job was set or last ran

store == <<interval, due, waited>>
vars == <<created, lock, config, connected, store, caller, missed>>
-----------------------------------------------------------------------------
\* The order in which initialize_scheduler sets the jobs, and what is left of it.
Order == <<"update", "optimize", "refresh", "server">>

Remaining == {Order, <<"optimize", "refresh", "server">>, <<"refresh", "server">>,
              <<"server">>, <<>>}

\* left: the jobs initialize_scheduler has still to set; found: the value of
\* WS_CONNECTED it read; form, todo, changed: see Save.
Local == [pc : {"rest", "connect", "listen", "write", "enter", "set"},
          left : Remaining, found : BOOLEAN,
          form : [Settings -> Hours], todo : {<<>>, <<"refresh">>, FormOrder}, changed : BOOLEAN]

\* What is not in use has its first value, so that states are not told apart by it.
NoForm == [x \in Settings |-> CHOOSE h \in Hours : TRUE]
Rest == [pc |-> "rest", left |-> <<>>, found |-> FALSE, form |-> NoForm,
         todo |-> <<>>, changed |-> FALSE]

At(c, pc) == caller[c].pc = pc
Become(c, s) == caller' = [caller EXCEPT ![c] = s]

\* startup_refresh runs in a thread that start begins before it assigns SCHED.
Init ==
  /\ created = FALSE
  /\ lock = Nobody
  /\ config \in [Settings -> Hours]
  /\ connected = FALSE
  /\ interval = [j \in Jobs |-> 0]
  /\ due = [j \in Jobs |-> 0]
  /\ waited = [j \in Hourly |-> 0]
  /\ caller = [c \in Callers |-> IF c = Link THEN [Rest EXCEPT !.pc = "connect"] ELSE Rest]
  /\ missed = Settings \cup {"connected"}

\* start() assigns SCHED.
Create ==
  /\ ~created
  /\ created' = TRUE
  /\ UNCHANGED <<lock, config, connected, store, caller, missed>>
-----------------------------------------------------------------------------
\* configUpdate compares the form with CONFIG, later writes every setting of
\* the form, one after the other, and calls initialize_scheduler if the
\* comparison found a difference.
Save(c) ==
  /\ At(c, "rest")
  /\ \E form \in [Settings -> Hours] :
       Become(c, [Rest EXCEPT !.pc = "write", !.form = form, !.todo = FormOrder,
                              !.changed = form # config])
  /\ UNCHANGED <<created, lock, config, connected, store, missed>>

\* process_kwargs.  A value another request has changed since the comparison is
\* overwritten; nobody is told when this request saw no difference.
Write(c) ==
  /\ At(c, "write")
  /\ LET me == caller[c]
         x == Head(me.todo)
     IN /\ config' = [config EXCEPT ![x] = me.form[x]]
        /\ missed' = IF ~me.changed /\ config[x] # me.form[x] THEN missed \cup {x} ELSE missed
        /\ Become(c, IF Len(me.todo) > 1
                       THEN [me EXCEPT !.todo = Tail(@), !.form[x] = NoForm[x]]
                     ELSE IF me.changed THEN [Rest EXCEPT !.pc = "enter"] ELSE Rest)
  /\ UNCHANGED <<created, lock, connected, store>>
-----------------------------------------------------------------------------
\* The websocket thread: create_connection and, when the receive loop ends,
\* close; on_connect and on_disconnect both call initialize_scheduler.
Connect ==
  /\ At(Link, "connect")
  /\ connected' \in BOOLEAN
  /\ Become(Link, [Rest EXCEPT !.pc = "enter"])
  /\ UNCHANGED <<created, lock, config, store, missed>>

Lose ==
  /\ At(Link, "listen")
  /\ connected' = FALSE
  /\ Become(Link, [Rest EXCEPT !.pc = "enter"])
  /\ UNCHANGED <<created, lock, config, store, missed>>
-----------------------------------------------------------------------------
\* Mutated form of Enter: without SCHED_LOCK.
EnterUnlocked(c) ==
  /\ At(c, "enter") /\ created
  /\ Become(c, [Rest EXCEPT !.pc = "set", !.left = Order])
  /\ UNCHANGED <<created, lock, config, connected, store, missed>>

\* initialize_scheduler takes the lock; while SCHED is None its first statement
\* raises, which ends the request or the websocket thread; one that has set
\* WS_CONNECTED leaves it TRUE with nobody listening.  SCHED.start, at the end of
\* the first call, is left out: a job's time runs from its setting.
Enter(c) ==
  /\ At(c, "enter") /\ lock = Nobody
  /\ IF created
       THEN /\ lock' = c
            /\ Become(c, [Rest EXCEPT !.pc = "set", !.left = Order])
       ELSE Become(c, Rest) /\ UNCHANGED lock
  /\ UNCHANGED <<created, config, connected, store, missed>>

\* The interval initialize_scheduler asks for, 0 for none.
Required(j, is_connected) ==
  CASE j = "update" -> config["github"]
    [] j = "optimize" -> Fallback
    [] j = "refresh" -> IF ~is_connected THEN 0
                        ELSE IF config["refresh"] >= 1 THEN config["refresh"] ELSE Fallback
    [] j = "server" -> IF is_connected THEN 0 ELSE 1

\* What a job's interval depends on.
Reads(j) ==
  CASE j = "update" -> {"github"}
    [] j = "optimize" -> {}
    [] j = "refresh" -> {"refresh", "connected"}
    [] j = "server" -> {"connected"}

\* Mutated form of Differs: the seconds of the trigger are never compared right.
DiffersAlways(j, hours) == TRUE

\* schedule_job compares hours and minutes only: a job that runs after seconds
\* always differs.
Differs(j, hours) == j = "server" \/ interval[j] # hours

\* Mutated form of NextRun: the new trigger keeps the time of the old one.
NextRunKept(j, hours) ==
  IF hours = 0 THEN 0 ELSE IF interval[j] = 0 THEN hours ELSE due[j]

\* When the job runs next: a job that is added or given another trigger waits
\* for its whole interval.
NextRun(j, hours) ==
  IF hours # 0 /\ interval[j] # 0 /\ ~Differs(j, hours) THEN due[j] ELSE hours

\* schedule_job: removes, adds or reschedules the job, or leaves it alone.
ScheduleJob(j, hours) ==
  /\ due' = [due EXCEPT ![j] = NextRun(j, hours)]
  /\ waited' = IF j \in Hourly /\ interval[j] # hours THEN [waited EXCEPT ![j] = 0] ELSE waited
  /\ interval' = [interval EXCEPT ![j] = hours]

\* One job after the other; WS_CONNECTED is read once, before "refresh".  Then
\* the lock is released, the thread listens or ends and the request ends.
SetJob(c) ==
  /\ At(c, "set")
  /\ LET me == caller[c]
         j == Head(me.left)
         found == IF j = "refresh" THEN connected ELSE me.found
     IN /\ ScheduleJob(j, Required(j, found))
        /\ missed' = missed \ Reads(j)
        /\ IF Len(me.left) = 1
             THEN /\ Become(c, IF c = Link /\ connected THEN [Rest EXCEPT !.pc = "listen"] ELSE Rest)
                  /\ lock' = Nobody
             ELSE /\ Become(c, [me EXCEPT !.left = Tail(@), !.found = found])
                  /\ UNCHANGED lock
  /\ UNCHANGED <<created, config, connected>>
-----------------------------------------------------------------------------
\* The job runs and is due again an interval later.  "server" starts the
\* websocket thread.
Fire(j) ==
  /\ interval[j] # 0 /\ due[j] = 0
  /\ due' = [due EXCEPT ![j] = interval[j]]
  /\ waited' = [i \in Hourly |-> IF i = j THEN 0 ELSE waited[i]]
  /\ IF j = "server" /\ At(Link, "rest")
       THEN Become(Link, [Rest EXCEPT !.pc = "connect"])
       ELSE UNCHANGED caller
  /\ UNCHANGED <<created, lock, config, connected, interval, missed>>

\* A unit passes; the scheduler is not late.
Tick ==
  /\ \E j \in Jobs : interval[j] # 0
  /\ \A j \in Jobs : interval[j] # 0 => due[j] # 0
  /\ due' = [j \in Jobs |-> IF interval[j] = 0 THEN 0 ELSE due[j] - 1]
  /\ waited' = [j \in Hourly |-> IF interval[j] = 0 THEN 0 ELSE waited[j] + 1]
  /\ UNCHANGED <<created, lock, config, connected, interval, caller, missed>>

Next ==
  \/ Create \/ Connect \/ Lose \/ Tick
  \/ \E j \in Jobs : Fire(j)
  \/ \E c \in Savers : Save(c) \/ Write(c)
  \/ \E c \in Callers : Enter(c) \/ SetJob(c)

Spec == Init /\ [][Next]_vars
-----------------------------------------------------------------------------
TypeOK ==
  /\ created \in BOOLEAN /\ lock \in Callers \cup {Nobody}
  /\ config \in [Settings -> Hours] /\ connected \in BOOLEAN
  /\ interval \in [Jobs -> Nat]
  /\ due \in [Jobs -> Nat] /\ \A j \in Jobs : due[j] <= interval[j]
  /\ waited \in [Hourly -> Nat]
  /\ caller \in [Callers -> Local]
  /\ missed \subseteq Settings \cup {"connected"}

\* No thread is about to change a job.
Quiet == \A c \in Callers : caller[c].pc \in {"rest", "connect", "listen"}

\* The jobs are those that the settings and the connection ask for whenever no
\* save or call is under way, whatever the order of saves and of connections
\* made and lost.  The exceptions: before the first call that finds SCHED, and
\* the settings a request overwrote after it had found no difference.
JobsAsConfigured ==
  Quiet => \A j \in Jobs :
    Reads(j) \cap missed = {} /\ created /\ interval["optimize"] # 0
      => interval[j] = Required(j, connected)

\* However often settings are saved and the connection is made and lost, a job
\* that stays in the store with the interval it has runs on time: no other
\* change defers it.  (The refresh jobs leave the store with the connection.)
Punctual ==
  \A j \in Hourly : interval[j] # 0 => waited[j] + due[j] = interval[j]
=============================================================================
