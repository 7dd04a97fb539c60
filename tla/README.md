# TLA+ specification of JellyPy

JellyPy (a fork of Tautulli) watches a Jellyfin server over a websocket, keeps
the streams in progress in a temporary table, turns finished ones into history
rows, and tells notification agents what happens. It is one Python process with
many threads over one SQLite database. Single functions are simple; what is
hard is that they interleave: every database statement is a transaction of its
own, the schedulers' jobs run on thread pools, requests to the server fail, and
nothing is rolled back. The modules here are about that.

## 1. Inventory

Own code is `src/jellypy` (38 modules) and `src/JellyPy.py`; `src/lib` is
vendored and appears only where APScheduler's behaviour matters; `src/data` is
templates, styles and scripts.

### Threads

| thread | starts at | runs |
|---|---|---|
| websocket | `web_socket.start_thread` | `run`: connect, receive, `process` |
| SCHED pool | `initialize_scheduler` | interval jobs: reconnect, refreshes, backups, update checks |
| ACTIVITY_SCHED pool | `schedule_callback` | one-shot jobs by id: `session_key-N`, `rating_key-N`, `on_intdown`, `on_extdown` |
| NEWSLETTER_SCHED pool | `schedule_newsletter_job` | cron jobs that put an item in NOTIFY_QUEUE |
| notification workers | `notification_handler.start_threads` | `process_queue` |
| start-up | `start` | `startup_refresh` |
| web | `webstart` | the pages and the API |

`database.db_lock` is held for one `action` at a time; `monitor_lock` for one
`check_active_sessions`; `SCHED_LOCK` for one `initialize_scheduler`.

### Components

| component | state | operations | hard behaviour | what makes it correct |
|---|---|---|---|---|
| session monitor (`activity_handler.ActivityHandler`, `activity_processor`, `activity_pinger`) | table `sessions`; one callback per session key | a playing event; the force-stop callback; the activity check | interleaving of events, callbacks and the check; requests that fail; two-statement upserts | a play with a callback always has one pending until it is in the history; attempts are counted and end |
| session history writer (`write_session_history`) | `session_history`, `_media_info`, `_metadata` | one function, five writes | concurrent writers; an abort between writes | rows are grouped with the play they continue |
| server connection (`web_socket`, `initialize_scheduler`, `connect_server`) | WEBSOCKET, WS_CONNECTED, JELLYFIN_SERVER_UP, two jobs | connect, receive, close, on_connect, on_disconnect, reconnect job | several threads share the globals; the callback races the recovery | it reconnects; the job matches the connection; outages are announced in pairs |
| notification queue (`notification_handler`, `notifiers.send_notification`) | NOTIFY_QUEUE, `notify_log` | put, fan out to notifiers, notify, mark | workers interleave; handlers raise; the log is keyed by the second | nothing stays behind; no duplicate; order; a truthful log |
| recently-added queue (`TimelineHandler`, `clear_recently_added_queue`, `on_created`) | RECENTLY_ADDED_QUEUE, callbacks, table `recently_added` | item created, item deleted, callback | a dict of sets shared without a lock | every item is announced, none twice |
| remote access (`ReachabilityHandler`) | PLEX_REMOTE_ACCESS_UP, `on_extdown` job | reachability event | as for the server-down callback | announcements in pairs |
| database layer (`database.MonitorDatabase`, `import_tautulli_db`) | connection, db_lock, IS_IMPORTING | action, upsert, import, backup, bulk deletes | a locked database loses a write after five tries; check-then-set of the import flag; an import beside a writer, cut short or failing midway | no logged play is lost; imported ones arrive whole and in their groups |
| background tasks (`initialize_scheduler`, `schedule_job`, `configUpdate`) | the interval jobs of SCHED, SCHED_LOCK, the interval settings | set the tasks; save settings | saves and connections interleave; start-up race | the tasks are those asked for, and on time |
| custom conditions (`notify_custom_conditions`, `helpers.parse_condition_logic_string`) | none | parse, evaluate | recursive grouping | the parse has the meaning of the text |
| libraries and users | two tables | refresh; delete with the history, undelete, edit | a play logged while its user is deleted; one table cleared and the next not | a deletion leaves nothing behind and says so only then |
| login (`webauth`) | `user_login` | check_rate_limit | time | lock-out lasts |
| everything else | | pages, API, queries, configuration, logging, updates, certificates, trays | little state or pure I/O | |

How they interact: websocket events reach the session monitor, the
recently-added queue and the connection state; the session monitor calls the
history writer; all of these put dictionaries in NOTIFY_QUEUE; the connection
code empties or flags `sessions`; everything writes through the database layer.

`PROJECT.json` lists every component with its status, and under "hazards"
what is hard to test, each at its line with the properties that cover it.

## 2. Modules

| module | models | extended by |
|---|---|---|
| `HistoryWriter` | `write_session_history` | `HistoryRefinement` |
| `PlayHistory` | what the history promises its readers: plays added in one step | |
| `HistoryRefinement` | the mapping from `HistoryWriter` to `PlayHistory` | `MCHistoryWriter`, `HistoryWriterProofs` |
| `SessionMonitor` | sessions, force-stop callbacks, activity check | `MCSessionMonitor`, `SessionMonitorProofs` |
| `ServerConnection` | websocket threads and the two jobs about the connection | `MCServerConnection`, `RemoteAccess` |
| `RemoteAccess` | `ReachabilityHandler` in those threads, with its callback | `MCRemoteAccess`, `ServerConnectionProofs` |
| `ScheduledTasks` | the interval jobs of SCHED and the threads that set them | `MCScheduledTasks`, `ScheduledTasksProofs` |
| `NotificationQueue` | NOTIFY_QUEUE, workers, `notify_log` | `MCNotificationQueue`, `NotificationQueueProofs` |
| `RecentlyAdded` | RECENTLY_ADDED_QUEUE and the callbacks that clear it | `MCRecentlyAdded`, `RecentlyAddedProofs` |
| `DatabaseImport` | `import_tautulli_db` beside `write_session_history` | `MCDatabaseImport`, `DatabaseImportProofs` |
| `HistoryDeletion` | the deletion of users and history beside `write_session_history` | `MCHistoryDeletion`, `HistoryDeletionProofs` |
| `ConditionLogic` | the parser and evaluator of the condition logic | |
| `HistoryWriterProofs` | proofs about `HistoryWriter`, and that it implements `PlayHistory` | |
| `SessionMonitorProofs` | proofs about `SessionMonitor` | |
| `ServerConnectionProofs` | proofs about `ServerConnection` and `RemoteAccess` | |
| `ScheduledTasksProofs` | proofs about `ScheduledTasks` | |
| `NotificationQueueProofs` | proofs about `NotificationQueue` | |
| `RecentlyAddedProofs` | proofs about `RecentlyAdded` | |
| `DatabaseImportProofs` | proofs about `DatabaseImport` | |
| `HistoryDeletionProofs` | proofs about `HistoryDeletion` | |

Throughout, an action is what runs without another thread being able to
intervene on the state of the model: one SQL statement, one call of a
scheduler, one queue operation, one assignment of a shared global. Local
variables of a thread are a record with a program counter `pc`. A request to
the server is a choice of outcomes. Parameters are CONSTANTS with a named
ASSUME; names in the modules follow the source.

### HistoryWriter

`history` is `session_history` in id order, `media_info` and `metadata` the
ids in the other two tables, `writer[w]` the locals of a thread in
`write_session_history`. `Begin` is the logging decision (minimum play time,
skipped tracks, users and libraries that keep no history; anything not logged
returns at once), `Fetch` the metadata request that comes before any write,
then one action per statement: `Insert`, `Select` (the last two rows of the
view and the decision), `Link` (the UPDATE of `reference_id`),
`WriteMediaInfo`, `WriteMetadata`. `Abort` is an exception or the end of the
process in between. A view is a pair of user and item, the WHERE clause of the
SELECT. `head` and `overlapped` are auxiliary: the group a row belongs to by
the grouping rule at the moment of its INSERT, and which rows were inserted
while another row of their view was still ungrouped.

`PlayHistory` is the same history as its readers would like it: a play is added
with its group in one step (`Add`), appears in it (`Group`) and becomes complete
(`Complete`). `HistoryRefinement` maps a row to a play, `head` to its group, the
rows whose `reference_id` is that group to the plays that are shown. What the
threads' races cost is said in the abstract terms: a play added while another
of its view was on its way is `contended`; only a contended play may become
complete without its group, or lose it again - with three threads the second
happens: a late UPDATE that copies a NULL goes to the row that is newest, which
its own thread had already grouped.

Left out: import (`is_import`), which runs the same statements from one
thread; live TV (`get_session_each` never builds a live session, so the branch
on `live` is dead); the columns that only pages read.

### SessionMonitor

`sessions` maps row ids to rows, `jobs` is the set of keys with a force-stop
job, `thread[t]` the locals of a websocket handler or of a key's callback,
`probe` those of `check_active_sessions`. `Receive` and `Read` begin
`ActivityHandler.process`; `GetJob` and `SetJob` are `schedule_callback`, a
question and a change between which the answer can become false (the change
then raises); `Branch` is the choice of handler and leads to the sequence
`Updates` of the calls one event may cause; `Touch`, `Live`, `Write`,
`SetState`, `Load` and `Stop` are the statements of the handlers. `Fire`
takes a due job out of the store and starts its run, or drops it while a run
of the same job goes on (`max_instances`). `ForceStop` and `Increment` are
`force_stop_stream`.

What the code does here that a reader of it may not expect, and the model has:

* `delete_session(row_id=...)` deletes nothing: `str(session_key)` of the
  default `None` is a true string, so the DELETE asks for `session_key = NULL`.
* `get_sessions()` likewise asks for `user_id = NULL` and returns no rows, so
  the part of `check_active_sessions` that would stop vanished sessions never
  runs; only sessions the server lists are written, without a callback.
* When a request raises in `check_active_sessions`, `start_thread` deletes all
  of `sessions`.
* An upsert by session key after the row is gone inserts a row with everything
  else NULL; processing the next event of that key raises.

Left out, because no modelled decision reads them: `watched`, `last_paused`,
buffer counters, view offsets; `set_temp_stopped`. Time is not modelled: a job
that is pending may fire at any moment. In `history`, a row without an item
also has its state set by a last upsert of the row just read; it is the row of
a play that `Branch` refuses, so no later step depends on it.

### ServerConnection

`thread[t]` is a thread in `run`; `sockets` are the open sockets, named by the
thread that opened them; `websocket` and `connected` are the globals (two
assignments, two actions). `check_job` is 'Check for server response' in
SCHED, `checker` a run of it; `down_job` is `on_intdown` in ACTIVITY_SCHED,
`announcing` a run of it. `ReadConnected` and `Apply` are
`initialize_scheduler` under SCHED_LOCK. `ServerStops`, `ServerReturns` and a
receive timeout are the environment, `MaxFaults` of them. After a closed
connection the loop of `run` never retries by itself: with `reconnects = 0`
the test `not reconnects < WEBSOCKET_CONNECTION_ATTEMPTS` sends it to
`close()`. So everything depends on the job, and on the order in which threads
read WS_CONNECTED, assign it and call `initialize_scheduler`.

`CheckServer` fires only when every thread waits (in `create_connection`, in
`recv_frame`, or not started): the interval is 30 seconds and the steps between
two waits are assignments. A thread in which `schedule_callback` raises ends
(`died`); the properties except it, because nothing in the code recovers.

### RemoteAccess

Extends `ServerConnection` because a reachability event is handled by the
thread that receives it: `Report` begins where `Receive` could, and a thread
with a `handler` does nothing else. `Response` is `get_server_response`;
`Fails`, `Works`, `Schedule` and `Cancel` are the branches of `process` with
`schedule_callback`, whose exceptions `web_socket.process` catches. An event
whose data says that the server is reachable returns at once, so in the branch
that sets the flag for the first time (`PLEX_REMOTE_ACCESS_UP is None` and no
reason) `is_reachable()` is false: the first good report sets the flag to down,
and the next one announces a recovery of which no outage was announced
(`assumed`). `met` is set when the callback fires while a recovery is handled.
With two threads, which a reconnection may leave for a while, two recoveries
can be handled at once and both be announced; the run has one thread.

### ScheduledTasks

`interval` and `due` are the jobs of SCHED, one of each kind: always there, by
a setting, by a setting and the connection, and the reconnection job. `caller`
holds the requests that save settings (`Save` compares the form, `Write` is
`process_kwargs`, one setting at a time) and the websocket thread (`Connect`,
`Lose`); both then `Enter` `initialize_scheduler` and `SetJob` one job after the
other, WS_CONNECTED being read once in the middle. `NextRun` has what
`schedule_job` compares: hours and minutes, never seconds, so the reconnection
job is set anew by every call. `missed` names what has changed without a call
to come: everything before the first call, and a setting that a request which
saw no difference has overwritten. `Create` is the assignment of SCHED in
`start`; a call before it raises, and a websocket thread that has just set
WS_CONNECTED ends there and leaves it set.

Left out: `SCHED.start` at the end of the first call (a job's time runs from
its setting), the other conditions of `configUpdate`, the setup wizard, which
starts the websocket thread itself, and what the jobs do.

### DatabaseImport

`Program` is the sequence of statements of each method; `importer[i].at` is
where a thread stands in it. The BEGIN IMMEDIATE at the start ends with the
first SELECT, whose `with connection` commits, so every statement stands alone.
`copies` are the temporary tables of a merge, `details` stands for
`session_history_media_info` and `_metadata`. `LogRow`, `Link`, `UpdateDetails`
and `InsertDetails` are `write_session_history` and `upsert` for plays whose
view is their own. Faults: `Lose` is a statement given up after five attempts,
`Raise` any exception, `Restart` the end of the process. The auxiliary
variables name what excuses a loss: `disturbed` (a fault in an import, or two
imports at once), `cleared` (an overwrite), `beside` (the rows whose writer met
an import).

What the code does here that a reader of it may not expect, and the model has:

* An import that is cut short, or a lost DROP, leaves its copies behind, and
  every later merge raises at its first CREATE TABLE.
* After an exception nothing resets IS_IMPORTING until the program restarts.
* The ids of imported rows continue from a number read at the beginning. A play
  logged before they are inserted takes the id of one of them, and INSERT OR
  IGNORE drops that imported play; its details may still arrive first.
* When the UPDATE of the copy's ids is lost, the duplicates' removal may delete
  details of plays that were logged here.

Left out: the other tables, the migration of databases older than 2.7.0, and the
backup (a refusal when it fails).

### HistoryDeletion

`tables` holds the ids in the three tables of the history, `owner` the user of
every row ever inserted, `writer` a thread in `write_session_history` reduced to
its look at `keep_history` and its three writes, `request` a thread of the web
interface. `DeleteUsers` is `delete_user` and `delete_all_user_history`, and goes
through its users one by one (`TakeUser`): `Select` reads the ids,
`DeleteFromTable` deletes them from one table after the other, `Mark` is the
UPDATE of `users`. `DeleteRows` is `delete_history_rows`. Nothing holds these
steps together, and a writer that was allowed to log goes on. `Raise`, `GiveUp`
and `Restart` are the faults: `delete_rows_from_table` swallows an exception and
says False, a statement given up after five attempts looks like a success. The
auxiliary variables name what excuses a remainder: `beside` (rows that the
deletion could not see), `torn` (rows deleted while their writer was at them),
`failed` and `given_up`.

`TakeUser` has the test that keeps a Jellyfin user's history: only ids of digits
pass `isdigit`. `DeletedHaveNone` therefore speaks of the local user, whose id is
0; libraries take the same steps through `Libraries.delete`.

### ConditionLogic

The state is the parser's after the tokens of `text`; one action per branch of
its loop. `Accepted` and `notify_custom_conditions` say what would become of a
text that ends here; `Grammatical` and `Meaning` are what
`notifier_config.html` documents: brackets, `and` before `or`. Python's nested
lists share their elements; here a list joins the one below when it is popped,
which is when the difference ends. `SimplyNested` is the exact condition on
brackets under which the two counters of the parser agree with the text.
The module uses RECURSIVE operators and holds no theorem.

### NotificationQueue

`queue` is NOTIFY_QUEUE, `worker[w]` a thread in `process_queue`. An item is
an event, a notification or the `None` of a shutdown. `AddEach` is
`add_notifier_each` up to its loop (enabled notifiers, conditions, parameters:
which custom conditions hold is a choice), `PutNotification` the loop, `Chain`
the two events an `on_play` yields. `Notify`, `Insert`, `Send` and `SetSuccess`
are `notify`. `Fail` is any exception or early return: `process_queue` goes on.
`Watched` and `PutWatched` are the websocket thread that asks `notify_log`
which notifiers have been told and puts one event for each of the others.
`now` is `timestamp()`, in seconds, part of the key of `notify_log`; when
`set_notify_state` finds its key there, nothing is inserted,
`last_insert_rowid()` of the fresh connection is 0, and `set_notify_success`
inserts a row of id 0.

`HasServerSettings` says whether CONFIG defines the settings that every
notification's parameters name (`PMS_NAME` and others). At this commit it does
not: whatever event a notifier is enabled for, `add_notifier_each` raises. The
run has the settings, so that what comes after, `notify` and its log, is checked
too; without them only the outcome `Fail` of `AddEach` is left.

`MaxEvents` bounds the events of a single worker, `MaxShared` those of several;
an `on_play`, which puts two more events, counts as two.

Left out: newsletters, which pass through the queue in one step and have a
table of their own; manual triggers and tests.

### RecentlyAdded

`queue` is RECENTLY_ADDED_QUEUE. Its sets are objects: `queue` maps an item to
the number of a set, `sets` holds the contents, so that a thread may hold, fill
or go through a set that has left the dictionary. `Insertions` says which keys
an event changes; `Insert` is the get, the add and the assignment of each.
`Schedule` and `Fire` are as in `SessionMonitor`. A callback has the name of its
root (movie, show or artist): `Start`, `Choose`, `Child` and `Walk` are
`clear_recently_added_queue`, with a stack of the sets it goes through and
Python's rule that a set that has grown raises at the next step; `Created` and
`MetadataFails` are `on_created`, whose rows of the table only this callback
reads and writes, so that it is one step; `DelKeys` is `del_keys`, also for a deleted item.
The two grouping settings are read from CONFIG each time and may be changed, so
each reading is a choice. `raced` and `failed` are the items that met a run of
their root's callback, and those that were waiting when a request failed.

Left out: events without a root, states of metadata that only log, and the
database error that `set_recently_added_item` swallows.

## 3. Runs

All bounds are constants of the .cfg files. Deadlock is checked where the
system does not stop (`scheduled_tasks`); elsewhere the bounds (rows, events,
faults, tokens) let it stop. What a run finds of a safety property on its small
instance is proved for every instance in all runs but `condition_logic`
(section 4).

| run | asks | bounds | why enough |
|---|---|---|---|
| `history` | `TypeOK`, `GroupedCorrectly`, `UngroupedHasCause`, `ImplementsPlayHistory` | 3 writers, 3 rows, 2 views, one view with plays at an earlier, an equal and a later offset, one whose plays end at the watched offset | three writers of one view can each see another's row as newest; three rows give a chain of groups |
| `session_monitor` | `TypeOK`, `CallbackCoverage` | 1 key, 2 items, 1 handler, 2 events (playing, stopped), 2 rows, failing requests, flush | a key reused by a second item, its callback running while an event of the other is handled, and the activity check inserting in between |
| `session_progress` | `AttemptsCounted`, `RowsLeaveAfterLastAttempt`, `PlaysEnd` | 1 key, 1 item, all event states, 2 attempts | one attempt that is not the last and one that is |
| `server_connection` | `TypeOK`, `NeverStranded`, `JobMatchesConnection`, `Reconnects` | 2 threads, 2 faults | one thread closing, reading or overwriting what another opened, twice |
| `announce` | `RemoteTypeOK`, `AnnouncementsBalance`, `RemoteAnnouncementsBalance` | 1 thread, 3 faults, 5 reachability events | an outage, a recovery and an outage again around either callback, with the connection lost in between |
| `notification_queue` | `TypeOK`, `SuccessRecorded`, `WatchedOnce`, `InOrderWithOneThread`, `EventsHandled` | 1 to 2 workers, 2 notifiers, `MaxEvents` and `MaxShared`, 2 seconds | two equal notifications in a second, an event between the two passes of others, and every place where a handler may raise |
| `recently_added` | `TypeOK`, `NothingForgotten`, `QueueMatchesCallbacks`, `AnnouncedOnce` | a show, 2 seasons, 2 episodes, 3 events, failing requests for one season | two children on both levels make both groupings; three events are one before, one during and one after a callback; the season is announced alone and among the keys of the show |
| `import` | `TypeOK`, `FlagHonest`, `LoggedKept`, `ImportedArrive`, `OwnDetails`, `GroupsKept` | 2 importers, 2 imports, 2 faults, small tables with a play in both and with groups | an import beside another, after one that was cut short, and beside a writer; one fault to leave something behind and one to meet it |
| `history_deletion` | `TypeOK`, `NoOrphans`, `DeletedAsTold`, `DeletedHaveNone` | 2 requests, 1 writer, 2 rows, a user of either kind, 1 fault | a deletion beside another, beside an undelete and beside a play at each of its writes; a second row lets a request succeed with one and fail with the other |
| `condition_logic` | `OnlyValueError`, `DocumentedMeaning` | 4 conditions, 11 tokens, all outcomes of the conditions | every combination of and, or and two brackets |
| `scheduled_tasks` | `TypeOK`, `JobsAsConfigured`, `Punctual` | 2 requests, 1 websocket thread, intervals 0, 1 and the fallback 2; saves, connections and time without a bound | a save overlapping a save and a change of the connection; a job that is removed, added, changed and left alone |
| `failed_writes` | `FailedWritesRetried`, violated | 1 event | |

What the passing ones say:

* **GroupedCorrectly**: a `reference_id` that is set is the group the row
  belongs to, whichever thread's UPDATE set it. The SELECT may find another
  thread's row as the newest; the thread then groups *that* row, correctly.
* **UngroupedHasCause**: what is lost that way is exactly the own row of the
  thread that lost the race, or what continues such a row.
* **CallbackCoverage**: a play that once had a callback is pending, being
  worked on or in the history, unless its key is in `lost`: a thread raised, a
  run was skipped, or `on_stop` cancelled the key's callback on behalf of a row
  that had been deleted meanwhile.
* **AttemptsCounted, RowsLeaveAfterLastAttempt, PlaysEnd**: while the server
  answers, `write_attempts` is right although it is read and written in two
  statements, rows leave only after the last attempt (then all rows of the key
  leave), and every play with a callback ends.
* **ImplementsPlayHistory**: every statement of `write_session_history` is a step
  of the one-step history, or nothing to its readers.
* **NeverStranded, JobMatchesConnection, Reconnects**: however the threads
  interleave, there is a thread or a way to get one, and once the server stays
  up the program ends up listening for good.
* **AnnouncementsBalance**: with one thread, `on_intdown` and `on_intup` pair
  up, except that an outage the program started in is announced only at its
  end, and that a callback which fires between the two questions of
  `on_connect` is not followed by an `on_intup`.
* **RemoteAnnouncementsBalance**: likewise `on_extdown` and `on_extup`, across
  lost connections and the threads that follow each other.
* **FlagHonest, LoggedKept, ImportedArrive, OwnDetails, GroupsKept**: without
  faults the flag is set exactly while an import changes the tables; a merge
  loses no play that was logged here whatever goes wrong; an import without
  faults brings every play whose id no writer took, never gives a row the
  details of another play, and neither joins nor splits groups.
* **NoOrphans, DeletedAsTold, DeletedHaveNone**: whatever is deleted at the same
  time, details without their row are left only by a statement that failed or by
  a writer that was still at the row; what a request was told had been deleted is
  gone from all three tables; and a deleted user whose id is a number has no
  history but plays that were being logged meanwhile, or after somebody
  switched the history of the deleted user on again.
* **OnlyValueError, DocumentedMeaning**: on simply nested texts the parser does
  what the page says, and fails only in the way its caller expects.
* **JobsAsConfigured, Punctual**: whenever nobody is setting them, the tasks are
  those that settings and connection ask for, but for a setting that an
  overlapping save overwrote; and setting one task never defers another. The
  refresh tasks leave the store with the connection and start anew with it: when
  it breaks more often than their interval they never run.
* **SuccessRecorded, WatchedOnce, InOrderWithOneThread, EventsHandled**: the
  log tells the truth except for two equal notifications in one second;
  `on_watched` goes out once unless the log was asked while the first was under
  way; with one worker the order is kept (with two it is not, and nothing says
  it should be); every event is worked off whatever raises.

* **NothingForgotten, QueueMatchesCallbacks, AnnouncedOnce**: an item that
  arrives while its show's callback runs may be lost (`del_keys` removes it
  unannounced, and the callback it got then finds no key); the model shows that
  this is all that such a race can lose: items of the tree that were there
  before are announced, by that run or by the next. Nothing is announced by
  itself after it was announced alone or in a group.

`failed_writes` is a disagreement between the code and its own words, quoted in
`PROJECT.json` "findings": a failed request ends the retries. The models contain
more of these without a run of their own:

* A Jellyfin user who is deleted keeps all history. `delete_user_history` works
  only for ids that `isdigit` accepts; the user is marked as deleted all the same
  and the answer is a failure, where `webserve.py:1990` says "Also erases all
  history for the user." (`TakeUser`; `DeletedHaveNone` is restricted to
  `Numeric`).
* Condition logic of the documented form is refused, or worse, when a bracket
  opens inside a bracket that follows an `and`: two counters stand for the
  nesting, so `{1} and (({2}))` "is missing" a closing bracket (`EndsAnd`;
  `DocumentedMeaning` is restricted to `SimplyNested`).
* No event triggers a notification, as the parameters raise (`HasServerSettings`),
  and the conditions of `on_concurrent` always raise, as `evaluated` has no value
  there (`AddEach`).
* Two plays of one view written at the same time can leave a complete row without
  a group (`contended`).
* A play's session row stays after it is in the history, because
  `delete_session(row_id)` deletes nothing.

### Fairness

* `SessionMonitor`: handlers and callbacks that have begun go on (threads run),
  and a pending job fires. A job can be put off by each event, but events are
  finitely many in the model, as they are per play in the program. New events
  and the activity check are not fair.
* `ServerConnection`: the scheduler and the threads run; a thread waiting for
  SCHED_LOCK gets it in the end (strong fairness of `ReadConnected`: Python's
  lock is not fair by contract, but its holders leave after a few statements
  and come back only after a connection attempt). The server owes nothing:
  `Reconnects` assumes that it eventually stays reachable.
* `NotificationQueue`: started workers run, and the websocket thread finishes
  its puts.

## 4. Proofs

Every theorem is about all values of the constants that satisfy the named
assumptions of its module; what a constant of the runs bounds (rows, events,
faults, intervals) is any natural number there, and a set (threads, keys, items,
files) any set unless an assumption says otherwise. The properties of section 3
are almost never inductive: they speak of what the tables hold, and the threads
on their way to changing them have read something that may no longer be so. Each
module therefore has an invariant (`IInv`, `RInv`, `Inv`, `AInv`) that says what
each thread may still rely on between two of its statements. TLC has checked each
of them on the run of its model before it was proved; `Invariance` says that it
holds, the other theorems follow from it.

### HistoryWriterProofs

* `TypeCorrect`: `Spec => []TypeOK`. The type invariant says also that no
  media-info or metadata row exists without its history row.
* `GroupingSound`: `Spec => []GroupedCorrectly`.

The only assumption is `ConstantsAssumption`. `GroupedCorrectly` says nothing of
what a thread has read and not yet written. The invariant `IInv` adds `HeadRule`
(`head` of a row is what the grouping rule says of the row of its view just before
it) and `WritersSound` (a thread about to UPDATE holds a row and either 0 or that
row's group). The heart is `LastTwo`: the newest two rows of a view are a row and
the one just before it, so the decision from them is the one `head` records,
whichever thread inserted them. There is one lemma per action.

The same module shows what the readers of the history may rely on:

* `UngroupedForCause`: `Spec => []UngroupedHasCause`.
* `Implementation`: `Spec => ImplementsPlayHistory`. The initial states map to
  the abstract one, and every statement to `Add`, `Group`, `Complete` or a stutter.

Both rest on `RInv`, relative to the invariant above: `OwnRows` (every row in
progress belongs to one thread), `Late` (a row inserted after that of a thread
which has not yet decided, in the same view, is overlapped with it) and `Due`
(an UPDATE that writes 0 has a reason that the row keeps). The reason is what makes
the abstract step legal: a play may become complete without a group, or lose it,
only when it was contended.

### SessionMonitorProofs

* `TypeCorrect`: `Spec => []TypeOK`; `NotLeftBehind`: `Spec => []CallbackCoverage`.
* `CountsAttempts`, `KeptUntilLastAttempt`: `AttemptsCounted` and
  `RowsLeaveAfterLastAttempt`, for `ServerFails = FALSE`, as in their run: a failed
  activity check deletes the whole table.

`CallbackCoverage` asks for some thread at work on a key. `Covered` says which:
one that is about to set the callback, or the callback itself as long as it has
read this row or none (`Watches`). A thread about to cancel the callback is not one
of them; that it does no harm is `ThreadSound` (the row it read is still the first
of its key, or gone), which holds because the table loses all rows of a key at once
(`TableStep`). The attempts need `KeySound`: between its reading and its increment
only the callback of the key changes `attempts` of the first row.

### ServerConnectionProofs

For every set of websocket threads:

* `TypeCorrect`: `Spec => []TypeOK`, with the fact that a thread sets the jobs
  exactly while it holds SCHED_LOCK.
* `NotStranded`: `Spec => []NeverStranded`; `JobMatches`: `Spec => []JobMatchesConnection`.
* `RemoteConnection`: `RemoteSpec => Spec`, so that all of this holds beside the
  remote access monitor; `RemoteTypeCorrect`: `RemoteSpec => []RemoteTypeOK`.

And for one thread, `ASSUME NEW t, Threads = {t}`:

* `OutagesAndRecoveries`: `Spec => []AnnouncementsBalance`.
* `RemoteOutagesAndRecoveries`: `RemoteSpec => []RemoteAnnouncementsBalance`.

Beside that the assumptions are `ConstantsAssumption` and `MaxReportsAssumption`.
The second and third property speak of moments of rest. The invariant says who will
put things right in between: while WS_CONNECTED is true some thread holds the
connection (`ConnectionHeld`); while it is false some thread has still to read it in
`initialize_scheduler`, or the job is there and no thread is about to apply an
older value (`JobWillBeSet`); and the same with the job's removal
(`JobWillBeRemoved`). The steps that change neither WS_CONNECTED nor the job have
one lemma (`PlainKeeps`), the others one each. The lock is what `ApplyKeeps` rests
on: with it no other thread holds an older value.

The announcements are an account (`Owed`, `RemoteOwed`): those made, and those a
scheduled or running callback will make. `Account` and `RemoteAccount` give its
value at each step of the thread. With one thread it is 0 or 1; with several it is
neither, as two of them may handle the same recovery. TLC finds
`AnnouncementsBalance` violated with three threads, so that the restriction is the
code's, not the proof's.

### ScheduledTasksProofs

* `TypeCorrect`, `JobsFollowConfig` (`JobsAsConfigured`), `RunsOnTime` (`Punctual`),
  for every set of requests and of intervals.

`JobsAsConfigured` speaks of quiet states. `JobsFollow` is what holds in between: a
job is as it should be or some caller is on its way to setting it. `LockHeld` keeps
two callers from setting jobs in turns, and `FoundHolds` says that the value of
WS_CONNECTED which a call has read is the current one, or that the websocket thread
is about to make another call.

### NotificationQueueProofs

* `TypeCorrect`, `RecordTrue` (`SuccessRecorded`), `ToldOnce` (`WatchedOnce`),
  `OrderKeptByOne` (`InOrderWithOneThread`).

The workers are finitely many (`ConstantsAssumption`; they are the threads that
`NOTIFICATION_THREADS` asks for). Each property is a count or an order of what
has left the queue, so the invariant follows a notification from place to place:
`RecordInv` gives the row a worker holds between the INSERT and the mark, `OnceInv`
says that an `on_watched` is in one place at a time - with the websocket thread, in
the queue, with a worker, or sent -, and `OrderInv` that what was sent, what the one
worker holds and what is queued are in order, in that order.

### RecentlyAddedProofs

* `TypeCorrect`, `NotForgotten` (`NothingForgotten`), `OnceAnnounced`
  (`AnnouncedOnce`), `QueueAgrees` (`QueueMatchesCallbacks`), for every library and
  any number of events.

`ConstantsAssumption` says only that a library has three levels. The properties speak
of items, jobs and the dictionary; what they rest on is hidden in sets that several
threads hold at once and in the loops of a running callback:

* `SetsSound`: a set is made for one key, its owner, and holds members of that key
  only, also after it has left the dictionary; so a thread that holds an outdated
  set never brings members of another key back. `CallbackSound` and
  `WebsocketSound` say which sets the loops and the hands of each thread hold.
* `Undisturbed`: while an event that is not `raced` is handled, the callback of its
  root does not run.
* `Debts`: for every item that is owed an announcement, the way to it: it is
  reachable from its root through the dictionary (`OwedReachable`), a callback that
  runs has it in a loop or is about to announce it (`OwedAhead`), and the root has
  a job, an event that will set one, or a callback whose loops no event has
  touched, so that it will not raise (`OwedPledged`). `NotForgotten` is the last
  of these.
* `AnnouncedRecorded`: what was announced is in the table `recently_added`, or a
  request failed before. `OnceAnnounced` follows, because only an item that is not
  in the table is announced by itself.
* `EachOnce`: the loops of a callback do not come to a key twice.
* `Tidy`, of a root that no event met while its callback ran: each of its queued keys
  hangs on another one, or `del_keys` has still to come to it; it has a job exactly
  when something is queued for it; and whatever its callback will announce announces
  something that still waits. The last part is what a failed request needs: without
  it the keys that the failure leaves behind would be excused by nothing.
  `QueueAgrees` follows at rest.

`Debts` and `Tidy` have one lemma for each action, and `ElsewhereTidy` for the steps of
other roots. TLC has checked the whole invariant on the run's instance.

### DatabaseImportProofs

* `TypeCorrect`, `FlagTrue` (`FlagHonest`), `LoggedStay` (`LoggedKept`),
  `ImportsArrive` (`ImportedArrive`), `OwnDetailsStay` (`OwnDetails`), `GroupsStay`
  (`GroupsKept`), for every pair of files and every set of import threads.

`ConstantsAssumption` says what the two files are: finite, with positive ids, a
`reference_id` that is 0 or at most the row's own id and that rows share exactly when
their plays share a group; and that the plays that finish meanwhile are in neither.
A merge reads the last id in its first statement and computes with it from then on, so
what it may rely on changes from statement to statement: `Merge` and `Overwrite` list
it by the number of the next one. `Base` and `NoneLost` hold whatever is lost, raised
or restarted; `Calm` is the part for imports that nothing disturbs: `Explained` (the
details of a row are its own, or who will write them) and `Grouped` (the
`reference_id`s that a merge inserts and that a writer sets are new, and the rows of the other
database come from one import).

### HistoryDeletionProofs

* `TypeCorrect`, `OrphansExplained` (`NoOrphans`), `ToldTheTruth` (`DeletedAsTold`),
  `NoneLeft` (`DeletedHaveNone`), for every set of requests, writers and users.

The properties speak of the tables at rest. `RequestSound` says of each request what is
left in the tables it is done with (`DoneSound`), that what it claims to have deleted
is gone or still before it (`ClaimSound`), and that no row of its user has
escaped its SELECT (`SelectSound`); `WriterSound`, that a writer is at a row that is
there or known to be torn.

### Only model-checked

* `ConditionLogic`: what its parser and its RECURSIVE operators compute for every
  text needs induction over data, which the provers here cannot do.
* Liveness - `PlaysEnd`, `Reconnects`, `EventsHandled` - is out of the prover's reach.
* `FailedWritesRetried`, which the code violates.

## 5. Not modelled, and why

Pages, API, queries for tables and graphs, the Jellyfin client, agents,
templates, updates, logging, certificates and tray icons are input, output or
data without interacting state; so is all of `src/lib` but the part of APScheduler
that sets and fires jobs. The components with state of their own that are still
missing - the refresh of libraries and users, login - are in the plan.

Three parts have state that the program cannot reach at this commit. A newsletter
can be neither added nor changed: `newsletters.Newsletter` reads `CONFIG.PMS_NAME`,
which no setting defines, whenever it is built, and raises. The exporter
reads `CONFIG.PMS_URL`, likewise, and calls methods that the
Jellyfin client does not have: an export raises before it adds its row to
`exports`. And `lock.TimedLock` limits no request: `request.py` takes a lock
from its callers, and none passes one.

## 6. Plan

1. `SessionMonitor` composed with `HistoryWriter`: duplicate history rows.
2. The refresh of `users` and `library_sections`, and the lock-out of `webauth`.
