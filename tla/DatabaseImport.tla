---------------------------- MODULE DatabaseImport ----------------------------
(***************************************************************************)
(* import_tautulli_db: a thread started by the web interface reads another *)
(* history database into this one, by method merge or overwrite, while     *)
(* write_session_history may be logging a play.                            *)
(*                                                                         *)
(* MonitorDatabase.action commits each statement on its own, so a running  *)
(* import is a program of statements, and the process may end, or a        *)
(* statement raise, between any two of them.  A statement that meets a     *)
(* locked database five times is given up without an exception.            *)
(*                                                                         *)
(* A play stands for the columns of its row other than id and              *)
(* reference_id; session_history_media_info and _metadata are one table,   *)
(* details.  Plays here are of distinct views, so the grouping query of    *)
(* the writer finds at most its own row (see HistoryWriter for the rest).  *)
(***************************************************************************)
EXTENDS Naturals, Sequences, FiniteSets

CONSTANTS
  Importers,   \* threads of the web interface
  Logged,      \* session_history before: id -> [play, reference_id]
  Import,      \* session_history of the other database
  Live,        \* plays that may finish meanwhile
  GroupOf,     \* the group every play belongs to
  MaxImports,  \* bound: imports that are begun
  MaxFaults    \* bound: statements lost, statements that raise, crashes

\* What the files and the plays are: a row's group is its own id or an older
\* one, rows of one file share a reference_id when their plays share a group, a
\* play that has not finished is in neither file, and continues none.
ASSUME ConstantsAssumption ==
  /\ \A table \in {Logged, Import} :
       /\ IsFiniteSet(DOMAIN table) /\ DOMAIN table \subseteq Nat \ {0}
       /\ \A id \in DOMAIN table :
            /\ table[id] \in [play : {table[n].play : n \in DOMAIN table},
                             reference_id : 0 .. id]
            /\ table[id].play \notin Live
            /\ \A play \in Live : GroupOf[play] # GroupOf[table[id].play]
       /\ \A a, b \in DOMAIN table :
            LET together == GroupOf[table[a].play] = GroupOf[table[b].play]
            IN  /\ together => table[a].reference_id = table[b].reference_id
                /\ table[a].reference_id = table[b].reference_id =>
                     together \/ table[a].reference_id = 0
  /\ \A p, q \in Live : GroupOf[p] = GroupOf[q] => p = q
  /\ MaxImports \in Nat /\ MaxFaults \in Nat

VARIABLES
  IS_IMPORTING,
  history,     \* session_history: id -> [play, reference_id], 0 for NULL
  details,     \* session_history_media_info and _metadata: id -> play
  seq,         \* session_history's row of sqlite_sequence, 0 when absent
  copies,      \* the temporary tables: name -> contents, for those that exist
  importer,    \* local state of each import thread
  writer,      \* the thread inside write_session_history
  begun,       \* bound: imports begun
  faults,      \* bound: faults so far
  running,     \* the plays of Live that have not finished
  logged,      \* auxiliary: plays whose writer came to its end
  beside,      \* auxiliary: ids of rows whose writing met an import
  disturbed,   \* auxiliary: an import lost a statement, ended midway, or met another
  cleared,     \* auxiliary: an overwrite has been under way
  imported     \* auxiliary: what undisturbed imports that ended added to the ids

tables == <<history, details, seq, copies>>
bounds == <<begun, faults>>
aux == <<running, logged, beside, disturbed, cleared, imported>>
vars == <<IS_IMPORTING, tables, importer, writer, bounds, aux>>
-----------------------------------------------------------------------------
\* Mutated form of Program: overwrite leaves the details that are there.
ProgramKeepingDetails == [
  merge |-> << "seq", "create_history", "shift_ids", "shift_references",
               "create_details", "shift_details", "insert_history", "insert_details",
               "dedupe_history", "dedupe_details", "drop_history", "drop_details" >>,
  overwrite |-> << "seq", "clear_history", "reset_seq", "insert_history", "insert_details" >>]

\* The statements of each method, in order.
Program == [
  merge |-> << "seq", "create_history", "shift_ids", "shift_references",
               "create_details", "shift_details", "insert_history", "insert_details",
               "dedupe_history", "dedupe_details", "drop_history", "drop_details" >>,
  overwrite |-> << "seq", "clear_history", "reset_seq", "insert_history",
                   "clear_details", "insert_details" >>]

Methods == DOMAIN Program

NotImporting == [pc |-> "idle", method |-> "merge", at |-> 1, seq |-> 0]

NotWriting == [pc |-> "idle", play |-> "none", id |-> 0]

UnderWay(i) == importer[i].pc = "run"

At(i, statement) ==
  /\ UnderWay(i)
  /\ importer[i].at <= Len(Program[importer[i].method])
  /\ Program[importer[i].method][importer[i].at] = statement

Step(i) == importer' = [importer EXCEPT ![i].at = @ + 1]

Restricted(f, ids) == [id \in DOMAIN f \cap ids |-> f[id]]

Extended(f, g) == [id \in DOMAIN f \cup DOMAIN g |-> IF id \in DOMAIN f THEN f[id] ELSE g[id]]

Highest(ids) == CHOOSE n \in ids \cup {0} : \A id \in ids : id <= n

PlaysOf(f) == [id \in DOMAIN f |-> f[id].play]

Temporary(name, table) == Extended([n \in {name} |-> table], copies)

Init ==
  /\ IS_IMPORTING = FALSE
  /\ history = Logged
  /\ details = PlaysOf(Logged)
  /\ seq = Highest(DOMAIN Logged)
  /\ copies = << >>
  /\ importer = [i \in Importers |-> NotImporting]
  /\ writer = NotWriting
  /\ begun = 0 /\ faults = 0
  /\ running = Live
  /\ logged = {Logged[id].play : id \in DOMAIN Logged}
  /\ beside = {} /\ disturbed = FALSE /\ cleared = FALSE /\ imported = {}
-----------------------------------------------------------------------------
(* The import up to its first statement. *)

\* A call made while an import is announced returns False.
Begin(i, method) ==
  /\ importer[i].pc = "idle"
  /\ ~IS_IMPORTING
  /\ begun < MaxImports /\ begun' = begun + 1
  /\ importer' = [importer EXCEPT ![i] = [NotImporting EXCEPT !.pc = "validate",
                                                              !.method = method]]
  /\ UNCHANGED <<IS_IMPORTING, tables, writer, faults, aux>>

\* Mutated form of Refuse: the flag is reset.
RefuseResets(i) ==
  /\ importer[i].pc = "validate"
  /\ IS_IMPORTING' = FALSE
  /\ importer' = [importer EXCEPT ![i] = NotImporting]
  /\ UNCHANGED <<tables, writer, bounds, aux>>

\* The file is not a history database, or its backup failed.
Refuse(i) ==
  /\ importer[i].pc = "validate"
  /\ importer' = [importer EXCEPT ![i] = NotImporting]
  /\ UNCHANGED <<IS_IMPORTING, tables, writer, bounds, aux>>

\* Validated and, when asked for, backed up: set_is_importing(True).
Announce(i) ==
  /\ importer[i].pc = "validate"
  /\ IS_IMPORTING' = TRUE
  /\ importer' = [importer EXCEPT ![i].pc = "run"]
  /\ beside' = beside \cup ({writer.id} \ {0})
  /\ disturbed' = (disturbed \/ \E j \in Importers \ {i} : UnderWay(j))
  /\ cleared' = (cleared \/ importer[i].method = "overwrite")
  /\ UNCHANGED <<tables, writer, bounds, running, logged, imported>>
-----------------------------------------------------------------------------
(* The statements of an import. *)

\* The temporary table a statement of a merge is about.
CopyOf(statement) ==
  IF statement \in {"create_history", "shift_ids", "shift_references", "insert_history",
                    "drop_history"} THEN {"history"}
  ELSE IF statement \in {"create_details", "shift_details", "insert_details", "drop_details"}
  THEN {"details"} ELSE {}

\* CREATE TABLE raises when the table is there, the others when it is missing.
Failing(i) ==
  /\ importer[i].method = "merge"
  /\ \E k \in {k \in DOMAIN Program.merge : At(i, Program.merge[k])} :
       \E name \in CopyOf(Program.merge[k]) :
         (Program.merge[k] \in {"create_history", "create_details"}) = (name \in DOMAIN copies)

ReadSeq(i) ==
  /\ At(i, "seq")
  /\ importer' = [importer EXCEPT ![i].at = @ + 1, ![i].seq = seq]
  /\ UNCHANGED <<tables, aux>>

Create(i) ==
  /\ ~Failing(i)
  /\ \/ At(i, "create_history") /\ copies' = Temporary("history", Import)
     \/ At(i, "create_details") /\ copies' = Temporary("details", PlaysOf(Import))
  /\ Step(i)
  /\ UNCHANGED <<history, details, seq, aux>>

\* Mutated form of Shifted: in the wrong direction.
ShiftedDown(f, n) == [id \in {old - n : old \in DOMAIN f} |-> f[id + n]]

Shifted(f, n) == [id \in {old + n : old \in DOMAIN f} |-> f[id - n]]

\* Mutated form of ShiftedReferences: left as they were.
SameReferences(f, n) == f

ShiftedReferences(f, n) ==
  [id \in DOMAIN f |-> IF f[id].reference_id = 0 THEN f[id]
                       ELSE [f[id] EXCEPT !.reference_id = @ + n]]

\* The ids of the copies continue those in use, as do the references.
Shift(i) ==
  LET n == importer[i].seq
  IN  /\ ~Failing(i)
      /\ \/ At(i, "shift_ids") /\ copies' = Temporary("history", Shifted(copies.history, n))
         \/ At(i, "shift_references")
              /\ copies' = Temporary("history", ShiftedReferences(copies.history, n))
         \/ At(i, "shift_details") /\ copies' = Temporary("details", Shifted(copies.details, n))
      /\ Step(i)
      /\ UNCHANGED <<history, details, seq, aux>>

\* DELETE FROM the table, and for session_history from sqlite_sequence.
Clear(i) ==
  /\ \/ At(i, "clear_history") /\ history' = << >> /\ UNCHANGED <<details, seq>>
     \/ At(i, "reset_seq") /\ seq' = 0 /\ UNCHANGED <<history, details>>
     \/ At(i, "clear_details") /\ details' = << >> /\ UNCHANGED <<history, seq>>
  /\ Step(i)
  /\ UNCHANGED <<copies, aux>>

\* Where the rows to insert come from.
Source(i, name) ==
  IF importer[i].method = "merge" THEN copies[name]
  ELSE IF name = "history" THEN Import ELSE PlaysOf(Import)

\* Mutated form of InsertOrIgnore: INSERT OR REPLACE.
InsertOrReplace(table, rows) == Extended(rows, table)

\* A row whose id is taken is left out.
InsertOrIgnore(table, rows) == Extended(table, rows)

InsertRows(i) ==
  /\ ~Failing(i)
  /\ \/ /\ At(i, "insert_history")
        /\ history' = InsertOrIgnore(history, Source(i, "history"))
        /\ seq' = Highest({seq} \cup DOMAIN history')
        /\ UNCHANGED details
     \/ /\ At(i, "insert_details")
        /\ details' = InsertOrIgnore(details, Source(i, "details"))
        /\ UNCHANGED <<history, seq>>
  /\ Step(i)
  /\ UNCHANGED <<copies, aux>>

\* Mutated form of Oldest: the oldest row of every group.
OldestOfGroup ==
  {id \in DOMAIN history : \A other \in DOMAIN history :
     history[other].reference_id = history[id].reference_id => id <= other}

\* The rows a merge keeps: the oldest of every play, then the details that have a row.
Oldest == {id \in DOMAIN history :
             \A other \in DOMAIN history : history[other].play = history[id].play => id <= other}

Dedupe(i) ==
  /\ \/ At(i, "dedupe_history") /\ history' = Restricted(history, Oldest) /\ UNCHANGED details
     \/ At(i, "dedupe_details") /\ details' = Restricted(details, DOMAIN history)
          /\ UNCHANGED history
  /\ Step(i)
  /\ UNCHANGED <<seq, copies, aux>>

Drop(i) ==
  /\ \E name \in DOMAIN copies :
       /\ At(i, IF name = "history" THEN "drop_history" ELSE "drop_details")
       /\ copies' = Restricted(copies, DOMAIN copies \ {name})
  /\ Step(i)
  /\ UNCHANGED <<history, details, seq, aux>>

Statement(i) ==
  /\ \/ ReadSeq(i) \/ Create(i) \/ Shift(i) \/ Clear(i)
     \/ InsertRows(i) \/ Dedupe(i) \/ Drop(i)
  /\ UNCHANGED <<IS_IMPORTING, writer, bounds>>

\* VACUUM, then set_is_importing(False).
Finish(i) ==
  /\ UnderWay(i)
  /\ importer[i].at > Len(Program[importer[i].method])
  /\ IS_IMPORTING' = FALSE
  /\ importer' = [importer EXCEPT ![i] = NotImporting]
  /\ imported' = IF disturbed THEN imported
                 ELSE imported \cup {IF importer[i].method = "merge"
                                    THEN importer[i].seq ELSE 0}
  /\ UNCHANGED <<tables, writer, bounds, running, logged, beside, disturbed, cleared>>
-----------------------------------------------------------------------------
(* write_session_history, for a play that finishes meanwhile. *)

LogRow(play) ==
  LET id == Highest({seq} \cup DOMAIN history) + 1
  IN  /\ writer.pc = "idle"
      /\ play \in running /\ running' = running \ {play}
      /\ history' = Extended(history, [n \in {id} |-> [play |-> play, reference_id |-> 0]])
      /\ seq' = id
      /\ writer' = [pc |-> "link", play |-> play, id |-> id]
      /\ beside' = IF \E i \in Importers : UnderWay(i) THEN beside \cup {id} ELSE beside
      /\ UNCHANGED <<details, logged>>

\* The grouping query finds the new row or none: UPDATE ... WHERE id = last_id.
Link ==
  /\ writer.pc = "link"
  /\ history' = [id \in DOMAIN history |->
                   IF id = writer.id THEN [history[id] EXCEPT !.reference_id = id]
                                     ELSE history[id]]
  /\ writer' = [writer EXCEPT !.pc = "update"]
  /\ UNCHANGED <<details, seq, running, logged, beside>>

WriterEnds == writer' = NotWriting /\ logged' = logged \cup {writer.play}

\* upsert: an UPDATE, and an INSERT when it changed nothing.
UpdateDetails ==
  /\ writer.pc = "update"
  /\ IF writer.id \in DOMAIN details
       THEN details' = [details EXCEPT ![writer.id] = writer.play] /\ WriterEnds
       ELSE writer' = [writer EXCEPT !.pc = "insert"] /\ UNCHANGED <<details, logged>>
  /\ UNCHANGED <<history, seq, running, beside>>

\* An IntegrityError, when the id is taken by now, is only logged.
InsertDetails ==
  /\ writer.pc = "insert"
  /\ details' = Extended(details, [n \in {writer.id} |-> writer.play])
  /\ WriterEnds
  /\ UNCHANGED <<history, seq, running, beside>>

Write ==
  /\ (\E play \in Live : LogRow(play)) \/ Link \/ UpdateDetails \/ InsertDetails
  /\ UNCHANGED <<IS_IMPORTING, copies, importer, bounds, disturbed, cleared, imported>>
-----------------------------------------------------------------------------
(* Faults. *)

Fault == faults < MaxFaults /\ faults' = faults + 1

Midway(i) == UnderWay(i) /\ importer[i].at <= Len(Program[importer[i].method])

\* A statement other than a SELECT is given up and the next one follows.
Lose(i) ==
  /\ Midway(i) /\ ~At(i, "seq")
  /\ Fault /\ Step(i) /\ disturbed' = TRUE
  /\ UNCHANGED <<IS_IMPORTING, tables, writer, begun, running, logged, beside, cleared, imported>>

\* The thread ends where a statement raises: nothing resets the flag.
Raise(i) ==
  /\ Midway(i) /\ disturbed' = TRUE
  /\ IF Failing(i) THEN UNCHANGED faults ELSE Fault
  /\ importer' = [importer EXCEPT ![i] = NotImporting]
  /\ UNCHANGED <<IS_IMPORTING, tables, writer, begun, running, logged, beside, cleared, imported>>

\* The process ends and starts again: the flag is of its memory, the tables are not.
Restart ==
  /\ Fault
  /\ disturbed' = (disturbed \/ \E i \in Importers : UnderWay(i))
  /\ IS_IMPORTING' = FALSE
  /\ importer' = [i \in Importers |-> NotImporting]
  /\ writer' = NotWriting
  /\ UNCHANGED <<tables, begun, running, logged, beside, cleared, imported>>

Next ==
  \/ \E i \in Importers :
       \/ \E method \in Methods : Begin(i, method)
       \/ Refuse(i) \/ Announce(i) \/ Statement(i) \/ Finish(i) \/ Lose(i) \/ Raise(i)
  \/ Write
  \/ Restart

Spec == Init /\ [][Next]_vars
-----------------------------------------------------------------------------
Plays == {Logged[id].play : id \in DOMAIN Logged} \cup {Import[id].play : id \in DOMAIN Import}
           \cup Live

Ids == Nat \ {0}

TypeOK ==
  /\ {IS_IMPORTING, disturbed, cleared} \subseteq BOOLEAN
  /\ DOMAIN history \subseteq Ids /\ DOMAIN details \subseteq Ids /\ seq \in Nat
  /\ \A id \in DOMAIN history : history[id] \in [play : Plays, reference_id : Nat]
  /\ \A id \in DOMAIN details : details[id] \in Plays
  /\ DOMAIN copies \subseteq {"history", "details"}
  /\ importer \in [Importers -> [pc : {"idle", "validate", "run"}, method : Methods,
                                at : 1 .. Len(Program.merge) + 1, seq : Nat]]
  /\ writer \in [pc : {"idle", "link", "update", "insert"}, play : Live \cup {"none"}, id : Nat]
  /\ running \subseteq Live /\ logged \subseteq Plays
  /\ beside \subseteq Ids /\ imported \subseteq Nat

\* While nothing goes wrong the flag tells whether an import is changing the
\* tables, and the temporary tables exist only then.
FlagHonest ==
  ~disturbed =>
    /\ IS_IMPORTING <=> \E i \in Importers : UnderWay(i)
    /\ copies # << >> => IS_IMPORTING

HasOwnDetails(id) == id \in DOMAIN details /\ details[id] = history[id].play

\* A play in the history, with its own details unless an import that went wrong,
\* or one that its writer met, took them.
Kept(play) ==
  \E id \in DOMAIN history :
    /\ history[id].play = play
    /\ HasOwnDetails(id) \/ id \in beside \/ disturbed

\* A merge loses no play that was logged here, whatever goes wrong with it and
\* even when the import brings the play a second time.
LoggedKept == ~cleared => \A play \in logged : Kept(play)

\* No import is disturbed and no overwrite is halfway.
Settled ==
  /\ ~disturbed
  /\ \A i \in Importers : importer[i].method = "merge" \/ ~UnderWay(i)

\* Once an import has ended every play of the other database is here, but for
\* those whose id a play logged meanwhile had taken.
ImportedArrive ==
  Settled =>
    \A s \in imported, n \in DOMAIN Import :
      Kept(Import[n].play) \/ \E t \in imported : t + n \in beside

\* Ids that merge and overwrite give to rows never bring a row together with the
\* details of another play, except for a row whose writer met the import.
OwnDetails ==
  Settled =>
    \A id \in DOMAIN history \ beside : id \in DOMAIN details => HasOwnDetails(id)

\* An import joins no groups, neither of its own plays nor of those logged here,
\* and keeps the plays of the other database that shared a group together.
GroupsKept ==
  Settled =>
    \A a, b \in DOMAIN history :
      LET p == history[a] q == history[b]
          together == GroupOf[p.play] = GroupOf[q.play]
      IN  /\ p.reference_id = q.reference_id =>
               together \/ p.reference_id \in beside \cup {0}
          /\ p.reference_id # q.reference_id =>
               \/ ~together \/ beside # {} \/ IS_IMPORTING
               \/ {p.play, q.play} \cap logged # {}
=============================================================================
