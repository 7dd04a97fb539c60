------------------------- MODULE DatabaseImportProofs -------------------------
(***************************************************************************)
(* Proofs about import_tautulli_db, for any two files, any number of       *)
(* import threads and any plays that finish meanwhile.                     *)
(*                                                                         *)
(* None of the properties is inductive.  A merge gives the copied rows the *)
(* ids after the last one in use, which it reads in its first statement,   *)
(* so what it may rely on changes from statement to statement: Merge and   *)
(* Overwrite say it by the number of the next one.  Base is the part that  *)
(* holds whatever is lost, raised or restarted; Calm the part that holds   *)
(* while no import is disturbed.  Between its first statement and its last *)
(* the writer's own row has no details: OfWriter ties the row to the       *)
(* writer, and Explained says of every row whose details they are or who   *)
(* will still write them.  Grouped follows the reference_ids: those that a *)
(* merge is going to insert, and the one that a writer is going to set,    *)
(* are new, and the rows of the other database come from one import.       *)
(***************************************************************************)
EXTENDS DatabaseImport, FiniteSetTheorems, WellFoundedInduction, TLAPS

ImportPlays == {Import[n].play : n \in DOMAIN Import}

Merging(i) == UnderWay(i) /\ importer[i].method = "merge"
Overwriting(i) == UnderWay(i) /\ importer[i].method = "overwrite"

\* An overwrite has cleared the history and not ended.
Emptied == \E i \in Importers : Overwriting(i) /\ importer[i].at >= 3

Present(play) == \E id \in DOMAIN history : history[id].play = play

\* What holds whatever goes wrong.

ImporterStates ==
  [pc : {"idle", "validate", "run"}, method : {"merge", "overwrite"}, at : 1 .. 13, seq : Nat]

ImportType ==
  /\ importer \in [Importers -> ImporterStates]
  /\ \A i \in Importers : importer[i].at <= Len(Program[importer[i].method]) + 1

IsTable(f) == f = [id \in DOMAIN f |-> f[id]]

HistoryType ==
  /\ DOMAIN history \subseteq Ids /\ IsFiniteSet(DOMAIN history)
  /\ \A id \in DOMAIN history : history[id] \in [play : Plays, reference_id : Nat]

DetailsType ==
  /\ DOMAIN details \subseteq Ids
  /\ \A id \in DOMAIN details : details[id] \in Plays

\* The rows of the other database, whatever their ids.
ForeignHistory(table) ==
  /\ IsFiniteSet(DOMAIN table) /\ DOMAIN table \subseteq Ids
  /\ \A id \in DOMAIN table : table[id] \in [play : ImportPlays, reference_id : Nat]

ForeignDetails(table) ==
  /\ DOMAIN table \subseteq Ids
  /\ \A id \in DOMAIN table : table[id] \in ImportPlays

CopiesType ==
  /\ DOMAIN copies \subseteq {"history", "details"}
  /\ IsTable(copies)
  /\ "history" \in DOMAIN copies => ForeignHistory(copies["history"])
  /\ "details" \in DOMAIN copies => ForeignDetails(copies["details"])

WriterType ==
  /\ writer \in [pc : {"idle", "link", "update", "insert"}, play : Live \cup {"none"}, id : Nat]
  /\ running \subseteq Live /\ logged \subseteq Plays
  /\ beside \subseteq Ids /\ imported \subseteq Nat

\* A play of Live is logged once.
WriterSound ==
  /\ writer.pc = "idle" => writer = NotWriting
  /\ writer.pc # "idle" => writer.id \in Ids /\ writer.play \in Live \ (running \cup logged)
  /\ running \cap logged = {}
  /\ \A id \in DOMAIN history : history[id].play \notin running
  /\ \A a, b \in DOMAIN history :
       history[a].play = history[b].play /\ history[a].play \in Live => a = b
  /\ {Logged[id].play : id \in DOMAIN Logged} \subseteq logged

Base ==
  /\ {IS_IMPORTING, disturbed, cleared} \subseteq BOOLEAN /\ seq \in Nat
  /\ ImportType /\ HistoryType /\ DetailsType /\ CopiesType /\ WriterType /\ WriterSound

NoneLost ==
  ~cleared =>
    /\ \A play \in logged : Present(play)
    /\ writer.pc # "idle" => Present(writer.play)
    /\ \A i \in Importers : UnderWay(i) => importer[i].method = "merge"

\* While nothing goes wrong.

Alone ==
  /\ \A i, j \in Importers : UnderWay(i) /\ UnderWay(j) => i = j
  /\ IS_IMPORTING <=> \E i \in Importers : UnderWay(i)
  /\ "history" \in DOMAIN copies => \E i \in Importers : Merging(i) /\ importer[i].at \in 3 .. 11
  /\ "details" \in DOMAIN copies => \E i \in Importers : Merging(i) /\ importer[i].at \in 6 .. 12

OfWriter ==
  writer.pc # "idle" =>
    \/ writer.id \in beside
    \/ /\ ~\E i \in Importers : UnderWay(i)
       /\ writer.id \in DOMAIN history /\ history[writer.id].play = writer.play

\* The row of a play whose writer is on its way or came to no end.
Unfinished(id) ==
  /\ history[id].play \in Live \ logged
  /\ writer.pc # "idle" /\ history[id].play = writer.play => id = writer.id

Fresh(i, id) == Merging(i) /\ importer[i].at = 8 /\ id > importer[i].seq

\* The details of a row are those of its play, or will come.
Explained(id) ==
  /\ id \in DOMAIN details => details[id] = history[id].play
  /\ \/ id \in DOMAIN details
     \/ Unfinished(id)
     \/ \E i \in Importers : Fresh(i, id) /\ history[id].play \in ImportPlays

Rows ==
  ~Emptied =>
    /\ \A id \in DOMAIN history : id <= seq
    /\ \A id \in DOMAIN details : id \notin beside => id <= seq
    /\ \A id \in DOMAIN history : id \notin beside => Explained(id)

Arrived ==
  ~Emptied => \A s \in imported, n \in DOMAIN Import :
                Kept(Import[n].play) \/ \E t \in imported : t + n \in beside

\* What a merge may rely on, by the number of its next statement.
Merge(i) ==
  LET s == importer[i].seq
      at == importer[i].at
  IN  /\ at >= 2 => s <= seq
      /\ at \in 3 .. 11 => "history" \in DOMAIN copies
      /\ at = 3 => copies["history"] = Import
      /\ at = 4 => copies["history"] = Shifted(Import, s)
      /\ at \in 5 .. 11 => copies["history"] = ShiftedReferences(Shifted(Import, s), s)
      /\ at \in 6 .. 12 => "details" \in DOMAIN copies
      /\ at = 6 => copies["details"] = PlaysOf(Import)
      /\ at \in 7 .. 12 => copies["details"] = Shifted(PlaysOf(Import), s)
      /\ at \in 2 .. 7 => \A id \in DOMAIN history : id \notin beside => id <= s
      /\ at \in 2 .. 8 => \A id \in DOMAIN details : id \notin beside => id <= s
      /\ at = 8 => \A id \in DOMAIN history : id \notin beside =>
           id <= s \/ \E n \in DOMAIN Import : id = n + s /\ history[id].play = Import[n].play
      /\ at = 8 => \A n \in DOMAIN Import : n + s \notin beside =>
           n + s \in DOMAIN history /\ history[n + s].play = Import[n].play
      /\ at >= 9 => \A n \in DOMAIN Import : n + s \notin beside => Kept(Import[n].play)

\* A row of the other database under its own id, or one that a writer added meanwhile.
FromImport(id) ==
  \/ id \in DOMAIN Import /\ history[id] = Import[id]
  \/ id \in beside /\ history[id].reference_id \in beside \cup {0}

Overwrite(i) ==
  LET at == importer[i].at
  IN  /\ at \in {3, 4} => \A id \in DOMAIN history :
           id \in beside /\ history[id].reference_id \in beside \cup {0}
      /\ at \in 5 .. 7 =>
           /\ \A id \in DOMAIN history : FromImport(id) /\ id <= seq
           /\ \A n \in DOMAIN Import : n <= seq
           /\ \A n \in DOMAIN Import : n \notin beside =>
                n \in DOMAIN history /\ history[n] = Import[n]
      /\ at = 6 => DOMAIN details \subseteq beside
      /\ at = 7 =>
           /\ DOMAIN Import \subseteq DOMAIN details
           /\ \A id \in DOMAIN details : id \notin beside =>
                id \in DOMAIN Import /\ details[id] = Import[id].play

Running ==
  \A i \in Importers : (Merging(i) => Merge(i)) /\ (Overwriting(i) => Overwrite(i))

\* Groups.  Two rows share a reference_id when their plays share a group.
Joined ==
  ~Emptied =>
    /\ \A id \in DOMAIN history :
         history[id].reference_id <= seq \/ history[id].reference_id \in beside
    /\ \A a, b \in DOMAIN history :
         history[a].reference_id = history[b].reference_id =>
           \/ GroupOf[history[a].play] = GroupOf[history[b].play]
           \/ history[a].reference_id \in beside \cup {0}

\* The groups that a merge is going to insert are new.
Referring ==
  \A i \in Importers : Merging(i) /\ importer[i].at \in 2 .. 7 =>
    \A id \in DOMAIN history :
      history[id].reference_id <= importer[i].seq \/ history[id].reference_id \in beside

\* So is the one that a writer is going to give its row.
Unlinked ==
  writer.pc = "link" /\ writer.id \notin beside =>
    \A id \in DOMAIN history : history[id].reference_id # writer.id

Foreign(id) == id \in DOMAIN history /\ history[id].play \in ImportPlays \ logged

\* reference_id of the rows that the row n of the other database becomes.
Ref(s, n) == IF Import[n].reference_id = 0 THEN 0 ELSE Import[n].reference_id + s

Batch(s, id) ==
  \E n \in DOMAIN Import : history[id].play = Import[n].play /\ history[id].reference_id = Ref(s, n)

\* Between the insertion and the removal of duplicates.
Doubled(i) == Merging(i) /\ importer[i].at \in {8, 9}

\* Rows of the other database come from one import, but for those that a merge has
\* inserted and not yet compared with the older ones.
OneBatch ==
  \E s \in Nat : \A id \in DOMAIN history : Foreign(id) =>
    Batch(s, id) \/ \E i \in Importers : Doubled(i) /\ id > importer[i].seq

FirstBatch ==
  imported = {} =>
    \A id \in DOMAIN history : Foreign(id) =>
      \E i \in Importers : /\ Merging(i) /\ importer[i].at >= 8
                           /\ id > importer[i].seq /\ Batch(importer[i].seq, id)

NewBatch ==
  \A i \in Importers : Doubled(i) =>
    /\ \A id \in DOMAIN history : id > importer[i].seq => Batch(importer[i].seq, id)
    /\ imported # {} => \A n \in DOMAIN Import :
         \E id \in DOMAIN history : id <= importer[i].seq /\ history[id].play = Import[n].play

Batches == ~Emptied /\ beside = {} => OneBatch /\ FirstBatch /\ NewBatch

Grouped == Joined /\ Referring /\ Unlinked /\ Batches

\* An import that is not under way has run no statement.
Starting == \A i \in Importers : ~UnderWay(i) => importer[i].at = 1

Calm ==
  ~disturbed => Alone /\ OfWriter /\ Rows /\ Running /\ Arrived /\ Grouped

IInv == Base /\ Starting /\ NoneLost /\ Calm /\ LoggedKept
-----------------------------------------------------------------------------
(* Sets of ids. *)

LEMMA FiniteMax ==
  ASSUME NEW S, S \subseteq Nat, IsFiniteSet(S), S # {}
  PROVE  \E m \in S : \A x \in S : x <= m
<1>1. PICK R : R = StrictSubsetOrdering(S)
  OBVIOUS
<1>2. IsWellFoundedOn(R, FiniteSubsetsOf(S))
  BY <1>1, FS_StrictSubsetOrderingWellFounded
<1>3. PICK U : U = {{x \in S : x > m} : m \in S}
  OBVIOUS
<1>4. U # {}
  BY <1>3
<1>5. U \subseteq FiniteSubsetsOf(S)
  <2>1. \A T \in SUBSET S : IsFiniteSet(T)
    BY FS_Subset
  <2>2. U \subseteq SUBSET S
    BY <1>3
  <2>3. QED
    BY <2>1, <2>2 DEF FiniteSubsetsOf
<1>6. PICK V \in U : \A W \in U : <<W, V>> \notin R
  BY <1>2, <1>4, <1>5, WFMin
<1>7. PICK m \in S : V = {x \in S : x > m}
  BY <1>3, <1>6
<1>8. ASSUME NEW n \in S, n > m PROVE FALSE
  <2>1. PICK W : W = {x \in S : x > n}
    OBVIOUS
  <2>2. W \in U
    BY <1>3, <2>1
  <2>3. W \subseteq V
    <3>1. \A x, y, z \in Nat : x > y /\ y > z => x > z
      OBVIOUS
    <3>2. QED
      BY <1>7, <1>8, <2>1, <3>1
  <2>4. n \in V /\ n \notin W
    BY <1>7, <1>8, <2>1
  <2>5. <<W, V>> \in R
    BY <1>1, <1>7, <2>1, <2>3, <2>4 DEF StrictSubsetOrdering
  <2>6. QED
    BY <1>6, <2>2, <2>5
<1>9. QED
  BY <1>8

\* The next AUTOINCREMENT id and sqlite_sequence rest on it.
LEMMA HighestIs ==
  ASSUME NEW S, S \subseteq Nat, IsFiniteSet(S)
  PROVE  /\ Highest(S) \in S \cup {0} /\ Highest(S) \in Nat
         /\ \A id \in S : id <= Highest(S)
<1>1. \E n \in S \cup {0} : \A id \in S : id <= n
  BY FiniteMax
<1>2. /\ Highest(S) \in S \cup {0}
      /\ \A id \in S : id <= Highest(S)
  BY <1>1 DEF Highest
<1>3. S \cup {0} \subseteq Nat
  OBVIOUS
<1>4. QED
  BY <1>2, <1>3

LEMMA FiniteShift ==
  ASSUME NEW S, S \subseteq Nat, IsFiniteSet(S), NEW n \in Nat
  PROVE  IsFiniteSet({old + n : old \in S})
<1>1. PICK b \in Nat : \A id \in S : id <= b
  BY HighestIs
<1>2. PICK T : T = {old + n : old \in S}
  OBVIOUS
<1>3. T \in SUBSET Nat /\ b + n \in Nat
  BY <1>2
<1>4. \A id \in T : id <= b + n
  BY <1>1, <1>2
<1>5. IsFiniteSet(T)
  BY <1>3, <1>4, FS_BoundedSetOfNaturals
<1>6. QED
  BY <1>2, <1>5
-----------------------------------------------------------------------------
(* The statements by their numbers. *)

LEMMA Lengths ==
  /\ Methods = {"merge", "overwrite"} /\ DOMAIN Program = {"merge", "overwrite"}
  /\ Len(Program["merge"]) = 12 /\ Len(Program["overwrite"]) = 6
  BY DEF Program, Methods

LEMMA MergeProgram ==
  /\ Program["merge"][1] = "seq" /\ Program["merge"][2] = "create_history"
  /\ Program["merge"][3] = "shift_ids" /\ Program["merge"][4] = "shift_references"
  /\ Program["merge"][5] = "create_details" /\ Program["merge"][6] = "shift_details"
  /\ Program["merge"][7] = "insert_history" /\ Program["merge"][8] = "insert_details"
  /\ Program["merge"][9] = "dedupe_history" /\ Program["merge"][10] = "dedupe_details"
  /\ Program["merge"][11] = "drop_history" /\ Program["merge"][12] = "drop_details"
  BY DEF Program

LEMMA OverwriteProgram ==
  /\ Program["overwrite"][1] = "seq" /\ Program["overwrite"][2] = "clear_history"
  /\ Program["overwrite"][3] = "reset_seq" /\ Program["overwrite"][4] = "insert_history"
  /\ Program["overwrite"][5] = "clear_details" /\ Program["overwrite"][6] = "insert_details"
  BY DEF Program

\* Which statement an import stands at.
LEMMA AtNumber ==
  ASSUME TypeOK, NEW i \in Importers, NEW name, At(i, name)
  PROVE  /\ UnderWay(i) /\ importer[i].at \in 1 .. 12
         /\ importer[i].at <= Len(Program[importer[i].method])
         /\ importer[i].method = "merge" =>
              LET at == importer[i].at
              IN  /\ (name = "seq" <=> at = 1)             /\ (name = "create_history" <=> at = 2)
                  /\ (name = "shift_ids" <=> at = 3)       /\ (name = "shift_references" <=> at = 4)
                  /\ (name = "create_details" <=> at = 5)  /\ (name = "shift_details" <=> at = 6)
                  /\ (name = "insert_history" <=> at = 7)  /\ (name = "insert_details" <=> at = 8)
                  /\ (name = "dedupe_history" <=> at = 9)  /\ (name = "dedupe_details" <=> at = 10)
                  /\ (name = "drop_history" <=> at = 11)   /\ (name = "drop_details" <=> at = 12)
         /\ importer[i].method = "overwrite" =>
              LET at == importer[i].at
              IN  /\ (name = "seq" <=> at = 1)             /\ (name = "clear_history" <=> at = 2)
                  /\ (name = "reset_seq" <=> at = 3)       /\ (name = "insert_history" <=> at = 4)
                  /\ (name = "clear_details" <=> at = 5)   /\ (name = "insert_details" <=> at = 6)
                  /\ name \notin {"create_history", "shift_ids", "shift_references",
                                  "create_details", "shift_details", "dedupe_history",
                                  "dedupe_details", "drop_history", "drop_details"}
<1>1. PICK at, method : at = importer[i].at /\ method = importer[i].method
  OBVIOUS
<1>2. /\ UnderWay(i) /\ method \in {"merge", "overwrite"} /\ at \in 1 .. 13
      /\ at <= Len(Program[method]) /\ Program[method][at] = name
  BY <1>1, Lengths DEF TypeOK, At
<1>3. CASE method = "merge"
  <2>1. at \in 1 .. 12
    BY <1>2, <1>3, Lengths
  <2>2. /\ at = 1 => name = "seq"
        /\ at = 2 => name = "create_history"
        /\ at = 3 => name = "shift_ids"
        /\ at = 4 => name = "shift_references"
        /\ at = 5 => name = "create_details"
        /\ at = 6 => name = "shift_details"
        /\ at = 7 => name = "insert_history"
        /\ at = 8 => name = "insert_details"
        /\ at = 9 => name = "dedupe_history"
        /\ at = 10 => name = "dedupe_details"
        /\ at = 11 => name = "drop_history"
        /\ at = 12 => name = "drop_details"
    BY <1>2, <1>3, MergeProgram
  <2>3. at \in {1, 2, 3, 4, 5, 6, 7, 8, 9, 10, 11, 12}
    BY <2>1
  <2>4. /\ (name = "seq" <=> at = 1)             /\ (name = "create_history" <=> at = 2)
        /\ (name = "shift_ids" <=> at = 3)       /\ (name = "shift_references" <=> at = 4)
        /\ (name = "create_details" <=> at = 5)  /\ (name = "shift_details" <=> at = 6)
        /\ (name = "insert_history" <=> at = 7)  /\ (name = "insert_details" <=> at = 8)
        /\ (name = "dedupe_history" <=> at = 9)  /\ (name = "dedupe_details" <=> at = 10)
        /\ (name = "drop_history" <=> at = 11)   /\ (name = "drop_details" <=> at = 12)
    BY <2>2, <2>3
  <2>5. QED
    BY <1>1, <1>2, <1>3, <2>1, <2>4
<1>4. CASE method = "overwrite"
  <2>1. at \in 1 .. 6
    BY <1>2, <1>4, Lengths
  <2>2. /\ (name = "seq" <=> at = 1)             /\ (name = "clear_history" <=> at = 2)
        /\ (name = "reset_seq" <=> at = 3)       /\ (name = "insert_history" <=> at = 4)
        /\ (name = "clear_details" <=> at = 5)   /\ (name = "insert_details" <=> at = 6)
        /\ name \in {"seq", "clear_history", "reset_seq", "insert_history",
                     "clear_details", "insert_details"}
    BY <1>2, <1>4, <2>1, OverwriteProgram
  <2>3. QED
    BY <1>1, <1>2, <1>4, <2>1, <2>2
<1>5. QED
  BY <1>2, <1>3, <1>4
-----------------------------------------------------------------------------
(* Types, and what holds whatever goes wrong with an import. *)

LEMMA ImporterStatesAre ==
  ImporterStates = [pc : {"idle", "validate", "run"}, method : Methods,
                    at : 1 .. Len(Program.merge) + 1, seq : Nat]
<1>1. Methods = {"merge", "overwrite"} /\ Len(Program.merge) = 12
  BY Lengths
<1>2. 1 .. 12 + 1 = 1 .. 13
  OBVIOUS
<1>3. QED
  BY <1>1, <1>2 DEF ImporterStates

LEMMA BaseTyped ==
  ASSUME Base PROVE TypeOK
<1>1. importer \in [Importers -> [pc : {"idle", "validate", "run"}, method : Methods,
                                 at : 1 .. Len(Program.merge) + 1, seq : Nat]]
  BY ImporterStatesAre DEF Base, ImportType
<1>2. QED
  BY <1>1 DEF Base, TypeOK, HistoryType, DetailsType, CopiesType, WriterType

\* The files.
LEMMA FilesType ==
  /\ ImportPlays \subseteq Plays /\ Live \subseteq Plays
  /\ {Logged[id].play : id \in DOMAIN Logged} \subseteq Plays
  /\ ImportPlays \cap Live = {} /\ {Logged[id].play : id \in DOMAIN Logged} \cap Live = {}
  /\ IsFiniteSet(DOMAIN Import) /\ DOMAIN Import \subseteq Ids
  /\ \A n \in DOMAIN Import :
       /\ Import[n].play \in ImportPlays
       /\ Import[n].reference_id \in 0 .. n /\ Import[n].reference_id \in Nat
  /\ IsFiniteSet(DOMAIN Logged) /\ DOMAIN Logged \subseteq Ids
  /\ \A n \in DOMAIN Logged :
       Logged[n].reference_id \in 0 .. n /\ Logged[n].reference_id \in Nat
<1>1. \A table \in {Logged, Import} :
        /\ IsFiniteSet(DOMAIN table) /\ DOMAIN table \subseteq Ids
        /\ \A id \in DOMAIN table : table[id].play \notin Live /\ table[id].reference_id \in 0 .. id
  BY ConstantsAssumption DEF Ids
<1>2. \A n \in Ids : 0 .. n \subseteq Nat
  BY DEF Ids
<1>3. QED
  BY <1>1, <1>2 DEF ImportPlays, Plays

\* A row of a file is a record of play and reference_id.
LEMMA FileRows ==
  /\ \A n \in DOMAIN Import : Import[n] \in [play : ImportPlays, reference_id : Nat]
  /\ \A n \in DOMAIN Logged : Logged[n] \in [play : Plays, reference_id : Nat]
<1>1. PICK P : P = {Logged[id].play : id \in DOMAIN Logged}
  OBVIOUS
<1>2. \A n \in DOMAIN Import : Import[n] \in [play : ImportPlays, reference_id : 0 .. n]
  BY ConstantsAssumption DEF ImportPlays
<1>3. \A n \in DOMAIN Logged : Logged[n] \in [play : P, reference_id : 0 .. n]
  BY <1>1, ConstantsAssumption
<1>4. \A n \in Ids : 0 .. n \subseteq Nat
  BY DEF Ids
<1>5. P \subseteq Plays
  BY <1>1 DEF Plays
<1>6. \A n \in DOMAIN Import : n \in Ids
  BY FilesType
<1>7. \A n \in DOMAIN Logged : n \in Ids
  BY FilesType
<1>8. \A n \in DOMAIN Import : Import[n] \in [play : ImportPlays, reference_id : Nat]
  BY <1>2, <1>4, <1>6
<1>9. \A n \in DOMAIN Logged : Logged[n] \in [play : Plays, reference_id : Nat]
  BY <1>3, <1>4, <1>5, <1>7
<1>10. QED
  BY <1>8, <1>9

LEMMA ControlStep ==
  ASSUME Base, UNCHANGED <<tables, running, logged>>, ImportType',
         writer' = writer \/ writer' = NotWriting,
         {IS_IMPORTING', disturbed', cleared'} \subseteq BOOLEAN,
         beside' \subseteq Ids, imported' \subseteq Nat
  PROVE  Base'
<1>1. UNCHANGED <<history, details, seq, copies, running, logged>>
  BY DEF tables
<1>2. HistoryType' /\ DetailsType' /\ CopiesType' /\ seq' \in Nat
  BY <1>1 DEF Base, HistoryType, DetailsType, CopiesType
<1>3. WriterType'
  BY <1>1 DEF Base, WriterType, NotWriting
<1>4. WriterSound'
  BY <1>1 DEF Base, WriterSound, NotWriting
<1>5. QED
  BY <1>2, <1>3, <1>4 DEF Base

LEMMA TableStep ==
  ASSUME Base, UNCHANGED <<IS_IMPORTING, writer, aux>>, ImportType',
         HistoryType', DetailsType', CopiesType', seq' \in Nat,
         \A id \in DOMAIN history' :
           \/ id \in DOMAIN history /\ history'[id].play = history[id].play
           \/ history'[id].play \in ImportPlays
  PROVE  Base'
<1>1. UNCHANGED <<running, logged, beside, disturbed, cleared, imported>>
  BY DEF aux
<1>2. WriterType' /\ {IS_IMPORTING', disturbed', cleared'} \subseteq BOOLEAN
  BY <1>1 DEF Base, WriterType
<1>3. WriterSound'
  BY <1>1, FilesType DEF Base, WriterSound, WriterType
<1>4. QED
  BY <1>2, <1>3 DEF Base

\* The local states of an import.
LEMMA ImporterIs ==
  ASSUME Base, NEW i \in Importers
  PROVE  /\ importer[i] \in ImporterStates
         /\ importer[i].pc \in {"idle", "validate", "run"}
         /\ importer[i].method = "merge" \/ importer[i].method = "overwrite"
         /\ importer[i].at \in 1 .. 13 /\ importer[i].seq \in Nat
         /\ importer[i].method = "overwrite" => importer[i].at <= 7
         /\ importer[i].at <= Len(Program[importer[i].method]) + 1
<1>1. PICK s : s = importer[i]
  OBVIOUS
<1>2. s \in ImporterStates /\ s.at <= Len(Program[s.method]) + 1
  BY <1>1 DEF Base, ImportType
<1>3. /\ s.pc \in {"idle", "validate", "run"} /\ s.method \in {"merge", "overwrite"}
      /\ s.at \in 1 .. 13 /\ s.seq \in Nat
  BY <1>2 DEF ImporterStates
<1>4. s.method = "overwrite" => s.at <= 7
  <2>1. s.method = "overwrite" => s.at <= 6 + 1
    BY <1>2, Lengths
  <2>2. QED
    BY <1>3, <2>1
<1>5. QED
  BY <1>1, <1>2, <1>3, <1>4

LEMMA NotImportingIs ==
  /\ NotImporting \in ImporterStates
  /\ NotImporting.pc = "idle" /\ NotImporting.method = "merge" /\ NotImporting.at = 1
  /\ NotImporting.at <= Len(Program[NotImporting.method]) + 1
<1>1. /\ NotImporting \in ImporterStates
      /\ NotImporting.pc = "idle" /\ NotImporting.method = "merge" /\ NotImporting.at = 1
  BY DEF NotImporting, ImporterStates
<1>2. 1 <= 12 + 1
  OBVIOUS
<1>3. QED
  BY <1>1, <1>2, Lengths

\* One importer changes.
LEMMA ImporterStep ==
  ASSUME Base, NEW i \in Importers, NEW s \in ImporterStates,
         s.at <= Len(Program[s.method]) + 1, importer' = [importer EXCEPT ![i] = s]
  PROVE  /\ ImportType'
         /\ \A j \in Importers : importer'[j] = IF j = i THEN s ELSE importer[j]
  BY DEF Base, ImportType

\* An import goes on to its next statement.
LEMMA NextStatement ==
  ASSUME Base, NEW i \in Importers, Midway(i), Step(i)
  PROVE  /\ ImportType' /\ importer'[i].at = importer[i].at + 1
         /\ importer'[i].pc = importer[i].pc /\ importer'[i].method = importer[i].method
         /\ importer'[i].seq = importer[i].seq
         /\ \A j \in Importers : j # i => importer'[j] = importer[j]
<1>1. PICK r : r = importer[i]
  OBVIOUS
<1>2. PICK s : s = [r EXCEPT !.at = @ + 1]
  OBVIOUS
<1>3. importer' = [importer EXCEPT ![i] = s]
  BY <1>1, <1>2 DEF Step
<1>4. /\ r \in ImporterStates /\ r.at \in 1 .. 13 /\ r.method \in {"merge", "overwrite"}
      /\ r.at <= Len(Program[r.method])
  BY <1>1, ImporterIs DEF Midway
<1>5. r.at + 1 \in 1 .. 13 /\ r.at + 1 <= Len(Program[r.method]) + 1
  <2>1. PICK l : l = Len(Program[r.method])
    OBVIOUS
  <2>2. l \in {6, 12} /\ r.at <= l
    BY <1>4, <2>1, Lengths
  <2>3. r.at + 1 \in 1 .. 13 /\ r.at + 1 <= l + 1
    BY <1>4, <2>2
  <2>4. QED
    BY <2>1, <2>3
<1>6. s \in ImporterStates
  BY <1>2, <1>4, <1>5 DEF ImporterStates
<1>7. s.at = r.at + 1 /\ s.pc = r.pc /\ s.method = r.method /\ s.seq = r.seq
  BY <1>2, <1>4 DEF ImporterStates
<1>8. s.at <= Len(Program[s.method]) + 1
  BY <1>5, <1>7
<1>9. /\ ImportType'
      /\ \A j \in Importers : importer'[j] = IF j = i THEN s ELSE importer[j]
  BY <1>3, <1>6, <1>8, ImporterStep
<1>10. QED
  BY <1>1, <1>7, <1>9

LEMMA ReadSeqStep ==
  ASSUME Base, NEW i \in Importers, ReadSeq(i)
  PROVE  /\ ImportType' /\ importer[i].at = 1 /\ importer'[i].at = 2 /\ UnderWay(i)
         /\ importer'[i].pc = importer[i].pc /\ importer'[i].method = importer[i].method
         /\ importer'[i].seq = seq
         /\ \A j \in Importers : j # i => importer'[j] = importer[j]
<1>1. UnderWay(i) /\ importer[i].at = 1
  BY ImporterIs, AtNumber, BaseTyped DEF ReadSeq
<1>2. PICK r : r = importer[i]
  OBVIOUS
<1>3. PICK s : s = [r EXCEPT !.at = @ + 1, !.seq = seq]
  OBVIOUS
<1>4. importer' = [importer EXCEPT ![i] = s]
  BY <1>2, <1>3 DEF ReadSeq
<1>5. r \in ImporterStates /\ r.at = 1 /\ r.method \in {"merge", "overwrite"}
  BY <1>1, <1>2, ImporterIs
<1>6. seq \in Nat /\ 1 + 1 \in 1 .. 13
  BY DEF Base
<1>7. s \in ImporterStates
  BY <1>3, <1>5, <1>6 DEF ImporterStates
<1>8. s.at = 2 /\ s.pc = r.pc /\ s.method = r.method /\ s.seq = seq
  BY <1>3, <1>5 DEF ImporterStates
<1>9. 2 <= 12 + 1 /\ 2 <= 6 + 1
  OBVIOUS
<1>10. s.at <= Len(Program[s.method]) + 1
  BY <1>5, <1>8, <1>9, Lengths
<1>11. /\ ImportType'
       /\ \A j \in Importers : importer'[j] = IF j = i THEN s ELSE importer[j]
  BY <1>4, <1>7, <1>10, ImporterStep
<1>12. QED
  BY <1>1, <1>2, <1>8, <1>11

LEMMA ReadSeqBase ==
  ASSUME Base, NEW i \in Importers, Statement(i), ReadSeq(i)
  PROVE  Base'
<1>1. UNCHANGED <<history, details, seq, copies, IS_IMPORTING, writer, aux>>
  BY DEF ReadSeq, Statement, tables
<1>2. HistoryType' /\ DetailsType' /\ CopiesType' /\ seq' \in Nat
  BY <1>1 DEF Base, HistoryType, DetailsType, CopiesType
<1>3. QED
  BY <1>1, <1>2, ReadSeqStep, TableStep

LEMMA BeginBase ==
  ASSUME Base, NEW i \in Importers, NEW method \in Methods, Begin(i, method)
  PROVE  Base'
<1>1. PICK s : s = [NotImporting EXCEPT !.pc = "validate", !.method = method]
  OBVIOUS
<1>2. method \in {"merge", "overwrite"} /\ "validate" \in {"idle", "validate", "run"}
  BY Lengths
<1>3. s \in ImporterStates
  BY <1>1, <1>2, NotImportingIs DEF ImporterStates
<1>4. s.at = 1 /\ s.method = method
  BY <1>1, <1>2, NotImportingIs DEF ImporterStates
<1>5. 1 <= 12 + 1 /\ 1 <= 6 + 1
  OBVIOUS
<1>6. s.at <= Len(Program[s.method]) + 1
  BY <1>2, <1>4, <1>5, Lengths
<1>7. ImportType'
  BY <1>1, <1>3, <1>6, ImporterStep DEF Begin
<1>8. QED
  BY <1>7, ControlStep DEF Begin, Base, aux, WriterType

LEMMA EndBase ==
  ASSUME Base, NEW i \in Importers, importer' = [importer EXCEPT ![i] = NotImporting],
         UNCHANGED <<tables, writer, running, logged, beside, cleared>>,
         IS_IMPORTING' \in BOOLEAN, disturbed' \in BOOLEAN, imported' \subseteq Nat
  PROVE  Base'
<1>1. ImportType'
  BY NotImportingIs, ImporterStep
<1>2. QED
  BY <1>1, ControlStep DEF Base, WriterType

LEMMA AnnounceBase ==
  ASSUME Base, NEW i \in Importers, Announce(i)
  PROVE  Base'
<1>1. PICK r : r = importer[i]
  OBVIOUS
<1>2. PICK s : s = [r EXCEPT !.pc = "run"]
  OBVIOUS
<1>3. r \in ImporterStates /\ "run" \in {"idle", "validate", "run"}
  BY <1>1, ImporterIs
<1>4. s \in ImporterStates
  BY <1>2, <1>3 DEF ImporterStates
<1>5. s.at = r.at /\ s.method = r.method
  BY <1>2, <1>3 DEF ImporterStates
<1>6. s.at <= Len(Program[s.method]) + 1
  BY <1>1, <1>5, ImporterIs
<1>7. ImportType'
  BY <1>1, <1>2, <1>4, <1>6, ImporterStep DEF Announce
<1>8. beside' \subseteq Ids
  BY DEF Announce, Base, WriterType, Ids
<1>9. QED
  BY <1>7, <1>8, ControlStep DEF Announce, Base, WriterType

LEMMA LoseBase ==
  ASSUME Base, NEW i \in Importers, Lose(i)
  PROVE  Base'
  BY NextStatement, ControlStep DEF Lose, Base, WriterType

LEMMA RestartBase ==
  ASSUME Base, Restart
  PROVE  Base'
<1>1. ImportType'
  BY NotImportingIs DEF Restart, ImportType
<1>2. QED
  BY <1>1, ControlStep DEF Restart, Base, WriterType
-----------------------------------------------------------------------------
(* Tables. *)

LEMMA TemporaryIs ==
  ASSUME NEW name, NEW table
  PROVE  /\ DOMAIN Temporary(name, table) = DOMAIN copies \cup {name}
         /\ Temporary(name, table)[name] = table
         /\ IsTable(Temporary(name, table))
  BY DEF Temporary, Extended, IsTable

LEMMA TemporaryOther ==
  ASSUME NEW name, NEW table, NEW other \in DOMAIN copies, other # name
  PROVE  Temporary(name, table)[other] = copies[other]
  BY DEF Temporary, Extended

LEMMA ShiftedIs ==
  ASSUME NEW f, DOMAIN f \subseteq Ids, NEW s \in Nat
  PROVE  /\ DOMAIN Shifted(f, s) = {n + s : n \in DOMAIN f}
         /\ DOMAIN Shifted(f, s) \subseteq Ids
         /\ \A n \in DOMAIN f : Shifted(f, s)[n + s] = f[n]
         /\ \A id \in DOMAIN Shifted(f, s) : id - s \in DOMAIN f /\ Shifted(f, s)[id] = f[id - s]
                                             /\ id = (id - s) + s
<1>1. DOMAIN Shifted(f, s) = {n + s : n \in DOMAIN f}
  BY DEF Shifted
<1>2. \A n \in DOMAIN f : n \in Nat /\ n # 0
  BY DEF Ids
<1>3. \A n \in Nat : n # 0 => n + s \in Nat \ {0} /\ (n + s) - s = n
  OBVIOUS
<1>4. \A n \in DOMAIN f : n + s \in Ids /\ (n + s) - s = n
  BY <1>2, <1>3 DEF Ids
<1>5. \A n \in DOMAIN f : Shifted(f, s)[n + s] = f[n]
  BY <1>4 DEF Shifted
<1>6. QED
  BY <1>1, <1>4, <1>5

LEMMA ShiftedReferencesIs ==
  ASSUME NEW f, \A id \in DOMAIN f : f[id] \in [play : ImportPlays, reference_id : Nat], NEW s \in Nat
  PROVE  /\ DOMAIN ShiftedReferences(f, s) = DOMAIN f
         /\ \A id \in DOMAIN f :
              /\ ShiftedReferences(f, s)[id] \in [play : ImportPlays, reference_id : Nat]
              /\ ShiftedReferences(f, s)[id].play = f[id].play
              /\ ShiftedReferences(f, s)[id].reference_id =
                   IF f[id].reference_id = 0 THEN 0 ELSE f[id].reference_id + s
<1>1. DOMAIN ShiftedReferences(f, s) = DOMAIN f
  BY DEF ShiftedReferences
<1>2. ASSUME NEW id \in DOMAIN f
      PROVE  /\ ShiftedReferences(f, s)[id] \in [play : ImportPlays, reference_id : Nat]
             /\ ShiftedReferences(f, s)[id].play = f[id].play
             /\ ShiftedReferences(f, s)[id].reference_id =
                  IF f[id].reference_id = 0 THEN 0 ELSE f[id].reference_id + s
  <2>1. PICK r : r = f[id]
    OBVIOUS
  <2>2. r \in [play : ImportPlays, reference_id : Nat] /\ r.reference_id + s \in Nat
    BY <1>2, <2>1
  <2>3. ShiftedReferences(f, s)[id] =
          IF r.reference_id = 0 THEN r ELSE [r EXCEPT !.reference_id = @ + s]
    BY <1>2, <2>1 DEF ShiftedReferences
  <2>4. QED
    BY <2>1, <2>2, <2>3
<1>3. QED
  BY <1>1, <1>2

LEMMA ForeignShifted ==
  ASSUME NEW table, NEW s \in Nat
  PROVE  /\ ForeignHistory(table) => ForeignHistory(Shifted(table, s))
         /\ ForeignHistory(table) => ForeignHistory(ShiftedReferences(table, s))
         /\ ForeignDetails(table) => ForeignDetails(Shifted(table, s))
<1>1. ASSUME ForeignHistory(table) PROVE ForeignHistory(Shifted(table, s))
  <2>1. DOMAIN table \subseteq Ids /\ DOMAIN table \subseteq Nat /\ IsFiniteSet(DOMAIN table)
    BY <1>1 DEF ForeignHistory, Ids
  <2>2. IsFiniteSet({old + s : old \in DOMAIN table})
    BY <2>1, FiniteShift
  <2>3. IsFiniteSet(DOMAIN Shifted(table, s))
    BY <2>2 DEF Shifted
  <2>4. /\ DOMAIN Shifted(table, s) \subseteq Ids
        /\ \A id \in DOMAIN Shifted(table, s) :
             id - s \in DOMAIN table /\ Shifted(table, s)[id] = table[id - s]
    BY <2>1, ShiftedIs
  <2>5. \A n \in DOMAIN table : table[n] \in [play : ImportPlays, reference_id : Nat]
    BY <1>1 DEF ForeignHistory
  <2>6. QED
    BY <2>3, <2>4, <2>5 DEF ForeignHistory
<1>2. ASSUME ForeignHistory(table) PROVE ForeignHistory(ShiftedReferences(table, s))
  BY <1>2, ShiftedReferencesIs DEF ForeignHistory
<1>3. ASSUME ForeignDetails(table) PROVE ForeignDetails(Shifted(table, s))
  BY <1>3, ShiftedIs DEF ForeignDetails
<1>4. QED
  BY <1>1, <1>2, <1>3

LEMMA FileTables ==
  /\ ForeignHistory(Import) /\ ForeignDetails(PlaysOf(Import))
  /\ DOMAIN PlaysOf(Import) = DOMAIN Import
  /\ \A n \in DOMAIN Import : PlaysOf(Import)[n] = Import[n].play
  BY FilesType, FileRows DEF ForeignHistory, ForeignDetails, PlaysOf

\* The copy that a statement reads is there.
LEMMA NotFailing ==
  ASSUME Base, NEW i \in Importers, ~Failing(i), importer[i].method = "merge"
  PROVE  /\ At(i, "create_history") => "history" \notin DOMAIN copies
         /\ At(i, "create_details") => "details" \notin DOMAIN copies
         /\ At(i, "shift_ids") \/ At(i, "shift_references") \/ At(i, "insert_history") =>
              "history" \in DOMAIN copies
         /\ At(i, "shift_details") \/ At(i, "insert_details") => "details" \in DOMAIN copies
<1>1. ASSUME NEW name, At(i, name), NEW copy \in CopyOf(name)
      PROVE  (name \in {"create_history", "create_details"}) # (copy \in DOMAIN copies)
  <2>1. PICK k : k = importer[i].at
    OBVIOUS
  <2>2. Program.merge[k] = name /\ k \in 1 .. 12
    BY <1>1, <2>1, AtNumber, BaseTyped DEF At
  <2>3. k \in DOMAIN Program.merge
    BY <2>2 DEF Program
  <2>4. ~((name \in {"create_history", "create_details"}) = (copy \in DOMAIN copies))
    BY <1>1, <2>2, <2>3 DEF Failing
  <2>5. QED
    BY <2>4
<1>2. /\ CopyOf("create_history") = {"history"} /\ CopyOf("create_details") = {"details"}
      /\ CopyOf("shift_ids") = {"history"} /\ CopyOf("shift_references") = {"history"}
      /\ CopyOf("insert_history") = {"history"} /\ CopyOf("shift_details") = {"details"}
      /\ CopyOf("insert_details") = {"details"}
  BY DEF CopyOf
<1>3. At(i, "create_history") => "history" \notin DOMAIN copies
  BY <1>1, <1>2
<1>4. At(i, "create_details") => "details" \notin DOMAIN copies
  BY <1>1, <1>2
<1>5. At(i, "shift_ids") => "history" \in DOMAIN copies
  BY <1>1, <1>2
<1>6. At(i, "shift_references") => "history" \in DOMAIN copies
  BY <1>1, <1>2
<1>7. At(i, "insert_history") => "history" \in DOMAIN copies
  BY <1>1, <1>2
<1>8. At(i, "shift_details") => "details" \in DOMAIN copies
  BY <1>1, <1>2
<1>9. At(i, "insert_details") => "details" \in DOMAIN copies
  BY <1>1, <1>2
<1>10. QED
  BY <1>3, <1>4, <1>5, <1>6, <1>7, <1>8, <1>9
-----------------------------------------------------------------------------
(* The statements that change tables. *)

\* A statement that is run is not the last of all.
LEMMA StatementStep ==
  ASSUME Base, NEW i \in Importers, NEW name, At(i, name), Step(i)
  PROVE  /\ ImportType' /\ importer'[i].at = importer[i].at + 1
         /\ importer'[i].pc = importer[i].pc /\ importer'[i].method = importer[i].method
         /\ importer'[i].seq = importer[i].seq
         /\ \A j \in Importers : j # i => importer'[j] = importer[j]
         /\ UnderWay(i)
  BY NextStatement DEF At, Midway

LEMMA CopiesStep ==
  ASSUME Base, NEW name \in {"history", "details"}, NEW table,
         copies' = Temporary(name, table),
         name = "history" => ForeignHistory(table), name = "details" => ForeignDetails(table)
  PROVE  CopiesType'
<1>1. /\ DOMAIN copies' = DOMAIN copies \cup {name} /\ IsTable(copies')
      /\ copies'[name] = table
  BY TemporaryIs
<1>2. \A other \in DOMAIN copies : other # name => copies'[other] = copies[other]
  BY TemporaryOther
<1>3. QED
  BY <1>1, <1>2 DEF Base, CopiesType

LEMMA CreateBase ==
  ASSUME Base, NEW i \in Importers, Statement(i), Create(i)
  PROVE  Base'
<1>1. UNCHANGED <<history, details, seq, IS_IMPORTING, writer, aux>>
  BY DEF Create, Statement
<1>2. HistoryType' /\ DetailsType' /\ seq' \in Nat
  BY <1>1 DEF Base, HistoryType, DetailsType
<1>3. ImportType'
  BY StatementStep DEF Create
<1>4. CopiesType'
  BY CopiesStep, FileTables DEF Create
<1>5. QED
  BY <1>1, <1>2, <1>3, <1>4, TableStep

\* Only a merge has these statements.
LEMMA MergeOnly ==
  ASSUME Base, NEW i \in Importers,
         NEW name \in {"create_history", "shift_ids", "shift_references", "create_details",
                       "shift_details", "dedupe_history", "dedupe_details", "drop_history",
                       "drop_details"},
         At(i, name)
  PROVE  importer[i].method = "merge"
  BY AtNumber, ImporterIs, BaseTyped

LEMMA ShiftCopies ==
  ASSUME Base, NEW i \in Importers, Shift(i)
  PROVE  /\ importer[i].method = "merge"
         /\ \/ /\ importer[i].at = 3 /\ "history" \in DOMAIN copies
               /\ copies' = Temporary("history", Shifted(copies["history"], importer[i].seq))
            \/ /\ importer[i].at = 4 /\ "history" \in DOMAIN copies
               /\ copies' = Temporary("history", ShiftedReferences(copies["history"], importer[i].seq))
            \/ /\ importer[i].at = 6 /\ "details" \in DOMAIN copies
               /\ copies' = Temporary("details", Shifted(copies["details"], importer[i].seq))
<1>1. ~Failing(i)
  BY DEF Shift
<1>2. CASE At(i, "shift_ids") /\ copies' = Temporary("history", Shifted(copies["history"], importer[i].seq))
  <2>1. importer[i].method = "merge"
    BY <1>2, MergeOnly
  <2>2. importer[i].at = 3
    BY <1>2, <2>1, AtNumber, BaseTyped
  <2>3. QED
    BY <1>1, <1>2, <2>1, <2>2, NotFailing
<1>3. CASE At(i, "shift_references")
             /\ copies' = Temporary("history", ShiftedReferences(copies["history"], importer[i].seq))
  <2>1. importer[i].method = "merge"
    BY <1>3, MergeOnly
  <2>2. importer[i].at = 4
    BY <1>3, <2>1, AtNumber, BaseTyped
  <2>3. QED
    BY <1>1, <1>3, <2>1, <2>2, NotFailing
<1>4. CASE At(i, "shift_details") /\ copies' = Temporary("details", Shifted(copies["details"], importer[i].seq))
  <2>1. importer[i].method = "merge"
    BY <1>4, MergeOnly
  <2>2. importer[i].at = 6
    BY <1>4, <2>1, AtNumber, BaseTyped
  <2>3. QED
    BY <1>1, <1>4, <2>1, <2>2, NotFailing
<1>5. QED
  BY <1>2, <1>3, <1>4 DEF Shift

LEMMA ShiftBase ==
  ASSUME Base, NEW i \in Importers, Statement(i), Shift(i)
  PROVE  Base'
<1>1. UNCHANGED <<history, details, seq, IS_IMPORTING, writer, aux>>
  BY DEF Shift, Statement
<1>2. HistoryType' /\ DetailsType' /\ seq' \in Nat
  BY <1>1 DEF Base, HistoryType, DetailsType
<1>3. ImportType'
  BY StatementStep DEF Shift
<1>4. CopiesType'
  <2>1. CopiesType /\ importer[i].seq \in Nat
    BY ImporterIs DEF Base
  <2>2. PICK old, s : old = copies /\ s = importer[i].seq
    OBVIOUS
  <2>3. CASE /\ "history" \in DOMAIN copies
             /\ copies' = Temporary("history", Shifted(old["history"], s))
    BY <2>1, <2>2, <2>3, CopiesStep, ForeignShifted DEF CopiesType
  <2>4. CASE /\ "history" \in DOMAIN copies
             /\ copies' = Temporary("history", ShiftedReferences(old["history"], s))
    BY <2>1, <2>2, <2>4, CopiesStep, ForeignShifted DEF CopiesType
  <2>5. CASE /\ "details" \in DOMAIN copies
             /\ copies' = Temporary("details", Shifted(old["details"], s))
    BY <2>1, <2>2, <2>5, CopiesStep, ForeignShifted DEF CopiesType
  <2>6. QED
    BY <2>2, <2>3, <2>4, <2>5, ShiftCopies
<1>5. QED
  BY <1>1, <1>2, <1>3, <1>4, TableStep

LEMMA ClearBase ==
  ASSUME Base, NEW i \in Importers, Statement(i), Clear(i)
  PROVE  Base'
<1>1. UNCHANGED <<copies, IS_IMPORTING, writer, aux>>
  BY DEF Clear, Statement
<1>2. HistoryType /\ DetailsType /\ CopiesType /\ seq \in Nat
  BY DEF Base
<1>3. DOMAIN << >> = {} /\ IsTable(<< >>) /\ IsFiniteSet({})
  BY FS_EmptySet DEF IsTable
<1>4. history' = << >> \/ UNCHANGED history
  BY DEF Clear
<1>5. details' = << >> \/ UNCHANGED details
  BY DEF Clear
<1>6. HistoryType'
  BY <1>2, <1>3, <1>4 DEF HistoryType
<1>7. DetailsType'
  BY <1>2, <1>3, <1>5 DEF DetailsType
<1>8. CopiesType' /\ seq' \in Nat
  BY <1>1, <1>2 DEF CopiesType, Clear
<1>9. ImportType'
  BY StatementStep DEF Clear
<1>10. \A id \in DOMAIN history' : id \in DOMAIN history /\ history'[id].play = history[id].play
  BY <1>3, <1>4
<1>11. QED
  BY <1>1, <1>6, <1>7, <1>8, <1>9, <1>10, TableStep

LEMMA SourceIs ==
  ASSUME Base, NEW i \in Importers, ~Failing(i)
  PROVE  /\ At(i, "insert_history") => ForeignHistory(Source(i, "history"))
         /\ At(i, "insert_details") => ForeignDetails(Source(i, "details"))
  BY ImporterIs, NotFailing, FileTables DEF Source, Base, CopiesType

LEMMA InsertRowsBase ==
  ASSUME Base, NEW i \in Importers, Statement(i), InsertRows(i)
  PROVE  Base'
<1>1. UNCHANGED <<copies, IS_IMPORTING, writer, aux>>
  BY DEF InsertRows, Statement
<1>2. HistoryType /\ DetailsType /\ CopiesType /\ seq \in Nat
  BY DEF Base
<1>3. CopiesType'
  BY <1>1, <1>2 DEF CopiesType
<1>4. ImportType'
  BY StatementStep DEF InsertRows
<1>5. ImportPlays \subseteq Plays
  BY FilesType
<1>6. ASSUME NEW g, ForeignHistory(g), history' = Extended(history, g),
             seq' = Highest({seq} \cup DOMAIN history'), UNCHANGED details
      PROVE  Base'
  <2>1. /\ DOMAIN history' = DOMAIN history \cup DOMAIN g
        /\ \A id \in DOMAIN history : history'[id] = history[id]
        /\ \A id \in DOMAIN g : id \notin DOMAIN history => history'[id] = g[id]
       
    BY <1>6 DEF Extended
  <2>2. /\ IsFiniteSet(DOMAIN g) /\ DOMAIN g \subseteq Ids
        /\ \A id \in DOMAIN g : g[id] \in [play : ImportPlays, reference_id : Nat]
    BY <1>6 DEF ForeignHistory
  <2>3. IsFiniteSet(DOMAIN history')
    <3>1. IsFiniteSet(DOMAIN history)
      BY <1>2 DEF HistoryType
    <3>2. IsFiniteSet(DOMAIN history \cup DOMAIN g)
      BY <2>2, <3>1, FS_Union
    <3>3. QED
      BY <2>1, <3>2
  <2>4. HistoryType'
    BY <1>2, <1>5, <2>1, <2>2, <2>3 DEF HistoryType
  <2>5. PICK S : S = {seq} \cup DOMAIN history'
    OBVIOUS
  <2>6. S \subseteq Nat
    BY <1>2, <2>4, <2>5 DEF HistoryType, Ids
  <2>7. IsFiniteSet(S)
    BY <2>3, <2>5, FS_Union, FS_Singleton
  <2>8. seq' \in Nat
    BY <1>6, <2>5, <2>6, <2>7, HighestIs
  <2>9. DetailsType'
    BY <1>2, <1>6 DEF DetailsType
  <2>10. QED
    BY <1>1, <1>3, <1>4, <2>1, <2>2, <2>4, <2>8, <2>9, TableStep
<1>7. ASSUME NEW g, ForeignDetails(g), details' = Extended(details, g), UNCHANGED <<history, seq>>
      PROVE  Base'
  <2>1. HistoryType' /\ seq' \in Nat
    BY <1>2, <1>7 DEF HistoryType
  <2>2. /\ DOMAIN details' = DOMAIN details \cup DOMAIN g
        /\ \A id \in DOMAIN details : details'[id] = details[id]
        /\ \A id \in DOMAIN g : id \notin DOMAIN details => details'[id] = g[id]
    BY <1>7 DEF Extended
  <2>3. DetailsType'
    BY <1>2, <1>5, <1>7, <2>2 DEF DetailsType, ForeignDetails
  <2>4. QED
    BY <1>1, <1>3, <1>4, <1>7, <2>1, <2>3, TableStep
<1>8. QED
  BY <1>6, <1>7, SourceIs DEF InsertRows, InsertOrIgnore

LEMMA DedupeBase ==
  ASSUME Base, NEW i \in Importers, Statement(i), Dedupe(i)
  PROVE  Base'
<1>1. UNCHANGED <<copies, seq, IS_IMPORTING, writer, aux>>
  BY DEF Dedupe, Statement
<1>2. HistoryType /\ DetailsType /\ CopiesType /\ seq \in Nat
  BY DEF Base
<1>3. CopiesType' /\ seq' \in Nat
  BY <1>1, <1>2 DEF CopiesType
<1>4. ImportType'
  BY StatementStep DEF Dedupe
<1>5. CASE history' = Restricted(history, Oldest) /\ UNCHANGED details
  <2>1. /\ DOMAIN history' \subseteq DOMAIN history
        /\ \A id \in DOMAIN history' : history'[id] = history[id]
       
    BY <1>5 DEF Restricted
  <2>2. HistoryType'
    BY <1>2, <2>1, FS_Subset DEF HistoryType
  <2>3. DetailsType'
    BY <1>2, <1>5 DEF DetailsType
  <2>4. QED
    BY <1>1, <1>3, <1>4, <2>1, <2>2, <2>3, TableStep
<1>6. CASE details' = Restricted(details, DOMAIN history) /\ UNCHANGED history
  <2>1. HistoryType'
    BY <1>2, <1>6 DEF HistoryType
  <2>2. /\ DOMAIN details' \subseteq DOMAIN details
        /\ \A id \in DOMAIN details' : details'[id] = details[id]
    BY <1>6 DEF Restricted
  <2>3. DetailsType'
    BY <1>2, <2>2 DEF DetailsType
  <2>4. QED
    BY <1>1, <1>3, <1>4, <1>6, <2>1, <2>3, TableStep
<1>7. QED
  BY <1>5, <1>6 DEF Dedupe

LEMMA DropBase ==
  ASSUME Base, NEW i \in Importers, Statement(i), Drop(i)
  PROVE  Base'
<1>1. UNCHANGED <<history, details, seq, IS_IMPORTING, writer, aux>>
  BY DEF Drop, Statement
<1>2. HistoryType' /\ DetailsType' /\ seq' \in Nat
  BY <1>1 DEF Base, HistoryType, DetailsType
<1>3. ImportType'
  BY StatementStep DEF Drop
<1>4. PICK name \in DOMAIN copies : copies' = Restricted(copies, DOMAIN copies \ {name})
  BY DEF Drop
<1>5. /\ DOMAIN copies' \subseteq DOMAIN copies /\ IsTable(copies')
      /\ \A other \in DOMAIN copies' : copies'[other] = copies[other]
  BY <1>4 DEF Restricted, IsTable
<1>6. CopiesType'
  BY <1>5 DEF Base, CopiesType
<1>7. QED
  BY <1>1, <1>2, <1>3, <1>6, TableStep
-----------------------------------------------------------------------------
(* The writer. *)

\* The id a play gets is above every id in use.
LEMMA NextId ==
  ASSUME Base
  PROVE  LET id == Highest({seq} \cup DOMAIN history) + 1
         IN  /\ id \in Ids /\ id \in Nat /\ id > seq /\ id \notin DOMAIN history
             /\ \A old \in DOMAIN history : old < id
<1>1. HistoryType /\ seq \in Nat
  BY DEF Base
<1>2. PICK S : S = {seq} \cup DOMAIN history
  OBVIOUS
<1>3. S \subseteq Nat
  BY <1>1, <1>2 DEF HistoryType, Ids
<1>4. IsFiniteSet(S)
  BY <1>1, <1>2, FS_Union, FS_Singleton DEF HistoryType
<1>5. PICK n : n = Highest(S)
  OBVIOUS
<1>6. n \in Nat /\ \A x \in S : x <= n
  BY <1>3, <1>4, <1>5, HighestIs
<1>7. n + 1 \in Nat /\ n + 1 # 0 /\ \A x \in S : x < n + 1
  BY <1>3, <1>6
<1>8. n + 1 \notin S
  BY <1>3, <1>7
<1>9. QED
  BY <1>1, <1>2, <1>3, <1>5, <1>7, <1>8 DEF Ids

\* What the first statement of the writer does.
LEMMA LogRowIs ==
  ASSUME Base, NEW play \in Live, LogRow(play)
  PROVE  \E id \in Ids :
           /\ id \in Nat /\ id > seq /\ id \notin DOMAIN history /\ seq' = id
           /\ \A old \in DOMAIN history : old < id
           /\ DOMAIN history' = DOMAIN history \cup {id}
           /\ \A old \in DOMAIN history : history'[old] = history[old]
           /\ history'[id] \in [play : Plays, reference_id : Nat]
           /\ history'[id].play = play /\ history'[id].reference_id = 0
           /\ writer' \in [pc : {"idle", "link", "update", "insert"}, play : Live \cup {"none"},
                           id : Nat]
           /\ writer'.pc = "link" /\ writer'.play = play /\ writer'.id = id
           /\ beside' = IF \E i \in Importers : UnderWay(i) THEN beside \cup {id} ELSE beside
<1>1. PICK id : id = Highest({seq} \cup DOMAIN history) + 1
  OBVIOUS
<1>2. /\ id \in Ids /\ id \in Nat /\ id > seq /\ id \notin DOMAIN history
      /\ \A old \in DOMAIN history : old < id
  BY <1>1, NextId
<1>3. /\ history' = Extended(history, [n \in {id} |-> [play |-> play, reference_id |-> 0]])
      /\ seq' = id /\ writer' = [pc |-> "link", play |-> play, id |-> id]
      /\ beside' = IF \E i \in Importers : UnderWay(i) THEN beside \cup {id} ELSE beside
  BY <1>1 DEF LogRow
<1>4. PICK r : r = [play |-> play, reference_id |-> 0]
  OBVIOUS
<1>5. play \in Plays
  BY FilesType
<1>6. r \in [play : Plays, reference_id : Nat] /\ r.play = play /\ r.reference_id = 0
  BY <1>4, <1>5
<1>7. PICK g : g = [n \in {id} |-> r]
  OBVIOUS
<1>8. DOMAIN g = {id} /\ g[id] = r
  BY <1>7
<1>9. history' = Extended(history, g)
  BY <1>3, <1>4, <1>7
<1>10. /\ DOMAIN history' = DOMAIN history \cup {id}
       /\ \A old \in DOMAIN history : history'[old] = history[old]
  BY <1>8, <1>9 DEF Extended
<1>11. history'[id] = r
  BY <1>2, <1>8, <1>9 DEF Extended
<1>12. "link" \in {"idle", "link", "update", "insert"} /\ play \in Live \cup {"none"}
  OBVIOUS
<1>13. /\ writer' \in [pc : {"idle", "link", "update", "insert"}, play : Live \cup {"none"},
                       id : Nat]
       /\ writer'.pc = "link" /\ writer'.play = play /\ writer'.id = id
  BY <1>2, <1>3, <1>12
<1>14. QED
  BY <1>2, <1>3, <1>6, <1>10, <1>11, <1>13

\* A step of the writer leaves the imports alone.
LEMMA WriteKeeps ==
  ASSUME Base, Write
  PROVE  /\ UNCHANGED <<IS_IMPORTING, copies, importer, disturbed, cleared, imported>>
         /\ ImportType' /\ CopiesType'
<1>1. UNCHANGED <<IS_IMPORTING, copies, importer, disturbed, cleared, imported>>
  BY DEF Write
<1>2. QED
  BY <1>1 DEF Base, ImportType, CopiesType

LEMMA LogRowBase ==
  ASSUME Base, Write, NEW play \in Live, LogRow(play)
  PROVE  Base'
<1>1. PICK id \in Ids :
        /\ id \in Nat /\ id > seq /\ id \notin DOMAIN history /\ seq' = id
        /\ \A old \in DOMAIN history : old < id
        /\ DOMAIN history' = DOMAIN history \cup {id}
        /\ \A old \in DOMAIN history : history'[old] = history[old]
        /\ history'[id] \in [play : Plays, reference_id : Nat]
        /\ history'[id].play = play /\ history'[id].reference_id = 0
        /\ writer' \in [pc : {"idle", "link", "update", "insert"}, play : Live \cup {"none"},
                        id : Nat]
        /\ writer'.pc = "link" /\ writer'.play = play /\ writer'.id = id
        /\ beside' = IF \E i \in Importers : UnderWay(i) THEN beside \cup {id} ELSE beside
  BY LogRowIs
<1>2. /\ play \in running /\ running' = running \ {play} /\ UNCHANGED <<details, logged>>
  BY DEF LogRow
<1>3. HistoryType /\ DetailsType /\ WriterType /\ WriterSound
  BY DEF Base
<1>4. HistoryType'
  <2>1. IsFiniteSet(DOMAIN history)
    BY <1>3 DEF HistoryType
  <2>2. IsFiniteSet(DOMAIN history \cup {id})
    BY <2>1, FS_AddElement
  <2>3. QED
    BY <1>1, <1>3, <2>2 DEF HistoryType
<1>5. DetailsType'
  BY <1>2, <1>3 DEF DetailsType
<1>6. WriterType'
  BY <1>1, <1>2, <1>3, WriteKeeps DEF WriterType
<1>7. WriterSound'
  BY <1>1, <1>2, <1>3 DEF WriterSound
<1>8. QED
  BY <1>1, <1>4, <1>5, <1>6, <1>7, WriteKeeps DEF Base

LEMMA LinkIs ==
  ASSUME Base, Link
  PROVE  /\ DOMAIN history' = DOMAIN history
         /\ writer.id \in Ids
         /\ \A id \in DOMAIN history :
              /\ history'[id] \in [play : Plays, reference_id : Nat]
              /\ history'[id].play = history[id].play
              /\ id # writer.id => history'[id] = history[id]
              /\ id = writer.id => history'[id].reference_id = id
         /\ writer' \in [pc : {"idle", "link", "update", "insert"}, play : Live \cup {"none"},
                         id : Nat]
         /\ writer.pc = "link" /\ writer'.pc = "update" /\ writer'.play = writer.play
         /\ writer'.id = writer.id
<1>1. PICK w, h : w = writer /\ h = history
  OBVIOUS
<1>2. /\ HistoryType /\ WriterType /\ WriterSound
  BY DEF Base
<1>3. /\ w \in [pc : {"idle", "link", "update", "insert"}, play : Live \cup {"none"}, id : Nat]
      /\ w.pc = "link" /\ w.id \in Ids
  BY <1>1, <1>2 DEF WriterType, WriterSound, Link
<1>4. writer' = [w EXCEPT !.pc = "update"] /\ "update" \in {"idle", "link", "update", "insert"}
  BY <1>1 DEF Link
<1>5. /\ writer' \in [pc : {"idle", "link", "update", "insert"}, play : Live \cup {"none"},
                      id : Nat]
      /\ writer'.pc = "update" /\ writer'.play = w.play /\ writer'.id = w.id
  BY <1>3, <1>4
<1>6. history' = [id \in DOMAIN h |-> IF id = w.id THEN [h[id] EXCEPT !.reference_id = id] ELSE h[id]]
  BY <1>1 DEF Link
<1>7. DOMAIN history' = DOMAIN h
  BY <1>6
<1>8. ASSUME NEW id \in DOMAIN h
      PROVE  /\ history'[id] \in [play : Plays, reference_id : Nat]
             /\ history'[id].play = h[id].play
             /\ id # w.id => history'[id] = h[id]
             /\ id = w.id => history'[id].reference_id = id
  <2>1. PICK r, s : r = h[id] /\ s = history'[id]
    OBVIOUS
  <2>2. r \in [play : Plays, reference_id : Nat] /\ id \in Nat
    BY <1>1, <1>2, <1>8, <2>1 DEF HistoryType, Ids
  <2>3. s = IF id = w.id THEN [r EXCEPT !.reference_id = id] ELSE r
    BY <1>6, <1>8, <2>1
  <2>4. /\ s \in [play : Plays, reference_id : Nat] /\ s.play = r.play
        /\ id # w.id => s = r
        /\ id = w.id => s.reference_id = id
    BY <2>2, <2>3
  <2>5. QED
    BY <2>1, <2>4
<1>9. QED
  BY <1>1, <1>3, <1>5, <1>7, <1>8

LEMMA LinkBase ==
  ASSUME Base, Write, Link
  PROVE  Base'
<1>1. /\ HistoryType /\ DetailsType /\ WriterType /\ WriterSound /\ seq \in Nat
  BY DEF Base
<1>2. UNCHANGED <<details, seq, running, logged, beside>>
  BY DEF Link
<1>3. HistoryType'
  BY <1>1, LinkIs DEF HistoryType
<1>4. DetailsType'
  BY <1>1, <1>2 DEF DetailsType
<1>5. WriterType'
  BY <1>1, <1>2, LinkIs, WriteKeeps DEF WriterType
<1>6. WriterSound'
  BY <1>1, <1>2, LinkIs DEF WriterSound
<1>7. QED
  BY <1>1, <1>2, <1>3, <1>4, <1>5, <1>6, WriteKeeps DEF Base

\* What the last statements of the writer do to the details.
LEMMA DetailsWritten ==
  ASSUME Base, UpdateDetails \/ InsertDetails
  PROVE  /\ writer.id \in Ids /\ writer.play \in Live \ (running \cup logged)
         /\ writer.pc # "idle" /\ UNCHANGED <<history, seq, running, beside>>
         /\ \/ /\ WriterEnds
               /\ DOMAIN details' = DOMAIN details \cup {writer.id}
               /\ \A id \in DOMAIN details : id # writer.id => details'[id] = details[id]
               /\ details'[writer.id] \in {writer.play, details[writer.id]}
               /\ writer.pc = "update" => details'[writer.id] = writer.play
               /\ writer.id \notin DOMAIN details => details'[writer.id] = writer.play
            \/ /\ UNCHANGED <<details, logged>> /\ writer.id \notin DOMAIN details
               /\ writer' \in [pc : {"idle", "link", "update", "insert"},
                               play : Live \cup {"none"}, id : Nat]
               /\ writer.pc = "update" /\ writer'.pc = "insert"
               /\ writer'.play = writer.play /\ writer'.id = writer.id
<1>1. PICK w, d : w = writer /\ d = details
  OBVIOUS
<1>2. /\ w \in [pc : {"idle", "link", "update", "insert"}, play : Live \cup {"none"}, id : Nat]
      /\ w.pc \in {"update", "insert"} /\ w.id \in Ids /\ w.play \in Live \ (running \cup logged)
      /\ UNCHANGED <<history, seq, running, beside>>
  BY <1>1 DEF Base, WriterType, WriterSound, UpdateDetails, InsertDetails
<1>3. CASE UpdateDetails /\ w.id \in DOMAIN d
  <2>1. details' = [d EXCEPT ![w.id] = w.play] /\ WriterEnds
    BY <1>1, <1>3 DEF UpdateDetails
  <2>2. /\ DOMAIN details' = DOMAIN d /\ details'[w.id] = w.play
        /\ \A id \in DOMAIN d : id # w.id => details'[id] = d[id]
    BY <1>3, <2>1
  <2>3. QED
    BY <1>1, <1>2, <1>3, <2>1, <2>2
<1>4. CASE UpdateDetails /\ w.id \notin DOMAIN d
  <2>1. /\ writer' = [w EXCEPT !.pc = "insert"] /\ UNCHANGED <<details, logged>>
        /\ "insert" \in {"idle", "link", "update", "insert"} /\ w.pc = "update"
    BY <1>1, <1>4 DEF UpdateDetails
  <2>2. /\ writer' \in [pc : {"idle", "link", "update", "insert"}, play : Live \cup {"none"},
                        id : Nat]
        /\ writer'.pc = "insert" /\ writer'.play = w.play /\ writer'.id = w.id
    BY <1>2, <2>1
  <2>3. QED
    BY <1>1, <1>2, <1>4, <2>1, <2>2
<1>5. CASE InsertDetails
  <2>1. PICK g : g = [n \in {w.id} |-> w.play]
    OBVIOUS
  <2>2. DOMAIN g = {w.id} /\ g[w.id] = w.play
    BY <2>1
  <2>3. details' = Extended(d, g) /\ WriterEnds /\ w.pc = "insert"
    BY <1>1, <1>5, <2>1 DEF InsertDetails
  <2>4. /\ DOMAIN details' = DOMAIN d \cup {w.id}
        /\ \A id \in DOMAIN d : details'[id] = d[id]
    BY <2>2, <2>3 DEF Extended
  <2>5. w.id \notin DOMAIN d => details'[w.id] = w.play
    BY <2>2, <2>3 DEF Extended
  <2>6. details'[w.id] \in {w.play, d[w.id]}
    BY <2>4, <2>5
  <2>7. QED
    BY <1>1, <1>2, <2>3, <2>4, <2>5, <2>6
<1>6. QED
  BY <1>1, <1>3, <1>4, <1>5

LEMMA DetailsBase ==
  ASSUME Base, Write, UpdateDetails \/ InsertDetails
  PROVE  Base'
<1>1. /\ HistoryType /\ DetailsType /\ WriterType /\ WriterSound /\ seq \in Nat
  BY DEF Base
<1>2. Live \subseteq Plays /\ writer.play \in Plays
  BY DetailsWritten, FilesType
<1>3. HistoryType'
  BY <1>1, DetailsWritten DEF HistoryType
<1>4. CASE /\ WriterEnds
           /\ DOMAIN details' = DOMAIN details \cup {writer.id}
           /\ \A id \in DOMAIN details : id # writer.id => details'[id] = details[id]
           /\ details'[writer.id] \in {writer.play, details[writer.id]}
           /\ writer.id \notin DOMAIN details => details'[writer.id] = writer.play
  <2>1. DetailsType'
    BY <1>1, <1>2, <1>4, DetailsWritten DEF DetailsType
  <2>2. WriterType'
    BY <1>1, <1>2, <1>4, DetailsWritten, WriteKeeps DEF WriterType, WriterEnds, NotWriting
  <2>3. WriterSound'
    BY <1>1, <1>4, DetailsWritten DEF WriterSound, WriterEnds, NotWriting
  <2>4. QED
    BY <1>1, <1>3, <2>1, <2>2, <2>3, DetailsWritten, WriteKeeps DEF Base
<1>5. CASE /\ UNCHANGED <<details, logged>>
           /\ writer' \in [pc : {"idle", "link", "update", "insert"}, play : Live \cup {"none"},
                           id : Nat]
           /\ writer.pc = "update" /\ writer'.pc = "insert"
           /\ writer'.play = writer.play /\ writer'.id = writer.id
  <2>1. DetailsType'
    BY <1>1, <1>5 DEF DetailsType
  <2>2. WriterType'
    BY <1>1, <1>5, DetailsWritten, WriteKeeps DEF WriterType
  <2>3. WriterSound'
    BY <1>1, <1>5, DetailsWritten DEF WriterSound
  <2>4. QED
    BY <1>1, <1>3, <2>1, <2>2, <2>3, DetailsWritten, WriteKeeps DEF Base
<1>6. QED
  BY <1>4, <1>5, DetailsWritten

LEMMA InitBase ==
  ASSUME Init PROVE Base
<1>1. ImportType
  BY NotImportingIs DEF Init, ImportType
<1>2. HistoryType
  BY FilesType, FileRows DEF Init, HistoryType
<1>3. DetailsType
  BY FilesType, FileRows DEF Init, DetailsType, PlaysOf
<1>4. CopiesType
  <2>1. copies = << >> /\ DOMAIN << >> = {} /\ IsTable(<< >>)
    BY DEF Init, IsTable
  <2>2. QED
    BY <2>1 DEF CopiesType
<1>5. WriterType
  BY FilesType DEF Init, WriterType, NotWriting
<1>6. WriterSound
  BY FilesType DEF Init, WriterSound, NotWriting
<1>7. seq \in Nat
  <2>1. DOMAIN Logged \subseteq Nat /\ IsFiniteSet(DOMAIN Logged)
    BY FilesType DEF Ids
  <2>2. Highest(DOMAIN Logged) \in Nat
    BY <2>1, HighestIs
  <2>3. QED
    BY <2>2 DEF Init
<1>8. QED
  BY <1>1, <1>2, <1>3, <1>4, <1>5, <1>6, <1>7 DEF Init, Base

LEMMA StutterBase ==
  ASSUME Base, UNCHANGED vars PROVE Base'
<1>1. UNCHANGED <<IS_IMPORTING, history, details, seq, copies, importer, writer, running, logged,
                  beside, disturbed, cleared, imported>>
  BY DEF vars, tables, aux
<1>2. ImportType' /\ HistoryType' /\ DetailsType'
  BY <1>1 DEF Base, ImportType, HistoryType, DetailsType
<1>3. CopiesType' /\ WriterType' /\ WriterSound'
  BY <1>1 DEF Base, CopiesType, WriterType, WriterSound
<1>4. QED
  BY <1>1, <1>2, <1>3 DEF Base

LEMMA StatementBase ==
  ASSUME Base, NEW i \in Importers, Statement(i)
  PROVE  Base'
  BY ReadSeqBase, CreateBase, ShiftBase, ClearBase, InsertRowsBase, DedupeBase, DropBase
     DEF Statement

LEMMA WriteBase ==
  ASSUME Base, Write
  PROVE  Base'
  BY LogRowBase, LinkBase, DetailsBase DEF Write

LEMMA FinishBase ==
  ASSUME Base, NEW i \in Importers, Finish(i)
  PROVE  Base'
<1>1. importer[i].seq \in Nat
  BY ImporterIs
<1>2. imported' \subseteq Nat
  <2>1. imported \subseteq Nat /\ 0 \in Nat
    BY DEF Base, WriterType
  <2>2. PICK n : n = IF importer[i].method = "merge" THEN importer[i].seq ELSE 0
    OBVIOUS
  <2>3. n \in Nat
    BY <1>1, <2>2
  <2>4. imported' = imported \/ imported' = imported \cup {n}
    BY <2>2 DEF Finish
  <2>5. QED
    BY <2>1, <2>3, <2>4
<1>3. QED
  BY <1>2, EndBase DEF Finish, Base

LEMMA NextBase ==
  ASSUME Base, Next
  PROVE  Base'
<1>1. ASSUME NEW i \in Importers, NEW method \in Methods, Begin(i, method) PROVE Base'
  BY <1>1, BeginBase
<1>2. ASSUME NEW i \in Importers, Refuse(i) PROVE Base'
  BY <1>2, EndBase DEF Refuse, aux, Base, WriterType
<1>3. ASSUME NEW i \in Importers, Announce(i) PROVE Base'
  BY <1>3, AnnounceBase
<1>4. ASSUME NEW i \in Importers, Statement(i) PROVE Base'
  BY <1>4, StatementBase
<1>5. ASSUME NEW i \in Importers, Finish(i) PROVE Base'
  BY <1>5, FinishBase
<1>6. ASSUME NEW i \in Importers, Lose(i) PROVE Base'
  BY <1>6, LoseBase
<1>7. ASSUME NEW i \in Importers, Raise(i) PROVE Base'
  BY <1>7, EndBase DEF Raise, Base, WriterType
<1>8. CASE Write
  BY <1>8, WriteBase
<1>9. CASE Restart
  BY <1>9, RestartBase
<1>10. QED
  BY <1>1, <1>2, <1>3, <1>4, <1>5, <1>6, <1>7, <1>8, <1>9 DEF Next
-----------------------------------------------------------------------------
(* The statements by their numbers: what each of them does. *)

DropOf(name) ==
  /\ DOMAIN copies' = DOMAIN copies \ {name}
  /\ \A other \in DOMAIN copies' : copies'[other] = copies[other]
  /\ UNCHANGED <<history, details, seq>>

MergeForm(i) ==
  LET at == importer[i].at
      s == importer[i].seq
  IN  \/ at = 1 /\ importer'[i].seq = seq /\ UNCHANGED <<history, details, seq, copies>>
      \/ at = 2 /\ copies' = Temporary("history", Import) /\ UNCHANGED <<history, details, seq>>
      \/ /\ at = 3 /\ "history" \in DOMAIN copies
         /\ copies' = Temporary("history", Shifted(copies["history"], s))
         /\ UNCHANGED <<history, details, seq>>
      \/ /\ at = 4 /\ "history" \in DOMAIN copies
         /\ copies' = Temporary("history", ShiftedReferences(copies["history"], s))
         /\ UNCHANGED <<history, details, seq>>
      \/ at = 5 /\ copies' = Temporary("details", PlaysOf(Import)) /\ UNCHANGED <<history, details, seq>>
      \/ /\ at = 6 /\ "details" \in DOMAIN copies
         /\ copies' = Temporary("details", Shifted(copies["details"], s))
         /\ UNCHANGED <<history, details, seq>>
      \/ /\ at = 7 /\ "history" \in DOMAIN copies
         /\ history' = Extended(history, copies["history"])
         /\ seq' = Highest({seq} \cup DOMAIN history') /\ UNCHANGED <<details, copies>>
      \/ /\ at = 8 /\ "details" \in DOMAIN copies
         /\ details' = Extended(details, copies["details"]) /\ UNCHANGED <<history, seq, copies>>
      \/ at = 9 /\ history' = Restricted(history, Oldest) /\ UNCHANGED <<details, seq, copies>>
      \/ at = 10 /\ details' = Restricted(details, DOMAIN history) /\ UNCHANGED <<history, seq, copies>>
      \/ at = 11 /\ DropOf("history")
      \/ at = 12 /\ DropOf("details")

OverwriteForm(i) ==
  LET at == importer[i].at
  IN  \/ at = 1 /\ UNCHANGED <<history, details, seq, copies>>
      \/ at = 2 /\ history' = << >> /\ UNCHANGED <<details, seq, copies>>
      \/ at = 3 /\ seq' = 0 /\ UNCHANGED <<history, details, copies>>
      \/ /\ at = 4 /\ history' = Extended(history, Import)
         /\ seq' = Highest({seq} \cup DOMAIN history') /\ UNCHANGED <<details, copies>>
      \/ at = 5 /\ details' = << >> /\ UNCHANGED <<history, seq, copies>>
      \/ /\ at = 6 /\ details' = Extended(details, PlaysOf(Import))
         /\ UNCHANGED <<history, seq, copies>>

\* Every statement has one of these forms, and the import goes on to the next.
StatementForm(i) ==
  /\ UnderWay(i) /\ UNCHANGED <<IS_IMPORTING, writer, aux>>
  /\ importer'[i].at = importer[i].at + 1
  /\ importer'[i].pc = importer[i].pc /\ importer'[i].method = importer[i].method
  /\ importer[i].at # 1 => importer'[i].seq = importer[i].seq
  /\ \A j \in Importers : j # i => importer'[j] = importer[j]
  /\ \/ Merging(i) /\ MergeForm(i)
     \/ Overwriting(i) /\ OverwriteForm(i)

\* A statement that is not the first, when both the tables and the importer are known.
LEMMA FormOf ==
  ASSUME Base, NEW i \in Importers, NEW name, At(i, name), Step(i),
         UNCHANGED <<IS_IMPORTING, writer, aux>>,
         importer[i].method = "merge" => MergeForm(i),
         importer[i].method = "overwrite" => OverwriteForm(i)
  PROVE  StatementForm(i)
  BY StatementStep, ImporterIs DEF StatementForm, Merging, Overwriting

LEMMA ReadSeqForm ==
  ASSUME Base, NEW i \in Importers, Statement(i), ReadSeq(i)
  PROVE  StatementForm(i)
<1>1. UNCHANGED <<history, details, seq, copies, IS_IMPORTING, writer, aux>>
  BY DEF ReadSeq, Statement, tables
<1>2. importer[i].method = "merge" => MergeForm(i)
  BY <1>1, ReadSeqStep DEF MergeForm
<1>3. importer[i].method = "overwrite" => OverwriteForm(i)
  BY <1>1, ReadSeqStep DEF OverwriteForm
<1>4. QED
  BY <1>1, <1>2, <1>3, ReadSeqStep, ImporterIs DEF StatementForm, Merging, Overwriting

LEMMA CreateForm ==
  ASSUME Base, NEW i \in Importers, Statement(i), Create(i)
  PROVE  StatementForm(i)
<1>1. UNCHANGED <<history, details, seq, IS_IMPORTING, writer, aux>> /\ Step(i)
  BY DEF Create, Statement
<1>2. CASE At(i, "create_history") /\ copies' = Temporary("history", Import)
  <2>1. importer[i].method = "merge"
    BY <1>2, MergeOnly
  <2>2. importer[i].at = 2
    BY <1>2, <2>1, AtNumber, BaseTyped
  <2>3. MergeForm(i)
    BY <1>1, <1>2, <2>2 DEF MergeForm
  <2>4. QED
    BY <1>1, <1>2, <2>1, <2>3, FormOf
<1>3. CASE At(i, "create_details") /\ copies' = Temporary("details", PlaysOf(Import))
  <2>1. importer[i].method = "merge"
    BY <1>3, MergeOnly
  <2>2. importer[i].at = 5
    BY <1>3, <2>1, AtNumber, BaseTyped
  <2>3. MergeForm(i)
    BY <1>1, <1>3, <2>2 DEF MergeForm
  <2>4. QED
    BY <1>1, <1>3, <2>1, <2>3, FormOf
<1>4. QED
  BY <1>2, <1>3 DEF Create

LEMMA ShiftForm ==
  ASSUME Base, NEW i \in Importers, Statement(i), Shift(i)
  PROVE  StatementForm(i)
<1>1. UNCHANGED <<history, details, seq, IS_IMPORTING, writer, aux>> /\ Step(i)
  BY DEF Shift, Statement
<1>2. MergeForm(i) /\ importer[i].method = "merge"
  BY <1>1, ShiftCopies DEF MergeForm
<1>3. PICK name : At(i, name)
  BY DEF Shift
<1>4. QED
  BY <1>1, <1>2, <1>3, FormOf

LEMMA ClearForm ==
  ASSUME Base, NEW i \in Importers, Statement(i), Clear(i)
  PROVE  StatementForm(i)
<1>1. UNCHANGED <<copies, IS_IMPORTING, writer, aux>> /\ Step(i)
  BY DEF Clear, Statement
<1>2. PICK name \in {"clear_history", "reset_seq", "clear_details"} :
        /\ At(i, name)
        /\ name = "clear_history" => history' = << >> /\ UNCHANGED <<details, seq>>
        /\ name = "reset_seq" => seq' = 0 /\ UNCHANGED <<history, details>>
        /\ name = "clear_details" => details' = << >> /\ UNCHANGED <<history, seq>>
  <2>1. "clear_history" # "reset_seq" /\ "clear_history" # "clear_details"
          /\ "reset_seq" # "clear_details"
    OBVIOUS
  <2>2. CASE At(i, "clear_history") /\ history' = << >> /\ UNCHANGED <<details, seq>>
    BY <2>1, <2>2
  <2>3. CASE At(i, "reset_seq") /\ seq' = 0 /\ UNCHANGED <<history, details>>
    BY <2>1, <2>3
  <2>4. CASE At(i, "clear_details") /\ details' = << >> /\ UNCHANGED <<history, seq>>
    BY <2>1, <2>4
  <2>5. QED
    BY <2>2, <2>3, <2>4 DEF Clear
<1>3. importer[i].method # "merge"
  <2>1. SUFFICES ASSUME importer[i].method = "merge" PROVE FALSE
    OBVIOUS
  <2>2. PICK at : at = importer[i].at
    OBVIOUS
  <2>3. at \in 1 .. 12
    BY <1>2, <2>2, AtNumber, BaseTyped
  <2>4. Program["merge"][at] = name
    BY <1>2, <2>1, <2>2 DEF At
  <2>5. at \in {1, 2, 3, 4, 5, 6, 7, 8, 9, 10, 11, 12}
    BY <2>3
  <2>6. QED
    BY <2>4, <2>5, MergeProgram
<1>4. OverwriteForm(i)
  <2>1. importer[i].method = "overwrite"
    BY <1>3, ImporterIs
  <2>2. /\ name = "clear_history" => importer[i].at = 2
        /\ name = "reset_seq" => importer[i].at = 3
        /\ name = "clear_details" => importer[i].at = 5
    BY <1>2, <2>1, AtNumber, BaseTyped
  <2>3. QED
    BY <1>1, <1>2, <2>2 DEF OverwriteForm
<1>5. QED
  BY <1>1, <1>2, <1>3, <1>4, FormOf

LEMMA InsertRowsForm ==
  ASSUME Base, NEW i \in Importers, Statement(i), InsertRows(i)
  PROVE  StatementForm(i)
<1>1. UNCHANGED <<copies, IS_IMPORTING, writer, aux>> /\ Step(i) /\ ~Failing(i)
  BY DEF InsertRows, Statement
<1>2. CASE /\ At(i, "insert_history")
           /\ history' = Extended(history, Source(i, "history"))
           /\ seq' = Highest({seq} \cup DOMAIN history')
           /\ UNCHANGED details
  <2>1. ASSUME importer[i].method = "merge" PROVE MergeForm(i)
    <3>1. importer[i].at = 7 /\ "history" \in DOMAIN copies
      BY <1>1, <1>2, <2>1, AtNumber, NotFailing, BaseTyped
    <3>2. Source(i, "history") = copies["history"]
      BY <2>1 DEF Source
    <3>3. QED
      BY <1>1, <1>2, <3>1, <3>2 DEF MergeForm
  <2>2. ASSUME importer[i].method = "overwrite" PROVE OverwriteForm(i)
    <3>1. importer[i].at = 4
      BY <1>2, <2>2, AtNumber, BaseTyped
    <3>2. Source(i, "history") = Import
      BY <2>2 DEF Source
    <3>3. QED
      BY <1>1, <1>2, <3>1, <3>2 DEF OverwriteForm
  <2>3. QED
    BY <1>1, <1>2, <2>1, <2>2, FormOf
<1>3. CASE /\ At(i, "insert_details")
           /\ details' = Extended(details, Source(i, "details"))
           /\ UNCHANGED <<history, seq>>
  <2>1. ASSUME importer[i].method = "merge" PROVE MergeForm(i)
    <3>1. importer[i].at = 8 /\ "details" \in DOMAIN copies
      BY <1>1, <1>3, <2>1, AtNumber, NotFailing, BaseTyped
    <3>2. Source(i, "details") = copies["details"]
      BY <2>1 DEF Source
    <3>3. QED
      BY <1>1, <1>3, <3>1, <3>2 DEF MergeForm
  <2>2. ASSUME importer[i].method = "overwrite" PROVE OverwriteForm(i)
    <3>1. importer[i].at = 6
      BY <1>3, <2>2, AtNumber, BaseTyped
    <3>2. Source(i, "details") = PlaysOf(Import)
      BY <2>2 DEF Source
    <3>3. QED
      BY <1>1, <1>3, <3>1, <3>2 DEF OverwriteForm
  <2>3. QED
    BY <1>1, <1>3, <2>1, <2>2, FormOf
<1>4. QED
  BY <1>2, <1>3 DEF InsertRows, InsertOrIgnore

LEMMA DedupeForm ==
  ASSUME Base, NEW i \in Importers, Statement(i), Dedupe(i)
  PROVE  StatementForm(i)
<1>1. UNCHANGED <<seq, copies, IS_IMPORTING, writer, aux>> /\ Step(i)
  BY DEF Dedupe, Statement
<1>2. CASE At(i, "dedupe_history") /\ history' = Restricted(history, Oldest) /\ UNCHANGED details
  <2>1. importer[i].method = "merge"
    BY <1>2, MergeOnly
  <2>2. importer[i].at = 9
    BY <1>2, <2>1, AtNumber, BaseTyped
  <2>3. MergeForm(i)
    BY <1>1, <1>2, <2>2 DEF MergeForm
  <2>4. QED
    BY <1>1, <1>2, <2>1, <2>3, FormOf
<1>3. CASE /\ At(i, "dedupe_details") /\ details' = Restricted(details, DOMAIN history)
           /\ UNCHANGED history
  <2>1. importer[i].method = "merge"
    BY <1>3, MergeOnly
  <2>2. importer[i].at = 10
    BY <1>3, <2>1, AtNumber, BaseTyped
  <2>3. MergeForm(i)
    BY <1>1, <1>3, <2>2 DEF MergeForm
  <2>4. QED
    BY <1>1, <1>3, <2>1, <2>3, FormOf
<1>4. QED
  BY <1>2, <1>3 DEF Dedupe

LEMMA DropForm ==
  ASSUME Base, NEW i \in Importers, Statement(i), Drop(i)
  PROVE  StatementForm(i)
<1>1. UNCHANGED <<history, details, seq, IS_IMPORTING, writer, aux>> /\ Step(i)
  BY DEF Drop, Statement
<1>2. PICK name \in DOMAIN copies :
        /\ At(i, IF name = "history" THEN "drop_history" ELSE "drop_details")
        /\ copies' = Restricted(copies, DOMAIN copies \ {name})
  BY DEF Drop
<1>3. /\ DOMAIN copies' = DOMAIN copies \ {name}
      /\ \A other \in DOMAIN copies' : copies'[other] = copies[other]
  BY <1>2 DEF Restricted
<1>4. name \in {"history", "details"}
  BY DEF Base, CopiesType
<1>5. DropOf(name)
  BY <1>1, <1>3 DEF DropOf
<1>6. CASE name = "history"
  <2>1. At(i, "drop_history")
    BY <1>2, <1>6
  <2>2. importer[i].method = "merge"
    BY <2>1, MergeOnly
  <2>3. importer[i].at = 11
    BY <2>1, <2>2, AtNumber, BaseTyped
  <2>4. MergeForm(i)
    BY <1>5, <1>6, <2>3 DEF MergeForm
  <2>5. QED
    BY <1>1, <2>1, <2>2, <2>4, FormOf
<1>7. CASE name = "details"
  <2>1. At(i, "drop_details")
    BY <1>2, <1>7
  <2>2. importer[i].method = "merge"
    BY <2>1, MergeOnly
  <2>3. importer[i].at = 12
    BY <2>1, <2>2, AtNumber, BaseTyped
  <2>4. MergeForm(i)
    BY <1>5, <1>7, <2>3 DEF MergeForm
  <2>5. QED
    BY <1>1, <2>1, <2>2, <2>4, FormOf
<1>8. QED
  BY <1>4, <1>6, <1>7

LEMMA Formed ==
  ASSUME Base, NEW i \in Importers, Statement(i)
  PROVE  StatementForm(i)
  BY ReadSeqForm, CreateForm, ShiftForm, ClearForm, InsertRowsForm, DedupeForm, DropForm
     DEF Statement
-----------------------------------------------------------------------------
(* The flag: while nothing goes wrong one import at most is under way. *)

LEMMA AfterStatement ==
  ASSUME Base, NEW i \in Importers, StatementForm(i)
  PROVE  /\ \A j \in Importers : /\ UnderWay(j)' <=> UnderWay(j)
                                 /\ Merging(j)' <=> Merging(j)
                                 /\ Overwriting(j)' <=> Overwriting(j)
         /\ importer[i].at \in 1 .. 12 /\ importer'[i].at = importer[i].at + 1
         /\ Overwriting(i) => importer[i].at \in 1 .. 6
         /\ UNCHANGED <<IS_IMPORTING, writer, running, logged, beside, disturbed, cleared, imported>>
<1>1. importer[i].at \in 1 .. 12
  BY ImporterIs DEF StatementForm, MergeForm, OverwriteForm
<1>2. Overwriting(i) => importer[i].at \in 1 .. 6
  BY DEF StatementForm, OverwriteForm, Overwriting, Merging
<1>3. QED
  BY <1>1, <1>2 DEF StatementForm, UnderWay, Merging, Overwriting, aux

\* Outside the statements no import is under way that was not, but for Announce.
LEMMA OthersStay ==
  ASSUME Base, NEW i \in Importers, NEW s, importer' = [importer EXCEPT ![i] = s]
  PROVE  /\ importer'[i] = s
         /\ \A j \in Importers : j # i => /\ importer'[j] = importer[j]
                                          /\ UnderWay(j)' <=> UnderWay(j)
                                          /\ Merging(j)' <=> Merging(j)
                                          /\ Overwriting(j)' <=> Overwriting(j)
  BY DEF Base, ImportType, UnderWay, Merging, Overwriting

LEMMA DisturbedStays ==
  ASSUME Next, ~disturbed'
  PROVE  ~disturbed
  BY DEF Next, Begin, Refuse, Announce, Statement, ReadSeq, Create, Shift, Clear, InsertRows,
         Dedupe, Drop, Finish, Lose, Raise, Write, Restart, aux

\* The steps of a run in which nothing goes wrong, with what they do to the imports.
LEMMA BeginIs ==
  ASSUME Base, NEW i \in Importers, NEW method \in Methods, Begin(i, method)
  PROVE  /\ ~UnderWay(i) /\ \A j \in Importers : /\ UnderWay(j)' <=> UnderWay(j)
                                                 /\ Merging(j)' <=> Merging(j)
                                                 /\ Overwriting(j)' <=> Overwriting(j)
                                                 /\ UnderWay(j) => importer'[j] = importer[j]
         /\ UNCHANGED <<IS_IMPORTING, tables, writer, aux>>
<1>1. PICK s : s = [NotImporting EXCEPT !.pc = "validate", !.method = method]
  OBVIOUS
<1>2. s.pc = "validate"
  BY <1>1 DEF NotImporting
<1>3. importer' = [importer EXCEPT ![i] = s] /\ importer[i].pc = "idle"
  BY <1>1 DEF Begin
<1>4. importer'[i] = s /\ ~UnderWay(i) /\ ~UnderWay(i)'
  BY <1>2, <1>3, OthersStay DEF UnderWay
<1>5. \A j \in Importers : /\ UnderWay(j)' <=> UnderWay(j)
                           /\ Merging(j)' <=> Merging(j)
                           /\ Overwriting(j)' <=> Overwriting(j)
                           /\ UnderWay(j) => importer'[j] = importer[j]
  BY <1>3, <1>4, OthersStay DEF Merging, Overwriting
<1>6. UNCHANGED <<IS_IMPORTING, tables, writer, aux>>
  BY DEF Begin
<1>7. QED
  BY <1>4, <1>5, <1>6

LEMMA RefuseIs ==
  ASSUME Base, NEW i \in Importers, Refuse(i)
  PROVE  /\ ~UnderWay(i) /\ \A j \in Importers : /\ UnderWay(j)' <=> UnderWay(j)
                                                 /\ Merging(j)' <=> Merging(j)
                                                 /\ Overwriting(j)' <=> Overwriting(j)
                                                 /\ UnderWay(j) => importer'[j] = importer[j]
         /\ UNCHANGED <<IS_IMPORTING, tables, writer, aux>>
<1>1. importer' = [importer EXCEPT ![i] = NotImporting] /\ importer[i].pc = "validate"
  BY DEF Refuse
<1>2. importer'[i] = NotImporting /\ ~UnderWay(i) /\ ~UnderWay(i)'
  BY <1>1, NotImportingIs, OthersStay DEF UnderWay
<1>3. QED
  BY <1>1, <1>2, OthersStay DEF Refuse, Merging, Overwriting

LEMMA AnnounceIs ==
  ASSUME Base, NEW i \in Importers, Announce(i)
  PROVE  /\ ~UnderWay(i) /\ UnderWay(i)'
         /\ importer'[i].at = importer[i].at /\ importer'[i].method = importer[i].method
         /\ importer'[i].seq = importer[i].seq
         /\ \A j \in Importers : j # i => /\ importer'[j] = importer[j]
                                          /\ UnderWay(j)' <=> UnderWay(j)
                                          /\ Merging(j)' <=> Merging(j)
                                          /\ Overwriting(j)' <=> Overwriting(j)
<1>1. PICK r : r = importer[i]
  OBVIOUS
<1>2. PICK s : s = [r EXCEPT !.pc = "run"]
  OBVIOUS
<1>3. r \in ImporterStates /\ r.pc = "validate"
  BY <1>1, ImporterIs DEF Announce
<1>4. s.pc = "run" /\ s.at = r.at /\ s.method = r.method /\ s.seq = r.seq
  BY <1>2, <1>3 DEF ImporterStates
<1>5. importer' = [importer EXCEPT ![i] = s]
  BY <1>1, <1>2 DEF Announce
<1>6. importer'[i] = s
  BY <1>5, OthersStay
<1>7. QED
  BY <1>1, <1>3, <1>4, <1>5, <1>6, OthersStay DEF UnderWay

LEMMA FinishIs ==
  ASSUME Base, NEW i \in Importers, Finish(i)
  PROVE  /\ UnderWay(i) /\ ~UnderWay(i)'
         /\ Merging(i) => importer[i].at = 13
         /\ Overwriting(i) => importer[i].at = 7
         /\ Merging(i) \/ Overwriting(i)
         /\ \A j \in Importers : j # i => /\ importer'[j] = importer[j]
                                          /\ UnderWay(j)' <=> UnderWay(j)
                                          /\ Merging(j)' <=> Merging(j)
                                          /\ Overwriting(j)' <=> Overwriting(j)
<1>1. importer' = [importer EXCEPT ![i] = NotImporting] /\ UnderWay(i)
  BY DEF Finish
<1>2. ~UnderWay(i)'
  BY <1>1, NotImportingIs, OthersStay DEF UnderWay
<1>3. PICK at, method : at = importer[i].at /\ method = importer[i].method
  OBVIOUS
<1>4. at \in 1 .. 13 /\ method \in {"merge", "overwrite"} /\ (method = "overwrite" => at <= 7)
  BY <1>3, ImporterIs
<1>5. at > Len(Program[method])
  BY <1>3 DEF Finish
<1>6. method = "merge" => at = 13
  <2>1. method = "merge" => at > 12
    BY <1>5, Lengths
  <2>2. QED
    BY <1>4, <2>1
<1>7. method = "overwrite" => at = 7
  <2>1. method = "overwrite" => at > 6
    BY <1>5, Lengths
  <2>2. QED
    BY <1>4, <2>1
<1>8. /\ Merging(i) => importer[i].at = 13
      /\ Overwriting(i) => importer[i].at = 7
      /\ Merging(i) \/ Overwriting(i)
  BY <1>1, <1>3, <1>4, <1>6, <1>7 DEF Merging, Overwriting
<1>9. QED
  BY <1>1, <1>2, <1>8, OthersStay

\* The temporary tables after a statement of a merge.
LEMMA CopiesAfter ==
  ASSUME Base, NEW i \in Importers, StatementForm(i)
  PROVE  /\ Overwriting(i) => DOMAIN copies' = DOMAIN copies
         /\ Merging(i) =>
              /\ importer[i].at \in {2} => DOMAIN copies' = DOMAIN copies \cup {"history"}
              /\ importer[i].at \in {5} => DOMAIN copies' = DOMAIN copies \cup {"details"}
              /\ importer[i].at \in {11} => DOMAIN copies' = DOMAIN copies \ {"history"}
              /\ importer[i].at \in {12} => DOMAIN copies' = DOMAIN copies \ {"details"}
              /\ importer[i].at \notin {2, 5, 11, 12} => DOMAIN copies' = DOMAIN copies
<1>1. CASE Overwriting(i) /\ OverwriteForm(i)
  BY <1>1 DEF OverwriteForm, Overwriting, Merging
<1>2. CASE Merging(i) /\ MergeForm(i)
  <2>1. CASE importer[i].at = 2
    <3>1. copies' = Temporary("history", Import)
      BY <1>2, <2>1 DEF MergeForm
    <3>2. DOMAIN copies' = DOMAIN copies \cup {"history"}
      BY <3>1, TemporaryIs
    <3>3. QED
      BY <1>2, <2>1, <3>2 DEF Overwriting, Merging
  <2>2. CASE importer[i].at = 5
    <3>1. copies' = Temporary("details", PlaysOf(Import))
      BY <1>2, <2>2 DEF MergeForm
    <3>2. DOMAIN copies' = DOMAIN copies \cup {"details"}
      BY <3>1, TemporaryIs
    <3>3. QED
      BY <1>2, <2>2, <3>2 DEF Overwriting, Merging
  <2>3. CASE importer[i].at \in {11, 12}
    BY <1>2, <2>3 DEF MergeForm, DropOf, Overwriting, Merging
  <2>4. CASE importer[i].at \in {3, 4, 6}
    <3>1. PICK name, table : copies' = Temporary(name, table) /\ name \in DOMAIN copies
      BY <1>2, <2>4 DEF MergeForm
    <3>2. DOMAIN copies' = DOMAIN copies
      BY <3>1, TemporaryIs
    <3>3. QED
      BY <1>2, <2>4, <3>2 DEF Overwriting, Merging
  <2>5. CASE importer[i].at \in {1, 7, 8, 9, 10}
    BY <1>2, <2>5 DEF MergeForm, Overwriting, Merging
  <2>6. importer[i].at \in {1, 2, 3, 4, 5, 6, 7, 8, 9, 10, 11, 12}
    BY <1>2 DEF MergeForm
  <2>7. QED
    BY <2>1, <2>2, <2>3, <2>4, <2>5, <2>6
<1>3. QED
  BY <1>1, <1>2 DEF StatementForm

LEMMA StatementAlone ==
  ASSUME Base, Alone, NEW i \in Importers, StatementForm(i)
  PROVE  Alone'
<1>1. PICK at : at = importer[i].at
  OBVIOUS
<1>2. /\ UnderWay(i) /\ at \in 1 .. 12 /\ importer'[i].at = at + 1 /\ UNCHANGED IS_IMPORTING
      /\ \A j \in Importers : (UnderWay(j)' <=> UnderWay(j)) /\ (Merging(j)' <=> Merging(j))
  BY <1>1, AfterStatement DEF StatementForm
<1>3. Merging(i) \/ Overwriting(i)
  BY DEF StatementForm
<1>4. ASSUME "history" \in DOMAIN copies'
      PROVE  \E j \in Importers : Merging(j)' /\ importer'[j].at \in 3 .. 11
  <2>1. CASE Overwriting(i)
    <3>1. "history" \in DOMAIN copies
      BY <1>4, <2>1, CopiesAfter
    <3>2. PICK j \in Importers : Merging(j)
      BY <3>1 DEF Alone
    <3>3. j = i
      BY <1>2, <3>2 DEF Alone, Merging
    <3>4. QED
      BY <2>1, <3>2, <3>3 DEF Merging, Overwriting
  <2>2. CASE Merging(i)
    <3>1. "history" \in DOMAIN copies => at \in 3 .. 11
      BY <1>1, <1>2 DEF Alone, Merging
    <3>2. at = 2 \/ (at # 11 /\ "history" \in DOMAIN copies)
      BY <1>1, <1>4, <2>2, CopiesAfter
    <3>3. at + 1 \in 3 .. 11
      BY <1>2, <3>1, <3>2
    <3>4. QED
      BY <1>2, <2>2, <3>3
  <2>3. QED
    BY <1>3, <2>1, <2>2
<1>5. ASSUME "details" \in DOMAIN copies'
      PROVE  \E j \in Importers : Merging(j)' /\ importer'[j].at \in 6 .. 12
  <2>1. CASE Overwriting(i)
    <3>1. "details" \in DOMAIN copies
      BY <1>5, <2>1, CopiesAfter
    <3>2. PICK j \in Importers : Merging(j)
      BY <3>1 DEF Alone
    <3>3. j = i
      BY <1>2, <3>2 DEF Alone, Merging
    <3>4. QED
      BY <2>1, <3>2, <3>3 DEF Merging, Overwriting
  <2>2. CASE Merging(i)
    <3>1. "details" \in DOMAIN copies => at \in 6 .. 12
      BY <1>1, <1>2 DEF Alone, Merging
    <3>2. at = 5 \/ (at # 12 /\ "details" \in DOMAIN copies)
      BY <1>1, <1>5, <2>2, CopiesAfter
    <3>3. at + 1 \in 6 .. 12
      BY <1>2, <3>1, <3>2
    <3>4. QED
      BY <1>2, <2>2, <3>3
  <2>3. QED
    BY <1>3, <2>1, <2>2
<1>6. QED
  BY <1>2, <1>4, <1>5 DEF Alone

LEMMA BeginAlone ==
  ASSUME Base, Alone, NEW i \in Importers,
         (\E method \in Methods : Begin(i, method)) \/ Refuse(i)
  PROVE  Alone'
<1>1. /\ \A j \in Importers : /\ UnderWay(j)' <=> UnderWay(j)
                              /\ Merging(j)' <=> Merging(j)
                              /\ UnderWay(j) => importer'[j] = importer[j]
      /\ UNCHANGED <<IS_IMPORTING, tables>>
  BY BeginIs, RefuseIs
<1>2. UNCHANGED copies /\ \A j \in Importers : Merging(j) => UnderWay(j)
  BY <1>1 DEF tables, Merging
<1>3. QED
  BY <1>1, <1>2 DEF Alone

LEMMA AnnounceAlone ==
  ASSUME Base, Alone, NEW i \in Importers, Announce(i), ~disturbed'
  PROVE  Alone'
<1>1. \A j \in Importers : ~UnderWay(j)
  BY AnnounceIs DEF Announce
<1>2. "history" \notin DOMAIN copies /\ "details" \notin DOMAIN copies
  BY <1>1 DEF Alone, Merging
<1>3. UNCHANGED copies /\ IS_IMPORTING' = TRUE
  BY DEF Announce, tables
<1>4. UnderWay(i)' /\ \A j \in Importers : j # i => ~UnderWay(j)'
  BY <1>1, AnnounceIs
<1>5. QED
  BY <1>2, <1>3, <1>4 DEF Alone

LEMMA FinishAlone ==
  ASSUME Base, Alone, NEW i \in Importers, Finish(i)
  PROVE  Alone'
<1>1. \A j \in Importers : j # i => ~UnderWay(j)
  BY FinishIs DEF Alone
<1>2. "history" \notin DOMAIN copies /\ "details" \notin DOMAIN copies
  <2>1. \A j \in Importers : Merging(j) => j = i /\ importer[j].at = 13
    BY <1>1, FinishIs DEF Merging
  <2>2. 13 \notin 3 .. 11 /\ 13 \notin 6 .. 12
    OBVIOUS
  <2>3. QED
    BY <2>1, <2>2 DEF Alone
<1>3. UNCHANGED copies /\ IS_IMPORTING' = FALSE
  BY DEF Finish, tables
<1>4. \A j \in Importers : ~UnderWay(j)'
  BY <1>1, FinishIs
<1>5. QED
  BY <1>2, <1>3, <1>4 DEF Alone

LEMMA RestartAlone ==
  ASSUME Base, Alone, Restart, ~disturbed'
  PROVE  Alone'
<1>1. \A j \in Importers : ~UnderWay(j)
  BY DEF Restart
<1>2. "history" \notin DOMAIN copies /\ "details" \notin DOMAIN copies
  BY <1>1 DEF Alone, Merging
<1>3. UNCHANGED copies /\ IS_IMPORTING' = FALSE
  BY DEF Restart, tables
<1>4. \A j \in Importers : ~UnderWay(j)'
  BY NotImportingIs DEF Restart, UnderWay
<1>5. QED
  BY <1>2, <1>3, <1>4 DEF Alone

LEMMA NextAlone ==
  ASSUME Base, Next, ~disturbed', ~disturbed => Alone
  PROVE  Alone'
<1>1. Alone
  BY DisturbedStays
<1>2. ASSUME NEW i \in Importers, Statement(i) PROVE Alone'
  BY <1>1, <1>2, Formed, StatementAlone
<1>3. CASE Write
  BY <1>1, <1>3, WriteKeeps DEF Alone, UnderWay, Merging
<1>4. ASSUME NEW i \in Importers, Lose(i) \/ Raise(i) PROVE FALSE
  BY <1>4 DEF Lose, Raise
<1>5. QED
  BY <1>1, <1>2, <1>3, <1>4, BeginAlone, AnnounceAlone, FinishAlone, RestartAlone DEF Next
-----------------------------------------------------------------------------
(* No play that was logged leaves the history, unless an overwrite empties it. *)

LEMMA FiniteMin ==
  ASSUME NEW S, S \subseteq Nat, IsFiniteSet(S), S # {}
  PROVE  \E m \in S : \A x \in S : m <= x
<1>1. PICK b \in S : \A x \in S : x <= b
  BY FiniteMax
<1>2. PICK T : T = {b - x : x \in S}
  OBVIOUS
<1>3. \A x \in S : b - x \in Nat /\ b - x <= b
  <2>1. \A x, y \in Nat : x <= y => y - x \in Nat /\ y - x <= y
    OBVIOUS
  <2>2. QED
    BY <1>1, <2>1
<1>4. T \in SUBSET Nat /\ b \in Nat /\ T # {} /\ \A y \in T : y <= b
  BY <1>1, <1>2, <1>3
<1>5. IsFiniteSet(T)
  BY <1>4, FS_BoundedSetOfNaturals
<1>6. PICK t \in T : \A y \in T : y <= t
  BY <1>4, <1>5, FiniteMax
<1>7. PICK m \in S : t = b - m
  BY <1>2, <1>6
<1>8. ASSUME NEW x \in S PROVE m <= x
  <2>1. b - x <= b - m
    BY <1>2, <1>6, <1>7
  <2>2. b \in Nat /\ x \in Nat /\ m \in Nat
    BY <1>1
  <2>3. QED
    BY <2>1, <2>2
<1>9. QED
  BY <1>8

\* Of the rows of a play the oldest is kept by dedupe.
LEMMA OldestOf ==
  ASSUME Base, NEW a \in DOMAIN history
  PROVE  \E m \in Oldest : /\ m \in DOMAIN history /\ history[m].play = history[a].play
                           /\ m <= a
<1>1. PICK S : S = {id \in DOMAIN history : history[id].play = history[a].play}
  OBVIOUS
<1>2. S \subseteq Nat /\ a \in S /\ S \subseteq DOMAIN history
  BY <1>1 DEF Base, HistoryType, Ids
<1>3. IsFiniteSet(S)
  BY <1>2, FS_Subset DEF Base, HistoryType
<1>4. PICK m \in S : \A x \in S : m <= x
  BY <1>2, <1>3, FiniteMin
<1>5. m \in Oldest
  BY <1>1, <1>4 DEF Oldest
<1>6. QED
  BY <1>1, <1>2, <1>4, <1>5

LEMMA DedupedIs ==
  ASSUME history' = Restricted(history, Oldest)
  PROVE  /\ DOMAIN history' = DOMAIN history \cap Oldest
         /\ \A id \in DOMAIN history' : history'[id] = history[id]
  BY DEF Restricted

\* What may happen to the history, whatever goes wrong.
LEMMA HistoryStep ==
  ASSUME Base, Next
  PROVE  \/ \E i \in Importers : Overwriting(i)
         \/ \A play : Present(play) => Present(play)'
<1>1. ASSUME DOMAIN history \subseteq DOMAIN history',
             \A id \in DOMAIN history : history'[id].play = history[id].play
      PROVE  \A play : Present(play) => Present(play)'
  BY <1>1 DEF Present
<1>2. ASSUME NEW i \in Importers, Statement(i), ~Overwriting(i)
      PROVE  \A play : Present(play) => Present(play)'
  <2>1. MergeForm(i)
    BY <1>2, Formed DEF StatementForm
  <2>2. CASE UNCHANGED history
    BY <1>1, <2>2
  <2>3. CASE history' = Extended(history, copies["history"])
    <3>1. /\ DOMAIN history \subseteq DOMAIN history'
          /\ \A id \in DOMAIN history : history'[id] = history[id]
      BY <2>3 DEF Extended
    <3>2. QED
      BY <1>1, <3>1
  <2>4. CASE history' = Restricted(history, Oldest)
    <3>1. ASSUME NEW a \in DOMAIN history
          PROVE  \E m \in DOMAIN history' : history'[m].play = history[a].play
      BY <2>4, OldestOf, DedupedIs
    <3>2. QED
      BY <3>1 DEF Present
  <2>5. QED
    BY <2>1, <2>2, <2>3, <2>4 DEF MergeForm, DropOf
<1>3. ASSUME UNCHANGED history PROVE \A play : Present(play) => Present(play)'
  BY <1>1, <1>3
<1>4. ASSUME NEW i \in Importers, NEW method \in Methods, Begin(i, method)
      PROVE  \A play : Present(play) => Present(play)'
  BY <1>3, <1>4 DEF Begin, tables
<1>5. ASSUME NEW i \in Importers,
             Refuse(i) \/ Announce(i) \/ Finish(i) \/ Lose(i) \/ Raise(i)
      PROVE  \A play : Present(play) => Present(play)'
  BY <1>3, <1>5 DEF Refuse, Announce, Finish, Lose, Raise, tables
<1>6. CASE Write
  <2>1. ASSUME NEW play \in Live, LogRow(play)
        PROVE  \A p : Present(p) => Present(p)'
    BY <1>1, <2>1, LogRowIs
  <2>2. CASE Link
    BY <1>1, <2>2, LinkIs
  <2>3. CASE UpdateDetails \/ InsertDetails
    BY <1>3, <2>3, DetailsWritten
  <2>4. QED
    BY <1>6, <2>1, <2>2, <2>3 DEF Write
<1>7. CASE Restart
  BY <1>3, <1>7 DEF Restart, tables
<1>8. QED
  BY <1>2, <1>4, <1>5, <1>6, <1>7 DEF Next

\* Until an overwrite is announced every import under way is a merge.
LEMMA MergesOnly ==
  ASSUME Base, Next, ~cleared', NoneLost
  PROVE  /\ ~cleared
         /\ \A j \in Importers : UnderWay(j)' => importer'[j].method = "merge"
<1>1. ~cleared
  BY DEF Next, Begin, Refuse, Announce, Statement, ReadSeq, Create, Shift, Clear, InsertRows,
         Dedupe, Drop, Finish, Lose, Raise, Write, Restart, aux
<1>2. \A j \in Importers : UnderWay(j) => importer[j].method = "merge"
  BY <1>1 DEF NoneLost
<1>3. ASSUME NEW i \in Importers, NEW method \in Methods, Begin(i, method)
      PROVE  \A j \in Importers : UnderWay(j)' => importer'[j].method = "merge"
  BY <1>2, <1>3, BeginIs
<1>4. ASSUME NEW i \in Importers, Refuse(i)
      PROVE  \A j \in Importers : UnderWay(j)' => importer'[j].method = "merge"
  BY <1>2, <1>4, RefuseIs
<1>5. ASSUME NEW i \in Importers, Announce(i)
      PROVE  \A j \in Importers : UnderWay(j)' => importer'[j].method = "merge"
  <2>1. importer[i].method = "merge"
    BY <1>5, ImporterIs DEF Announce
  <2>2. QED
    BY <1>2, <1>5, <2>1, AnnounceIs
<1>6. ASSUME NEW i \in Importers, Statement(i)
      PROVE  \A j \in Importers : UnderWay(j)' => importer'[j].method = "merge"
  <2>1. StatementForm(i)
    BY <1>6, Formed
  <2>2. QED
    BY <1>2, <2>1 DEF StatementForm, UnderWay
<1>7. ASSUME NEW i \in Importers, Finish(i)
      PROVE  \A j \in Importers : UnderWay(j)' => importer'[j].method = "merge"
  BY <1>2, <1>7, FinishIs
<1>8. ASSUME NEW i \in Importers, Lose(i)
      PROVE  \A j \in Importers : UnderWay(j)' => importer'[j].method = "merge"
  BY <1>2, <1>8, NextStatement DEF Lose, UnderWay
<1>9. ASSUME NEW i \in Importers, Raise(i)
      PROVE  \A j \in Importers : UnderWay(j)' => importer'[j].method = "merge"
  <2>1. importer' = [importer EXCEPT ![i] = NotImporting]
    BY <1>9 DEF Raise
  <2>2. QED
    BY <1>2, <2>1, NotImportingIs, OthersStay
<1>10. CASE Write
  BY <1>2, <1>10, WriteKeeps DEF UnderWay
<1>11. CASE Restart
  BY <1>11, NotImportingIs DEF Restart, UnderWay
<1>12. QED
  BY <1>1, <1>3, <1>4, <1>5, <1>6, <1>7, <1>8, <1>9, <1>10, <1>11 DEF Next

\* Who the writer is for, and what counts as logged.
LEMMA WriterStep ==
  ASSUME Base, Next
  PROVE  \/ UNCHANGED logged /\ (UNCHANGED writer \/ writer' = NotWriting)
         \/ \E play \in Live : LogRow(play) /\ UNCHANGED logged
         \/ /\ writer.pc # "idle" /\ UNCHANGED history
            /\ \/ UNCHANGED logged /\ writer'.play = writer.play /\ writer'.pc # "idle"
               \/ WriterEnds
         \/ /\ Link /\ UNCHANGED logged
            /\ writer.pc # "idle" /\ writer'.play = writer.play /\ writer'.pc # "idle"
<1>1. CASE Write
  <2>1. ASSUME NEW play \in Live, LogRow(play) PROVE UNCHANGED logged
    BY <2>1 DEF LogRow
  <2>2. ASSUME Link
        PROVE  /\ UNCHANGED logged
               /\ writer.pc # "idle" /\ writer'.play = writer.play /\ writer'.pc # "idle"
    BY <2>2, LinkIs DEF Link
  <2>3. ASSUME UpdateDetails \/ InsertDetails
        PROVE  /\ writer.pc # "idle" /\ UNCHANGED history
               /\ \/ UNCHANGED logged /\ writer'.play = writer.play /\ writer'.pc # "idle"
                  \/ WriterEnds
    BY <2>3, DetailsWritten
  <2>4. QED
    BY <1>1, <2>1, <2>2, <2>3 DEF Write
<1>2. ASSUME NEW i \in Importers, NEW method \in Methods, Begin(i, method)
      PROVE  UNCHANGED <<logged, writer>>
  BY <1>2 DEF Begin, aux
<1>3. ASSUME NEW i \in Importers,
             Refuse(i) \/ Announce(i) \/ Finish(i) \/ Lose(i) \/ Raise(i)
      PROVE  UNCHANGED <<logged, writer>>
  BY <1>3 DEF Refuse, Announce, Finish, Lose, Raise, aux
<1>4. ASSUME NEW i \in Importers, Statement(i) PROVE UNCHANGED <<logged, writer>>
  BY <1>4, Formed DEF StatementForm, aux
<1>5. CASE Restart
  BY <1>5 DEF Restart
<1>6. QED
  BY <1>1, <1>2, <1>3, <1>4, <1>5 DEF Next

LEMMA NextNoneLost ==
  ASSUME Base, NoneLost, Next
  PROVE  NoneLost'
<1>1. SUFFICES ASSUME ~cleared' PROVE NoneLost'
  BY DEF NoneLost
<1>2. ~cleared /\ \A j \in Importers : UnderWay(j)' => importer'[j].method = "merge"
  BY <1>1, MergesOnly
<1>3. \A play : Present(play) => Present(play)'
  <2>1. \A i \in Importers : ~Overwriting(i)
    BY <1>2 DEF NoneLost, Overwriting
  <2>2. QED
    BY <2>1, HistoryStep
<1>4. \A play \in logged : Present(play)
  BY <1>2 DEF NoneLost
<1>5. writer.pc # "idle" => Present(writer.play)
  BY <1>2 DEF NoneLost
<1>6. PICK w : w = writer.play
  OBVIOUS
<1>7. ASSUME \A play \in logged' : Present(play)',
             (writer.pc # "idle" => Present(writer.play))'
      PROVE  NoneLost'
  BY <1>2, <1>7 DEF NoneLost
<1>8. ASSUME NEW p, Present(p)', writer'.play = p
      PROVE  Present(writer.play)'
  BY <1>8 DEF Present
<1>9. CASE UNCHANGED logged /\ (UNCHANGED writer \/ writer' = NotWriting)
  <2>1. \A play \in logged' : Present(play)'
    BY <1>3, <1>4, <1>9
  <2>2. (writer.pc # "idle" => Present(writer.play))'
    <3>1. ASSUME writer'.pc # "idle" PROVE Present(writer.play)'
      <4>1. UNCHANGED writer
        BY <1>9, <3>1 DEF NotWriting
      <4>2. Present(w)' /\ writer'.play = w
        BY <1>3, <1>5, <1>6, <3>1, <4>1
      <4>3. QED
        BY <1>8, <4>2
    <3>2. QED
      BY <3>1
  <2>3. QED
    BY <1>7, <2>1, <2>2
<1>10. ASSUME NEW play \in Live, LogRow(play), UNCHANGED logged PROVE NoneLost'
  <2>1. Present(play)' /\ writer'.play = play
    BY <1>10, LogRowIs DEF Present
  <2>2. Present(writer.play)'
    BY <1>8, <2>1
  <2>3. \A p \in logged' : Present(p)'
    BY <1>3, <1>4, <1>10
  <2>4. QED
    BY <1>7, <2>2, <2>3
<1>11. CASE /\ writer.pc # "idle"
            /\ \/ UNCHANGED logged /\ writer'.play = writer.play /\ writer'.pc # "idle"
               \/ WriterEnds
  <2>1. Present(w)'
    BY <1>3, <1>5, <1>6, <1>11
  <2>2. CASE UNCHANGED logged /\ writer'.play = writer.play
    <3>1. Present(writer.play)'
      BY <1>6, <1>8, <2>1, <2>2
    <3>2. \A p \in logged' : Present(p)'
      BY <1>3, <1>4, <2>2
    <3>3. QED
      BY <1>7, <3>1, <3>2
  <2>3. CASE WriterEnds
    <3>1. logged' = logged \cup {w} /\ writer'.pc = "idle"
      BY <1>6, <2>3 DEF WriterEnds, NotWriting
    <3>2. \A p \in logged' : Present(p)'
      BY <1>3, <1>4, <2>1, <3>1
    <3>3. QED
      BY <1>7, <3>1, <3>2
  <2>4. QED
    BY <1>11, <2>2, <2>3
<1>12. QED
  BY <1>9, <1>10, <1>11, WriterStep
-----------------------------------------------------------------------------
(* The writer's row, while nothing goes wrong with an import. *)

LEMMA NextStarting ==
  ASSUME Base, Starting, Next
  PROVE  Starting'
<1>1. ASSUME NEW i \in Importers, importer' = [importer EXCEPT ![i] = NotImporting]
      PROVE  Starting'
  BY <1>1, NotImportingIs, OthersStay DEF Starting
<1>2. ASSUME NEW i \in Importers, NEW method \in Methods, Begin(i, method)
      PROVE  Starting'
  <2>1. PICK s : s = [NotImporting EXCEPT !.pc = "validate", !.method = method]
    OBVIOUS
  <2>2. s.at = 1
    BY <2>1 DEF NotImporting
  <2>3. importer' = [importer EXCEPT ![i] = s]
    BY <1>2, <2>1 DEF Begin
  <2>4. QED
    BY <2>2, <2>3, OthersStay DEF Starting
<1>3. ASSUME NEW i \in Importers, Announce(i) PROVE Starting'
  BY <1>3, AnnounceIs DEF Starting
<1>4. ASSUME NEW i \in Importers, Statement(i) PROVE Starting'
  <2>1. StatementForm(i)
    BY <1>4, Formed
  <2>2. QED
    BY <2>1 DEF Starting, StatementForm, UnderWay
<1>5. ASSUME NEW i \in Importers, Lose(i) PROVE Starting'
  BY <1>5, NextStatement DEF Starting, Lose, UnderWay, Midway
<1>6. CASE Write
  BY <1>6, WriteKeeps DEF Starting, UnderWay
<1>7. CASE Restart
  BY <1>7, NotImportingIs DEF Restart, Starting
<1>8. QED
  BY <1>1, <1>2, <1>3, <1>4, <1>5, <1>6, <1>7 DEF Next, Refuse, Finish, Raise

LEMMA NextOfWriter ==
  ASSUME Base, Next, ~disturbed', ~disturbed, OfWriter
  PROVE  OfWriter'
<1>1. writer.pc # "idle" => writer.id \in Ids
  BY DEF Base, WriterSound
<1>2. ASSUME UNCHANGED <<writer, beside, history>>, \A j \in Importers : UnderWay(j)' <=> UnderWay(j)
      PROVE  OfWriter'
  BY <1>2 DEF OfWriter
<1>3. ASSUME UNCHANGED <<writer, beside>>, NEW i \in Importers, UnderWay(i)
      PROVE  OfWriter'
  BY <1>3 DEF OfWriter
<1>4. ASSUME NEW i \in Importers, (\E method \in Methods : Begin(i, method)) \/ Refuse(i)
      PROVE  OfWriter'
  BY <1>2, <1>4, BeginIs, RefuseIs DEF aux, tables
<1>5. ASSUME NEW i \in Importers, Announce(i) PROVE OfWriter'
  <2>1. UNCHANGED writer /\ beside' = beside \cup ({writer.id} \ {0})
    BY <1>5 DEF Announce
  <2>2. QED
    BY <1>1, <2>1 DEF OfWriter, Ids
<1>6. ASSUME NEW i \in Importers, Statement(i) PROVE OfWriter'
  BY <1>3, <1>6, Formed DEF StatementForm, aux
<1>7. ASSUME NEW i \in Importers, Finish(i) PROVE OfWriter'
  BY <1>3, <1>7 DEF Finish
<1>8. ASSUME NEW i \in Importers, Lose(i) \/ Raise(i) PROVE FALSE
  BY <1>8 DEF Lose, Raise
<1>9. CASE Write
  <2>1. \A j \in Importers : UnderWay(j)' <=> UnderWay(j)
    BY <1>9, WriteKeeps DEF UnderWay
  <2>2. ASSUME NEW play \in Live, LogRow(play) PROVE OfWriter'
    BY <2>1, <2>2, LogRowIs DEF OfWriter
  <2>3. CASE Link
    <3>1. UNCHANGED beside
      BY <2>3 DEF Link
    <3>2. QED
      BY <2>1, <2>3, <3>1, LinkIs DEF OfWriter
  <2>4. CASE UpdateDetails \/ InsertDetails
    BY <2>1, <2>4, DetailsWritten DEF OfWriter, WriterEnds, NotWriting
  <2>5. QED
    BY <1>9, <2>2, <2>3, <2>4 DEF Write
<1>10. CASE Restart
  BY <1>10 DEF Restart, OfWriter, NotWriting
<1>11. QED
  BY <1>4, <1>5, <1>6, <1>7, <1>8, <1>9, <1>10 DEF Next

\* At most one import is under way: what it is decides about the others.
LEMMA OnlyOne ==
  ASSUME Base, Alone, NEW i \in Importers, UnderWay(i)
  PROVE  /\ \A j \in Importers : UnderWay(j) => j = i
         /\ Merging(i) => ~Emptied
         /\ Overwriting(i) => (Emptied <=> importer[i].at >= 3)
         /\ Merging(i) => ~Overwriting(i)
  BY DEF Alone, Emptied, Merging, Overwriting

LEMMA OnlyOneAfter ==
  ASSUME Base, Alone, NEW i \in Importers, StatementForm(i)
  PROVE  /\ \A j \in Importers : UnderWay(j)' => j = i
         /\ Merging(i) => ~Emptied'
         /\ Overwriting(i) => (Emptied' <=> importer[i].at >= 2)
<1>1. \A j \in Importers : UnderWay(j) => j = i
  BY OnlyOne DEF StatementForm
<1>2. \A j \in Importers : UnderWay(j)' => j = i
  BY <1>1, AfterStatement
<1>3. Merging(i) => ~Emptied'
  BY <1>2, AfterStatement DEF Emptied, Merging, Overwriting
<1>4. Overwriting(i) => (Emptied' <=> importer[i].at >= 2)
  <2>1. SUFFICES ASSUME Overwriting(i) PROVE Emptied' <=> importer[i].at >= 2
    OBVIOUS
  <2>2. PICK at, next : at = importer[i].at /\ next = importer'[i].at
    OBVIOUS
  <2>3. at \in 1 .. 12 /\ next = at + 1 /\ Overwriting(i)'
    BY <2>1, <2>2, AfterStatement
  <2>4. next >= 3 <=> at >= 2
    BY <2>3
  <2>5. Emptied' <=> next >= 3
    BY <1>2, <2>2, <2>3 DEF Emptied, Overwriting
  <2>6. QED
    BY <2>2, <2>4, <2>5
<1>5. QED
  BY <1>2, <1>3, <1>4
-----------------------------------------------------------------------------
(* The statements of a merge. *)

\* The importer of a merge before and after its statement.
LEMMA MergeNumbers ==
  ASSUME Base, Alone, Running, NEW i \in Importers, Merging(i), StatementForm(i)
  PROVE  /\ importer[i].at \in 1 .. 12 /\ importer[i].seq \in Nat /\ seq \in Nat
         /\ importer'[i].at = importer[i].at + 1
         /\ importer[i].at # 1 => importer'[i].seq = importer[i].seq
         /\ importer[i].at = 1 => importer'[i].seq = seq
         /\ MergeForm(i) /\ Merge(i) /\ ~Emptied
         /\ \A j \in Importers : UnderWay(j) => j = i
         /\ \A j \in Importers : Merging(j) <=> j = i
         /\ \A j \in Importers : Merging(j)' <=> j = i
         /\ \A j \in Importers : ~Overwriting(j)'
         /\ UNCHANGED <<writer, running, logged, beside, disturbed, imported>>
<1>1. /\ \A j \in Importers : UnderWay(j) => j = i
      /\ ~Emptied
  BY OnlyOne DEF Merging
<1>2. /\ importer[i].seq \in Nat /\ seq \in Nat
  BY ImporterIs DEF Base
<1>3. MergeForm(i)
  BY DEF StatementForm, Overwriting, Merging
<1>4. importer[i].at = 1 => importer'[i].seq = seq
  BY <1>3 DEF MergeForm
<1>5. \A j \in Importers : /\ Merging(j) <=> j = i
                           /\ Merging(j)' <=> j = i
                           /\ ~Overwriting(j)'
  BY <1>1, AfterStatement DEF Merging, Overwriting
<1>6. Merge(i)
  BY DEF Running
<1>7. QED
  BY <1>1, <1>2, <1>3, <1>4, <1>5, <1>6, AfterStatement DEF StatementForm

\* Rows of a merge that is not at its eighth statement are not fresh.
LEMMA NotFresh ==
  ASSUME Rows, ~Emptied, \A j \in Importers : Merging(j) => importer[j].at # 8,
         NEW id \in DOMAIN history, id \notin beside
  PROVE  /\ id \in DOMAIN details => details[id] = history[id].play
         /\ id \in DOMAIN details \/ Unfinished(id)
  BY DEF Rows, Explained, Fresh

\* The statements that change the temporary tables.
LEMMA CopiesRows ==
  ASSUME Base, Alone, Running, Rows, NEW i \in Importers, Merging(i), StatementForm(i),
         UNCHANGED <<history, details, seq>>, importer[i].at # 8
  PROVE  Rows'
<1>1. UNCHANGED <<writer, logged, beside>> /\ ~Emptied
  BY MergeNumbers
<1>2. ASSUME NEW id \in DOMAIN history, id \notin beside PROVE Explained(id)'
  <2>1. /\ id \in DOMAIN details => details[id] = history[id].play
        /\ id \in DOMAIN details \/ Unfinished(id)
    BY <1>1, <1>2, MergeNumbers, NotFresh
  <2>2. Unfinished(id) => Unfinished(id)'
    BY <1>1 DEF Unfinished
  <2>3. QED
    BY <2>1, <2>2 DEF Explained
<1>3. QED
  BY <1>1, <1>2 DEF Rows

\* Contents of the copies: by the number of the statement before.
LEMMA CopiesContents ==
  ASSUME Base, Alone, Running, NEW i \in Importers, Merging(i), StatementForm(i),
         NEW s, s = importer[i].seq, NEW at, at = importer[i].at
  PROVE  /\ at + 1 \in 3 .. 11 => "history" \in DOMAIN copies'
         /\ at + 1 = 3 => copies'["history"] = Import
         /\ at + 1 = 4 => copies'["history"] = Shifted(Import, s)
         /\ at + 1 \in 5 .. 11 => copies'["history"] = ShiftedReferences(Shifted(Import, s), s)
         /\ at + 1 \in 6 .. 12 => "details" \in DOMAIN copies'
         /\ at + 1 = 6 => copies'["details"] = PlaysOf(Import)
         /\ at + 1 \in 7 .. 12 => copies'["details"] = Shifted(PlaysOf(Import), s)
<1>1. /\ at \in 1 .. 12 /\ MergeForm(i)
      /\ at \in 3 .. 11 => "history" \in DOMAIN copies
      /\ at = 3 => copies["history"] = Import
      /\ at = 4 => copies["history"] = Shifted(Import, s)
      /\ at \in 5 .. 11 => copies["history"] = ShiftedReferences(Shifted(Import, s), s)
      /\ at \in 6 .. 12 => "details" \in DOMAIN copies
      /\ at = 6 => copies["details"] = PlaysOf(Import)
      /\ at \in 7 .. 12 => copies["details"] = Shifted(PlaysOf(Import), s)
  BY MergeNumbers DEF Merge
<1>2. "history" # "details"
  OBVIOUS
<1>3. CASE at = 1
  BY <1>3
<1>4. CASE at = 2
  <2>1. copies' = Temporary("history", Import)
    BY <1>1, <1>4 DEF MergeForm
  <2>2. "history" \in DOMAIN copies' /\ copies'["history"] = Import
    BY <2>1, TemporaryIs
  <2>3. QED
    BY <1>4, <2>2
<1>5. CASE at = 3
  <2>1. copies' = Temporary("history", Shifted(Import, s))
    BY <1>1, <1>5 DEF MergeForm
  <2>2. "history" \in DOMAIN copies' /\ copies'["history"] = Shifted(Import, s)
    BY <2>1, TemporaryIs
  <2>3. QED
    BY <1>5, <2>2
<1>6. CASE at = 4
  <2>1. copies' = Temporary("history", ShiftedReferences(Shifted(Import, s), s))
    BY <1>1, <1>6 DEF MergeForm
  <2>2. "history" \in DOMAIN copies' /\ copies'["history"] = ShiftedReferences(Shifted(Import, s), s)
    BY <2>1, TemporaryIs
  <2>3. QED
    BY <1>6, <2>2
<1>7. CASE at = 5
  <2>1. copies' = Temporary("details", PlaysOf(Import)) /\ "history" \in DOMAIN copies
    BY <1>1, <1>7 DEF MergeForm
  <2>2. /\ "details" \in DOMAIN copies' /\ copies'["details"] = PlaysOf(Import)
        /\ "history" \in DOMAIN copies'
    BY <2>1, TemporaryIs
  <2>3. copies'["history"] = copies["history"]
    BY <1>2, <2>1, TemporaryOther
  <2>4. QED
    BY <1>1, <1>7, <2>2, <2>3
<1>8. CASE at = 6
  <2>1. copies' = Temporary("details", Shifted(PlaysOf(Import), s)) /\ "history" \in DOMAIN copies
    BY <1>1, <1>8 DEF MergeForm
  <2>2. /\ "details" \in DOMAIN copies' /\ copies'["details"] = Shifted(PlaysOf(Import), s)
        /\ "history" \in DOMAIN copies'
    <3>1. PICK D : D = Shifted(PlaysOf(Import), s)
      OBVIOUS
    <3>2. copies' = Temporary("details", D) /\ "history" \in DOMAIN copies
      BY <2>1, <3>1
    <3>3. DOMAIN copies' = DOMAIN copies \cup {"details"} /\ copies'["details"] = D
      BY <3>2, TemporaryIs
    <3>4. QED
      BY <3>1, <3>2, <3>3
  <2>3. copies'["history"] = copies["history"]
    BY <1>2, <2>1, TemporaryOther
  <2>4. QED
    BY <1>1, <1>8, <2>2, <2>3
<1>9. CASE at \in {7, 8, 9, 10}
  <2>1. UNCHANGED copies
    BY <1>1, <1>9 DEF MergeForm
  <2>2. QED
    BY <1>1, <1>9, <2>1
<1>10. CASE at = 11
  <2>1. DropOf("history") /\ "details" \in DOMAIN copies
    BY <1>1, <1>10 DEF MergeForm
  <2>2. "details" \in DOMAIN copies' /\ copies'["details"] = copies["details"]
    BY <1>2, <2>1 DEF DropOf
  <2>3. QED
    BY <1>1, <1>10, <2>2
<1>11. CASE at = 12
  BY <1>11
<1>12. at \in {1, 2, 3, 4, 5, 6, 7, 8, 9, 10, 11, 12}
  BY <1>1
<1>13. QED
  BY <1>3, <1>4, <1>5, <1>6, <1>7, <1>8, <1>9, <1>10, <1>11, <1>12
-----------------------------------------------------------------------------
(* What a merge inserts. *)

LEMMA CopiedHistory ==
  ASSUME NEW s \in Nat, NEW C, C = ShiftedReferences(Shifted(Import, s), s)
  PROVE  /\ \A n \in DOMAIN Import : /\ n + s \in DOMAIN C /\ C[n + s].play = Import[n].play
                                     /\ n + s > s /\ n + s \in Ids
         /\ \A id \in DOMAIN C :
              /\ \E n \in DOMAIN Import : id = n + s /\ C[id].play = Import[n].play
              /\ C[id].play \in ImportPlays /\ id > s /\ id \in Ids
<1>1. PICK T : T = Shifted(Import, s)
  OBVIOUS
<1>2. DOMAIN Import \subseteq Ids /\ ForeignHistory(Import)
  BY FileTables, FilesType
<1>3. /\ DOMAIN T = {n + s : n \in DOMAIN Import} /\ DOMAIN T \subseteq Ids
      /\ \A n \in DOMAIN Import : T[n + s] = Import[n]
  BY <1>1, <1>2, ShiftedIs
<1>4. \A id \in DOMAIN T : T[id] \in [play : ImportPlays, reference_id : Nat]
  BY <1>1, <1>2, ForeignShifted DEF ForeignHistory
<1>5. C = ShiftedReferences(T, s)
  BY <1>1
<1>6. DOMAIN C = DOMAIN T /\ \A id \in DOMAIN T : C[id].play = T[id].play
  BY <1>4, <1>5, ShiftedReferencesIs
<1>7. \A n \in DOMAIN Import : n + s > s /\ Import[n].play \in ImportPlays
  <2>1. \A n, t \in Nat : n # 0 => n + t > t
    OBVIOUS
  <2>2. QED
    BY <1>2, <2>1, FilesType DEF Ids
<1>8. ASSUME NEW n \in DOMAIN Import
      PROVE  /\ n + s \in DOMAIN C /\ C[n + s].play = Import[n].play
             /\ n + s > s /\ n + s \in Ids
  <2>1. n + s \in DOMAIN T
    BY <1>3
  <2>2. QED
    BY <1>3, <1>6, <1>7, <2>1
<1>9. ASSUME NEW id \in DOMAIN C
      PROVE  /\ \E n \in DOMAIN Import : id = n + s /\ C[id].play = Import[n].play
             /\ C[id].play \in ImportPlays /\ id > s /\ id \in Ids
  <2>1. PICK n \in DOMAIN Import : id = n + s
    BY <1>3, <1>6, <1>9
  <2>2. QED
    BY <1>7, <1>8, <2>1
<1>10. QED
  BY <1>8, <1>9

LEMMA CopiedDetails ==
  ASSUME NEW s \in Nat, NEW D, D = Shifted(PlaysOf(Import), s)
  PROVE  /\ \A n \in DOMAIN Import : n + s \in DOMAIN D /\ D[n + s] = Import[n].play
         /\ \A id \in DOMAIN D : \E n \in DOMAIN Import : id = n + s /\ D[id] = Import[n].play
<1>1. PICK T : T = PlaysOf(Import)
  OBVIOUS
<1>2. DOMAIN T = DOMAIN Import /\ DOMAIN T \subseteq Ids /\ \A n \in DOMAIN T : T[n] = Import[n].play
  BY <1>1, FileTables, FilesType
<1>3. D = Shifted(T, s)
  BY <1>1
<1>4. /\ DOMAIN Shifted(T, s) = {n + s : n \in DOMAIN T}
      /\ \A n \in DOMAIN T : Shifted(T, s)[n + s] = T[n]
  BY <1>2, ShiftedIs
<1>5. QED
  BY <1>2, <1>3, <1>4

\* INSERT OR IGNORE.
LEMMA InsertedHistory ==
  ASSUME NEW g, history' = Extended(history, g)
  PROVE  /\ DOMAIN history' = DOMAIN history \cup DOMAIN g
         /\ \A id \in DOMAIN history : history'[id] = history[id]
         /\ \A id \in DOMAIN g : id \notin DOMAIN history => history'[id] = g[id]
  BY DEF Extended

LEMMA InsertedDetails ==
  ASSUME NEW g, details' = Extended(details, g)
  PROVE  /\ DOMAIN details' = DOMAIN details \cup DOMAIN g
         /\ \A id \in DOMAIN details : details'[id] = details[id]
         /\ \A id \in DOMAIN g : id \notin DOMAIN details => details'[id] = g[id]
  BY DEF Extended

LEMMA InsertedSeq ==
  ASSUME Base', seq \in Nat, seq' = Highest({seq} \cup DOMAIN history')
  PROVE  /\ seq <= seq' /\ seq' \in Nat /\ \A id \in DOMAIN history' : id <= seq'
         /\ seq' \in {seq, 0} \cup DOMAIN history'
<1>1. PICK h : h = DOMAIN history'
  OBVIOUS
<1>2. h \subseteq Nat /\ IsFiniteSet(h)
  BY <1>1 DEF Base, HistoryType, Ids
<1>3. PICK S : S = {seq} \cup h
  OBVIOUS
<1>4. S \subseteq Nat
  BY <1>2, <1>3
<1>5. IsFiniteSet(S)
  BY <1>2, <1>3, FS_Union, FS_Singleton
<1>6. seq' = Highest(S)
  BY <1>1, <1>3
<1>7. seq' \in S \cup {0} /\ seq' \in Nat /\ \A id \in S : id <= seq'
  BY <1>4, <1>5, <1>6, HighestIs
<1>8. QED
  BY <1>1, <1>3, <1>7

\* Kept plays, by the row that keeps them.
LEMMA KeptBy ==
  ASSUME ~disturbed, NEW p, Kept(p)
  PROVE  \E id \in DOMAIN history :
           /\ history[id].play = p
           /\ (id \in DOMAIN details /\ details[id] = p) \/ id \in beside
  BY DEF Kept, HasOwnDetails

LEMMA KeptAfter ==
  ASSUME NEW p, NEW id, id \in DOMAIN history', history'[id].play = p,
         (id \in DOMAIN details' /\ details'[id] = p) \/ id \in beside'
  PROVE  Kept(p)'
  BY DEF Kept, HasOwnDetails

\* No statement of a merge takes a play that is kept.
LEMMA MergeKept ==
  ASSUME Base, Alone, Running, Rows, ~disturbed, NEW i \in Importers, Merging(i),
         StatementForm(i), NEW p, Kept(p)
  PROVE  Kept(p)'
<1>1. PICK id \in DOMAIN history :
        /\ history[id].play = p
        /\ (id \in DOMAIN details /\ details[id] = p) \/ id \in beside
  BY KeptBy
<1>2. MergeForm(i) /\ UNCHANGED <<beside, writer, logged>> /\ ~Emptied
  BY MergeNumbers
<1>3. CASE UNCHANGED <<history, details>>
  BY <1>1, <1>2, <1>3, KeptAfter
<1>4. CASE /\ UNCHANGED details /\ \A n \in DOMAIN history : history'[n] = history[n]
           /\ DOMAIN history \subseteq DOMAIN history'
  BY <1>1, <1>2, <1>4, KeptAfter
<1>5. CASE /\ UNCHANGED history /\ \A n \in DOMAIN details : details'[n] = details[n]
           /\ DOMAIN details \subseteq DOMAIN details'
  BY <1>1, <1>2, <1>5, KeptAfter
<1>6. CASE importer[i].at = 9 /\ history' = Restricted(history, Oldest) /\ UNCHANGED details
  <2>1. PICK m \in Oldest : m \in DOMAIN history /\ history[m].play = p
    BY <1>1, OldestOf
  <2>2. m \in DOMAIN history' /\ history'[m].play = p
    BY <1>6, <2>1, DedupedIs
  <2>3. CASE m \in beside
    BY <1>2, <2>2, <2>3, KeptAfter
  <2>4. CASE m \notin beside /\ m \in DOMAIN details
    <3>1. details[m] = p
      BY <1>2, <2>1, <2>4 DEF Rows, Explained
    <3>2. QED
      BY <1>6, <2>2, <2>4, <3>1, KeptAfter
  <2>5. CASE m \notin beside /\ m \notin DOMAIN details
    <3>1. \A j \in Importers : Merging(j) => importer[j].at # 8
      BY <1>6, MergeNumbers
    <3>2. Unfinished(m)
      BY <1>2, <2>1, <2>5, <3>1, NotFresh
    <3>3. p \in Live
      BY <2>1, <3>2 DEF Unfinished
    <3>4. m = id
      BY <1>1, <2>1, <3>3 DEF Base, WriterSound
    <3>5. QED
      BY <1>1, <2>5, <3>4
  <2>6. QED
    BY <2>3, <2>4, <2>5
<1>7. CASE details' = Restricted(details, DOMAIN history) /\ UNCHANGED history
  <2>1. id \in DOMAIN details => id \in DOMAIN details' /\ details'[id] = details[id]
    BY <1>1, <1>7 DEF Restricted
  <2>2. QED
    BY <1>1, <1>2, <1>7, <2>1, KeptAfter
<1>8. CASE UNCHANGED details /\ history' = Extended(history, copies["history"])
  BY <1>4, <1>8, InsertedHistory
<1>9. CASE UNCHANGED history /\ details' = Extended(details, copies["details"])
  BY <1>5, <1>9, InsertedDetails
<1>10. QED
  BY <1>2, <1>3, <1>6, <1>7, <1>8, <1>9 DEF MergeForm, DropOf
-----------------------------------------------------------------------------
(* A merge keeps what it relies on. *)

\* Running, from what the only import under way relies on.
LEMMA MergeRunning ==
  ASSUME Base, Alone, Running, NEW i \in Importers, Merging(i), StatementForm(i), Merge(i)'
  PROVE  Running'
  BY MergeNumbers DEF Running

\* Merge, unfolded for the state after a statement.
LEMMA MergeAfter ==
  ASSUME Base, Alone, Running, NEW i \in Importers, Merging(i), StatementForm(i),
         NEW s, s = importer'[i].seq, NEW at, at = importer[i].at,
         s <= seq',
         at \in 1 .. 6 => \A id \in DOMAIN history' : id \notin beside => id <= s,
         at \in 1 .. 7 => \A id \in DOMAIN details' : id \notin beside => id <= s,
         at = 7 => \A id \in DOMAIN history' : id \notin beside =>
           id <= s \/ \E n \in DOMAIN Import : id = n + s /\ history'[id].play = Import[n].play,
         at = 7 => \A n \in DOMAIN Import : n + s \notin beside =>
           n + s \in DOMAIN history' /\ history'[n + s].play = Import[n].play,
         at >= 8 => \A n \in DOMAIN Import : n + s \notin beside => Kept(Import[n].play)'
  PROVE  Merge(i)'
<1>1. /\ at \in 1 .. 12 /\ importer'[i].at = at + 1
      /\ at # 1 => importer'[i].seq = importer[i].seq
      /\ UNCHANGED beside
  BY MergeNumbers
<1>2. /\ at + 1 \in 3 .. 11 => "history" \in DOMAIN copies'
      /\ at + 1 = 3 => copies'["history"] = Import
      /\ at + 1 = 4 => copies'["history"] = Shifted(Import, s)
      /\ at + 1 \in 5 .. 11 => copies'["history"] = ShiftedReferences(Shifted(Import, s), s)
      /\ at + 1 \in 6 .. 12 => "details" \in DOMAIN copies'
      /\ at + 1 = 6 => copies'["details"] = PlaysOf(Import)
      /\ at + 1 \in 7 .. 12 => copies'["details"] = Shifted(PlaysOf(Import), s)
  <2>1. CASE at = 1
    BY <2>1
  <2>2. CASE at # 1
    BY <1>1, <2>2, CopiesContents
  <2>3. QED
    BY <2>1, <2>2
<1>3. PICK next : next = importer'[i].at
  OBVIOUS
<1>4. next = at + 1
  BY <1>1, <1>3
<1>5. /\ next \in 2 .. 7 <=> at \in 1 .. 6
      /\ next \in 2 .. 8 <=> at \in 1 .. 7
      /\ next = 8 <=> at = 7
      /\ next >= 9 <=> at >= 8
  BY <1>1, <1>4
<1>6. QED
  BY <1>1, <1>2, <1>3, <1>4, <1>5 DEF Merge

LEMMA ReadSeqRuns ==
  ASSUME Base, Alone, Running, Rows, NEW i \in Importers, Merging(i), StatementForm(i),
         importer[i].at = 1
  PROVE  Rows' /\ Running'
<1>1. UNCHANGED <<history, details, seq>>
  BY MergeNumbers DEF MergeForm
<1>2. importer'[i].seq = seq /\ ~Emptied /\ seq \in Nat
  BY MergeNumbers
<1>3. /\ \A id \in DOMAIN history : id <= seq
      /\ \A id \in DOMAIN details : id \notin beside => id <= seq
  BY <1>2 DEF Rows
<1>4. Rows'
  BY <1>1, CopiesRows
<1>5. Merge(i)'
  BY <1>1, <1>2, <1>3, MergeAfter
<1>6. QED
  BY <1>4, <1>5, MergeRunning

LEMMA CopiesRuns ==
  ASSUME Base, Alone, Running, Rows, ~disturbed, NEW i \in Importers, Merging(i), StatementForm(i),
         importer[i].at \in {2, 3, 4, 5, 6, 11, 12}
  PROVE  Rows' /\ Running'
<1>1. UNCHANGED <<history, details, seq>>
  BY MergeNumbers DEF MergeForm, DropOf
<1>2. PICK s, at : s = importer[i].seq /\ at = importer[i].at
  OBVIOUS
<1>3. importer'[i].seq = s /\ UNCHANGED beside
  BY <1>2, MergeNumbers
<1>4. /\ s <= seq
      /\ at \in {2, 3, 4, 5, 6} => \A id \in DOMAIN history : id \notin beside => id <= s
      /\ at \in {2, 3, 4, 5, 6} => \A id \in DOMAIN details : id \notin beside => id <= s
      /\ at \in {11, 12} => \A n \in DOMAIN Import : n + s \notin beside => Kept(Import[n].play)
  BY <1>2, MergeNumbers DEF Merge
<1>5. at \in {11, 12} => \A n \in DOMAIN Import : n + s \notin beside => Kept(Import[n].play)'
  BY <1>4, MergeKept
<1>6. Rows'
  BY <1>1, CopiesRows
<1>7. Merge(i)'
  <2>1. /\ at \in 1 .. 6 => at \in {2, 3, 4, 5, 6}
        /\ at \in 1 .. 7 => at \in {2, 3, 4, 5, 6}
        /\ at # 7
        /\ at >= 8 => at \in {11, 12}
    BY <1>2
  <2>2. QED
    BY <1>1, <1>2, <1>3, <1>4, <1>5, <2>1, MergeAfter
<1>8. QED
  BY <1>6, <1>7, MergeRunning

LEMMA InsertHistoryRuns ==
  ASSUME Base, Base', Alone, Running, Rows, NEW i \in Importers, Merging(i), StatementForm(i),
         importer[i].at = 7
  PROVE  Rows' /\ Running'
<1>1. PICK s : s = importer[i].seq
  OBVIOUS
<1>2. PICK C : C = ShiftedReferences(Shifted(Import, s), s)
  OBVIOUS
<1>3. /\ s \in Nat /\ seq \in Nat /\ s <= seq /\ copies["history"] = C
      /\ \A id \in DOMAIN history : id \notin beside => id <= s
      /\ \A id \in DOMAIN details : id \notin beside => id <= s
  BY <1>1, <1>2, MergeNumbers DEF Merge
<1>4. /\ history' = Extended(history, C) /\ seq' = Highest({seq} \cup DOMAIN history')
      /\ UNCHANGED details
  BY <1>3, MergeNumbers DEF MergeForm
<1>5. /\ importer'[i].seq = s /\ importer'[i].at = 8 /\ Merging(i)'
      /\ UNCHANGED <<writer, logged, beside>> /\ ~Emptied
      /\ \A j \in Importers : Merging(j) => importer[j].at # 8
  BY <1>1, MergeNumbers
<1>6. /\ DOMAIN history' = DOMAIN history \cup DOMAIN C
      /\ \A id \in DOMAIN history : history'[id] = history[id]
      /\ \A id \in DOMAIN C : id \notin DOMAIN history => history'[id] = C[id]
  BY <1>4, InsertedHistory
<1>7. seq <= seq' /\ seq' \in Nat /\ \A id \in DOMAIN history' : id <= seq'
  BY <1>3, <1>4, InsertedSeq
<1>8. /\ \A n \in DOMAIN Import : /\ n + s \in DOMAIN C /\ C[n + s].play = Import[n].play
                                  /\ n + s > s /\ n + s \in Ids
      /\ \A id \in DOMAIN C :
           /\ \E n \in DOMAIN Import : id = n + s /\ C[id].play = Import[n].play
           /\ C[id].play \in ImportPlays /\ id > s /\ id \in Ids
  BY <1>2, <1>3, CopiedHistory
<1>9. \A x, y \in Nat : ~(x > y /\ x <= y)
  OBVIOUS
<1>10. ASSUME NEW id \in DOMAIN history', id \notin beside PROVE Explained(id)'
  <2>1. CASE id \in DOMAIN history
    <3>1. /\ id \in DOMAIN details => details[id] = history[id].play
          /\ id \in DOMAIN details \/ Unfinished(id)
      BY <1>5, <1>10, <2>1, NotFresh
    <3>2. Unfinished(id) => Unfinished(id)'
      BY <1>5, <1>6, <2>1 DEF Unfinished
    <3>3. QED
      BY <1>4, <1>6, <2>1, <3>1, <3>2 DEF Explained
  <2>2. CASE id \notin DOMAIN history
    <3>1. id \in DOMAIN C /\ history'[id] = C[id]
      BY <1>6, <1>10, <2>2
    <3>2. id > s /\ id \in Nat /\ history'[id].play \in ImportPlays
      BY <1>8, <3>1 DEF Ids
    <3>3. id \notin DOMAIN details'
      BY <1>3, <1>4, <1>9, <1>10, <3>2
    <3>4. Fresh(i, id)'
      BY <1>5, <3>2 DEF Fresh
    <3>5. QED
      BY <3>2, <3>3, <3>4 DEF Explained
  <2>3. QED
    BY <2>1, <2>2
<1>11. \A id \in DOMAIN details' : id \notin beside' => id <= seq'
  <2>1. \A id \in DOMAIN details : id \notin beside => id <= seq
    BY <1>5 DEF Rows
  <2>2. \A id \in DOMAIN details : id \in Nat
    BY DEF Base, DetailsType, Ids
  <2>3. \A x \in Nat : x <= seq => x <= seq'
    BY <1>3, <1>7
  <2>4. QED
    BY <1>4, <1>5, <2>1, <2>2, <2>3
<1>12. Rows'
  BY <1>5, <1>7, <1>10, <1>11 DEF Rows
<1>13. s <= seq'
  BY <1>3, <1>7
<1>14. ASSUME NEW id \in DOMAIN history', id \notin beside
       PROVE  id <= s \/ \E n \in DOMAIN Import : id = n + s /\ history'[id].play = Import[n].play
  BY <1>3, <1>6, <1>8, <1>14
<1>15. ASSUME NEW n \in DOMAIN Import, n + s \notin beside
       PROVE  n + s \in DOMAIN history' /\ history'[n + s].play = Import[n].play
  <2>1. n + s \in DOMAIN C /\ C[n + s].play = Import[n].play /\ n + s > s /\ n + s \in Nat
    BY <1>8, <1>15 DEF Ids
  <2>2. n + s \notin DOMAIN history
    BY <1>3, <1>9, <1>15, <2>1
  <2>3. QED
    BY <1>6, <2>1, <2>2
<1>16. Merge(i)'
  <2>1. ~(7 \in 1 .. 6) /\ ~(7 >= 8)
    OBVIOUS
  <2>2. \A id \in DOMAIN details' : id \notin beside => id <= s
    BY <1>3, <1>4
  <2>3. QED
    BY <1>5, <1>13, <1>14, <1>15, <2>1, <2>2, MergeAfter
<1>17. QED
  BY <1>12, <1>16, MergeRunning
LEMMA InsertDetailsRuns ==
  ASSUME Base, Alone, Running, Rows, ~disturbed, NEW i \in Importers, Merging(i), StatementForm(i),
         importer[i].at = 8
  PROVE  Rows' /\ Running'
<1>1. PICK s : s = importer[i].seq
  OBVIOUS
<1>2. PICK D : D = Shifted(PlaysOf(Import), s)
  OBVIOUS
<1>3. /\ s \in Nat /\ s <= seq /\ copies["details"] = D
      /\ \A id \in DOMAIN details : id \notin beside => id <= s
      /\ \A id \in DOMAIN history : id \notin beside =>
           id <= s \/ \E n \in DOMAIN Import : id = n + s /\ history[id].play = Import[n].play
      /\ \A n \in DOMAIN Import : n + s \notin beside =>
           n + s \in DOMAIN history /\ history[n + s].play = Import[n].play
  BY <1>1, <1>2, MergeNumbers DEF Merge
<1>4. details' = Extended(details, D) /\ UNCHANGED <<history, seq>>
  BY <1>3, MergeNumbers DEF MergeForm
<1>5. /\ importer'[i].seq = s /\ importer'[i].at = 9
      /\ UNCHANGED <<writer, logged, beside>> /\ ~Emptied
      /\ \A j \in Importers : Merging(j) => j = i
  BY <1>1, MergeNumbers
<1>6. /\ DOMAIN details' = DOMAIN details \cup DOMAIN D
      /\ \A id \in DOMAIN details : details'[id] = details[id]
      /\ \A id \in DOMAIN D : id \notin DOMAIN details => details'[id] = D[id]
  BY <1>4, InsertedDetails
<1>7. /\ \A n \in DOMAIN Import : n + s \in DOMAIN D /\ D[n + s] = Import[n].play
      /\ \A id \in DOMAIN D : \E n \in DOMAIN Import : id = n + s /\ D[id] = Import[n].play
  BY <1>2, <1>3, CopiedDetails
<1>8. ASSUME NEW n \in DOMAIN Import PROVE n + s > s
  <2>1. n \in Nat /\ n # 0
    BY <1>8, FilesType DEF Ids
  <2>2. QED
    BY <1>3, <2>1
<1>9. ASSUME NEW id \in DOMAIN history, id \notin beside, id \in DOMAIN D
      PROVE  D[id] = history[id].play
  <2>1. PICK n \in DOMAIN Import : id = n + s /\ D[id] = Import[n].play
    BY <1>7, <1>9
  <2>2. QED
    BY <1>3, <1>9, <2>1
<1>10. ASSUME NEW id \in DOMAIN history, id \notin beside PROVE Explained(id)'
  <2>1. Explained(id)
    BY <1>5, <1>10 DEF Rows
  <2>2. CASE id \in DOMAIN details
    BY <1>4, <1>6, <2>1, <2>2 DEF Explained
  <2>3. CASE id \notin DOMAIN details /\ id \in DOMAIN D
    BY <1>4, <1>6, <1>9, <1>10, <2>3 DEF Explained
  <2>4. CASE id \notin DOMAIN details /\ id \notin DOMAIN D
    <3>1. ~\E n \in DOMAIN Import : id = n + s
      BY <1>7, <2>4
    <3>2. id <= s
      BY <1>3, <1>10, <3>1
    <3>3. id \in Nat
      BY <1>10 DEF Base, HistoryType, Ids
    <3>4. ~\E j \in Importers : Fresh(j, id)
      BY <1>1, <1>3, <1>5, <3>2, <3>3 DEF Fresh
    <3>5. Unfinished(id)
      BY <2>1, <2>4, <3>4 DEF Explained
    <3>6. Unfinished(id)'
      BY <1>4, <1>5, <3>5 DEF Unfinished
    <3>7. QED
      BY <1>4, <1>6, <2>4, <3>6 DEF Explained
  <2>5. QED
    BY <2>2, <2>3, <2>4
<1>11. ASSUME NEW id \in DOMAIN details', id \notin beside PROVE id <= seq
  <2>1. CASE id \in DOMAIN details
    BY <1>5, <1>11, <2>1 DEF Rows
  <2>2. CASE id \in DOMAIN D
    <3>1. id \in DOMAIN history
      BY <1>3, <1>7, <1>11, <2>2
    <3>2. QED
      BY <1>5, <3>1 DEF Rows
  <2>3. QED
    BY <1>6, <1>11, <2>1, <2>2
<1>12. Rows'
  <2>1. \A id \in DOMAIN history : id <= seq
    BY <1>5 DEF Rows
  <2>2. QED
    BY <1>4, <1>5, <1>10, <1>11, <2>1 DEF Rows
<1>13. ASSUME NEW n \in DOMAIN Import, n + s \notin beside
       PROVE  Kept(Import[n].play)'
  <2>1. n + s \in DOMAIN history' /\ history'[n + s].play = Import[n].play
    BY <1>3, <1>4, <1>13
  <2>2. n + s \in DOMAIN D /\ D[n + s] = Import[n].play
    BY <1>7
  <2>3. n + s \in DOMAIN details => details[n + s] = history[n + s].play
    BY <1>4, <1>5, <1>13, <2>1 DEF Rows, Explained
  <2>4. n + s \in DOMAIN details' /\ details'[n + s] = Import[n].play
    BY <1>4, <1>6, <2>1, <2>2, <2>3
  <2>5. QED
    BY <2>1, <2>4, KeptAfter
<1>14. Merge(i)'
  <2>1. ~(8 \in 1 .. 6) /\ ~(8 \in 1 .. 7) /\ 8 # 7
    OBVIOUS
  <2>2. s <= seq'
    BY <1>3, <1>4
  <2>3. QED
    BY <1>5, <1>13, <2>1, <2>2, MergeAfter
<1>15. QED
  BY <1>12, <1>14, MergeRunning

LEMMA DedupeRuns ==
  ASSUME Base, Alone, Running, Rows, ~disturbed, NEW i \in Importers, Merging(i), StatementForm(i),
         importer[i].at \in {9, 10}
  PROVE  Rows' /\ Running'
<1>1. PICK s, at : s = importer[i].seq /\ at = importer[i].at
  OBVIOUS
<1>2. /\ importer'[i].seq = s /\ UNCHANGED <<writer, logged, beside>> /\ ~Emptied
      /\ \A j \in Importers : Merging(j) => importer[j].at # 8
      /\ s <= seq /\ \A n \in DOMAIN Import : n + s \notin beside => Kept(Import[n].play)
  <2>1. at >= 9 /\ at >= 2
    BY <1>1
  <2>2. QED
    BY <1>1, <2>1, MergeNumbers DEF Merge
<1>3. /\ UNCHANGED seq
      /\ DOMAIN history' \subseteq DOMAIN history /\ DOMAIN details' \subseteq DOMAIN details
      /\ \A id \in DOMAIN history' : history'[id] = history[id]
      /\ \A id \in DOMAIN history' : id \in DOMAIN details <=> id \in DOMAIN details'
      /\ \A id \in DOMAIN details' : details'[id] = details[id]
  <2>1. MergeForm(i)
    BY MergeNumbers
  <2>2. CASE history' = Restricted(history, Oldest) /\ UNCHANGED <<details, seq>>
    BY <2>2, DedupedIs
  <2>3. CASE details' = Restricted(details, DOMAIN history) /\ UNCHANGED <<history, seq>>
    BY <2>3 DEF Restricted
  <2>4. QED
    BY <2>1, <2>2, <2>3 DEF MergeForm
<1>4. ASSUME NEW id \in DOMAIN history', id \notin beside PROVE Explained(id)'
  <2>1. /\ id \in DOMAIN history
        /\ id \in DOMAIN details => details[id] = history[id].play
        /\ id \in DOMAIN details \/ Unfinished(id)
    BY <1>2, <1>3, <1>4, NotFresh
  <2>2. Unfinished(id) => Unfinished(id)'
    BY <1>2, <1>3, <1>4 DEF Unfinished
  <2>3. QED
    BY <1>3, <1>4, <2>1, <2>2 DEF Explained
<1>5. Rows'
  <2>1. /\ \A id \in DOMAIN history : id <= seq
        /\ \A id \in DOMAIN details : id \notin beside => id <= seq
    BY <1>2 DEF Rows
  <2>2. QED
    BY <1>2, <1>3, <1>4, <2>1 DEF Rows
<1>6. \A n \in DOMAIN Import : n + s \notin beside => Kept(Import[n].play)'
  BY <1>2, MergeKept
<1>7. Merge(i)'
  <2>1. ~(at \in 1 .. 6) /\ ~(at \in 1 .. 7) /\ at # 7
    BY <1>1
  <2>2. QED
    BY <1>1, <1>2, <1>3, <1>6, <2>1, MergeAfter
<1>8. QED
  BY <1>5, <1>7, MergeRunning

LEMMA MergeRuns ==
  ASSUME Base, Base', Alone, Running, Rows, ~disturbed, NEW i \in Importers, Merging(i),
         StatementForm(i)
  PROVE  Rows' /\ Running'
<1>1. importer[i].at \in {1, 2, 3, 4, 5, 6, 7, 8, 9, 10, 11, 12}
  BY MergeNumbers DEF MergeForm
<1>2. QED
  BY <1>1, ReadSeqRuns, CopiesRuns, InsertHistoryRuns, InsertDetailsRuns, DedupeRuns
-----------------------------------------------------------------------------
(* The statements of an overwrite. *)

LEMMA OverwriteNumbers ==
  ASSUME Base, Alone, Running, NEW i \in Importers, Overwriting(i), StatementForm(i)
  PROVE  /\ importer[i].at \in 1 .. 6 /\ importer'[i].at = importer[i].at + 1
         /\ OverwriteForm(i) /\ Overwrite(i) /\ seq \in Nat
         /\ Emptied <=> importer[i].at >= 3
         /\ Emptied' <=> importer[i].at >= 2
         /\ \A j \in Importers : UnderWay(j) => j = i
         /\ \A j \in Importers : ~Merging(j) /\ ~Merging(j)'
         /\ \A j \in Importers : Overwriting(j)' => j = i
         /\ UNCHANGED <<writer, running, logged, beside, disturbed, imported>>
<1>1. /\ \A j \in Importers : UnderWay(j) => j = i
      /\ Emptied <=> importer[i].at >= 3
  BY OnlyOne DEF Overwriting
<1>2. Emptied' <=> importer[i].at >= 2
  BY OnlyOneAfter
<1>3. OverwriteForm(i)
  BY DEF StatementForm, Overwriting, Merging
<1>4. \A j \in Importers : ~Merging(j) /\ ~Merging(j)' /\ (Overwriting(j)' => j = i)
  BY <1>1, AfterStatement DEF Merging, Overwriting
<1>5. Overwrite(i) /\ seq \in Nat
  BY DEF Running, Base
<1>6. importer[i].at \in 1 .. 6
  BY AfterStatement
<1>7. QED
  BY <1>1, <1>2, <1>3, <1>4, <1>5, <1>6, AfterStatement

LEMMA OverwriteRunning ==
  ASSUME Base, Alone, Running, NEW i \in Importers, Overwriting(i), StatementForm(i), Overwrite(i)'
  PROVE  Running'
  BY OverwriteNumbers DEF Running

LEMMA OverwriteRuns ==
  ASSUME Base, Base', Alone, Running, Rows, NEW i \in Importers, Overwriting(i), StatementForm(i)
  PROVE  Rows' /\ Running'
<1>1. PICK at, next : at = importer[i].at /\ next = importer'[i].at
  OBVIOUS
<1>2. /\ at \in 1 .. 6 /\ next = at + 1 /\ UNCHANGED <<writer, logged, beside>> /\ seq \in Nat
      /\ Emptied <=> at >= 3
      /\ Emptied' <=> at >= 2
      /\ \A j \in Importers : ~Merging(j) /\ ~Merging(j)'
  BY <1>1, OverwriteNumbers
<1>3. /\ at = 1 => UNCHANGED <<history, details, seq>>
      /\ at = 2 => history' = << >>
      /\ at = 3 => UNCHANGED history
      /\ at = 4 => /\ history' = Extended(history, Import)
                   /\ seq' = Highest({seq} \cup DOMAIN history')
      /\ at = 5 => details' = << >> /\ UNCHANGED <<history, seq>>
      /\ at = 6 => details' = Extended(details, PlaysOf(Import)) /\ UNCHANGED <<history, seq>>
  <2>1. OverwriteForm(i)
    BY OverwriteNumbers
  <2>2. QED
    BY <1>1, <2>1 DEF OverwriteForm
<1>4. Rows'
  <2>1. CASE at >= 2
    BY <1>2, <2>1 DEF Rows
  <2>2. CASE at = 1
    <3>1. UNCHANGED <<history, details, seq>>
      BY <1>3, <2>2
    <3>2. ~Emptied
      BY <1>2, <2>2
    <3>3. ASSUME NEW id \in DOMAIN history, id \notin beside PROVE Explained(id)'
      <4>1. /\ id \in DOMAIN details => details[id] = history[id].play
            /\ id \in DOMAIN details \/ Unfinished(id)
        BY <1>2, <3>2, <3>3, NotFresh
      <4>2. Unfinished(id) => Unfinished(id)'
        BY <1>2, <3>1 DEF Unfinished
      <4>3. QED
        BY <3>1, <4>1, <4>2 DEF Explained
    <3>4. QED
      BY <1>2, <3>1, <3>2, <3>3 DEF Rows
  <2>3. QED
    BY <1>2, <2>1, <2>2
<1>5. /\ at \in {3, 4} => \A id \in DOMAIN history :
           id \in beside /\ history[id].reference_id \in beside \cup {0}
      /\ at \in 5 .. 7 =>
           /\ \A id \in DOMAIN history : FromImport(id) /\ id <= seq
           /\ \A n \in DOMAIN Import : n <= seq
           /\ \A n \in DOMAIN Import : n \notin beside =>
                n \in DOMAIN history /\ history[n] = Import[n]
      /\ at = 6 => DOMAIN details \subseteq beside
  BY <1>1, OverwriteNumbers DEF Overwrite
<1>6. CASE at = 1
  <2>1. next = 2
    BY <1>2, <1>6
  <2>2. Overwrite(i)'
    BY <1>1, <2>1 DEF Overwrite
  <2>3. QED
    BY <1>4, <2>2, OverwriteRunning
<1>7. CASE at = 2
  <2>1. DOMAIN history' = {} /\ next = 3
    BY <1>2, <1>3, <1>7
  <2>2. Overwrite(i)'
    BY <1>1, <2>1 DEF Overwrite
  <2>3. QED
    BY <1>4, <2>2, OverwriteRunning
<1>8. CASE at = 3
  <2>1. UNCHANGED history /\ next = 4
    BY <1>2, <1>3, <1>8
  <2>2. Overwrite(i)'
    BY <1>1, <1>2, <1>5, <1>8, <2>1 DEF Overwrite
  <2>3. QED
    BY <1>4, <2>2, OverwriteRunning
<1>9. CASE at = 4
  <2>1. /\ history' = Extended(history, Import) /\ next = 5
        /\ seq' = Highest({seq} \cup DOMAIN history')
    BY <1>2, <1>3, <1>9
  <2>2. /\ DOMAIN history' = DOMAIN history \cup DOMAIN Import
        /\ \A id \in DOMAIN history : history'[id] = history[id]
        /\ \A id \in DOMAIN Import : id \notin DOMAIN history => history'[id] = Import[id]
    BY <2>1, InsertedHistory
  <2>3. \A id \in DOMAIN history' : id <= seq'
    BY <1>2, <2>1, InsertedSeq
  <2>4. \A id \in DOMAIN history :
          id \in beside /\ history[id].reference_id \in beside \cup {0}
    BY <1>5, <1>9
  <2>5. \A id \in DOMAIN history' : FromImport(id)'
    BY <1>2, <2>2, <2>4 DEF FromImport
  <2>6. \A n \in DOMAIN Import : n \notin beside => n \in DOMAIN history' /\ history'[n] = Import[n]
    BY <2>2, <2>4
  <2>7. Overwrite(i)'
    <3>1. \A n \in DOMAIN Import : n <= seq'
      BY <2>2, <2>3
    <3>2. ~(5 \in {3, 4}) /\ 5 \in 5 .. 7 /\ 5 # 6 /\ 5 # 7
      OBVIOUS
    <3>3. QED
      BY <1>1, <1>2, <2>1, <2>3, <2>5, <2>6, <3>1, <3>2 DEF Overwrite
  <2>8. QED
    BY <1>4, <2>7, OverwriteRunning
<1>10. CASE at \in {5, 6}
  <2>1. UNCHANGED <<history, seq>>
    BY <1>10, <1>3
  <2>2. /\ \A id \in DOMAIN history : FromImport(id) /\ id <= seq
        /\ \A n \in DOMAIN Import : n <= seq
        /\ \A n \in DOMAIN Import : n \notin beside =>
             n \in DOMAIN history /\ history[n] = Import[n]
    BY <1>5, <1>10
  <2>3. \A id \in DOMAIN history : FromImport(id)'
    BY <1>2, <2>1, <2>2 DEF FromImport
  <2>4. CASE at = 5
    <3>1. DOMAIN details' = {} /\ next = 6
      BY <1>2, <1>3, <2>4
    <3>2. Overwrite(i)'
      BY <1>1, <1>2, <2>1, <2>2, <2>3, <3>1 DEF Overwrite
    <3>3. QED
      BY <1>4, <3>2, OverwriteRunning
  <2>5. CASE at = 6
    <3>1. details' = Extended(details, PlaysOf(Import)) /\ next = 7
      BY <1>2, <1>3, <2>5
    <3>2. PICK D : D = PlaysOf(Import)
      OBVIOUS
    <3>3. DOMAIN D = DOMAIN Import /\ \A n \in DOMAIN Import : D[n] = Import[n].play
      BY <3>2, FileTables
    <3>4. /\ DOMAIN details' = DOMAIN details \cup DOMAIN D
          /\ \A id \in DOMAIN D : id \notin DOMAIN details => details'[id] = D[id]
      BY <3>1, <3>2, InsertedDetails
    <3>5. DOMAIN details \subseteq beside
      BY <1>5, <2>5
    <3>6. /\ DOMAIN Import \subseteq DOMAIN details'
          /\ \A id \in DOMAIN details' : id \notin beside' =>
               id \in DOMAIN Import /\ details'[id] = Import[id].play
      BY <1>2, <3>3, <3>4, <3>5
    <3>7. Overwrite(i)'
      BY <1>1, <1>2, <2>1, <2>2, <2>3, <3>1, <3>6 DEF Overwrite
    <3>8. QED
      BY <1>4, <3>7, OverwriteRunning
  <2>6. QED
    BY <1>10, <2>4, <2>5
<1>11. QED
  BY <1>2, <1>6, <1>7, <1>8, <1>9, <1>10
-----------------------------------------------------------------------------
(* The steps of an import other than its statements. *)

LEMMA SameRuns ==
  ASSUME Rows, Running, ~disturbed, ~disturbed',
         UNCHANGED <<history, details, seq, copies, writer, logged, beside>>,
         \A j \in Importers : /\ UnderWay(j)' <=> UnderWay(j)
                              /\ Merging(j)' <=> Merging(j)
                              /\ Overwriting(j)' <=> Overwriting(j)
                              /\ UnderWay(j) => importer'[j] = importer[j]
  PROVE  /\ Rows' /\ Running' /\ (Emptied' <=> Emptied)
         /\ \A p : Kept(p) => Kept(p)'
<1>1. Emptied' <=> Emptied
  BY DEF Emptied, Merging, Overwriting
<1>2. \A p : Kept(p) <=> Kept(p)'
  BY DEF Kept, HasOwnDetails
<1>3. ASSUME NEW id, Explained(id) PROVE Explained(id)'
  BY <1>3 DEF Explained, Unfinished, Fresh, Merging
<1>4. Rows'
  BY <1>1, <1>3 DEF Rows
<1>5. ASSUME NEW j \in Importers, Merging(j)' PROVE Merge(j)'
  <2>1. Merge(j) /\ importer'[j] = importer[j]
    BY <1>5 DEF Running, Merging
  <2>2. QED
    BY <1>2, <2>1 DEF Merge
<1>6. ASSUME NEW j \in Importers, Overwriting(j)' PROVE Overwrite(j)'
  <2>1. Overwrite(j) /\ importer'[j] = importer[j]
    BY <1>6 DEF Running, Overwriting
  <2>2. QED
    BY <2>1 DEF Overwrite, FromImport
<1>7. QED
  BY <1>1, <1>2, <1>4, <1>5, <1>6 DEF Running

LEMMA AnnounceRuns ==
  ASSUME Base, Alone, Starting, Rows, Running, ~disturbed, ~disturbed',
         NEW i \in Importers, Announce(i)
  PROVE  /\ Rows' /\ Running' /\ ~Emptied /\ ~Emptied'
         /\ \A p : Kept(p) => Kept(p)'
<1>1. \A j \in Importers : ~UnderWay(j)
  BY AnnounceIs DEF Announce
<1>2. ~Emptied
  BY <1>1 DEF Emptied, Overwriting
<1>3. /\ UNCHANGED <<history, details, seq, copies, writer, logged>> /\ beside \subseteq beside'
  BY DEF Announce, tables
<1>4. \A j \in Importers : UnderWay(j)' => j = i /\ importer'[j].at = 1
  BY <1>1, AnnounceIs DEF Starting
<1>5. ~Emptied'
  <2>1. ~(1 >= 3)
    OBVIOUS
  <2>2. QED
    BY <1>4, <2>1 DEF Emptied, Overwriting
<1>6. ASSUME NEW p, Kept(p) PROVE Kept(p)'
  <2>1. PICK id \in DOMAIN history :
          /\ history[id].play = p
          /\ (id \in DOMAIN details /\ details[id] = p) \/ id \in beside
    BY <1>6, KeptBy
  <2>2. QED
    BY <1>3, <2>1, KeptAfter
<1>7. Rows'
  <2>1. ASSUME NEW id \in DOMAIN history, id \notin beside' PROVE Explained(id)'
    <3>1. /\ id \in DOMAIN details => details[id] = history[id].play
          /\ id \in DOMAIN details \/ Unfinished(id)
      BY <1>1, <1>2, <1>3, <2>1, NotFresh DEF Merging
    <3>2. Unfinished(id) => Unfinished(id)'
      BY <1>3 DEF Unfinished
    <3>3. QED
      BY <1>3, <3>1, <3>2 DEF Explained
  <2>2. /\ \A id \in DOMAIN history : id <= seq
        /\ \A id \in DOMAIN details : id \notin beside' => id <= seq
    BY <1>2, <1>3 DEF Rows
  <2>3. QED
    BY <1>3, <2>1, <2>2 DEF Rows
<1>8. Running'
  <2>1. ASSUME NEW j \in Importers, importer'[j].at = 1 PROVE Merge(j)' /\ Overwrite(j)'
    <3>1. /\ ~(1 >= 2) /\ 1 \notin 3 .. 11 /\ 1 # 3 /\ 1 # 4 /\ 1 \notin 5 .. 11 /\ 1 \notin 6 .. 12
          /\ 1 # 6 /\ 1 \notin 7 .. 12 /\ 1 \notin 2 .. 7 /\ 1 \notin 2 .. 8 /\ 1 # 8 /\ ~(1 >= 9)
          /\ 1 \notin {3, 4} /\ 1 \notin 5 .. 7 /\ 1 # 7
      OBVIOUS
    <3>2. QED
      BY <2>1, <3>1 DEF Merge, Overwrite
  <2>2. QED
    BY <1>4, <2>1 DEF Running, Merging, Overwriting
<1>9. QED
  BY <1>2, <1>5, <1>6, <1>7, <1>8

\* Nothing is under way any more.
LEMMA QuietRuns ==
  ASSUME \A j \in Importers : ~UnderWay(j)'
  PROVE  Running' /\ ~Emptied'
  BY DEF Running, Emptied, Merging, Overwriting

LEMMA FinishMerge ==
  ASSUME Base, Alone, Rows, Running, Arrived, ~disturbed, ~disturbed', NEW i \in Importers,
         Finish(i), Merging(i)
  PROVE  Rows' /\ Running' /\ Arrived' /\ \A p : Kept(p) => Kept(p)'
<1>1. PICK s : s = importer[i].seq
  OBVIOUS
<1>2. /\ UNCHANGED <<history, details, seq, copies, writer, logged, beside>>
      /\ imported' = imported \cup {s}
  BY <1>1 DEF Finish, tables, Merging
<1>3. importer[i].at = 13 /\ ~Emptied /\ \A j \in Importers : UnderWay(j) => j = i
  BY FinishIs, OnlyOne DEF Merging
<1>4. \A j \in Importers : ~UnderWay(j)'
  BY <1>3, FinishIs
<1>5. \A p : Kept(p) <=> Kept(p)'
  BY <1>2 DEF Kept, HasOwnDetails
<1>6. ASSUME NEW id \in DOMAIN history, id \notin beside PROVE Explained(id)'
  <2>1. /\ id \in DOMAIN details => details[id] = history[id].play
        /\ id \in DOMAIN details \/ Unfinished(id)
    BY <1>3, <1>6, NotFresh DEF Merging
  <2>2. Unfinished(id) => Unfinished(id)'
    BY <1>2 DEF Unfinished
  <2>3. QED
    BY <1>2, <2>1, <2>2 DEF Explained
<1>7. Rows'
  BY <1>2, <1>3, <1>6 DEF Rows
<1>8. \A n \in DOMAIN Import : n + s \notin beside => Kept(Import[n].play)
  <2>1. Merge(i) /\ 13 >= 9
    BY DEF Running
  <2>2. QED
    BY <1>1, <1>3, <2>1 DEF Merge
<1>9. ASSUME NEW t \in imported', NEW n \in DOMAIN Import
      PROVE  Kept(Import[n].play)' \/ \E r \in imported' : r + n \in beside'
  <2>1. CASE t \in imported
    BY <1>2, <1>3, <1>5, <2>1 DEF Arrived
  <2>2. CASE t = s
    <3>1. n + s = s + n
      BY <1>1, FilesType, ImporterIs DEF Ids
    <3>2. QED
      BY <1>2, <1>5, <1>8, <3>1
  <2>3. QED
    BY <1>2, <1>9, <2>1, <2>2
<1>10. Arrived'
  BY <1>9 DEF Arrived
<1>11. QED
  BY <1>4, <1>5, <1>7, <1>10, QuietRuns

LEMMA FinishOverwrite ==
  ASSUME Base, Alone, Rows, Running, Arrived, ~disturbed, ~disturbed', NEW i \in Importers,
         Finish(i), Overwriting(i)
  PROVE  Rows' /\ Running' /\ Arrived' /\ \A p : Kept(p) => Kept(p)'
<1>1. /\ UNCHANGED <<history, details, seq, copies, writer, logged, beside>>
      /\ imported' = imported \cup {0}
  BY DEF Finish, tables, Overwriting
<1>2. importer[i].at = 7 /\ \A j \in Importers : UnderWay(j) => j = i
  BY FinishIs, OnlyOne DEF Overwriting
<1>3. \A j \in Importers : ~UnderWay(j)'
  BY <1>2, FinishIs
<1>4. \A p : Kept(p) <=> Kept(p)'
  BY <1>1 DEF Kept, HasOwnDetails
<1>5. /\ \A id \in DOMAIN history : FromImport(id) /\ id <= seq
      /\ \A n \in DOMAIN Import : n <= seq
      /\ \A n \in DOMAIN Import : n \notin beside =>
           n \in DOMAIN history /\ history[n] = Import[n]
      /\ DOMAIN Import \subseteq DOMAIN details
      /\ \A id \in DOMAIN details : id \notin beside =>
           id \in DOMAIN Import /\ details[id] = Import[id].play
  <2>1. Overwrite(i) /\ 7 \in 5 .. 7
    BY DEF Running
  <2>2. QED
    BY <1>2, <2>1 DEF Overwrite
<1>6. ASSUME NEW id \in DOMAIN history, id \notin beside PROVE Explained(id)'
  <2>1. id \in DOMAIN Import /\ history[id] = Import[id]
    BY <1>5, <1>6 DEF FromImport
  <2>2. id \in DOMAIN details /\ details[id] = history[id].play
    BY <1>5, <1>6, <2>1
  <2>3. QED
    BY <1>1, <2>2 DEF Explained
<1>7. Rows'
  BY <1>1, <1>5, <1>6 DEF Rows
<1>8. ASSUME NEW n \in DOMAIN Import
      PROVE  Kept(Import[n].play)' \/ \E r \in imported' : r + n \in beside'
  <2>1. 0 + n = n /\ 0 \in imported'
    BY <1>1, FilesType DEF Ids
  <2>2. CASE n \in beside
    BY <1>1, <2>1, <2>2
  <2>3. CASE n \notin beside
    <3>1. /\ n \in DOMAIN history' /\ history'[n].play = Import[n].play
          /\ n \in DOMAIN details' /\ details'[n] = Import[n].play
      BY <1>1, <1>5, <2>3
    <3>2. QED
      BY <3>1, KeptAfter
  <2>4. QED
    BY <2>2, <2>3
<1>9. Arrived'
  BY <1>8 DEF Arrived
<1>10. QED
  BY <1>3, <1>4, <1>7, <1>9, QuietRuns

LEMMA RestartRuns ==
  ASSUME Base, Alone, Rows, ~disturbed, ~disturbed', Restart
  PROVE  /\ Rows' /\ Running' /\ ~Emptied
         /\ \A p : Kept(p) => Kept(p)'
<1>1. \A j \in Importers : ~UnderWay(j) /\ ~UnderWay(j)'
  BY NotImportingIs DEF Restart, UnderWay
<1>2. /\ UNCHANGED <<history, details, seq, copies, logged, beside>> /\ writer' = NotWriting
  BY DEF Restart, tables
<1>3. ~Emptied
  BY <1>1 DEF Emptied, Overwriting
<1>4. \A p : Kept(p) <=> Kept(p)'
  BY <1>2 DEF Kept, HasOwnDetails
<1>5. ASSUME NEW id \in DOMAIN history, id \notin beside PROVE Explained(id)'
  <2>1. /\ id \in DOMAIN details => details[id] = history[id].play
        /\ id \in DOMAIN details \/ Unfinished(id)
    BY <1>1, <1>3, <1>5, NotFresh DEF Merging
  <2>2. Unfinished(id) => Unfinished(id)'
    BY <1>2 DEF Unfinished, NotWriting
  <2>3. QED
    BY <1>2, <2>1, <2>2 DEF Explained
<1>6. Rows'
  BY <1>2, <1>3, <1>5 DEF Rows
<1>7. QED
  BY <1>1, <1>3, <1>4, <1>6, QuietRuns
-----------------------------------------------------------------------------
(* The writer beside an import. *)

\* What a step of the writer has to keep for the import that is under way.
LEMMA WriteRuns ==
  ASSUME Base, Running, ~disturbed, ~disturbed', UNCHANGED <<importer, copies>>,
         seq <= seq', seq' \in Nat, beside \subseteq beside',
         \A p : Kept(p) => Kept(p)',
         DOMAIN history \subseteq DOMAIN history',
         \A id \in DOMAIN history : history'[id].play = history[id].play,
         \A id \in DOMAIN history : id \notin beside' => history'[id] = history[id],
         (\E j \in Importers : UnderWay(j)) =>
           /\ \A id \in DOMAIN history' : id \in DOMAIN history \/ id \in beside'
           /\ \A id \in DOMAIN history' : id \in beside' =>
                \/ history'[id].reference_id \in beside' \cup {0}
                \/ id \in DOMAIN history /\ history'[id] = history[id]
           /\ \A id \in DOMAIN history' : id \in DOMAIN history \/ id <= seq'
           /\ DOMAIN details \subseteq DOMAIN details'
           /\ \A id \in DOMAIN details' : id \notin beside' =>
                id \in DOMAIN details /\ details'[id] = details[id]
  PROVE  Running'
<1>1. seq \in Nat /\ DOMAIN history \subseteq Nat /\ DOMAIN Import \subseteq Nat
  BY FilesType DEF Base, HistoryType, Ids
<1>2. \A x \in Nat : x <= seq => x <= seq'
  BY <1>1
<1>3. ASSUME NEW j \in Importers, UnderWay(j), Merge(j) PROVE Merge(j)'
  <2>1. PICK s, at : s = importer[j].seq /\ at = importer[j].at
    OBVIOUS
  <2>2. importer'[j].seq = s /\ importer'[j].at = at /\ s \in Nat
    BY <2>1, ImporterIs
  <2>3. /\ \A id \in DOMAIN history' : id \in DOMAIN history \/ id \in beside'
        /\ \A id \in DOMAIN details' : id \notin beside' => id \in DOMAIN details
    BY <1>3
  <2>4. at >= 2 => s <= seq'
    BY <1>2, <1>3, <2>1, <2>2 DEF Merge
  <2>5. at \in 2 .. 7 => \A id \in DOMAIN history' : id \notin beside' => id <= s
    BY <1>3, <2>1, <2>3 DEF Merge
  <2>6. at \in 2 .. 8 => \A id \in DOMAIN details' : id \notin beside' => id <= s
    BY <1>3, <2>1, <2>3 DEF Merge
  <2>7. at = 8 => \A id \in DOMAIN history' : id \notin beside' =>
          id <= s \/ \E n \in DOMAIN Import : id = n + s /\ history'[id].play = Import[n].play
    <3>1. at = 8 => \A id \in DOMAIN history : id \notin beside =>
            id <= s \/ \E n \in DOMAIN Import : id = n + s /\ history[id].play = Import[n].play
      BY <1>3, <2>1 DEF Merge
    <3>2. QED
      BY <2>3, <3>1
  <2>8. at = 8 => \A n \in DOMAIN Import : n + s \notin beside' =>
          n + s \in DOMAIN history' /\ history'[n + s].play = Import[n].play
    <3>1. at = 8 => \A n \in DOMAIN Import : n + s \notin beside =>
            n + s \in DOMAIN history /\ history[n + s].play = Import[n].play
      BY <1>3, <2>1 DEF Merge
    <3>2. QED
      BY <3>1
  <2>9. at >= 9 => \A n \in DOMAIN Import : n + s \notin beside' => Kept(Import[n].play)'
    <3>1. at >= 9 => \A n \in DOMAIN Import : n + s \notin beside => Kept(Import[n].play)
      BY <1>3, <2>1 DEF Merge
    <3>2. QED
      BY <3>1
  <2>10. /\ at \in 3 .. 11 => "history" \in DOMAIN copies
         /\ at = 3 => copies["history"] = Import
         /\ at = 4 => copies["history"] = Shifted(Import, s)
         /\ at \in 5 .. 11 => copies["history"] = ShiftedReferences(Shifted(Import, s), s)
         /\ at \in 6 .. 12 => "details" \in DOMAIN copies
         /\ at = 6 => copies["details"] = PlaysOf(Import)
         /\ at \in 7 .. 12 => copies["details"] = Shifted(PlaysOf(Import), s)
    BY <1>3, <2>1 DEF Merge
  <2>11. QED
    BY <2>2, <2>4, <2>5, <2>6, <2>7, <2>8, <2>9, <2>10 DEF Merge
<1>4. ASSUME NEW j \in Importers, UnderWay(j), Overwrite(j) PROVE Overwrite(j)'
  <2>1. PICK at : at = importer[j].at
    OBVIOUS
  <2>2. importer'[j].at = at
    BY <2>1
  <2>3. /\ \A id \in DOMAIN history' : id \in DOMAIN history \/ id \in beside'
        /\ \A id \in DOMAIN history' : id \in beside' =>
             \/ history'[id].reference_id \in beside' \cup {0}
             \/ id \in DOMAIN history /\ history'[id] = history[id]
        /\ \A id \in DOMAIN history' : id \in DOMAIN history \/ id <= seq'
        /\ DOMAIN details \subseteq DOMAIN details'
        /\ \A id \in DOMAIN details' : id \notin beside' =>
             id \in DOMAIN details /\ details'[id] = details[id]
    BY <1>4
  <2>4. at \in {3, 4} => \A id \in DOMAIN history' :
          id \in beside' /\ history'[id].reference_id \in beside' \cup {0}
    <3>1. at \in {3, 4} => \A id \in DOMAIN history :
            id \in beside /\ history[id].reference_id \in beside \cup {0}
      BY <1>4, <2>1 DEF Overwrite
    <3>2. QED
      BY <2>3, <3>1
  <2>5. at \in 5 .. 7 =>
          /\ \A id \in DOMAIN history' : FromImport(id)' /\ id <= seq'
          /\ \A n \in DOMAIN Import : n <= seq'
          /\ \A n \in DOMAIN Import : n \notin beside' =>
               n \in DOMAIN history' /\ history'[n] = Import[n]
    <3>1. SUFFICES ASSUME at \in 5 .. 7
                   PROVE  /\ \A id \in DOMAIN history' : FromImport(id)' /\ id <= seq'
                          /\ \A n \in DOMAIN Import : n <= seq'
                          /\ \A n \in DOMAIN Import : n \notin beside' =>
                               n \in DOMAIN history' /\ history'[n] = Import[n]
      OBVIOUS
    <3>2. /\ \A id \in DOMAIN history : FromImport(id) /\ id <= seq
          /\ \A n \in DOMAIN Import : n <= seq
          /\ \A n \in DOMAIN Import : n \notin beside =>
               n \in DOMAIN history /\ history[n] = Import[n]
      BY <1>4, <2>1, <3>1 DEF Overwrite
    <3>3. ASSUME NEW id \in DOMAIN history' PROVE id <= seq'
      BY <1>1, <1>2, <2>3, <3>2, <3>3
    <3>4. ASSUME NEW id \in DOMAIN history' PROVE FromImport(id)'
      <4>1. CASE id \notin beside'
        BY <2>3, <3>2, <3>4, <4>1 DEF FromImport
      <4>2. CASE id \in beside' /\ history'[id].reference_id \in beside' \cup {0}
        BY <4>2 DEF FromImport
      <4>3. CASE id \in DOMAIN history /\ history'[id] = history[id]
        BY <3>2, <4>3 DEF FromImport
      <4>4. QED
        BY <2>3, <3>4, <4>1, <4>2, <4>3
    <3>5. \A n \in DOMAIN Import : n <= seq'
      BY <1>1, <1>2, <3>2
    <3>6. \A n \in DOMAIN Import : n \notin beside' => n \in DOMAIN history' /\ history'[n] = Import[n]
      BY <3>2
    <3>7. QED
      BY <3>3, <3>4, <3>5, <3>6
  <2>6. at = 6 => DOMAIN details' \subseteq beside'
    BY <1>4, <2>1, <2>3 DEF Overwrite
  <2>7. at = 7 =>
          /\ DOMAIN Import \subseteq DOMAIN details'
          /\ \A id \in DOMAIN details' : id \notin beside' =>
               id \in DOMAIN Import /\ details'[id] = Import[id].play
    <3>1. at = 7 =>
            /\ DOMAIN Import \subseteq DOMAIN details
            /\ \A id \in DOMAIN details : id \notin beside =>
                 id \in DOMAIN Import /\ details[id] = Import[id].play
      BY <1>4, <2>1 DEF Overwrite
    <3>2. QED
      BY <2>3, <3>1
  <2>8. QED
    BY <2>2, <2>4, <2>5, <2>6, <2>7 DEF Overwrite
<1>5. QED
  BY <1>3, <1>4 DEF Running, Merging, Overwriting, UnderWay

\* Whether a row is explained, when its importers stay.
LEMMA ExplainedStep ==
  ASSUME UNCHANGED importer, NEW id, Explained(id),
         history'[id].play = history[id].play,
         id \in DOMAIN details' => details'[id] = history[id].play,
         id \in DOMAIN details => id \in DOMAIN details',
         Unfinished(id) => Unfinished(id)' \/ id \in DOMAIN details'
  PROVE  Explained(id)'
  BY DEF Explained, Fresh, Merging, UnderWay

LEMMA LogRowRuns ==
  ASSUME Base, Rows, Running, ~disturbed, ~disturbed', Write, NEW play \in Live, LogRow(play)
  PROVE  /\ Rows' /\ Running' /\ (Emptied' <=> Emptied)
         /\ \A p : Kept(p) => Kept(p)'
<1>1. PICK new \in Ids :
        /\ new \in Nat /\ new > seq /\ new \notin DOMAIN history /\ seq' = new
        /\ \A old \in DOMAIN history : old < new
        /\ DOMAIN history' = DOMAIN history \cup {new}
        /\ \A old \in DOMAIN history : history'[old] = history[old]
        /\ history'[new] \in [play : Plays, reference_id : Nat]
        /\ history'[new].play = play /\ history'[new].reference_id = 0
        /\ writer' \in [pc : {"idle", "link", "update", "insert"}, play : Live \cup {"none"},
                        id : Nat]
        /\ writer'.pc = "link" /\ writer'.play = play /\ writer'.id = new
        /\ beside' = IF \E i \in Importers : UnderWay(i) THEN beside \cup {new} ELSE beside
  BY LogRowIs
<1>2. UNCHANGED <<importer, copies>>
  BY WriteKeeps
<1>3. /\ play \in running /\ UNCHANGED <<details, logged>>
  BY DEF LogRow
<1>4. /\ seq \in Nat /\ play \notin logged /\ DOMAIN details \subseteq Nat /\ DOMAIN history \subseteq Nat
      /\ \A id \in DOMAIN history : history[id].play # play
  BY <1>3 DEF Base, WriterSound, DetailsType, HistoryType, Ids
<1>5. Emptied' <=> Emptied
  BY <1>2 DEF Emptied, Overwriting, UnderWay
<1>6. seq <= seq' /\ beside \subseteq beside' /\ \A x \in Nat : x <= seq => x <= seq' /\ x # new
  BY <1>1, <1>4
<1>7. ASSUME NEW p, Kept(p) PROVE Kept(p)'
  <2>1. PICK id \in DOMAIN history :
          /\ history[id].play = p
          /\ (id \in DOMAIN details /\ details[id] = p) \/ id \in beside
    BY <1>7, KeptBy
  <2>2. QED
    BY <1>1, <1>3, <1>6, <2>1, KeptAfter
<1>8. Running'
  <2>1. ASSUME \E j \in Importers : UnderWay(j) PROVE new \in beside'
    BY <1>1, <2>1
  <2>2. \A id \in DOMAIN history' : id \in DOMAIN history \/ id <= seq'
    BY <1>1
  <2>3. \A id \in DOMAIN history' : id \in beside' =>
          \/ history'[id].reference_id \in beside' \cup {0}
          \/ id \in DOMAIN history /\ history'[id] = history[id]
    BY <1>1
  <2>4. seq' \in Nat
    BY <1>1
  <2>5. QED
    BY <1>1, <1>2, <1>3, <1>6, <1>7, <2>1, <2>2, <2>3, <2>4, WriteRuns
<1>9. Rows'
  <2>1. SUFFICES ASSUME ~Emptied PROVE Rows'
    BY <1>5 DEF Rows
  <2>2. /\ \A id \in DOMAIN history : id <= seq
        /\ \A id \in DOMAIN details : id \notin beside => id <= seq
        /\ \A id \in DOMAIN history : id \notin beside => Explained(id)
    BY <2>1 DEF Rows
  <2>3. \A id \in DOMAIN history' : id <= seq'
    BY <1>1, <1>4, <1>6, <2>2
  <2>4. \A id \in DOMAIN details' : id \notin beside' => id <= seq'
    BY <1>3, <1>4, <1>6, <2>2
  <2>5. ASSUME NEW id \in DOMAIN history, id \notin beside' PROVE Explained(id)'
    <3>1. Explained(id) /\ history'[id] = history[id]
      BY <1>1, <1>6, <2>2, <2>5
    <3>2. Unfinished(id) => Unfinished(id)'
      BY <1>1, <1>3, <1>4, <2>5, <3>1 DEF Unfinished
    <3>3. id \in DOMAIN details => details[id] = history[id].play
      BY <3>1 DEF Explained
    <3>4. QED
      BY <1>2, <1>3, <3>1, <3>2, <3>3, ExplainedStep
  <2>6. ASSUME new \notin beside' PROVE Explained(new)'
    <3>1. new \notin DOMAIN details
      BY <1>4, <1>6, <2>2, <2>6
    <3>2. Unfinished(new)'
      BY <1>1, <1>3, <1>4 DEF Unfinished
    <3>3. QED
      BY <1>3, <3>1, <3>2 DEF Explained
  <2>7. QED
    BY <1>1, <2>3, <2>4, <2>5, <2>6 DEF Rows
<1>10. QED
  BY <1>5, <1>7, <1>8, <1>9

LEMMA LinkRuns ==
  ASSUME Base, OfWriter, Rows, Running, ~disturbed, ~disturbed', Write, Link
  PROVE  /\ Rows' /\ Running' /\ (Emptied' <=> Emptied)
         /\ \A p : Kept(p) => Kept(p)'
<1>1. PICK w : w = writer.id
  OBVIOUS
<1>2. /\ DOMAIN history' = DOMAIN history
      /\ \A id \in DOMAIN history :
           /\ history'[id].play = history[id].play
           /\ id # w => history'[id] = history[id]
           /\ id = w => history'[id].reference_id = w
      /\ writer.pc # "idle" /\ writer'.pc # "idle" /\ writer'.play = writer.play /\ writer'.id = w
  BY <1>1, LinkIs
<1>3. /\ UNCHANGED <<importer, copies>> /\ UNCHANGED <<details, seq, logged, beside>>
  BY WriteKeeps DEF Link
<1>4. seq \in Nat /\ seq <= seq' /\ seq' \in Nat
  BY <1>3 DEF Base
<1>5. Emptied' <=> Emptied
  BY <1>3 DEF Emptied, Overwriting, UnderWay
<1>6. ASSUME NEW p, Kept(p) PROVE Kept(p)'
  <2>1. PICK id \in DOMAIN history :
          /\ history[id].play = p
          /\ (id \in DOMAIN details /\ details[id] = p) \/ id \in beside
    BY <1>6, KeptBy
  <2>2. QED
    BY <1>2, <1>3, <2>1, KeptAfter
<1>7. Rows'
  <2>1. ASSUME NEW id \in DOMAIN history, Explained(id) PROVE Explained(id)'
    <3>1. Unfinished(id) => Unfinished(id)'
      BY <1>1, <1>2, <1>3, <2>1 DEF Unfinished
    <3>2. id \in DOMAIN details => details[id] = history[id].play
      BY <2>1 DEF Explained
    <3>3. QED
      BY <1>2, <1>3, <2>1, <3>1, <3>2, ExplainedStep
  <2>2. QED
    BY <1>2, <1>3, <1>5, <2>1 DEF Rows
<1>8. Running'
  <2>1. CASE \E j \in Importers : UnderWay(j)
    <3>1. w \in beside
      BY <1>1, <1>2, <2>1 DEF OfWriter
    <3>2. \A id \in DOMAIN history : id \notin beside' => history'[id] = history[id]
      BY <1>2, <1>3, <3>1
    <3>3. \A id \in DOMAIN history' : id \in beside' =>
            \/ history'[id].reference_id \in beside' \cup {0}
            \/ id \in DOMAIN history /\ history'[id] = history[id]
      BY <1>2, <1>3, <3>1
    <3>4. QED
      BY <1>2, <1>3, <1>4, <1>6, <3>2, <3>3, WriteRuns
  <2>2. CASE ~\E j \in Importers : UnderWay(j)
    <3>1. \A j \in Importers : ~UnderWay(j)'
      BY <1>3, <2>2 DEF UnderWay
    <3>2. QED
      BY <3>1, QuietRuns
  <2>3. QED
    BY <2>1, <2>2
<1>9. QED
  BY <1>5, <1>6, <1>7, <1>8

LEMMA DetailsRuns ==
  ASSUME Base, OfWriter, Rows, Running, ~disturbed, ~disturbed', Write,
         UpdateDetails \/ InsertDetails
  PROVE  /\ Rows' /\ Running' /\ (Emptied' <=> Emptied)
         /\ \A p : Kept(p) => Kept(p)'
<1>1. PICK w, play : w = writer.id /\ play = writer.play
  OBVIOUS
<1>2. /\ UNCHANGED <<importer, copies>> /\ UNCHANGED <<history, seq, beside>>
      /\ writer.pc # "idle"
  BY WriteKeeps, DetailsWritten
<1>3. Emptied' <=> Emptied
  BY <1>2 DEF Emptied, Overwriting, UnderWay
<1>4. CASE /\ UNCHANGED <<details, logged>>
           /\ writer'.pc # "idle" /\ writer'.play = play /\ writer'.id = w
  <2>1. ASSUME NEW id \in DOMAIN history, Explained(id) PROVE Explained(id)'
    <3>1. Unfinished(id) => Unfinished(id)'
      BY <1>1, <1>2, <1>4, <2>1 DEF Unfinished
    <3>2. id \in DOMAIN details => details[id] = history[id].play
      BY <2>1 DEF Explained
    <3>3. QED
      BY <1>2, <1>4, <2>1, <3>1, <3>2, ExplainedStep
  <2>2. Rows'
    BY <1>2, <1>3, <1>4, <2>1 DEF Rows
  <2>3. \A p : Kept(p) <=> Kept(p)'
    BY <1>2, <1>4 DEF Kept, HasOwnDetails
  <2>4. seq \in Nat /\ seq <= seq' /\ seq' \in Nat
    BY <1>2 DEF Base
  <2>5. Running'
    BY <1>2, <1>4, <2>3, <2>4, WriteRuns
  <2>6. QED
    BY <1>3, <2>2, <2>3, <2>5
<1>5. CASE /\ WriterEnds
           /\ DOMAIN details' = DOMAIN details \cup {w}
           /\ \A id \in DOMAIN details : id # w => details'[id] = details[id]
           /\ details'[w] \in {play, details[w]}
           /\ w \notin DOMAIN details => details'[w] = play
  <2>1. logged' = logged \cup {play} /\ writer'.pc = "idle"
    BY <1>1, <1>5 DEF WriterEnds, NotWriting
  <2>2. w \in beside \/ (w \in DOMAIN history /\ history[w].play = play)
    BY <1>1, <1>2 DEF OfWriter
  <2>3. ASSUME NEW id \in DOMAIN history, id \notin beside, Explained(id) PROVE Explained(id)'
    <3>1. Unfinished(id) => Unfinished(id)' \/ id \in DOMAIN details'
      BY <1>1, <1>2, <1>5, <2>1 DEF Unfinished
    <3>2. id \in DOMAIN details => details[id] = history[id].play
      BY <2>3 DEF Explained
    <3>3. id \in DOMAIN details' => details'[id] = history[id].play
      BY <1>5, <2>2, <2>3, <3>2
    <3>4. QED
      BY <1>2, <1>5, <2>3, <3>1, <3>2, <3>3, ExplainedStep
  <2>4. Rows'
    <3>1. SUFFICES ASSUME ~Emptied PROVE Rows'
      BY <1>3 DEF Rows
    <3>2. /\ \A id \in DOMAIN history : id <= seq
          /\ \A id \in DOMAIN details : id \notin beside => id <= seq
          /\ \A id \in DOMAIN history : id \notin beside => Explained(id)
      BY <3>1 DEF Rows
    <3>3. \A id \in DOMAIN details' : id \notin beside => id <= seq
      BY <1>5, <2>2, <3>2
    <3>4. QED
      BY <1>2, <2>3, <3>2, <3>3 DEF Rows
  <2>5. ASSUME NEW p, Kept(p) PROVE Kept(p)'
    <3>1. PICK id \in DOMAIN history :
            /\ history[id].play = p
            /\ (id \in DOMAIN details /\ details[id] = p) \/ id \in beside
      BY <2>5, KeptBy
    <3>2. CASE id \in beside
      BY <1>2, <3>1, <3>2, KeptAfter
    <3>3. CASE id \notin beside /\ id # w
      BY <1>2, <1>5, <3>1, <3>3, KeptAfter
    <3>4. CASE id \notin beside /\ id = w
      <4>1. details'[w] = p /\ w \in DOMAIN details'
        BY <1>5, <2>2, <3>1, <3>4
      <4>2. QED
        BY <1>2, <3>1, <3>4, <4>1, KeptAfter
    <3>5. QED
      BY <3>2, <3>3, <3>4
  <2>6. Running'
    <3>1. CASE \E j \in Importers : UnderWay(j)
      <4>1. w \in beside
        BY <1>1, <1>2, <3>1 DEF OfWriter
      <4>2. /\ DOMAIN details \subseteq DOMAIN details'
            /\ \A id \in DOMAIN details' : id \notin beside' =>
                 id \in DOMAIN details /\ details'[id] = details[id]
        BY <1>2, <1>5, <4>1
      <4>3. seq \in Nat /\ seq <= seq' /\ seq' \in Nat
        BY <1>2 DEF Base
      <4>4. QED
        BY <1>2, <2>5, <4>2, <4>3, WriteRuns
    <3>2. CASE ~\E j \in Importers : UnderWay(j)
      <4>1. \A j \in Importers : ~UnderWay(j)'
        BY <1>2, <3>2 DEF UnderWay
      <4>2. QED
        BY <4>1, QuietRuns
    <3>3. QED
      BY <3>1, <3>2
  <2>7. QED
    BY <1>3, <2>4, <2>5, <2>6
<1>6. QED
  BY <1>1, <1>4, <1>5, DetailsWritten
-----------------------------------------------------------------------------
(* All of it together, while nothing goes wrong with an import. *)

LEMMA ArrivedStep ==
  ASSUME Arrived, imported' = imported, beside \subseteq beside', ~Emptied' => ~Emptied,
         \A p : Kept(p) => Kept(p)'
  PROVE  Arrived'
  BY DEF Arrived

\* What an import keeps when it runs a statement of its method.
LEMMA StatementRuns ==
  ASSUME Base, Base', Alone, Running, Rows, Arrived, ~disturbed, NEW i \in Importers,
         StatementForm(i)
  PROVE  Rows' /\ Running' /\ Arrived' /\ (Emptied' \/ \A p : Kept(p) => Kept(p)')
<1>1. CASE Merging(i)
  <2>1. \A p : Kept(p) => Kept(p)'
    BY <1>1, MergeKept
  <2>2. ~Emptied /\ imported' = imported /\ beside' = beside
    BY <1>1, MergeNumbers
  <2>3. Arrived'
    BY <2>1, <2>2, ArrivedStep
  <2>4. QED
    BY <1>1, <2>1, <2>3, MergeRuns
<1>2. CASE Overwriting(i)
  <2>1. /\ importer[i].at \in 1 .. 6 /\ OverwriteForm(i)
        /\ Emptied <=> importer[i].at >= 3
        /\ Emptied' <=> importer[i].at >= 2
        /\ imported' = imported /\ beside' = beside /\ disturbed' = disturbed
    BY <1>2, OverwriteNumbers
  <2>2. CASE importer[i].at = 1
    <3>1. UNCHANGED <<history, details>>
      BY <2>1, <2>2 DEF OverwriteForm
    <3>2. \A p : Kept(p) => Kept(p)'
      BY <2>1, <3>1 DEF Kept, HasOwnDetails
    <3>3. Arrived'
      BY <2>1, <2>2, <3>2, ArrivedStep
    <3>4. QED
      BY <1>2, <3>2, <3>3, OverwriteRuns
  <2>3. CASE importer[i].at # 1
    <3>1. Emptied'
      BY <2>1, <2>3
    <3>2. Arrived'
      BY <3>1 DEF Arrived
    <3>3. QED
      BY <1>2, <3>1, <3>2, OverwriteRuns
  <2>4. QED
    BY <2>2, <2>3
<1>3. QED
  BY <1>1, <1>2 DEF StatementForm

LEMMA WriteAll ==
  ASSUME Base, OfWriter, Rows, Running, Arrived, ~disturbed, ~disturbed', Write
  PROVE  Rows' /\ Running' /\ Arrived' /\ \A p : Kept(p) => Kept(p)'
<1>1. Rows' /\ Running' /\ (Emptied' <=> Emptied) /\ \A p : Kept(p) => Kept(p)'
  BY LogRowRuns, LinkRuns, DetailsRuns DEF Write
<1>2. imported' = imported
  BY WriteKeeps
<1>3. beside \subseteq beside'
  BY DEF Write, LogRow, Link, UpdateDetails, InsertDetails
<1>4. QED
  BY <1>1, <1>2, <1>3, ArrivedStep

\* A step in which nothing goes wrong.
LEMMA NextRuns ==
  ASSUME Base, Base', Starting, Alone, OfWriter, Rows, Running, Arrived, ~disturbed, ~disturbed',
         Next
  PROVE  Rows' /\ Running' /\ Arrived' /\ (Emptied' \/ \A p : Kept(p) => Kept(p)')
<1>1. ASSUME NEW i \in Importers, (\E method \in Methods : Begin(i, method)) \/ Refuse(i)
      PROVE  Rows' /\ Running' /\ Arrived' /\ \A p : Kept(p) => Kept(p)'
  <2>1. /\ \A j \in Importers : /\ UnderWay(j)' <=> UnderWay(j)
                                /\ Merging(j)' <=> Merging(j)
                                /\ Overwriting(j)' <=> Overwriting(j)
                                /\ UnderWay(j) => importer'[j] = importer[j]
        /\ UNCHANGED <<history, details, seq, copies, writer, logged, beside, imported>>
    BY <1>1, BeginIs, RefuseIs DEF tables, aux
  <2>2. Rows' /\ Running' /\ (Emptied' <=> Emptied) /\ \A p : Kept(p) => Kept(p)'
    BY <2>1, SameRuns
  <2>3. QED
    BY <2>1, <2>2, ArrivedStep
<1>2. ASSUME NEW i \in Importers, Announce(i)
      PROVE  Rows' /\ Running' /\ Arrived' /\ \A p : Kept(p) => Kept(p)'
  <2>1. Rows' /\ Running' /\ ~Emptied /\ ~Emptied' /\ \A p : Kept(p) => Kept(p)'
    BY <1>2, AnnounceRuns
  <2>2. imported' = imported /\ beside \subseteq beside'
    BY <1>2 DEF Announce
  <2>3. QED
    BY <2>1, <2>2, ArrivedStep
<1>3. ASSUME NEW i \in Importers, Statement(i)
      PROVE  Rows' /\ Running' /\ Arrived' /\ (Emptied' \/ \A p : Kept(p) => Kept(p)')
  BY <1>3, Formed, StatementRuns
<1>4. ASSUME NEW i \in Importers, Finish(i)
      PROVE  Rows' /\ Running' /\ Arrived' /\ \A p : Kept(p) => Kept(p)'
  BY <1>4, FinishIs, FinishMerge, FinishOverwrite
<1>5. ASSUME NEW i \in Importers, Lose(i) \/ Raise(i) PROVE FALSE
  BY <1>5 DEF Lose, Raise
<1>6. CASE Write
  BY <1>6, WriteAll
<1>7. CASE Restart
  <2>1. Rows' /\ Running' /\ ~Emptied /\ \A p : Kept(p) => Kept(p)'
    BY <1>7, RestartRuns
  <2>2. imported' = imported /\ beside' = beside
    BY <1>7 DEF Restart
  <2>3. QED
    BY <1>7, <2>1, <2>2, ArrivedStep
<1>8. QED
  BY <1>1, <1>2, <1>3, <1>4, <1>5, <1>6, <1>7 DEF Next

-----------------------------------------------------------------------------
(* Groups, while nothing goes wrong with an import. *)

\* What the files say of groups.
LEMMA ImportGroups ==
  /\ \A n, m \in DOMAIN Import :
       GroupOf[Import[n].play] = GroupOf[Import[m].play] =>
         Import[n].reference_id = Import[m].reference_id
  /\ \A n, m \in DOMAIN Import :
       Import[n].reference_id = Import[m].reference_id =>
         GroupOf[Import[n].play] = GroupOf[Import[m].play] \/ Import[n].reference_id = 0
  /\ \A n \in DOMAIN Import : \A play \in Live : GroupOf[play] # GroupOf[Import[n].play]
  /\ \A p, q \in Live : GroupOf[p] = GroupOf[q] => p = q
<1>1. \A a, b \in DOMAIN Import :
        LET together == GroupOf[Import[a].play] = GroupOf[Import[b].play]
        IN  /\ together => Import[a].reference_id = Import[b].reference_id
            /\ Import[a].reference_id = Import[b].reference_id =>
                 together \/ Import[a].reference_id = 0
  BY ConstantsAssumption
<1>2. \A n \in DOMAIN Import : \A play \in Live : GroupOf[play] # GroupOf[Import[n].play]
  BY ConstantsAssumption
<1>3. \A p, q \in Live : GroupOf[p] = GroupOf[q] => p = q
  BY ConstantsAssumption
<1>4. QED
  BY <1>1, <1>2, <1>3

LEMMA RefIs ==
  ASSUME NEW s \in Nat, NEW n \in DOMAIN Import
  PROVE  /\ Ref(s, n) \in Nat /\ Ref(s, n) <= n + s /\ n + s \in Nat /\ n + s > s
         /\ Ref(s, n) = 0 \/ Ref(s, n) > s
         /\ \A m \in DOMAIN Import : Ref(s, n) = Ref(s, m) =>
              GroupOf[Import[n].play] = GroupOf[Import[m].play] \/ Ref(s, n) = 0
         /\ \A m \in DOMAIN Import : GroupOf[Import[n].play] = GroupOf[Import[m].play] =>
              Ref(s, n) = Ref(s, m)
<1>1. PICK r : r = [m \in DOMAIN Import |-> Import[m].reference_id]
  OBVIOUS
<1>2. \A m \in DOMAIN Import : r[m] \in Nat /\ r[m] <= m /\ m \in Nat /\ m > 0
  BY <1>1, FilesType DEF Ids
<1>3. \A m \in DOMAIN Import : Ref(s, m) = IF r[m] = 0 THEN 0 ELSE r[m] + s
  BY <1>1 DEF Ref
<1>4. \A m \in DOMAIN Import : Ref(s, n) = Ref(s, m) <=> r[n] = r[m]
  BY <1>2, <1>3
<1>5. \A m \in DOMAIN Import :
        /\ GroupOf[Import[n].play] = GroupOf[Import[m].play] => r[n] = r[m]
        /\ r[n] = r[m] => GroupOf[Import[n].play] = GroupOf[Import[m].play] \/ r[n] = 0
  BY <1>1, ImportGroups
<1>6. /\ Ref(s, n) \in Nat /\ Ref(s, n) <= n + s /\ n + s \in Nat /\ n + s > s
      /\ Ref(s, n) = 0 \/ Ref(s, n) > s
  BY <1>2, <1>3
<1>7. r[n] = 0 => Ref(s, n) = 0
  BY <1>3
<1>8. QED
  BY <1>4, <1>5, <1>6, <1>7

\* Steps that leave the history as it is.
LEMMA JoinedSame ==
  ASSUME Joined, UNCHANGED <<history, seq>>, beside \subseteq beside', ~Emptied' => ~Emptied
  PROVE  Joined'
  BY DEF Joined

LEMMA UnlinkedSame ==
  ASSUME Unlinked, UNCHANGED history, beside \subseteq beside',
         writer' = writer \/ writer'.pc # "link"
  PROVE  Unlinked'
  BY DEF Unlinked

LEMMA ReferringSame ==
  ASSUME Referring, UNCHANGED history, beside \subseteq beside',
         \A j \in Importers : Merging(j)' /\ importer'[j].at \in 2 .. 7 =>
           Merging(j) /\ importer[j].at \in 2 .. 7 /\ importer'[j].seq = importer[j].seq
  PROVE  Referring'
  BY DEF Referring

LEMMA BatchesSame ==
  ASSUME Batches, UNCHANGED <<history, imported>>, logged \subseteq logged', beside \subseteq beside',
         ~Emptied' => ~Emptied,
         \A j \in Importers : Doubled(j)' <=> Doubled(j),
         \A j \in Importers : Doubled(j) => importer'[j].seq = importer[j].seq,
         imported = {} => \A j \in Importers : Merging(j) /\ importer[j].at >= 8 =>
           Merging(j)' /\ importer'[j].at >= 8 /\ importer'[j].seq = importer[j].seq
  PROVE  Batches'
<1>1. SUFFICES ASSUME ~Emptied', beside' = {} PROVE OneBatch' /\ FirstBatch' /\ NewBatch'
  BY DEF Batches
<1>2. OneBatch /\ FirstBatch /\ NewBatch
  BY <1>1 DEF Batches
<1>3. \A id : Foreign(id)' => Foreign(id)
  BY DEF Foreign
<1>4. \A s, id : Batch(s, id)' <=> Batch(s, id)
  BY DEF Batch
<1>5. OneBatch'
  BY <1>2, <1>3, <1>4 DEF OneBatch
<1>6. FirstBatch'
  BY <1>2, <1>3, <1>4 DEF FirstBatch
<1>7. NewBatch'
  BY <1>2, <1>4 DEF NewBatch
<1>8. QED
  BY <1>5, <1>6, <1>7

\* Statements that leave the history alone.
LEMMA PlainGroups ==
  ASSUME Base, Alone, Running, Grouped, NEW i \in Importers, Merging(i), StatementForm(i),
         importer[i].at \in {2, 3, 4, 5, 6, 8, 10, 11, 12}
  PROVE  Grouped'
<1>1. /\ importer[i].at \in 1 .. 12 /\ importer'[i].at = importer[i].at + 1
      /\ importer'[i].seq = importer[i].seq /\ MergeForm(i) /\ ~Emptied
      /\ \A j \in Importers : Merging(j) <=> j = i
      /\ \A j \in Importers : Merging(j)' <=> j = i
      /\ UNCHANGED <<writer, running, logged, beside, disturbed, imported>>
  BY MergeNumbers
<1>2. UNCHANGED <<history, seq>>
  BY <1>1 DEF MergeForm, DropOf
<1>3. Joined' /\ Unlinked'
  BY <1>1, <1>2, JoinedSame, UnlinkedSame DEF Grouped
<1>4. Referring'
  BY <1>1, <1>2, ReferringSame DEF Grouped
<1>5. Batches'
  <2>1. \A j \in Importers : Doubled(j)' <=> Doubled(j)
    BY <1>1 DEF Doubled
  <2>2. \A j \in Importers : Doubled(j) => importer'[j].seq = importer[j].seq
    BY <1>1 DEF Doubled
  <2>3. \A j \in Importers : Merging(j) /\ importer[j].at >= 8 =>
          Merging(j)' /\ importer'[j].at >= 8 /\ importer'[j].seq = importer[j].seq
    BY <1>1
  <2>4. QED
    BY <1>1, <1>2, <2>1, <2>2, <2>3, BatchesSame DEF Grouped
<1>6. QED
  BY <1>3, <1>4, <1>5 DEF Grouped

LEMMA ReadSeqGroups ==
  ASSUME Base, Alone, Running, Grouped, NEW i \in Importers, Merging(i), StatementForm(i),
         importer[i].at = 1
  PROVE  Grouped'
<1>1. /\ importer'[i].at = 2 /\ importer'[i].seq = seq /\ MergeForm(i) /\ ~Emptied
      /\ \A j \in Importers : Merging(j) <=> j = i
      /\ \A j \in Importers : Merging(j)' <=> j = i
      /\ UNCHANGED <<writer, running, logged, beside, disturbed, imported>>
  BY MergeNumbers
<1>2. UNCHANGED <<history, seq>>
  BY <1>1 DEF MergeForm
<1>3. Joined' /\ Unlinked'
  BY <1>1, <1>2, JoinedSame, UnlinkedSame DEF Grouped
<1>4. Referring'
  BY <1>1, <1>2 DEF Grouped, Joined, Referring
<1>5. Batches'
  <2>1. \A j \in Importers : ~Doubled(j)' /\ ~Doubled(j)
    BY <1>1 DEF Doubled
  <2>2. \A j \in Importers : ~(Merging(j) /\ importer[j].at >= 8)
    BY <1>1
  <2>3. QED
    BY <1>1, <1>2, <2>1, <2>2, BatchesSame DEF Grouped
<1>6. QED
  BY <1>3, <1>4, <1>5 DEF Grouped

\* The rows that a merge inserts.
LEMMA CopiedGroups ==
  ASSUME NEW s \in Nat, NEW C, C = ShiftedReferences(Shifted(Import, s), s)
  PROVE  \A id \in DOMAIN C :
           /\ id \in Nat /\ id > s
           /\ \E n \in DOMAIN Import : /\ id = n + s /\ C[id].play = Import[n].play
                                       /\ C[id].reference_id = Ref(s, n)
<1>1. PICK S : S = Shifted(Import, s)
  OBVIOUS
<1>2. ForeignHistory(S)
  BY <1>1, FileTables, ForeignShifted
<1>3. DOMAIN Import \subseteq Ids
  BY FilesType
<1>4. /\ DOMAIN S = {n + s : n \in DOMAIN Import}
      /\ \A n \in DOMAIN Import : S[n + s] = Import[n]
  BY <1>1, <1>3, ShiftedIs
<1>5. \A id \in DOMAIN S : S[id] \in [play : ImportPlays, reference_id : Nat]
  BY <1>2 DEF ForeignHistory
<1>6. /\ DOMAIN C = DOMAIN S
      /\ \A id \in DOMAIN S :
           /\ C[id].play = S[id].play
           /\ C[id].reference_id = IF S[id].reference_id = 0 THEN 0 ELSE S[id].reference_id + s
  BY <1>1, <1>5, ShiftedReferencesIs
<1>7. ASSUME NEW id \in DOMAIN C
      PROVE  /\ id \in Nat /\ id > s
             /\ \E n \in DOMAIN Import : /\ id = n + s /\ C[id].play = Import[n].play
                                         /\ C[id].reference_id = Ref(s, n)
  <2>1. PICK n \in DOMAIN Import : id = n + s
    BY <1>4, <1>6
  <2>2. S[id] = Import[n] /\ id \in DOMAIN S
    BY <1>4, <1>6, <2>1
  <2>3. C[id].play = Import[n].play /\ C[id].reference_id = Ref(s, n)
    BY <1>6, <2>2 DEF Ref
  <2>4. QED
    BY <2>1, <2>3, RefIs
<1>8. QED
  BY <1>7

LEMMA InsertHistoryGroups ==
  ASSUME Base, Base', Alone, OfWriter, Running, Arrived, Grouped, ~disturbed,
         NEW i \in Importers, Merging(i), StatementForm(i), importer[i].at = 7
  PROVE  Grouped'
<1>1. PICK s, C : s = importer[i].seq /\ C = copies["history"]
  OBVIOUS
<1>2. /\ importer'[i].at = 8 /\ importer'[i].seq = s /\ s \in Nat /\ seq \in Nat
      /\ MergeForm(i) /\ Merge(i) /\ ~Emptied
      /\ \A j \in Importers : Merging(j) <=> j = i
      /\ \A j \in Importers : Merging(j)' <=> j = i
      /\ UNCHANGED <<writer, running, logged, beside, disturbed, imported>>
  BY <1>1, MergeNumbers
<1>3. history' = Extended(history, C) /\ seq' = Highest({seq} \cup DOMAIN history')
  BY <1>1, <1>2 DEF MergeForm
<1>4. /\ C = ShiftedReferences(Shifted(Import, s), s) /\ s <= seq
      /\ \A id \in DOMAIN history : id \notin beside => id <= s
  BY <1>1, <1>2 DEF Merge
<1>5. \A id \in DOMAIN C :
        /\ id \in Nat /\ id > s
        /\ \E n \in DOMAIN Import : /\ id = n + s /\ C[id].play = Import[n].play
                                    /\ C[id].reference_id = Ref(s, n)
  BY <1>2, <1>4, CopiedGroups
<1>6. /\ DOMAIN history' = DOMAIN history \cup DOMAIN C
      /\ \A id \in DOMAIN history : history'[id] = history[id]
      /\ \A id \in DOMAIN C : id \notin DOMAIN history => history'[id] = C[id]
  BY <1>3, InsertedHistory
<1>7. seq <= seq' /\ seq' \in Nat /\ \A id \in DOMAIN history' : id <= seq'
  BY <1>2, <1>3, InsertedSeq
<1>8. /\ \A id \in DOMAIN history : history[id].reference_id \in Nat
      /\ DOMAIN history \subseteq Nat
  BY DEF Base, HistoryType, Ids
\* A row that is new, and one that is not.
<1>9. \A id \in DOMAIN history' :
        \/ id \in DOMAIN history
        \/ /\ id \in DOMAIN C /\ id > s
           /\ \E n \in DOMAIN Import : /\ id = n + s /\ history'[id].play = Import[n].play
                                       /\ history'[id].reference_id = Ref(s, n)
  BY <1>5, <1>6
<1>10. \A id \in DOMAIN history :
         /\ history[id].reference_id <= s \/ history[id].reference_id \in beside
         /\ history[id].reference_id <= seq \/ history[id].reference_id \in beside
  BY <1>1, <1>2 DEF Grouped, Referring, Joined
<1>11. Joined'
  <2>1. ASSUME NEW id \in DOMAIN history'
        PROVE  history'[id].reference_id <= seq' \/ history'[id].reference_id \in beside'
    <3>1. CASE id \in DOMAIN history
      BY <1>2, <1>6, <1>7, <1>8, <1>10, <3>1
    <3>2. CASE id \notin DOMAIN history
      <4>1. PICK n \in DOMAIN Import : id = n + s /\ history'[id].reference_id = Ref(s, n)
        BY <1>9, <2>1, <3>2
      <4>2. QED
        BY <1>2, <1>7, <2>1, <4>1, RefIs
    <3>3. QED
      BY <3>1, <3>2
  <2>2. ASSUME NEW a \in DOMAIN history', NEW b \in DOMAIN history',
               history'[a].reference_id = history'[b].reference_id
        PROVE  \/ GroupOf[history'[a].play] = GroupOf[history'[b].play]
               \/ history'[a].reference_id \in beside' \cup {0}
    <3>1. CASE a \in DOMAIN history /\ b \in DOMAIN history
      BY <1>2, <1>6, <2>2, <3>1 DEF Grouped, Joined
    <3>2. ASSUME NEW x \in DOMAIN history, NEW y \in DOMAIN history', y \notin DOMAIN history,
                 history'[x].reference_id = history'[y].reference_id
          PROVE  history'[x].reference_id \in beside' \cup {0}
      <4>1. PICK n \in DOMAIN Import : history'[y].reference_id = Ref(s, n)
        BY <1>9, <3>2
      <4>2. Ref(s, n) = 0 \/ Ref(s, n) > s
        BY <1>2, RefIs
      <4>3. history'[x] = history[x]
        BY <1>6
      <4>4. QED
        BY <1>2, <1>8, <1>10, <3>2, <4>1, <4>2, <4>3
    <3>3. CASE a \notin DOMAIN history /\ b \notin DOMAIN history
      <4>1. PICK n \in DOMAIN Import : /\ history'[a].play = Import[n].play
                                       /\ history'[a].reference_id = Ref(s, n)
        BY <1>9, <2>2, <3>3
      <4>2. PICK m \in DOMAIN Import : /\ history'[b].play = Import[m].play
                                       /\ history'[b].reference_id = Ref(s, m)
        BY <1>9, <2>2, <3>3
      <4>3. Ref(s, n) = Ref(s, m)
        BY <2>2, <4>1, <4>2
      <4>4. GroupOf[Import[n].play] = GroupOf[Import[m].play] \/ Ref(s, n) = 0
        BY <1>2, <4>3, RefIs
      <4>5. QED
        BY <4>1, <4>2, <4>4
    <3>4. QED
      BY <2>2, <3>1, <3>2, <3>3
  <2>3. QED
    BY <2>1, <2>2 DEF Joined
<1>12. Unlinked'
  BY <1>2 DEF Unlinked, OfWriter, Merging
<1>13. Referring'
  BY <1>2 DEF Referring
<1>14. Batches'
  <2>1. SUFFICES ASSUME beside = {} PROVE OneBatch' /\ FirstBatch' /\ NewBatch'
    BY <1>2 DEF Batches
  <2>2. OneBatch /\ FirstBatch /\ \A j \in Importers : ~Doubled(j)
    BY <1>2, <2>1 DEF Grouped, Batches, Doubled
  <2>3. Doubled(i)'
    BY <1>2 DEF Doubled
  <2>4. \A id \in DOMAIN history : id <= s
    BY <1>4, <2>1
  <2>5. \A id \in DOMAIN history' : id \in DOMAIN history => (Foreign(id)' <=> Foreign(id))
    BY <1>2, <1>6 DEF Foreign
  <2>6. \A id \in DOMAIN history : \A t : Batch(t, id)' <=> Batch(t, id)
    BY <1>6 DEF Batch
  <2>7. \A id \in DOMAIN history' : id \notin DOMAIN history => id > s /\ Batch(s, id)'
    BY <1>9 DEF Batch
  <2>8. OneBatch'
    <3>1. PICK t \in Nat : \A id \in DOMAIN history : Foreign(id) => Batch(t, id)
      BY <2>2 DEF OneBatch
    <3>2. \A id \in DOMAIN history' : Foreign(id)' =>
            Batch(t, id)' \/ (Doubled(i)' /\ id > importer'[i].seq)
      BY <1>2, <2>3, <2>5, <2>6, <2>7, <3>1
    <3>3. QED
      BY <3>2 DEF OneBatch
  <2>9. FirstBatch'
    <3>1. SUFFICES ASSUME imported = {}, NEW id \in DOMAIN history', Foreign(id)'
                   PROVE  id > importer'[i].seq /\ Batch(importer[i].seq, id)'
      BY <1>1, <1>2 DEF FirstBatch
    <3>2. id \notin DOMAIN history
      <4>1. ASSUME id \in DOMAIN history PROVE FALSE
        <5>1. Foreign(id)
          BY <2>5, <4>1, <3>1
        <5>2. PICK j \in Importers : Merging(j) /\ importer[j].at >= 8
          BY <2>2, <3>1, <4>1, <5>1 DEF FirstBatch
        <5>3. QED
          BY <1>2, <5>2
      <4>2. QED
        BY <4>1
    <3>3. QED
      BY <1>1, <1>2, <2>7, <3>1, <3>2
  <2>10. NewBatch'
    <3>1. \A id \in DOMAIN history' : id > s => Batch(s, id)'
      BY <1>2, <1>8, <2>4, <2>7
    <3>2. ASSUME imported # {}, NEW n \in DOMAIN Import
          PROVE  \E id \in DOMAIN history' : id <= s /\ history'[id].play = Import[n].play
      <4>1. PICK t \in imported : TRUE
        BY <3>2
      <4>2. Kept(Import[n].play)
        BY <1>2, <2>1, <3>2, <4>1 DEF Arrived
      <4>3. PICK id \in DOMAIN history : history[id].play = Import[n].play
        BY <4>2 DEF Kept
      <4>4. QED
        BY <1>6, <2>4, <4>3
    <3>3. QED
      BY <1>1, <1>2, <3>1, <3>2 DEF NewBatch, Doubled
  <2>11. QED
    BY <2>8, <2>9, <2>10
<1>15. QED
  BY <1>11, <1>12, <1>13, <1>14 DEF Grouped

LEMMA DedupeGroups ==
  ASSUME Base, Alone, Running, Grouped, NEW i \in Importers, Merging(i), StatementForm(i),
         importer[i].at = 9
  PROVE  Grouped'
<1>1. PICK s : s = importer[i].seq
  OBVIOUS
<1>2. /\ importer'[i].at = 10 /\ importer'[i].seq = s /\ s \in Nat /\ seq \in Nat
      /\ MergeForm(i) /\ ~Emptied
      /\ \A j \in Importers : Merging(j) <=> j = i
      /\ \A j \in Importers : Merging(j)' <=> j = i
      /\ UNCHANGED <<writer, running, logged, beside, disturbed, imported>>
  BY <1>1, MergeNumbers
<1>3. history' = Restricted(history, Oldest) /\ UNCHANGED seq
  BY <1>2 DEF MergeForm
<1>4. /\ DOMAIN history' = DOMAIN history \cap Oldest
      /\ \A id \in DOMAIN history' : history'[id] = history[id]
  BY <1>3, DedupedIs
<1>5. Joined'
  BY <1>2, <1>3, <1>4 DEF Grouped, Joined
<1>6. Unlinked'
  BY <1>2, <1>4 DEF Grouped, Unlinked
<1>7. Referring'
  BY <1>2 DEF Referring
<1>8. Batches'
  <2>1. SUFFICES ASSUME beside = {} PROVE OneBatch' /\ FirstBatch' /\ NewBatch'
    BY <1>2 DEF Batches
  <2>2. OneBatch /\ FirstBatch /\ NewBatch
    BY <1>2, <2>1 DEF Grouped, Batches
  <2>3. \A j \in Importers : (Doubled(j) <=> j = i) /\ ~Doubled(j)'
    BY <1>2 DEF Doubled
  <2>4. \A id \in DOMAIN history' : /\ id \in DOMAIN history /\ (Foreign(id)' => Foreign(id))
                                    /\ \A t : Batch(t, id)' <=> Batch(t, id)
    BY <1>2, <1>4 DEF Foreign, Batch
  <2>5. \A id \in DOMAIN history : id > s => Batch(s, id)
    BY <1>1, <2>2, <2>3 DEF NewBatch
  <2>6. CASE imported = {}
    <3>1. \A id \in DOMAIN history : Foreign(id) => id > s /\ Batch(s, id)
      BY <1>1, <1>2, <2>2, <2>6 DEF FirstBatch
    <3>2. OneBatch'
      BY <1>2, <2>4, <3>1 DEF OneBatch
    <3>3. FirstBatch'
      BY <1>2, <2>4, <3>1 DEF FirstBatch
    <3>4. QED
      BY <2>3, <3>2, <3>3 DEF NewBatch
  <2>7. CASE imported # {}
    <3>1. PICK t \in Nat : \A id \in DOMAIN history : Foreign(id) => Batch(t, id) \/ id > s
      BY <1>1, <2>2, <2>3 DEF OneBatch
    <3>2. \A n \in DOMAIN Import :
            \E id \in DOMAIN history : id <= s /\ history[id].play = Import[n].play
      BY <1>1, <2>2, <2>3, <2>7 DEF NewBatch
    <3>3. ASSUME NEW id \in DOMAIN history', id > s PROVE FALSE
      <4>1. PICK n \in DOMAIN Import : history[id].play = Import[n].play
        BY <2>4, <2>5, <3>3 DEF Batch
      <4>2. PICK old \in DOMAIN history : old <= s /\ history[old].play = Import[n].play
        BY <3>2
      <4>3. id <= old
        BY <1>4, <3>3, <4>1, <4>2 DEF Oldest
      <4>4. id \in Nat /\ old \in Nat
        BY <2>4 DEF Base, HistoryType, Ids
      <4>5. QED
        BY <1>2, <3>3, <4>2, <4>3, <4>4
    <3>4. \A id \in DOMAIN history' : Foreign(id)' => Batch(t, id)'
      BY <2>4, <3>1, <3>3
    <3>5. OneBatch'
      BY <3>4 DEF OneBatch
    <3>6. QED
      BY <1>2, <2>3, <2>7, <3>5 DEF FirstBatch, NewBatch
  <2>8. QED
    BY <2>6, <2>7
<1>9. QED
  BY <1>5, <1>6, <1>7, <1>8 DEF Grouped

LEMMA StatementGroups ==
  ASSUME Base, Base', Alone, OfWriter, Running, Arrived, Grouped, ~disturbed,
         NEW i \in Importers, StatementForm(i)
  PROVE  Grouped'
<1>1. CASE Merging(i)
  <2>1. importer[i].at \in 1 .. 12
    BY <1>1, MergeNumbers
  <2>2. QED
    BY <1>1, <2>1, ReadSeqGroups, PlainGroups, InsertHistoryGroups, DedupeGroups
<1>2. CASE Overwriting(i)
  <2>1. /\ importer[i].at \in 1 .. 6 /\ OverwriteForm(i)
        /\ Emptied <=> importer[i].at >= 3
        /\ Emptied' <=> importer[i].at >= 2
        /\ UNCHANGED <<writer, logged, beside, imported>>
        /\ \A j \in Importers : ~Merging(j) /\ ~Merging(j)'
    BY <1>2, OverwriteNumbers
  <2>2. Unlinked'
    BY <1>2, <2>1 DEF Unlinked, OfWriter, Overwriting
  <2>3. Referring'
    BY <2>1 DEF Referring
  <2>4. Joined' /\ Batches'
    <3>1. CASE importer[i].at = 1
      <4>1. UNCHANGED <<history, seq>>
        BY <2>1, <3>1 DEF OverwriteForm
      <4>2. ~Emptied
        BY <2>1, <3>1
      <4>3. Joined'
        BY <2>1, <4>1, <4>2, JoinedSame DEF Grouped
      <4>4. Batches'
        BY <2>1, <4>1, <4>2, BatchesSame DEF Grouped, Doubled
      <4>5. QED
        BY <4>3, <4>4
    <3>2. CASE importer[i].at # 1
      <4>1. Emptied'
        BY <2>1, <3>2
      <4>2. QED
        BY <4>1 DEF Joined, Batches
    <3>3. QED
      BY <3>1, <3>2
  <2>5. QED
    BY <2>2, <2>3, <2>4 DEF Grouped
<1>3. QED
  BY <1>1, <1>2 DEF StatementForm

\* The steps of an import other than its statements.
LEMMA QuietGroups ==
  ASSUME Grouped, UNCHANGED <<history, seq, logged, imported>>, beside \subseteq beside',
         writer' = writer \/ writer'.pc # "link", ~Emptied' => ~Emptied,
         \A j \in Importers : /\ Merging(j)' <=> Merging(j)
                              /\ Merging(j) => importer'[j] = importer[j]
  PROVE  Grouped'
<1>1. Joined' /\ Unlinked' /\ Referring'
  BY JoinedSame, UnlinkedSame, ReferringSame DEF Grouped
<1>2. Batches'
  BY BatchesSame DEF Grouped, Doubled
<1>3. QED
  BY <1>1, <1>2 DEF Grouped

LEMMA AnnounceGroups ==
  ASSUME Base, Alone, Starting, Grouped, Rows, Running, ~disturbed, ~disturbed',
         NEW i \in Importers, Announce(i)
  PROVE  Grouped'
<1>1. /\ ~UnderWay(i) /\ importer'[i].at = importer[i].at /\ ~Merging(i)
      /\ \A j \in Importers : j # i => /\ importer'[j] = importer[j]
                                       /\ Merging(j)' <=> Merging(j)
  BY AnnounceIs DEF Merging
<1>2. /\ UNCHANGED <<history, seq, logged, imported, writer>> /\ beside \subseteq beside'
  BY DEF Announce, tables
<1>3. importer[i].at = 1
  BY <1>1 DEF Starting
<1>4. ~Emptied
  BY AnnounceRuns
<1>5. \A j \in Importers : (Merging(j)' /\ importer'[j].at # 1) => Merging(j) /\ importer'[j] = importer[j]
  BY <1>1, <1>3
<1>6. \A j \in Importers : Merging(j) => Merging(j)' /\ importer'[j] = importer[j]
  BY <1>1
<1>7. Joined' /\ Unlinked'
  BY <1>2, <1>4, JoinedSame, UnlinkedSame DEF Grouped
<1>8. Referring'
  <2>1. \A j \in Importers : Merging(j)' /\ importer'[j].at \in 2 .. 7 =>
          Merging(j) /\ importer[j].at \in 2 .. 7 /\ importer'[j].seq = importer[j].seq
    BY <1>5
  <2>2. QED
    BY <1>2, <2>1, ReferringSame DEF Grouped
<1>9. Batches'
  <2>1. \A j \in Importers : Doubled(j)' <=> Doubled(j)
    BY <1>5, <1>6 DEF Doubled
  <2>2. \A j \in Importers : Doubled(j) => importer'[j].seq = importer[j].seq
    BY <1>6 DEF Doubled
  <2>3. QED
    BY <1>2, <1>4, <1>6, <2>1, <2>2, BatchesSame DEF Grouped
<1>10. QED
  BY <1>7, <1>8, <1>9 DEF Grouped

LEMMA FinishMergeGroups ==
  ASSUME Base, Alone, Grouped, ~disturbed, NEW i \in Importers, Finish(i), Merging(i)
  PROVE  Grouped'
<1>1. /\ importer[i].at = 13 /\ ~Emptied /\ \A j \in Importers : UnderWay(j) => j = i
  BY FinishIs, OnlyOne DEF Merging
<1>2. \A j \in Importers : ~UnderWay(j)'
  BY <1>1, FinishIs
<1>3. UNCHANGED <<history, seq, writer, logged, beside>> /\ imported' # {}
  BY DEF Finish, tables
<1>4. Joined' /\ Unlinked'
  BY <1>1, <1>3, JoinedSame, UnlinkedSame DEF Grouped
<1>5. Referring'
  BY <1>2 DEF Referring, Merging
<1>6. Batches'
  <2>1. SUFFICES ASSUME beside = {} PROVE OneBatch' /\ FirstBatch' /\ NewBatch'
    BY <1>3 DEF Batches
  <2>2. \A j \in Importers : ~Doubled(j) /\ ~Doubled(j)'
    BY <1>1, <1>2 DEF Doubled, Merging
  <2>3. OneBatch
    BY <1>1, <2>1 DEF Grouped, Batches
  <2>4. PICK t \in Nat : \A id \in DOMAIN history : Foreign(id) => Batch(t, id)
    BY <2>2, <2>3 DEF OneBatch
  <2>5. \A id \in DOMAIN history' : Foreign(id)' => Batch(t, id)'
    BY <1>3, <2>4 DEF Foreign, Batch
  <2>6. OneBatch'
    BY <2>5 DEF OneBatch
  <2>7. QED
    BY <1>3, <2>2, <2>6 DEF FirstBatch, NewBatch
<1>7. QED
  BY <1>4, <1>5, <1>6 DEF Grouped

LEMMA FinishOverwriteGroups ==
  ASSUME Base, Alone, OfWriter, Running, Grouped, ~disturbed, NEW i \in Importers,
         Finish(i), Overwriting(i)
  PROVE  Grouped'
<1>1. /\ UnderWay(i) /\ importer[i].at = 7 /\ \A j \in Importers : UnderWay(j) => j = i
  BY FinishIs, OnlyOne
<1>2. \A j \in Importers : ~UnderWay(j)'
  BY <1>1, FinishIs
<1>3. UNCHANGED <<history, seq, writer, logged, beside>> /\ imported' # {}
  BY DEF Finish, tables
<1>4. \A id \in DOMAIN history : FromImport(id) /\ id <= seq
  <2>1. Overwrite(i)
    BY DEF Running
  <2>2. QED
    BY <1>1, <2>1 DEF Overwrite
<1>5. seq \in Nat /\ DOMAIN history \subseteq Nat
  BY DEF Base, HistoryType, Ids
<1>6. \A n \in DOMAIN Import : Import[n].reference_id \in Nat /\ Import[n].reference_id <= n
  BY FilesType DEF Ids
<1>7. Joined'
  <2>1. ASSUME NEW id \in DOMAIN history
        PROVE  history[id].reference_id <= seq \/ history[id].reference_id \in beside
    <3>1. CASE id \in DOMAIN Import /\ history[id] = Import[id]
      <4>1. PICK r : r = Import[id].reference_id
        OBVIOUS
      <4>2. r \in Nat /\ r <= id /\ id <= seq /\ id \in Nat
        BY <1>4, <1>5, <1>6, <2>1, <3>1, <4>1
      <4>3. r <= seq
        BY <1>5, <4>2
      <4>4. QED
        BY <3>1, <4>1, <4>3
    <3>2. CASE history[id].reference_id \in beside \cup {0}
      BY <1>5, <3>2
    <3>3. QED
      BY <1>4, <3>1, <3>2 DEF FromImport
  <2>2. ASSUME NEW a \in DOMAIN history, NEW b \in DOMAIN history,
               history[a].reference_id = history[b].reference_id
        PROVE  \/ GroupOf[history[a].play] = GroupOf[history[b].play]
               \/ history[a].reference_id \in beside \cup {0}
    <3>1. CASE /\ a \in DOMAIN Import /\ history[a] = Import[a]
               /\ b \in DOMAIN Import /\ history[b] = Import[b]
      BY <2>2, <3>1, ImportGroups
    <3>2. CASE \/ history[a].reference_id \in beside \cup {0}
               \/ history[b].reference_id \in beside \cup {0}
      BY <2>2, <3>2
    <3>3. QED
      BY <1>4, <3>1, <3>2 DEF FromImport
  <2>3. QED
    BY <1>3, <2>1, <2>2 DEF Joined
<1>8. Unlinked'
  BY <1>1, <1>3 DEF Unlinked, OfWriter
<1>9. Referring'
  BY <1>2 DEF Referring, Merging
<1>10. Batches'
  <2>1. SUFFICES ASSUME beside = {} PROVE OneBatch' /\ FirstBatch' /\ NewBatch'
    BY <1>3 DEF Batches
  <2>2. ASSUME NEW id \in DOMAIN history PROVE Batch(0, id)'
    <3>1. id \in DOMAIN Import /\ history[id] = Import[id]
      BY <1>4, <2>1, <2>2 DEF FromImport
    <3>2. Ref(0, id) = Import[id].reference_id
      BY <1>6, <3>1 DEF Ref
    <3>3. QED
      BY <1>3, <3>1, <3>2 DEF Batch
  <2>3. \A j \in Importers : ~Doubled(j)'
    BY <1>2 DEF Doubled, Merging
  <2>4. OneBatch'
    BY <1>3, <2>2 DEF OneBatch
  <2>5. QED
    BY <1>3, <2>3, <2>4 DEF FirstBatch, NewBatch
<1>11. QED
  BY <1>7, <1>8, <1>9, <1>10 DEF Grouped

LEMMA RestartGroups ==
  ASSUME Base, Alone, Rows, Grouped, ~disturbed, ~disturbed', Restart
  PROVE  Grouped'
<1>1. /\ UNCHANGED <<history, seq, logged, imported, beside>> /\ writer' = NotWriting
      /\ \A j \in Importers : ~UnderWay(j)
  BY DEF Restart, tables
<1>2. \A j \in Importers : ~UnderWay(j)'
  BY DEF Restart, UnderWay, NotImporting
<1>3. writer'.pc # "link"
  BY <1>1 DEF NotWriting
<1>4. ~Emptied
  BY <1>1 DEF Emptied, Overwriting
<1>5. QED
  BY <1>1, <1>2, <1>3, <1>4, QuietGroups DEF Merging

\* The writer.
LEMMA LogRowGroups ==
  ASSUME Base, Rows, Grouped, ~disturbed, Write, NEW play \in Live, LogRow(play)
  PROVE  Grouped'
<1>1. PICK new \in Ids :
        /\ new \in Nat /\ new > seq /\ new \notin DOMAIN history /\ seq' = new
        /\ DOMAIN history' = DOMAIN history \cup {new}
        /\ \A old \in DOMAIN history : history'[old] = history[old]
        /\ history'[new].play = play /\ history'[new].reference_id = 0
        /\ writer'.pc = "link" /\ writer'.play = play /\ writer'.id = new
        /\ beside' = IF \E i \in Importers : UnderWay(i) THEN beside \cup {new} ELSE beside
  BY LogRowIs
<1>2. UNCHANGED <<importer, imported>> /\ UNCHANGED logged
  BY WriteKeeps DEF LogRow
<1>3. /\ seq \in Nat /\ play \notin ImportPlays /\ 0 # new
      /\ \A id \in DOMAIN history : history[id].reference_id \in Nat
      /\ \A i \in Importers : importer[i].seq \in Nat
  BY <1>1, FilesType, ImporterIs DEF Base, HistoryType, Ids
<1>4. /\ Emptied' <=> Emptied
      /\ \A i \in Importers : /\ Merging(i)' <=> Merging(i)
                              /\ Doubled(i)' <=> Doubled(i)
      /\ beside \subseteq beside'
  BY <1>1, <1>2 DEF Emptied, Overwriting, Merging, Doubled, UnderWay
<1>5. Joined'
  <2>1. SUFFICES ASSUME ~Emptied PROVE Joined'
    BY <1>4 DEF Joined
  <2>2. /\ \A id \in DOMAIN history :
             history[id].reference_id <= seq \/ history[id].reference_id \in beside
        /\ \A a, b \in DOMAIN history :
             history[a].reference_id = history[b].reference_id =>
               \/ GroupOf[history[a].play] = GroupOf[history[b].play]
               \/ history[a].reference_id \in beside \cup {0}
    BY <2>1 DEF Grouped, Joined
  <2>3. \A id \in DOMAIN history' :
          history'[id].reference_id <= seq' \/ history'[id].reference_id \in beside'
    BY <1>1, <1>3, <1>4, <2>2
  <2>4. \A a, b \in DOMAIN history' :
          history'[a].reference_id = history'[b].reference_id =>
            \/ GroupOf[history'[a].play] = GroupOf[history'[b].play]
            \/ history'[a].reference_id \in beside' \cup {0}
    BY <1>1, <1>4, <2>2
  <2>5. QED
    BY <2>3, <2>4 DEF Joined
<1>6. Unlinked'
  <2>1. SUFFICES ASSUME new \notin beside', NEW id \in DOMAIN history
                 PROVE  history[id].reference_id # new
    BY <1>1, <1>3 DEF Unlinked
  <2>2. \A i \in Importers : ~UnderWay(i)
    BY <1>1, <2>1
  <2>3. ~Emptied
    BY <2>2 DEF Emptied, Overwriting
  <2>4. history[id].reference_id <= seq \/ history[id].reference_id \in beside
    BY <2>3 DEF Grouped, Joined
  <2>5. QED
    BY <1>1, <1>3, <1>4, <2>1, <2>4
<1>7. Referring'
  <2>1. ASSUME NEW i \in Importers, Merging(i), importer[i].at \in 2 .. 7,
               NEW id \in DOMAIN history'
        PROVE  \/ history'[id].reference_id <= importer[i].seq
               \/ history'[id].reference_id \in beside'
    <3>1. CASE id \in DOMAIN history
      BY <1>1, <1>4, <2>1, <3>1 DEF Grouped, Referring
    <3>2. CASE id = new
      BY <1>1, <1>3, <3>2
    <3>3. QED
      BY <1>1, <3>1, <3>2
  <2>2. QED
    BY <1>2, <1>4, <2>1 DEF Referring
<1>8. Batches'
  <2>1. SUFFICES ASSUME ~Emptied, beside' = {} PROVE OneBatch' /\ FirstBatch' /\ NewBatch'
    BY <1>4 DEF Batches
  <2>2. (\A i \in Importers : ~UnderWay(i)) /\ beside = {}
    BY <1>1, <2>1
  <2>3. OneBatch /\ FirstBatch
    BY <2>1, <2>2 DEF Grouped, Batches
  <2>4. \A i \in Importers : ~Merging(i) /\ ~Doubled(i) /\ ~Doubled(i)'
    BY <1>4, <2>2 DEF Merging, Doubled
  <2>5. \A id : Foreign(id)' => Foreign(id)
    BY <1>1, <1>2, <1>3 DEF Foreign
  <2>6. \A id \in DOMAIN history : \A t : Batch(t, id) <=> Batch(t, id)'
    BY <1>1 DEF Batch
  <2>7. OneBatch'
    BY <2>3, <2>4, <2>5, <2>6 DEF OneBatch, Foreign
  <2>8. FirstBatch'
    BY <1>2, <2>3, <2>4, <2>5 DEF FirstBatch, Foreign
  <2>9. QED
    BY <2>4, <2>7, <2>8 DEF NewBatch
<1>9. QED
  BY <1>5, <1>6, <1>7, <1>8 DEF Grouped

LEMMA LinkGroups ==
  ASSUME Base, OfWriter, Rows, Grouped, ~disturbed, Write, Link
  PROVE  Grouped'
<1>1. PICK w, play : w = writer.id /\ play = writer.play
  OBVIOUS
<1>2. /\ DOMAIN history' = DOMAIN history /\ w \in Ids
      /\ \A id \in DOMAIN history :
           /\ history'[id].play = history[id].play
           /\ id # w => history'[id] = history[id]
           /\ id = w => history'[id].reference_id = id
      /\ writer.pc = "link" /\ writer'.pc = "update"
  BY <1>1, LinkIs
<1>3. UNCHANGED <<importer, imported>> /\ UNCHANGED <<logged, seq, beside>>
  BY WriteKeeps DEF Link
<1>4. /\ play \notin ImportPlays /\ seq \in Nat
      /\ w \notin beside => /\ \A i \in Importers : ~UnderWay(i)
                            /\ w \in DOMAIN history /\ history[w].play = play
                            /\ \A id \in DOMAIN history : history[id].reference_id # w
  <2>1. play \in Live
    BY <1>1, <1>2 DEF Base, WriterSound
  <2>2. QED
    BY <1>1, <1>2, <2>1, FilesType DEF OfWriter, Grouped, Unlinked, Base
<1>5. /\ Emptied' <=> Emptied
      /\ \A i \in Importers : /\ Merging(i)' <=> Merging(i)
                              /\ Doubled(i)' <=> Doubled(i)
  BY <1>3 DEF Emptied, Overwriting, Merging, Doubled, UnderWay
<1>6. Joined'
  <2>1. SUFFICES ASSUME ~Emptied PROVE Joined'
    BY <1>5 DEF Joined
  <2>2. /\ \A id \in DOMAIN history :
             history[id].reference_id <= seq \/ history[id].reference_id \in beside
        /\ \A a, b \in DOMAIN history :
             history[a].reference_id = history[b].reference_id =>
               \/ GroupOf[history[a].play] = GroupOf[history[b].play]
               \/ history[a].reference_id \in beside \cup {0}
        /\ \A id \in DOMAIN history : id <= seq
    BY <2>1 DEF Grouped, Joined, Rows
  <2>3. \A id \in DOMAIN history' :
          history'[id].reference_id <= seq' \/ history'[id].reference_id \in beside'
    BY <1>2, <1>3, <2>2
  <2>4. ASSUME NEW a \in DOMAIN history, NEW b \in DOMAIN history,
               history'[a].reference_id = history'[b].reference_id
        PROVE  \/ GroupOf[history'[a].play] = GroupOf[history'[b].play]
               \/ history'[a].reference_id \in beside \cup {0}
    <3>1. CASE a # w /\ b # w
      <4>1. history'[a] = history[a] /\ history'[b] = history[b]
        BY <1>2, <3>1
      <4>2. QED
        BY <2>2, <2>4, <4>1
    <3>2. CASE a = b
      BY <3>2
    <3>3. CASE a # b /\ (a = w \/ b = w)
      <4>1. history'[a].reference_id = w
        BY <1>2, <2>4, <3>3
      <4>2. w \in beside
        BY <1>2, <1>4, <2>4, <3>3
      <4>3. QED
        BY <4>1, <4>2
    <3>4. QED
      BY <3>1, <3>2, <3>3
  <2>5. QED
    BY <1>2, <1>3, <2>3, <2>4 DEF Joined
<1>7. Unlinked'
  BY <1>2 DEF Unlinked
<1>8. Referring'
  <2>1. ASSUME NEW i \in Importers, Merging(i), importer[i].at \in 2 .. 7,
               NEW id \in DOMAIN history
        PROVE  \/ history'[id].reference_id <= importer[i].seq
               \/ history'[id].reference_id \in beside
    <3>1. CASE id # w
      <4>1. history'[id] = history[id]
        BY <1>2, <3>1
      <4>2. QED
        BY <2>1, <4>1 DEF Grouped, Referring
    <3>2. CASE id = w
      BY <1>2, <1>4, <2>1, <3>2 DEF Merging
    <3>3. QED
      BY <3>1, <3>2
  <2>2. QED
    BY <1>2, <1>3, <1>5, <2>1 DEF Referring
<1>9. Batches'
  <2>1. SUFFICES ASSUME ~Emptied, beside = {} PROVE OneBatch' /\ FirstBatch' /\ NewBatch'
    BY <1>3, <1>5 DEF Batches
  <2>2. \A i \in Importers : ~Merging(i) /\ ~Doubled(i) /\ ~Doubled(i)'
    BY <1>4, <1>5, <2>1 DEF Merging, Doubled
  <2>3. OneBatch /\ FirstBatch
    BY <2>1 DEF Grouped, Batches
  <2>4. \A id : Foreign(id)' => Foreign(id) /\ id # w
    BY <1>2, <1>3, <1>4, <2>1 DEF Foreign
  <2>5. \A id \in DOMAIN history : id # w => \A t : Batch(t, id) <=> Batch(t, id)'
    BY <1>2 DEF Batch
  <2>6. OneBatch'
    BY <1>2, <2>2, <2>3, <2>4, <2>5 DEF OneBatch
  <2>7. FirstBatch'
    BY <1>2, <1>3, <2>2, <2>3, <2>4 DEF FirstBatch
  <2>8. QED
    BY <2>2, <2>6, <2>7 DEF NewBatch
<1>10. QED
  BY <1>6, <1>7, <1>8, <1>9 DEF Grouped

LEMMA DetailsGroups ==
  ASSUME Base, Grouped, Write, UpdateDetails \/ InsertDetails
  PROVE  Grouped'
<1>1. UNCHANGED <<history, seq, beside>> /\ writer'.pc # "link" /\ logged \subseteq logged'
  BY DetailsWritten DEF WriterEnds, NotWriting
<1>2. UNCHANGED <<importer, imported>>
  BY WriteKeeps
<1>3. /\ Emptied' <=> Emptied
      /\ \A i \in Importers : /\ Merging(i)' <=> Merging(i)
                              /\ Doubled(i)' <=> Doubled(i)
  BY <1>2 DEF Emptied, Overwriting, Merging, Doubled, UnderWay
<1>4. Joined' /\ Unlinked'
  BY <1>1, <1>3, JoinedSame, UnlinkedSame DEF Grouped
<1>5. Referring' /\ Batches'
  BY <1>1, <1>2, <1>3, ReferringSame, BatchesSame DEF Grouped
<1>6. QED
  BY <1>4, <1>5 DEF Grouped

LEMMA NextGrouped ==
  ASSUME Base, Base', Starting, Alone, OfWriter, Rows, Running, Arrived, Grouped,
         ~disturbed, ~disturbed', Next
  PROVE  Grouped'
<1>1. ASSUME NEW i \in Importers, (\E method \in Methods : Begin(i, method)) \/ Refuse(i)
      PROVE  Grouped'
  <2>1. /\ \A j \in Importers : /\ UnderWay(j)' <=> UnderWay(j)
                                /\ Merging(j)' <=> Merging(j)
                                /\ Overwriting(j)' <=> Overwriting(j)
                                /\ UnderWay(j) => importer'[j] = importer[j]
        /\ UNCHANGED <<history, details, seq, copies, writer, logged, beside, imported>>
    BY <1>1, BeginIs, RefuseIs DEF tables, aux
  <2>2. Emptied' <=> Emptied
    BY <2>1, SameRuns
  <2>3. QED
    BY <2>1, <2>2, QuietGroups DEF Merging
<1>2. ASSUME NEW i \in Importers, Announce(i) PROVE Grouped'
  BY <1>2, AnnounceGroups
<1>3. ASSUME NEW i \in Importers, Statement(i) PROVE Grouped'
  BY <1>3, Formed, StatementGroups
<1>4. ASSUME NEW i \in Importers, Finish(i) PROVE Grouped'
  BY <1>4, FinishIs, FinishMergeGroups, FinishOverwriteGroups
<1>5. ASSUME NEW i \in Importers, Lose(i) \/ Raise(i) PROVE FALSE
  BY <1>5 DEF Lose, Raise
<1>6. CASE Write
  BY <1>6, LogRowGroups, LinkGroups, DetailsGroups DEF Write
<1>7. CASE Restart
  BY <1>7, RestartGroups
<1>8. QED
  BY <1>1, <1>2, <1>3, <1>4, <1>5, <1>6, <1>7 DEF Next

LEMMA NextCalm ==
  ASSUME Base, Base', Starting, Calm, Next
  PROVE  Calm'
<1>1. SUFFICES ASSUME ~disturbed' PROVE Calm'
  BY DEF Calm
<1>2. ~disturbed
  BY <1>1, DisturbedStays
<1>3. Alone /\ OfWriter /\ Rows /\ Running /\ Arrived /\ Grouped
  BY <1>2 DEF Calm
<1>4. Alone' /\ OfWriter'
  BY <1>1, <1>2, <1>3, NextAlone, NextOfWriter
<1>5. Rows' /\ Running' /\ Arrived'
  BY <1>1, <1>2, <1>3, NextRuns
<1>6. Grouped'
  BY <1>1, <1>2, <1>3, NextGrouped
<1>7. QED
  BY <1>4, <1>5, <1>6 DEF Calm

-----------------------------------------------------------------------------
(* Plays that were logged are kept. *)

\* The play whose writer comes to its end has a row with its details, unless the
\* row's writing met an import.
LEMMA EndKept ==
  ASSUME Base, OfWriter, Rows, ~Emptied, ~disturbed, UpdateDetails \/ InsertDetails, WriterEnds,
         Present(writer.play)
  PROVE  \E p : logged' = logged \cup {p} /\ Kept(p)'
<1>1. PICK w, new : w = writer.play /\ new = writer.id
  OBVIOUS
<1>2. /\ w \in Live /\ w \notin logged /\ logged' = logged \cup {w}
      /\ new \in Ids /\ writer.pc # "idle" /\ UNCHANGED <<history, beside>>
      /\ DOMAIN details' = DOMAIN details \cup {new}
      /\ \A id \in DOMAIN details : id # new => details'[id] = details[id]
      /\ details'[new] \in {w, details[new]}
      /\ new \notin DOMAIN details => details'[new] = w
  <2>1. logged' = logged \cup {writer.play} /\ writer'.pc = "idle"
    BY DEF WriterEnds, NotWriting
  <2>2. writer.play \in Live \ (running \cup logged)
    BY DetailsWritten
  <2>3. logged' # logged
    BY <2>1, <2>2
  <2>4. QED
    BY <1>1, <2>1, <2>2, <2>3, DetailsWritten
<1>3. PICK id \in DOMAIN history : history[id].play = w
  BY <1>1 DEF Present
<1>4. \A old \in DOMAIN history : old \notin beside => Explained(old)
  BY DEF Rows
<1>5. CASE new \notin beside
  <2>1. new \in DOMAIN history /\ history[new].play = w
    BY <1>1, <1>2, <1>5 DEF OfWriter
  <2>2. Explained(new)
    BY <1>4, <1>5, <2>1
  <2>3. new \in DOMAIN details => details[new] = w
    BY <2>1, <2>2 DEF Explained
  <2>4. new \in DOMAIN details' /\ details'[new] = w
    BY <1>2, <2>3
  <2>5. Kept(w)'
    BY <1>2, <2>1, <2>4, KeptAfter
  <2>6. QED
    BY <1>2, <2>5
<1>6. CASE new \in beside /\ id \in beside
  BY <1>2, <1>3, <1>6, KeptAfter
<1>7. CASE new \in beside /\ id \notin beside
  <2>1. Explained(id)
    BY <1>3, <1>4, <1>7
  <2>2. ~Unfinished(id)
    BY <1>1, <1>2, <1>3, <1>7 DEF Unfinished
  <2>3. history[id].play \notin ImportPlays
    BY <1>2, <1>3, FilesType
  <2>4. id \in DOMAIN details /\ details[id] = w
    BY <1>3, <2>1, <2>2, <2>3 DEF Explained
  <2>5. id \in DOMAIN details' /\ details'[id] = w
    BY <1>2, <1>7, <2>4
  <2>6. Kept(w)'
    BY <1>2, <1>3, <2>5, KeptAfter
  <2>7. QED
    BY <1>2, <2>6
<1>8. QED
  BY <1>5, <1>6, <1>7

\* Who adds to what was logged.
LEMMA LoggedStep ==
  ASSUME Base, Next
  PROVE  logged' = logged \/ ((UpdateDetails \/ InsertDetails) /\ WriterEnds)
<1>1. ASSUME NEW i \in Importers,
             \/ \E method \in Methods : Begin(i, method)
             \/ Refuse(i) \/ Announce(i) \/ Finish(i) \/ Lose(i) \/ Raise(i)
      PROVE  logged' = logged
  BY <1>1 DEF Begin, Refuse, Announce, Finish, Lose, Raise, aux
<1>2. ASSUME NEW i \in Importers, Statement(i) PROVE logged' = logged
  BY <1>2, Formed DEF StatementForm, aux
<1>3. CASE Write
  <2>1. CASE (\E play \in Live : LogRow(play)) \/ Link
    BY <2>1 DEF LogRow, Link
  <2>2. CASE UpdateDetails \/ InsertDetails
    BY <2>2, DetailsWritten
  <2>3. QED
    BY <1>3, <2>1, <2>2 DEF Write
<1>4. CASE Restart
  BY <1>4 DEF Restart
<1>5. QED
  BY <1>1, <1>2, <1>3, <1>4 DEF Next

LEMMA NextLogged ==
  ASSUME IInv, Base', NoneLost', Next
  PROVE  LoggedKept'
<1>1. SUFFICES ASSUME ~cleared', NEW p \in logged' PROVE Kept(p)'
  BY DEF LoggedKept
<1>2. Base /\ Starting /\ NoneLost /\ Calm /\ LoggedKept
  BY DEF IInv
<1>3. CASE disturbed'
  <2>1. Present(p)'
    BY <1>1 DEF NoneLost
  <2>2. QED
    BY <1>3, <2>1 DEF Present, Kept
<1>4. CASE ~disturbed'
  <2>1. ~disturbed /\ ~cleared
    BY <1>1, <1>2, <1>4, DisturbedStays, MergesOnly
  <2>2. Alone /\ OfWriter /\ Rows /\ Running /\ Arrived
    BY <1>2, <2>1 DEF Calm
  <2>3. ~Emptied'
    BY <1>1, <1>2, MergesOnly DEF Emptied, Overwriting
  <2>4. \A q : Kept(q) => Kept(q)'
    BY <1>2, <1>4, <2>1, <2>2, <2>3, NextRuns
  <2>5. \A q \in logged : Kept(q)'
    BY <1>2, <2>1, <2>4 DEF LoggedKept
  <2>6. CASE (UpdateDetails \/ InsertDetails) /\ WriterEnds /\ logged' # logged
    <3>1. Present(writer.play)
      <4>1. writer.pc # "idle"
        BY <1>2, <2>6, DetailsWritten
      <4>2. QED
        BY <1>2, <2>1, <4>1 DEF NoneLost
    <3>2. ~Emptied
      BY <1>2, <2>1 DEF NoneLost, Emptied, Overwriting
    <3>3. \E q : logged' = logged \cup {q} /\ Kept(q)'
      BY <1>2, <2>1, <2>2, <2>6, <3>1, <3>2, EndKept
    <3>4. QED
      BY <1>1, <2>5, <3>3
  <2>7. QED
    BY <1>1, <1>2, <2>5, <2>6, LoggedStep
<1>5. QED
  BY <1>3, <1>4

-----------------------------------------------------------------------------
(* The theorems. *)

LEMMA InitInvariant ==
  ASSUME Init PROVE IInv
<1>1. Base
  BY InitBase
<1>2. /\ \A i \in Importers : ~UnderWay(i) /\ importer[i].at = 1
      /\ history = Logged /\ details = PlaysOf(Logged) /\ seq = Highest(DOMAIN Logged)
      /\ DOMAIN copies = {} /\ imported = {} /\ writer.pc = "idle" /\ ~disturbed
      /\ logged = {Logged[id].play : id \in DOMAIN Logged} /\ ~IS_IMPORTING
  BY DEF Init, UnderWay, NotImporting, NotWriting
<1>3. DOMAIN details = DOMAIN Logged /\ \A id \in DOMAIN Logged : details[id] = Logged[id].play
  BY <1>2 DEF PlaysOf
<1>4. \A play \in logged : Present(play) /\ Kept(play)
  BY <1>2, <1>3 DEF Present, Kept, HasOwnDetails
<1>5. Starting /\ NoneLost /\ LoggedKept
  BY <1>2, <1>4 DEF Starting, NoneLost, LoggedKept
<1>6. Rows
  <2>1. \A id \in DOMAIN Logged : id <= seq
    <3>1. IsFiniteSet(DOMAIN Logged) /\ DOMAIN Logged \subseteq Nat
      BY FilesType DEF Ids
    <3>2. QED
      BY <1>2, <3>1, HighestIs
  <2>2. \A id \in DOMAIN history : Explained(id)
    BY <1>2, <1>3 DEF Explained
  <2>3. QED
    BY <1>2, <1>3, <2>1, <2>2 DEF Rows
<1>7. Alone /\ OfWriter /\ Running /\ Arrived
  BY <1>2 DEF Alone, OfWriter, Running, Merging, Overwriting, Arrived
<1>8. Grouped
  <2>1. \A a, b \in DOMAIN Logged :
          LET together == GroupOf[Logged[a].play] = GroupOf[Logged[b].play]
          IN  Logged[a].reference_id = Logged[b].reference_id =>
                together \/ Logged[a].reference_id = 0
    BY ConstantsAssumption
  <2>2. Joined
    <3>1. ASSUME NEW id \in DOMAIN history PROVE history[id].reference_id <= seq
      <4>1. PICK r : r = Logged[id].reference_id
        OBVIOUS
      <4>2. r \in Nat /\ r <= id /\ id \in Nat /\ id <= seq
        BY <1>2, <1>6, <3>1, <4>1, FilesType DEF Ids, Rows, Emptied, Overwriting
      <4>3. seq \in Nat
        BY <1>1 DEF Base
      <4>4. QED
        BY <1>2, <4>1, <4>2, <4>3
    <3>2. QED
      BY <1>2, <2>1, <3>1 DEF Joined
  <2>3. Referring /\ Unlinked
    BY <1>2 DEF Referring, Merging, Unlinked
  <2>4. Batches
    <3>1. \A id : ~Foreign(id)
      BY <1>2 DEF Foreign
    <3>2. OneBatch /\ FirstBatch /\ NewBatch
      BY <1>2, <3>1 DEF OneBatch, FirstBatch, NewBatch, Doubled, Merging
    <3>3. QED
      BY <3>2 DEF Batches
  <2>5. QED
    BY <2>2, <2>3, <2>4 DEF Grouped
<1>9. QED
  BY <1>1, <1>5, <1>6, <1>7, <1>8 DEF IInv, Calm

LEMMA StutterInvariant ==
  ASSUME IInv, UNCHANGED vars PROVE IInv'
<1>1. /\ importer' = importer /\ history' = history /\ details' = details /\ seq' = seq
      /\ copies' = copies /\ writer' = writer /\ IS_IMPORTING' = IS_IMPORTING
      /\ running' = running /\ logged' = logged /\ beside' = beside
      /\ disturbed' = disturbed /\ cleared' = cleared /\ imported' = imported
  BY DEF vars, tables, aux
<1>2. Base'
  BY StutterBase DEF IInv
<1>3. Starting' /\ NoneLost' /\ LoggedKept'
  BY <1>1 DEF IInv, Starting, NoneLost, LoggedKept, UnderWay, Present, Kept, HasOwnDetails
<1>4. Calm'
  <2>1. SUFFICES ASSUME ~disturbed' PROVE Calm'
    BY DEF Calm
  <2>2. ~disturbed /\ Alone /\ OfWriter /\ Rows /\ Running /\ Arrived /\ Grouped
    BY <1>1, <2>1 DEF IInv, Calm
  <2>3. Alone' /\ OfWriter'
    BY <1>1, <2>2 DEF Alone, OfWriter, Merging, UnderWay
  <2>4. Rows' /\ Running' /\ (Emptied' <=> Emptied) /\ \A p : Kept(p) => Kept(p)'
    <3>1. \A j \in Importers : /\ UnderWay(j)' <=> UnderWay(j)
                               /\ Merging(j)' <=> Merging(j)
                               /\ Overwriting(j)' <=> Overwriting(j)
                               /\ UnderWay(j) => importer'[j] = importer[j]
      BY <1>1 DEF UnderWay, Merging, Overwriting
    <3>2. QED
      BY <1>1, <2>1, <2>2, <3>1, SameRuns
  <2>5. Arrived'
    BY <1>1, <2>2, <2>4, ArrivedStep
  <2>6. Grouped'
    BY <1>1, <2>2, <2>4, QuietGroups DEF Merging, UnderWay
  <2>7. QED
    BY <2>3, <2>4, <2>5, <2>6 DEF Calm
<1>5. QED
  BY <1>2, <1>3, <1>4 DEF IInv

\* Whatever happens to an import, the history keeps to IInv: the inductive
\* invariant that the theorems below are read off.
THEOREM Invariance == Spec => []IInv
<1>1. Init => IInv
  BY InitInvariant
<1>2. IInv /\ [Next]_vars => IInv'
  <2>1. SUFFICES ASSUME IInv, [Next]_vars PROVE IInv'
    OBVIOUS
  <2>2. CASE UNCHANGED vars
    BY <2>1, <2>2, StutterInvariant
  <2>3. CASE Next
    <3>1. Base /\ Starting /\ NoneLost /\ Calm
      BY <2>1 DEF IInv
    <3>2. Base'
      BY <2>3, <3>1, NextBase
    <3>3. Starting' /\ NoneLost' /\ Calm'
      BY <2>3, <3>1, <3>2, NextStarting, NextNoneLost, NextCalm
    <3>4. LoggedKept'
      BY <2>1, <2>3, <3>2, <3>3, NextLogged
    <3>5. QED
      BY <3>2, <3>3, <3>4 DEF IInv
  <2>4. QED
    BY <2>1, <2>2, <2>3
<1>3. QED
  BY <1>1, <1>2, PTL DEF Spec

\* The tables hold rows of plays under positive ids, and every thread is at a
\* statement of its method, whatever is lost, raised or restarted.
THEOREM TypeCorrect == Spec => []TypeOK
<1>1. IInv => TypeOK
  BY BaseTyped DEF IInv
<1>2. QED
  BY <1>1, Invariance, PTL

\* set_is_importing: unless an import was disturbed, the flag is up exactly while
\* an import is under way, and no temporary table is left when it is down.
THEOREM FlagTrue == Spec => []FlagHonest
<1>1. ASSUME IInv PROVE FlagHonest
  <2>1. SUFFICES ASSUME ~disturbed PROVE FlagHonest
    BY DEF FlagHonest
  <2>2. Base /\ Alone
    BY <1>1, <2>1 DEF IInv, Calm
  <2>3. DOMAIN copies # {} => IS_IMPORTING
    <3>1. DOMAIN copies \subseteq {"history", "details"}
      BY <2>2 DEF Base, CopiesType
    <3>2. QED
      BY <2>2, <3>1 DEF Alone, Merging
  <2>4. copies # << >> => DOMAIN copies # {}
    <3>1. IsTable(copies)
      BY <2>2 DEF Base, CopiesType
    <3>2. QED
      BY <3>1 DEF IsTable
  <2>5. QED
    BY <2>2, <2>3, <2>4 DEF FlagHonest, Alone
<1>2. QED
  BY <1>1, Invariance, PTL

\* A play that write_session_history logged here stays in the history through
\* every merge, also one that loses statements, raises or ends with the process,
\* with its own details unless an import was disturbed or met its writer.
THEOREM LoggedStay == Spec => []LoggedKept
<1>1. IInv => LoggedKept
  BY DEF IInv
<1>2. QED
  BY <1>1, Invariance, PTL

\* The ids that merge and overwrite give to the rows of the other database never
\* give a row the details of another play.
THEOREM OwnDetailsStay == Spec => []OwnDetails
<1>1. ASSUME IInv PROVE OwnDetails
  <2>1. SUFFICES ASSUME Settled, NEW id \in DOMAIN history \ beside, id \in DOMAIN details
                 PROVE  HasOwnDetails(id)
    BY DEF OwnDetails
  <2>2. ~Emptied
    BY <2>1 DEF Settled, Emptied, Overwriting
  <2>3. Rows
    BY <1>1, <2>1 DEF IInv, Calm, Settled
  <2>4. Explained(id)
    BY <2>1, <2>2, <2>3 DEF Rows
  <2>5. QED
    BY <2>1, <2>4 DEF Explained, HasOwnDetails
<1>2. QED
  BY <1>1, Invariance, PTL

\* Every play of the other database is in the history with its details once an
\* undisturbed import has ended, and through every import after it, unless a play
\* that was logged during an import had taken its id.
THEOREM ImportsArrive == Spec => []ImportedArrive
<1>1. ASSUME IInv PROVE ImportedArrive
  <2>1. SUFFICES ASSUME Settled PROVE ImportedArrive
    BY DEF ImportedArrive
  <2>2. ~Emptied /\ Arrived
    BY <1>1, <2>1 DEF IInv, Calm, Settled, Emptied, Overwriting
  <2>3. QED
    BY <2>2 DEF Arrived, ImportedArrive
<1>2. QED
  BY <1>1, Invariance, PTL

\* What the files and the writer say of the plays that share a group.
LEMMA TogetherIs ==
  ASSUME Base, NEW a \in DOMAIN history, NEW b \in DOMAIN history,
         history[a].play \notin logged, history[b].play \notin logged,
         GroupOf[history[a].play] = GroupOf[history[b].play]
  PROVE  a = b \/ (Foreign(a) /\ Foreign(b))
<1>1. PICK p, q : p = history[a].play /\ q = history[b].play
  OBVIOUS
<1>2. /\ p \in Plays /\ q \in Plays /\ p \notin logged /\ q \notin logged
      /\ p = q /\ p \in Live => a = b
      /\ {Logged[id].play : id \in DOMAIN Logged} \subseteq logged
  BY <1>1 DEF Base, HistoryType, WriterSound
<1>3. p \in ImportPlays \cup Live /\ q \in ImportPlays \cup Live
  BY <1>2 DEF Plays, ImportPlays
<1>4. GroupOf[p] = GroupOf[q]
  BY <1>1
<1>5. CASE p \in Live \/ q \in Live
  <2>1. p \in Live /\ q \in Live
    BY <1>3, <1>4, <1>5, ImportGroups DEF ImportPlays
  <2>2. p = q
    BY <1>4, <2>1, ImportGroups
  <2>3. QED
    BY <1>2, <2>1, <2>2
<1>6. CASE p \in ImportPlays /\ q \in ImportPlays
  BY <1>1, <1>2, <1>6 DEF Foreign
<1>7. QED
  BY <1>3, <1>5, <1>6

\* reference_id: no import gives rows of two groups a common one, neither of its own
\* rows nor of rows logged here, and the rows of the other database that shared one
\* share one still when the import has ended.
THEOREM GroupsStay == Spec => []GroupsKept
<1>1. ASSUME IInv PROVE GroupsKept
  <2>1. SUFFICES ASSUME Settled, NEW a \in DOMAIN history, NEW b \in DOMAIN history
                 PROVE  LET p == history[a] q == history[b]
                            together == GroupOf[p.play] = GroupOf[q.play]
                        IN  /\ p.reference_id = q.reference_id =>
                                 together \/ p.reference_id \in beside \cup {0}
                            /\ p.reference_id # q.reference_id =>
                                 \/ ~together \/ beside # {} \/ IS_IMPORTING
                                 \/ {p.play, q.play} \cap logged # {}
    BY DEF GroupsKept
  <2>2. ~Emptied
    BY <2>1 DEF Settled, Emptied, Overwriting
  <2>3. Base /\ Alone /\ Joined /\ Batches
    BY <1>1, <2>1 DEF IInv, Calm, Settled, Grouped
  <2>4. history[a].reference_id = history[b].reference_id =>
          \/ GroupOf[history[a].play] = GroupOf[history[b].play]
          \/ history[a].reference_id \in beside \cup {0}
    BY <2>2, <2>3 DEF Joined
  <2>5. ASSUME history[a].play \notin logged, history[b].play \notin logged,
               GroupOf[history[a].play] = GroupOf[history[b].play],
               beside = {}, ~IS_IMPORTING
        PROVE  history[a].reference_id = history[b].reference_id
    <3>1. CASE a = b
      BY <3>1
    <3>2. CASE Foreign(a) /\ Foreign(b)
      <4>1. \A i \in Importers : ~Doubled(i)
        BY <2>3, <2>5 DEF Alone, Doubled, Merging
      <4>2. PICK s \in Nat : \A id \in DOMAIN history : Foreign(id) => Batch(s, id)
        BY <2>2, <2>3, <2>5, <4>1 DEF Batches, OneBatch
      <4>3. PICK n \in DOMAIN Import : /\ history[a].play = Import[n].play
                                       /\ history[a].reference_id = Ref(s, n)
        BY <3>2, <4>2 DEF Batch
      <4>4. PICK m \in DOMAIN Import : /\ history[b].play = Import[m].play
                                       /\ history[b].reference_id = Ref(s, m)
        BY <3>2, <4>2 DEF Batch
      <4>5. Ref(s, n) = Ref(s, m)
        BY <2>5, <4>3, <4>4, RefIs
      <4>6. QED
        BY <4>3, <4>4, <4>5
    <3>3. QED
      BY <2>3, <2>5, <3>1, <3>2, TogetherIs
  <2>6. QED
    BY <2>4, <2>5
<1>2. QED
  BY <1>1, Invariance, PTL
=============================================================================
