---------------------------- MODULE HistoryWriter ----------------------------
(***************************************************************************)
(* ActivityProcessor.write_session_history: a finished stream is turned    *)
(* into one row of session_history, one of session_history_media_info and  *)
(* one of session_history_metadata, and the row is grouped with the user's *)
(* previous play of the same item through reference_id.                    *)
(*                                                                         *)
(* Every database call is its own transaction (database.db_lock is held    *)
(* for one statement only), so each statement is an action here, and the   *)
(* threads that write history - the websocket thread, the force-stop       *)
(* callbacks and the activity check - interleave between statements.       *)
(*                                                                         *)
(* A view is a pair (user_id, rating_key): the grouping query looks at the *)
(* rows of one view only.  A row's id is its position in history           *)
(* (AUTOINCREMENT); 0 stands for a NULL reference_id.  live is always 0:   *)
(* get_session_each never builds a live session.                           *)
(***************************************************************************)
EXTENDS Naturals, Sequences

CONSTANTS
  Views,          \* pairs of a user and an item
  NoView,         \* view of a thread that is writing nothing
  Writers,        \* threads that may be inside write_session_history
  Sessions,       \* the finished streams they may be given
  WatchedOffset,  \* view offset from which an item counts as watched
  IgnoreInterval, \* LOGGING_IGNORE_INTERVAL
  MaxRows         \* bound: rows of session_history

MediaTypes == {"movie", "episode", "track", "clip"}

\* play_time is stopped - started - paused_counter; kept says whether both the
\* user and the library keep history.
Session == [view : Views, offset : Nat, media_type : MediaTypes,
            play_time : Nat, duration : Nat, kept : BOOLEAN]

ASSUME ConstantsAssumption ==
  /\ Sessions \subseteq Session
  /\ WatchedOffset \in Nat
  /\ IgnoreInterval \in Nat
  /\ MaxRows \in Nat

VARIABLES
  history,     \* session_history: rows in id order
  media_info,  \* ids present in session_history_media_info
  metadata,    \* ids present in session_history_metadata, the last one written
  writer,      \* local state of each thread
  head,        \* auxiliary: the group each row belongs to, fixed at its INSERT
  overlapped   \* auxiliary: rows inserted while another row of their view was ungrouped

tables == <<history, media_info, metadata>>
aux == <<head, overlapped>>
vars == <<tables, writer, aux>>
-----------------------------------------------------------------------------
Rows == 1 .. Len(history)

Row == [view : Views, offset : Nat, reference_id : Nat]

PC == {"idle", "fetch", "insert", "select", "link", "media", "meta"}

\* target and value are the arguments of the UPDATE that sets reference_id.
WriterState == [pc : PC, view : Views \cup {NoView}, offset : Nat,
                last_id : Nat, target : Nat, value : Nat]

Idle == [pc |-> "idle", view |-> NoView, offset |-> 0, last_id |-> 0,
         target |-> 0, value |-> 0]

\* A track shorter than 15 seconds of at least 30 was skipped; a movie or an
\* episode must have played for the configured interval; the user and the
\* library must keep history.
LoggingEnabled(s) ==
  /\ s.media_type \in {"movie", "episode", "track"}
  /\ s.media_type \in {"movie", "episode"} => s.play_time >= IgnoreInterval
  /\ s.media_type = "track" => ~(s.play_time < 15 /\ s.duration >= 30)
  /\ s.kept

\* The rows the query for a view returns, and the newest of
\* them: a set of one row, or empty.
OfView(v) == {id \in Rows : history[id].view = v}

Newest(ids) == {id \in ids : \A other \in ids : other <= id}

\* Mutated form of Continues: whether the previous play was watched is not asked.
ContinuesWatched(prev, offset) == history[prev].offset <= offset

\* A play continues the previous one of its view unless that one was watched
\* to the end or the new one is at an earlier offset.
Continues(prev, offset) ==
  /\ history[prev].offset < WatchedOffset
  /\ history[prev].offset <= offset

\* The group a row inserted now belongs to.
HeadOf(v, offset) ==
  LET prev == {p \in Newest(OfView(v)) : Continues(p, offset)}
  IN  IF prev = {} THEN Len(history) + 1 ELSE head[CHOOSE p \in prev : TRUE]

\* Writers that have inserted a row of view v and not yet set its reference_id.
Ungrouped(v) == {w \in Writers : /\ writer[w].view = v
                                 /\ writer[w].pc \in {"select", "link"}}
-----------------------------------------------------------------------------
Init ==
  /\ history = <<>>
  /\ media_info = {}
  /\ metadata = {}
  /\ writer = [w \in Writers |-> Idle]
  /\ head = <<>>
  /\ overlapped = {}

\* A stream that is not logged returns its row id at once.
Begin(w, s) ==
  /\ writer[w].pc = "idle"
  /\ LoggingEnabled(s)
  /\ Len(history) < MaxRows
  /\ writer' = [writer EXCEPT ![w] = [Idle EXCEPT !.pc = "fetch",
                                                  !.view = s.view,
                                                  !.offset = s.offset]]
  /\ UNCHANGED <<tables, aux>>

\* get_metadata_details comes before any write; when it returns nothing the
\* function returns False, when it raises the caller's handler ends.
Fetch(w) ==
  /\ writer[w].pc = "fetch"
  /\ \E outcome \in {"insert", "idle"} :
       writer' = [writer EXCEPT ![w] = IF outcome = "idle" THEN Idle
                                       ELSE [@ EXCEPT !.pc = outcome]]
  /\ UNCHANGED <<tables, aux>>

Insert(w) ==
  LET v   == writer[w].view
      id  == Len(history) + 1
  IN  /\ writer[w].pc = "insert"
      /\ Len(history) < MaxRows
      /\ history' = Append(history, [view |-> v, offset |-> writer[w].offset,
                                     reference_id |-> 0])
      /\ writer' = [writer EXCEPT ![w].pc = "select", ![w].last_id = id]
      /\ head' = Append(head, HeadOf(v, writer[w].offset))
      /\ overlapped' = IF Ungrouped(v) = {} THEN overlapped
                       ELSE overlapped \cup {id}
                              \cup {writer[u].last_id : u \in Ungrouped(v)}
      /\ UNCHANGED <<media_info, metadata>>

Decide(w, target, value) ==
  writer' = [writer EXCEPT ![w].pc = "link", ![w].target = target, ![w].value = value]

\* Mutated form of Inherited: the id of the previous row.
InheritedId(prev) == prev

\* The group a play takes from the one it continues.
Inherited(prev) == history[prev].reference_id

\* SELECT the last two rows of the view and decide the grouping from them.
\* The newest row need not be the one this writer inserted.
Select(w) ==
  LET ids     == OfView(writer[w].view)
      last_id == writer[w].last_id
  IN  /\ writer[w].pc = "select"
      /\ \E new \in Newest(ids) :
           \/ ids = {new} /\ Decide(w, last_id, last_id)
           \/ \E prev \in Newest(ids \ {new}) :
                IF Continues(prev, history[new].offset)
                  THEN Decide(w, new, Inherited(prev))
                  ELSE Decide(w, new, new)
      /\ UNCHANGED <<tables, aux>>

\* Mutated form of Link: the UPDATE is left out for a row that starts a group.
LinkContinuedOnly(w) ==
  /\ writer[w].pc = "link"
  /\ history' = IF writer[w].value = writer[w].target THEN history
                ELSE [history EXCEPT ![writer[w].target].reference_id = writer[w].value]
  /\ writer' = [writer EXCEPT ![w].pc = "media"]
  /\ UNCHANGED <<media_info, metadata, aux>>

Link(w) ==
  /\ writer[w].pc = "link"
  /\ history' = [history EXCEPT ![writer[w].target].reference_id = writer[w].value]
  /\ writer' = [writer EXCEPT ![w].pc = "media"]
  /\ UNCHANGED <<media_info, metadata, aux>>

\* Mutated form of WriteMediaInfo: under the id after the last one.
WriteMediaInfoOfNext(w) ==
  /\ writer[w].pc = "media"
  /\ media_info' = media_info \cup {writer[w].last_id + 1}
  /\ writer' = [writer EXCEPT ![w].pc = "meta"]
  /\ UNCHANGED <<history, metadata, aux>>

WriteMediaInfo(w) ==
  /\ writer[w].pc = "media"
  /\ media_info' = media_info \cup {writer[w].last_id}
  /\ writer' = [writer EXCEPT ![w].pc = "meta"]
  /\ UNCHANGED <<history, metadata, aux>>

WriteMetadata(w) ==
  /\ writer[w].pc = "meta"
  /\ metadata' = metadata \cup {writer[w].last_id}
  /\ writer' = [writer EXCEPT ![w] = Idle]
  /\ UNCHANGED <<history, media_info, aux>>

\* A statement raises, or the process ends: what was written stays.
Abort(w) ==
  /\ writer[w].pc \in {"select", "link", "media", "meta"}
  /\ writer' = [writer EXCEPT ![w] = Idle]
  /\ UNCHANGED <<tables, aux>>

Next ==
  \E w \in Writers :
    \/ \E s \in Sessions : Begin(w, s)
    \/ Fetch(w) \/ Insert(w) \/ Select(w) \/ Link(w)
    \/ WriteMediaInfo(w) \/ WriteMetadata(w) \/ Abort(w)

Spec == Init /\ [][Next]_vars
-----------------------------------------------------------------------------
TypeOK ==
  /\ history \in Seq(Row)
  /\ media_info \subseteq Rows
  /\ metadata \subseteq Rows
  /\ writer \in [Writers -> WriterState]
  /\ head \in Seq(Nat)
  /\ Len(head) = Len(history)
  /\ overlapped \subseteq Rows

\* A reference_id that is set names the group the row belongs to, whichever
\* thread's UPDATE set it and however the statements of the threads interleave.
GroupedCorrectly ==
  \A id \in Rows : history[id].reference_id \in {0, head[id]}

\* A row whose writer finished is left without a reference_id only if it was
\* inserted while another row of its view was still ungrouped, or it continues
\* a row that has none to hand on.
UngroupedHasCause ==
  \A id \in metadata :
    history[id].reference_id = 0 =>
      \/ id \in overlapped
      \/ \E prev \in 1 .. id - 1 : /\ head[prev] = head[id]
                                  /\ history[prev].view = history[id].view
                                  /\ history[prev].reference_id = 0
=============================================================================
