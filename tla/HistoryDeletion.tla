---------------------------- MODULE HistoryDeletion ----------------------------
(***************************************************************************)
(* Users.delete, undelete, delete_session_history_rows and what these do   *)
(* to the three tables of the history, while write_session_history may be  *)
(* logging a play of the same user.                                        *)
(*                                                                         *)
(* Requests of the web interface run in threads of their own, and every    *)
(* statement is committed alone.  Libraries.delete has the same steps with *)
(* sections in place of users.  The grouping of plays is left to           *)
(* HistoryWriter: it touches no id that is not in session_history.         *)
(***************************************************************************)
EXTENDS Naturals, Sequences, FiniteSets

CONSTANTS
  Users,       \* user_id's in the users table
  Numeric,     \* those that str.isdigit accepts; a Jellyfin id is hexadecimal
  NoUser,
  Writers,     \* threads that may be inside write_session_history
  Requests,    \* threads of the web interface
  MaxRows,     \* bound: rows ever inserted into session_history
  MaxRequests, \* bound: requests that are begun
  MaxFaults    \* bound: statements that raise or are given up, restarts

ASSUME ConstantsAssumption == Numeric \subseteq Users /\ NoUser \notin Users

VARIABLES
  users,       \* columns deleted_user and keep_history of every user; again,
               \* auxiliary: keep_history was set after the deletion
  tables,      \* the ids in each table of the history
  owner,       \* user_id of every row ever inserted: AUTOINCREMENT reuses no id
  writer,      \* local state of each writing thread
  request,     \* local state of each request
  begun, faults,
  erased,      \* auxiliary: ids whose deletion a request was told had succeeded
  beside,      \* auxiliary: rows a deletion of their user could not see: logged
               \* past its SELECT, or for a deleted user with keep_history again
  torn,        \* auxiliary: rows deleted while their writer was still at them
  failed,      \* auxiliary: ids in a DELETE that raised, or whose request ended
  given_up     \* auxiliary: ids in a DELETE that met a locked database five times

log == <<tables, owner>>
bounds == <<begun, faults>>
aux == <<erased, beside, torn, failed, given_up>>
vars == <<users, log, writer, request, bounds, aux>>
-----------------------------------------------------------------------------
\* Mutated form of Tables: the last one is forgotten.
TablesButMetadata == <<"session_history", "session_history_media_info">>

Tables == <<"session_history", "session_history_media_info", "session_history_metadata">>

Details == {"session_history_media_info", "session_history_metadata"}

Rows == 1 .. Len(owner)

Present == [deleted |-> FALSE, keep |-> TRUE, again |-> FALSE]

\* crossed: the user has been deleted since the writer began, or it began for a
\* deleted user with keep_history again.
NotWriting == [pc |-> "idle", user |-> NoUser, id |-> 0, crossed |-> FALSE]

\* purge is purge_only, left the users still to delete, at the table to delete
\* from, ok all(success), claimed all row_ids so far.
NoRequest == [pc |-> "idle", purge |-> FALSE, left |-> {}, user |-> NoUser,
              rows |-> {}, at |-> 1, ok |-> TRUE, claimed |-> {}]

\* A deletion has read the ids of the user's rows and is not over.
PastSelect(u) == \E r \in Requests : request[r].user = u /\ request[r].pc \in {"rows", "mark"}

Init ==
  /\ users = [u \in Users |-> Present]
  /\ tables = [t \in {"session_history"} \cup Details |-> {}]
  /\ owner = << >>
  /\ writer = [w \in Writers |-> NotWriting]
  /\ request = [r \in Requests |-> NoRequest]
  /\ begun = 0 /\ faults = 0
  /\ erased = {} /\ beside = {} /\ torn = {} /\ failed = {} /\ given_up = {}
-----------------------------------------------------------------------------
(* write_session_history. *)

\* Its only look at keep_history.
Begin(w, u) ==
  /\ writer[w].pc = "idle"
  /\ users[u].keep
  /\ Len(owner) < MaxRows
  /\ writer' = [writer EXCEPT ![w] =
       [NotWriting EXCEPT !.pc = "insert", !.user = u, !.crossed = users[u].again]]
  /\ UNCHANGED <<users, log, request, bounds, aux>>

Insert(w) ==
  LET id == Len(owner) + 1
      u == writer[w].user
  IN  /\ writer[w].pc = "insert"
      /\ Len(owner) < MaxRows
      /\ owner' = Append(owner, u)
      /\ tables' = [tables EXCEPT !["session_history"] = @ \cup {id}]
      /\ writer' = [writer EXCEPT ![w].pc = "media_info", ![w].id = id]
      /\ beside' = IF PastSelect(u) \/ writer[w].crossed THEN beside \cup {id} ELSE beside
      /\ UNCHANGED <<users, request, bounds, erased, torn, failed, given_up>>

\* Mutated form of WriteMediaInfo: under the id after the last one.
WriteMediaInfoOfNext(w) ==
  /\ writer[w].pc = "media_info"
  /\ tables' = [tables EXCEPT !["session_history_media_info"] = @ \cup {writer[w].id + 1}]
  /\ writer' = [writer EXCEPT ![w].pc = "metadata"]
  /\ UNCHANGED <<users, owner, request, bounds, aux>>

\* An upsert: whether the row of session_history is still there is not asked.
WriteMediaInfo(w) ==
  /\ writer[w].pc = "media_info"
  /\ tables' = [tables EXCEPT !["session_history_media_info"] = @ \cup {writer[w].id}]
  /\ writer' = [writer EXCEPT ![w].pc = "metadata"]
  /\ UNCHANGED <<users, owner, request, bounds, aux>>

WriteMetadata(w) ==
  /\ writer[w].pc = "metadata"
  /\ tables' = [tables EXCEPT !["session_history_metadata"] = @ \cup {writer[w].id}]
  /\ writer' = [writer EXCEPT ![w] = NotWriting]
  /\ UNCHANGED <<users, owner, request, bounds, aux>>

\* No metadata could be fetched, or a statement raised.
Abort(w) ==
  /\ writer[w].pc # "idle"
  /\ writer' = [writer EXCEPT ![w] = NotWriting]
  /\ UNCHANGED <<users, log, request, bounds, aux>>
-----------------------------------------------------------------------------
(* The requests. *)

Start(r, state) ==
  /\ request[r].pc = "idle"
  /\ begun < MaxRequests /\ begun' = begun + 1
  /\ request' = [request EXCEPT ![r] = state]
  /\ UNCHANGED <<users, log, writer, faults, aux>>

\* delete_user and, with purge, delete_all_user_history.
DeleteUsers(r, those, purge) ==
  Start(r, [NoRequest EXCEPT !.pc = "user", !.left = those, !.purge = purge])

\* delete_history: the page names rows it showed some time ago.
DeleteRows(r, ids) ==
  Start(r, [NoRequest EXCEPT !.pc = "rows", !.rows = ids, !.claimed = ids])

\* The answer is a success when every part of it was.
Answer(r) ==
  /\ request[r].pc = "user" /\ request[r].left = {}
  /\ erased' = IF request[r].ok THEN erased \cup request[r].claimed ELSE erased
  /\ request' = [request EXCEPT ![r] = NoRequest]
  /\ UNCHANGED <<users, log, writer, bounds, beside, torn, failed, given_up>>

\* Where Users.delete goes on after the history.
AfterHistory(q) == IF q.purge \/ q.user = NoUser THEN "user" ELSE "mark"

\* delete_user_history returns None for an id that is not a number.
TakeUser(r, u) ==
  /\ request[r].pc = "user"
  /\ u \in request[r].left
  /\ LET q == [request[r] EXCEPT !.left = @ \ {u}, !.user = u]
     IN  request' = [request EXCEPT ![r] =
           IF u \in Numeric THEN [q EXCEPT !.pc = "select"]
           ELSE [q EXCEPT !.pc = AfterHistory(q), !.ok = FALSE]]
  /\ UNCHANGED <<users, log, writer, bounds, aux>>

\* With no row there is nothing to delete, which is a success.
Select(r) ==
  LET q == request[r]
      found == {id \in tables["session_history"] : owner[id] = q.user}
  IN  /\ q.pc = "select"
      /\ request' = [request EXCEPT ![r] =
           IF found = {} THEN [q EXCEPT !.pc = AfterHistory(q)]
           ELSE [q EXCEPT !.pc = "rows", !.rows = found, !.claimed = @ \cup found]]
      /\ UNCHANGED <<users, log, writer, bounds, aux>>

\* Mutated form of AllSo: any(success).
AnySo(ok, success) == success

AllSo(ok, success) == ok /\ success

\* delete_rows_from_table is over for one table.
NextTable(r, success) ==
  LET q == [request[r] EXCEPT !.at = @ + 1, !.ok = AllSo(@, success)]
  IN  request' = [request EXCEPT ![r] =
        IF q.at <= Len(Tables) THEN q
        ELSE [q EXCEPT !.pc = AfterHistory(q), !.rows = {}, !.at = 1]]

DeleteFromTable(r) ==
  LET ids == request[r].rows
  IN  /\ request[r].pc = "rows"
      /\ tables' = [tables EXCEPT ![Tables[request[r].at]] = @ \ ids]
      /\ torn' = torn \cup {writer[w].id : w \in {w \in Writers : writer[w].id \in ids}}
      /\ NextTable(r, TRUE)
      /\ UNCHANGED <<users, owner, writer, bounds, erased, beside, failed, given_up>>

\* Mutated form of Hidden: the history of a deleted user is kept.
HiddenKeepsHistory(u) == [users EXCEPT ![u].deleted = TRUE]

\* Deleted users keep their row: UPDATE users SET deleted_user, keep_history.
Hidden(u) == [users EXCEPT ![u] = [deleted |-> TRUE, keep |-> FALSE, again |-> FALSE]]

Mark(r) ==
  LET u == request[r].user
  IN  /\ request[r].pc = "mark"
      /\ users' = Hidden(u)
      /\ writer' = [w \in Writers |->
                      IF writer[w].user = u THEN [writer[w] EXCEPT !.crossed = TRUE]
                      ELSE writer[w]]
      /\ request' = [request EXCEPT ![r].pc = "user"]
      /\ UNCHANGED <<log, bounds, aux>>

Undelete(u) ==
  /\ begun < MaxRequests /\ begun' = begun + 1
  /\ users' = [users EXCEPT ![u] = Present]
  /\ UNCHANGED <<log, writer, request, faults, aux>>
\* set_config, for a deleted user too: its history may be kept again.
EditUser(u, keep) ==
  /\ begun < MaxRequests /\ begun' = begun + 1
  /\ users' = [users EXCEPT ![u].keep = keep, ![u].again = @ \/ (keep /\ users[u].deleted)]
  /\ UNCHANGED <<log, writer, request, faults, aux>>
-----------------------------------------------------------------------------
(* Faults. *)

Fault == faults < MaxFaults /\ faults' = faults + 1

\* A statement of a request raises.  delete_rows_from_table and the UPDATE of
\* users catch that, the SELECT ends the request without an answer.
Raise(r) ==
  /\ Fault
  /\ \/ /\ request[r].pc = "rows"
        /\ failed' = failed \cup request[r].rows
        /\ NextTable(r, FALSE)
     \/ /\ request[r].pc = "mark"
        /\ request' = [request EXCEPT ![r].pc = "user", ![r].ok = FALSE]
        /\ UNCHANGED failed
     \/ /\ request[r].pc = "select"
        /\ request' = [request EXCEPT ![r] = NoRequest]
        /\ UNCHANGED failed
  /\ UNCHANGED <<users, log, writer, begun, erased, beside, torn, given_up>>

\* The database is locked for five attempts: action returns as if nothing was wrong.
GiveUp(r) ==
  /\ Fault
  /\ \/ /\ request[r].pc = "rows"
        /\ given_up' = given_up \cup request[r].rows
        /\ NextTable(r, TRUE)
     \/ /\ request[r].pc = "mark"
        /\ request' = [request EXCEPT ![r].pc = "user"]
        /\ UNCHANGED given_up
  /\ UNCHANGED <<users, log, writer, begun, erased, beside, torn, failed>>

\* The process ends and starts again between two statements.
Restart ==
  /\ Fault
  /\ writer' = [w \in Writers |-> NotWriting]
  /\ request' = [r \in Requests |-> NoRequest]
  /\ failed' = failed \cup UNION {request[r].rows : r \in Requests}
  /\ UNCHANGED <<users, log, begun, erased, beside, torn, given_up>>

Next ==
  \/ \E w \in Writers :
       \/ \E u \in Users : Begin(w, u)
       \/ Insert(w) \/ WriteMediaInfo(w) \/ WriteMetadata(w) \/ Abort(w)
  \/ \E r \in Requests :
       \/ \E those \in (SUBSET Users) \ {{}}, purge \in BOOLEAN : DeleteUsers(r, those, purge)
       \/ \E id \in Rows : DeleteRows(r, {id})
       \/ \E u \in Users : TakeUser(r, u)
       \/ Answer(r) \/ Select(r) \/ DeleteFromTable(r) \/ Mark(r) \/ Raise(r) \/ GiveUp(r)
  \/ \E u \in Users : Undelete(u) \/ \E keep \in BOOLEAN : EditUser(u, keep)
  \/ Restart

Spec == Init /\ [][Next]_vars
-----------------------------------------------------------------------------
TypeOK ==
  /\ users \in [Users -> [deleted : BOOLEAN, keep : BOOLEAN, again : BOOLEAN]]
  /\ owner \in Seq(Users)
  /\ tables \in [{"session_history"} \cup Details -> SUBSET Rows]
  /\ writer \in [Writers -> [pc : {"idle", "insert", "media_info", "metadata"},
                             user : Users \cup {NoUser}, id : Rows \cup {0}, crossed : BOOLEAN]]
  /\ request \in [Requests ->
       [pc : {"idle", "user", "select", "rows", "mark"}, purge : BOOLEAN, left : SUBSET Users,
        user : Users \cup {NoUser}, rows : SUBSET Rows, at : 1 .. 3, ok : BOOLEAN,
        claimed : SUBSET Rows]]
  /\ {erased, beside, torn, failed, given_up} \subseteq SUBSET Rows

\* Media info and metadata without their row of session_history are found only
\* halfway through a deletion, after one that failed there, or when the writer
\* was still at the row that was deleted.
NoOrphans ==
  \A t \in Details : \A id \in tables[t] \ tables["session_history"] :
    \/ id \in torn \cup failed \cup given_up
    \/ \E r \in Requests : request[r].pc = "rows" /\ id \in request[r].rows

\* What a request was told had been deleted is in none of the tables, however
\* requests, plays and failures interleave: but for statements that were given
\* up and for details that a writer added afterwards.
DeletedAsTold ==
  \A t \in DOMAIN tables :
    tables[t] \cap erased \subseteq given_up \cup (IF t \in Details THEN torn ELSE {})

\* The rows that a deletion of all history leaves a user with: those it could not
\* see, and those it failed to delete.
Remaining(u) == {id \in beside \cup failed \cup given_up : owner[id] = u}

\* A deleted user whose id is a number has no history, now and for as long as
\* the user stays deleted.  A user of another id keeps all of it, against what
\* delete_user says of itself (webserve.py:1990).
DeletedHaveNone ==
  \A u \in Numeric :
    users[u].deleted =>
      {id \in tables["session_history"] : owner[id] = u} \subseteq Remaining(u)
=============================================================================
