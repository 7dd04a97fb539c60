------------------------ MODULE HistoryDeletionProofs ------------------------
(***************************************************************************)
(* For any number of users, rows, writers and requests: type correctness   *)
(* of the history's tables; that details without their row are there only  *)
(* halfway through a deletion or after one that failed; that what a        *)
(* request was told had been deleted is gone; and that a deleted user has  *)
(* no history but what the deletion could not see or failed to delete.     *)
(*                                                                         *)
(* The properties speak of the tables.  What connects them with the        *)
(* requests is RequestSound: what is left, in the tables a request has     *)
(* dealt with, of the rows it is deleting; and with the writers            *)
(* WriterSound: a writer is at a row that is there or whose deletion is    *)
(* known to have met a writer.                                             *)
(***************************************************************************)
EXTENDS HistoryDeletion, TLAPS

WriterState == [pc : {"idle", "insert", "media_info", "metadata"},
                user : Users \cup {NoUser}, id : Rows \cup {0}, crossed : BOOLEAN]

RequestState ==
  [pc : {"idle", "user", "select", "rows", "mark"}, purge : BOOLEAN, left : SUBSET Users,
   user : Users \cup {NoUser}, rows : SUBSET Rows, at : 1 .. 3, ok : BOOLEAN,
   claimed : SUBSET Rows]

\* s is the local state of a writer.
WriterSound(s) ==
  /\ s.pc # "idle" => s.user \in Users
  /\ s.pc \in {"media_info", "metadata"} =>
       s.id \in Rows /\ (s.id \in tables["session_history"] \/ s.id \in torn)
  /\ s.pc # "idle" /\ users[s.user].deleted => s.crossed

\* The row may be in no table, but where a statement was given up or a writer
\* was still at it.
Cleared(id) ==
  \A t \in DOMAIN tables : id \in tables[t] =>
    id \in given_up \/ (t \in Details /\ id \in torn)

\* What a request has left, in the tables it is done with, of the rows it deletes.
DoneSound(q) ==
  q.pc = "rows" =>
    \A k \in 1 .. q.at - 1 : \A id \in q.rows : id \in tables[Tables[k]] =>
      id \in given_up \/ (k > 1 /\ id \in torn) \/ (~q.ok /\ id \in failed)

\* The rows it claims, as long as it claims to succeed.
ClaimSound(q) ==
  q.ok => \A id \in q.claimed : (q.pc = "rows" /\ id \in q.rows) \/ Cleared(id)

\* The rows of the user it is deleting.
SelectSound(q) ==
  q.pc \in {"rows", "mark"} /\ q.user \in Numeric =>
    \A id \in tables["session_history"] : owner[id] = q.user =>
      id \in beside \cup failed \cup given_up \/ (q.pc = "rows" /\ id \in q.rows)

RequestSound(q) ==
  /\ q.pc # "rows" => q.at = 1
  /\ DoneSound(q) /\ ClaimSound(q) /\ SelectSound(q)

\* A deleted user whose plays are logged again had keep_history set again.
UserSound(u) == users[u].deleted /\ users[u].keep => users[u].again

IInv ==
  /\ TypeOK
  /\ \A w \in Writers : WriterSound(writer[w])
  /\ \A r \in Requests : RequestSound(request[r])
  /\ \A u \in Users : UserSound(u)
  /\ NoOrphans /\ DeletedAsTold /\ DeletedHaveNone
-----------------------------------------------------------------------------
LEMMA TableNames ==
  /\ Len(Tables) = 3 /\ Tables[1] = "session_history"
  /\ Tables[2] = "session_history_media_info" /\ Tables[3] = "session_history_metadata"
  /\ \A k \in 1 .. 3 : Tables[k] \in {"session_history"} \cup Details
  /\ \A k \in 2 .. 3 : Tables[k] \in Details
  /\ \A t \in Details : t = Tables[2] \/ t = Tables[3]
  /\ "session_history" \notin Details
  BY DEF Tables, Details

LEMMA IdleStates ==
  /\ NotWriting \in WriterState /\ NotWriting.pc = "idle"
  /\ NoRequest \in RequestState /\ NoRequest.pc = "idle" /\ NoRequest.claimed = {}
  /\ NoRequest.rows = {} /\ NoRequest.at = 1 /\ NoRequest.user = NoUser
  BY DEF NotWriting, NoRequest, WriterState, RequestState

\* DeletedAsTold in terms of Cleared.
LEMMA ToldIsCleared ==
  DeletedAsTold <=> \A id \in erased : Cleared(id)
  BY DEF DeletedAsTold, Cleared

\* What is known of the types at a step.
LEMMA Typed ==
  ASSUME IInv
  PROVE  /\ DOMAIN tables = {"session_history"} \cup Details
         /\ \A t \in DOMAIN tables : tables[t] \subseteq Rows
         /\ Rows = 1 .. Len(owner) /\ Len(owner) \in Nat
         /\ \A w \in Writers : writer[w] \in WriterState
         /\ \A r \in Requests : request[r] \in RequestState
         /\ \A id \in Rows : owner[id] \in Users
         /\ erased \subseteq Rows /\ beside \subseteq Rows /\ torn \subseteq Rows
         /\ failed \subseteq Rows /\ given_up \subseteq Rows
  BY DEF IInv, TypeOK, WriterState, RequestState, Rows

\* A table that loses rows, and exceptions that are noted, disturb no request and
\* no row that is cleared.
LEMMA Shrinks ==
  ASSUME IInv, owner' = owner, DOMAIN tables' = DOMAIN tables,
         \A t \in DOMAIN tables : tables'[t] \subseteq tables[t],
         torn \subseteq torn', failed \subseteq failed', given_up \subseteq given_up',
         beside \subseteq beside'
  PROVE  /\ \A q \in RequestState : RequestSound(q) => RequestSound(q)'
         /\ \A id : Cleared(id) => Cleared(id)'
<1>1. ASSUME NEW id, Cleared(id) PROVE Cleared(id)'
  BY <1>1 DEF Cleared
<1>2. ASSUME NEW q \in RequestState, RequestSound(q) PROVE RequestSound(q)'
  <2>1. DoneSound(q)'
    <3>1. \A k \in 1 .. q.at - 1 : Tables[k] \in DOMAIN tables
      BY Typed, TableNames DEF RequestState
    <3>2. QED
      BY <1>2, <3>1 DEF RequestSound, DoneSound
  <2>2. ClaimSound(q)'
    BY <1>1, <1>2 DEF RequestSound, ClaimSound
  <2>3. SelectSound(q)'
    BY <1>2, Typed DEF RequestSound, SelectSound
  <2>4. QED
    BY <1>2, <2>1, <2>2, <2>3 DEF RequestSound
<1>3. QED
  BY <1>1, <1>2

\* A step of one request that leaves the tables alone and gives up no row it was
\* deleting, unless it failed to.
LEMMA RequestStep ==
  ASSUME IInv, NEW r \in Requests, NEW q \in RequestState,
         request' = [request EXCEPT ![r] = q],
         UNCHANGED <<users, log, writer, beside, torn>>,
         failed \subseteq failed', given_up \subseteq given_up',
         failed' \subseteq Rows, given_up' \subseteq Rows, erased' \subseteq Rows,
         \A id \in erased' : id \in erased \/ Cleared(id),
         RequestSound(q),
         request[r].pc = "rows" => (q.pc = "rows" /\ request[r].rows \subseteq q.rows)
  PROVE  IInv'
<1>1. UNCHANGED <<tables, owner>> /\ Rows' = Rows
  BY DEF log, Rows
<1>2. \A s \in Requests : request'[s] = IF s = r THEN q ELSE request[s]
  BY DEF IInv, TypeOK
<1>3. TypeOK'
  <2>1. request' \in [Requests -> RequestState]
    BY DEF IInv, TypeOK, RequestState
  <2>2. request' \in [Requests -> RequestState]'
    BY <1>1, <2>1 DEF RequestState
  <2>3. QED
    BY <1>1, <2>2 DEF IInv, TypeOK, RequestState
<1>4. (\A w \in Writers : WriterSound(writer[w])') /\ \A u \in Users : UserSound(u)'
  BY <1>1 DEF IInv, WriterSound, UserSound
<1>5. /\ \A p \in RequestState : RequestSound(p) => RequestSound(p)'
      /\ \A id : Cleared(id) => Cleared(id)'
  BY <1>1, Shrinks
<1>6. ASSUME NEW s \in Requests PROVE RequestSound(request[s])'
  <2>1. PICK p \in RequestState : p = request'[s] /\ RequestSound(p)
    BY <1>2, Typed DEF IInv
  <2>2. RequestSound(p)'
    BY <1>5, <2>1
  <2>3. QED
    BY <2>1, <2>2
<1>7. NoOrphans'
  <2>1. \A id : (\E s \in Requests : request[s].pc = "rows" /\ id \in request[s].rows)
          => \E s \in Requests : request'[s].pc = "rows" /\ id \in request'[s].rows
    BY <1>2
  <2>2. QED
    BY <1>1, <2>1 DEF IInv, NoOrphans
<1>8. DeletedAsTold'
  <2>1. \A id \in erased' : Cleared(id)'
    BY <1>5, ToldIsCleared DEF IInv
  <2>2. QED
    BY <2>1 DEF DeletedAsTold, Cleared
<1>9. DeletedHaveNone'
  BY <1>1 DEF IInv, DeletedHaveNone, Remaining
<1>10. QED
  BY <1>3, <1>4, <1>6, <1>7, <1>8, <1>9 DEF IInv
-----------------------------------------------------------------------------
(* The steps of a request that delete nothing. *)

\* Between two deletions a request only answers for what it claims.
LEMMA Between ==
  ASSUME NEW q \in RequestState, q.pc \notin {"rows", "mark"}, q.at = 1,
         q.ok => \A id \in q.claimed : Cleared(id)
  PROVE  RequestSound(q)
  BY DEF RequestSound, DoneSound, ClaimSound, SelectSound

LEMMA StartStep ==
  ASSUME IInv, NEW r \in Requests, NEW q \in RequestState, Start(r, q), RequestSound(q)
  PROVE  IInv'
<1>1. request[r].pc # "rows"
  BY DEF Start
<1>2. /\ request' = [request EXCEPT ![r] = q]
      /\ UNCHANGED <<users, log, writer, erased, beside, torn, failed, given_up>>
  BY DEF Start, aux
<1>3. failed' \subseteq Rows /\ given_up' \subseteq Rows /\ erased' \subseteq Rows
  BY <1>2, Typed
<1>4. QED
  BY <1>1, <1>2, <1>3, RequestStep

LEMMA DeleteUsersStep ==
  ASSUME IInv, NEW r \in Requests, NEW those \in (SUBSET Users) \ {{}}, NEW purge \in BOOLEAN,
         DeleteUsers(r, those, purge)
  PROVE  IInv'
<1>1. PICK q : q = [NoRequest EXCEPT !.pc = "user", !.left = those, !.purge = purge]
  OBVIOUS
<1>2. q \in RequestState /\ q.pc = "user" /\ q.claimed = {} /\ q.at = 1
  BY <1>1, IdleStates DEF RequestState
<1>3. RequestSound(q)
  BY <1>2, Between
<1>4. QED
  BY <1>1, <1>2, <1>3, StartStep DEF DeleteUsers

LEMMA DeleteRowsStep ==
  ASSUME IInv, NEW r \in Requests, NEW id \in Rows, DeleteRows(r, {id})
  PROVE  IInv'
<1>1. PICK q : q = [NoRequest EXCEPT !.pc = "rows", !.rows = {id}, !.claimed = {id}]
  OBVIOUS
<1>2. /\ q \in RequestState
      /\ q.pc = "rows" /\ q.rows = {id} /\ q.claimed = {id} /\ q.at = 1 /\ q.user = NoUser
  BY <1>1, IdleStates DEF RequestState
<1>3. RequestSound(q)
  BY <1>2, ConstantsAssumption DEF RequestSound, DoneSound, ClaimSound, SelectSound
<1>4. QED
  BY <1>1, <1>2, <1>3, StartStep DEF DeleteRows

LEMMA AnswerStep ==
  ASSUME IInv, NEW r \in Requests, Answer(r)
  PROVE  IInv'
<1>1. /\ request[r].pc = "user" /\ request' = [request EXCEPT ![r] = NoRequest]
      /\ erased' = IF request[r].ok THEN erased \cup request[r].claimed ELSE erased
      /\ UNCHANGED <<users, log, writer, beside, torn, failed, given_up>>
  BY DEF Answer
<1>2. request[r].ok => \A id \in request[r].claimed : Cleared(id)
  BY <1>1 DEF IInv, RequestSound, ClaimSound
<1>3. \A id \in erased' : id \in erased \/ Cleared(id)
  BY <1>1, <1>2
<1>4. failed' \subseteq Rows /\ given_up' \subseteq Rows /\ erased' \subseteq Rows
  BY <1>1, Typed DEF RequestState
<1>5. RequestSound(NoRequest)
  BY IdleStates, Between
<1>6. QED
  BY <1>1, <1>3, <1>4, <1>5, IdleStates, RequestStep

\* After the history of a user whose rows, if a deletion could see them, are gone.
LEMMA AfterHistorySound ==
  ASSUME NEW q \in RequestState, NEW pc \in {"user", "mark"},
         NEW p \in RequestState, p = [q EXCEPT !.pc = pc], q.at = 1,
         q.ok => \A id \in q.claimed : Cleared(id),
         q.user \in Numeric => \A id \in tables["session_history"] : owner[id] = q.user =>
           id \in beside \cup failed \cup given_up
  PROVE  RequestSound(p)
<1>1. p.pc = pc /\ p.ok = q.ok /\ p.claimed = q.claimed /\ p.user = q.user /\ p.at = 1
  BY DEF RequestState
<1>2. QED
  BY <1>1 DEF RequestSound, DoneSound, ClaimSound, SelectSound

LEMMA TakeUserStep ==
  ASSUME IInv, NEW r \in Requests, NEW u \in Users, TakeUser(r, u)
  PROVE  IInv'
<1>1. PICK me \in RequestState :
        me = request[r] /\ me.pc = "user" /\ me.at = 1 /\ RequestSound(me)
  BY Typed DEF TakeUser, IInv, RequestSound
<1>2. PICK q : q = [me EXCEPT !.left = @ \ {u}, !.user = u]
  OBVIOUS
<1>3. PICK pc : pc = AfterHistory(q)
  OBVIOUS
<1>4. pc \in {"user", "mark"}
  BY <1>3 DEF AfterHistory
<1>5. PICK p \in RequestState :
        /\ p = IF u \in Numeric THEN [q EXCEPT !.pc = "select"]
               ELSE [q EXCEPT !.pc = pc, !.ok = FALSE]
        /\ request' = [request EXCEPT ![r] = p]
  BY <1>1, <1>2, <1>3, <1>4 DEF TakeUser, RequestState
<1>6. /\ p.claimed = me.claimed /\ p.user = u /\ p.at = me.at
      /\ u \in Numeric => p.pc = "select" /\ p.ok = me.ok
      /\ u \notin Numeric => p.pc = pc /\ ~p.ok
  BY <1>1, <1>2, <1>5 DEF RequestState
<1>7. RequestSound(p)
  <2>1. CASE u \in Numeric
    <3>1. p.ok => \A id \in p.claimed : Cleared(id)
      BY <1>1, <1>6, <2>1 DEF RequestSound, ClaimSound
    <3>2. QED
      BY <1>1, <1>6, <2>1, <3>1, Between
  <2>2. CASE u \notin Numeric
    BY <1>1, <1>4, <1>6, <2>2 DEF RequestSound, DoneSound, ClaimSound, SelectSound
  <2>3. QED
    BY <2>1, <2>2
<1>8. UNCHANGED <<users, log, writer, erased, beside, torn, failed, given_up>>
  BY DEF TakeUser, aux
<1>9. failed' \subseteq Rows /\ given_up' \subseteq Rows /\ erased' \subseteq Rows
  BY <1>8, Typed
<1>10. QED
  BY <1>1, <1>5, <1>7, <1>8, <1>9, RequestStep

LEMMA SelectStep ==
  ASSUME IInv, NEW r \in Requests, Select(r)
  PROVE  IInv'
<1>1. PICK me \in RequestState :
        me = request[r] /\ me.pc = "select" /\ me.at = 1 /\ RequestSound(me)
  BY Typed DEF Select, IInv, RequestSound
<1>2. PICK found \in SUBSET Rows : found = {id \in tables["session_history"] : owner[id] = me.user}
  BY Typed
<1>3. PICK pc \in {"user", "mark"} : pc = AfterHistory(me)
  BY DEF AfterHistory
<1>4. me.ok => \A id \in me.claimed : Cleared(id)
  BY <1>1 DEF RequestSound, ClaimSound
<1>5. PICK p \in RequestState :
        /\ p = IF found = {} THEN [me EXCEPT !.pc = pc]
               ELSE [me EXCEPT !.pc = "rows", !.rows = found, !.claimed = @ \cup found]
        /\ request' = [request EXCEPT ![r] = p]
  <2>1. PICK p : p = IF found = {} THEN [me EXCEPT !.pc = pc]
                     ELSE [me EXCEPT !.pc = "rows", !.rows = found, !.claimed = @ \cup found]
    OBVIOUS
  <2>2. p \in RequestState
    BY <1>2, <2>1 DEF RequestState
  <2>3. request' = [request EXCEPT ![r] = p]
    BY <1>1, <1>2, <1>3, <2>1 DEF Select
  <2>4. QED
    BY <2>1, <2>2, <2>3
<1>6. RequestSound(p)
  <2>1. CASE found = {}
    BY <1>1, <1>2, <1>4, <1>5, <2>1, AfterHistorySound
  <2>2. CASE found # {}
    <3>1. /\ p.pc = "rows" /\ p.rows = found /\ p.claimed = me.claimed \cup found
          /\ p.user = me.user /\ p.ok = me.ok /\ p.at = me.at
      BY <1>5, <2>2 DEF RequestState
    <3>2. ClaimSound(p)
      BY <1>4, <3>1 DEF ClaimSound
    <3>3. SelectSound(p)
      BY <1>2, <3>1 DEF SelectSound
    <3>4. DoneSound(p)
      BY <1>1, <3>1 DEF DoneSound
    <3>5. QED
      BY <3>1, <3>2, <3>3, <3>4 DEF RequestSound
  <2>3. QED
    BY <2>1, <2>2
<1>7. UNCHANGED <<users, log, writer, erased, beside, torn, failed, given_up>>
  BY DEF Select, aux
<1>8. failed' \subseteq Rows /\ given_up' \subseteq Rows /\ erased' \subseteq Rows
  BY <1>7, Typed
<1>9. QED
  BY <1>1, <1>5, <1>6, <1>7, <1>8, RequestStep

\* The SELECT raises, or the UPDATE of users raises or is given up.
LEMMA UnmarkedStep ==
  ASSUME IInv, NEW r \in Requests,
         UNCHANGED <<users, log, writer, erased, beside, torn, failed, given_up>>,
         \/ /\ request[r].pc = "mark"
            /\ request' = [request EXCEPT ![r].pc = "user", ![r].ok = FALSE]
         \/ /\ request[r].pc = "mark"
            /\ request' = [request EXCEPT ![r].pc = "user"]
         \/ /\ request[r].pc = "select"
            /\ request' = [request EXCEPT ![r] = NoRequest]
  PROVE  IInv'
<1>1. PICK me \in RequestState : me = request[r] /\ me.pc # "rows" /\ me.at = 1 /\ RequestSound(me)
  BY Typed DEF IInv, RequestSound
<1>2. me.ok => \A id \in me.claimed : Cleared(id)
  BY <1>1 DEF RequestSound, ClaimSound
<1>3. failed' \subseteq Rows /\ given_up' \subseteq Rows /\ erased' \subseteq Rows
  BY Typed
<1>4. ASSUME NEW q \in RequestState, request' = [request EXCEPT ![r] = q],
             q.pc \in {"idle", "user"}, q.at = 1, q.claimed \subseteq me.claimed,
             q.ok => me.ok \/ q.claimed = {}
      PROVE  IInv'
  <2>1. RequestSound(q)
    BY <1>2, <1>4, Between
  <2>2. QED
    BY <1>1, <1>3, <1>4, <2>1, RequestStep
<1>5. CASE request' = [request EXCEPT ![r].pc = "user", ![r].ok = FALSE]
  <2>1. PICK q : q = [me EXCEPT !.pc = "user", !.ok = FALSE]
    OBVIOUS
  <2>2. q \in RequestState /\ q.pc = "user" /\ q.at = 1 /\ q.claimed = me.claimed /\ ~q.ok
    BY <1>1, <2>1 DEF RequestState
  <2>3. request' = [request EXCEPT ![r] = q]
    BY <1>1, <1>5, <2>1 DEF IInv, TypeOK
  <2>4. QED
    BY <1>4, <2>2, <2>3
<1>6. CASE request' = [request EXCEPT ![r].pc = "user"]
  <2>1. PICK q : q = [me EXCEPT !.pc = "user"]
    OBVIOUS
  <2>2. q \in RequestState /\ q.pc = "user" /\ q.at = 1 /\ q.claimed = me.claimed /\ q.ok = me.ok
    BY <1>1, <2>1 DEF RequestState
  <2>3. request' = [request EXCEPT ![r] = q]
    BY <1>1, <1>6, <2>1 DEF IInv, TypeOK
  <2>4. QED
    BY <1>4, <2>2, <2>3
<1>7. CASE request' = [request EXCEPT ![r] = NoRequest]
  BY <1>4, <1>7, IdleStates
<1>8. QED
  BY <1>5, <1>6, <1>7
-----------------------------------------------------------------------------
(* A DELETE, done, raised or given up: the step to the next table. *)

LEMMA AttemptStep ==
  ASSUME IInv, NEW r \in Requests, request[r].pc = "rows",
         NEW success \in BOOLEAN, NextTable(r, success),
         UNCHANGED <<users, owner, writer, erased, beside>>,
         tables' \in [DOMAIN tables -> SUBSET Rows],
         \A t \in DOMAIN tables : tables'[t] \subseteq tables[t],
         \A t \in DOMAIN tables : t # Tables[request[r].at] => tables'[t] = tables[t],
         \A id \in tables[Tables[request[r].at]] :
           id \in request[r].rows \/ id \in tables'[Tables[request[r].at]],
         torn \subseteq torn', failed \subseteq failed', given_up \subseteq given_up',
         torn' \subseteq Rows, failed' \subseteq Rows, given_up' \subseteq Rows,
         \A id \in request[r].rows : id \in tables'[Tables[request[r].at]] =>
           id \in given_up' \/ (~success /\ id \in failed'),
         \A w \in Writers :
           \/ writer[w].id \notin request[r].rows
           \/ writer[w].id \in torn'
           \/ \A t \in DOMAIN tables : tables'[t] = tables[t]
  PROVE  IInv'
<1>1. PICK me \in RequestState : me = request[r] /\ me.pc = "rows" /\ RequestSound(me)
  BY Typed DEF IInv
<1>2. PICK q : q = [me EXCEPT !.at = @ + 1, !.ok = AllSo(@, success)]
  OBVIOUS
<1>3. /\ q.pc = "rows" /\ q.rows = me.rows /\ q.claimed = me.claimed /\ q.user = me.user
      /\ q.at = me.at + 1 /\ q.ok = (me.ok /\ success)
  BY <1>1, <1>2 DEF RequestState, AllSo
<1>4. PICK pc \in {"user", "mark"} : pc = AfterHistory(q)
  BY DEF AfterHistory
<1>5. PICK p : p = IF q.at <= 3 THEN q ELSE [q EXCEPT !.pc = pc, !.rows = {}, !.at = 1]
  OBVIOUS
<1>6. request' = [request EXCEPT ![r] = p]
  BY <1>1, <1>2, <1>4, <1>5, TableNames DEF NextTable
<1>7. /\ p \in RequestState
      /\ p.claimed = me.claimed /\ p.user = me.user /\ p.ok = (me.ok /\ success)
      /\ me.at < 3 => p.pc = "rows" /\ p.rows = me.rows /\ p.at = me.at + 1
      /\ me.at = 3 => p.pc = pc /\ p.rows = {} /\ p.at = 1
      /\ me.at \in 1 .. 3 /\ (me.at < 3 \/ me.at = 3)
  <2>1. me.at \in 1 .. 3 /\ (me.at < 3 \/ me.at = 3)
    BY DEF RequestState
  <2>2. CASE me.at < 3
    <3>1. p = q /\ q.at \in 1 .. 3
      BY <1>3, <1>5, <2>1, <2>2
    <3>2. me.ok \in BOOLEAN /\ AllSo(me.ok, success) \in BOOLEAN
      BY DEF RequestState, AllSo
    <3>3. q \in RequestState
      BY <1>2, <1>3, <3>1, <3>2 DEF RequestState
    <3>4. QED
      BY <1>3, <2>1, <2>2, <3>1, <3>3
  <2>3. CASE me.at = 3
    <3>1. p = [q EXCEPT !.pc = pc, !.rows = {}, !.at = 1]
      BY <1>3, <1>5, <2>1, <2>3
    <3>2. me.ok \in BOOLEAN /\ AllSo(me.ok, success) \in BOOLEAN
      BY DEF RequestState, AllSo
    <3>3. PICK x \in RequestState : x = [me EXCEPT !.pc = pc, !.rows = {}, !.at = 1]
      <4>1. PICK x : x = [me EXCEPT !.pc = pc, !.rows = {}, !.at = 1]
        OBVIOUS
      <4>2. {} \in SUBSET Rows /\ 1 \in 1 .. 3
        OBVIOUS
      <4>3. x \in RequestState
        BY <1>4, <4>1, <4>2 DEF RequestState
      <4>4. QED
        BY <4>1, <4>3
    <3>4. p = [x EXCEPT !.ok = AllSo(@, success)] /\ x.ok = me.ok
      BY <1>2, <3>1, <3>3 DEF RequestState
    <3>5. p \in RequestState
      BY <3>2, <3>3, <3>4 DEF RequestState
    <3>6. QED
      BY <1>3, <2>3, <3>1, <3>5 DEF RequestState
  <2>4. QED
    BY <2>1, <2>2, <2>3
<1>8. \A s \in Requests : request'[s] = IF s = r THEN p ELSE request[s]
  BY <1>6 DEF IInv, TypeOK
<1>9. /\ \A s \in RequestState : RequestSound(s) => RequestSound(s)'
      /\ \A id : Cleared(id) => Cleared(id)'
  BY Shrinks
\* What is left, in the tables so far, of the rows being deleted.
<1>10. \A k \in 1 .. me.at : \A id \in me.rows : id \in tables'[Tables[k]] =>
         id \in given_up' \/ (k > 1 /\ id \in torn') \/ (~p.ok /\ id \in failed')
  <2>1. SUFFICES ASSUME NEW k \in 1 .. me.at, NEW id \in me.rows, id \in tables'[Tables[k]]
                 PROVE  id \in given_up' \/ (k > 1 /\ id \in torn') \/ (~p.ok /\ id \in failed')
    OBVIOUS
  <2>2. CASE k = me.at
    BY <1>1, <1>7, <2>1, <2>2
  <2>3. CASE k # me.at
    <3>1. k \in 1 .. me.at - 1 /\ Tables[k] \in DOMAIN tables
      BY <1>7, <2>3, Typed, TableNames
    <3>2. id \in tables[Tables[k]]
      BY <2>1, <3>1
    <3>3. id \in given_up \/ (k > 1 /\ id \in torn) \/ (~me.ok /\ id \in failed)
      BY <1>1, <3>1, <3>2 DEF RequestSound, DoneSound
    <3>4. QED
      BY <1>7, <3>3
  <2>4. QED
    BY <2>2, <2>3
<1>11. me.at = 3 => \A t \in DOMAIN tables : \A id \in me.rows : id \in tables'[t] =>
         id \in given_up' \/ (t \in Details /\ id \in torn') \/ (~p.ok /\ id \in failed')
  <2>1. SUFFICES ASSUME me.at = 3, NEW t \in DOMAIN tables, NEW id \in me.rows,
                        id \in tables'[t]
                 PROVE  \/ id \in given_up' \/ (t \in Details /\ id \in torn')
                        \/ (~p.ok /\ id \in failed')
    OBVIOUS
  <2>2. PICK k \in 1 .. 3 : t = Tables[k] /\ (k > 1 => t \in Details)
    BY Typed, TableNames
  <2>3. QED
    BY <1>10, <2>1, <2>2
<1>12. RequestSound(p)'
  <2>1. (p.pc # "rows" => p.at = 1)'
    BY <1>7
  <2>2. DoneSound(p)'
    BY <1>7, <1>10 DEF DoneSound
  <2>3. ClaimSound(p)'
    <3>1. SUFFICES ASSUME p.ok, NEW id \in me.claimed
                   PROVE  (p.pc = "rows" /\ id \in p.rows) \/ Cleared(id)'
      BY <1>7 DEF ClaimSound
    <3>2. id \in me.rows \/ Cleared(id)'
      BY <1>1, <1>7, <1>9, <3>1 DEF RequestSound, ClaimSound
    <3>3. CASE me.at = 3 /\ id \in me.rows
      BY <1>11, <3>1, <3>3 DEF Cleared
    <3>4. QED
      BY <1>7, <3>2, <3>3
  <2>4. SelectSound(p)'
    <3>1. SUFFICES ASSUME p.user \in Numeric, NEW id \in tables'["session_history"],
                          owner[id] = p.user
                   PROVE  id \in beside' \cup failed' \cup given_up' \/ (p.pc = "rows" /\ id \in p.rows)
      BY DEF SelectSound
    <3>2. id \in tables["session_history"]
      BY Typed
    <3>3. id \in beside \cup failed \cup given_up \/ id \in me.rows
      BY <1>1, <1>7, <3>1, <3>2 DEF RequestSound, SelectSound
    <3>4. CASE me.at = 3 /\ id \in me.rows
      BY <1>11, <3>4, Typed, TableNames
    <3>5. QED
      BY <1>7, <3>3, <3>4
  <2>5. QED
    BY <2>1, <2>2, <2>3, <2>4 DEF RequestSound
<1>13. \A s \in Requests : RequestSound(request[s])'
  <2>1. SUFFICES ASSUME NEW s \in Requests PROVE RequestSound(request[s])'
    OBVIOUS
  <2>2. PICK x \in RequestState : x = request'[s] /\ RequestSound(x)'
    BY <1>7, <1>8, <1>9, <1>12, Typed DEF IInv
  <2>3. QED
    BY <2>2
<1>14. TypeOK'
  <2>1. request' \in [Requests -> RequestState]
    BY <1>6, <1>7 DEF IInv, TypeOK, RequestState
  <2>2. Rows' = Rows /\ request' \in [Requests -> RequestState]'
    BY <2>1 DEF RequestState, Rows
  <2>3. tables' \in [{"session_history"} \cup Details -> SUBSET Rows]
    BY Typed
  <2>4. QED
    BY <2>2, <2>3 DEF IInv, TypeOK, RequestState
<1>15. \A w \in Writers : WriterSound(writer[w])'
  <2>1. SUFFICES ASSUME NEW w \in Writers PROVE WriterSound(writer[w])'
    OBVIOUS
  <2>2. WriterSound(writer[w])
    BY DEF IInv
  <2>3. writer[w].id \in tables["session_history"] =>
          writer[w].id \in tables'["session_history"] \/ writer[w].id \in torn'
    BY <1>1, Typed, TableNames
  <2>4. QED
    BY <2>2, <2>3 DEF WriterSound, Rows
<1>16. NoOrphans'
  <2>1. SUFFICES ASSUME NEW t \in Details, NEW id \in tables'[t],
                        id \notin tables'["session_history"]
                 PROVE  \/ id \in torn' \cup failed' \cup given_up'
                        \/ \E s \in Requests : request'[s].pc = "rows" /\ id \in request'[s].rows
    BY DEF NoOrphans
  <2>2. t \in DOMAIN tables /\ id \in tables[t]
    BY Typed
  <2>3. CASE id \in tables["session_history"]
    <3>1. me.at = 1 /\ id \in me.rows
      BY <1>1, <1>7, <2>1, <2>3, Typed, TableNames
    <3>2. QED
      BY <1>7, <1>8, <3>1
  <2>4. CASE id \notin tables["session_history"]
    <3>1. \/ id \in torn \cup failed \cup given_up
          \/ \E s \in Requests : request[s].pc = "rows" /\ id \in request[s].rows
      BY <2>2, <2>4 DEF IInv, NoOrphans
    <3>2. CASE \E s \in Requests \ {r} : request[s].pc = "rows" /\ id \in request[s].rows
      BY <1>8, <3>2
    <3>3. CASE id \in me.rows
      BY <1>7, <1>8, <1>11, <2>1, <2>2, <3>3
    <3>4. QED
      BY <1>1, <3>1, <3>2, <3>3
  <2>5. QED
    BY <2>3, <2>4
<1>17. DeletedAsTold'
  <2>1. \A id \in erased' : Cleared(id)'
    BY <1>9, ToldIsCleared DEF IInv
  <2>2. QED
    BY <2>1 DEF DeletedAsTold, Cleared
<1>18. DeletedHaveNone' /\ \A u \in Users : UserSound(u)'
  <2>1. tables'["session_history"] \subseteq tables["session_history"]
    BY Typed
  <2>2. QED
    BY <2>1 DEF IInv, DeletedHaveNone, Remaining, UserSound
<1>19. QED
  BY <1>13, <1>14, <1>15, <1>16, <1>17, <1>18 DEF IInv

LEMMA DeleteFromTableStep ==
  ASSUME IInv, NEW r \in Requests, DeleteFromTable(r)
  PROVE  IInv'
<1>1. PICK me \in RequestState : me = request[r] /\ me.pc = "rows"
  BY Typed DEF DeleteFromTable
<1>2. PICK t \in DOMAIN tables : t = Tables[me.at]
  BY Typed, TableNames DEF RequestState
<1>3. /\ tables' = [tables EXCEPT ![t] = @ \ me.rows]
      /\ torn' = torn \cup {writer[w].id : w \in {w \in Writers : writer[w].id \in me.rows}}
      /\ NextTable(r, TRUE)
      /\ UNCHANGED <<users, owner, writer, erased, beside, failed, given_up>>
  BY <1>1, <1>2 DEF DeleteFromTable
<1>4. /\ tables' \in [DOMAIN tables -> SUBSET Rows]
      /\ \A x \in DOMAIN tables : tables'[x] = IF x = t THEN tables[t] \ me.rows ELSE tables[x]
  BY <1>3, Typed DEF IInv, TypeOK
<1>5. torn' \subseteq Rows /\ failed' \subseteq Rows /\ given_up' \subseteq Rows
  BY <1>3, Typed DEF RequestState
<1>6. \A w \in Writers : writer[w].id \notin me.rows \/ writer[w].id \in torn'
  BY <1>3
<1>7. torn \subseteq torn'
  BY <1>3
<1>8. QED
  BY <1>1, <1>2, <1>3, <1>4, <1>5, <1>6, <1>7, AttemptStep

LEMMA RaiseStep ==
  ASSUME IInv, NEW r \in Requests, Raise(r)
  PROVE  IInv'
<1>1. UNCHANGED <<users, tables, owner, log, writer, erased, beside, torn, given_up>>
  BY DEF Raise, log
<1>2. CASE request[r].pc = "rows"
  <2>1. /\ request[r] \in RequestState
        /\ failed' = failed \cup request[r].rows /\ NextTable(r, FALSE)
    BY <1>2, Typed DEF Raise
  <2>2. tables' \in [DOMAIN tables -> SUBSET Rows]
    BY <1>1 DEF IInv, TypeOK
  <2>3. torn' \subseteq Rows /\ failed' \subseteq Rows /\ given_up' \subseteq Rows
    BY <1>1, <2>1, Typed DEF RequestState
  <2>4. QED
    BY <1>1, <1>2, <2>1, <2>2, <2>3, AttemptStep
<1>3. CASE request[r].pc # "rows"
  BY <1>1, <1>3, UnmarkedStep DEF Raise
<1>4. QED
  BY <1>2, <1>3

LEMMA GiveUpStep ==
  ASSUME IInv, NEW r \in Requests, GiveUp(r)
  PROVE  IInv'
<1>1. UNCHANGED <<users, tables, owner, log, writer, erased, beside, torn, failed>>
  BY DEF GiveUp, log
<1>2. CASE request[r].pc = "rows"
  <2>1. /\ request[r] \in RequestState
        /\ given_up' = given_up \cup request[r].rows /\ NextTable(r, TRUE)
    BY <1>2, Typed DEF GiveUp
  <2>2. tables' \in [DOMAIN tables -> SUBSET Rows]
    BY <1>1 DEF IInv, TypeOK
  <2>3. torn' \subseteq Rows /\ failed' \subseteq Rows /\ given_up' \subseteq Rows
    BY <1>1, <2>1, Typed DEF RequestState
  <2>4. QED
    BY <1>1, <1>2, <2>1, <2>2, <2>3, AttemptStep
<1>3. CASE request[r].pc # "rows"
  BY <1>1, <1>3, UnmarkedStep DEF GiveUp
<1>4. QED
  BY <1>2, <1>3
-----------------------------------------------------------------------------
(* The steps that change what is known of a user. *)

LEMMA MarkStep ==
  ASSUME IInv, NEW r \in Requests, Mark(r)
  PROVE  IInv'
<1>1. PICK me \in RequestState :
        me = request[r] /\ me.pc = "mark" /\ me.at = 1 /\ RequestSound(me)
  BY Typed DEF Mark, IInv, RequestSound
<1>2. PICK u : u = me.user
  OBVIOUS
<1>3. /\ users' = [users EXCEPT ![u] = [deleted |-> TRUE, keep |-> FALSE, again |-> FALSE]]
      /\ writer' = [w \in Writers |-> IF writer[w].user = u THEN [writer[w] EXCEPT !.crossed = TRUE]
                                      ELSE writer[w]]
      /\ request' = [request EXCEPT ![r].pc = "user"]
      /\ UNCHANGED <<tables, owner, erased, beside, torn, failed, given_up>>
  BY <1>1, <1>2 DEF Mark, Hidden, log, aux
<1>4. Rows' = Rows
  BY <1>3 DEF Rows
<1>5. PICK q : q = [me EXCEPT !.pc = "user"]
  OBVIOUS
<1>6. /\ q \in RequestState /\ q.pc = "user" /\ q.at = 1
      /\ q.claimed = me.claimed /\ q.ok = me.ok
  BY <1>1, <1>5 DEF RequestState
<1>7. \A s \in Requests : request'[s] = IF s = r THEN q ELSE request[s]
  BY <1>1, <1>3, <1>5 DEF IInv, TypeOK
<1>8. TypeOK'
  <2>1. users' \in [Users -> [deleted : BOOLEAN, keep : BOOLEAN, again : BOOLEAN]]
    BY <1>3 DEF IInv, TypeOK
  <2>2. writer' \in [Writers -> WriterState]
    <3>1. \A w \in Writers : [writer[w] EXCEPT !.crossed = TRUE] \in WriterState
      BY Typed DEF WriterState
    <3>2. QED
      BY <1>3, <3>1, Typed
  <2>3. request' \in [Requests -> RequestState]
    <3>1. request' = [request EXCEPT ![r] = q]
      BY <1>1, <1>3, <1>5 DEF IInv, TypeOK
    <3>2. QED
      BY <1>6, <3>1 DEF IInv, TypeOK, RequestState
  <2>4. (writer \in [Writers -> WriterState])' /\ (request \in [Requests -> RequestState])'
    BY <1>4, <2>2, <2>3 DEF WriterState, RequestState
  <2>5. (owner \in Seq(Users))' /\ (tables \in [{"session_history"} \cup Details -> SUBSET Rows])'
    BY <1>3, <1>4 DEF IInv, TypeOK
  <2>6. ({erased, beside, torn, failed, given_up} \subseteq SUBSET Rows)'
    BY <1>3, <1>4 DEF IInv, TypeOK
  <2>7. QED
    BY <2>1, <2>4, <2>5, <2>6 DEF TypeOK, WriterState, RequestState
<1>9. \A v \in Users : users'[v] = IF v = u THEN [deleted |-> TRUE, keep |-> FALSE, again |-> FALSE]
                                   ELSE users[v]
  BY <1>3 DEF IInv, TypeOK
<1>10. \A w \in Writers : WriterSound(writer[w])'
  <2>1. SUFFICES ASSUME NEW w \in Writers PROVE WriterSound(writer[w])'
    OBVIOUS
  <2>2. /\ writer'[w].pc = writer[w].pc /\ writer'[w].user = writer[w].user
        /\ writer'[w].id = writer[w].id
        /\ writer'[w].crossed = (writer[w].user = u \/ writer[w].crossed)
    BY <1>3, Typed DEF WriterState
  <2>3. WriterSound(writer[w])
    BY DEF IInv
  <2>4. QED
    BY <1>3, <1>4, <1>9, <2>2, <2>3 DEF WriterSound
<1>11. /\ \A p \in RequestState : RequestSound(p) => RequestSound(p)'
       /\ \A id : Cleared(id) => Cleared(id)'
  BY <1>3, Shrinks
<1>12. \A s \in Requests : RequestSound(request[s])'
  <2>1. SUFFICES ASSUME NEW s \in Requests PROVE RequestSound(request[s])'
    OBVIOUS
  <2>2. RequestSound(q)
    BY <1>1, <1>6, Between DEF RequestSound, ClaimSound
  <2>3. PICK x \in RequestState : x = request'[s] /\ RequestSound(x)
    BY <1>6, <1>7, <2>2, Typed DEF IInv
  <2>4. RequestSound(x)'
    BY <1>11, <2>3
  <2>5. QED
    BY <2>3, <2>4
<1>13. \A v \in Users : UserSound(v)'
  BY <1>9 DEF IInv, UserSound
<1>14. NoOrphans'
  <2>1. \A id : (\E s \in Requests : request[s].pc = "rows" /\ id \in request[s].rows)
          => \E s \in Requests : request'[s].pc = "rows" /\ id \in request'[s].rows
    BY <1>1, <1>7
  <2>2. QED
    BY <1>3, <2>1 DEF IInv, NoOrphans
<1>15. DeletedAsTold'
  BY <1>3 DEF IInv, DeletedAsTold
<1>16. DeletedHaveNone'
  <2>1. SUFFICES ASSUME NEW v \in Numeric, users'[v].deleted,
                        NEW id \in tables["session_history"], owner[id] = v
                 PROVE  id \in beside \cup failed \cup given_up
    BY <1>3 DEF DeletedHaveNone, Remaining
  <2>2. CASE v = u
    BY <1>1, <1>2, <2>1, <2>2 DEF RequestSound, SelectSound
  <2>3. CASE v # u
    <3>1. users[v].deleted
      BY <1>9, <2>1, <2>3, ConstantsAssumption
    <3>2. QED
      BY <2>1, <3>1 DEF IInv, DeletedHaveNone, Remaining
  <2>4. QED
    BY <2>2, <2>3
<1>17. QED
  BY <1>8, <1>10, <1>12, <1>13, <1>14, <1>15, <1>16 DEF IInv

LEMMA UsersStep ==
  ASSUME IInv, UNCHANGED <<tables, owner, writer, request, aux>>,
         users' \in [Users -> [deleted : BOOLEAN, keep : BOOLEAN, again : BOOLEAN]],
         \A u \in Users : users'[u].deleted => users[u].deleted,
         \A u \in Users : UserSound(u)'
  PROVE  IInv'
<1>1. Rows' = Rows /\ UNCHANGED <<erased, beside, torn, failed, given_up>>
  BY DEF Rows, aux
<1>2. TypeOK'
  BY <1>1 DEF IInv, TypeOK
<1>3. \A w \in Writers : WriterSound(writer[w])'
  BY <1>1 DEF IInv, WriterSound
<1>4. \A r \in Requests : RequestSound(request[r])'
  BY <1>1 DEF IInv, RequestSound, DoneSound, ClaimSound, Cleared, SelectSound
<1>5. NoOrphans' /\ DeletedAsTold'
  BY <1>1 DEF IInv, NoOrphans, DeletedAsTold
<1>6. DeletedHaveNone'
  BY <1>1, ConstantsAssumption DEF IInv, DeletedHaveNone, Remaining
<1>7. QED
  BY <1>2, <1>3, <1>4, <1>5, <1>6 DEF IInv

LEMMA UndeleteStep ==
  ASSUME IInv, NEW u \in Users, Undelete(u)
  PROVE  IInv'
<1>1. /\ users' \in [Users -> [deleted : BOOLEAN, keep : BOOLEAN, again : BOOLEAN]]
      /\ \A v \in Users : users'[v] = IF v = u THEN Present ELSE users[v]
  BY DEF Undelete, IInv, TypeOK, Present
<1>2. \A v \in Users : (users'[v].deleted => users[v].deleted) /\ UserSound(v)'
  BY <1>1 DEF IInv, UserSound, Present
<1>3. QED
  BY <1>1, <1>2, UsersStep DEF Undelete, log

LEMMA EditUserStep ==
  ASSUME IInv, NEW u \in Users, NEW keep \in BOOLEAN, EditUser(u, keep)
  PROVE  IInv'
<1>1. PICK x : x = [users[u] EXCEPT !.keep = keep, !.again = @ \/ (keep /\ users[u].deleted)]
  OBVIOUS
<1>2. users[u] \in [deleted : BOOLEAN, keep : BOOLEAN, again : BOOLEAN]
  BY DEF IInv, TypeOK
<1>3. /\ x \in [deleted : BOOLEAN, keep : BOOLEAN, again : BOOLEAN]
      /\ x.deleted = users[u].deleted /\ (x.keep <=> keep)
      /\ x.again <=> users[u].again \/ (keep /\ users[u].deleted)
  BY <1>1, <1>2
<1>4. users' = [users EXCEPT ![u] = x]
  BY <1>1 DEF EditUser, IInv, TypeOK
<1>5. /\ users' \in [Users -> [deleted : BOOLEAN, keep : BOOLEAN, again : BOOLEAN]]
      /\ \A v \in Users : users'[v] = IF v = u THEN x ELSE users[v]
  BY <1>3, <1>4 DEF IInv, TypeOK
<1>6. \A v \in Users : (users'[v].deleted => users[v].deleted) /\ UserSound(v)'
  BY <1>3, <1>5 DEF IInv, UserSound
<1>7. QED
  BY <1>5, <1>6, UsersStep DEF EditUser, log
-----------------------------------------------------------------------------
(* The steps of write_session_history. *)

LEMMA WriterStep ==
  ASSUME IInv, NEW w \in Writers, NEW s \in WriterState,
         writer' = [writer EXCEPT ![w] = s], WriterSound(s),
         UNCHANGED <<users, log, request, aux>>
  PROVE  IInv'
<1>1. UNCHANGED <<tables, owner, erased, beside, torn, failed, given_up>> /\ Rows' = Rows
  BY DEF log, aux, Rows
<1>2. TypeOK'
  <2>1. (writer \in [Writers -> WriterState])'
    BY <1>1 DEF IInv, TypeOK, WriterState
  <2>2. QED
    BY <1>1, <2>1 DEF IInv, TypeOK, WriterState
<1>3. \A x \in Writers : WriterSound(writer[x])'
  <2>1. SUFFICES ASSUME NEW x \in Writers PROVE WriterSound(writer[x])'
    OBVIOUS
  <2>2. PICK y : y = writer'[x] /\ WriterSound(y)
    BY DEF IInv, TypeOK
  <2>3. WriterSound(y)'
    BY <1>1, <2>2 DEF WriterSound
  <2>4. QED
    BY <2>2, <2>3
<1>4. \A r \in Requests : RequestSound(request[r])'
  BY <1>1 DEF IInv, RequestSound, DoneSound, ClaimSound, Cleared, SelectSound
<1>5. \A u \in Users : UserSound(u)'
  BY DEF IInv, UserSound
<1>6. NoOrphans' /\ DeletedAsTold' /\ DeletedHaveNone'
  BY <1>1 DEF IInv, NoOrphans, DeletedAsTold, DeletedHaveNone, Remaining
<1>7. QED
  BY <1>2, <1>3, <1>4, <1>5, <1>6 DEF IInv

LEMMA BeginStep ==
  ASSUME IInv, NEW w \in Writers, NEW u \in Users, Begin(w, u)
  PROVE  IInv'
<1>1. PICK s : s = [NotWriting EXCEPT !.pc = "insert", !.user = u, !.crossed = users[u].again]
  OBVIOUS
<1>2. users[u].again \in BOOLEAN
  BY DEF IInv, TypeOK
<1>3. s \in WriterState /\ s.pc = "insert" /\ s.user = u /\ s.crossed = users[u].again
  BY <1>1, <1>2, IdleStates DEF WriterState
<1>4. WriterSound(s)
  BY <1>3 DEF Begin, IInv, UserSound, WriterSound
<1>5. QED
  BY <1>1, <1>3, <1>4, WriterStep DEF Begin

LEMMA AbortStep ==
  ASSUME IInv, NEW w \in Writers, Abort(w)
  PROVE  IInv'
<1>1. WriterSound(NotWriting)
  BY IdleStates DEF WriterSound
<1>2. QED
  BY <1>1, IdleStates, WriterStep DEF Abort

LEMMA InsertStep ==
  ASSUME IInv, NEW w \in Writers, Insert(w)
  PROVE  IInv'
<1>1. PICK me \in WriterState : me = writer[w] /\ me.pc = "insert" /\ WriterSound(me)
  BY Typed DEF Insert, IInv
<1>2. PICK id : id = Len(owner) + 1
  OBVIOUS
<1>3. /\ owner' = Append(owner, me.user)
      /\ tables' = [tables EXCEPT !["session_history"] = @ \cup {id}]
      /\ writer' = [writer EXCEPT ![w].pc = "media_info", ![w].id = id]
      /\ beside' = IF PastSelect(me.user) \/ me.crossed THEN beside \cup {id} ELSE beside
      /\ UNCHANGED <<users, request, erased, torn, failed, given_up>>
  BY <1>1, <1>2 DEF Insert
<1>4. me.user \in Users
  BY <1>1 DEF WriterSound
<1>5. /\ owner' \in Seq(Users) /\ Len(owner') = Len(owner) + 1
      /\ \A x \in Rows : owner'[x] = owner[x]
      /\ owner'[id] = me.user
  BY <1>2, <1>3, <1>4 DEF IInv, TypeOK, Rows
<1>6. Rows' = Rows \cup {id} /\ id \notin Rows
  BY <1>2, <1>5, Typed DEF Rows
<1>7. /\ DOMAIN tables' = DOMAIN tables
      /\ tables'["session_history"] = tables["session_history"] \cup {id}
      /\ \A t \in DOMAIN tables : t # "session_history" => tables'[t] = tables[t]
      /\ \A t \in DOMAIN tables : \A x \in Rows : x \in tables'[t] <=> x \in tables[t]
  BY <1>3, <1>6, Typed
<1>8. PICK s : s = [me EXCEPT !.pc = "media_info", !.id = id]
  OBVIOUS
<1>9. \A x \in Writers : writer'[x] = IF x = w THEN s ELSE writer[x]
  BY <1>1, <1>3, <1>8 DEF IInv, TypeOK
<1>10. s.pc = "media_info" /\ s.user = me.user /\ s.id = id /\ s.crossed = me.crossed
  BY <1>8 DEF WriterState
<1>11. TypeOK'
  <2>1. tables' \in [{"session_history"} \cup Details -> SUBSET (Rows \cup {id})]
    <3>1. tables \in [{"session_history"} \cup Details -> SUBSET (Rows \cup {id})]
      BY DEF IInv, TypeOK
    <3>2. QED
      BY <1>3, <3>1
  <2>2. (writer \in [Writers -> WriterState])'
    <3> DEFINE NewState ==
          [pc : {"idle", "insert", "media_info", "metadata"}, user : Users \cup {NoUser},
           id : (Rows \cup {id}) \cup {0}, crossed : BOOLEAN]
    <3>1. \A x \in Writers : writer'[x] \in NewState
      <4>1. /\ \A x \in Writers : writer[x] \in NewState
            /\ me \in NewState /\ id \in (Rows \cup {id}) \cup {0}
        BY <1>1, Typed DEF WriterState
      <4>2. s \in NewState
        BY <1>8, <4>1
      <4>3. QED
        BY <1>9, <4>1, <4>2
    <3>2. writer' = [x \in Writers |-> writer'[x]]
      BY <1>3 DEF IInv, TypeOK
    <3>3. QED
      BY <1>6, <3>1, <3>2 DEF WriterState
  <2>3. (request \in [Requests -> RequestState])'
    <3>1. \A r \in Requests : request[r] \in RequestState'
      BY <1>6, Typed DEF RequestState
    <3>2. request = [r \in Requests |-> request[r]]
      BY DEF IInv, TypeOK
    <3>3. QED
      BY <1>3, <3>1, <3>2
  <2>4. ({erased, beside, torn, failed, given_up} \subseteq SUBSET Rows)'
    BY <1>3, <1>6, Typed
  <2>5. (users \in [Users -> [deleted : BOOLEAN, keep : BOOLEAN, again : BOOLEAN]])'
    BY <1>3 DEF IInv, TypeOK
  <2>6. QED
    BY <1>5, <1>6, <2>1, <2>2, <2>3, <2>4, <2>5 DEF TypeOK, WriterState, RequestState
<1>12. \A x \in Writers : WriterSound(writer[x])'
  <2>1. SUFFICES ASSUME NEW x \in Writers PROVE WriterSound(writer[x])'
    OBVIOUS
  <2>2. WriterSound(s)'
    BY <1>1, <1>3, <1>6, <1>7, <1>10 DEF WriterSound
  <2>3. \A y \in WriterState : WriterSound(y) => WriterSound(y)'
    BY <1>3, <1>6, <1>7 DEF WriterSound
  <2>4. PICK y : y = writer'[x] /\ WriterSound(y)'
    BY <1>9, <2>2, <2>3, Typed DEF IInv
  <2>5. QED
    BY <2>4
<1>13. \A x \in Rows : Cleared(x) => Cleared(x)'
  BY <1>3, <1>7 DEF Cleared
<1>14. \A r \in Requests : RequestSound(request[r])'
  <2>1. SUFFICES ASSUME NEW r \in Requests, NEW q \in RequestState, q = request[r],
                        RequestSound(q)
                 PROVE  RequestSound(q)'
    BY <1>3, Typed DEF IInv
  <2>2. (q.pc # "rows" => q.at = 1)' /\ q.rows \subseteq Rows /\ q.claimed \subseteq Rows
    BY <2>1 DEF RequestSound, RequestState
  <2>3. DoneSound(q)'
    <3>1. \A k \in 1 .. q.at - 1 : Tables[k] \in DOMAIN tables
      BY Typed, TableNames DEF RequestState
    <3>2. QED
      BY <1>3, <1>7, <2>1, <2>2, <3>1 DEF RequestSound, DoneSound
  <2>4. ClaimSound(q)'
    BY <1>13, <2>1, <2>2 DEF RequestSound, ClaimSound
  <2>5. SelectSound(q)'
    <3>1. SUFFICES ASSUME q.pc \in {"rows", "mark"}, q.user \in Numeric,
                          NEW x \in tables'["session_history"], owner'[x] = q.user
                   PROVE  \/ x \in beside' \cup failed' \cup given_up'
                          \/ q.pc = "rows" /\ x \in q.rows
      BY DEF SelectSound
    <3>2. CASE x = id
      <4>1. PastSelect(me.user)
        BY <1>5, <2>1, <3>1, <3>2 DEF PastSelect
      <4>2. QED
        BY <1>3, <3>2, <4>1
    <3>3. CASE x # id
      <4>1. x \in tables["session_history"] /\ owner[x] = q.user
        BY <1>5, <1>7, <3>1, <3>3, Typed
      <4>2. QED
        BY <1>3, <2>1, <3>1, <4>1 DEF RequestSound, SelectSound
    <3>4. QED
      BY <3>2, <3>3
  <2>6. QED
    BY <2>2, <2>3, <2>4, <2>5 DEF RequestSound
<1>15. \A u \in Users : UserSound(u)'
  BY <1>3 DEF IInv, UserSound
<1>16. NoOrphans'
  BY <1>3, <1>7, Typed, TableNames DEF IInv, NoOrphans
<1>17. DeletedAsTold'
  <2>1. \A x \in erased' : Cleared(x)'
    BY <1>3, <1>13, Typed, ToldIsCleared DEF IInv
  <2>2. QED
    BY <2>1 DEF DeletedAsTold, Cleared
<1>18. DeletedHaveNone'
  <2>1. SUFFICES ASSUME NEW u \in Numeric, users[u].deleted,
                        NEW x \in tables'["session_history"], owner'[x] = u
                 PROVE  x \in beside' \cup failed' \cup given_up'
    BY <1>3 DEF DeletedHaveNone, Remaining
  <2>2. CASE x = id
    BY <1>1, <1>3, <1>5, <2>1, <2>2 DEF WriterSound
  <2>3. CASE x # id
    <3>1. x \in tables["session_history"] /\ owner[x] = u
      BY <1>5, <1>7, <2>1, <2>3, Typed
    <3>2. QED
      BY <1>3, <2>1, <3>1 DEF IInv, DeletedHaveNone, Remaining
  <2>4. QED
    BY <2>2, <2>3
<1>19. QED
  BY <1>11, <1>12, <1>14, <1>15, <1>16, <1>17, <1>18 DEF IInv

\* The media info or the metadata of a play.
LEMMA DetailStep ==
  ASSUME IInv, NEW w \in Writers, writer[w].pc \in {"media_info", "metadata"},
         NEW t \in Details, NEW s \in WriterState, WriterSound(s),
         tables' = [tables EXCEPT ![t] = @ \cup {writer[w].id}],
         writer' = [writer EXCEPT ![w] = s],
         UNCHANGED <<users, owner, request, aux>>
  PROVE  IInv'
<1>1. PICK id \in Rows : id = writer[w].id /\ (id \in tables["session_history"] \/ id \in torn)
  BY DEF IInv, WriterSound
<1>2. UNCHANGED <<erased, beside, torn, failed, given_up>> /\ Rows' = Rows
  BY DEF aux, Rows
<1>3. /\ DOMAIN tables' = DOMAIN tables
      /\ tables'["session_history"] = tables["session_history"]
      /\ tables'[t] = tables[t] \cup {id}
      /\ \A x \in DOMAIN tables : x # t => tables'[x] = tables[x]
  BY <1>1, Typed, TableNames
<1>4. TypeOK'
  <2>1. tables' \in [{"session_history"} \cup Details -> SUBSET Rows]
    BY <1>1 DEF IInv, TypeOK
  <2>2. (writer \in [Writers -> WriterState])'
    BY <1>2 DEF IInv, TypeOK, WriterState
  <2>3. QED
    BY <1>2, <2>1, <2>2 DEF IInv, TypeOK, WriterState
<1>5. \A x \in Writers : WriterSound(writer[x])'
  <2>1. SUFFICES ASSUME NEW x \in Writers PROVE WriterSound(writer[x])'
    OBVIOUS
  <2>2. PICK y : y = writer'[x] /\ WriterSound(y)
    BY DEF IInv, TypeOK
  <2>3. WriterSound(y)'
    BY <1>2, <1>3, <2>2 DEF WriterSound
  <2>4. QED
    BY <2>2, <2>3
<1>6. \A x : Cleared(x) => Cleared(x)'
  <2>1. SUFFICES ASSUME NEW x, Cleared(x), NEW y \in DOMAIN tables, x \in tables'[y]
                 PROVE  x \in given_up \/ (y \in Details /\ x \in torn)
    BY <1>2, <1>3 DEF Cleared
  <2>2. CASE x \in tables[y]
    BY <2>1, <2>2 DEF Cleared
  <2>3. CASE x \notin tables[y]
    <3>1. y = t /\ x = id
      BY <1>3, <2>1, <2>3
    <3>2. id \in tables["session_history"] => id \in given_up
      BY <2>1, <3>1, Typed, TableNames DEF Cleared
    <3>3. QED
      BY <1>1, <3>1, <3>2
  <2>4. QED
    BY <2>2, <2>3
<1>7. \A r \in Requests : RequestSound(request[r])'
  <2>1. SUFFICES ASSUME NEW r \in Requests, NEW q \in RequestState, q = request[r],
                        RequestSound(q)
                 PROVE  RequestSound(q)'
    BY Typed DEF IInv
  <2>2. DoneSound(q)'
    <3>1. SUFFICES ASSUME q.pc = "rows", NEW k \in 1 .. q.at - 1, NEW x \in q.rows,
                          x \in tables'[Tables[k]]
                   PROVE  x \in given_up \/ (k > 1 /\ x \in torn) \/ (~q.ok /\ x \in failed)
      BY <1>2 DEF DoneSound
    <3>2. k \in 1 .. 3 /\ 1 \in 1 .. q.at - 1 /\ (k = 1 \/ k > 1)
      BY DEF RequestState
    <3>3. CASE x \in tables[Tables[k]]
      BY <2>1, <3>1, <3>3 DEF RequestSound, DoneSound
    <3>4. CASE x \notin tables[Tables[k]]
      <4>1. Tables[k] = t /\ x = id
        BY <1>3, <3>1, <3>2, <3>4, Typed, TableNames
      <4>2. k > 1
        BY <3>2, <4>1, TableNames
      <4>3. id \in tables["session_history"] => id \in given_up \/ (~q.ok /\ id \in failed)
        BY <2>1, <3>1, <3>2, <4>1, TableNames DEF RequestSound, DoneSound
      <4>4. QED
        BY <1>1, <4>1, <4>2, <4>3
    <3>5. QED
      BY <3>3, <3>4
  <2>3. ClaimSound(q)'
    BY <1>6, <2>1 DEF RequestSound, ClaimSound
  <2>4. SelectSound(q)'
    BY <1>2, <1>3, <2>1 DEF RequestSound, SelectSound
  <2>5. QED
    BY <2>1, <2>2, <2>3, <2>4 DEF RequestSound
<1>8. \A u \in Users : UserSound(u)'
  BY DEF IInv, UserSound
<1>9. NoOrphans'
  <2>1. SUFFICES ASSUME NEW y \in Details, NEW x \in tables'[y],
                        x \notin tables["session_history"]
                 PROVE  \/ x \in torn \cup failed \cup given_up
                        \/ \E r \in Requests : request[r].pc = "rows" /\ x \in request[r].rows
    BY <1>2, <1>3 DEF NoOrphans
  <2>2. CASE x \in tables[y]
    BY <2>1, <2>2 DEF IInv, NoOrphans
  <2>3. CASE x \notin tables[y]
    BY <1>1, <1>3, <2>1, <2>3, Typed
  <2>4. QED
    BY <2>2, <2>3
<1>10. DeletedAsTold'
  <2>1. \A x \in erased' : Cleared(x)'
    BY <1>2, <1>6, ToldIsCleared DEF IInv
  <2>2. QED
    BY <2>1 DEF DeletedAsTold, Cleared
<1>11. DeletedHaveNone'
  BY <1>2, <1>3 DEF IInv, DeletedHaveNone, Remaining
<1>12. QED
  BY <1>4, <1>5, <1>7, <1>8, <1>9, <1>10, <1>11 DEF IInv

LEMMA WriteMediaInfoStep ==
  ASSUME IInv, NEW w \in Writers, WriteMediaInfo(w)
  PROVE  IInv'
<1>1. PICK me \in WriterState : me = writer[w] /\ me.pc = "media_info" /\ WriterSound(me)
  BY Typed DEF WriteMediaInfo, IInv
<1>2. PICK s : s = [me EXCEPT !.pc = "metadata"]
  OBVIOUS
<1>3. /\ s \in WriterState /\ s.pc = "metadata" /\ s.user = me.user
      /\ s.id = me.id /\ s.crossed = me.crossed
  BY <1>2 DEF WriterState
<1>4. WriterSound(s)
  BY <1>1, <1>3 DEF WriterSound
<1>5. writer' = [writer EXCEPT ![w] = s]
  BY <1>1, <1>2 DEF WriteMediaInfo, IInv, TypeOK
<1>6. QED
  BY <1>1, <1>3, <1>4, <1>5, DetailStep DEF WriteMediaInfo, Details

LEMMA WriteMetadataStep ==
  ASSUME IInv, NEW w \in Writers, WriteMetadata(w)
  PROVE  IInv'
<1>1. WriterSound(NotWriting)
  BY IdleStates DEF WriterSound
<1>2. QED
  BY <1>1, IdleStates, DetailStep DEF WriteMetadata, Details
-----------------------------------------------------------------------------
LEMMA RestartStep ==
  ASSUME IInv, Restart
  PROVE  IInv'
<1>1. /\ writer' = [w \in Writers |-> NotWriting]
      /\ request' = [r \in Requests |-> NoRequest]
      /\ failed' = failed \cup UNION {request[r].rows : r \in Requests}
      /\ UNCHANGED <<users, tables, owner, erased, beside, torn, given_up>>
  BY DEF Restart, log
<1>2. Rows' = Rows
  BY <1>1 DEF Rows
<1>3. TypeOK'
  <2>1. failed' \in SUBSET Rows
    BY <1>1, Typed DEF RequestState
  <2>2. ({erased, beside, torn, failed, given_up} \subseteq SUBSET Rows)'
    BY <1>1, <1>2, <2>1, Typed
  <2>3. writer' \in [Writers -> WriterState] /\ request' \in [Requests -> RequestState]
    BY <1>1, IdleStates
  <2>4. (writer \in [Writers -> WriterState])' /\ (request \in [Requests -> RequestState])'
    BY <1>2, <2>3 DEF WriterState, RequestState
  <2>5. QED
    BY <1>1, <1>2, <2>2, <2>4 DEF IInv, TypeOK, WriterState, RequestState
<1>4. \A w \in Writers : WriterSound(writer[w])'
  BY <1>1, IdleStates DEF WriterSound
<1>5. \A r \in Requests : RequestSound(request[r])'
  BY <1>1, IdleStates DEF RequestSound, DoneSound, ClaimSound, SelectSound
<1>6. \A u \in Users : UserSound(u)'
  BY <1>1 DEF IInv, UserSound
<1>7. NoOrphans'
  <2>1. \A id : (\E r \in Requests : request[r].pc = "rows" /\ id \in request[r].rows)
          => id \in failed'
    BY <1>1
  <2>2. QED
    BY <1>1, <2>1 DEF IInv, NoOrphans
<1>8. DeletedAsTold'
  BY <1>1 DEF IInv, DeletedAsTold
<1>9. DeletedHaveNone'
  BY <1>1 DEF IInv, DeletedHaveNone, Remaining
<1>10. QED
  BY <1>3, <1>4, <1>5, <1>6, <1>7, <1>8, <1>9 DEF IInv

LEMMA InitIInv == Init => IInv
<1>1. SUFFICES ASSUME Init PROVE IInv
  OBVIOUS
<1>2. Rows = {} /\ owner \in Seq(Users)
  BY <1>1 DEF Init, Rows
<1>3. \A t \in DOMAIN tables : tables[t] = {}
  BY <1>1 DEF Init
<1>4. TypeOK
  <2>1. writer \in [Writers -> WriterState] /\ request \in [Requests -> RequestState]
    BY <1>1, IdleStates DEF Init
  <2>2. users \in [Users -> [deleted : BOOLEAN, keep : BOOLEAN, again : BOOLEAN]]
    BY <1>1 DEF Init, Present
  <2>3. tables \in [{"session_history"} \cup Details -> SUBSET Rows]
    BY <1>1 DEF Init
  <2>4. {erased, beside, torn, failed, given_up} \subseteq SUBSET Rows
    BY <1>1 DEF Init
  <2>5. QED
    BY <1>2, <2>1, <2>2, <2>3, <2>4 DEF TypeOK, WriterState, RequestState
<1>5. \A w \in Writers : WriterSound(writer[w])
  BY <1>1, IdleStates DEF Init, WriterSound
<1>6. \A r \in Requests : RequestSound(request[r])
  BY <1>1, IdleStates DEF Init, RequestSound, DoneSound, ClaimSound, SelectSound
<1>7. \A u \in Users : UserSound(u)
  BY <1>1 DEF Init, UserSound, Present
<1>8. NoOrphans
  BY <1>1, <1>3 DEF Init, NoOrphans
<1>9. DeletedAsTold
  BY <1>3 DEF DeletedAsTold
<1>10. DeletedHaveNone
  BY <1>1 DEF Init, DeletedHaveNone
<1>11. QED
  BY <1>4, <1>5, <1>6, <1>7, <1>8, <1>9, <1>10 DEF IInv

LEMMA NextIInv == IInv /\ [Next]_vars => IInv'
<1>1. SUFFICES ASSUME IInv, [Next]_vars PROVE IInv'
  OBVIOUS
<1>2. CASE UNCHANGED vars
  <2>1. UNCHANGED <<tables, owner, writer, request, aux, users>>
    BY <1>2 DEF vars, log
  <2>2. \A u \in Users : UserSound(u)'
    BY <1>1, <2>1 DEF IInv, UserSound
  <2>3. users' \in [Users -> [deleted : BOOLEAN, keep : BOOLEAN, again : BOOLEAN]]
    BY <1>1, <2>1 DEF IInv, TypeOK
  <2>4. QED
    BY <1>1, <2>1, <2>2, <2>3, UsersStep
<1>3. ASSUME NEW w \in Writers,
             \/ \E u \in Users : Begin(w, u)
             \/ Insert(w) \/ WriteMediaInfo(w) \/ WriteMetadata(w) \/ Abort(w)
      PROVE  IInv'
  BY <1>1, <1>3, BeginStep, InsertStep, WriteMediaInfoStep, WriteMetadataStep, AbortStep
<1>4. ASSUME NEW r \in Requests,
             \E those \in (SUBSET Users) \ {{}}, purge \in BOOLEAN : DeleteUsers(r, those, purge)
      PROVE  IInv'
  BY <1>1, <1>4, DeleteUsersStep
<1>5. ASSUME NEW r \in Requests, NEW id \in Rows, DeleteRows(r, {id}) PROVE IInv'
  BY <1>1, <1>5, DeleteRowsStep
<1>6. ASSUME NEW r \in Requests, NEW u \in Users, TakeUser(r, u) PROVE IInv'
  BY <1>1, <1>6, TakeUserStep
<1>7. ASSUME NEW r \in Requests,
             Answer(r) \/ Select(r) \/ DeleteFromTable(r) \/ Mark(r) \/ Raise(r) \/ GiveUp(r)
      PROVE  IInv'
  BY <1>1, <1>7, AnswerStep, SelectStep, DeleteFromTableStep, MarkStep, RaiseStep, GiveUpStep
<1>8. ASSUME NEW u \in Users, Undelete(u) \/ \E keep \in BOOLEAN : EditUser(u, keep)
      PROVE  IInv'
  BY <1>1, <1>8, UndeleteStep, EditUserStep
<1>9. CASE Restart
  BY <1>1, <1>9, RestartStep
<1>10. QED
  BY <1>1, <1>2, <1>3, <1>4, <1>5, <1>6, <1>7, <1>8, <1>9 DEF Next

\* The invariant the properties rest on: what is left of the rows that a request
\* has deleted so far, and where the writers stand.
THEOREM Invariance == Spec => []IInv
  BY InitIInv, NextIInv, PTL DEF Spec

\* The tables hold ids that were inserted, whatever the requests do to them.
THEOREM TypeCorrect == Spec => []TypeOK
<1>1. IInv => TypeOK
  BY DEF IInv
<1>2. QED
  BY <1>1, Invariance, PTL

\* Details without their row of session_history are there only halfway through a
\* deletion, after one that failed, or when the writer was still at the row.
THEOREM OrphansExplained == Spec => []NoOrphans
<1>1. IInv => NoOrphans
  BY DEF IInv
<1>2. QED
  BY <1>1, Invariance, PTL

\* A request is told of a success only when every table lost its rows.
THEOREM ToldTheTruth == Spec => []DeletedAsTold
<1>1. IInv => DeletedAsTold
  BY DEF IInv
<1>2. QED
  BY <1>1, Invariance, PTL

\* A deleted user has no history but what Users.delete could not see or failed
\* to delete.
THEOREM NoneLeft == Spec => []DeletedHaveNone
<1>1. IInv => DeletedHaveNone
  BY DEF IInv
<1>2. QED
  BY <1>1, Invariance, PTL
=============================================================================
