------------------------------- MODULE Outbox -------------------------------
(***************************************************************************)
(* The durable outbox of hooks-teamwork: Journal.save puts a session's     *)
(* state and its outgoing rows in one SQLite transaction, Journal.flush    *)
(* sends the rows of one session head first and stops at the first         *)
(* failure, and replay_pending.py flushes every session of the file.       *)
(*                                                                         *)
(* Several flushes run at once: asyncio.to_thread starts a thread for each *)
(* flush and a cancelled wait leaves the thread running (await_answer), so *)
(* the next flush of the hook overlaps it; replay_pending.py is a process  *)
(* of its own; and several Amplifier sessions share the file of their      *)
(* credential.  A thread or process may die between any two steps, and a   *)
(* request it has sent may still arrive after the sender gave up.          *)
(*                                                                         *)
(* The service is external: it keys mutations by Idempotency-Key within a  *)
(* project and checks expected_version of a session record, as the hook    *)
(* assumes of it.                                                          *)
(***************************************************************************)
EXTENDS Naturals, Sequences

CONSTANTS
  Sessions,           \* shared sessions whose rows this journal file holds
  Projects,           \* projects of the service
  ProjectOf,          \* the project each session is bound to
  ConnectionProject,  \* project_id of the connection file given to replay
  Threads,            \* flush threads of the mounted hooks
  Replayers,          \* processes running replay_pending.py
  NoSession,          \* the session of a flusher at rest
  MaxReceipts,        \* bound: receipts one turn may queue
  MaxRows             \* bound: rows ever queued

ASSUME OutboxAssumption ==
  /\ ProjectOf \in [Sessions -> Projects]
  /\ ConnectionProject \in Projects
  /\ Threads \cap Replayers = {}
  /\ NoSession \notin Sessions
  /\ MaxReceipts \in Nat
  /\ MaxRows \in Nat

Flushers == Threads \cup Replayers

(* What the row's body says, as far as the service's answer depends on it. *)
Ops == {"session.upsert", "turn.upsert", "acknowledgement"}
Row == [session : Sessions, op : Ops, expected : Nat]

VARIABLES
  rows,       \* every row ever inserted; a row's index is its seq and its key
  outbox,     \* the seqs still in the outbox table
  version,    \* state.version of each session, as persisted
  pc,         \* where each flusher stands
  sess,       \* the session it flushes
  held,       \* the seq it selected
  todo,       \* the sessions replay_pending has still to flush
  wire,       \* requests whose sender gave up and that may still arrive
  stored,     \* per project, the keys the service has applied
  svcVersion  \* per project and session, the service's version of the record

journal == <<rows, outbox, version>>
threads == <<pc, sess, held, todo>>
service == <<wire, stored, svcVersion>>
vars == <<rows, outbox, version, pc, sess, held, todo, wire, stored, svcVersion>>

Steps == {"idle", "select", "request", "answered", "delete"}

TypeOK ==
  /\ rows \in Seq(Row)
  /\ outbox \subseteq DOMAIN rows
  /\ version \in [Sessions -> Nat]
  /\ pc \in [Flushers -> Steps]
  /\ sess \in [Flushers -> Sessions \cup {NoSession}]
  /\ held \in [Flushers -> Nat]
  /\ todo \in [Replayers -> SUBSET Sessions]
  /\ wire \subseteq (DOMAIN rows) \X Projects
  /\ stored \in [Projects -> SUBSET (DOMAIN rows)]
  /\ svcVersion \in [Projects -> [Sessions -> Nat]]

Init ==
  /\ rows = <<>>
  /\ outbox = {}
  /\ version = [s \in Sessions |-> 0]
  /\ pc = [f \in Flushers |-> "idle"]
  /\ sess = [f \in Flushers |-> NoSession]
  /\ held = [f \in Flushers |-> 0]
  /\ todo = [f \in Replayers |-> {}]
  /\ wire = {}
  /\ stored = [p \in Projects |-> {}]
  /\ svcVersion = [p \in Projects |-> [s \in Sessions |-> 0]]

-----------------------------------------------------------------------------
(* Vocabulary *)

(* The project a flusher's HTTPClient posts to: the hook pairs self.sid with
   self.client; replay_pending builds one client from the connection file. *)
ClientProject(f) ==
  IF f \in Threads THEN ProjectOf[sess[f]] ELSE ConnectionProject

Pending(s) == {r \in outbox : rows[r].session = s}
Applied == {r \in DOMAIN rows : \E p \in Projects : r \in stored[p]}
Earlier(r) == {q \in DOMAIN rows : q < r /\ rows[q].session = rows[r].session}

(* The service takes a session record only at its current version, and a
   turn or a receipt only once its session exists. *)
Acceptable(r, p) ==
  LET current == svcVersion[p][rows[r].session]
  IN  IF rows[r].op = "session.upsert"
      THEN rows[r].expected = current
      ELSE current > 0

-----------------------------------------------------------------------------
(* The producer: Journal.save *)

(* Mutant: one row more is promised than was inserted. *)
SavePromisesOneMore(batch) ==
  /\ Len(rows) + Len(batch) <= MaxRows
  /\ rows' = rows \o batch
  /\ outbox' = outbox \cup (Len(rows) + 1 .. Len(rows) + Len(batch) + 1)
  /\ UNCHANGED threads /\ UNCHANGED service

(* INSERT the rows and upsert the state in one transaction. *)
Save(batch) ==
  /\ Len(rows) + Len(batch) <= MaxRows
  /\ rows' = rows \o batch
  /\ outbox' = outbox \cup (Len(rows) + 1 .. Len(rows) + Len(batch))
  /\ UNCHANGED threads /\ UNCHANGED service

(* Mutant: the state saved keeps the version its row has used. *)
SaveSessionSameVersion(s) ==
  /\ Save(<<[session |-> s, op |-> "session.upsert", expected |-> version[s]]>>)
  /\ version' = [version EXCEPT ![s] = IF @ = 0 THEN 1 ELSE @]

(* ensure_session and _end_shared_session: the row carries the version read,
   the state saved with it carries the next one. *)
SaveSession(s) ==
  /\ Save(<<[session |-> s, op |-> "session.upsert", expected |-> version[s]]>>)
  /\ version' = [version EXCEPT ![s] = @ + 1]

(* finish: the turn's record, whose id is fresh.  Every caller has run
   ensure_session for the session before. *)
SaveTurn(s) ==
  /\ version[s] > 0
  /\ Save(<<[session |-> s, op |-> "turn.upsert", expected |-> 0]>>)
  /\ UNCHANGED version

(* on_submit: one receipt for each delivery, in one transaction. *)
SaveReceipts(s, n) ==
  /\ version[s] > 0
  /\ Save([i \in 1 .. n |->
             [session |-> s, op |-> "acknowledgement", expected |-> 0]])
  /\ UNCHANGED version

-----------------------------------------------------------------------------
(* The flushers: Journal.flush and the loop of replay_pending.main *)

Move(f, from, to) == pc[f] = from /\ pc' = [pc EXCEPT ![f] = to]

(* flush leaves, by returning or by raising: its locals are gone. *)
Leave(f) ==
  /\ pc' = [pc EXCEPT ![f] = "idle"]
  /\ sess' = [sess EXCEPT ![f] = NoSession]
  /\ held' = [held EXCEPT ![f] = 0]

Enter(f, s) ==
  /\ Move(f, "idle", "select")
  /\ sess' = [sess EXCEPT ![f] = s]
  /\ UNCHANGED held

(* A flush of session s starts in a thread of the hook. *)
FlushStart(f, s) ==
  /\ f \in Threads
  /\ Enter(f, s)
  /\ UNCHANGED todo /\ UNCHANGED journal /\ UNCHANGED service

(* SELECT DISTINCT session FROM outbox *)
ReplayBegin(f) ==
  /\ f \in Replayers /\ pc[f] = "idle" /\ todo[f] = {} /\ outbox # {}
  /\ todo' = [todo EXCEPT ![f] = {rows[r].session : r \in outbox}]
  /\ UNCHANGED <<pc, sess, held>> /\ UNCHANGED journal /\ UNCHANGED service

(* The next session of the list, whatever became of the one before. *)
ReplayNext(f, s) ==
  /\ f \in Replayers /\ s \in todo[f]
  /\ Enter(f, s)
  /\ todo' = [todo EXCEPT ![f] = @ \ {s}]
  /\ UNCHANGED journal /\ UNCHANGED service

(* Mutant: no ORDER BY. *)
SelectHeadUnordered(f) ==
  /\ Move(f, "select", "request")
  /\ \E r \in Pending(sess[f]) : held' = [held EXCEPT ![f] = r]
  /\ UNCHANGED <<sess, todo>> /\ UNCHANGED journal /\ UNCHANGED service

(* SELECT ... WHERE session=? ORDER BY seq LIMIT 1, read and released. *)
SelectHead(f) ==
  /\ Move(f, "select", "request")
  /\ \E r \in Pending(sess[f]) :
       /\ \A q \in Pending(sess[f]) : r <= q
       /\ held' = [held EXCEPT ![f] = r]
  /\ UNCHANGED <<sess, todo>> /\ UNCHANGED journal /\ UNCHANGED service

(* if not row: return *)
FlushReturn(f) ==
  /\ pc[f] = "select" /\ Pending(sess[f]) = {}
  /\ Leave(f)
  /\ UNCHANGED todo /\ UNCHANGED journal /\ UNCHANGED service

(* Mutant: deletes the head of the session instead of the row sent. *)
DeleteHead(f) ==
  /\ Move(f, "delete", "select")
  /\ outbox' = outbox \ {r \in Pending(sess[f]) : \A q \in Pending(sess[f]) : r <= q}
  /\ held' = [held EXCEPT ![f] = 0]
  /\ UNCHANGED <<rows, version, sess, todo>> /\ UNCHANGED service

(* DELETE FROM outbox WHERE seq=?, whether or not it is still there. *)
Delete(f) ==
  /\ Move(f, "delete", "select")
  /\ outbox' = outbox \ {held[f]}
  /\ held' = [held EXCEPT ![f] = 0]
  /\ UNCHANGED <<rows, version, sess, todo>> /\ UNCHANGED service

-----------------------------------------------------------------------------
(* The service and the network (external) *)

(* First arrival of a key applies the row; a repeat changes nothing. *)
Apply(r, p) ==
  IF r \in stored[p]
  THEN UNCHANGED <<stored, svcVersion>>
  ELSE /\ Acceptable(r, p)
       /\ stored' = [stored EXCEPT ![p] = @ \cup {r}]
       /\ svcVersion' =
            IF rows[r].op = "session.upsert"
            THEN [svcVersion EXCEPT ![p][rows[r].session] = @ + 1]
            ELSE svcVersion

(* The service accepts the request; its answer is on the way back. *)
Accept(f) ==
  /\ Move(f, "request", "answered")
  /\ Apply(held[f], ClientProject(f))
  /\ UNCHANGED <<sess, held, todo, wire>> /\ UNCHANGED journal

(* client.request returns. *)
Answer(f) ==
  /\ Move(f, "answered", "delete")
  /\ UNCHANGED <<sess, held, todo>> /\ UNCHANGED journal /\ UNCHANGED service

(* The request is lost, or is still under way when its sender gives up. *)
Abandon(f) ==
  \/ UNCHANGED wire
  \/ /\ pc[f] = "request"
     /\ wire' = wire \cup {<<held[f], ClientProject(f)>>}

(* Mutant: a row that failed is dropped so that the others can go on. *)
RequestFailDrops(f) ==
  /\ pc[f] \in {"request", "answered"}
  /\ outbox' = outbox \ {held[f]}
  /\ Leave(f) /\ Abandon(f)
  /\ UNCHANGED <<rows, version, todo, stored, svcVersion>>

(* SyncError: the service refuses, no answer comes, or none in 30 s.  flush
   raises with the row still at the head of its session. *)
RequestFail(f) ==
  /\ pc[f] \in {"request", "answered"}
  /\ Leave(f) /\ Abandon(f)
  /\ UNCHANGED <<todo, stored, svcVersion>> /\ UNCHANGED journal

(* The thread dies with its process, or SQLite raises out of flush. *)
Die(f) ==
  /\ pc[f] # "idle"
  /\ Leave(f) /\ Abandon(f)
  /\ todo' = [g \in Replayers |-> IF g = f THEN {} ELSE todo[g]]
  /\ UNCHANGED <<stored, svcVersion>> /\ UNCHANGED journal

(* A request nobody waits for any more arrives. *)
LateArrival(r, p) ==
  /\ <<r, p>> \in wire
  /\ wire' = wire \ {<<r, p>>}
  /\ Apply(r, p)
  /\ UNCHANGED threads /\ UNCHANGED journal

-----------------------------------------------------------------------------
Produce(s) ==
  \/ SaveSession(s)
  \/ SaveTurn(s)
  \/ \E n \in 1 .. MaxReceipts : SaveReceipts(s, n)

Flush(f) ==
  \/ \E s \in Sessions : FlushStart(f, s) \/ ReplayNext(f, s)
  \/ ReplayBegin(f)
  \/ SelectHead(f) \/ FlushReturn(f) \/ Delete(f)

Network(f) == Accept(f) \/ Answer(f) \/ RequestFail(f) \/ Die(f)

Next ==
  \/ \E s \in Sessions : Produce(s)
  \/ \E f \in Flushers : Flush(f) \/ Network(f)
  \/ \E r \in DOMAIN rows, p \in Projects : LateArrival(r, p)

Spec == Init /\ [][Next]_vars

(* A flush ends.  Its thread runs on until it returns or raises, SQLite
   answers or times out, and the HTTP client waits 30 s and no longer. *)
FlushFairness(f) ==
  /\ WF_vars(SelectHead(f) \/ FlushReturn(f) \/ Delete(f))
  /\ WF_vars(Network(f))

(* An environment that recovers: each session is flushed again and again (the
   hook does at every turn boundary), and no step of those flushes fails for
   ever: neither SQLite, nor the network, nor the service. *)
Recovery(f) ==
  /\ \A s \in Sessions : SF_vars(FlushStart(f, s))
  /\ SF_vars(SelectHead(f)) /\ SF_vars(Delete(f))
  /\ SF_vars(Accept(f)) /\ SF_vars(Answer(f))

FairSpec == Spec /\ \A f \in Flushers : FlushFairness(f)
RecoverySpec == FairSpec /\ \A f \in Threads : Recovery(f)

-----------------------------------------------------------------------------
(* Properties *)

(* Nothing is silently dropped: a row Journal.save has inserted stays in the
   table until the service has applied it, whatever fails in between.  So a
   flush that returns normally leaves every row of its session in effect,
   which on_submit relies on before it reports presence. *)
NothingLost == \A r \in DOMAIN rows : r \in outbox \/ r \in Applied

(* The requests the service may still receive. *)
InFlight ==
  wire \cup {<<held[f], ClientProject(f)>> : f \in {g \in Flushers : pc[g] = "request"}}

(* No flush ever provokes a version conflict, nor publishes a turn before
   its session: of all the requests in flight, whoever sent them and however
   late they arrive, those the service has not applied yet it can take. *)
NoConflict ==
  \A req \in InFlight :
    req[1] \in stored[req[2]] \/ Acceptable(req[1], req[2])

(* A journal with nothing left to send for a session agrees with the service
   on the session's version. *)
CaughtUp ==
  \A s \in Sessions :
    Pending(s) = {} => svcVersion[ProjectOf[s]][s] = version[s]

(* Rows are never re-attributed: the service holds a session's rows under no
   project but the one the session is bound to (README, "Move this session
   to project Y"). *)
NotReattributed ==
  \A p \in Projects : \A r \in stored[p] : ProjectOf[rows[r].session] = p

(* The outbox is a first-in first-out channel of each session, with every
   row taking effect once. *)
Fifo == INSTANCE FifoDelivery WITH delivered <- Applied
FifoSpec == Fifo!Spec

(* A row whose session keeps being flushed leaves the outbox, applied. *)
EventuallyApplied ==
  \A r \in 1 .. MaxRows : r \in outbox ~> (r \in Applied /\ r \notin outbox)
=============================================================================
