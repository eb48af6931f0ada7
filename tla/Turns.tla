-------------------------------- MODULE Turns --------------------------------
(***************************************************************************)
(* The life of a turn in one mounted hook: on_start, on_submit,            *)
(* on_complete and cleanup run under the hook's asyncio lock, rebind runs  *)
(* between any two of their awaits, and every save is one transaction of   *)
(* the journal, so a crash may fall between any two saves.                 *)
(*                                                                         *)
(* A step of a handler ends where the code awaits or where a save has      *)
(* committed.  An injection is identified with its turn: a turn prepares   *)
(* at most one.                                                            *)
(***************************************************************************)
EXTENDS Naturals, Sequences, FiniteSets

CONSTANTS
  Sessions,               \* the sessions of this native session, one a project
  MaxTurns,               \* bound: prompts submitted
  MaxDeliveries,          \* bound: deliveries one injection is made of
  MaxCrashes,             \* bound: processes that end, crash or not
  MaxRebinds,             \* bound: changes of project
  RebindWhileSubmitting,  \* may rebind run while on_submit awaits?
  SaveMayFail             \* may a save that no handler guards raise?

ASSUME TurnsAssumption ==
  /\ Sessions # {}
  /\ {MaxTurns, MaxDeliveries, MaxCrashes, MaxRebinds} \subseteq Nat
  /\ {RebindWhileSubmitting, SaveMayFail} \subseteq BOOLEAN

TurnIds == 1 .. MaxTurns

(* self.state["turn"]; id 0 stands for None. *)
Boundaries == {"prepared", "harness_input_accepted", "acceptance_unknown"}
NoTurn == [id |-> 0, boundary |-> "prepared", prepared |-> FALSE, injected |-> FALSE]
NewTurn(t) == [NoTurn EXCEPT !.id = t]

(* The journal's state row of a session, as far as turns go. *)
Fresh == [version |-> 0, index |-> 0, turn |-> NoTurn, unknown |-> {}]

VARIABLES
  jour,      \* the persisted state of each session
  rows,      \* every row ever put in the outbox, in order
  alive,     \* is there a process with the hook mounted?
  bind,      \* self.sid
  mem,       \* self.state
  entered,   \* self.entered
  ended,     \* self._session_ended
  gen,       \* identity of the binding: its state, client and connection
  pinned,    \* self._shutdown_binding; 0 stands for None
  pc,        \* where the holder of self.lock stands
  cur,       \* on_submit's local turn
  opened,    \* history: the session under which each turn was opened
  offered,   \* history: deliveries in the injection of each turn
  prompt,    \* the harness: the turn of the prompt being answered; 0: none
  accepted,  \* the harness's context: injections it accepted
  crashes    \* processes ended so far

store == <<jour, rows>>
memory == <<bind, mem, entered, ended, gen, pinned>>
world == <<alive, opened, offered, prompt, accepted, crashes>>
vars == <<jour, rows, alive, bind, mem, entered, ended, gen, pinned, pc, cur,
          opened, offered, prompt, accepted, crashes>>

(* Awaits after which a handler still writes, and saves with one to follow.
   What a handler awaits last changes nothing here: it ends before. *)
Awaits == {"submit.sync", "submit.attach", "submit.accepted"}
Sync == {"submit.recover", "submit.open", "end.finish", "end.completed", "end.abandoned"}

TurnType == [id : TurnIds \cup {0}, boundary : Boundaries,
             prepared : BOOLEAN, injected : BOOLEAN]
StateType == [version : Nat, index : Nat, turn : TurnType, unknown : SUBSET TurnIds]
RowType ==
  [session : Sessions, op : {"session.upsert"}, expected : Nat,
     status : {"active", "completed", "abandoned"}]
  \cup [session : Sessions, op : {"turn.upsert"}, turn : TurnIds, index : Nat,
          injected : BOOLEAN, response : TurnIds \cup {0}]
  \cup [session : Sessions, op : {"acknowledgement"}, turn : TurnIds]

TypeOK ==
  /\ jour \in [Sessions -> StateType]
  /\ rows \in Seq(RowType)
  /\ alive \in BOOLEAN
  /\ bind \in Sessions
  /\ mem \in StateType
  /\ entered \in BOOLEAN /\ ended \in BOOLEAN
  /\ gen \in 1 .. MaxRebinds + 1
  /\ pinned \in 0 .. MaxRebinds + 1
  /\ pc \in {"idle"} \cup Awaits \cup Sync
  /\ cur \in TurnIds \cup {0}
  /\ opened \in Seq(Sessions) /\ Len(opened) <= MaxTurns
  /\ offered \in [TurnIds -> 0 .. MaxDeliveries]
  /\ prompt \in TurnIds \cup {0}
  /\ accepted \subseteq TurnIds
  /\ crashes \in 0 .. MaxCrashes

Init ==
  /\ jour = [s \in Sessions |-> Fresh]
  /\ rows = <<>>
  /\ alive = TRUE /\ bind \in Sessions /\ mem = Fresh
  /\ entered = FALSE /\ ended = FALSE /\ gen = 1 /\ pinned = 0
  /\ pc = "idle" /\ cur = 0
  /\ opened = <<>> /\ offered = [t \in TurnIds |-> 0]
  /\ prompt = 0 /\ accepted = {} /\ crashes = 0

-----------------------------------------------------------------------------
(* Saves *)

(* Journal.save of the state as it now is, with the rows that go with it.  A
   save that raises leaves memory ahead of the journal, and the exception
   leaves the handler. *)
Save(state, new, next) ==
  /\ mem' = state
  /\ \/ /\ jour' = [jour EXCEPT ![bind] = state]
        /\ rows' = rows \o new
        /\ pc' = next
     \/ SaveMayFail /\ pc' = "idle" /\ UNCHANGED store

SessionRow(status) ==
  [session |-> bind, op |-> "session.upsert", expected |-> mem.version, status |-> status]

(* response: the prompt it answers; 0 for the empty text of an interruption. *)
TurnRow(response) ==
  [session |-> bind, op |-> "turn.upsert", turn |-> mem.turn.id,
   index |-> mem.index, injected |-> mem.turn.injected, response |-> response]

HasTurn == mem.turn # NoTurn

(* Mutant: the candidate of a turn that closes is forgotten. *)
FinishedForgets == [mem EXCEPT !.turn = NoTurn]

(* finish: a candidate whose acceptance was not observed is kept aside, and
   the turn is closed. *)
Finished ==
  [mem EXCEPT
     !.turn = NoTurn,
     !.unknown = IF mem.turn.prepared /\ mem.turn.boundary # "harness_input_accepted"
                 THEN @ \cup {mem.turn.id} ELSE @]

Finish(response, next) ==
  IF HasTurn
  THEN Save(Finished, <<TurnRow(response)>>, next)
  ELSE pc' = next /\ UNCHANGED <<mem, jour, rows>>

(* Mutant: the version is not advanced. *)
EnsureSessionSameVersion(next) ==
  IF entered
  THEN pc' = next /\ UNCHANGED <<mem, entered, jour, rows>>
  ELSE /\ entered' = TRUE
       /\ Save(mem, <<SessionRow("active")>>, next)

(* ensure_session: the flag and the version change before the save. *)
EnsureSession(next) ==
  IF entered
  THEN pc' = next /\ UNCHANGED <<mem, entered, jour, rows>>
  ELSE /\ entered' = TRUE
       /\ Save([mem EXCEPT !.version = @ + 1], <<SessionRow("active")>>, next)

At(from) == alive /\ pc = from

-----------------------------------------------------------------------------
(* on_start.  Once cleanup has pinned its binding, the host starts nothing. *)

Start ==
  /\ At("idle") /\ pinned = 0
  /\ EnsureSession("idle")
  /\ UNCHANGED <<bind, ended, gen, pinned, cur>> /\ UNCHANGED world

-----------------------------------------------------------------------------
(* on_submit.  The host submits no prompt to a hook it is shutting down. *)

Submit ==
  /\ At("idle") /\ pinned = 0 /\ Len(opened) < MaxTurns
  /\ EnsureSession("submit.recover")
  /\ UNCHANGED <<bind, ended, gen, pinned, cur>> /\ UNCHANGED world

(* Mutant: the open turn is left for the new one to overwrite. *)
SubmitRecoverNothing ==
  /\ At("submit.recover")
  /\ pc' = "submit.open"
  /\ UNCHANGED <<bind, mem, entered, ended, gen, pinned, cur>>
  /\ UNCHANGED store /\ UNCHANGED world

(* A turn left open by a prompt without completion, or by a crash. *)
SubmitRecover ==
  /\ At("submit.recover")
  /\ Finish(0, "submit.open")
  /\ UNCHANGED <<bind, entered, ended, gen, pinned, cur>> /\ UNCHANGED world

SubmitOpen ==
  /\ At("submit.open")
  /\ Save([mem EXCEPT !.index = @ + 1, !.turn = NewTurn(Len(opened) + 1)], <<>>, "submit.sync")
  /\ opened' = Append(opened, bind)
  /\ prompt' = Len(opened) + 1
  /\ UNCHANGED <<bind, entered, ended, gen, pinned, cur>>
  /\ UNCHANGED <<alive, offered, accepted, crashes>>

(* Mutant: the injection counts as delivered before the harness has it. *)
SubmitPrepareEager(n) ==
  /\ At("submit.sync") /\ HasTurn
  /\ offered' = [offered EXCEPT ![mem.turn.id] = n]
  /\ LET prepared == [mem EXCEPT !.turn.prepared = TRUE, !.turn.injected = TRUE]
     IN /\ mem' = prepared
        /\ jour' = [jour EXCEPT ![bind] = prepared]
        /\ pc' = "submit.attach" /\ cur' = mem.turn.id
  /\ UNCHANGED <<rows, bind, entered, ended, gen, pinned, alive, opened, prompt, accepted, crashes>>

(* flush, sense and retrieve are done and render has something to say: keep
   the candidate, then hand it to the harness.  If the save raises, the
   handler marks the turn and goes on. *)
SubmitPrepare(n) ==
  /\ At("submit.sync") /\ HasTurn
  /\ offered' = [offered EXCEPT ![mem.turn.id] = n]
  /\ LET prepared == [mem EXCEPT !.turn.prepared = TRUE]
     IN \/ /\ mem' = prepared
           /\ jour' = [jour EXCEPT ![bind] = prepared]
           /\ pc' = "submit.attach" /\ cur' = mem.turn.id
        \/ /\ mem' = [prepared EXCEPT !.turn.boundary = "acceptance_unknown"]
           /\ pc' = "idle" /\ UNCHANGED <<jour, cur>>
  /\ UNCHANGED <<rows, bind, entered, ended, gen, pinned, alive, opened, prompt, accepted, crashes>>

(* The harness takes the message; its answer is on the way back. *)
AddMessage ==
  /\ At("submit.attach")
  /\ accepted' = accepted \cup {cur}
  /\ pc' = "submit.accepted"
  /\ UNCHANGED <<cur, alive, opened, offered, prompt, crashes>>
  /\ UNCHANGED store /\ UNCHANGED memory

(* The local turn is the one in self.state unless a rebind closed it. *)
IsOpen(t) == mem.turn.id = t

(* Mutant: the receipts are saved with the state from before the answer. *)
CommitReceiptsOldState ==
  /\ At("submit.accepted")
  /\ mem' = IF IsOpen(cur)
            THEN [mem EXCEPT !.turn.boundary = "harness_input_accepted",
                             !.turn.injected = TRUE]
            ELSE mem
  /\ jour' = [jour EXCEPT ![bind] = mem]
  /\ rows' = rows \o [i \in 1 .. offered[cur] |->
                        [session |-> bind, op |-> "acknowledgement", turn |-> cur]]
  /\ pc' = "idle" /\ cur' = 0
  /\ UNCHANGED <<bind, entered, ended, gen, pinned>> /\ UNCHANGED world

(* add_message returned: the boundary, the injection and one receipt for each
   delivery are saved in one transaction, under the session bound by now. *)
CommitReceipts ==
  /\ At("submit.accepted")
  /\ LET delivered == IF IsOpen(cur)
                      THEN [mem EXCEPT !.turn.boundary = "harness_input_accepted",
                                       !.turn.injected = TRUE]
                      ELSE mem
     IN /\ mem' = delivered
        /\ jour' = [jour EXCEPT ![bind] = delivered]
  /\ rows' = rows \o [i \in 1 .. offered[cur] |->
                        [session |-> bind, op |-> "acknowledgement", turn |-> cur]]
  /\ pc' = "idle" /\ cur' = 0
  /\ UNCHANGED <<bind, entered, ended, gen, pinned>> /\ UNCHANGED world

(* flush, sense, retrieve, add_message or the save of the receipts raises: a
   candidate the turn has is not known to be delivered, and the turn says so. *)
DeliveryUnknown ==
  /\ alive /\ pc \in Awaits
  /\ mem' = IF HasTurn /\ mem.turn.prepared
            THEN [mem EXCEPT !.turn.boundary = "acceptance_unknown", !.turn.injected = FALSE]
            ELSE mem
  /\ pc' = "idle" /\ cur' = 0
  /\ UNCHANGED <<bind, entered, ended, gen, pinned>> /\ UNCHANGED store /\ UNCHANGED world

-----------------------------------------------------------------------------
(* on_complete *)

(* The harness has answered its prompt: whatever turn is open gets the text. *)
Complete ==
  /\ At("idle") /\ prompt # 0
  /\ Finish(prompt, "idle")
  /\ prompt' = 0
  /\ UNCHANGED <<bind, entered, ended, gen, pinned, cur>>
  /\ UNCHANGED <<alive, opened, offered, accepted, crashes>>

-----------------------------------------------------------------------------
(* cleanup and _end_shared_session *)

(* cleanup pins the binding before it waits for the lock. *)
Cleanup ==
  /\ alive /\ pc \notin Sync /\ pinned = 0
  /\ pinned' = gen
  /\ UNCHANGED <<bind, mem, entered, ended, gen, pc, cur>> /\ UNCHANGED store /\ UNCHANGED world

(* Mutant: the finalizer is not idempotent. *)
EndBeginRepeats ==
  /\ At("idle") /\ pinned = gen
  /\ ended' = TRUE
  /\ IF entered \/ HasTurn
     THEN EnsureSession("end.finish")
     ELSE UNCHANGED <<pc, mem, entered>> /\ UNCHANGED store
  /\ UNCHANGED <<bind, gen, pinned, cur>> /\ UNCHANGED world

(* Mutant: a turn restored from the journal does not count as begun. *)
EndBeginOnlyEntered ==
  /\ At("idle") /\ pinned = gen /\ ~ended
  /\ ended' = TRUE
  /\ IF entered
     THEN EnsureSession("end.finish")
     ELSE UNCHANGED <<pc, mem, entered>> /\ UNCHANGED store
  /\ UNCHANGED <<bind, gen, pinned, cur>> /\ UNCHANGED world

EndBegin ==
  /\ At("idle") /\ pinned = gen /\ ~ended
  /\ ended' = TRUE
  /\ IF entered \/ HasTurn
     THEN EnsureSession("end.finish")
     ELSE UNCHANGED <<pc, mem, entered>> /\ UNCHANGED store
  /\ UNCHANGED <<bind, gen, pinned, cur>> /\ UNCHANGED world

EndFinish ==
  /\ At("end.finish")
  /\ Finish(0, IF HasTurn THEN "end.abandoned" ELSE "end.completed")
  /\ UNCHANGED <<bind, entered, ended, gen, pinned, cur>> /\ UNCHANGED world

EndSession(from, status) ==
  /\ At(from)
  /\ Save([mem EXCEPT !.version = @ + 1], <<SessionRow(status)>>, "idle")
  /\ UNCHANGED <<bind, entered, ended, gen, pinned, cur>> /\ UNCHANGED world

-----------------------------------------------------------------------------
(* What may happen between and during the handlers *)

(* on_submit has nothing to deliver, or the handler is cancelled where it
   stands. *)
Release ==
  /\ alive /\ pc \in Awaits
  /\ pc' = "idle" /\ cur' = 0
  /\ UNCHANGED store /\ UNCHANGED memory /\ UNCHANGED world

(* The tools, retrieve and file_reports save the whole state as it is.  That
   the thread of a cancelled handler does so between another handler's change
   of memory and the save of it is left out. *)
SaveState ==
  /\ alive /\ pc \notin Sync
  /\ jour' = [jour EXCEPT ![bind] = mem]
  /\ UNCHANGED <<rows, pc, cur>> /\ UNCHANGED memory /\ UNCHANGED world

(* Mutant: the open turn is closed after the session has changed. *)
RebindClosesLate(s) ==
  /\ alive /\ pc \notin Sync /\ s # bind /\ gen <= MaxRebinds
  /\ pc \in Awaits => RebindWhileSubmitting
  /\ IF HasTurn
     THEN /\ jour' = [jour EXCEPT ![bind] = Finished]
          /\ rows' = Append(rows, [TurnRow(0) EXCEPT !.session = s])
     ELSE UNCHANGED store
  /\ bind' = s /\ mem' = jour[s]
  /\ entered' = FALSE /\ ended' = FALSE /\ gen' = gen + 1
  /\ UNCHANGED <<pinned, pc, cur>> /\ UNCHANGED world

(* rebind: no await in it; the open turn is closed under its own project, and
   the other session's state comes from the journal.  If closing it raises,
   the hook stays where it is. *)
Rebind(s) ==
  /\ alive /\ pc \notin Sync /\ s # bind /\ gen <= MaxRebinds
  /\ pc \in Awaits => RebindWhileSubmitting
  /\ \/ /\ IF HasTurn
           THEN /\ jour' = [jour EXCEPT ![bind] = Finished]
                /\ rows' = Append(rows, TurnRow(0))
           ELSE UNCHANGED store
        /\ bind' = s /\ mem' = jour[s]
        /\ entered' = FALSE /\ ended' = FALSE /\ gen' = gen + 1
     \/ /\ SaveMayFail /\ HasTurn
        /\ mem' = Finished
        /\ UNCHANGED <<bind, entered, ended, gen>> /\ UNCHANGED store
  /\ UNCHANGED <<pinned, pc, cur>> /\ UNCHANGED world

(* The process goes, killed or done; memory goes with it. *)
Crash ==
  /\ alive /\ crashes < MaxCrashes
  /\ alive' = FALSE /\ crashes' = crashes + 1
  /\ mem' = Fresh /\ pc' = "idle" /\ cur' = 0 /\ prompt' = 0
  /\ entered' = FALSE /\ ended' = FALSE /\ pinned' = 0
  /\ UNCHANGED <<bind, gen, opened, offered, accepted>> /\ UNCHANGED store

(* TeamworkHook.__init__: the same native session is resumed, bound to any of
   its projects, and its state comes from the journal. *)
Restart(s) ==
  /\ ~alive /\ alive' = TRUE
  /\ bind' = s /\ mem' = jour[s]
  /\ UNCHANGED <<entered, ended, gen, pinned, pc, cur, opened, offered, prompt, accepted, crashes>> /\ UNCHANGED store

-----------------------------------------------------------------------------
Handler ==
  \/ SubmitRecover \/ SubmitOpen
  \/ \E n \in 0 .. MaxDeliveries : SubmitPrepare(n)
  \/ AddMessage \/ CommitReceipts \/ DeliveryUnknown
  \/ EndFinish
  \/ EndSession("end.completed", "completed")
  \/ EndSession("end.abandoned", "abandoned")
  \/ Release

Host == Start \/ Submit \/ Complete \/ Cleanup

Next ==
  \/ Handler \/ Host \/ EndBegin \/ SaveState
  \/ \E s \in Sessions : Rebind(s) \/ Restart(s)
  \/ Crash

Spec == Init /\ [][Next]_vars

(* Threads return, awaits end (HTTP after 30 s), cleanup gets the lock. *)
FairSpec == Spec /\ WF_vars(Handler) /\ SF_vars(EndBegin)

-----------------------------------------------------------------------------
(* Properties *)

TurnRows(t) == {i \in DOMAIN rows : rows[i].op = "turn.upsert" /\ rows[i].turn = t}
Receipts(t) == {i \in DOMAIN rows : rows[i].op = "acknowledgement" /\ rows[i].turn = t}

Delivered(t) == \E i \in TurnRows(t) : rows[i].injected
OpenIn(s, t) == jour[s].turn.id = t

(* ARCHITECTURE, "The receipt contract": neither a receipt nor the record of
   a turn claims a delivery the harness was not seen to accept. *)
NoInventedReceipt ==
  \A t \in TurnIds : Receipts(t) # {} \/ Delivered(t) => t \in accepted

(* A turn's record and its receipts tell one story, whatever crash falls
   between them: all the receipts of its injection, or none. *)
RecordMatchesReceipts ==
  \A t \in TurnIds :
    /\ Receipts(t) # {} =>
         Delivered(t) \/ \E s \in Sessions : OpenIn(s, t) /\ jour[s].turn.injected
    /\ TurnRows(t) # {} =>
         Cardinality(Receipts(t)) = IF Delivered(t) THEN offered[t] ELSE 0

(* What the harness accepted is never forgotten: it is recorded as delivered,
   still open in the journal, or set aside as acceptance_unknown. *)
AcceptedAccountedFor ==
  \A t \in accepted :
    \/ Delivered(t)
    \/ \E s \in Sessions : OpenIn(s, t) /\ jour[s].turn.prepared
    \/ \E s \in Sessions : t \in jour[s].unknown

(* A turn the journal has kept open stays open there until its record is
   queued, and is then published once: no crash, interruption or rebind drops
   it or publishes it again. *)
Open(t) == \E s \in Sessions : OpenIn(s, t)
TurnsNeverDropped ==
  [][\A t \in TurnIds : Open(t) \/ TurnRows(t) # {} =>
       Cardinality(TurnRows(t)') = IF Open(t)' THEN 0 ELSE 1]_vars

(* Everything about a turn goes to the session it was opened in. *)
TurnsNeverSplit ==
  \A t \in DOMAIN opened : \A i \in TurnRows(t) \cup Receipts(t) :
    rows[i].session = opened[t]

(* A turn is published with the answer to its own prompt, or with none. *)
OwnResponse ==
  \A t \in TurnIds : \A i \in TurnRows(t) : rows[i].response \in {0, t}

SameSession(i, j) == rows[i].session = rows[j].session

IsEnd(i) == rows[i].op = "session.upsert" /\ rows[i].status # "active"

(* A session once ended says nothing more until it says it is active. *)
EndIsLast ==
  \A i, j \in DOMAIN rows :
    /\ i < j /\ SameSession(i, j) /\ IsEnd(i)
    /\ \A k \in i + 1 .. j - 1 : ~ SameSession(i, k)
    => rows[j].op = "session.upsert" /\ rows[j].status = "active"

(* The saves of the hook are those the outbox relies on: consecutive session
   versions, the session before its turns. *)
OutboxRow(row) ==
  [session |-> row.session, op |-> row.op,
   expected |-> IF row.op = "session.upsert" THEN row.expected ELSE 0]

(* A turn has its record and its receipts, and each binding of each process
   says at most once that its session is active, and once that it ended. *)
RowBound == MaxTurns * (1 + MaxDeliveries) + 2 * (1 + MaxRebinds + MaxCrashes)

Journal == INSTANCE Outbox WITH
  rows <- [i \in DOMAIN rows |-> OutboxRow(rows[i])],
  outbox <- DOMAIN rows,
  version <- [s \in Sessions |-> jour[s].version],
  Projects <- {"project"}, ProjectOf <- [s \in Sessions |-> "project"],
  ConnectionProject <- "project",
  Threads <- {}, Replayers <- {}, NoSession <- "none",
  MaxReceipts <- MaxDeliveries, MaxRows <- RowBound,
  pc <- [f \in {} |-> "idle"], sess <- [f \in {} |-> "none"],
  held <- [f \in {} |-> 0], todo <- [f \in {} |-> {}], wire <- {},
  stored <- [p \in {"project"} |-> {}],
  svcVersion <- [p \in {"project"} |-> [s \in Sessions |-> 0]]
OutboxSpec == Journal!Spec

(* A hook told to shut down leaves nothing open, unless the process dies or
   the session is exchanged first: the last word on a session it has entered
   is that it ended, and a turn, also one restored from the journal, is
   closed. *)
LastSaysEnded(s) ==
  \E i \in DOMAIN rows :
    /\ rows[i].session = s /\ IsEnd(i)
    /\ \A j \in DOMAIN rows : rows[j].session = s => j <= i
ShuttingDown == alive /\ pinned = gen
CleanupEndsSession ==
  /\ ShuttingDown /\ entered ~> ~ ShuttingDown \/ LastSaysEnded(bind)
  /\ ShuttingDown /\ HasTurn ~> ~ ShuttingDown \/ ~ HasTurn
=============================================================================
