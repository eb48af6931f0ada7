----------------------------- MODULE Recording -----------------------------
(***************************************************************************)
(* Detection and recording: a background task takes the window of turns    *)
(* nobody has examined yet, a judge reads it, and the recorder publishes   *)
(* the claim, while the session records insights deliberately, moves to    *)
(* another project and shuts down.                                         *)
(*                                                                         *)
(* A binding is the session and the state object a task began with: every  *)
(* rebind and restart makes a new object.  The judge's claim is any of a   *)
(* few, so two windows may yield the same.  Cancellation may come at any   *)
(* await, or never: a provider can ignore it.                              *)
(***************************************************************************)
EXTENDS Naturals

CONSTANTS
  Sessions,     \* one for each project
  Kinds,        \* decision, lesson
  Tasks,        \* detection tasks
  Calls,        \* calls of record_insight by the model
  Claims,       \* fingerprints of what a judge may find
  None,
  MaxTurns, MaxRebinds, MaxCrashes  \* bounds

ASSUME RecordingAssumption ==
  /\ Tasks \cap Calls = {} /\ None \notin Tasks \cup Calls \cup Claims
  /\ {MaxTurns, MaxRebinds, MaxCrashes} \subseteq Nat

Writers == Tasks \cup Calls
Turns == 1 .. MaxTurns

(* What matters here of a session's state: its last turn and whether it is
   still open, the turns buffered for each detector, and the latest turn with
   a deliberate recording (0: none). *)
States == [index : 0 .. MaxTurns, open : BOOLEAN, buffer : [Kinds -> SUBSET (0 .. MaxTurns)],
           deliberate : 0 .. MaxTurns, generation : Nat]
Fresh == [index |-> 0, open |-> FALSE, buffer |-> [k \in Kinds |-> {}], deliberate |-> 0, generation |-> 0]

VARIABLES
  journal,     \* the saved state of each session
  watermark,   \* the last turn examined, a table of its own
  reserved,    \* <<session, kind, claim>>: the table of fingerprints
  sid, epoch,  \* the current session, and how often the state was exchanged
  state,       \* self.state
  lock,        \* who holds self.lock across an await
  closing,     \* "no", "closing": no new task, "closed": no automatic record
  pc, kind,    \* where each writer stands, and for which detector
  bound,       \* the session and epoch it is bound to
  gen,         \* the generation it captured
  window,      \* the turns it examines, or the turn it was called in
  claim,
  snapshot,    \* what a call overwrote in its state
  flying,      \* writers whose request is on its way
  published,   \* writers whose record the service has taken
  stands,      \* history: calls submitted and not refused
  rebinds, crashes

store == <<journal, watermark, reserved>>
hook == <<sid, epoch, state, closing>>
own == <<kind, bound, gen, window, claim, snapshot>>
wire == <<flying, published>>
bounds == <<rebinds, crashes>>
vars == <<journal, watermark, reserved, sid, epoch, state, lock, closing, pc, kind, bound, gen,
          window, claim, snapshot, flying, published, stands, rebinds, crashes>>

TypeOK ==
  /\ journal \in [Sessions -> States]
  /\ watermark \in [Sessions -> [Kinds -> 0 .. MaxTurns]]
  /\ reserved \subseteq Sessions \X Kinds \X Claims
  /\ sid \in Sessions /\ epoch \in Nat /\ state \in States
  /\ lock \in Writers \cup {None} /\ closing \in {"no", "closing", "closed"}
  /\ pc \in [Writers -> {"idle", "new", "judge", "found", "publish", "flush", "sent", "done"}]
  /\ kind \in [Writers -> Kinds] /\ bound \in [Writers -> Sessions \X Nat]
  /\ gen \in [Writers -> Nat]
  /\ window \in [Writers -> SUBSET Turns] /\ claim \in [Writers -> Claims \cup {None}]
  /\ snapshot \in [Writers -> (0 .. MaxTurns) \X Nat]
  /\ flying \subseteq Writers /\ published \subseteq Writers /\ stands \subseteq Calls
  /\ rebinds \in 0 .. MaxRebinds /\ crashes \in 0 .. MaxCrashes

Init ==
  /\ journal = [s \in Sessions |-> Fresh]
  /\ watermark = [s \in Sessions |-> [k \in Kinds |-> 0]]
  /\ reserved = {}
  /\ sid \in Sessions /\ epoch = 0 /\ state = Fresh
  /\ lock = None /\ closing = "no"
  /\ pc = [w \in Writers |-> "idle"] /\ kind \in [Writers -> Kinds]
  /\ bound = [w \in Writers |-> <<sid, 0>>]
  /\ gen = [w \in Writers |-> 0] /\ window = [w \in Writers |-> {}]
  /\ claim = [w \in Writers |-> None] /\ snapshot = [w \in Writers |-> <<0, 0>>]
  /\ flying = {} /\ published = {} /\ stands = {}
  /\ rebinds = 0 /\ crashes = 0

-----------------------------------------------------------------------------
(* What writers share *)

Goto(w, label) == pc' = [pc EXCEPT ![w] = label]
Session(w) == bound[w][1]
Bound(w) == bound[w] = <<sid, epoch>>

(* detection_binding_current, and binding_current of the tool: what a task
   records is not published after shutdown, what the model records is. *)
Current(w) == Bound(w) /\ (w \in Tasks => closing # "closed")

Commit(s) == state' = s /\ journal' = [journal EXCEPT ![sid] = s]

(* finish: the open turn, if there is one, enters the buffer of each detector. *)
Finished(s) ==
  IF s.open THEN [s EXCEPT !.open = FALSE, !.buffer = [k \in Kinds |-> @[k] \cup {s.index}]] ELSE s

(* on_submit: a turn begins, after one without completion was finished. *)
BeginTurn ==
  /\ lock = None /\ state.index < MaxTurns
  /\ Commit([Finished(state) EXCEPT !.index = @ + 1, !.open = TRUE])
  /\ UNCHANGED <<watermark, reserved, sid, epoch, lock, closing, pc, own, wire, stands, bounds>>

(* on_complete, or the session's end. *)
EndTurn ==
  /\ lock = None /\ state.open
  /\ Commit(Finished(state))
  /\ UNCHANGED <<watermark, reserved, sid, epoch, lock, closing, pc, own, wire, stands, bounds>>

-----------------------------------------------------------------------------
(* Detection *)

(* detect_decision, detect_lesson: a task is scheduled, bound to now. *)
Detect(t) ==
  /\ pc[t] = "idle" /\ closing = "no" /\ state.buffer[kind[t]] # {}
  /\ Goto(t, "new") /\ bound' = [bound EXCEPT ![t] = <<sid, epoch>>]
  /\ UNCHANGED <<store, hook, lock, kind, gen, window, claim, snapshot, wire, stands, bounds>>

(* Mutant: the turns before the watermark are not left out. *)
UnexaminedAll(s, k) == state.buffer[k]

Unexamined(s, k) == {i \in state.buffer[k] : i > watermark[s][k]}

(* The session has recorded something of this window itself. *)
Deliberate(s, k) == state.deliberate > watermark[s][k]

(* _capture_detection_window takes the turns: the watermark moves first. *)
Take(t, turns) ==
  LET s == Session(t) k == kind[t] IN
  /\ pc[t] = "new" /\ lock = None /\ Current(t) /\ turns = Unexamined(s, k) /\ turns # {}
  /\ \E i \in turns :
       (\A j \in turns : j <= i) /\ watermark' = [watermark EXCEPT ![s][k] = i]
  /\ window' = [window EXCEPT ![t] = turns]

(* Then the pruned state is saved; the generation is pinned only here. *)
Capture(t) ==
  LET s == Session(t) k == kind[t] IN
  /\ \E turns \in SUBSET Turns : Take(t, turns)
  /\ Commit([state EXCEPT !.buffer[k] = {}])
  /\ gen' = [gen EXCEPT ![t] = state.generation]
  /\ Goto(t, IF Deliberate(s, k) THEN "done" ELSE "judge")
  /\ UNCHANGED <<reserved, sid, epoch, lock, closing, kind, bound, claim, snapshot, wire, stands, bounds>>

NothingToTake(t) ==
  /\ pc[t] = "new" /\ lock = None
  /\ ~Current(t) \/ Unexamined(Session(t), kind[t]) = {}
  /\ Goto(t, "done")
  /\ UNCHANGED <<store, hook, lock, own, wire, stands, bounds>>

(* The judge answers, or fails, or finds nothing; _record_verdict checks the
   binding again and announces what was found. *)
Judge(t) ==
  /\ pc[t] = "judge"
  /\ \/ /\ Current(t)
        /\ \E c \in Claims : claim' = [claim EXCEPT ![t] = c]
        /\ Goto(t, "found")
     \/ Goto(t, "done") /\ UNCHANGED claim
  /\ UNCHANGED <<store, hook, lock, kind, bound, gen, window, snapshot, wire, stands, bounds>>

Key(t) == <<Session(t), kind[t], claim[t]>>
Release(t) == reserved' = reserved \ {Key(t)}

(* subscribe's receive, or no observer at all: with recording switched off, or
   an announcement that nobody takes up, the candidate is dropped. *)
NotReceived(t) ==
  /\ pc[t] = "found"
  /\ Goto(t, "done")
  /\ UNCHANGED <<store, hook, lock, own, wire, stands, bounds>>

(* Recorder.handle: the fingerprint is reserved in one statement. *)
Reserve(t) ==
  /\ pc[t] = "found"
  /\ IF Current(t) /\ Key(t) \notin reserved
     THEN Goto(t, "publish") /\ reserved' = reserved \cup {Key(t)}
     ELSE Goto(t, "done") /\ UNCHANGED reserved
  /\ UNCHANGED <<journal, watermark, hook, lock, own, wire, stands, bounds>>

-----------------------------------------------------------------------------
(* RecordInsightTool.execute, for a task and for a call of the model *)

Call(c) ==
  /\ pc[c] = "idle"
  /\ Goto(c, "publish")
  /\ bound' = [bound EXCEPT ![c] = <<sid, epoch>>]
  /\ window' = [window EXCEPT ![c] = {state.index} \cap Turns]
  /\ UNCHANGED <<store, hook, lock, kind, gen, claim, snapshot, wire, stands, bounds>>

(* Mutant: the generation is not compared. *)
MayRecordLater(w) == Current(w)

(* The tests before and after the flush: the binding, and for a task that the
   model has not recorded anything since the window was captured. *)
MayRecord(w) == Current(w) /\ (w \in Tasks => state.generation = gen[w])

(* A refusal before anything was sent: a task gives its fingerprint back. *)
Refuse(w) ==
  /\ Goto(w, "done")
  /\ IF w \in Tasks THEN Release(w) ELSE UNCHANGED reserved

(* The lock is taken, the tests are made and the session's rows flushed. *)
Begin(w) ==
  /\ pc[w] = "publish" /\ lock = None
  /\ IF MayRecord(w) THEN Goto(w, "flush") /\ lock' = w /\ UNCHANGED reserved
     ELSE Refuse(w) /\ UNCHANGED lock
  /\ UNCHANGED <<journal, watermark, hook, own, wire, stands, bounds>>

(* The later of turn d and the one turn a call was made in, if any. *)
Latest(d, turns) == IF \E i \in turns : i > d THEN CHOOSE i \in turns : i > d ELSE d

(* The flush fails, or the tests are made again; a call leaves its mark in
   the saved state before its request is on its way. *)
Submit(w) ==
  /\ pc[w] = "flush"
  /\ \/ /\ MayRecord(w)
        /\ Goto(w, "sent") /\ flying' = flying \cup {w}
        /\ IF w \in Calls
           THEN /\ snapshot' = [snapshot EXCEPT ![w] = <<state.deliberate, state.generation>>]
                /\ Commit([state EXCEPT !.generation = @ + 1,
                             !.deliberate = Latest(@, window[w])])
                /\ stands' = stands \cup {w}
           ELSE UNCHANGED <<journal, state, snapshot, stands>>
        /\ UNCHANGED <<reserved, lock>>
     \/ /\ Refuse(w) /\ lock' = None
        /\ UNCHANGED <<journal, state, snapshot, flying, stands>>
  /\ UNCHANGED <<watermark, sid, epoch, closing, kind, bound, gen, window, claim, published, bounds>>

(* The service takes the record, whether or not anybody still waits. *)
Serve(w) ==
  /\ w \in flying /\ w \notin published
  /\ published' = published \cup {w}
  /\ UNCHANGED <<store, hook, lock, pc, own, flying, stands, bounds>>

(* Recorded, or unknown: the reservation stays either way. *)
Recorded(w) ==
  /\ pc[w] = "sent"
  /\ Goto(w, "done") /\ lock' = None
  /\ flying' = IF w \in published THEN flying \ {w} ELSE flying
  /\ UNCHANGED <<store, hook, own, published, stands, bounds>>

(* The service refused for certain: the fingerprint is free again, and a call
   puts back what it overwrote, in its own state and journal entry.  After a
   rebind the code saves the rest of the state it pinned as well. *)
Refused(w) ==
  /\ pc[w] = "sent" /\ w \notin published
  /\ flying' = flying \ {w} /\ stands' = stands \ {w} /\ lock' = None
  /\ Refuse(w)
  /\ IF w \in Calls
     THEN LET Restored(s) == [s EXCEPT !.deliberate = snapshot[w][1], !.generation = snapshot[w][2]] IN
          /\ state' = IF Bound(w) THEN Restored(state) ELSE state
          /\ journal' = [journal EXCEPT ![Session(w)] = Restored(@)]
     ELSE UNCHANGED <<state, journal>>
  /\ UNCHANGED <<watermark, sid, epoch, closing, own, published, bounds>>

(* Mutant: a cancelled publication frees its fingerprint. *)
CancelReleases(w) ==
  /\ pc[w] \notin {"idle", "done"}
  /\ Goto(w, "done") /\ lock' = IF lock = w THEN None ELSE lock
  /\ IF w \in Tasks /\ pc[w] \in {"publish", "flush", "sent"} THEN Release(w) ELSE UNCHANGED reserved
  /\ UNCHANGED <<journal, watermark, hook, own, wire, stands, bounds>>

(* Cancelled at an await, by a rebind, a deadline or shutdown: the lock is
   freed, the request is not recalled and the reservation stays. *)
Cancel(w) ==
  /\ pc[w] \notin {"idle", "done"}
  /\ Goto(w, "done") /\ lock' = IF lock = w THEN None ELSE lock
  /\ UNCHANGED <<store, hook, own, wire, stands, bounds>>

-----------------------------------------------------------------------------
(* Rebind, shutdown, restart *)

(* Another project: an open turn is finished where it began, without the lock,
   the other state is loaded, and tasks bound to the old one run on unless they
   are cancelled. *)
Rebind ==
  /\ rebinds < MaxRebinds /\ rebinds' = rebinds + 1
  /\ journal' = IF state.open THEN [journal EXCEPT ![sid] = Finished(state)] ELSE journal
  /\ \E s \in Sessions \ {sid} : sid' = s /\ state' = journal[s]
  /\ epoch' = epoch + 1
  /\ UNCHANGED <<watermark, reserved, lock, closing, pc, own, wire, stands, crashes>>

(* cleanup: no new task, and after the drain no automatic publication. *)
Shutdown ==
  /\ \/ closing = "no" /\ closing' = "closing"
     \/ closing = "closing" /\ closing' = "closed"
  /\ UNCHANGED <<store, sid, epoch, state, lock, pc, own, wire, stands, bounds>>

Died ==
  /\ crashes < MaxCrashes /\ crashes' = crashes + 1
  /\ epoch' = epoch + 1 /\ state' = journal[sid] /\ lock' = None /\ closing' = "no"
  /\ pc' = [w \in Writers |-> IF pc[w] = "idle" THEN "idle" ELSE "done"]
  /\ UNCHANGED <<journal, reserved, sid, kind, bound, gen, claim, snapshot, wire, stands, rebinds>>

Restart == Died /\ UNCHANGED <<watermark, window>>

(* The process dies between the watermark and the saved state: the turns stay
   in the buffer. *)
DieTaking(t) == Died /\ \E turns \in SUBSET Turns : Take(t, turns)

Next ==
  \/ BeginTurn \/ EndTurn \/ Rebind \/ Shutdown \/ Restart
  \/ \E t \in Tasks : Detect(t) \/ Capture(t) \/ NothingToTake(t) \/ DieTaking(t)
                      \/ Judge(t) \/ NotReceived(t) \/ Reserve(t)
  \/ \E c \in Calls : Call(c)
  \/ \E w \in Writers : Begin(w) \/ Submit(w) \/ Serve(w) \/ Recorded(w) \/ Refused(w) \/ Cancel(w)

Spec == Init /\ [][Next]_vars

-----------------------------------------------------------------------------
(* What recording owes to the project and to the session *)

(* One claim is published once for a session and detector, however windows,
   deadlines, rebinds and restarts overlap: whatever is published or may still
   be holds its fingerprint, and no other task has the same (Recorder.handle,
   "only a definite refusal releases it"). *)
Underway(t) == t \in flying \cup published
OncePerClaim ==
  \A t \in Tasks : Underway(t) =>
    /\ Key(t) \in reserved
    /\ \A u \in Tasks \ {t} : Underway(u) => Key(u) # Key(t)

(* A turn is taken for examination at most once by each detector: the windows
   of a session are disjoint, across rebinds and a crash between the watermark
   and the pruned buffer (_capture_detection_window). *)
ExaminedOnce ==
  \A t, u \in Tasks :
    (t # u /\ Session(t) = Session(u) /\ kind[t] = kind[u]) => window[t] \cap window[u] = {}

(* What the session recorded itself is not recorded again for it: no task
   submits a window while a deliberate recording made in one of its turns
   stands (RecordInsightTool, deliberate_changed; "skipped_deliberate"). *)
DeliberateFirst ==
  [][\A t \in Tasks : t \in flying' \ flying =>
       \A c \in stands : Session(c) = Session(t) => window[c] \cap window[t] = {}]_vars

=============================================================================
