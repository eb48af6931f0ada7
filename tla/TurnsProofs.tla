----------------------------- MODULE TurnsProofs -----------------------------
(***************************************************************************)
(* Turns, for any sessions, turns, crashes and rebinds.                    *)
(*                                                                         *)
(* IInv, AInv: no receipt and no record of a turn claims a delivery that   *)
(* the harness was not seen to accept, and nothing it accepted is          *)
(* forgotten.  A turn in memory, in the journal or in a row that says it   *)
(* was injected was accepted, and on_submit's own turn has been when its   *)
(* receipts are saved.  What was accepted is in the journal because memory *)
(* never loses a candidate that the journal has.                           *)
(*                                                                         *)
(* The rest is for saves that do not raise.  OInv: the sessions own the    *)
(* open turns, one each, and a turn has its row when it is open no more.   *)
(* SInv, LInv, RInv and VInv are also for a rebind that waits for          *)
(* on_submit, and follow what a turn's row says of its receipts, who may   *)
(* still speak for a session, how many rows there are still to come, and   *)
(* which version a session's next row carries.                             *)
(***************************************************************************)
EXTENDS Turns, SequenceTheorems, FiniteSetTheorems, TLAPS

(* What a state says of its turn. *)
Sound(state) ==
  /\ state.turn.id = 0 => state.turn = NoTurn
  /\ state.turn.injected => state.turn.id \in accepted
  /\ state.turn.boundary = "harness_input_accepted" => state.turn.injected

(* What a row claims. *)
Claims(row) == row.op = "acknowledgement" \/ (row.op = "turn.upsert" /\ row.injected)
Honest == \A i \in DOMAIN rows : Claims(rows[i]) => rows[i].turn \in accepted

(* What the holder of the lock knows. *)
Stage ==
  /\ pc \in {"submit.recover", "submit.open"} => Len(opened) < MaxTurns
  /\ pc \in {"submit.attach", "submit.accepted"} => cur \in TurnIds
  /\ pc = "submit.accepted" => cur \in accepted

IInv == TypeOK /\ Stage /\ Honest /\ Sound(mem) /\ \A s \in Sessions : Sound(jour[s])

-----------------------------------------------------------------------------
LEMMA BoundsAreNumbers ==
  /\ MaxTurns \in Nat /\ MaxDeliveries \in Nat /\ MaxCrashes \in Nat /\ MaxRebinds \in Nat
  /\ 0 \notin TurnIds /\ TurnIds \subseteq Nat
BY TurnsAssumption DEF TurnIds

LEMMA NoTurnTyped == NoTurn \in TurnType /\ NoTurn.id = 0 /\ ~ NoTurn.injected /\ ~ NoTurn.prepared
                     /\ NoTurn.boundary = "prepared"
BY DEF NoTurn, TurnType, Boundaries

LEMMA FreshTyped == Fresh \in StateType /\ Fresh.turn = NoTurn /\ Fresh.unknown = {}
BY NoTurnTyped DEF Fresh, StateType

(* A turn that is there has a number. *)
LEMMA TurnHasNumber ==
  ASSUME TypeOK, Sound(mem), HasTurn
  PROVE  mem.turn.id \in TurnIds /\ mem.turn \in TurnType
BY DEF TypeOK, StateType, TurnType, Sound, HasTurn

(* Rows are added to rows. *)
LEMMA Joined ==
  ASSUME NEW S, NEW s \in Seq(S), NEW t \in Seq(S)
  PROVE  /\ s \o t \in Seq(S)
         /\ \A i \in DOMAIN (s \o t) : \/ i \in DOMAIN s /\ (s \o t)[i] = s[i]
                                       \/ \E j \in DOMAIN t : (s \o t)[i] = t[j]
         /\ \A i \in DOMAIN s : i \in DOMAIN (s \o t) /\ (s \o t)[i] = s[i]
         /\ \A j \in DOMAIN t : \E i \in DOMAIN (s \o t) : (s \o t)[i] = t[j]
<1>1. /\ s \o t \in Seq(S) /\ Len(s \o t) = Len(s) + Len(t)
      /\ \A i \in 1 .. Len(s) + Len(t) : (s \o t)[i] = IF i <= Len(s) THEN s[i] ELSE t[i - Len(s)]
  BY ConcatProperties
<1>2. /\ DOMAIN (s \o t) = 1 .. Len(s) + Len(t) /\ DOMAIN s = 1 .. Len(s) /\ DOMAIN t = 1 .. Len(t)
      /\ Len(s) \in Nat /\ Len(t) \in Nat
  BY <1>1, LenProperties
<1>3. ASSUME NEW i \in DOMAIN (s \o t), i > Len(s)
      PROVE  i - Len(s) \in DOMAIN t /\ (s \o t)[i] = t[i - Len(s)]
  BY <1>1, <1>2, <1>3
<1>4. ASSUME NEW j \in DOMAIN t
      PROVE  Len(s) + j \in DOMAIN (s \o t) /\ (s \o t)[Len(s) + j] = t[j]
  <2>1. Len(s) + j \in 1 .. Len(s) + Len(t) /\ ~ (Len(s) + j <= Len(s)) /\ Len(s) + j - Len(s) = j
    BY <1>2
  <2> QED BY <2>1, <1>1, <1>2
<1>5. \A i \in DOMAIN s : i \in DOMAIN (s \o t) /\ (s \o t)[i] = s[i]
  BY <1>1, <1>2
<1>6. \A i \in DOMAIN (s \o t) : i <= Len(s) => i \in DOMAIN s
  BY <1>2
<1>7. \A i \in DOMAIN (s \o t) : i <= Len(s) \/ i > Len(s)
  BY <1>2
<1> QED BY <1>1, <1>3, <1>4, <1>5, <1>6, <1>7

LEMMA OneRow == ASSUME NEW S, NEW r \in S PROVE <<r>> \in Seq(S) /\ \A i \in DOMAIN <<r>> : <<r>>[i] = r
OBVIOUS

LEMMA SameRows ==
  ASSUME NEW S, NEW r \in S, NEW n \in Nat
  PROVE  [i \in 1 .. n |-> r] \in Seq(S)
<1>1. [i \in 1 .. n |-> r] \in [1 .. n -> S]
  OBVIOUS
<1> QED BY <1>1, SeqDef

-----------------------------------------------------------------------------
Steps == {"idle"} \cup Awaits \cup Sync
Fair(new) == \A i \in DOMAIN new : Claims(new[i]) => new[i].turn \in accepted

LEMMA AddRows ==
  ASSUME rows \in Seq(RowType), Honest, NEW new \in Seq(RowType), Fair(new),
         rows' = rows \o new, accepted' = accepted
  PROVE  rows' \in Seq(RowType) /\ Honest'
<1>1. /\ rows' \in Seq(RowType)
      /\ \A i \in DOMAIN rows' : \/ i \in DOMAIN rows /\ rows'[i] = rows[i]
                                 \/ \E j \in DOMAIN new : rows'[i] = new[j]
  BY Joined
<1> QED BY <1>1 DEF Honest, Fair, Claims

(* A save of a sound state with rows that claim nothing untrue. *)
LEMMA SaveKeeps ==
  ASSUME IInv, NEW state \in StateType, Sound(state), NEW new \in Seq(RowType), Fair(new),
         NEW next, Save(state, new, next), accepted' = accepted
  PROVE  /\ jour' \in [Sessions -> StateType] /\ rows' \in Seq(RowType) /\ mem' \in StateType
         /\ Honest' /\ Sound(mem)' /\ (\A s \in Sessions : Sound(jour[s])')
         /\ pc' \in {next, "idle"}
<1>1. bind \in Sessions /\ jour \in [Sessions -> StateType] /\ rows \in Seq(RowType) /\ Honest
      /\ \A s \in Sessions : Sound(jour[s])
  BY DEF IInv, TypeOK
<1>2. mem' = state
  BY DEF Save
<1>3. Sound(mem)'
  BY <1>2 DEF Sound
<1>4. CASE jour' = [jour EXCEPT ![bind] = state] /\ rows' = rows \o new /\ pc' = next
  <2>1. rows' \in Seq(RowType) /\ Honest'
    BY <1>1, <1>4, AddRows
  <2>2. jour' \in [Sessions -> StateType]
    BY <1>1, <1>4
  <2>3. \A s \in Sessions : jour'[s] = IF s = bind THEN state ELSE jour[s]
    BY <1>1, <1>4
  <2>4. \A s \in Sessions : Sound(jour[s])'
    BY <1>1, <2>3 DEF Sound
  <2> QED BY <1>2, <1>3, <1>4, <2>1, <2>2, <2>4
<1>5. CASE pc' = "idle" /\ UNCHANGED store
  <2>1. rows' = rows /\ jour' = jour
    BY <1>5 DEF store
  <2>2. Honest' /\ \A s \in Sessions : Sound(jour[s])'
    BY <1>1, <2>1 DEF Honest, Claims, Sound
  <2> QED BY <1>1, <1>2, <1>3, <1>5, <2>1, <2>2
<1> QED BY <1>4, <1>5 DEF Save

(* finish closes the turn, and its record says what the turn does. *)
LEMMA FinishedKeeps ==
  ASSUME IInv, HasTurn, NEW response \in TurnIds \cup {0}
  PROVE  /\ Finished \in StateType /\ Sound(Finished) /\ Finished.turn = NoTurn
         /\ <<TurnRow(response)>> \in Seq(RowType) /\ Fair(<<TurnRow(response)>>)
         /\ TurnRow(response) \in RowType
<1>1. mem \in StateType /\ Sound(mem) /\ bind \in Sessions
  BY DEF IInv, TypeOK
<1>2. mem.turn.id \in TurnIds /\ mem.turn \in TurnType
  BY <1>1, TurnHasNumber DEF IInv
<1>3. Finished \in StateType /\ Finished.turn = NoTurn
  <2> DEFINE kept == IF mem.turn.prepared /\ mem.turn.boundary # "harness_input_accepted"
                     THEN mem.unknown \cup {mem.turn.id} ELSE mem.unknown
  <2>1. kept \in SUBSET TurnIds
    BY <1>1, <1>2 DEF StateType
  <2>2. Finished = [mem EXCEPT !.turn = NoTurn, !.unknown = kept]
    BY DEF Finished
  <2> HIDE DEF kept
  <2> QED BY <1>1, <2>1, <2>2, NoTurnTyped DEF StateType
<1>4. Sound(Finished)
  BY <1>3, NoTurnTyped DEF Sound
<1> DEFINE row == TurnRow(response)
<1>5. row \in RowType
  BY <1>1, <1>2 DEF TurnRow, RowType, StateType, TurnType
<1>6. Claims(row) => row.turn \in accepted
  BY <1>1 DEF TurnRow, Claims, Sound
<1> HIDE DEF row
<1>7. <<row>> \in Seq(RowType) /\ \A i \in DOMAIN <<row>> : <<row>>[i] = row
  BY <1>5, OneRow
<1>8. Fair(<<row>>)
  BY <1>6, <1>7 DEF Fair
<1> QED BY <1>3, <1>4, <1>5, <1>7, <1>8 DEF row

LEMMA FinishKeeps ==
  ASSUME IInv, NEW response \in TurnIds \cup {0}, NEW next, Finish(response, next), accepted' = accepted
  PROVE  /\ jour' \in [Sessions -> StateType] /\ rows' \in Seq(RowType) /\ mem' \in StateType
         /\ Honest' /\ Sound(mem)' /\ (\A s \in Sessions : Sound(jour[s])')
         /\ pc' \in {next, "idle"}
<1>1. CASE HasTurn
  BY <1>1, FinishedKeeps, SaveKeeps DEF Finish
<1>2. CASE ~ HasTurn
  <2>1. pc' = next /\ UNCHANGED <<mem, jour, rows>>
    BY <1>2 DEF Finish
  <2> QED BY <2>1 DEF IInv, TypeOK, Honest, Claims, Sound
<1> QED BY <1>1, <1>2

(* A session row claims nothing. *)
LEMMA SessionRowKeeps ==
  ASSUME IInv, NEW status \in {"active", "completed", "abandoned"}
  PROVE  /\ [mem EXCEPT !.version = @ + 1] \in StateType /\ Sound([mem EXCEPT !.version = @ + 1])
         /\ <<SessionRow(status)>> \in Seq(RowType) /\ Fair(<<SessionRow(status)>>)
<1>1. mem \in StateType /\ Sound(mem) /\ bind \in Sessions
  BY DEF IInv, TypeOK
<1>2. [mem EXCEPT !.version = @ + 1] \in StateType /\ [mem EXCEPT !.version = @ + 1].turn = mem.turn
  BY <1>1 DEF StateType
<1>3. Sound([mem EXCEPT !.version = @ + 1])
  BY <1>1, <1>2 DEF Sound
<1> DEFINE row == SessionRow(status)
<1>4. row \in RowType /\ ~ Claims(row)
  BY <1>1 DEF SessionRow, RowType, StateType, Claims
<1> HIDE DEF row
<1>5. <<row>> \in Seq(RowType) /\ \A i \in DOMAIN <<row>> : <<row>>[i] = row
  BY <1>4, OneRow
<1>6. Fair(<<row>>)
  BY <1>4, <1>5 DEF Fair
<1> QED BY <1>2, <1>3, <1>5, <1>6 DEF row

LEMMA EnsureKeeps ==
  ASSUME IInv, NEW next, EnsureSession(next), accepted' = accepted
  PROVE  /\ jour' \in [Sessions -> StateType] /\ rows' \in Seq(RowType) /\ mem' \in StateType
         /\ Honest' /\ Sound(mem)' /\ (\A s \in Sessions : Sound(jour[s])')
         /\ pc' \in {next, "idle"} /\ entered' \in BOOLEAN
<1>1. CASE entered
  <2>1. pc' = next /\ UNCHANGED <<mem, entered, jour, rows>>
    BY <1>1 DEF EnsureSession
  <2> QED BY <2>1 DEF IInv, TypeOK, Honest, Claims, Sound
<1>2. CASE ~ entered
  <2>1. entered' = TRUE /\ Save([mem EXCEPT !.version = @ + 1], <<SessionRow("active")>>, next)
    BY <1>2 DEF EnsureSession
  <2> QED BY <2>1, SessionRowKeeps, SaveKeeps
<1> QED BY <1>1, <1>2

-----------------------------------------------------------------------------
(* What a step that only saves, or saves nothing, has to leave in place. *)
Kept ==
  /\ jour' \in [Sessions -> StateType] /\ rows' \in Seq(RowType) /\ mem' \in StateType
  /\ Honest' /\ Sound(mem)' /\ (\A s \in Sessions : Sound(jour[s])')

LEMMA Unsaved ==
  ASSUME IInv, UNCHANGED <<jour, rows, mem, accepted>>
  PROVE  Kept
BY DEF IInv, TypeOK, Kept, Honest, Claims, Sound

(* A save of memory as it is, or of another state in its place, without rows. *)
LEMMA StateKeeps ==
  ASSUME IInv, NEW state \in StateType, Sound(state), accepted' = accepted, rows' = rows,
         jour' = [jour EXCEPT ![bind] = state] \/ jour' = jour,
         mem' = state
  PROVE  Kept
<1>1. bind \in Sessions /\ jour \in [Sessions -> StateType] /\ rows \in Seq(RowType) /\ Honest
      /\ \A s \in Sessions : Sound(jour[s])
  BY DEF IInv, TypeOK
<1>2. jour' \in [Sessions -> StateType]
  BY <1>1
<1>3. \A s \in Sessions : jour'[s] = state \/ jour'[s] = jour[s]
  BY <1>1
<1>4. \A s \in Sessions : Sound(jour[s])'
  BY <1>1, <1>3 DEF Sound
<1>5. Honest' /\ Sound(mem)'
  BY <1>1 DEF Honest, Claims, Sound
<1> QED BY <1>1, <1>2, <1>4, <1>5 DEF Kept

LEMMA OpenKeeps ==
  ASSUME IInv, SubmitOpen
  PROVE  IInv'
<1> DEFINE t == Len(opened) + 1
           turn == NewTurn(t)
           state == [mem EXCEPT !.index = @ + 1, !.turn = turn]
<1>1. TypeOK /\ Stage /\ mem \in StateType /\ opened \in Seq(Sessions) /\ bind \in Sessions
  BY DEF IInv, TypeOK
<1>2. pc = "submit.open" /\ Len(opened) < MaxTurns /\ Len(opened) \in Nat
  BY <1>1, LenProperties DEF SubmitOpen, At, Stage
<1>3. t \in TurnIds
  BY <1>2, BoundsAreNumbers DEF TurnIds
<1>4. turn \in TurnType /\ turn.id = t /\ ~ turn.injected /\ turn.boundary = "prepared"
  BY <1>3 DEF NewTurn, NoTurn, TurnType, Boundaries
<1>5. Save(state, <<>>, "submit.sync") /\ accepted' = accepted
  BY DEF SubmitOpen
<1> HIDE DEF turn
<1>6. state \in StateType /\ state.turn = turn
  <2> DEFINE index == mem.index + 1
  <2>1. index \in Nat
    BY <1>1 DEF StateType
  <2>2. state = [mem EXCEPT !.index = index, !.turn = turn]
    OBVIOUS
  <2> HIDE DEF index, state
  <2>3. state.turn = turn
    BY <1>1, <2>2 DEF StateType
  <2>4. state \in StateType
    BY <1>1, <1>4, <2>1, <2>2 DEF StateType
  <2> QED BY <2>3, <2>4
<1>7. Sound(state)
  BY <1>3, <1>4, <1>6, BoundsAreNumbers DEF Sound
<1> HIDE DEF state
<1>8. <<>> \in Seq(RowType) /\ Fair(<<>>)
  BY DEF Fair
<1>9. Kept /\ pc' \in {"submit.sync", "idle"}
  BY <1>6, <1>7, <1>5, <1>8, SaveKeeps DEF Kept
<1>10. opened' \in Seq(Sessions) /\ Len(opened') = Len(opened) + 1
  BY <1>1, AppendProperties DEF SubmitOpen
<1>11. prompt' \in TurnIds /\ Len(opened') <= MaxTurns
  BY <1>2, <1>3, <1>10, BoundsAreNumbers DEF SubmitOpen
<1>12. TypeOK'
  BY <1>1, <1>9, <1>10, <1>11 DEF SubmitOpen, Kept, TypeOK, Awaits
<1>13. Stage'
  BY <1>9 DEF Stage
<1> QED BY <1>9, <1>12, <1>13 DEF IInv, Kept

LEMMA PrepareKeeps ==
  ASSUME IInv, NEW n \in 0 .. MaxDeliveries, SubmitPrepare(n)
  PROVE  IInv'
<1> DEFINE prepared == [mem EXCEPT !.turn.prepared = TRUE]
           unknown == [prepared EXCEPT !.turn.boundary = "acceptance_unknown"]
<1>1. TypeOK /\ Stage /\ mem \in StateType /\ Sound(mem) /\ HasTurn
  BY DEF IInv, TypeOK, SubmitPrepare
<1>2. mem.turn.id \in TurnIds /\ mem.turn \in TurnType
  BY <1>1, TurnHasNumber
<1>3. /\ prepared \in StateType /\ prepared.turn.id = mem.turn.id
      /\ prepared.turn.injected = mem.turn.injected /\ prepared.turn.boundary = mem.turn.boundary
  BY <1>1, <1>2 DEF StateType, TurnType
<1>4. /\ unknown \in StateType /\ unknown.turn.id = mem.turn.id
      /\ unknown.turn.injected = mem.turn.injected /\ unknown.turn.boundary = "acceptance_unknown"
  BY <1>3 DEF StateType, TurnType, Boundaries
<1>5. Sound(prepared) /\ Sound(unknown)
  BY <1>1, <1>2, <1>3, <1>4, BoundsAreNumbers DEF Sound
<1>6. /\ rows' = rows /\ accepted' = accepted /\ offered' = [offered EXCEPT ![mem.turn.id] = n]
      /\ UNCHANGED <<bind, entered, ended, gen, pinned, alive, opened, prompt, crashes>>
      /\ \/ mem' = prepared /\ jour' = [jour EXCEPT ![bind] = prepared]
            /\ pc' = "submit.attach" /\ cur' = mem.turn.id
         \/ mem' = unknown /\ pc' = "idle" /\ jour' = jour /\ cur' = cur
  BY DEF SubmitPrepare
<1> HIDE DEF prepared, unknown
<1>7. Kept
  BY <1>3, <1>4, <1>5, <1>6, StateKeeps
<1>8. offered' \in [TurnIds -> 0 .. MaxDeliveries]
  BY <1>1, <1>6 DEF TypeOK
<1>9. TypeOK'
  BY <1>1, <1>2, <1>6, <1>7, <1>8 DEF TypeOK, Kept, Awaits
<1>10. Stage'
  BY <1>2, <1>6 DEF Stage
<1> QED BY <1>7, <1>9, <1>10 DEF IInv, Kept

(* The harness takes the injection of the turn on_submit holds. *)
LEMMA AddMessageKeeps ==
  ASSUME IInv, AddMessage
  PROVE  IInv'
<1>1. TypeOK /\ Stage /\ pc = "submit.attach" /\ cur \in TurnIds
  BY DEF IInv, AddMessage, At, Stage
<1>2. accepted' = accepted \cup {cur} /\ pc' = "submit.accepted"
      /\ UNCHANGED <<cur, alive, opened, offered, prompt, crashes, jour, rows, bind, mem, entered, ended, gen, pinned>>
  BY DEF AddMessage, store, memory
<1>3. TypeOK'
  BY <1>1, <1>2 DEF TypeOK, Awaits
<1>4. Stage'
  BY <1>1, <1>2 DEF Stage
<1>5. Honest' /\ Sound(mem)' /\ \A s \in Sessions : Sound(jour[s])'
  BY <1>2 DEF IInv, Honest, Claims, Sound
<1> QED BY <1>3, <1>4, <1>5 DEF IInv

LEMMA ReceiptsKeep ==
  ASSUME IInv, CommitReceipts
  PROVE  IInv'
<1> DEFINE taken == [mem EXCEPT !.turn.boundary = "harness_input_accepted", !.turn.injected = TRUE]
           delivered == IF IsOpen(cur) THEN taken ELSE mem
           row == [session |-> bind, op |-> "acknowledgement", turn |-> cur]
           new == [i \in 1 .. offered[cur] |-> row]
<1>1. /\ TypeOK /\ Stage /\ mem \in StateType /\ Sound(mem) /\ mem.turn \in TurnType
      /\ pc = "submit.accepted" /\ cur \in TurnIds /\ cur \in accepted
      /\ bind \in Sessions /\ offered[cur] \in Nat
  BY BoundsAreNumbers DEF IInv, TypeOK, CommitReceipts, At, Stage, StateType
<1>2. /\ taken \in StateType /\ taken.turn.id = mem.turn.id
      /\ taken.turn.injected /\ taken.turn.boundary = "harness_input_accepted"
  BY <1>1 DEF StateType, TurnType, Boundaries
<1>3. delivered \in StateType /\ Sound(delivered)
  BY <1>1, <1>2, BoundsAreNumbers DEF Sound, IsOpen
<1>4. row \in RowType /\ row.turn \in accepted
  BY <1>1 DEF RowType
<1>5. /\ mem' = delivered /\ jour' = [jour EXCEPT ![bind] = delivered] /\ rows' = rows \o new
      /\ pc' = "idle" /\ cur' = 0
      /\ UNCHANGED <<bind, entered, ended, gen, pinned, alive, opened, offered, prompt, accepted, crashes>>
  BY DEF CommitReceipts, world
<1> HIDE DEF delivered, row
<1>6. new \in Seq(RowType)
  BY <1>1, <1>4, SameRows
<1>7. Fair(new)
  BY <1>4 DEF Fair
<1> HIDE DEF new
<1>8. rows' \in Seq(RowType) /\ Honest'
  BY <1>1, <1>5, <1>6, <1>7, AddRows DEF IInv, TypeOK
<1>9. jour' \in [Sessions -> StateType] /\ \A s \in Sessions : jour'[s] = delivered \/ jour'[s] = jour[s]
  BY <1>1, <1>3, <1>5 DEF TypeOK
<1>10. Sound(mem)' /\ \A s \in Sessions : Sound(jour[s])'
  BY <1>3, <1>5, <1>9 DEF IInv, Sound
<1>11. TypeOK'
  BY <1>1, <1>3, <1>5, <1>8, <1>9 DEF TypeOK
<1>12. Stage'
  BY <1>5 DEF Stage
<1> QED BY <1>8, <1>10, <1>11, <1>12 DEF IInv

LEMMA UnknownKeeps ==
  ASSUME IInv, DeliveryUnknown
  PROVE  IInv'
<1> DEFINE state == [mem EXCEPT !.turn.boundary = "acceptance_unknown", !.turn.injected = FALSE]
<1>1. TypeOK /\ mem \in StateType /\ Sound(mem) /\ mem.turn \in TurnType
  BY DEF IInv, TypeOK, StateType
<1>2. /\ state \in StateType /\ state.turn.id = mem.turn.id
      /\ ~ state.turn.injected /\ state.turn.boundary = "acceptance_unknown"
  BY <1>1 DEF StateType, TurnType, Boundaries
<1>3. HasTurn => Sound(state)
  BY <1>1, <1>2 DEF Sound, HasTurn
<1>4. /\ mem' = mem \/ (HasTurn /\ mem' = state)
      /\ pc' = "idle" /\ cur' = 0
      /\ UNCHANGED <<jour, rows, bind, entered, ended, gen, pinned, alive, opened, offered, prompt, accepted, crashes>>
  BY DEF DeliveryUnknown, store, world
<1> HIDE DEF state
<1>5. Kept
  BY <1>1, <1>2, <1>3, <1>4, StateKeeps
<1>6. TypeOK'
  BY <1>1, <1>4, <1>5 DEF TypeOK, Kept
<1>7. Stage'
  BY <1>4 DEF Stage
<1> QED BY <1>5, <1>6, <1>7 DEF IInv, Kept

LEMMA RebindKeeps ==
  ASSUME IInv, NEW s \in Sessions, Rebind(s)
  PROVE  IInv'
<1>1. TypeOK /\ Stage /\ mem \in StateType /\ bind \in Sessions /\ jour \in [Sessions -> StateType]
      /\ Honest /\ Sound(mem) /\ \A x \in Sessions : Sound(jour[x])
  BY DEF IInv, TypeOK
<1>2. /\ alive /\ pc \notin Sync /\ gen <= MaxRebinds
      /\ UNCHANGED <<pinned, pc, cur, alive, opened, offered, prompt, accepted, crashes>>
  BY DEF Rebind, world
<1>3. Stage'
  BY <1>1, <1>2 DEF Stage
<1>4. ASSUME HasTurn, jour' = [jour EXCEPT ![bind] = Finished], rows' = Append(rows, TurnRow(0)), mem' = jour[s]
      PROVE  Kept
  <2>1. /\ Finished \in StateType /\ Sound(Finished)
        /\ <<TurnRow(0)>> \in Seq(RowType) /\ Fair(<<TurnRow(0)>>) /\ TurnRow(0) \in RowType
    BY <1>4, FinishedKeeps
  <2>2. rows' = rows \o <<TurnRow(0)>>
    <3> HIDE DEF TurnRow
    <3> QED BY <1>1, <1>4, <2>1, AppendIsConcat DEF TypeOK
  <2>3. rows' \in Seq(RowType) /\ Honest'
    BY <1>1, <1>2, <2>1, <2>2, AddRows DEF TypeOK
  <2>4. jour' \in [Sessions -> StateType] /\ \A x \in Sessions : jour'[x] = Finished \/ jour'[x] = jour[x]
    BY <1>1, <1>4, <2>1
  <2>5. Sound(mem)' /\ \A x \in Sessions : Sound(jour[x])'
    BY <1>1, <1>2, <1>4, <2>1, <2>4 DEF Sound
  <2> QED BY <1>1, <1>4, <2>3, <2>4, <2>5 DEF Kept
<1>5. ASSUME UNCHANGED store, mem' = jour[s]
      PROVE  Kept
  BY <1>1, <1>2, <1>5 DEF Kept, store, Honest, Claims, Sound, TypeOK
<1>6. CASE bind' = s /\ mem' = jour[s] /\ entered' = FALSE /\ ended' = FALSE /\ gen' = gen + 1
           /\ IF HasTurn
              THEN jour' = [jour EXCEPT ![bind] = Finished] /\ rows' = Append(rows, TurnRow(0))
              ELSE UNCHANGED store
  <2>1. Kept
    BY <1>4, <1>5, <1>6
  <2>2. gen' \in 1 .. MaxRebinds + 1
    BY <1>1, <1>2, <1>6, BoundsAreNumbers DEF TypeOK
  <2>3. TypeOK'
    BY <1>1, <1>2, <1>6, <2>1, <2>2 DEF TypeOK, Kept
  <2> QED BY <1>3, <2>1, <2>3 DEF IInv, Kept
<1>7. CASE HasTurn /\ mem' = Finished /\ UNCHANGED <<bind, entered, ended, gen>> /\ UNCHANGED store
  <2>1. Finished \in StateType /\ Sound(Finished)
    BY <1>7, FinishedKeeps
  <2>2. Kept
    BY <1>2, <1>7, <2>1, StateKeeps DEF store
  <2>3. TypeOK'
    BY <1>1, <1>2, <1>7, <2>2 DEF TypeOK, Kept
  <2> QED BY <1>3, <2>2, <2>3 DEF IInv, Kept
<1> QED BY <1>6, <1>7 DEF Rebind

-----------------------------------------------------------------------------
LEMMA InitKeeps == Init => IInv
<1> SUFFICES ASSUME Init PROVE IInv
  OBVIOUS
<1>1. Fresh \in StateType /\ Sound(Fresh)
  BY FreshTyped, NoTurnTyped DEF Sound
<1>2. TypeOK
  <2> HIDE DEF Fresh
  <2>1. jour \in [Sessions -> StateType] /\ mem \in StateType
    BY <1>1 DEF Init
  <2>2. rows \in Seq(RowType) /\ opened \in Seq(Sessions) /\ Len(opened) = 0
    BY DEF Init
  <2>3. Len(opened) <= MaxTurns /\ gen \in 1 .. MaxRebinds + 1 /\ pinned \in 0 .. MaxRebinds + 1
        /\ crashes \in 0 .. MaxCrashes
    BY <2>2, BoundsAreNumbers DEF Init
  <2>4. offered \in [TurnIds -> 0 .. MaxDeliveries] /\ accepted \subseteq TurnIds
    BY BoundsAreNumbers DEF Init
  <2> QED BY <2>1, <2>2, <2>3, <2>4 DEF Init, TypeOK
<1>3. Stage /\ Honest
  BY DEF Init, Stage, Honest
<1> QED BY <1>1, <1>2, <1>3 DEF Init, IInv

LEMMA NextKeeps == IInv /\ [Next]_vars => IInv'
<1> SUFFICES ASSUME IInv, [Next]_vars PROVE IInv'
  OBVIOUS
<1> USE DEF world, store, memory
<1>0. TypeOK /\ Stage
  BY DEF IInv
<1>1. CASE UNCHANGED vars
  <2>1. Kept
    BY <1>1, Unsaved DEF vars
  <2>2. TypeOK' /\ Stage'
    BY <1>0, <1>1 DEF vars, TypeOK, Stage
  <2> QED BY <2>1, <2>2 DEF IInv, Kept
<1>2. CASE SubmitRecover
  <2>1. Kept /\ pc' \in {"submit.open", "idle"}
    BY <1>2, FinishKeeps DEF SubmitRecover, Kept
  <2>2. TypeOK'
    BY <1>0, <1>2, <2>1 DEF SubmitRecover, TypeOK, Kept, Sync
  <2>3. Stage'
    BY <1>0, <1>2, <2>1 DEF SubmitRecover, At, Stage
  <2> QED BY <2>1, <2>2, <2>3 DEF IInv, Kept
<1>3. CASE SubmitOpen
  BY <1>3, OpenKeeps
<1>4. CASE \E n \in 0 .. MaxDeliveries : SubmitPrepare(n)
  BY <1>4, PrepareKeeps
<1>5. CASE AddMessage
  BY <1>5, AddMessageKeeps
<1>6. CASE CommitReceipts
  BY <1>6, ReceiptsKeep
<1>7. CASE DeliveryUnknown
  BY <1>7, UnknownKeeps
<1>8. CASE EndFinish
  <2>1. PICK next \in {"end.abandoned", "end.completed"} : Finish(0, next)
    BY <1>8 DEF EndFinish
  <2>2. Kept /\ pc' \in {next, "idle"}
    BY <1>8, <2>1, FinishKeeps DEF EndFinish, Kept
  <2>3. TypeOK'
    BY <1>0, <1>8, <2>2 DEF EndFinish, TypeOK, Kept, Sync
  <2>4. Stage'
    BY <2>2 DEF Stage
  <2> QED BY <2>2, <2>3, <2>4 DEF IInv, Kept
<1>9. ASSUME NEW from, NEW status \in {"completed", "abandoned"}, EndSession(from, status) PROVE IInv'
  <2>1. Save([mem EXCEPT !.version = @ + 1], <<SessionRow(status)>>, "idle") /\ accepted' = accepted
    BY <1>9 DEF EndSession
  <2>2. Kept /\ pc' = "idle"
    BY <2>1, SessionRowKeeps, SaveKeeps DEF Kept
  <2>3. TypeOK' /\ Stage'
    BY <1>0, <1>9, <2>2 DEF EndSession, TypeOK, Kept, Stage
  <2> QED BY <2>2, <2>3 DEF IInv, Kept
<1>10. CASE Release
  <2>1. Kept
    BY <1>10, Unsaved DEF Release
  <2>2. TypeOK' /\ Stage'
    BY <1>0, <1>10 DEF Release, TypeOK, Stage
  <2> QED BY <2>1, <2>2 DEF IInv, Kept
<1>11. CASE Start
  <2>1. Kept /\ pc' = "idle" /\ entered' \in BOOLEAN
    BY <1>11, EnsureKeeps DEF Start, Kept
  <2>2. TypeOK' /\ Stage'
    BY <1>0, <1>11, <2>1 DEF Start, TypeOK, Kept, Stage
  <2> QED BY <2>1, <2>2 DEF IInv, Kept
<1>12. CASE Submit
  <2>1. Kept /\ pc' \in {"submit.recover", "idle"} /\ entered' \in BOOLEAN
    BY <1>12, EnsureKeeps DEF Submit, Kept
  <2>2. TypeOK'
    BY <1>0, <1>12, <2>1 DEF Submit, TypeOK, Kept, Sync
  <2>3. Stage'
    BY <1>12, <2>1 DEF Submit, Stage
  <2> QED BY <2>1, <2>2, <2>3 DEF IInv, Kept
<1>13. CASE Complete
  <2>1. Kept /\ pc' = "idle"
    BY <1>0, <1>13, FinishKeeps DEF Complete, Kept, TypeOK
  <2>2. TypeOK' /\ Stage'
    BY <1>0, <1>13, <2>1 DEF Complete, TypeOK, Kept, Stage
  <2> QED BY <2>1, <2>2 DEF IInv, Kept
<1>14. CASE Cleanup
  <2>1. Kept
    BY <1>14, Unsaved DEF Cleanup
  <2>2. pinned' \in 0 .. MaxRebinds + 1
    BY <1>0, <1>14, BoundsAreNumbers DEF Cleanup, TypeOK
  <2>3. TypeOK' /\ Stage'
    BY <1>0, <1>14, <2>2 DEF Cleanup, TypeOK, Stage
  <2> QED BY <2>1, <2>3 DEF IInv, Kept
<1>15. CASE EndBegin
  <2>1. Kept /\ pc' \in {"end.finish", "idle"} /\ entered' \in BOOLEAN
    <3>1. CASE entered \/ HasTurn
      BY <1>15, <3>1, EnsureKeeps DEF EndBegin, Kept
    <3>2. CASE ~ (entered \/ HasTurn)
      BY <1>0, <1>15, <3>2, Unsaved DEF EndBegin, At, TypeOK
    <3> QED BY <3>1, <3>2
  <2>2. TypeOK'
    BY <1>0, <1>15, <2>1 DEF EndBegin, TypeOK, Kept, Sync
  <2>3. Stage'
    BY <2>1 DEF Stage
  <2> QED BY <2>1, <2>2, <2>3 DEF IInv, Kept
<1>16. CASE SaveState
  <2>1. Kept
    BY <1>0, <1>16, StateKeeps DEF SaveState, IInv, TypeOK
  <2>2. TypeOK' /\ Stage'
    BY <1>0, <1>16, <2>1 DEF SaveState, TypeOK, Kept, Stage
  <2> QED BY <2>1, <2>2 DEF IInv, Kept
<1>17. ASSUME NEW s \in Sessions, Rebind(s) PROVE IInv'
  BY <1>17, RebindKeeps
<1>18. ASSUME NEW s \in Sessions, Restart(s) PROVE IInv'
  <2>1. Kept
    BY <1>0, <1>18 DEF Restart, IInv, Kept, TypeOK, Honest, Claims, Sound
  <2>2. TypeOK' /\ Stage'
    BY <1>0, <1>18, <2>1 DEF Restart, TypeOK, Kept, Stage
  <2> QED BY <2>1, <2>2 DEF IInv, Kept
<1>19. CASE Crash
  <2>1. Kept
    BY <1>0, <1>19, FreshTyped, NoTurnTyped DEF Crash, IInv, Kept, TypeOK, Honest, Claims, Sound
  <2>2. crashes' \in 0 .. MaxCrashes /\ pinned' \in 0 .. MaxRebinds + 1
    BY <1>0, <1>19, BoundsAreNumbers DEF Crash, TypeOK
  <2>3. TypeOK' /\ Stage'
    BY <1>0, <1>19, <2>1, <2>2 DEF Crash, TypeOK, Kept, Stage
  <2> QED BY <2>1, <2>3 DEF IInv, Kept
<1> QED BY <1>1, <1>2, <1>3, <1>4, <1>5, <1>6, <1>7, <1>8, <1>9, <1>10, <1>11, <1>12, <1>13, <1>14,
           <1>15, <1>16, <1>17, <1>18, <1>19 DEF Next, Handler, Host

LEMMA Inductive == Spec => []IInv
BY InitKeeps, NextKeeps, PTL DEF Spec

(* Every state of the hook and its journal has its type. *)
THEOREM TypeCorrect == Spec => []TypeOK
<1>1. IInv => TypeOK
  BY DEF IInv
<1> QED BY <1>1, Inductive, PTL

(* Neither a receipt nor the record of a turn claims a delivery that the
   harness was not seen to accept, also when saves fail and rebinds interrupt
   on_submit ("The receipt contract"): on_submit, finish. *)
THEOREM NoInventedReceiptAlways == Spec => []NoInventedReceipt
<1>1. IInv => NoInventedReceipt
  BY DEF IInv, Honest, Claims, NoInventedReceipt, Receipts, Delivered, TurnRows
<1> QED BY <1>1, Inductive, PTL

-----------------------------------------------------------------------------
(* What was accepted stays accounted for.  Where no save fails, the memory of
   a process knows every candidate that the journal of its session has, so a
   save that puts memory in the journal's place loses none. *)
Accounted(t) ==
  \/ Delivered(t)
  \/ \E s \in Sessions : OpenIn(s, t) /\ jour[s].turn.prepared
  \/ \E s \in Sessions : t \in jour[s].unknown

(* Accepted, or about to be. *)
Pending(t) == t \in accepted \/ (pc \in {"submit.attach", "submit.accepted"} /\ t = cur)

Covers ==
  /\ jour[bind].unknown \subseteq mem.unknown
  /\ jour[bind].turn.prepared => mem.turn.prepared /\ mem.turn.id = jour[bind].turn.id

AInv ==
  /\ \A t \in TurnIds : Pending(t) => Accounted(t)
  /\ alive => Covers
  /\ pc = "submit.open" => alive /\ ~ HasTurn

(* A step after which no turn is newly pending and none is dropped. *)
Carries == \A t \in TurnIds : Accounted(t) => Accounted(t)'

(* The turn that memory has is open in the state, set aside by it, or delivered. *)
Succeeds(state) ==
  /\ mem.unknown \subseteq state.unknown
  /\ \A t \in TurnIds : mem.turn.prepared /\ mem.turn.id = t =>
       \/ state.turn.prepared /\ state.turn.id = t
       \/ t \in state.unknown
       \/ Delivered(t)'
Grows == \A i \in DOMAIN rows : i \in DOMAIN rows' /\ rows'[i] = rows[i]

LEMMA StillDelivered ==
  ASSUME Grows, NEW t, Delivered(t)
  PROVE  Delivered(t)'
<1>1. PICK i \in DOMAIN rows : rows[i].op = "turn.upsert" /\ rows[i].turn = t /\ rows[i].injected
  BY DEF Delivered, TurnRows
<1>2. i \in DOMAIN rows' /\ rows'[i] = rows[i]
  BY DEF Grows
<1> QED BY <1>1, <1>2 DEF Delivered, TurnRows

LEMMA Replaced ==
  ASSUME TypeOK, Covers, NEW state \in StateType, Succeeds(state), Grows,
         jour' = [jour EXCEPT ![bind] = state]
  PROVE  Carries
<1> SUFFICES ASSUME NEW t \in TurnIds, Accounted(t) PROVE Accounted(t)'
  BY DEF Carries
<1>1. bind \in Sessions /\ jour \in [Sessions -> StateType]
  BY DEF TypeOK
<1>2. jour'[bind] = state /\ \A s \in Sessions : s # bind => jour'[s] = jour[s]
  BY <1>1
<1>3. CASE Delivered(t)
  BY <1>3, StillDelivered DEF Accounted
<1>4. ASSUME NEW s \in Sessions, OpenIn(s, t) /\ jour[s].turn.prepared PROVE Accounted(t)'
  <2>1. CASE s # bind
    BY <1>2, <1>4, <2>1 DEF Accounted, OpenIn
  <2>2. CASE s = bind
    <3>1. mem.turn.prepared /\ mem.turn.id = t
      BY <1>4, <2>2 DEF Covers, OpenIn
    <3>2. (state.turn.prepared /\ state.turn.id = t) \/ t \in state.unknown \/ Delivered(t)'
      BY <3>1 DEF Succeeds
    <3> QED BY <1>1, <1>2, <3>2 DEF Accounted, OpenIn
  <2> QED BY <2>1, <2>2
<1>5. ASSUME NEW s \in Sessions, t \in jour[s].unknown PROVE Accounted(t)'
  BY <1>1, <1>2, <1>5 DEF Accounted, Covers, Succeeds
<1> QED BY <1>3, <1>4, <1>5 DEF Accounted

LEMMA Untouched ==
  ASSUME UNCHANGED <<jour, rows>>
  PROVE  Carries
BY DEF Carries, Accounted, Delivered, TurnRows, OpenIn

LEMMA SavedCovers ==
  ASSUME TypeOK, bind' = bind, jour' = [jour EXCEPT ![bind] = mem'], mem' \in StateType
  PROVE  Covers'
BY DEF TypeOK, Covers

LEMMA RowsGrow ==
  ASSUME rows \in Seq(RowType), NEW new \in Seq(RowType), rows' = rows \o new
  PROVE  Grows /\ \A j \in DOMAIN new : \E i \in DOMAIN rows' : rows'[i] = new[j]
BY Joined DEF Grows

LEMMA SaveCarries ==
  ASSUME SaveMayFail = FALSE, TypeOK, Covers, NEW state \in StateType, Succeeds(state),
         NEW new \in Seq(RowType), NEW next, Save(state, new, next), bind' = bind
  PROVE  Carries /\ Covers' /\ pc' = next /\ mem' = state
<1>1. mem' = state /\ jour' = [jour EXCEPT ![bind] = state] /\ rows' = rows \o new /\ pc' = next
  BY DEF Save
<1>2. Grows
  BY <1>1, RowsGrow DEF TypeOK
<1> QED BY <1>1, <1>2, Replaced, SavedCovers

(* finish: a candidate is set aside unless its record says it was delivered. *)
LEMMA FinishedSucceeds ==
  ASSUME IInv, HasTurn, NEW response, <<TurnRow(response)>> \in Seq(RowType),
         rows' = rows \o <<TurnRow(response)>>
  PROVE  Succeeds(Finished)
<1>1. mem \in StateType /\ mem.turn \in TurnType /\ Sound(mem)
  BY DEF IInv, TypeOK, StateType
<1>2. Finished.unknown = IF mem.turn.prepared /\ mem.turn.boundary # "harness_input_accepted"
                         THEN mem.unknown \cup {mem.turn.id} ELSE mem.unknown
  BY <1>1 DEF Finished, StateType
<1>3. PICK i \in DOMAIN rows' : rows'[i] = TurnRow(response)
  <2> DEFINE new == <<TurnRow(response)>>
  <2>1. 1 \in DOMAIN new /\ new[1] = TurnRow(response)
    OBVIOUS
  <2> HIDE DEF new
  <2>2. \E i \in DOMAIN rows' : rows'[i] = new[1]
    BY <2>1, RowsGrow DEF IInv, TypeOK, new
  <2> QED BY <2>1, <2>2
<1>4. ASSUME NEW t \in TurnIds, mem.turn.id = t, mem.turn.injected PROVE Delivered(t)'
  <2>1. rows'[i].op = "turn.upsert" /\ rows'[i].turn = t /\ rows'[i].injected
    BY <1>3, <1>4 DEF TurnRow
  <2> QED BY <1>3, <2>1 DEF Delivered, TurnRows
<1>5. ASSUME NEW t \in TurnIds, mem.turn.prepared, mem.turn.id = t
      PROVE  t \in Finished.unknown \/ Delivered(t)'
  BY <1>1, <1>2, <1>4, <1>5 DEF Sound
<1> QED BY <1>2, <1>5 DEF Succeeds

LEMMA FinishCarries ==
  ASSUME SaveMayFail = FALSE, IInv, Covers, NEW response \in TurnIds \cup {0}, NEW next,
         Finish(response, next), bind' = bind
  PROVE  Carries /\ Covers' /\ pc' = next /\ ~ HasTurn'
<1>1. CASE HasTurn
  <2>1. Finished \in StateType /\ Finished.turn = NoTurn /\ <<TurnRow(response)>> \in Seq(RowType)
    BY <1>1, FinishedKeeps
  <2>2. Save(Finished, <<TurnRow(response)>>, next)
    BY <1>1 DEF Finish
  <2>3. rows' = rows \o <<TurnRow(response)>>
    BY <2>2 DEF Save
  <2>4. Succeeds(Finished)
    BY <1>1, <2>1, <2>3, FinishedSucceeds
  <2>5. Carries /\ Covers' /\ pc' = next /\ mem' = Finished
    BY <2>1, <2>2, <2>4, SaveCarries DEF IInv
  <2> QED BY <2>1, <2>5 DEF HasTurn
<1>2. CASE ~ HasTurn
  <2>1. pc' = next /\ UNCHANGED <<mem, jour, rows>>
    BY <1>2 DEF Finish
  <2> QED BY <1>2, <2>1, Untouched DEF Covers, HasTurn
<1> QED BY <1>1, <1>2

LEMMA SessionSucceeds ==
  ASSUME TypeOK
  PROVE  Succeeds([mem EXCEPT !.version = @ + 1])
BY DEF TypeOK, StateType, Succeeds

LEMMA EnsureCarries ==
  ASSUME SaveMayFail = FALSE, IInv, Covers, NEW next, EnsureSession(next), bind' = bind
  PROVE  Carries /\ Covers' /\ pc' = next
<1>1. CASE entered
  <2>1. pc' = next /\ UNCHANGED <<mem, entered, jour, rows>>
    BY <1>1 DEF EnsureSession
  <2> QED BY <2>1, Untouched DEF Covers
<1>2. CASE ~ entered
  <2>1. Save([mem EXCEPT !.version = @ + 1], <<SessionRow("active")>>, next)
    BY <1>2 DEF EnsureSession
  <2>2. TypeOK
    BY DEF IInv
  <2> QED BY <2>1, <2>2, SessionRowKeeps, SessionSucceeds, SaveCarries
<1> QED BY <1>1, <1>2

(* Most steps end a handler or go to a stage at which nothing is held. *)
LEMMA Quiet ==
  ASSUME AInv, Carries, accepted' = accepted, alive' => Covers',
         pc' = "submit.open" => alive' /\ ~ HasTurn',
         (pc' = pc /\ cur' = cur) \/ pc' \notin {"submit.attach", "submit.accepted"}
  PROVE  AInv'
<1>1. \A t \in TurnIds : Pending(t)' => Pending(t)
  BY DEF Pending
<1> QED BY <1>1 DEF AInv, Carries

-----------------------------------------------------------------------------
LEMMA OpenCarries ==
  ASSUME SaveMayFail = FALSE, IInv, AInv, SubmitOpen
  PROVE  AInv'
<1> DEFINE state == [mem EXCEPT !.index = @ + 1, !.turn = NewTurn(Len(opened) + 1)]
<1>1. TypeOK /\ mem \in StateType /\ Covers /\ ~ mem.turn.prepared /\ bind' = bind
  BY NoTurnTyped DEF IInv, TypeOK, AInv, SubmitOpen, At, HasTurn
<1>2. Save(state, <<>>, "submit.sync") /\ mem' = state /\ accepted' = accepted /\ mem' \in StateType
  BY OpenKeeps DEF SubmitOpen, Save, IInv, TypeOK
<1>3. Succeeds(state)
  BY <1>1 DEF Succeeds, StateType
<1> HIDE DEF state
<1>4. state \in StateType /\ <<>> \in Seq(RowType)
  BY <1>2
<1>5. Carries /\ Covers' /\ pc' = "submit.sync"
  BY <1>1, <1>2, <1>3, <1>4, SaveCarries
<1> QED BY <1>2, <1>5, Quiet

LEMMA PrepareCarries ==
  ASSUME IInv, AInv, NEW n \in 0 .. MaxDeliveries, SubmitPrepare(n)
  PROVE  AInv'
<1> DEFINE prepared == [mem EXCEPT !.turn.prepared = TRUE]
           unknown == [prepared EXCEPT !.turn.boundary = "acceptance_unknown"]
<1>1. TypeOK /\ mem \in StateType /\ mem.turn \in TurnType /\ Covers /\ bind \in Sessions
  BY DEF IInv, TypeOK, StateType, AInv, SubmitPrepare, At
<1>2. /\ prepared \in StateType /\ prepared.turn.id = mem.turn.id
      /\ prepared.turn.prepared /\ prepared.unknown = mem.unknown
  BY <1>1 DEF StateType, TurnType
<1>3. /\ unknown.turn.id = mem.turn.id /\ unknown.turn.prepared /\ unknown.unknown = mem.unknown
  BY <1>2 DEF StateType, TurnType
<1>4. /\ rows' = rows /\ accepted' = accepted /\ bind' = bind
      /\ \/ mem' = prepared /\ jour' = [jour EXCEPT ![bind] = prepared]
            /\ pc' = "submit.attach" /\ cur' = mem.turn.id
         \/ mem' = unknown /\ pc' = "idle" /\ jour' = jour /\ cur' = cur
  BY DEF SubmitPrepare
<1> HIDE DEF prepared, unknown
<1>5. CASE mem' = prepared /\ jour' = [jour EXCEPT ![bind] = prepared]
           /\ pc' = "submit.attach" /\ cur' = mem.turn.id
  <2>1. Carries
    BY <1>1, <1>2, <1>4, <1>5, Replaced DEF Succeeds, Grows
  <2>2. Covers'
    BY <1>1, <1>2, <1>4, <1>5, SavedCovers
  <2>3. jour'[bind] = prepared
    BY <1>1, <1>5 DEF TypeOK
  <2>4. \A t \in TurnIds : t = cur' => Accounted(t)'
    BY <1>1, <1>2, <1>5, <2>3 DEF Accounted, OpenIn
  <2>5. \A t \in TurnIds : Pending(t)' => t \in accepted \/ t = cur'
    BY <1>4 DEF Pending
  <2>6. \A t \in TurnIds : t \in accepted => Accounted(t)'
    BY <2>1 DEF Carries, AInv, Pending
  <2> QED BY <1>5, <2>2, <2>4, <2>5, <2>6 DEF AInv
<1>6. CASE mem' = unknown /\ pc' = "idle" /\ jour' = jour /\ cur' = cur
  <2>1. Carries
    BY <1>4, <1>6, Untouched
  <2>2. Covers'
    BY <1>1, <1>3, <1>4, <1>6 DEF Covers
  <2> QED BY <1>4, <1>6, <2>1, <2>2, Quiet
<1> QED BY <1>4, <1>5, <1>6

LEMMA AddMessageCarries ==
  ASSUME IInv, AInv, AddMessage
  PROVE  AInv'
<1>1. accepted' = accepted \cup {cur} /\ cur' = cur /\ pc = "submit.attach" /\ pc' = "submit.accepted"
      /\ UNCHANGED <<jour, rows, mem, bind, alive>>
  BY DEF AddMessage, At, store, memory
<1>2. Carries
  BY <1>1, Untouched
<1>3. \A t \in TurnIds : Pending(t)' => Pending(t)
  BY <1>1 DEF Pending
<1>4. alive' => Covers'
  BY <1>1 DEF AInv, Covers
<1> QED BY <1>1, <1>2, <1>3, <1>4 DEF AInv, Carries

LEMMA ReceiptsCarry ==
  ASSUME IInv, AInv, CommitReceipts
  PROVE  AInv'
<1> DEFINE delivered == IF IsOpen(cur)
                        THEN [mem EXCEPT !.turn.boundary = "harness_input_accepted", !.turn.injected = TRUE]
                        ELSE mem
           row == [session |-> bind, op |-> "acknowledgement", turn |-> cur]
           new == [i \in 1 .. offered[cur] |-> row]
<1>1. TypeOK /\ mem \in StateType /\ mem.turn \in TurnType /\ Covers /\ rows \in Seq(RowType)
  BY DEF IInv, TypeOK, StateType, AInv, CommitReceipts, At
<1>2. /\ delivered.turn.id = mem.turn.id /\ delivered.turn.prepared = mem.turn.prepared
      /\ delivered.unknown = mem.unknown
  BY <1>1 DEF StateType, TurnType
<1>3. /\ mem' = delivered /\ jour' = [jour EXCEPT ![bind] = delivered] /\ rows' = rows \o new
      /\ pc' = "idle" /\ bind' = bind /\ accepted' = accepted
  BY DEF CommitReceipts, world
<1>4. row \in RowType /\ offered[cur] \in Nat
  BY BoundsAreNumbers DEF IInv, TypeOK, Stage, CommitReceipts, At, RowType
<1>5. mem' \in StateType
  BY ReceiptsKeep DEF IInv, TypeOK
<1> HIDE DEF delivered, row
<1>6. new \in Seq(RowType)
  BY <1>4, SameRows
<1> HIDE DEF new
<1>7. Grows
  BY <1>1, <1>3, <1>6, RowsGrow
<1>8. Carries
  BY <1>1, <1>2, <1>3, <1>5, <1>7, Replaced DEF Succeeds
<1>9. Covers'
  BY <1>1, <1>3, <1>5, SavedCovers
<1> QED BY <1>3, <1>8, <1>9, Quiet

LEMMA UnknownCarries ==
  ASSUME IInv, AInv, DeliveryUnknown
  PROVE  AInv'
<1>1. mem \in StateType /\ mem.turn \in TurnType /\ Covers
  BY DEF IInv, TypeOK, StateType, AInv, DeliveryUnknown
<1>2. /\ mem'.turn.id = mem.turn.id /\ mem'.turn.prepared = mem.turn.prepared
      /\ mem'.unknown = mem.unknown
  BY <1>1 DEF DeliveryUnknown, StateType, TurnType
<1>3. pc' = "idle" /\ UNCHANGED <<jour, rows, bind, accepted>>
  BY DEF DeliveryUnknown, store, world
<1>4. Carries /\ Covers'
  BY <1>1, <1>2, <1>3, Untouched DEF Covers
<1> QED BY <1>3, <1>4, Quiet

LEMMA RebindCarries ==
  ASSUME SaveMayFail = FALSE, IInv, AInv, NEW s \in Sessions, Rebind(s)
  PROVE  AInv'
<1>1. TypeOK /\ Covers /\ rows \in Seq(RowType) /\ bind \in Sessions /\ jour \in [Sessions -> StateType]
  BY DEF IInv, TypeOK, AInv, Rebind
<1>2. /\ pc \notin Sync /\ s # bind /\ bind' = s /\ mem' = jour[s]
      /\ UNCHANGED <<pc, cur, accepted>>
      /\ IF HasTurn
         THEN jour' = [jour EXCEPT ![bind] = Finished] /\ rows' = Append(rows, TurnRow(0))
         ELSE UNCHANGED <<jour, rows>>
  BY DEF Rebind, store, world
<1>3. Carries /\ jour'[s] = jour[s]
  <2>1. CASE HasTurn
    <3>1. Finished \in StateType /\ <<TurnRow(0)>> \in Seq(RowType) /\ TurnRow(0) \in RowType
      BY <2>1, FinishedKeeps
    <3>2. rows' = rows \o <<TurnRow(0)>>
      <4> HIDE DEF TurnRow
      <4> QED BY <1>1, <1>2, <2>1, <3>1, AppendIsConcat
    <3>3. Grows /\ Succeeds(Finished)
      BY <1>1, <2>1, <3>1, <3>2, RowsGrow, FinishedSucceeds
    <3>4. Carries
      BY <1>1, <1>2, <2>1, <3>1, <3>3, Replaced
    <3> QED BY <1>1, <1>2, <2>1, <3>4
  <2>2. CASE ~ HasTurn
    BY <1>2, <2>2, Untouched
  <2> QED BY <2>1, <2>2
<1>4. Covers'
  <2>1. mem' = jour[s] /\ jour'[bind'] = jour[s]
    BY <1>2, <1>3
  <2> QED BY <2>1 DEF Covers
<1> QED BY <1>2, <1>3, <1>4, Quiet DEF Sync

LEMMA InitAccounts == Init => AInv
<1> SUFFICES ASSUME Init PROVE AInv
  OBVIOUS
<1>1. bind \in Sessions /\ jour[bind] = Fresh /\ mem = Fresh /\ pc = "idle" /\ accepted = {}
  BY DEF Init
<1> QED BY <1>1, FreshTyped, NoTurnTyped DEF AInv, Pending, Covers

LEMMA NextAccounts ==
  ASSUME SaveMayFail = FALSE
  PROVE  IInv /\ AInv /\ [Next]_vars => AInv'
<1> SUFFICES ASSUME IInv, AInv, [Next]_vars PROVE AInv'
  OBVIOUS
<1> USE DEF world, store, memory
<1>0. TypeOK /\ (alive => Covers)
  BY DEF IInv, AInv
<1>1. CASE UNCHANGED vars
  <2>1. Carries
    BY <1>1, Untouched DEF vars
  <2> QED BY <1>0, <1>1, <2>1, Quiet DEF vars, AInv, Covers, HasTurn
<1>2. CASE SubmitRecover
  <2>1. Carries /\ Covers' /\ pc' = "submit.open" /\ ~ HasTurn'
    BY <1>0, <1>2, FinishCarries DEF SubmitRecover, At
  <2> QED BY <1>2, <2>1, Quiet DEF SubmitRecover, At
<1>3. CASE SubmitOpen
  BY <1>3, OpenCarries
<1>4. CASE \E n \in 0 .. MaxDeliveries : SubmitPrepare(n)
  BY <1>4, PrepareCarries
<1>5. CASE AddMessage
  BY <1>5, AddMessageCarries
<1>6. CASE CommitReceipts
  BY <1>6, ReceiptsCarry
<1>7. CASE DeliveryUnknown
  BY <1>7, UnknownCarries
<1>8. CASE EndFinish
  <2>1. PICK next \in {"end.abandoned", "end.completed"} : Finish(0, next)
    BY <1>8 DEF EndFinish
  <2>2. Carries /\ Covers' /\ pc' = next
    BY <1>0, <1>8, <2>1, FinishCarries DEF EndFinish, At
  <2> QED BY <1>8, <2>2, Quiet DEF EndFinish
<1>9. ASSUME NEW from, NEW status \in {"completed", "abandoned"}, EndSession(from, status) PROVE AInv'
  <2>1. Save([mem EXCEPT !.version = @ + 1], <<SessionRow(status)>>, "idle")
        /\ accepted' = accepted /\ bind' = bind /\ Covers
    BY <1>0, <1>9 DEF EndSession, At
  <2>2. Carries /\ Covers' /\ pc' = "idle"
    BY <1>0, <2>1, SessionRowKeeps, SessionSucceeds, SaveCarries
  <2> QED BY <2>1, <2>2, Quiet
<1>10. CASE Release
  BY <1>0, <1>10, Untouched, Quiet DEF Release, Covers
<1>11. CASE Start
  <2>1. Carries /\ Covers' /\ pc' = "idle"
    BY <1>0, <1>11, EnsureCarries DEF Start, At
  <2> QED BY <1>11, <2>1, Quiet DEF Start
<1>12. CASE Submit
  <2>1. Carries /\ Covers' /\ pc' = "submit.recover"
    BY <1>0, <1>12, EnsureCarries DEF Submit, At
  <2> QED BY <1>12, <2>1, Quiet DEF Submit
<1>13. CASE Complete
  <2>1. Carries /\ Covers' /\ pc' = "idle"
    BY <1>0, <1>13, FinishCarries DEF Complete, At, TypeOK
  <2> QED BY <1>13, <2>1, Quiet DEF Complete
<1>14. CASE Cleanup
  BY <1>0, <1>14, Untouched, Quiet DEF Cleanup, Covers, AInv, HasTurn
<1>15. CASE EndBegin
  <2>1. Carries /\ Covers' /\ pc' \in {"end.finish", "idle"}
    <3>1. CASE entered \/ HasTurn
      BY <1>0, <1>15, <3>1, EnsureCarries DEF EndBegin, At
    <3>2. CASE ~ (entered \/ HasTurn)
      BY <1>0, <1>15, <3>2, Untouched DEF EndBegin, At, Covers
    <3> QED BY <3>1, <3>2
  <2> QED BY <1>15, <2>1, Quiet DEF EndBegin
<1>16. CASE SaveState
  <2>1. mem \in StateType /\ Succeeds(mem) /\ Grows
    BY <1>0, <1>16 DEF TypeOK, Succeeds, Grows, SaveState
  <2>2. Carries /\ Covers'
    BY <1>0, <1>16, <2>1, Replaced, SavedCovers DEF SaveState
  <2> QED BY <1>16, <2>2, Quiet DEF SaveState, Sync
<1>17. ASSUME NEW s \in Sessions, Rebind(s) PROVE AInv'
  BY <1>17, RebindCarries
<1>18. ASSUME NEW s \in Sessions, Restart(s) PROVE AInv'
  <2>1. Carries /\ Covers' /\ accepted' = accepted
    BY <1>18, Untouched DEF Restart, Covers
  <2>2. pc' = pc /\ cur' = cur /\ pc # "submit.open"
    BY <1>18 DEF Restart, AInv
  <2> QED BY <2>1, <2>2, Quiet
<1>19. CASE Crash
  <2>1. Carries /\ accepted' = accepted /\ pc' = "idle" /\ ~ alive'
    BY <1>19, Untouched DEF Crash
  <2> QED BY <2>1, Quiet
<1> QED BY <1>1, <1>2, <1>3, <1>4, <1>5, <1>6, <1>7, <1>8, <1>9, <1>10, <1>11, <1>12, <1>13, <1>14,
           <1>15, <1>16, <1>17, <1>18, <1>19 DEF Next, Handler, Host

(* What the harness accepted is never forgotten, also when a crash or a rebind
   falls between its answer and the save of the receipts, as long as no save
   raises: on_submit, finish, rebind. *)
THEOREM AcceptedAccountedForAlways ==
  ASSUME SaveMayFail = FALSE
  PROVE  Spec => []AcceptedAccountedFor
<1>1. Init => AInv
  BY InitAccounts
<1>2. IInv /\ AInv /\ [Next]_vars => AInv'
  BY NextAccounts
<1>3. IInv /\ AInv => AcceptedAccountedFor
  BY DEF IInv, TypeOK, AInv, Pending, Accounted, AcceptedAccountedFor
<1> QED BY <1>1, <1>2, <1>3, Inductive, PTL DEF Spec

-----------------------------------------------------------------------------
(* A turn is open in at most one session, the one it was opened in, and has
   no row while it is open and at most one after. *)
Agrees == alive => jour[bind].turn.id = mem.turn.id

Owned ==
  \A s \in Sessions : jour[s].turn.id # 0 =>
    jour[s].turn.id \in DOMAIN opened /\ opened[jour[s].turn.id] = s

IsTurn(row) == row.op = "turn.upsert"

Published ==
  \A i \in DOMAIN rows : IsTurn(rows[i]) =>
    /\ rows[i].turn \in DOMAIN opened /\ rows[i].session = opened[rows[i].turn]
    /\ \A s \in Sessions : jour[s].turn.id # rows[i].turn

Once ==
  \A i, j \in DOMAIN rows :
    IsTurn(rows[i]) /\ IsTurn(rows[j]) /\ rows[i].turn = rows[j].turn => i = j

OInv == Agrees /\ Owned /\ Published /\ Once

(* A step after which no turn has vanished. *)
Lasts == \A t \in TurnIds : Open(t) \/ TurnRows(t) # {} => Open(t)' \/ TurnRows(t)' # {}

AddsNoTurn == Grows /\ \A i \in DOMAIN rows' : IsTurn(rows'[i]) => i \in DOMAIN rows

(* Most steps leave every turn where it is. *)
LEMMA SteadyOwns ==
  ASSUME OInv, AddsNoTurn, opened' = opened, Agrees',
         \A s \in Sessions : jour'[s].turn.id = jour[s].turn.id
  PROVE  OInv' /\ Lasts
<1>1. \A i \in DOMAIN rows' : IsTurn(rows'[i]) => i \in DOMAIN rows /\ rows'[i] = rows[i]
  BY DEF AddsNoTurn, Grows
<1>2. Owned'
  BY DEF OInv, Owned
<1>3. Published'
  BY <1>1 DEF OInv, Published
<1>4. Once'
  BY <1>1 DEF OInv, Once
<1>5. Lasts
  BY DEF Lasts, Open, OpenIn, TurnRows, AddsNoTurn, Grows
<1> QED BY <1>2, <1>3, <1>4, <1>5 DEF OInv

LEMMA NoRowAdds == ASSUME rows' = rows PROVE AddsNoTurn
BY DEF AddsNoTurn, Grows

LEMMA OtherRowsAdd ==
  ASSUME rows \in Seq(RowType), NEW new \in Seq(RowType), \A j \in DOMAIN new : ~ IsTurn(new[j]),
         rows' = rows \o new
  PROVE  AddsNoTurn
<1>1. Grows
  BY RowsGrow
<1>2. \A i \in DOMAIN rows' : \/ i \in DOMAIN rows /\ rows'[i] = rows[i]
                              \/ \E j \in DOMAIN new : rows'[i] = new[j]
  BY Joined
<1> QED BY <1>1, <1>2 DEF AddsNoTurn

(* A save of memory, or of a state with the same turn. *)
LEMMA SameTurnOwns ==
  ASSUME TypeOK, OInv, alive, NEW state \in StateType, state.turn.id = mem.turn.id,
         jour' = [jour EXCEPT ![bind] = state] \/ jour' = jour,
         mem' = state, bind' = bind, AddsNoTurn, opened' = opened
  PROVE  OInv' /\ Lasts
<1>1. bind \in Sessions /\ jour \in [Sessions -> StateType] /\ jour[bind].turn.id = mem.turn.id
  BY DEF TypeOK, OInv, Agrees
<1>2. \A s \in Sessions : jour'[s].turn.id = jour[s].turn.id
  BY <1>1
<1>3. Agrees'
  BY <1>1, <1>2 DEF Agrees
<1> QED BY <1>2, <1>3, SteadyOwns

LEMMA QuietOwns ==
  ASSUME OInv, UNCHANGED <<jour, rows, opened>>, Agrees'
  PROVE  OInv' /\ Lasts
BY NoRowAdds, SteadyOwns

(* One row more, the last. *)
LEMMA LastRow ==
  ASSUME NEW S, NEW s \in Seq(S), NEW r \in S
  PROVE  /\ Len(s) \in Nat /\ DOMAIN s = 1 .. Len(s)
         /\ s \o <<r>> \in Seq(S)
         /\ DOMAIN (s \o <<r>>) = 1 .. Len(s) + 1
         /\ \A i \in DOMAIN s : (s \o <<r>>)[i] = s[i]
         /\ (s \o <<r>>)[Len(s) + 1] = r
<1>1. s \o <<r>> = Append(s, r)
  BY AppendIsConcat
<1>2. /\ Append(s, r) \in Seq(S) /\ Len(Append(s, r)) = Len(s) + 1
      /\ \A i \in 1 .. Len(s) : Append(s, r)[i] = s[i]
      /\ Append(s, r)[Len(s) + 1] = r
  BY AppendProperties
<1>3. Len(s) \in Nat /\ DOMAIN s = 1 .. Len(s) /\ DOMAIN Append(s, r) = 1 .. Len(Append(s, r))
  BY <1>2, LenProperties
<1> QED BY <1>1, <1>2, <1>3

(* finish: the turn leaves the journal in the step that queues its record. *)
LEMMA ClosesOwns ==
  ASSUME IInv, OInv, alive, HasTurn, NEW response \in TurnIds \cup {0},
         rows' = rows \o <<TurnRow(response)>>, jour' = [jour EXCEPT ![bind] = Finished],
         opened' = opened, Agrees'
  PROVE  OInv' /\ Lasts
<1> DEFINE t == mem.turn.id
           row == TurnRow(response)
           n == Len(rows) + 1
<1>1. /\ rows \in Seq(RowType) /\ row \in RowType /\ bind \in Sessions
      /\ jour \in [Sessions -> StateType] /\ jour[bind].turn.id = t
      /\ t \in TurnIds /\ t # 0 /\ Finished.turn.id = 0
  BY FinishedKeeps, TurnHasNumber, BoundsAreNumbers, NoTurnTyped DEF IInv, TypeOK, OInv, Agrees
<1>2. row.op = "turn.upsert" /\ row.turn = t /\ row.session = bind
  BY DEF TurnRow
<1>3. t \in DOMAIN opened /\ opened[t] = bind /\ 0 \notin DOMAIN opened
  BY <1>1, LenProperties DEF OInv, Owned, IInv, TypeOK
<1>4. \A s \in Sessions : jour'[s].turn.id = IF s = bind THEN 0 ELSE jour[s].turn.id
  BY <1>1
<1> HIDE DEF row
<1>5. /\ n \in DOMAIN rows' /\ n \notin DOMAIN rows /\ rows'[n] = row /\ Grows
      /\ \A i \in DOMAIN rows' : i = n \/ i \in DOMAIN rows
  <2>1. /\ Len(rows) \in Nat /\ DOMAIN rows = 1 .. Len(rows) /\ DOMAIN rows' = 1 .. n
        /\ rows'[n] = row /\ \A i \in DOMAIN rows : rows'[i] = rows[i]
    BY <1>1, LastRow DEF row
  <2> QED BY <2>1 DEF Grows
<1> HIDE DEF n, t
<1>6. Owned'
  BY <1>4 DEF OInv, Owned
<1>7. \A s \in Sessions : s # bind => jour[s].turn.id # t
  BY <1>1, <1>3 DEF OInv, Owned
<1>8. Published'
  <2> SUFFICES ASSUME NEW i \in DOMAIN rows', IsTurn(rows'[i])
               PROVE  /\ rows'[i].turn \in DOMAIN opened /\ rows'[i].session = opened[rows'[i].turn]
                      /\ \A s \in Sessions : jour'[s].turn.id # rows'[i].turn
    BY DEF Published
  <2>1. CASE i = n
    BY <1>1, <1>2, <1>3, <1>4, <1>5, <1>7, <2>1
  <2>2. CASE i \in DOMAIN rows
    BY <1>3, <1>4, <1>5, <2>2 DEF Grows, OInv, Published
  <2> QED BY <1>5, <2>1, <2>2
<1>9. \A i \in DOMAIN rows : IsTurn(rows[i]) => rows[i].turn # t
  BY <1>1 DEF OInv, Published
<1>10. Once'
  BY <1>2, <1>5, <1>9 DEF Once, OInv, Grows
<1>11. Lasts
  <2> SUFFICES ASSUME NEW u \in TurnIds, Open(u) \/ TurnRows(u) # {} PROVE Open(u)' \/ TurnRows(u)' # {}
    BY DEF Lasts
  <2>1. CASE u = t
    BY <1>2, <1>5, <2>1 DEF TurnRows
  <2>2. CASE u # t /\ Open(u)
    BY <1>1, <1>4, <2>2 DEF Open, OpenIn
  <2>3. CASE TurnRows(u) # {}
    BY <1>5, <2>3 DEF TurnRows, Grows
  <2> QED BY <2>1, <2>2, <2>3
<1> QED BY <1>6, <1>8, <1>10, <1>11 DEF OInv

(* on_submit: a fresh turn, where none was open. *)
LEMMA OpenOwns ==
  ASSUME SaveMayFail = FALSE, IInv, AInv, OInv, SubmitOpen
  PROVE  OInv' /\ Lasts
<1> DEFINE t == Len(opened) + 1
           state == [mem EXCEPT !.index = @ + 1, !.turn = NewTurn(t)]
<1>1. /\ rows \in Seq(RowType) /\ bind \in Sessions /\ jour \in [Sessions -> StateType]
      /\ mem \in StateType /\ opened \in Seq(Sessions)
      /\ alive /\ pc = "submit.open" /\ Len(opened) < MaxTurns
  BY DEF IInv, TypeOK, Stage, SubmitOpen, At
<1>2. jour[bind].turn.id = 0
  BY <1>1, NoTurnTyped DEF AInv, HasTurn, OInv, Agrees
<1>3. state.turn.id = t
  BY <1>1 DEF NewTurn, NoTurn, StateType
<1>4. /\ jour' = [jour EXCEPT ![bind] = state] /\ rows' = rows \o <<>> /\ mem' = state
      /\ opened' = Append(opened, bind) /\ bind' = bind
  BY DEF SubmitOpen, Save
<1> HIDE DEF state
<1>5. rows' = rows
  BY <1>1, <1>4, ConcatEmptySeq
<1>6. /\ Len(opened) \in Nat /\ DOMAIN opened = 1 .. Len(opened) /\ DOMAIN opened' = 1 .. Len(opened) + 1
      /\ opened'[t] = bind /\ \A i \in DOMAIN opened : opened'[i] = opened[i]
  BY <1>1, <1>4, AppendProperties, LenProperties
<1>7. \A s \in Sessions : jour'[s].turn.id = IF s = bind THEN t ELSE jour[s].turn.id
  BY <1>1, <1>3, <1>4
<1>8. /\ t \notin DOMAIN opened /\ t \in DOMAIN opened' /\ \A i \in DOMAIN opened : i \in DOMAIN opened'
  BY <1>6
<1> HIDE DEF t
<1>9. Owned'
  BY <1>6, <1>7, <1>8 DEF OInv, Owned
<1>10. Agrees'
  BY <1>1, <1>3, <1>4, <1>7 DEF Agrees
<1>11. Published' /\ Once'
  BY <1>5, <1>6, <1>7, <1>8 DEF OInv, Published, Once
<1>12. \A u \in TurnIds : u # 0
  BY BoundsAreNumbers
<1>13. \A u \in TurnIds : Open(u) => Open(u)'
  <2> SUFFICES ASSUME NEW u \in TurnIds, NEW s \in Sessions, jour[s].turn.id = u PROVE Open(u)'
    BY DEF Open, OpenIn
  <2> QED BY <1>2, <1>7, <1>12 DEF Open, OpenIn
<1>14. Lasts
  BY <1>5, <1>13 DEF Lasts, TurnRows
<1> QED BY <1>9, <1>10, <1>11, <1>14 DEF OInv
-----------------------------------------------------------------------------
(* A finish that may close a turn, and an ensure_session that may queue the
   session's row. *)
LEMMA FinishOwns ==
  ASSUME SaveMayFail = FALSE, IInv, OInv, alive, alive' = alive, NEW response \in TurnIds \cup {0},
         NEW next, Finish(response, next), bind' = bind, opened' = opened
  PROVE  OInv' /\ Lasts
<1>1. CASE HasTurn
  <2>1. /\ mem' = Finished /\ jour' = [jour EXCEPT ![bind] = Finished]
        /\ rows' = rows \o <<TurnRow(response)>>
    BY <1>1 DEF Finish, Save
  <2>2. Agrees'
    BY <2>1 DEF Agrees, IInv, TypeOK
  <2> QED BY <1>1, <2>1, <2>2, ClosesOwns
<1>2. CASE ~ HasTurn
  <2>1. UNCHANGED <<mem, jour, rows>>
    BY <1>2 DEF Finish
  <2> QED BY <2>1, QuietOwns DEF OInv, Agrees
<1> QED BY <1>1, <1>2

LEMMA SessionRowOwns ==
  ASSUME SaveMayFail = FALSE, IInv, OInv, alive, NEW status \in {"active", "completed", "abandoned"},
         NEW next, Save([mem EXCEPT !.version = @ + 1], <<SessionRow(status)>>, next),
         bind' = bind, opened' = opened
  PROVE  OInv' /\ Lasts
<1> DEFINE state == [mem EXCEPT !.version = @ + 1]
           row == SessionRow(status)
<1>1. state \in StateType /\ <<row>> \in Seq(RowType)
  BY SessionRowKeeps
<1>2. state.turn.id = mem.turn.id
  BY DEF IInv, TypeOK, StateType
<1>3. \A j \in DOMAIN <<row>> : ~ IsTurn(<<row>>[j])
  <2>1. ~ IsTurn(row)
    BY DEF IsTurn, SessionRow
  <2> HIDE DEF row
  <2> QED BY <2>1
<1>4. mem' = state /\ jour' = [jour EXCEPT ![bind] = state] /\ rows' = rows \o <<row>>
  BY DEF Save
<1> HIDE DEF state, row
<1>5. AddsNoTurn
  BY <1>1, <1>3, <1>4, OtherRowsAdd DEF IInv, TypeOK
<1> QED BY <1>1, <1>2, <1>4, <1>5, SameTurnOwns DEF IInv

LEMMA EnsureOwns ==
  ASSUME SaveMayFail = FALSE, IInv, OInv, alive, alive' = alive,
         NEW next, EnsureSession(next), bind' = bind, opened' = opened
  PROVE  OInv' /\ Lasts
<1>1. CASE entered
  <2>1. UNCHANGED <<mem, jour, rows>>
    BY <1>1 DEF EnsureSession
  <2> QED BY <2>1, QuietOwns DEF OInv, Agrees
<1>2. CASE ~ entered
  BY <1>2, SessionRowOwns DEF EnsureSession
<1> QED BY <1>1, <1>2

LEMMA PrepareOwns ==
  ASSUME IInv, OInv, NEW n \in 0 .. MaxDeliveries, SubmitPrepare(n)
  PROVE  OInv' /\ Lasts
<1> DEFINE prepared == [mem EXCEPT !.turn.prepared = TRUE]
           unknown == [prepared EXCEPT !.turn.boundary = "acceptance_unknown"]
<1>1. TypeOK /\ mem \in StateType /\ mem.turn \in TurnType /\ alive
  BY DEF IInv, TypeOK, StateType, SubmitPrepare, At
<1>2. prepared \in StateType /\ prepared.turn.id = mem.turn.id /\ prepared.turn \in TurnType
  BY <1>1 DEF StateType, TurnType
<1>3. unknown \in StateType /\ unknown.turn.id = mem.turn.id
  BY <1>2 DEF StateType, TurnType, Boundaries
<1>4. /\ rows' = rows /\ bind' = bind /\ opened' = opened
      /\ \/ mem' = prepared /\ jour' = [jour EXCEPT ![bind] = prepared]
         \/ mem' = unknown /\ jour' = jour
  BY DEF SubmitPrepare
<1> HIDE DEF prepared, unknown
<1> QED BY <1>1, <1>2, <1>3, <1>4, NoRowAdds, SameTurnOwns

LEMMA ReceiptsOwn ==
  ASSUME IInv, OInv, CommitReceipts
  PROVE  OInv' /\ Lasts
<1> DEFINE row == [session |-> bind, op |-> "acknowledgement", turn |-> cur]
           new == [i \in 1 .. offered[cur] |-> row]
<1>1. /\ TypeOK /\ mem \in StateType /\ mem.turn \in TurnType /\ rows \in Seq(RowType) /\ alive
      /\ bind \in Sessions /\ cur \in TurnIds /\ offered[cur] \in Nat
  BY BoundsAreNumbers DEF IInv, TypeOK, Stage, StateType, CommitReceipts, At
<1>2. /\ jour' = [jour EXCEPT ![bind] = mem'] /\ rows' = rows \o new /\ bind' = bind /\ opened' = opened
      /\ mem'.turn.id = mem.turn.id
  BY <1>1 DEF CommitReceipts, world, StateType, TurnType
<1>3. mem' \in StateType
  BY ReceiptsKeep DEF IInv, TypeOK
<1>4. row \in RowType /\ ~ IsTurn(row)
  BY <1>1 DEF RowType, IsTurn
<1> HIDE DEF row
<1>5. new \in Seq(RowType) /\ \A j \in DOMAIN new : ~ IsTurn(new[j])
  BY <1>1, <1>4, SameRows
<1> HIDE DEF new
<1>6. AddsNoTurn
  BY <1>1, <1>2, <1>5, OtherRowsAdd
<1> QED BY <1>1, <1>2, <1>3, <1>6, SameTurnOwns

LEMMA UnknownOwns ==
  ASSUME IInv, OInv, DeliveryUnknown
  PROVE  OInv' /\ Lasts
<1>1. mem \in StateType /\ mem.turn \in TurnType
  BY DEF IInv, TypeOK, StateType
<1>2. mem'.turn.id = mem.turn.id /\ UNCHANGED <<jour, rows, bind, opened, alive>>
  BY <1>1 DEF DeliveryUnknown, store, world, StateType, TurnType
<1> QED BY <1>2, QuietOwns DEF OInv, Agrees

LEMMA RebindOwns ==
  ASSUME SaveMayFail = FALSE, IInv, OInv, NEW s \in Sessions, Rebind(s)
  PROVE  OInv' /\ Lasts
<1>1. /\ alive /\ alive' = alive /\ s # bind /\ bind' = s /\ mem' = jour[s] /\ opened' = opened
      /\ IF HasTurn
         THEN jour' = [jour EXCEPT ![bind] = Finished] /\ rows' = Append(rows, TurnRow(0))
         ELSE UNCHANGED <<jour, rows>>
  BY DEF Rebind, store, world
<1>2. jour'[s] = jour[s] /\ Agrees'
  BY <1>1 DEF Agrees, IInv, TypeOK
<1>3. CASE HasTurn
  <2>1. rows' = rows \o <<TurnRow(0)>>
    <3>1. TurnRow(0) \in RowType /\ rows \in Seq(RowType)
      BY <1>3, FinishedKeeps DEF IInv, TypeOK
    <3> HIDE DEF TurnRow
    <3> QED BY <1>1, <1>3, <3>1, AppendIsConcat
  <2> QED BY <1>1, <1>2, <1>3, <2>1, ClosesOwns
<1>4. CASE ~ HasTurn
  BY <1>1, <1>2, <1>4, QuietOwns
<1> QED BY <1>3, <1>4

LEMMA InitOwns == Init => OInv
<1> SUFFICES ASSUME Init PROVE OInv
  OBVIOUS
<1>1. bind \in Sessions /\ mem.turn.id = 0 /\ rows = <<>> /\ \A s \in Sessions : jour[s].turn.id = 0
  BY FreshTyped, NoTurnTyped DEF Init
<1> QED BY <1>1 DEF OInv, Agrees, Owned, Published, Once

LEMMA NextOwns ==
  ASSUME SaveMayFail = FALSE
  PROVE  IInv /\ AInv /\ OInv /\ [Next]_vars => OInv' /\ Lasts
<1> SUFFICES ASSUME IInv, AInv, OInv, [Next]_vars PROVE OInv' /\ Lasts
  OBVIOUS
<1> USE DEF world, store, memory
<1>0. TypeOK
  BY DEF IInv
<1>1. CASE UNCHANGED vars
  BY <1>1, QuietOwns DEF vars, OInv, Agrees
<1>2. CASE SubmitRecover
  BY <1>2, FinishOwns DEF SubmitRecover, At
<1>3. CASE SubmitOpen
  BY <1>3, OpenOwns
<1>4. CASE \E n \in 0 .. MaxDeliveries : SubmitPrepare(n)
  BY <1>4, PrepareOwns
<1>5. CASE AddMessage
  BY <1>5, QuietOwns DEF AddMessage, OInv, Agrees
<1>6. CASE CommitReceipts
  BY <1>6, ReceiptsOwn
<1>7. CASE DeliveryUnknown
  BY <1>7, UnknownOwns
<1>8. CASE EndFinish
  BY <1>8, FinishOwns DEF EndFinish, At
<1>9. ASSUME NEW from, NEW status \in {"completed", "abandoned"}, EndSession(from, status) PROVE OInv' /\ Lasts
  BY <1>9, SessionRowOwns DEF EndSession, At
<1>10. CASE Release
  BY <1>10, QuietOwns DEF Release, OInv, Agrees
<1>11. CASE Start
  BY <1>11, EnsureOwns DEF Start, At
<1>12. CASE Submit
  BY <1>12, EnsureOwns DEF Submit, At
<1>13. CASE Complete
  BY <1>0, <1>13, FinishOwns DEF Complete, At, TypeOK
<1>14. CASE Cleanup
  BY <1>14, QuietOwns DEF Cleanup, OInv, Agrees
<1>15. CASE EndBegin
  <2>1. CASE entered \/ HasTurn
    BY <1>15, <2>1, EnsureOwns DEF EndBegin, At
  <2>2. CASE ~ (entered \/ HasTurn)
    BY <1>15, <2>2, QuietOwns DEF EndBegin, OInv, Agrees
  <2> QED BY <2>1, <2>2
<1>16. CASE SaveState
  BY <1>0, <1>16, NoRowAdds, SameTurnOwns DEF SaveState, TypeOK
<1>17. ASSUME NEW s \in Sessions, Rebind(s) PROVE OInv' /\ Lasts
  BY <1>17, RebindOwns
<1>18. ASSUME NEW s \in Sessions, Restart(s) PROVE OInv' /\ Lasts
  BY <1>18, QuietOwns DEF Restart, Agrees
<1>19. CASE Crash
  BY <1>19, QuietOwns DEF Crash, Agrees
<1> QED BY <1>1, <1>2, <1>3, <1>4, <1>5, <1>6, <1>7, <1>8, <1>9, <1>10, <1>11, <1>12, <1>13, <1>14,
           <1>15, <1>16, <1>17, <1>18, <1>19 DEF Next, Handler, Host

(* A turn has no row while it is open and exactly one when it has been and is
   no longer. *)
ExactlyOne ==
  \A t \in TurnIds : Open(t) \/ TurnRows(t) # {} =>
    Cardinality(TurnRows(t)) = IF Open(t) THEN 0 ELSE 1

LEMMA OwnsExactlyOne == OInv => ExactlyOne
<1> SUFFICES ASSUME OInv, NEW t \in TurnIds, Open(t) \/ TurnRows(t) # {}
             PROVE  Cardinality(TurnRows(t)) = IF Open(t) THEN 0 ELSE 1
  BY DEF ExactlyOne
<1>1. Open(t) => TurnRows(t) = {}
  BY DEF OInv, Published, IsTurn, Open, OpenIn, TurnRows
<1>2. ASSUME TurnRows(t) # {} PROVE Cardinality(TurnRows(t)) = 1
  <2>1. PICK i \in TurnRows(t) : TRUE
    BY <1>2
  <2>2. TurnRows(t) = {i}
    BY <2>1 DEF OInv, Once, IsTurn, TurnRows
  <2> QED BY <2>2, FS_Singleton
<1> QED BY <1>1, <1>2, FS_EmptySet

LEMMA Owning ==
  ASSUME SaveMayFail = FALSE
  PROVE  Spec => []OInv
<1>1. Init => AInv /\ OInv
  BY InitAccounts, InitOwns
<1>2. IInv /\ AInv /\ OInv /\ [Next]_vars => AInv' /\ OInv'
  BY NextAccounts, NextOwns
<1> QED BY <1>1, <1>2, Inductive, PTL DEF Spec

(* A turn the journal has kept open stays open there until its record is
   queued, and is then published once, whatever crash, interruption or rebind
   comes between, as long as no save raises: on_submit, finish, rebind. *)
THEOREM TurnsNeverDroppedAlways ==
  ASSUME SaveMayFail = FALSE
  PROVE  Spec => TurnsNeverDropped
<1>1. Init => AInv /\ OInv
  BY InitAccounts, InitOwns
<1>2. IInv /\ AInv /\ OInv /\ [Next]_vars => AInv' /\ OInv' /\ Lasts
  BY NextAccounts, NextOwns
<1> DEFINE Step == \A t \in TurnIds : Open(t) \/ TurnRows(t) # {} =>
                     Cardinality(TurnRows(t)') = IF Open(t)' THEN 0 ELSE 1
<1>3. OInv' /\ Lasts => Step
  <2>1. OInv' => ExactlyOne'
    BY OwnsExactlyOne, PTL
  <2> QED BY <2>1 DEF ExactlyOne, Lasts
<1>4. IInv /\ AInv /\ OInv /\ [Next]_vars => [Step]_vars
  BY <1>2, <1>3
<1> QED BY <1>1, <1>2, <1>4, Inductive, PTL DEF Spec, TurnsNeverDropped
-----------------------------------------------------------------------------
(* Where rebind waits for on_submit, the turn on_submit works for is the one
   in memory, and its receipts are all there when its record or the journal
   says that it was delivered, and not before. *)
Held ==
  pc \in Awaits => /\ alive /\ HasTurn /\ ~ mem.turn.injected
                   /\ pc # "submit.sync" => mem.turn.id = cur

SameFlag == alive => jour[bind].turn.injected = mem.turn.injected

IsReceipt(row) == row.op = "acknowledgement"

Addressed ==
  \A i \in DOMAIN rows : IsReceipt(rows[i]) =>
    rows[i].turn \in DOMAIN opened /\ rows[i].session = opened[rows[i].turn]

ShownOpen(t) == \E s \in Sessions : OpenIn(s, t) /\ jour[s].turn.injected
Shown(t) == Delivered(t) \/ ShownOpen(t)

AllOrNone(t) == IF Shown(t) THEN Cardinality(Receipts(t)) = offered[t] ELSE Receipts(t) = {}
Told == \A t \in TurnIds : AllOrNone(t)

SInv == Held /\ SameFlag /\ Addressed /\ Told

AddsNoReceipt == Grows /\ \A i \in DOMAIN rows' : IsReceipt(rows'[i]) => i \in DOMAIN rows

LEMMA ReceiptsStay ==
  ASSUME AddsNoReceipt
  PROVE  /\ \A t : Receipts(t)' = Receipts(t)
         /\ Addressed /\ opened' = opened => Addressed'
BY DEF AddsNoReceipt, Grows, Receipts, IsReceipt, Addressed

LEMMA DeliveredStays ==
  ASSUME AddsNoTurn
  PROVE  \A t : Delivered(t)' <=> Delivered(t)
BY DEF AddsNoTurn, Grows, Delivered, TurnRows, IsTurn

(* Most steps change neither what is shown of a turn nor its receipts. *)
LEMMA SteadyTold ==
  ASSUME Told, Addressed, AddsNoTurn, AddsNoReceipt, opened' = opened, offered' = offered,
         \A s \in Sessions : jour'[s].turn.id = jour[s].turn.id
                             /\ jour'[s].turn.injected = jour[s].turn.injected
  PROVE  Told' /\ Addressed'
<1>1. \A t : Receipts(t)' = Receipts(t) /\ (Delivered(t)' <=> Delivered(t))
  BY ReceiptsStay, DeliveredStays
<1>2. \A t : ShownOpen(t)' <=> ShownOpen(t)
  BY DEF ShownOpen, OpenIn
<1>3. Addressed'
  BY ReceiptsStay
<1>4. \A t \in TurnIds : AllOrNone(t)'
  BY <1>1, <1>2 DEF Told, AllOrNone, Shown
<1> QED BY <1>3, <1>4 DEF Told

LEMMA SameRowsTold ==
  ASSUME Told, Addressed, UNCHANGED <<rows, jour, opened, offered>>
  PROVE  Told' /\ Addressed'
BY SteadyTold DEF AddsNoTurn, AddsNoReceipt, Grows

(* A save of a state with the same turn, beside rows of the session. *)
LEMMA SameTurnTold ==
  ASSUME TypeOK, OInv, SInv, alive, NEW state \in StateType,
         state.turn.id = mem.turn.id, state.turn.injected = mem.turn.injected,
         jour' = [jour EXCEPT ![bind] = state], mem' = state, bind' = bind,
         AddsNoTurn, AddsNoReceipt, opened' = opened, offered' = offered
  PROVE  Told' /\ Addressed' /\ SameFlag'
<1>1. bind \in Sessions /\ jour \in [Sessions -> StateType] /\ jour[bind].turn.id = mem.turn.id
      /\ jour[bind].turn.injected = mem.turn.injected
  BY DEF TypeOK, OInv, Agrees, SInv, SameFlag
<1>2. \A s \in Sessions : jour'[s].turn.id = jour[s].turn.id
                          /\ jour'[s].turn.injected = jour[s].turn.injected
  BY <1>1
<1>3. SameFlag'
  BY <1>1 DEF SameFlag
<1> QED BY <1>2, <1>3, SteadyTold DEF SInv

(* finish: what the journal showed of the turn, its record now shows. *)
LEMMA ClosesTold ==
  ASSUME IInv, OInv, SInv, alive, HasTurn, NEW response \in TurnIds \cup {0},
         rows' = rows \o <<TurnRow(response)>>, jour' = [jour EXCEPT ![bind] = Finished],
         opened' = opened, offered' = offered
  PROVE  Told' /\ Addressed'
<1> DEFINE t == mem.turn.id
           row == TurnRow(response)
           n == Len(rows) + 1
<1>1. /\ rows \in Seq(RowType) /\ row \in RowType /\ bind \in Sessions
      /\ jour \in [Sessions -> StateType] /\ jour[bind].turn.id = t
      /\ jour[bind].turn.injected = mem.turn.injected
      /\ t \in TurnIds /\ t # 0 /\ Finished.turn.id = 0
  BY FinishedKeeps, TurnHasNumber, BoundsAreNumbers, NoTurnTyped
  DEF IInv, TypeOK, OInv, Agrees, SInv, SameFlag
<1>2. row.op = "turn.upsert" /\ row.turn = t /\ row.injected = mem.turn.injected
  BY DEF TurnRow
<1>3. \A s \in Sessions : s # bind => jour[s].turn.id # t
  BY <1>1 DEF OInv, Owned
<1>4. \A s \in Sessions : jour'[s] = IF s = bind THEN Finished ELSE jour[s]
  BY <1>1
<1> HIDE DEF row
<1>5. /\ n \in DOMAIN rows' /\ n \notin DOMAIN rows /\ rows'[n] = row /\ Grows
      /\ \A i \in DOMAIN rows' : i = n \/ i \in DOMAIN rows
  <2>1. /\ Len(rows) \in Nat /\ DOMAIN rows = 1 .. Len(rows) /\ DOMAIN rows' = 1 .. n
        /\ rows'[n] = row /\ \A i \in DOMAIN rows : rows'[i] = rows[i]
    BY <1>1, LastRow DEF row
  <2> QED BY <2>1 DEF Grows
<1> HIDE DEF n, t
<1>6. AddsNoReceipt
  BY <1>2, <1>5 DEF AddsNoReceipt, IsReceipt
<1>7. ASSUME NEW u \in TurnIds PROVE Shown(u)' <=> Shown(u)
  <2>1. CASE u = t
    <3>1. ~ Delivered(u)
      BY <1>1, <2>1 DEF OInv, Published, IsTurn, Delivered, TurnRows
    <3>2. Shown(u) <=> mem.turn.injected
      BY <1>1, <1>3, <2>1, <3>1 DEF Shown, ShownOpen, OpenIn
    <3>3. ~ ShownOpen(u)'
      BY <1>1, <1>3, <1>4, <2>1 DEF ShownOpen, OpenIn
    <3>4. Delivered(u)' <=> mem.turn.injected
      <4>1. \A i \in DOMAIN rows : IsTurn(rows[i]) => rows[i].turn # u
        BY <1>1, <2>1 DEF OInv, Published
      <4>2. TurnRows(u)' = {n}
        BY <1>2, <1>5, <2>1, <4>1 DEF TurnRows, Grows, IsTurn
      <4> QED BY <1>2, <1>5, <4>2 DEF Delivered
    <3> QED BY <3>2, <3>3, <3>4 DEF Shown
  <2>2. CASE u # t
    <3>1. Delivered(u)' <=> Delivered(u)
      BY <1>2, <1>5, <2>2 DEF Delivered, TurnRows, Grows
    <3>2. ShownOpen(u)' <=> ShownOpen(u)
      BY <1>1, <1>4, <2>2, BoundsAreNumbers DEF ShownOpen, OpenIn
    <3> QED BY <3>1, <3>2 DEF Shown
  <2> QED BY <2>1, <2>2
<1>8. \A u : Receipts(u)' = Receipts(u)
  BY <1>6, ReceiptsStay
<1>9. \A u \in TurnIds : AllOrNone(u)'
  BY <1>7, <1>8 DEF AllOrNone, SInv, Told
<1> QED BY <1>6, <1>9, ReceiptsStay DEF SInv, Told

(* What is shown of the turn in memory. *)
LEMMA MemoryShows ==
  ASSUME IInv, OInv, SInv, alive, HasTurn
  PROVE  /\ mem.turn.id \in TurnIds /\ jour[bind].turn.id = mem.turn.id
         /\ ~ Delivered(mem.turn.id)
         /\ ShownOpen(mem.turn.id) <=> mem.turn.injected
<1> DEFINE t == mem.turn.id
<1>1. /\ bind \in Sessions /\ jour[bind].turn.id = t /\ jour[bind].turn.injected = mem.turn.injected
      /\ t \in TurnIds /\ t # 0
  BY TurnHasNumber, BoundsAreNumbers DEF IInv, TypeOK, OInv, Agrees, SInv, SameFlag
<1> HIDE DEF t
<1>2. \A s \in Sessions : s # bind => jour[s].turn.id # t
  BY <1>1 DEF OInv, Owned
<1>3. ~ Delivered(t)
  BY <1>1 DEF OInv, Published, IsTurn, Delivered, TurnRows
<1>4. ShownOpen(t) <=> mem.turn.injected
  BY <1>1, <1>2 DEF ShownOpen, OpenIn
<1> QED BY <1>1, <1>3, <1>4 DEF t

(* on_submit opens a turn that nothing was said of yet. *)
LEMMA OpenTold ==
  ASSUME SaveMayFail = FALSE, IInv, AInv, OInv, SInv, SubmitOpen
  PROVE  SInv'
<1> DEFINE t == Len(opened) + 1
           state == [mem EXCEPT !.index = @ + 1, !.turn = NewTurn(t)]
<1>1. /\ rows \in Seq(RowType) /\ bind \in Sessions /\ jour \in [Sessions -> StateType]
      /\ mem \in StateType /\ opened \in Seq(Sessions)
      /\ alive /\ pc = "submit.open" /\ Len(opened) < MaxTurns
  BY DEF IInv, TypeOK, Stage, SubmitOpen, At
<1>2. jour[bind].turn.id = 0
  BY <1>1, NoTurnTyped DEF AInv, HasTurn, OInv, Agrees
<1>3. state.turn.id = t /\ ~ state.turn.injected /\ state.turn # NoTurn
  <2>1. state.turn = NewTurn(t)
    BY <1>1 DEF StateType
  <2>2. NewTurn(t).id = t /\ ~ NewTurn(t).injected
    BY DEF NewTurn, NoTurn
  <2>3. t # 0
    BY <1>1, LenProperties
  <2> QED BY <2>1, <2>2, <2>3, NoTurnTyped
<1>4. /\ jour' = [jour EXCEPT ![bind] = state] /\ rows' = rows \o <<>> /\ mem' = state
      /\ opened' = Append(opened, bind) /\ bind' = bind /\ offered' = offered
      /\ pc' = "submit.sync" /\ alive' = alive
  BY DEF SubmitOpen, Save
<1> HIDE DEF state
<1>5. rows' = rows
  BY <1>1, <1>4, ConcatEmptySeq
<1>6. /\ Len(opened) \in Nat /\ DOMAIN opened = 1 .. Len(opened) /\ DOMAIN opened' = 1 .. Len(opened) + 1
      /\ \A i \in DOMAIN opened : i \in DOMAIN opened' /\ opened'[i] = opened[i]
  BY <1>1, <1>4, AppendProperties, LenProperties
<1>7. \A s \in Sessions : jour'[s] = IF s = bind THEN state ELSE jour[s]
  BY <1>1, <1>4
<1>8. \A s \in Sessions : jour[s].turn.id # t
  BY <1>6 DEF OInv, Owned
<1>9. \A u \in TurnIds : ShownOpen(u)' <=> ShownOpen(u)
  BY <1>2, <1>3, <1>7, <1>8, BoundsAreNumbers DEF ShownOpen, OpenIn
<1>10. Told'
  BY <1>4, <1>5, <1>9 DEF SInv, Told, AllOrNone, Shown, Delivered, TurnRows, Receipts
<1>11. Addressed'
  BY <1>5, <1>6 DEF SInv, Addressed
<1>12. Held' /\ SameFlag'
  BY <1>1, <1>3, <1>4, <1>7 DEF Held, SameFlag, HasTurn
<1> QED BY <1>10, <1>11, <1>12 DEF SInv

(* on_submit: how many deliveries there are is settled while none is. *)
LEMMA PrepareTold ==
  ASSUME IInv, OInv, SInv, NEW n \in 0 .. MaxDeliveries, SubmitPrepare(n)
  PROVE  SInv'
<1> DEFINE prepared == [mem EXCEPT !.turn.prepared = TRUE]
           unknown == [prepared EXCEPT !.turn.boundary = "acceptance_unknown"]
           t == mem.turn.id
<1>1. /\ TypeOK /\ mem \in StateType /\ mem.turn \in TurnType /\ alive /\ HasTurn
      /\ bind \in Sessions /\ jour \in [Sessions -> StateType] /\ ~ mem.turn.injected
      /\ pc = "submit.sync"
  BY DEF IInv, TypeOK, StateType, SubmitPrepare, At, SInv, Held, Awaits
<1>2. /\ t \in TurnIds /\ t # 0 /\ jour[bind].turn.id = t
      /\ jour[bind].turn.injected = mem.turn.injected /\ ~ Shown(t)
  BY <1>1, MemoryShows, BoundsAreNumbers DEF Shown, SInv, SameFlag
<1>3. /\ prepared.turn.id = t /\ prepared.turn.injected = mem.turn.injected
      /\ prepared \in StateType /\ prepared.turn \in TurnType
  BY <1>1 DEF StateType, TurnType
<1>4. unknown.turn.id = t /\ unknown.turn.injected = mem.turn.injected
  BY <1>3 DEF StateType, TurnType
<1>5. /\ rows' = rows /\ bind' = bind /\ opened' = opened /\ alive' = alive
      /\ offered' = [offered EXCEPT ![t] = n]
      /\ \/ mem' = prepared /\ jour' = [jour EXCEPT ![bind] = prepared]
            /\ pc' = "submit.attach" /\ cur' = t
         \/ mem' = unknown /\ jour' = jour /\ pc' = "idle"
  BY DEF SubmitPrepare
<1> HIDE DEF prepared, unknown, t
<1>6. \A s \in Sessions : jour'[s].turn.id = jour[s].turn.id
                          /\ jour'[s].turn.injected = jour[s].turn.injected
  BY <1>1, <1>2, <1>3, <1>5
<1>7. \A u \in TurnIds : (Shown(u)' <=> Shown(u)) /\ Receipts(u)' = Receipts(u)
  BY <1>5, <1>6 DEF Shown, ShownOpen, OpenIn, Delivered, TurnRows, Receipts
<1>8. \A u \in TurnIds : u # t => offered'[u] = offered[u]
  BY <1>1, <1>2, <1>5 DEF TypeOK
<1>9. Told'
  BY <1>2, <1>7, <1>8 DEF SInv, Told, AllOrNone
<1>10. Addressed'
  BY <1>5 DEF SInv, Addressed
<1>11. SameFlag'
  BY <1>1, <1>2, <1>3, <1>4, <1>5 DEF SameFlag
<1>12. Held'
  BY <1>1, <1>2, <1>3, <1>5, NoTurnTyped DEF Held, HasTurn, Awaits
<1> QED BY <1>9, <1>10, <1>11, <1>12 DEF SInv

(* The same row n times more. *)
LEMMA RepeatedRow ==
  ASSUME NEW S, NEW s \in Seq(S), NEW r \in S, NEW n \in Nat
  PROVE  LET all == s \o [i \in 1 .. n |-> r]
         IN  /\ Len(s) \in Nat /\ DOMAIN s = 1 .. Len(s)
             /\ DOMAIN all = 1 .. Len(s) + n
             /\ \A i \in DOMAIN s : all[i] = s[i]
             /\ \A i \in Len(s) + 1 .. Len(s) + n : all[i] = r
<1> DEFINE new == [i \in 1 .. n |-> r]
           all == s \o new
<1>1. new \in Seq(S) /\ Len(new) = n /\ \A i \in 1 .. n : new[i] = r
  BY SameRows
<1> HIDE DEF new
<1>2. /\ all \in Seq(S) /\ Len(all) = Len(s) + Len(new)
      /\ \A i \in 1 .. Len(s) + Len(new) : all[i] = IF i <= Len(s) THEN s[i] ELSE new[i - Len(s)]
  BY <1>1, ConcatProperties
<1> HIDE DEF all
<1>3. Len(s) \in Nat /\ DOMAIN s = 1 .. Len(s) /\ DOMAIN all = 1 .. Len(s) + n
  BY <1>1, <1>2, LenProperties
<1>4. ASSUME NEW i \in Len(s) + 1 .. Len(s) + n PROVE all[i] = r
  <2>1. i - Len(s) \in 1 .. n /\ i \in 1 .. Len(s) + Len(new) /\ ~ (i <= Len(s))
    BY <1>1, <1>3
  <2> QED BY <1>1, <1>2, <2>1
<1>5. \A i \in DOMAIN s : all[i] = s[i]
  BY <1>1, <1>2, <1>3
<1> QED BY <1>3, <1>4, <1>5 DEF all, new

(* on_submit: the receipts and the mark that there was an injection. *)
LEMMA ReceiptsTold ==
  ASSUME IInv, OInv, SInv, CommitReceipts
  PROVE  SInv'
<1> DEFINE row == [session |-> bind, op |-> "acknowledgement", turn |-> cur]
           new == [i \in 1 .. offered[cur] |-> row]
<1>1. /\ TypeOK /\ mem \in StateType /\ mem.turn \in TurnType /\ rows \in Seq(RowType) /\ alive
      /\ bind \in Sessions /\ jour \in [Sessions -> StateType] /\ cur \in TurnIds /\ offered[cur] \in Nat
      /\ mem.turn.id = cur /\ ~ mem.turn.injected /\ HasTurn
  BY BoundsAreNumbers DEF IInv, TypeOK, Stage, StateType, CommitReceipts, At, SInv, Held, Awaits
<1>2. /\ jour[bind].turn.id = cur /\ ~ Shown(cur)
  BY <1>1, MemoryShows DEF Shown
<1>3. cur \in DOMAIN opened /\ opened[cur] = bind
  BY <1>1, <1>2, BoundsAreNumbers DEF OInv, Owned
<1>4. /\ jour' = [jour EXCEPT ![bind] = mem'] /\ rows' = rows \o new /\ bind' = bind /\ opened' = opened
      /\ offered' = offered /\ pc' = "idle"
      /\ mem'.turn.id = mem.turn.id /\ mem'.turn.injected
  BY <1>1 DEF CommitReceipts, world, StateType, TurnType, IsOpen
<1>5. row \in RowType /\ ~ IsTurn(row) /\ IsReceipt(row) /\ row.turn = cur /\ row.session = bind
  BY <1>1 DEF RowType, IsTurn, IsReceipt
<1> HIDE DEF row
<1>6. new \in Seq(RowType) /\ Len(new) = offered[cur] /\ DOMAIN new = 1 .. offered[cur]
      /\ \A j \in DOMAIN new : new[j] = row
  BY <1>1, <1>5, SameRows
<1> HIDE DEF new
<1>7. AddsNoTurn
  BY <1>1, <1>4, <1>5, <1>6, OtherRowsAdd
<1>8. /\ Len(rows) \in Nat /\ DOMAIN rows = 1 .. Len(rows)
      /\ DOMAIN rows' = 1 .. Len(rows) + offered[cur]
      /\ \A i \in DOMAIN rows : rows'[i] = rows[i]
      /\ \A i \in Len(rows) + 1 .. Len(rows) + offered[cur] : rows'[i] = row
  BY <1>1, <1>4, <1>5, RepeatedRow DEF new
<1>9. \A s \in Sessions : jour'[s] = IF s = bind THEN mem' ELSE jour[s]
  BY <1>1, <1>4
<1>10. ASSUME NEW u \in TurnIds, u # cur PROVE AllOrNone(u)'
  <2>1. Receipts(u)' = Receipts(u)
    <3>1. \A i \in DOMAIN rows' : i \in DOMAIN rows \/ rows'[i].turn # u
      BY <1>1, <1>5, <1>8, <1>10
    <3>2. \A i \in DOMAIN rows : i \in DOMAIN rows'
      BY <1>1, <1>8
    <3> QED BY <1>8, <3>1, <3>2 DEF Receipts
  <2>2. ShownOpen(u)' <=> ShownOpen(u)
    BY <1>1, <1>2, <1>4, <1>9, <1>10 DEF ShownOpen, OpenIn
  <2>3. Delivered(u)' <=> Delivered(u)
    BY <1>7, DeliveredStays
  <2> QED BY <1>4, <2>1, <2>2, <2>3 DEF SInv, Told, AllOrNone, Shown
<1>11. AllOrNone(cur)
  BY <1>1 DEF SInv, Told
<1>12. Receipts(cur) = {}
  BY <1>2, <1>11 DEF AllOrNone
<1>13. ASSUME NEW u \in TurnIds, u = cur PROVE AllOrNone(u)'
  <2>1. Shown(u)'
    BY <1>1, <1>4, <1>9, <1>13 DEF Shown, ShownOpen, OpenIn
  <2>2. Receipts(u)' = Len(rows) + 1 .. Len(rows) + offered[u]
    <3>1. \A i \in DOMAIN rows : ~ (rows[i].op = "acknowledgement" /\ rows[i].turn = u)
      BY <1>12, <1>13 DEF Receipts
    <3>2. \A i \in DOMAIN rows' : i \in DOMAIN rows \/ i \in Len(rows) + 1 .. Len(rows) + offered[u]
      BY <1>1, <1>8, <1>13
    <3>3. \A i \in Len(rows) + 1 .. Len(rows) + offered[u] :
            i \in DOMAIN rows' /\ rows'[i].op = "acknowledgement" /\ rows'[i].turn = u
      BY <1>1, <1>5, <1>8, <1>13 DEF IsReceipt
    <3>4. \A i \in DOMAIN rows : ~ (rows'[i].op = "acknowledgement" /\ rows'[i].turn = u)
      BY <1>8, <3>1
    <3> QED BY <3>2, <3>3, <3>4 DEF Receipts
  <2>3. Cardinality(Len(rows) + 1 .. Len(rows) + offered[u]) = offered[u]
    <3> DEFINE a == Len(rows) + 1
               b == Len(rows) + offered[u]
    <3>1. a \in Int /\ b \in Int
      BY <1>1, <1>8, <1>13
    <3>2. (IF a > b THEN 0 ELSE b - a + 1) = offered[u]
      BY <1>1, <1>8, <1>13
    <3> HIDE DEF a, b
    <3>3. Cardinality(a .. b) = IF a > b THEN 0 ELSE b - a + 1
      BY <3>1, FS_Interval
    <3> QED BY <3>2, <3>3 DEF a, b
  <2>4. Cardinality(Receipts(u)') = offered'[u]
    BY <1>4, <2>2, <2>3
  <2> QED BY <2>1, <2>4 DEF AllOrNone
<1>14. Told'
  BY <1>10, <1>13 DEF Told
<1>15. Addressed'
  <2>1. \A i \in DOMAIN rows' : i \in DOMAIN rows \/ rows'[i] = row
    BY <1>1, <1>8
  <2> QED BY <1>3, <1>4, <1>5, <1>8, <2>1 DEF SInv, Addressed
<1>16. Held' /\ SameFlag'
  BY <1>1, <1>4, <1>9 DEF Held, SameFlag, Awaits
<1> QED BY <1>14, <1>15, <1>16 DEF SInv

LEMMA FinishTold ==
  ASSUME SaveMayFail = FALSE, IInv, OInv, SInv, alive, alive' = alive, NEW response \in TurnIds \cup {0},
         NEW next, next \notin Awaits, Finish(response, next), bind' = bind,
         opened' = opened, offered' = offered
  PROVE  SInv'
<1>1. pc' = next
  BY DEF Finish, Save
<1>2. Held'
  BY <1>1 DEF Held
<1>3. CASE HasTurn
  <2>1. /\ mem' = Finished /\ jour' = [jour EXCEPT ![bind] = Finished]
        /\ rows' = rows \o <<TurnRow(response)>>
    BY <1>3 DEF Finish, Save
  <2>2. SameFlag'
    BY <2>1 DEF SameFlag, IInv, TypeOK
  <2>3. Told' /\ Addressed'
    BY <1>3, <2>1, ClosesTold
  <2> QED BY <1>2, <2>2, <2>3 DEF SInv
<1>4. CASE ~ HasTurn
  <2>1. UNCHANGED <<mem, jour, rows>>
    BY <1>4 DEF Finish
  <2>2. SameFlag'
    BY <2>1 DEF SInv, SameFlag
  <2> QED BY <1>2, <2>1, <2>2, SameRowsTold DEF SInv
<1> QED BY <1>3, <1>4

LEMMA SessionRowTold ==
  ASSUME SaveMayFail = FALSE, IInv, OInv, SInv, alive, NEW status \in {"active", "completed", "abandoned"},
         NEW next, next \notin Awaits, Save([mem EXCEPT !.version = @ + 1], <<SessionRow(status)>>, next),
         bind' = bind, opened' = opened, offered' = offered
  PROVE  SInv'
<1> DEFINE state == [mem EXCEPT !.version = @ + 1]
           row == SessionRow(status)
<1>1. state \in StateType /\ <<row>> \in Seq(RowType)
  BY SessionRowKeeps
<1>2. state.turn.id = mem.turn.id /\ state.turn.injected = mem.turn.injected
  BY DEF IInv, TypeOK, StateType
<1>3. \A j \in DOMAIN <<row>> : ~ IsTurn(<<row>>[j]) /\ ~ IsReceipt(<<row>>[j])
  <2>1. ~ IsTurn(row) /\ ~ IsReceipt(row)
    BY DEF IsTurn, IsReceipt, SessionRow
  <2> HIDE DEF row
  <2> QED BY <2>1
<1>4. mem' = state /\ jour' = [jour EXCEPT ![bind] = state] /\ rows' = rows \o <<row>> /\ pc' = next
  BY DEF Save
<1> HIDE DEF state, row
<1>5. AddsNoTurn
  BY <1>1, <1>3, <1>4, OtherRowsAdd DEF IInv, TypeOK
<1>6. AddsNoReceipt
  <2>1. Grows
    BY <1>5 DEF AddsNoTurn
  <2>2. \A i \in DOMAIN rows' : \/ i \in DOMAIN rows /\ rows'[i] = rows[i]
                                \/ \E j \in DOMAIN <<row>> : rows'[i] = <<row>>[j]
    BY <1>1, <1>4, Joined DEF IInv, TypeOK
  <2> QED BY <1>3, <2>1, <2>2 DEF AddsNoReceipt
<1>7. Told' /\ Addressed' /\ SameFlag'
  BY <1>1, <1>2, <1>4, <1>5, <1>6, SameTurnTold DEF IInv
<1>8. Held'
  BY <1>4 DEF Held
<1> QED BY <1>7, <1>8 DEF SInv

LEMMA EnsureTold ==
  ASSUME SaveMayFail = FALSE, IInv, OInv, SInv, alive, alive' = alive,
         NEW next, next \notin Awaits, EnsureSession(next), bind' = bind, opened' = opened, offered' = offered
  PROVE  SInv'
<1>1. CASE entered
  <2>1. UNCHANGED <<mem, jour, rows>> /\ pc' = next
    BY <1>1 DEF EnsureSession
  <2>2. Held' /\ SameFlag'
    BY <2>1 DEF SInv, SameFlag, Held
  <2> QED BY <2>1, <2>2, SameRowsTold DEF SInv
<1>2. CASE ~ entered
  BY <1>2, SessionRowTold DEF EnsureSession
<1> QED BY <1>1, <1>2

(* A step that leaves the journal alone, and the turn's mark in memory. *)
LEMMA QuietTold ==
  ASSUME SInv, UNCHANGED <<jour, rows, opened, offered>>, Held', SameFlag'
  PROVE  SInv'
BY SameRowsTold DEF SInv

LEMMA UnknownTold ==
  ASSUME IInv, SInv, DeliveryUnknown
  PROVE  SInv'
<1>1. mem \in StateType /\ mem.turn \in TurnType
  BY DEF IInv, TypeOK, StateType
<1>2. /\ alive /\ pc \in Awaits /\ UNCHANGED <<jour, rows, bind, opened, offered>>
      /\ pc' = "idle" /\ ~ mem.turn.injected
  BY DEF DeliveryUnknown, store, world, SInv, Held
<1>3. mem'.turn.injected = mem.turn.injected
  BY <1>1, <1>2 DEF DeliveryUnknown, StateType, TurnType
<1>4. Held' /\ SameFlag'
  BY <1>2, <1>3 DEF Held, Awaits, SInv, SameFlag
<1> QED BY <1>2, <1>4, QuietTold

LEMMA RebindTold ==
  ASSUME SaveMayFail = FALSE, RebindWhileSubmitting = FALSE, IInv, OInv, SInv,
         NEW s \in Sessions, Rebind(s)
  PROVE  SInv'
<1>1. /\ alive /\ s # bind /\ bind' = s /\ mem' = jour[s] /\ pc \notin Awaits /\ pc' = pc
      /\ opened' = opened /\ offered' = offered
      /\ IF HasTurn
         THEN jour' = [jour EXCEPT ![bind] = Finished] /\ rows' = Append(rows, TurnRow(0))
         ELSE UNCHANGED <<jour, rows>>
  BY DEF Rebind, store, world
<1>2. jour'[s] = jour[s]
  BY <1>1 DEF IInv, TypeOK
<1>3. Held' /\ SameFlag'
  BY <1>1, <1>2 DEF Held, SameFlag
<1>4. CASE HasTurn
  <2>1. rows' = rows \o <<TurnRow(0)>>
    <3>1. TurnRow(0) \in RowType /\ rows \in Seq(RowType)
      BY <1>4, FinishedKeeps DEF IInv, TypeOK
    <3> HIDE DEF TurnRow
    <3> QED BY <1>1, <1>4, <3>1, AppendIsConcat
  <2>2. Told' /\ Addressed'
    BY <1>1, <1>4, <2>1, ClosesTold
  <2> QED BY <1>3, <2>2 DEF SInv
<1>5. CASE ~ HasTurn
  BY <1>1, <1>3, <1>5, QuietTold
<1> QED BY <1>4, <1>5

LEMMA InitTold == Init => SInv
<1> SUFFICES ASSUME Init PROVE SInv
  OBVIOUS
<1>1. /\ bind \in Sessions /\ rows = <<>> /\ pc = "idle" /\ mem = Fresh
      /\ \A s \in Sessions : jour[s] = Fresh
  BY DEF Init
<1>2. Held /\ SameFlag /\ Addressed
  BY <1>1 DEF Held, Awaits, SameFlag, Addressed
<1>3. \A t \in TurnIds : ~ Shown(t) /\ Receipts(t) = {}
  BY <1>1, FreshTyped, NoTurnTyped DEF Shown, ShownOpen, OpenIn, Delivered, TurnRows, Receipts
<1> QED BY <1>2, <1>3 DEF SInv, Told, AllOrNone

LEMMA NextTold ==
  ASSUME SaveMayFail = FALSE, RebindWhileSubmitting = FALSE
  PROVE  IInv /\ AInv /\ OInv /\ SInv /\ [Next]_vars => SInv'
<1> SUFFICES ASSUME IInv, AInv, OInv, SInv, [Next]_vars PROVE SInv'
  OBVIOUS
<1> USE DEF world, store, memory
<1>0. TypeOK /\ Held /\ SameFlag
  BY DEF IInv, SInv
<1>1. CASE UNCHANGED vars
  BY <1>0, <1>1, QuietTold DEF vars, Held, HasTurn, SameFlag
<1>2. CASE SubmitRecover
  BY <1>2, FinishTold DEF SubmitRecover, At, Awaits
<1>3. CASE SubmitOpen
  BY <1>3, OpenTold
<1>4. CASE \E n \in 0 .. MaxDeliveries : SubmitPrepare(n)
  BY <1>4, PrepareTold
<1>5. CASE AddMessage
  BY <1>0, <1>5, QuietTold DEF AddMessage, At, Awaits, Held, HasTurn, SameFlag
<1>6. CASE CommitReceipts
  BY <1>6, ReceiptsTold
<1>7. CASE DeliveryUnknown
  BY <1>7, UnknownTold
<1>8. CASE EndFinish
  BY <1>8, FinishTold DEF EndFinish, At, Awaits
<1>9. ASSUME NEW from, NEW status \in {"completed", "abandoned"}, EndSession(from, status) PROVE SInv'
  <2>1. /\ Save([mem EXCEPT !.version = @ + 1], <<SessionRow(status)>>, "idle")
        /\ alive /\ UNCHANGED <<bind, opened, offered>>
    BY <1>9 DEF EndSession, At
  <2>2. "idle" \notin Awaits /\ status \in {"active", "completed", "abandoned"}
    BY DEF Awaits
  <2> QED BY <2>1, <2>2, SessionRowTold
<1>10. CASE Release
  BY <1>0, <1>10, QuietTold DEF Release, Awaits, Held, SameFlag
<1>11. CASE Start
  BY <1>11, EnsureTold DEF Start, At, Awaits
<1>12. CASE Submit
  BY <1>12, EnsureTold DEF Submit, At, Awaits
<1>13. CASE Complete
  BY <1>0, <1>13, FinishTold DEF Complete, At, TypeOK, Awaits
<1>14. CASE Cleanup
  BY <1>0, <1>14, QuietTold DEF Cleanup, Held, HasTurn, SameFlag
<1>15. CASE EndBegin
  <2>1. CASE entered \/ HasTurn
    BY <1>15, <2>1, EnsureTold DEF EndBegin, At, Awaits
  <2>2. CASE ~ (entered \/ HasTurn)
    BY <1>0, <1>15, <2>2, QuietTold DEF EndBegin, At, Awaits, Held, SameFlag
  <2> QED BY <2>1, <2>2
<1>16. CASE SaveState
  <2>1. AddsNoTurn /\ AddsNoReceipt
    BY <1>16 DEF SaveState, AddsNoTurn, AddsNoReceipt, Grows
  <2>2. Told' /\ Addressed' /\ SameFlag'
    BY <1>0, <1>16, <2>1, SameTurnTold DEF SaveState, TypeOK
  <2>3. Held'
    BY <1>0, <1>16 DEF SaveState, Held, HasTurn
  <2> QED BY <2>2, <2>3 DEF SInv
<1>17. ASSUME NEW s \in Sessions, Rebind(s) PROVE SInv'
  BY <1>17, RebindTold
<1>18. ASSUME NEW s \in Sessions, Restart(s) PROVE SInv'
  BY <1>0, <1>18, QuietTold DEF Restart, Held, SameFlag
<1>19. CASE Crash
  BY <1>0, <1>19, QuietTold DEF Crash, Held, Awaits, SameFlag
<1> QED BY <1>1, <1>2, <1>3, <1>4, <1>5, <1>6, <1>7, <1>8, <1>9, <1>10, <1>11, <1>12, <1>13, <1>14,
           <1>15, <1>16, <1>17, <1>18, <1>19 DEF Next, Handler, Host

LEMMA Telling ==
  ASSUME SaveMayFail = FALSE, RebindWhileSubmitting = FALSE
  PROVE  Spec => [](OInv /\ SInv)
<1>1. Init => AInv /\ OInv /\ SInv
  BY InitAccounts, InitOwns, InitTold
<1>2. IInv /\ AInv /\ OInv /\ SInv /\ [Next]_vars => AInv' /\ OInv' /\ SInv'
  BY NextAccounts, NextOwns, NextTold
<1> QED BY <1>1, <1>2, Inductive, PTL DEF Spec

(* Where rebind waits for on_submit and no save raises, everything about a
   turn goes to the session it was opened in: on_submit, finish, rebind. *)
THEOREM TurnsNeverSplitAlways ==
  ASSUME SaveMayFail = FALSE, RebindWhileSubmitting = FALSE
  PROVE  Spec => []TurnsNeverSplit
<1>1. OInv /\ SInv => TurnsNeverSplit
  BY DEF OInv, SInv, Published, Addressed, IsTurn, IsReceipt, TurnsNeverSplit, TurnRows, Receipts
<1> QED BY <1>1, Telling, PTL

(* Under the same conditions a turn's record and its receipts tell one story,
   whatever crash falls between them: on_submit, finish. *)
THEOREM RecordMatchesReceiptsAlways ==
  ASSUME SaveMayFail = FALSE, RebindWhileSubmitting = FALSE
  PROVE  Spec => []RecordMatchesReceipts
<1>1. OInv /\ SInv => RecordMatchesReceipts
  <2> SUFFICES ASSUME OInv, SInv, NEW t \in TurnIds
               PROVE  /\ Receipts(t) # {} =>
                           Delivered(t) \/ \E s \in Sessions : OpenIn(s, t) /\ jour[s].turn.injected
                      /\ TurnRows(t) # {} =>
                           Cardinality(Receipts(t)) = IF Delivered(t) THEN offered[t] ELSE 0
    BY DEF RecordMatchesReceipts
  <2>1. AllOrNone(t)
    BY DEF SInv, Told
  <2>2. TurnRows(t) # {} => ~ ShownOpen(t)
    BY DEF OInv, Published, IsTurn, TurnRows, ShownOpen, OpenIn
  <2> QED BY <2>1, <2>2, FS_EmptySet DEF AllOrNone, Shown, ShownOpen
<1> QED BY <1>1, Telling, PTL
-----------------------------------------------------------------------------
(* The last word on a session.  Where rebind waits for on_submit, a handler
   speaks only for a session that it has entered and whose end it has not
   announced; and a session whose end is announced has no turn left that a
   later binding could publish. *)
EndedClosed == \A s \in Sessions : LastSaysEnded(s) => jour[s].turn.id = 0
Speaking ==
  /\ pc # "idle" => alive /\ entered /\ ~ LastSaysEnded(bind)
  /\ entered => alive
Silenced == alive /\ entered /\ LastSaysEnded(bind) => ended /\ pinned # 0
Ending ==
  /\ pinned <= gen
  /\ pc \in {"end.finish", "end.completed", "end.abandoned"} => ended /\ pinned = gen
  /\ pc \in {"end.completed", "end.abandoned"} => ~ HasTurn

LInv == EndIsLast /\ EndedClosed /\ Speaking /\ Silenced /\ Ending

ActiveRow(row) == row.op = "session.upsert" /\ row.status = "active"
EndRow(row) == row.op = "session.upsert" /\ row.status # "active"

(* What n times one row more says of the sessions. *)
LEMMA Speaks ==
  ASSUME rows \in Seq(RowType), EndIsLast, NEW r \in RowType, NEW n \in Nat,
         rows' = rows \o [i \in 1 .. n |-> r],
         LastSaysEnded(r.session) => ActiveRow(r), EndRow(r) => n = 1
  PROVE  /\ EndIsLast'
         /\ \A s : s # r.session \/ n = 0 => (LastSaysEnded(s)' <=> LastSaysEnded(s))
         /\ \A s : s = r.session /\ n > 0 => (LastSaysEnded(s)' <=> EndRow(r))
<1> DEFINE m == Len(rows)
<1>1. /\ m \in Nat /\ DOMAIN rows = 1 .. m /\ DOMAIN rows' = 1 .. m + n
      /\ \A i \in 1 .. m : rows'[i] = rows[i]
      /\ \A i \in m + 1 .. m + n : rows'[i] = r
  BY RepeatedRow
<1> HIDE DEF m
<1>2. \A i \in 1 .. m + n : i \in 1 .. m \/ i \in m + 1 .. m + n
  BY <1>1
<1>3. EndIsLast'
  <2> SUFFICES ASSUME NEW i \in DOMAIN rows', NEW j \in DOMAIN rows', i < j,
                      rows'[i].session = rows'[j].session, EndRow(rows'[i]),
                      \A k \in i + 1 .. j - 1 : rows'[i].session # rows'[k].session
               PROVE  rows'[j].op = "session.upsert" /\ rows'[j].status = "active"
    BY DEF EndIsLast, SameSession, IsEnd, EndRow
  <2>1. CASE j \in 1 .. m
    <3>1. i \in 1 .. m /\ \A k \in i + 1 .. j - 1 : k \in 1 .. m
      BY <1>1, <2>1
    <3>2. \A k \in i + 1 .. j - 1 : rows[i].session # rows[k].session
      BY <1>1, <3>1
    <3> QED BY <1>1, <2>1, <3>1, <3>2 DEF EndIsLast, SameSession, IsEnd, EndRow
  <2>2. CASE j \in m + 1 .. m + n
    <3>1. i \in 1 .. m
      <4>1. CASE i \in m + 1 .. m + n
        <5>1. n = 1
          BY <1>1, <4>1
        <5> QED BY <1>1, <2>2, <4>1, <5>1
      <4> QED BY <1>1, <1>2, <4>1
    <3>2. ASSUME NEW k \in 1 .. m, rows[k].session = r.session PROVE k <= i
      <4>1. k > i => k \in i + 1 .. j - 1
        BY <1>1, <2>2, <3>1
      <4>2. rows'[i].session = r.session /\ rows'[k].session = r.session
        BY <1>1, <2>2, <3>2
      <4>3. ~ (k > i)
        BY <4>1, <4>2
      <4>4. k \in Nat /\ i \in Nat
        BY <1>1, <3>1
      <4> QED BY <4>3, <4>4
    <3>3. LastSaysEnded(r.session)
      BY <1>1, <2>2, <3>1, <3>2 DEF LastSaysEnded, IsEnd, EndRow
    <3> QED BY <1>1, <2>2, <3>3 DEF ActiveRow
  <2> QED BY <1>1, <1>2, <2>1, <2>2
<1>4. ASSUME NEW s, s # r.session \/ n = 0 PROVE LastSaysEnded(s)' <=> LastSaysEnded(s)
  <2>1. \A i \in DOMAIN rows' : rows'[i].session = s => i \in 1 .. m
    BY <1>1, <1>2, <1>4
  <2>2. \A i \in 1 .. m : i \in DOMAIN rows' /\ i \in DOMAIN rows
    BY <1>1
  <2> QED BY <1>1, <2>1, <2>2 DEF LastSaysEnded, IsEnd
<1>5. ASSUME NEW s, s = r.session, n > 0 PROVE LastSaysEnded(s)' <=> EndRow(r)
  <2>1. m + n \in DOMAIN rows' /\ rows'[m + n] = r /\ \A i \in DOMAIN rows' : i <= m + n
    BY <1>1, <1>5
  <2>2. \A i \in DOMAIN rows' : m + n <= i => i = m + n
    BY <1>1
  <2> QED BY <1>5, <2>1, <2>2 DEF LastSaysEnded, IsEnd, EndRow
<1> QED BY <1>3, <1>4, <1>5

LEMMA SpeaksOnce ==
  ASSUME rows \in Seq(RowType), EndIsLast, NEW r \in RowType, rows' = rows \o <<r>>,
         LastSaysEnded(r.session) => ActiveRow(r)
  PROVE  /\ EndIsLast'
         /\ \A s : s # r.session => (LastSaysEnded(s)' <=> LastSaysEnded(s))
         /\ \A s : s = r.session => (LastSaysEnded(s)' <=> EndRow(r))
<1>1. <<r>> = [i \in 1 .. 1 |-> r]
  OBVIOUS
<1>2. rows' = rows \o [i \in 1 .. 1 |-> r]
  BY <1>1
<1>3. 1 \in Nat /\ 1 > 0 /\ 1 # 0 /\ (EndRow(r) => 1 = 1)
  OBVIOUS
<1>4. /\ EndIsLast'
      /\ \A s : s # r.session \/ 1 = 0 => (LastSaysEnded(s)' <=> LastSaysEnded(s))
      /\ \A s : s = r.session /\ 1 > 0 => (LastSaysEnded(s)' <=> EndRow(r))
  BY ONLY <1>2, <1>3, Speaks, rows \in Seq(RowType), EndIsLast, r \in RowType,
          LastSaysEnded(r.session) => ActiveRow(r)
<1> QED BY <1>3, <1>4

LEMMA SaysNothing ==
  ASSUME rows' = rows
  PROVE  /\ EndIsLast => EndIsLast'
         /\ \A s : LastSaysEnded(s)' <=> LastSaysEnded(s)
BY DEF EndIsLast, SameSession, IsEnd, LastSaysEnded

(* finish speaks of a turn, so of a session that has not ended. *)
LEMMA FinishSpeaks ==
  ASSUME SaveMayFail = FALSE, IInv, OInv, LInv, alive, NEW response \in TurnIds \cup {0}, HasTurn,
         rows' = rows \o <<TurnRow(response)>>, jour' = [jour EXCEPT ![bind] = Finished]
  PROVE  EndIsLast' /\ EndedClosed' /\ \A s \in Sessions : LastSaysEnded(s)' => LastSaysEnded(s) /\ s # bind
<1> DEFINE row == TurnRow(response)
<1>1. /\ rows \in Seq(RowType) /\ row \in RowType /\ bind \in Sessions
      /\ jour \in [Sessions -> StateType] /\ jour[bind].turn.id # 0
  BY FinishedKeeps, TurnHasNumber, BoundsAreNumbers DEF IInv, TypeOK, OInv, Agrees
<1>2. row.session = bind /\ ~ EndRow(row)
  BY DEF TurnRow, EndRow
<1>3. ~ LastSaysEnded(bind)
  BY <1>1 DEF LInv, EndedClosed
<1> HIDE DEF row
<1>4. rows' = rows \o <<row>>
  BY DEF row
<1>5. EndIsLast' /\ \A s \in Sessions : LastSaysEnded(s)' => LastSaysEnded(s) /\ s # bind
  BY <1>1, <1>2, <1>3, <1>4, SpeaksOnce DEF LInv
<1>6. \A s \in Sessions : s # bind => jour'[s] = jour[s]
  BY <1>1
<1> QED BY <1>5, <1>6 DEF LInv, EndedClosed

LEMMA FinishLast ==
  ASSUME SaveMayFail = FALSE, IInv, OInv, LInv, alive, NEW response \in TurnIds \cup {0}, NEW next,
         Finish(response, next), next = "idle" \/ pc # "idle",
         next \in {"end.completed", "end.abandoned"} => pc = "end.finish",
         next # "end.finish",
         UNCHANGED <<bind, alive, entered, ended, gen, pinned>>
  PROVE  LInv'
<1>1. pc' = next
  BY DEF Finish, Save
<1>2. CASE HasTurn
  <2>1. /\ mem' = Finished /\ jour' = [jour EXCEPT ![bind] = Finished]
        /\ rows' = rows \o <<TurnRow(response)>>
    BY <1>2 DEF Finish, Save
  <2>2. EndIsLast' /\ EndedClosed' /\ \A s \in Sessions : LastSaysEnded(s)' => LastSaysEnded(s) /\ s # bind
    BY <1>2, <2>1, FinishSpeaks
  <2>3. ~ LastSaysEnded(bind)'
    BY <2>2 DEF IInv, TypeOK
  <2>4. ~ HasTurn'
    BY <1>2, <2>1, FinishedKeeps DEF HasTurn
  <2> QED BY <1>1, <2>2, <2>3, <2>4 DEF LInv, Speaking, Silenced, Ending
<1>3. CASE ~ HasTurn
  <2>1. UNCHANGED <<mem, jour, rows>>
    BY <1>3 DEF Finish
  <2>2. /\ EndIsLast' /\ (\A s : LastSaysEnded(s)' <=> LastSaysEnded(s))
    BY <2>1, SaysNothing DEF LInv
  <2>3. EndedClosed'
    BY <2>1, <2>2 DEF LInv, EndedClosed
  <2>4. LastSaysEnded(bind)' <=> LastSaysEnded(bind)
    BY <2>2
  <2> QED BY <1>1, <1>3, <2>1, <2>2, <2>3, <2>4 DEF LInv, Speaking, Silenced, Ending, HasTurn
<1> QED BY <1>2, <1>3

(* A row of the session itself. *)
LEMMA SessionRowSpeaks ==
  ASSUME SaveMayFail = FALSE, IInv, OInv, LInv, alive, NEW status \in {"active", "completed", "abandoned"},
         NEW next, Save([mem EXCEPT !.version = @ + 1], <<SessionRow(status)>>, next),
         status = "active" \/ ~ LastSaysEnded(bind), status = "active" \/ ~ HasTurn, bind' = bind
  PROVE  /\ EndIsLast' /\ EndedClosed' /\ pc' = next
         /\ LastSaysEnded(bind)' <=> status # "active"
         /\ HasTurn' <=> HasTurn
<1> DEFINE row == SessionRow(status)
           state == [mem EXCEPT !.version = @ + 1]
<1>1. /\ rows \in Seq(RowType) /\ bind \in Sessions /\ mem \in StateType
      /\ jour \in [Sessions -> StateType] /\ jour[bind].turn.id = mem.turn.id
  BY DEF IInv, TypeOK, OInv, Agrees
<1>2. /\ row \in RowType /\ row.session = bind
      /\ (ActiveRow(row) <=> status = "active") /\ (EndRow(row) <=> status # "active")
  BY <1>1 DEF SessionRow, RowType, StateType, ActiveRow, EndRow
<1>3. state.turn = mem.turn
  BY <1>1 DEF StateType
<1>4. mem' = state /\ jour' = [jour EXCEPT ![bind] = state] /\ rows' = rows \o <<row>> /\ pc' = next
  BY DEF Save
<1> HIDE DEF row, state
<1>5. /\ EndIsLast'
      /\ \A s : s # bind => (LastSaysEnded(s)' <=> LastSaysEnded(s))
      /\ \A s : s = bind => (LastSaysEnded(s)' <=> status # "active")
  BY <1>1, <1>2, <1>4, SpeaksOnce DEF LInv
<1>6. \A s \in Sessions : jour'[s].turn.id = jour[s].turn.id
  BY <1>1, <1>3, <1>4
<1>7. HasTurn' <=> HasTurn
  BY <1>3, <1>4 DEF HasTurn
<1>8. status # "active" => jour[bind].turn.id = 0
  BY <1>1, NoTurnTyped DEF HasTurn
<1>9. EndedClosed'
  BY <1>1, <1>5, <1>6, <1>8 DEF LInv, EndedClosed
<1>10. LastSaysEnded(bind)' <=> status # "active"
  BY <1>5
<1> QED BY <1>4, <1>5, <1>7, <1>9, <1>10

LEMMA EnsureLast ==
  ASSUME SaveMayFail = FALSE, IInv, OInv, LInv, alive, NEW next, EnsureSession(next),
         entered => ~ LastSaysEnded(bind), bind' = bind
  PROVE  /\ EndIsLast' /\ EndedClosed' /\ pc' = next /\ entered' /\ ~ LastSaysEnded(bind)'
         /\ HasTurn' <=> HasTurn
<1>1. CASE entered
  <2>1. UNCHANGED <<mem, entered, jour, rows>> /\ pc' = next
    BY <1>1 DEF EnsureSession
  <2>2. EndIsLast' /\ \A s : LastSaysEnded(s)' <=> LastSaysEnded(s)
    BY <2>1, SaysNothing DEF LInv
  <2>3. EndedClosed' /\ ~ LastSaysEnded(bind)'
    BY <1>1, <2>1, <2>2 DEF LInv, EndedClosed
  <2> QED BY <1>1, <2>1, <2>2, <2>3 DEF HasTurn
<1>2. CASE ~ entered
  BY <1>2, SessionRowSpeaks DEF EnsureSession
<1> QED BY <1>1, <1>2

(* A step that adds no row and leaves the turns of the journal as they are. *)
LEMMA SilentLast ==
  ASSUME LInv, rows' = rows, \A s \in Sessions : jour'[s].turn.id = jour[s].turn.id
  PROVE  EndIsLast' /\ EndedClosed' /\ \A s : LastSaysEnded(s)' <=> LastSaysEnded(s)
<1>1. EndIsLast' /\ \A s : LastSaysEnded(s)' <=> LastSaysEnded(s)
  BY SaysNothing DEF LInv
<1> QED BY <1>1 DEF LInv, EndedClosed

(* ... and stays in the same binding. *)
LEMMA StayLast ==
  ASSUME LInv, rows' = rows, \A s \in Sessions : jour'[s].turn.id = jour[s].turn.id,
         UNCHANGED <<bind, alive, entered, ended, gen>>, pinned' = pinned \/ pinned' = gen,
         pc' = "idle" \/ (pc' = pc /\ mem' = mem) \/ (pc \in Awaits /\ pc' \in Awaits),
         gen \in Nat, gen # 0,
         pinned' = pinned \/ pc \notin Sync
  PROVE  LInv'
<1>1. EndIsLast' /\ EndedClosed' /\ \A s : LastSaysEnded(s)' <=> LastSaysEnded(s)
  BY SilentLast
<1>2. LastSaysEnded(bind)' <=> LastSaysEnded(bind)
  BY <1>1
<1>3. Speaking' /\ Silenced'
  BY <1>2 DEF LInv, Speaking, Silenced, Awaits
<1>4. Ending'
  BY DEF LInv, Ending, Awaits, Sync, HasTurn
<1> QED BY <1>1, <1>3, <1>4 DEF LInv

LEMMA OpenLast ==
  ASSUME SaveMayFail = FALSE, IInv, LInv, SubmitOpen
  PROVE  LInv'
<1>1. /\ rows \in Seq(RowType) /\ bind \in Sessions /\ jour \in [Sessions -> StateType]
      /\ alive /\ pc = "submit.open" /\ entered /\ ~ LastSaysEnded(bind)
  BY DEF IInv, TypeOK, SubmitOpen, At, LInv, Speaking
<1>2. /\ jour' = [jour EXCEPT ![bind] = mem'] /\ rows' = rows \o <<>> /\ pc' = "submit.sync"
      /\ UNCHANGED <<bind, alive, entered, ended, gen, pinned>>
  BY DEF SubmitOpen, Save
<1>3. EndIsLast' /\ \A s : LastSaysEnded(s)' <=> LastSaysEnded(s)
  BY <1>1, <1>2, ConcatEmptySeq, SaysNothing DEF LInv
<1>4. ~ LastSaysEnded(bind)'
  BY <1>1, <1>2, <1>3
<1>5. EndedClosed'
  BY <1>1, <1>2, <1>3 DEF LInv, EndedClosed
<1>6. Speaking' /\ Silenced' /\ Ending'
  BY <1>1, <1>2, <1>4 DEF LInv, Speaking, Silenced, Ending
<1> QED BY <1>3, <1>5, <1>6 DEF LInv

LEMMA ReceiptsLast ==
  ASSUME IInv, OInv, LInv, CommitReceipts
  PROVE  LInv'
<1> DEFINE row == [session |-> bind, op |-> "acknowledgement", turn |-> cur]
           n == offered[cur]
<1>1. /\ mem \in StateType /\ mem.turn \in TurnType /\ rows \in Seq(RowType) /\ alive
      /\ bind \in Sessions /\ jour \in [Sessions -> StateType] /\ cur \in TurnIds /\ n \in Nat
      /\ jour[bind].turn.id = mem.turn.id /\ pc = "submit.accepted" /\ ~ LastSaysEnded(bind)
  BY BoundsAreNumbers
  DEF IInv, TypeOK, Stage, StateType, CommitReceipts, At, OInv, Agrees, LInv, Speaking
<1>2. /\ jour' = [jour EXCEPT ![bind] = mem'] /\ rows' = rows \o [i \in 1 .. n |-> row]
      /\ UNCHANGED <<bind, alive, entered, ended, gen, pinned>> /\ pc' = "idle"
      /\ mem'.turn.id = mem.turn.id
  BY <1>1 DEF CommitReceipts, world, StateType, TurnType
<1>3. row \in RowType /\ row.session = bind /\ ~ EndRow(row)
  BY <1>1 DEF RowType, EndRow
<1> HIDE DEF row, n
<1>4. /\ EndIsLast'
      /\ \A s : s # row.session \/ n = 0 => (LastSaysEnded(s)' <=> LastSaysEnded(s))
      /\ \A s : s = row.session /\ n > 0 => (LastSaysEnded(s)' <=> EndRow(row))
  BY <1>1, <1>2, <1>3, Speaks DEF LInv
<1>5. n = 0 \/ n > 0
  BY <1>1
<1>6. \A s : LastSaysEnded(s)' <=> LastSaysEnded(s)
  BY <1>1, <1>3, <1>4, <1>5
<1>7. \A s \in Sessions : jour'[s].turn.id = jour[s].turn.id
  BY <1>1, <1>2
<1>8. EndedClosed'
  BY <1>6, <1>7 DEF LInv, EndedClosed
<1>9. ~ LastSaysEnded(bind)'
  BY <1>1, <1>2, <1>6
<1>10. Speaking' /\ Silenced' /\ Ending'
  BY <1>2, <1>9 DEF LInv, Speaking, Silenced, Ending
<1> QED BY <1>4, <1>8, <1>10 DEF LInv

LEMMA RebindLast ==
  ASSUME SaveMayFail = FALSE, RebindWhileSubmitting = FALSE, IInv, OInv, LInv,
         NEW s \in Sessions, Rebind(s)
  PROVE  LInv'
<1>1. /\ alive /\ alive' /\ pc = "idle" /\ pc' = "idle" /\ entered' = FALSE
      /\ gen' = gen + 1 /\ pinned' = pinned /\ gen \in Nat /\ pinned \in Nat
      /\ IF HasTurn
         THEN jour' = [jour EXCEPT ![bind] = Finished] /\ rows' = Append(rows, TurnRow(0))
         ELSE UNCHANGED <<jour, rows>>
  BY BoundsAreNumbers DEF Rebind, store, world, IInv, TypeOK
<1>2. EndIsLast' /\ EndedClosed'
  <2>1. CASE HasTurn
    <3>1. TurnRow(0) \in RowType /\ rows \in Seq(RowType)
      BY <2>1, FinishedKeeps DEF IInv, TypeOK
    <3>2. rows' = rows \o <<TurnRow(0)>>
      <4> HIDE DEF TurnRow
      <4> QED BY <1>1, <2>1, <3>1, AppendIsConcat
    <3> QED BY <1>1, <2>1, <3>2, FinishSpeaks
  <2>2. CASE ~ HasTurn
    BY <1>1, <2>2, SilentLast
  <2> QED BY <2>1, <2>2
<1>3. Speaking' /\ Silenced' /\ Ending'
  BY <1>1 DEF LInv, Speaking, Silenced, Ending
<1> QED BY <1>2, <1>3 DEF LInv

LEMMA InitLast == Init => LInv
<1> SUFFICES ASSUME Init PROVE LInv
  OBVIOUS
<1>1. rows = <<>> /\ pc = "idle" /\ entered = FALSE /\ pinned = 0 /\ gen = 1
  BY DEF Init
<1> QED BY <1>1 DEF LInv, EndIsLast, EndedClosed, LastSaysEnded, Speaking, Silenced, Ending

LEMMA NextLast ==
  ASSUME SaveMayFail = FALSE, RebindWhileSubmitting = FALSE
  PROVE  IInv /\ OInv /\ LInv /\ [Next]_vars => LInv'
<1> SUFFICES ASSUME IInv, OInv, LInv, [Next]_vars PROVE LInv'
  OBVIOUS
<1> USE DEF world, store, memory
<1>0. TypeOK /\ gen \in Nat /\ gen # 0 /\ pinned \in Nat
  BY BoundsAreNumbers DEF IInv, TypeOK
<1>1. CASE UNCHANGED vars
  BY <1>0, <1>1, StayLast DEF vars
<1>2. CASE SubmitRecover
  BY <1>2, FinishLast DEF SubmitRecover, At
<1>3. CASE SubmitOpen
  BY <1>3, OpenLast
<1>4. CASE \E n \in 0 .. MaxDeliveries : SubmitPrepare(n)
  <2>1. PICK n \in 0 .. MaxDeliveries : SubmitPrepare(n)
    BY <1>4
  <2>2. /\ rows' = rows /\ UNCHANGED <<bind, alive, entered, ended, gen, pinned>>
        /\ pc \in Awaits /\ pc' \in {"submit.attach", "idle"}
    BY <2>1 DEF SubmitPrepare, At, Awaits
  <2>3. \A s \in Sessions : jour'[s].turn.id = jour[s].turn.id
    <3>1. /\ mem \in StateType /\ mem.turn \in TurnType /\ bind \in Sessions
          /\ jour \in [Sessions -> StateType] /\ jour[bind].turn.id = mem.turn.id
      BY <1>0, <2>1 DEF TypeOK, StateType, OInv, Agrees, SubmitPrepare, At
    <3> DEFINE prepared == [mem EXCEPT !.turn.prepared = TRUE]
    <3>2. prepared.turn.id = mem.turn.id
      BY <3>1 DEF StateType, TurnType
    <3>3. jour' = jour \/ jour' = [jour EXCEPT ![bind] = prepared]
      BY <2>1 DEF SubmitPrepare
    <3> HIDE DEF prepared
    <3> QED BY <3>1, <3>2, <3>3
  <2> QED BY <1>0, <2>2, <2>3, StayLast DEF Awaits
<1>5. CASE AddMessage
  BY <1>0, <1>5, StayLast DEF AddMessage, At, Awaits
<1>6. CASE CommitReceipts
  BY <1>6, ReceiptsLast
<1>7. CASE DeliveryUnknown
  BY <1>0, <1>7, StayLast DEF DeliveryUnknown
<1>8. CASE EndFinish
  BY <1>8, FinishLast DEF EndFinish, At
<1>9. ASSUME NEW from \in {"end.completed", "end.abandoned"}, NEW status \in {"completed", "abandoned"},
             EndSession(from, status)
      PROVE  LInv'
  <2>1. /\ Save([mem EXCEPT !.version = @ + 1], <<SessionRow(status)>>, "idle")
        /\ alive /\ pc = from /\ UNCHANGED <<bind, alive, entered, ended, gen, pinned>>
    BY <1>9 DEF EndSession, At
  <2>2. ~ LastSaysEnded(bind) /\ ~ HasTurn /\ ended /\ pinned = gen
    BY <2>1 DEF LInv, Speaking, Ending
  <2>3. EndIsLast' /\ EndedClosed' /\ pc' = "idle"
    BY <2>1, <2>2, SessionRowSpeaks
  <2> QED BY <1>0, <2>1, <2>2, <2>3 DEF LInv, Speaking, Silenced, Ending
<1>10. CASE Release
  BY <1>0, <1>10, StayLast DEF Release
<1>11. CASE Start
  <2>1. alive /\ EnsureSession("idle") /\ pinned = 0 /\ UNCHANGED <<bind, alive, ended, gen, pinned>>
    BY <1>11 DEF Start, At
  <2>2. EndIsLast' /\ EndedClosed' /\ pc' = "idle" /\ ~ LastSaysEnded(bind)'
    BY <2>1, EnsureLast DEF LInv, Silenced
  <2> QED BY <2>1, <2>2 DEF LInv, Speaking, Silenced, Ending
<1>12. CASE Submit
  <2>1. /\ alive /\ EnsureSession("submit.recover") /\ pinned = 0
        /\ UNCHANGED <<bind, alive, ended, gen, pinned>>
    BY <1>12 DEF Submit, At
  <2>2. EndIsLast' /\ EndedClosed' /\ pc' = "submit.recover" /\ entered' /\ ~ LastSaysEnded(bind)'
    BY <2>1, EnsureLast DEF LInv, Silenced
  <2> QED BY <2>1, <2>2 DEF LInv, Speaking, Silenced, Ending
<1>13. CASE Complete
  BY <1>0, <1>13, FinishLast DEF Complete, At, TypeOK
<1>14. CASE Cleanup
  BY <1>0, <1>14, StayLast DEF Cleanup
<1>15. CASE EndBegin
  <2>1. alive /\ pc = "idle" /\ pinned = gen /\ ~ ended /\ ended' /\ UNCHANGED <<bind, alive, gen, pinned>>
    BY <1>15 DEF EndBegin, At
  <2>2. CASE entered \/ HasTurn
    <3>1. EnsureSession("end.finish")
      BY <1>15, <2>2 DEF EndBegin
    <3>2. EndIsLast' /\ EndedClosed' /\ pc' = "end.finish" /\ entered' /\ ~ LastSaysEnded(bind)'
      BY <2>1, <3>1, EnsureLast DEF LInv, Silenced
    <3> QED BY <2>1, <3>2 DEF LInv, Speaking, Silenced, Ending
  <2>3. CASE ~ (entered \/ HasTurn)
    <3>1. UNCHANGED <<pc, mem, entered, jour, rows>>
      BY <1>15, <2>3 DEF EndBegin
    <3>2. EndIsLast' /\ EndedClosed'
      BY <3>1, SilentLast
    <3> QED BY <2>1, <2>3, <3>1, <3>2 DEF LInv, Speaking, Silenced, Ending
  <2> QED BY <2>2, <2>3
<1>16. CASE SaveState
  <2>1. \A s \in Sessions : jour'[s].turn.id = jour[s].turn.id
    BY <1>0, <1>16 DEF SaveState, TypeOK, OInv, Agrees
  <2> QED BY <1>0, <1>16, <2>1, StayLast DEF SaveState
<1>17. ASSUME NEW s \in Sessions, Rebind(s) PROVE LInv'
  BY <1>17, RebindLast
<1>18. ASSUME NEW s \in Sessions, Restart(s) PROVE LInv'
  <2>1. EndIsLast' /\ EndedClosed' /\ \A x : LastSaysEnded(x)' <=> LastSaysEnded(x)
    BY <1>18, SilentLast DEF Restart
  <2>2. pc = "idle" /\ pc' = "idle" /\ ~ entered /\ UNCHANGED <<entered, ended, gen, pinned>>
    BY <1>18 DEF Restart, LInv, Speaking
  <2> QED BY <1>18, <2>1, <2>2 DEF LInv, Speaking, Silenced, Ending
<1>19. CASE Crash
  <2>1. EndIsLast' /\ EndedClosed'
    BY <1>19, SilentLast DEF Crash
  <2> QED BY <1>0, <1>19, <2>1 DEF Crash, LInv, Speaking, Silenced, Ending
<1> QED BY <1>1, <1>2, <1>3, <1>4, <1>5, <1>6, <1>7, <1>8, <1>9, <1>10, <1>11, <1>12, <1>13, <1>14,
           <1>15, <1>16, <1>17, <1>18, <1>19 DEF Next, Handler, Host

(* A session once ended says nothing more until it says it is active, where
   rebind waits for on_submit and no save raises: _end_shared_session, rebind,
   ensure_session. *)
THEOREM EndIsLastAlways ==
  ASSUME SaveMayFail = FALSE, RebindWhileSubmitting = FALSE
  PROVE  Spec => []EndIsLast
<1>1. Init => LInv
  BY InitLast
<1>2. IInv /\ OInv /\ LInv /\ [Next]_vars => LInv'
  BY NextLast
<1>3. LInv => EndIsLast
  BY DEF LInv
<1> QED BY <1>1, <1>2, <1>3, Inductive, Owning, PTL DEF Spec
-----------------------------------------------------------------------------
(* How many rows there can be.  A turn that is open has its record still to
   come, a turn on_submit works for its receipts; a binding that has not
   announced its session, or not its end, has that still to say. *)
OpenSessions == {s \in Sessions : jour[s].turn.id # 0}
Weight(n) == n * (1 + MaxDeliveries)
ReceiptsToCome == IF pc \in Awaits THEN MaxDeliveries ELSE 0
StartToCome == IF entered THEN 0 ELSE 1
EndToCome == IF ended /\ pc = "idle" THEN 0 ELSE 1
ToCome == Cardinality(OpenSessions) + ReceiptsToCome + StartToCome + EndToCome

RInv ==
  /\ IsFiniteSet(OpenSessions)
  /\ ended => pinned # 0
  /\ Len(rows) + ToCome <= Weight(Len(opened)) + 2 * (gen + crashes)

LEMMA WeightGrows ==
  /\ \A n \in Nat : Weight(n) \in Nat /\ Weight(n + 1) = Weight(n) + 1 + MaxDeliveries
  /\ \A n \in Nat : n <= MaxTurns => Weight(n) <= Weight(MaxTurns)
<1>1. ASSUME NEW n \in Nat PROVE Weight(n) \in Nat /\ Weight(n + 1) = Weight(n) + 1 + MaxDeliveries
  BY BoundsAreNumbers DEF Weight
<1>2. ASSUME NEW n \in Nat, n <= MaxTurns PROVE Weight(n) <= Weight(MaxTurns)
  <2> DEFINE c == 1 + MaxDeliveries
             k == MaxTurns - n
  <2>1. c \in Nat /\ k \in Nat /\ MaxTurns = n + k
    BY <1>2, BoundsAreNumbers
  <2> HIDE DEF c, k
  <2>2. (n + k) * c = n * c + k * c /\ k * c >= 0 /\ n * c \in Nat /\ k * c \in Nat
    BY <2>1
  <2>3. MaxTurns * c = n * c + k * c
    BY <2>1, <2>2
  <2>4. MaxTurns * c >= n * c
    BY <2>2, <2>3
  <2> QED BY <2>4 DEF Weight, c
<1> QED BY <1>1, <1>2

LEMMA ToComeTyped ==
  ASSUME TypeOK, IsFiniteSet(OpenSessions)
  PROVE  /\ Cardinality(OpenSessions) \in Nat /\ ReceiptsToCome \in Nat
         /\ StartToCome \in 0 .. 1 /\ EndToCome \in 0 .. 1
         /\ Len(rows) \in Nat /\ Len(opened) \in Nat /\ Len(opened) <= MaxTurns
         /\ gen \in Nat /\ gen <= MaxRebinds + 1 /\ crashes \in Nat /\ crashes <= MaxCrashes
         /\ Weight(Len(opened)) \in Nat
<1>1. Len(rows) \in Nat /\ Len(opened) \in Nat
  BY LenProperties DEF TypeOK
<1>2. Cardinality(OpenSessions) \in Nat
  BY FS_CardinalityType
<1> QED BY <1>1, <1>2, WeightGrows, BoundsAreNumbers DEF TypeOK, ReceiptsToCome, StartToCome, EndToCome

Bounded == Len(rows) <= RowBound

LEMMA RowsBounded == IInv /\ RInv => Bounded
<1> SUFFICES ASSUME IInv, RInv PROVE Len(rows) <= RowBound
  BY DEF Bounded
<1>0. TypeOK
  BY DEF IInv
<1>1. Weight(MaxTurns) \in Nat /\ Weight(Len(opened)) <= Weight(MaxTurns)
  BY <1>0, ToComeTyped, WeightGrows, BoundsAreNumbers DEF RInv
<1>2. Len(rows) + ToCome <= Weight(Len(opened)) + 2 * (gen + crashes)
  BY DEF RInv
<1>3. RowBound = Weight(MaxTurns) + 2 * (1 + MaxRebinds + MaxCrashes)
  BY DEF RowBound, Weight
<1>4. ToCome \in Nat
  BY <1>0, ToComeTyped DEF ToCome, RInv
<1> HIDE DEF RowBound, Weight, ToCome
<1> QED BY <1>0, <1>1, <1>2, <1>3, <1>4, ToComeTyped, BoundsAreNumbers DEF RInv

(* Fewer rows to come, by as many as were added. *)
LEMMA OneOpens ==
  ASSUME IsFiniteSet(OpenSessions), NEW b \in Sessions, b \notin OpenSessions,
         OpenSessions' = OpenSessions \cup {b}
  PROVE  IsFiniteSet(OpenSessions)' /\ Cardinality(OpenSessions') = Cardinality(OpenSessions) + 1
BY FS_AddElement

LEMMA OneCloses ==
  ASSUME IsFiniteSet(OpenSessions), NEW b \in OpenSessions, OpenSessions' = OpenSessions \ {b}
  PROVE  IsFiniteSet(OpenSessions)' /\ Cardinality(OpenSessions') = Cardinality(OpenSessions) - 1
BY FS_RemoveElement

LEMMA OpensSame ==
  ASSUME \A s \in Sessions : jour'[s].turn.id = jour[s].turn.id
  PROVE  OpenSessions' = OpenSessions
BY DEF OpenSessions

(* A step that adds no row and leaves no more to come. *)
LEMMA RoomSame ==
  ASSUME TypeOK, TypeOK', RInv, UNCHANGED <<rows, opened, gen, crashes>>, OpenSessions' = OpenSessions,
         ended' => pinned' # 0,
         ReceiptsToCome' <= ReceiptsToCome, StartToCome' <= StartToCome, EndToCome' <= EndToCome
  PROVE  RInv'
<1>1. IsFiniteSet(OpenSessions) /\ IsFiniteSet(OpenSessions)'
  BY DEF RInv
<1>2. ReceiptsToCome' \in Nat /\ StartToCome' \in Nat /\ EndToCome' \in Nat
  BY BoundsAreNumbers DEF ReceiptsToCome, StartToCome, EndToCome
<1>3. /\ Cardinality(OpenSessions) \in Nat /\ ReceiptsToCome \in Nat /\ StartToCome \in Nat
      /\ EndToCome \in Nat /\ Len(rows) \in Nat
  BY <1>1, ToComeTyped
<1>4. ToCome' <= ToCome /\ ToCome \in Nat /\ ToCome' \in Nat
  BY <1>2, <1>3 DEF ToCome
<1>5. Weight(Len(opened))' = Weight(Len(opened)) /\ Weight(Len(opened)) \in Nat
      /\ gen \in Nat /\ crashes \in Nat
  BY <1>1, ToComeTyped DEF Weight
<1> QED BY <1>1, <1>3, <1>4, <1>5 DEF RInv

(* finish: the record that was to come is there. *)
LEMMA ClosesRoom ==
  ASSUME IInv, OInv, RInv, alive, HasTurn, NEW response \in TurnIds \cup {0},
         rows' = rows \o <<TurnRow(response)>>, jour' = [jour EXCEPT ![bind] = Finished]
  PROVE  /\ IsFiniteSet(OpenSessions)' /\ Len(rows') = Len(rows) + 1
         /\ Cardinality(OpenSessions') = Cardinality(OpenSessions) - 1
<1>1. /\ rows \in Seq(RowType) /\ TurnRow(response) \in RowType /\ bind \in Sessions
      /\ jour \in [Sessions -> StateType] /\ jour[bind].turn.id # 0 /\ Finished.turn.id = 0
  BY FinishedKeeps, TurnHasNumber, BoundsAreNumbers, NoTurnTyped DEF IInv, TypeOK, OInv, Agrees
<1>2. bind \in OpenSessions /\ OpenSessions' = OpenSessions \ {bind}
  BY <1>1 DEF OpenSessions
<1>3. Len(rows') = Len(rows) + 1
  <2> HIDE DEF TurnRow
  <2>1. rows \o <<TurnRow(response)>> \in Seq(RowType)
        /\ DOMAIN (rows \o <<TurnRow(response)>>) = 1 .. Len(rows) + 1 /\ Len(rows) \in Nat
    BY <1>1, LastRow
  <2> QED BY <2>1, LenProperties
<1> QED BY <1>2, <1>3, OneCloses DEF RInv

LEMMA FinishRoom ==
  ASSUME SaveMayFail = FALSE, IInv, TypeOK', OInv, RInv, alive, NEW response \in TurnIds \cup {0},
         NEW next, Finish(response, next), next \notin Awaits, next = "idle" <=> pc = "idle",
         UNCHANGED <<opened, gen, crashes, entered, ended, pinned>>
  PROVE  RInv'
<1>1. pc' = next
  BY DEF Finish, Save
<1>a. ReceiptsToCome' = 0 /\ 0 <= ReceiptsToCome
  BY <1>1, BoundsAreNumbers DEF ReceiptsToCome
<1>b. StartToCome' = StartToCome
  BY DEF StartToCome
<1>c. EndToCome' <= EndToCome /\ EndToCome' \in Nat
  <2>1. (pc' = "idle") = (pc = "idle") /\ ended' = ended
    BY <1>1
  <2> QED BY <2>1 DEF EndToCome
<1>2. /\ ReceiptsToCome' <= ReceiptsToCome /\ StartToCome' = StartToCome /\ EndToCome' <= EndToCome
      /\ ReceiptsToCome' \in Nat /\ EndToCome' \in Nat
  BY <1>a, <1>b, <1>c
<1>3. CASE HasTurn
  <2>1. jour' = [jour EXCEPT ![bind] = Finished] /\ rows' = rows \o <<TurnRow(response)>>
    BY <1>3 DEF Finish, Save
  <2>2. /\ IsFiniteSet(OpenSessions)' /\ Len(rows') = Len(rows) + 1
        /\ Cardinality(OpenSessions') = Cardinality(OpenSessions) - 1
    BY <1>3, <2>1, ClosesRoom
  <2>3. /\ Cardinality(OpenSessions) \in Nat /\ ReceiptsToCome \in Nat /\ StartToCome \in Nat
        /\ EndToCome \in Nat /\ Len(rows) \in Nat
    BY ToComeTyped DEF IInv, RInv
  <2>a. /\ ToCome = Cardinality(OpenSessions) + ReceiptsToCome + StartToCome + EndToCome
        /\ ToCome' = Cardinality(OpenSessions') + ReceiptsToCome' + StartToCome' + EndToCome'
    BY DEF ToCome
  <2>b. Cardinality(OpenSessions') \in Nat
    BY <2>2, FS_CardinalityType
  <2> HIDE DEF ToCome
  <2>4. Len(rows') + ToCome' <= Len(rows) + ToCome /\ ToCome \in Nat /\ ToCome' \in Nat
    <3>4. StartToCome' \in Nat /\ Len(rows') \in Nat
      BY <1>2, <2>2, <2>3
    <3>0. \A r, t, v, x, y \in Nat : x <= r /\ y <= v => x + t + y <= r + t + v
      OBVIOUS
    <3>1. ReceiptsToCome' + StartToCome' + EndToCome' <= ReceiptsToCome + StartToCome + EndToCome
      BY <1>2, <2>3, <3>0
    <3>2. Len(rows') + Cardinality(OpenSessions') = Len(rows) + Cardinality(OpenSessions)
      BY <2>2, <2>3, <2>b
    <3>3. ToCome \in Nat /\ ToCome' \in Nat
      BY <1>2, <2>3, <2>a, <2>b
    <3> QED BY <1>2, <2>3, <2>a, <2>b, <3>1, <3>2, <3>3, <3>4, SMTT(90)
  <2>5. Weight(Len(opened))' = Weight(Len(opened)) /\ Weight(Len(opened)) \in Nat
        /\ gen \in Nat /\ crashes \in Nat
    BY ToComeTyped DEF IInv, RInv, Weight
  <2> QED BY <2>2, <2>3, <2>4, <2>5 DEF RInv
<1>4. CASE ~ HasTurn
  <2>1. UNCHANGED <<mem, jour, rows>>
    BY <1>4 DEF Finish
  <2>2. OpenSessions' = OpenSessions
    BY <2>1, OpensSame
  <2>3. StartToCome' <= StartToCome
    BY <1>2 DEF StartToCome
  <2>4. TypeOK /\ (ended' => pinned' # 0)
    BY DEF IInv, RInv
  <2> QED BY <1>2, <2>1, <2>2, <2>3, <2>4, RoomSame
<1> QED BY <1>3, <1>4

LEMMA SessionRowRoom ==
  ASSUME SaveMayFail = FALSE, IInv, OInv, RInv, alive, NEW status \in {"active", "completed", "abandoned"},
         NEW next, Save([mem EXCEPT !.version = @ + 1], <<SessionRow(status)>>, next)
  PROVE  OpenSessions' = OpenSessions /\ Len(rows') = Len(rows) + 1 /\ pc' = next
<1> DEFINE state == [mem EXCEPT !.version = @ + 1]
           row == SessionRow(status)
<1>1. /\ rows \in Seq(RowType) /\ bind \in Sessions /\ mem \in StateType
      /\ jour \in [Sessions -> StateType] /\ jour[bind].turn.id = mem.turn.id
  BY DEF IInv, TypeOK, OInv, Agrees
<1>2. row \in RowType
  BY <1>1 DEF SessionRow, RowType, StateType
<1>3. state.turn = mem.turn
  BY <1>1 DEF StateType
<1>4. jour' = [jour EXCEPT ![bind] = state] /\ rows' = rows \o <<row>> /\ pc' = next
  BY DEF Save
<1> HIDE DEF row, state
<1>5. OpenSessions' = OpenSessions
  BY <1>1, <1>3, <1>4, OpensSame
<1>6. rows' \in Seq(RowType) /\ DOMAIN rows' = 1 .. Len(rows) + 1 /\ Len(rows) \in Nat
  BY <1>1, <1>2, <1>4, LastRow
<1> QED BY <1>4, <1>5, <1>6, LenProperties

LEMMA EnsureRoom ==
  ASSUME SaveMayFail = FALSE, IInv, TypeOK', OInv, RInv, alive, NEW next, EnsureSession(next),
         pc = "idle", next \notin Awaits, ~ ended \/ (next = "idle" /\ ended' = ended), ended' => pinned' # 0,
         UNCHANGED <<opened, gen, crashes>>
  PROVE  RInv'
<1>1. pc' = next
  BY DEF EnsureSession, Save
<1>2. /\ ReceiptsToCome' = 0 /\ ReceiptsToCome = 0 /\ EndToCome' <= EndToCome /\ EndToCome' \in Nat
  BY <1>1 DEF ReceiptsToCome, EndToCome, Awaits
<1>3. CASE entered
  <2>1. UNCHANGED <<mem, entered, jour, rows>>
    BY <1>3 DEF EnsureSession
  <2>2. StartToCome' = StartToCome
    BY <2>1 DEF StartToCome
  <2> QED BY <1>2, <2>1, <2>2, OpensSame, RoomSame, ToComeTyped DEF IInv, RInv
<1>4. CASE ~ entered
  <2>1. OpenSessions' = OpenSessions /\ Len(rows') = Len(rows) + 1
    BY <1>4, SessionRowRoom DEF EnsureSession
  <2>2. StartToCome = 1 /\ StartToCome' = 0
    BY <1>4 DEF EnsureSession, StartToCome
  <2> QED BY <1>2, <2>1, <2>2, ToComeTyped DEF IInv, RInv, ToCome
<1> QED BY <1>3, <1>4

LEMMA OpenRoom ==
  ASSUME SaveMayFail = FALSE, IInv, TypeOK', OInv, RInv, SubmitOpen
  PROVE  RInv'
<1> DEFINE state == [mem EXCEPT !.index = @ + 1, !.turn = NewTurn(Len(opened) + 1)]
<1>1. /\ jour' = [jour EXCEPT ![bind] = state] /\ rows' = rows \o <<>> /\ pc' = "submit.sync"
      /\ opened' = Append(opened, bind) /\ pc = "submit.open"
      /\ UNCHANGED <<entered, ended, gen, pinned, crashes>>
  BY DEF SubmitOpen, Save, At, world
<1>2. /\ rows \in Seq(RowType) /\ bind \in Sessions /\ opened \in Seq(Sessions) /\ mem \in StateType
      /\ jour \in [Sessions -> StateType] /\ Len(opened) \in Nat
  BY LenProperties DEF IInv, TypeOK
<1>3. state.turn.id = Len(opened) + 1
  BY <1>2 DEF StateType, NewTurn, NoTurn
<1>4. OpenSessions' = OpenSessions \cup {bind}
  <2> HIDE DEF state
  <2> QED BY <1>1, <1>2, <1>3 DEF OpenSessions
<1>5. /\ IsFiniteSet(OpenSessions)' /\ Cardinality(OpenSessions') \in Nat
      /\ Cardinality(OpenSessions') <= Cardinality(OpenSessions) + 1
  <2>1. IsFiniteSet(OpenSessions) /\ Cardinality(OpenSessions) \in Nat
    BY FS_CardinalityType DEF RInv
  <2>2. IsFiniteSet(OpenSessions') /\ Cardinality(OpenSessions') \in Nat
    BY <1>4, <2>1, FS_AddElement, FS_CardinalityType
  <2>3. CASE bind \in OpenSessions
    <3>1. OpenSessions' = OpenSessions
      BY <1>4, <2>3
    <3> QED BY <2>1, <2>2, <3>1
  <2>4. CASE bind \notin OpenSessions
    <3>1. Cardinality(OpenSessions') = Cardinality(OpenSessions) + 1
      BY <1>2, <1>4, <2>1, <2>4, OneOpens
    <3> QED BY <2>1, <2>2, <3>1
  <2> QED BY <2>3, <2>4
<1>6. rows' = rows
  BY <1>1, <1>2, EmptySeq, ConcatEmptySeq
<1>7. Len(opened') = Len(opened) + 1 /\ Weight(Len(opened))' = Weight(Len(opened)) + 1 + MaxDeliveries
  <2>1. Len(opened') = Len(opened) + 1
    BY <1>1, <1>2, AppendProperties
  <2> QED BY <1>2, <2>1, WeightGrows DEF Weight
<1>8. /\ ReceiptsToCome' = MaxDeliveries /\ ReceiptsToCome = 0 /\ StartToCome' = StartToCome
      /\ EndToCome' = EndToCome
  BY <1>1 DEF ReceiptsToCome, StartToCome, EndToCome, Awaits
<1>9. /\ ToCome = Cardinality(OpenSessions) + ReceiptsToCome + StartToCome + EndToCome
      /\ ToCome' = Cardinality(OpenSessions') + ReceiptsToCome' + StartToCome' + EndToCome'
  BY DEF ToCome
<1>10. /\ Cardinality(OpenSessions) \in Nat /\ StartToCome \in Nat /\ EndToCome \in Nat /\ Len(rows) \in Nat
       /\ Weight(Len(opened)) \in Nat /\ gen \in Nat /\ crashes \in Nat /\ MaxDeliveries \in Nat
  BY ToComeTyped, BoundsAreNumbers DEF IInv, RInv
<1>11. Len(rows) + ToCome <= Weight(Len(opened)) + 2 * (gen + crashes) /\ (ended' => pinned' # 0)
  BY <1>1 DEF RInv
<1>12. Len(rows') + ToCome' <= Weight(Len(opened))' + 2 * (gen' + crashes')
  BY <1>1, <1>5, <1>6, <1>7, <1>8, <1>9, <1>10, <1>11, SMTT(60)
<1> QED BY <1>5, <1>11, <1>12 DEF RInv

LEMMA ReceiptsRoom ==
  ASSUME IInv, TypeOK', OInv, RInv, CommitReceipts
  PROVE  RInv'
<1> DEFINE row == [session |-> bind, op |-> "acknowledgement", turn |-> cur]
           new == [i \in 1 .. offered[cur] |-> row]
<1>1. /\ rows' = rows \o new /\ pc = "submit.accepted" /\ pc' = "idle" /\ alive
      /\ UNCHANGED <<opened, entered, ended, gen, pinned, crashes>>
  BY DEF CommitReceipts, At, world
<1>2. /\ rows \in Seq(RowType) /\ bind \in Sessions /\ cur \in TurnIds
      /\ offered[cur] \in Nat /\ offered[cur] <= MaxDeliveries
  BY <1>1, BoundsAreNumbers DEF IInv, TypeOK, Stage
<1>3. new \in Seq(RowType) /\ Len(new) = offered[cur]
  <2>1. row \in RowType
    BY <1>2 DEF RowType
  <2> HIDE DEF row
  <2> QED BY <1>2, <2>1
<1>4. Len(rows') = Len(rows) + offered[cur]
  <2> HIDE DEF new
  <2> QED BY <1>1, <1>2, <1>3, ConcatProperties
<1>5. OpenSessions' = OpenSessions
  <2>1. /\ mem \in StateType /\ jour \in [Sessions -> StateType] /\ jour[bind].turn.id = mem.turn.id
        /\ mem.turn \in TurnType
    BY <1>1 DEF IInv, TypeOK, OInv, Agrees, StateType
  <2> DEFINE delivered == IF IsOpen(cur)
                          THEN [mem EXCEPT !.turn.boundary = "harness_input_accepted",
                                           !.turn.injected = TRUE]
                          ELSE mem
  <2>2. jour' = [jour EXCEPT ![bind] = delivered]
    BY DEF CommitReceipts
  <2>3. delivered.turn.id = mem.turn.id
    BY <2>1 DEF StateType, TurnType
  <2> HIDE DEF delivered
  <2>4. \A s \in Sessions : jour'[s].turn.id = jour[s].turn.id
    BY <2>1, <2>2, <2>3
  <2> QED BY <2>4, OpensSame
<1>6. /\ ReceiptsToCome = MaxDeliveries /\ ReceiptsToCome' = 0 /\ StartToCome' = StartToCome
      /\ EndToCome = 1 /\ EndToCome' \in 0 .. 1
  BY <1>1 DEF ReceiptsToCome, StartToCome, EndToCome, Awaits
<1>7. /\ ToCome = Cardinality(OpenSessions) + ReceiptsToCome + StartToCome + EndToCome
      /\ ToCome' = Cardinality(OpenSessions') + ReceiptsToCome' + StartToCome' + EndToCome'
  BY DEF ToCome
<1>8. /\ Cardinality(OpenSessions) \in Nat /\ StartToCome \in Nat /\ Len(rows) \in Nat
      /\ Weight(Len(opened)) \in Nat /\ gen \in Nat /\ crashes \in Nat /\ MaxDeliveries \in Nat
  BY ToComeTyped, BoundsAreNumbers DEF IInv, RInv
<1>9. Len(rows) + ToCome <= Weight(Len(opened)) + 2 * (gen + crashes) /\ (ended' => pinned' # 0)
  BY <1>1 DEF RInv
<1>10. Weight(Len(opened))' = Weight(Len(opened)) /\ IsFiniteSet(OpenSessions)'
  BY <1>1, <1>5 DEF Weight, RInv
<1>11. Len(rows') + ToCome' <= Weight(Len(opened))' + 2 * (gen' + crashes')
  BY <1>1, <1>2, <1>4, <1>5, <1>6, <1>7, <1>8, <1>9, <1>10, SMTT(60)
<1> QED BY <1>9, <1>10, <1>11 DEF RInv

(* The room of a binding that is left or of a process that ends goes to the
   next. *)
LEMMA RebindRoom ==
  ASSUME SaveMayFail = FALSE, RebindWhileSubmitting = FALSE, IInv, TypeOK', OInv, RInv,
         NEW s \in Sessions, Rebind(s)
  PROVE  RInv'
<1>1. /\ alive /\ pc = "idle" /\ pc' = "idle" /\ gen' = gen + 1 /\ ~ ended' /\ ~ entered'
      /\ UNCHANGED <<opened, pinned, crashes>>
  BY DEF Rebind, world, IInv, TypeOK, Awaits, Sync
<1>2. /\ ReceiptsToCome = 0 /\ ReceiptsToCome' = 0 /\ StartToCome' = 1 /\ EndToCome' = 1
  BY <1>1 DEF ReceiptsToCome, StartToCome, EndToCome, Awaits
<1>3. /\ IsFiniteSet(OpenSessions)' /\ Cardinality(OpenSessions') \in Nat /\ Len(rows') \in Nat
      /\ Len(rows') + Cardinality(OpenSessions') = Len(rows) + Cardinality(OpenSessions)
  <2>0. IsFiniteSet(OpenSessions) /\ Len(rows) \in Nat /\ Cardinality(OpenSessions) \in Nat
    BY ToComeTyped DEF IInv, RInv
  <2>1. CASE HasTurn
    <3>1. rows' = rows \o <<TurnRow(0)>> /\ jour' = [jour EXCEPT ![bind] = Finished]
      <4>1. rows' = Append(rows, TurnRow(0)) /\ jour' = [jour EXCEPT ![bind] = Finished]
        BY <2>1 DEF Rebind
      <4>2. rows \in Seq(RowType) /\ TurnRow(0) \in RowType
        <5>1. rows \in Seq(RowType)
          BY DEF IInv, TypeOK
        <5> QED BY <2>1, <5>1, FinishedKeeps
      <4> HIDE DEF TurnRow
      <4> QED BY <4>1, <4>2, AppendIsConcat
    <3>2. /\ IsFiniteSet(OpenSessions)' /\ Len(rows') = Len(rows) + 1
          /\ Cardinality(OpenSessions') = Cardinality(OpenSessions) - 1
      BY <1>1, <2>1, <3>1, ClosesRoom
    <3>3. Cardinality(OpenSessions') \in Nat
      BY <3>2, FS_CardinalityType
    <3> QED BY <2>0, <3>2, <3>3
  <2>2. CASE ~ HasTurn
    <3>1. UNCHANGED <<jour, rows>>
      BY <2>2 DEF Rebind, store
    <3>2. OpenSessions' = OpenSessions
      BY <3>1, OpensSame
    <3> QED BY <2>0, <3>1, <3>2
  <2> QED BY <2>1, <2>2
<1>4. /\ ToCome = Cardinality(OpenSessions) + ReceiptsToCome + StartToCome + EndToCome
      /\ ToCome' = Cardinality(OpenSessions') + ReceiptsToCome' + StartToCome' + EndToCome'
  BY DEF ToCome
<1>5. /\ Cardinality(OpenSessions) \in Nat /\ StartToCome \in Nat /\ EndToCome \in Nat /\ Len(rows) \in Nat
      /\ Weight(Len(opened)) \in Nat /\ gen \in Nat /\ crashes \in Nat
  BY ToComeTyped DEF IInv, RInv
<1>6. Len(rows) + ToCome <= Weight(Len(opened)) + 2 * (gen + crashes)
  BY DEF RInv
<1>7. Weight(Len(opened))' = Weight(Len(opened))
  BY <1>1 DEF Weight
<1>8. Len(rows') + ToCome' <= Weight(Len(opened))' + 2 * (gen' + crashes')
  BY <1>1, <1>2, <1>3, <1>4, <1>5, <1>6, <1>7, SMTT(60)
<1> QED BY <1>1, <1>3, <1>8 DEF RInv

LEMMA CrashRoom == ASSUME IInv, TypeOK', RInv, Crash PROVE RInv'
<1>1. /\ pc' = "idle" /\ ~ ended' /\ ~ entered' /\ crashes' = crashes + 1
      /\ UNCHANGED <<jour, rows, opened, gen>>
  BY DEF Crash, store
<1>2. OpenSessions' = OpenSessions /\ Weight(Len(opened))' = Weight(Len(opened)) /\ Len(rows') = Len(rows)
  BY <1>1, OpensSame DEF Weight
<1>3. ReceiptsToCome' = 0 /\ StartToCome' = 1 /\ EndToCome' = 1
  BY <1>1 DEF ReceiptsToCome, StartToCome, EndToCome, Awaits
<1>4. /\ ToCome = Cardinality(OpenSessions) + ReceiptsToCome + StartToCome + EndToCome
      /\ ToCome' = Cardinality(OpenSessions') + ReceiptsToCome' + StartToCome' + EndToCome'
  BY DEF ToCome
<1>5. /\ Cardinality(OpenSessions) \in Nat /\ StartToCome \in Nat /\ EndToCome \in Nat /\ Len(rows) \in Nat
      /\ Weight(Len(opened)) \in Nat /\ gen \in Nat /\ crashes \in Nat /\ ReceiptsToCome \in Nat
  BY ToComeTyped DEF IInv, RInv
<1>6. Len(rows) + ToCome <= Weight(Len(opened)) + 2 * (gen + crashes)
  BY DEF RInv
<1>7. Len(rows') + ToCome' <= Weight(Len(opened))' + 2 * (gen' + crashes')
  BY <1>1, <1>2, <1>3, <1>4, <1>5, <1>6
<1> QED BY <1>1, <1>2, <1>7 DEF RInv

LEMMA EndRoom ==
  ASSUME SaveMayFail = FALSE, IInv, TypeOK', OInv, LInv, RInv,
         NEW from \in {"end.completed", "end.abandoned"},
         NEW status \in {"completed", "abandoned"}, EndSession(from, status)
  PROVE  RInv'
<1>1. /\ alive /\ pc = from /\ UNCHANGED <<entered, ended, gen, pinned, opened, crashes>>
      /\ Save([mem EXCEPT !.version = @ + 1], <<SessionRow(status)>>, "idle")
  BY DEF EndSession, At, world
<1>2. OpenSessions' = OpenSessions /\ Len(rows') = Len(rows) + 1 /\ pc' = "idle"
  BY <1>1, SessionRowRoom
<1>3. ended
  BY <1>1 DEF LInv, Ending
<1>4. ReceiptsToCome = 0 /\ ReceiptsToCome' = 0 /\ StartToCome' = StartToCome /\ EndToCome = 1 /\ EndToCome' = 0
  BY <1>1, <1>2, <1>3 DEF ReceiptsToCome, StartToCome, EndToCome, Awaits
<1>5. /\ ToCome = Cardinality(OpenSessions) + ReceiptsToCome + StartToCome + EndToCome
      /\ ToCome' = Cardinality(OpenSessions') + ReceiptsToCome' + StartToCome' + EndToCome'
  BY DEF ToCome
<1>6. /\ Cardinality(OpenSessions) \in Nat /\ StartToCome \in Nat /\ Len(rows) \in Nat
      /\ Weight(Len(opened)) \in Nat /\ gen \in Nat /\ crashes \in Nat
  BY ToComeTyped DEF IInv, RInv
<1>7. Len(rows) + ToCome <= Weight(Len(opened)) + 2 * (gen + crashes) /\ (ended' => pinned' # 0)
  BY <1>1 DEF RInv
<1>8. Weight(Len(opened))' = Weight(Len(opened)) /\ IsFiniteSet(OpenSessions)'
  BY <1>1, <1>2 DEF Weight, RInv
<1>9. Len(rows') + ToCome' <= Weight(Len(opened))' + 2 * (gen' + crashes')
  BY <1>1, <1>2, <1>4, <1>5, <1>6, <1>7, <1>8
<1> QED BY <1>7, <1>8, <1>9 DEF RInv

LEMMA InitRoom == Init => RInv
<1> SUFFICES ASSUME Init PROVE RInv
  OBVIOUS
<1>1. /\ jour = [s \in Sessions |-> Fresh] /\ rows = <<>> /\ opened = <<>> /\ pc = "idle" /\ gen = 1 /\ crashes = 0
      /\ ~ ended /\ ~ entered
  BY DEF Init
<1>2. OpenSessions = {}
  BY <1>1, FreshTyped, NoTurnTyped DEF OpenSessions
<1>3. IsFiniteSet(OpenSessions) /\ Cardinality(OpenSessions) = 0
  BY <1>2, FS_EmptySet
<1>4. Len(rows) = 0 /\ Len(opened) = 0
  BY <1>1, EmptySeq
<1>5. ReceiptsToCome = 0 /\ StartToCome = 1 /\ EndToCome = 1
  BY <1>1 DEF ReceiptsToCome, StartToCome, EndToCome, Awaits
<1>6. Weight(Len(opened)) = 0
  BY <1>4, BoundsAreNumbers DEF Weight
<1> QED BY <1>1, <1>3, <1>4, <1>5, <1>6 DEF RInv, ToCome

LEMMA NextRoom ==
  ASSUME SaveMayFail = FALSE, RebindWhileSubmitting = FALSE
  PROVE  IInv /\ IInv' /\ OInv /\ LInv /\ RInv /\ [Next]_vars => RInv'
<1> SUFFICES ASSUME IInv, IInv', OInv, LInv, RInv, [Next]_vars PROVE RInv'
  OBVIOUS
<1> USE DEF world, store, memory
<1>0. /\ TypeOK /\ TypeOK' /\ gen \in Nat /\ gen # 0 /\ (ended => pinned # 0)
      /\ ReceiptsToCome \in Nat /\ 0 <= ReceiptsToCome
      /\ EndToCome \in 0 .. 1 /\ StartToCome \in 0 .. 1 /\ EndToCome' \in 0 .. 1
  <2>1. TypeOK /\ TypeOK' /\ (ended => pinned # 0)
    BY DEF IInv, RInv
  <2>2. gen \in Nat /\ gen # 0
    BY <2>1, BoundsAreNumbers DEF TypeOK
  <2>3. ReceiptsToCome \in Nat /\ 0 <= ReceiptsToCome
    BY BoundsAreNumbers DEF ReceiptsToCome
  <2>4. EndToCome \in 0 .. 1 /\ StartToCome \in 0 .. 1 /\ EndToCome' \in 0 .. 1
    BY DEF StartToCome, EndToCome
  <2> QED BY <2>1, <2>2, <2>3, <2>4
<1>a. ASSUME pc' \notin Awaits \/ pc \in Awaits PROVE ReceiptsToCome' <= ReceiptsToCome
  BY <1>0, <1>a, BoundsAreNumbers DEF ReceiptsToCome
<1>b. ASSUME entered' = entered PROVE StartToCome' <= StartToCome
  BY <1>0, <1>b DEF StartToCome
<1>c. ASSUME pc # "idle" \/ pc' = pc, ended' = ended PROVE EndToCome' <= EndToCome
  BY <1>0, <1>c DEF EndToCome
<1>d. ASSUME UNCHANGED <<rows, opened, gen, crashes, entered, ended, pinned>>,
             pc' \notin Awaits \/ pc \in Awaits, pc # "idle" \/ pc' = pc,
             \A s \in Sessions : jour'[s].turn.id = jour[s].turn.id
      PROVE  RInv'
  BY <1>0, <1>a, <1>b, <1>c, <1>d, OpensSame, RoomSame
<1>1. CASE UNCHANGED vars
  BY <1>1, <1>d DEF vars
<1>2. CASE SubmitRecover
  <2>1. /\ alive /\ pc = "submit.recover" /\ Finish(0, "submit.open")
        /\ UNCHANGED <<opened, gen, crashes, entered, ended, pinned>>
    BY <1>2 DEF SubmitRecover, At
  <2> QED BY <1>0, <2>1, FinishRoom DEF Awaits
<1>3. CASE SubmitOpen
  BY <1>0, <1>3, OpenRoom
<1>4. CASE \E n \in 0 .. MaxDeliveries : SubmitPrepare(n)
  <2>1. PICK n \in 0 .. MaxDeliveries : SubmitPrepare(n)
    BY <1>4
  <2>2. /\ UNCHANGED <<rows, opened, gen, crashes, entered, ended, pinned>>
        /\ pc = "submit.sync"
    BY <2>1 DEF SubmitPrepare, At
  <2>3. \A s \in Sessions : jour'[s].turn.id = jour[s].turn.id
    <3>1. /\ mem \in StateType /\ mem.turn \in TurnType /\ bind \in Sessions
          /\ jour \in [Sessions -> StateType] /\ jour[bind].turn.id = mem.turn.id
      BY <1>0, <2>1 DEF TypeOK, StateType, OInv, Agrees, SubmitPrepare, At
    <3> DEFINE prepared == [mem EXCEPT !.turn.prepared = TRUE]
    <3>2. prepared.turn.id = mem.turn.id
      BY <3>1 DEF StateType, TurnType
    <3>3. jour' = jour \/ jour' = [jour EXCEPT ![bind] = prepared]
      BY <2>1 DEF SubmitPrepare
    <3> HIDE DEF prepared
    <3> QED BY <3>1, <3>2, <3>3
  <2> QED BY <1>d, <2>2, <2>3 DEF Awaits
<1>5. CASE AddMessage
  BY <1>5, <1>d DEF AddMessage, At, Awaits
<1>6. CASE CommitReceipts
  BY <1>0, <1>6, ReceiptsRoom
<1>7. CASE DeliveryUnknown
  BY <1>7, <1>d DEF DeliveryUnknown, Awaits
<1>8. CASE EndFinish
  <2> DEFINE next == IF HasTurn THEN "end.abandoned" ELSE "end.completed"
  <2>1. /\ alive /\ pc = "end.finish" /\ Finish(0, next)
        /\ UNCHANGED <<opened, gen, crashes, entered, ended, pinned>>
    BY <1>8 DEF EndFinish, At
  <2>2. next # "idle" /\ next \notin Awaits
    BY DEF Awaits
  <2> HIDE DEF next
  <2> QED BY <1>0, <2>1, <2>2, FinishRoom
<1>9. ASSUME NEW from \in {"end.completed", "end.abandoned"}, NEW status \in {"completed", "abandoned"},
             EndSession(from, status)
      PROVE  RInv'
  BY <1>0, <1>9, EndRoom
<1>10. CASE Release
  BY <1>10, <1>d DEF Release, Awaits
<1>11. CASE Start
  <2>1. /\ alive /\ pc = "idle" /\ EnsureSession("idle") /\ pinned = 0
        /\ UNCHANGED <<ended, pinned, opened, gen, crashes>>
    BY <1>11 DEF Start, At
  <2> QED BY <1>0, <2>1, EnsureRoom DEF Awaits
<1>12. CASE Submit
  <2>1. /\ alive /\ pc = "idle" /\ EnsureSession("submit.recover") /\ pinned = 0
        /\ UNCHANGED <<ended, pinned, opened, gen, crashes>>
    BY <1>12 DEF Submit, At
  <2> QED BY <1>0, <2>1, EnsureRoom DEF Awaits
<1>13. CASE Complete
  <2>1. /\ alive /\ pc = "idle" /\ Finish(prompt, "idle") /\ prompt \in TurnIds \cup {0}
        /\ UNCHANGED <<opened, gen, crashes, entered, ended, pinned>>
    BY <1>0, <1>13 DEF Complete, At, TypeOK
  <2> QED BY <1>0, <2>1, FinishRoom DEF Awaits
<1>14. CASE Cleanup
  <2>1. /\ UNCHANGED <<jour, rows, opened, gen, crashes, entered, ended, pc>> /\ pinned' = gen
    BY <1>14 DEF Cleanup
  <2>2. ReceiptsToCome' <= ReceiptsToCome /\ StartToCome' <= StartToCome /\ EndToCome' <= EndToCome
    BY <2>1, <1>a, <1>b, <1>c
  <2> QED BY <1>0, <2>1, <2>2, OpensSame, RoomSame
<1>15. CASE EndBegin
  <2>1. alive /\ pc = "idle" /\ pinned = gen /\ ~ ended /\ ended' /\ UNCHANGED <<gen, pinned, opened, crashes>>
    BY <1>15 DEF EndBegin, At
  <2>2. CASE entered \/ HasTurn
    <3>1. EnsureSession("end.finish")
      BY <1>15, <2>2 DEF EndBegin
    <3> QED BY <1>0, <2>1, <3>1, EnsureRoom DEF Awaits
  <2>3. CASE ~ (entered \/ HasTurn)
    <3>1. UNCHANGED <<pc, mem, entered, jour, rows>>
      BY <1>15, <2>3 DEF EndBegin
    <3>2. EndToCome = 1 /\ EndToCome' <= EndToCome
      BY <1>0, <2>1 DEF EndToCome
    <3>3. ReceiptsToCome' <= ReceiptsToCome /\ StartToCome' <= StartToCome /\ OpenSessions' = OpenSessions
      BY <3>1, <1>a, <1>b, OpensSame
    <3> QED BY <1>0, <2>1, <3>1, <3>2, <3>3, RoomSame
  <2> QED BY <2>2, <2>3
<1>16. CASE SaveState
  <2>1. \A s \in Sessions : jour'[s].turn.id = jour[s].turn.id
    BY <1>0, <1>16 DEF SaveState, TypeOK, OInv, Agrees
  <2> QED BY <1>16, <1>d, <2>1 DEF SaveState
<1>17. ASSUME NEW s \in Sessions, Rebind(s) PROVE RInv'
  BY <1>0, <1>17, RebindRoom
<1>18. ASSUME NEW s \in Sessions, Restart(s) PROVE RInv'
  BY <1>18, <1>d DEF Restart
<1>19. CASE Crash
  BY <1>0, <1>19, CrashRoom
<1> QED BY <1>1, <1>2, <1>3, <1>4, <1>5, <1>6, <1>7, <1>8, <1>9, <1>10, <1>11, <1>12, <1>13, <1>14,
           <1>15, <1>16, <1>17, <1>18, <1>19 DEF Next, Handler, Host
-----------------------------------------------------------------------------
(* The saves of the hook are those the outbox relies on.  Memory and the
   journal have the same version, and whoever may save a turn has announced
   its session. *)
VInv ==
  /\ alive => jour[bind].version = mem.version
  /\ \A s \in Sessions : jour[s].turn.id # 0 => jour[s].version > 0
  /\ entered => mem.version > 0

LEMMA KeptVersions ==
  ASSUME IInv, OInv, VInv, UNCHANGED <<bind, entered>>, alive' => alive, mem'.version = mem.version,
         jour' = jour
  PROVE  VInv'
BY DEF VInv

LEMMA SavedVersions ==
  ASSUME IInv, VInv, alive, NEW state, jour' = [jour EXCEPT ![bind] = state], mem' = state, bind' = bind,
         state.version \in Nat, state.turn.id # 0 \/ entered' => state.version > 0
  PROVE  VInv'
<1>1. jour \in [Sessions -> StateType] /\ bind \in Sessions
  BY DEF IInv, TypeOK
<1>2. jour'[bind] = state /\ \A s \in Sessions : s # bind => jour'[s] = jour[s]
  BY <1>1
<1> QED BY <1>1, <1>2 DEF VInv

LEMMA FinishVersions ==
  ASSUME SaveMayFail = FALSE, IInv, OInv, VInv, alive, NEW response, NEW next, Finish(response, next),
         UNCHANGED <<bind, alive, entered>>
  PROVE  VInv'
<1>1. CASE HasTurn
  <2>1. jour' = [jour EXCEPT ![bind] = Finished] /\ mem' = Finished
    BY <1>1 DEF Finish, Save
  <2>2. Finished.version = mem.version /\ Finished.turn.id = 0 /\ mem.version \in Nat
    BY NoTurnTyped DEF Finished, IInv, TypeOK, StateType
  <2> HIDE DEF Finished
  <2>3. Finished.turn.id # 0 \/ entered' => Finished.version > 0
    BY <2>2 DEF VInv
  <2> QED BY <2>1, <2>2, <2>3, SavedVersions
<1>2. CASE ~ HasTurn
  <2>1. UNCHANGED <<mem, jour, rows>>
    BY <1>2 DEF Finish
  <2> QED BY <2>1, KeptVersions
<1> QED BY <1>1, <1>2

LEMMA AnnouncedVersions ==
  ASSUME SaveMayFail = FALSE, IInv, VInv, alive, NEW status, NEW next,
         Save([mem EXCEPT !.version = @ + 1], <<SessionRow(status)>>, next), bind' = bind
  PROVE  VInv'
<1> DEFINE state == [mem EXCEPT !.version = @ + 1]
<1>1. jour' = [jour EXCEPT ![bind] = state] /\ mem' = state
  BY DEF Save
<1>2. state.version \in Nat /\ state.version > 0
  BY DEF IInv, TypeOK, StateType
<1> HIDE DEF state
<1> QED BY <1>1, <1>2, SavedVersions

LEMMA EnsureVersions ==
  ASSUME SaveMayFail = FALSE, IInv, OInv, VInv, alive, NEW next, EnsureSession(next), bind' = bind
  PROVE  VInv'
<1>1. CASE entered
  BY <1>1, KeptVersions DEF EnsureSession
<1>2. CASE ~ entered
  BY <1>2, AnnouncedVersions DEF EnsureSession
<1> QED BY <1>1, <1>2

LEMMA RebindVersions ==
  ASSUME SaveMayFail = FALSE, IInv, VInv, NEW s \in Sessions, Rebind(s)
  PROVE  VInv'
<1>1. s # bind /\ bind' = s /\ mem' = jour[s] /\ ~ entered'
  BY DEF Rebind
<1>2. jour \in [Sessions -> StateType] /\ bind \in Sessions
  BY DEF IInv, TypeOK
<1>3. CASE HasTurn
  <2>1. jour' = [jour EXCEPT ![bind] = Finished] /\ Finished.turn.id = 0
    BY <1>3, FinishedKeeps, NoTurnTyped DEF Rebind
  <2> HIDE DEF Finished
  <2> QED BY <1>1, <1>2, <2>1 DEF VInv
<1>4. CASE ~ HasTurn
  BY <1>1, <1>4 DEF Rebind, store, VInv
<1> QED BY <1>3, <1>4

LEMMA InitVersions == Init => VInv
BY FreshTyped, NoTurnTyped DEF Init, VInv, Fresh

LEMMA NextVersions ==
  ASSUME SaveMayFail = FALSE
  PROVE  IInv /\ OInv /\ LInv /\ VInv /\ [Next]_vars => VInv'
<1> SUFFICES ASSUME IInv, OInv, LInv, VInv, [Next]_vars PROVE VInv'
  OBVIOUS
<1> USE DEF world, store, memory
<1>0. /\ mem \in StateType /\ mem.turn \in TurnType /\ mem.version \in Nat /\ bind \in Sessions
      /\ jour \in [Sessions -> StateType] /\ (entered => mem.version > 0) /\ (pc # "idle" => entered)
  BY DEF IInv, TypeOK, StateType, VInv, LInv, Speaking
<1>1. CASE UNCHANGED vars
  BY <1>1, KeptVersions DEF vars
<1>2. CASE SubmitRecover
  BY <1>2, FinishVersions DEF SubmitRecover, At
<1>3. CASE SubmitOpen
  <2> DEFINE state == [mem EXCEPT !.index = @ + 1, !.turn = NewTurn(Len(opened) + 1)]
  <2>1. /\ jour' = [jour EXCEPT ![bind] = state] /\ mem' = state /\ pc = "submit.open" /\ alive
        /\ UNCHANGED <<bind, entered>>
    BY <1>3 DEF SubmitOpen, Save, At
  <2>2. state.version = mem.version /\ mem.version > 0
    BY <1>0, <2>1 DEF StateType
  <2> HIDE DEF state
  <2> QED BY <1>0, <2>1, <2>2, SavedVersions
<1>4. CASE \E n \in 0 .. MaxDeliveries : SubmitPrepare(n)
  <2>1. PICK n \in 0 .. MaxDeliveries : SubmitPrepare(n)
    BY <1>4
  <2> DEFINE prepared == [mem EXCEPT !.turn.prepared = TRUE]
             failed == [prepared EXCEPT !.turn.boundary = "acceptance_unknown"]
  <2>2. prepared.version = mem.version /\ failed.version = mem.version
    BY <1>0 DEF StateType
  <2>3. mem.version > 0 /\ alive /\ UNCHANGED <<bind, entered, alive>>
    BY <1>0, <2>1 DEF SubmitPrepare, At
  <2>4. \/ mem' = prepared /\ jour' = [jour EXCEPT ![bind] = prepared]
        \/ mem' = failed /\ jour' = jour
    BY <2>1, Zenon DEF SubmitPrepare
  <2> HIDE DEF prepared, failed
  <2>5. CASE mem' = prepared /\ jour' = [jour EXCEPT ![bind] = prepared]
    BY <1>0, <2>2, <2>3, <2>5, SavedVersions
  <2>6. CASE mem' = failed /\ jour' = jour
    BY <2>2, <2>3, <2>6, KeptVersions
  <2> QED BY <2>4, <2>5, <2>6
<1>5. CASE AddMessage
  BY <1>5, KeptVersions DEF AddMessage
<1>6. CASE CommitReceipts
  <2> DEFINE delivered == IF IsOpen(cur)
                          THEN [mem EXCEPT !.turn.boundary = "harness_input_accepted",
                                           !.turn.injected = TRUE]
                          ELSE mem
  <2>1. /\ jour' = [jour EXCEPT ![bind] = delivered] /\ mem' = delivered /\ pc = "submit.accepted" /\ alive
        /\ UNCHANGED <<bind, entered>>
    BY <1>6 DEF CommitReceipts, At
  <2>2. delivered.version = mem.version /\ mem.version > 0
    BY <1>0, <2>1 DEF StateType
  <2> HIDE DEF delivered
  <2> QED BY <1>0, <2>1, <2>2, SavedVersions
<1>7. CASE DeliveryUnknown
  <2>1. mem'.version = mem.version
    BY <1>0, <1>7 DEF DeliveryUnknown, StateType
  <2> QED BY <1>7, <2>1, KeptVersions DEF DeliveryUnknown
<1>8. CASE EndFinish
  BY <1>8, FinishVersions DEF EndFinish, At
<1>9. ASSUME NEW from, NEW status, EndSession(from, status) PROVE VInv'
  BY <1>9, AnnouncedVersions DEF EndSession, At
<1>10. CASE Release
  BY <1>10, KeptVersions DEF Release
<1>11. CASE Start
  BY <1>11, EnsureVersions DEF Start, At
<1>12. CASE Submit
  BY <1>12, EnsureVersions DEF Submit, At
<1>13. CASE Complete
  BY <1>13, FinishVersions DEF Complete, At
<1>14. CASE Cleanup
  BY <1>14, KeptVersions DEF Cleanup
<1>15. CASE EndBegin
  <2>1. alive /\ bind' = bind /\ alive' = alive
    BY <1>15 DEF EndBegin, At
  <2>2. CASE entered \/ HasTurn
    BY <1>15, <2>1, <2>2, EnsureVersions DEF EndBegin
  <2>3. CASE ~ (entered \/ HasTurn)
    BY <1>15, <2>1, <2>3, KeptVersions DEF EndBegin
  <2> QED BY <2>2, <2>3
<1>16. CASE SaveState
  <2>1. mem.turn.id # 0 => mem.version > 0
    BY <1>16 DEF SaveState, OInv, Agrees, IInv, TypeOK, VInv
  <2> QED BY <1>0, <1>16, <2>1, SavedVersions DEF SaveState
<1>17. ASSUME NEW s \in Sessions, Rebind(s) PROVE VInv'
  BY <1>17, RebindVersions
<1>18. ASSUME NEW s \in Sessions, Restart(s) PROVE VInv'
  <2>1. alive' /\ ~ entered' /\ bind' = s /\ mem' = jour[s] /\ jour' = jour
    BY <1>18 DEF Restart, LInv, Speaking
  <2> QED BY <2>1 DEF VInv
<1>19. CASE Crash
  BY <1>19 DEF Crash, VInv
<1> QED BY <1>1, <1>2, <1>3, <1>4, <1>5, <1>6, <1>7, <1>8, <1>9, <1>10, <1>11, <1>12, <1>13, <1>14,
           <1>15, <1>16, <1>17, <1>18, <1>19 DEF Next, Handler, Host

(* A save of the hook is a save of the outbox. *)
OutboxRows(q) == [i \in DOMAIN q |-> OutboxRow(q[i])]

LEMMA Translated ==
  ASSUME NEW q \in Seq(RowType), NEW n \in Seq(RowType)
  PROVE  /\ OutboxRows(q) \in Seq(Journal!Row) /\ OutboxRows(n) \in Seq(Journal!Row)
         /\ Len(OutboxRows(q)) = Len(q) /\ Len(OutboxRows(n)) = Len(n)
         /\ OutboxRows(q \o n) = OutboxRows(q) \o OutboxRows(n)
         /\ DOMAIN (q \o n) = DOMAIN q \cup (Len(q) + 1 .. Len(q) + Len(n))
<1>1. \A r \in RowType : OutboxRow(r) \in Journal!Row
  BY DEF RowType, OutboxRow, Journal!Row, Journal!Ops
<1> HIDE DEF OutboxRow
<1>2. ASSUME NEW p \in Seq(RowType) PROVE OutboxRows(p) \in Seq(Journal!Row) /\ Len(OutboxRows(p)) = Len(p)
  <2>1. Len(p) \in Nat /\ DOMAIN p = 1 .. Len(p) /\ \A i \in DOMAIN p : p[i] \in RowType
    BY LenProperties, ElementOfSeq
  <2>2. OutboxRows(p) \in [1 .. Len(p) -> Journal!Row]
    BY <1>1, <2>1 DEF OutboxRows
  <2> QED BY <2>1, <2>2
<1>3. /\ q \o n \in Seq(RowType) /\ Len(q \o n) = Len(q) + Len(n) /\ Len(q) \in Nat /\ Len(n) \in Nat
      /\ \A i \in 1 .. Len(q) : (q \o n)[i] = q[i]
      /\ \A i \in Len(q) + 1 .. Len(q) + Len(n) : (q \o n)[i] = n[i - Len(q)]
  BY ConcatProperties, LenProperties
<1> DEFINE a == OutboxRows(q)
           b == OutboxRows(n)
           c == OutboxRows(q \o n)
<1>4. /\ a \in Seq(Journal!Row) /\ b \in Seq(Journal!Row) /\ c \in Seq(Journal!Row)
      /\ Len(a) = Len(q) /\ Len(b) = Len(n) /\ Len(c) = Len(q) + Len(n)
  BY <1>2, <1>3
<1>5. \A i \in 1 .. Len(q) : c[i] = a[i]
  BY <1>3, LenProperties DEF OutboxRows
<1>6. \A i \in Len(q) + 1 .. Len(q) + Len(n) : c[i] = b[i - Len(q)]
  BY <1>3, LenProperties DEF OutboxRows
<1>7. /\ a \o b \in Seq(Journal!Row) /\ Len(a \o b) = Len(q) + Len(n)
      /\ \A i \in 1 .. Len(q) : (a \o b)[i] = a[i]
      /\ \A i \in Len(q) + 1 .. Len(q) + Len(n) : (a \o b)[i] = b[i - Len(q)]
  <2> HIDE DEF a, b
  <2> QED BY <1>4, ConcatProperties
<1>8. c = a \o b
  <2> HIDE DEF a, b, c
  <2>1. \A i \in 1 .. Len(c) : c[i] = (a \o b)[i]
    BY <1>3, <1>4, <1>5, <1>6, <1>7
  <2> QED BY <1>4, <1>7, <2>1, SeqEqual
<1>9. DOMAIN (q \o n) = DOMAIN q \cup (Len(q) + 1 .. Len(q) + Len(n))
  <2>1. DOMAIN (q \o n) = 1 .. Len(q) + Len(n) /\ DOMAIN q = 1 .. Len(q)
    BY <1>3, LenProperties
  <2> QED BY <1>3, <2>1
<1> QED BY <1>2, <1>8, <1>9

LEMMA Enters ==
  ASSUME IInv, Bounded', NEW new \in Seq(RowType), rows' = rows \o new
  PROVE  Journal!Save(OutboxRows(new))
<1>1. rows \in Seq(RowType)
  BY DEF IInv, TypeOK
<1>2. /\ Len(OutboxRows(rows)) = Len(rows) /\ Len(OutboxRows(new)) = Len(new)
      /\ OutboxRows(rows') = OutboxRows(rows) \o OutboxRows(new)
      /\ DOMAIN rows' = DOMAIN rows \cup (Len(rows) + 1 .. Len(rows) + Len(new))
  BY <1>1, Translated
<1>3. Len(rows') = Len(rows) + Len(new)
  BY <1>1, ConcatProperties
<1>4. Len(rows') <= RowBound
  BY DEF Bounded, RowBound
<1>5. Len(OutboxRows(rows)) + Len(OutboxRows(new)) <= RowBound
  BY <1>2, <1>3, <1>4
<1> QED BY <1>2, <1>5 DEF OutboxRows, Journal!Save, Journal!threads, Journal!service

LEMMA SessionProduced ==
  ASSUME SaveMayFail = FALSE, IInv, Bounded', VInv, alive,
         NEW status \in {"active", "completed", "abandoned"}, NEW next,
         Save([mem EXCEPT !.version = @ + 1], <<SessionRow(status)>>, next),
         NEW s \in Sessions, s = bind
  PROVE  Journal!SaveSession(s)
<1> DEFINE state == [mem EXCEPT !.version = @ + 1]
           row == SessionRow(status)
           versions == [x \in Sessions |-> jour[x].version]
<1>1. /\ jour' = [jour EXCEPT ![bind] = state] /\ rows' = rows \o <<row>>
  BY DEF Save
<1>2. /\ mem \in StateType /\ bind \in Sessions /\ jour \in [Sessions -> StateType]
      /\ jour[bind].version = mem.version
  BY DEF IInv, TypeOK, VInv
<1>3. row \in RowType
  BY <1>2 DEF SessionRow, RowType, StateType
<1>4. state.version = mem.version + 1
  BY <1>2 DEF StateType
<1>5. OutboxRow(row) = [session |-> bind, op |-> "session.upsert", expected |-> versions[bind]]
  BY <1>2 DEF OutboxRow, SessionRow
<1>6. versions' = [versions EXCEPT ![bind] = @ + 1]
  <2> HIDE DEF state
  <2> QED BY <1>1, <1>2, <1>4
<1>7. <<row>> \in Seq(RowType) /\ OutboxRows(<<row>>) = <<OutboxRow(row)>>
  <2> HIDE DEF row
  <2> QED BY <1>3 DEF OutboxRows
<1>8. Journal!Save(OutboxRows(<<row>>))
  <2> HIDE DEF row
  <2> QED BY <1>1, <1>7, Enters
<1>9. Journal!Save(<<[session |-> bind, op |-> "session.upsert", expected |-> versions[bind]]>>)
  BY <1>5, <1>7, <1>8
<1>10. /\ versions' = [versions EXCEPT ![s] = @ + 1]
       /\ Journal!Save(<<[session |-> s, op |-> "session.upsert", expected |-> versions[s]]>>)
  BY <1>6, <1>9
<1> QED BY <1>10 DEF Journal!SaveSession

LEMMA SameVersions ==
  ASSUME IInv, NEW state, jour' = [jour EXCEPT ![bind] = state], state.version = jour[bind].version
  PROVE  [s \in Sessions |-> jour'[s].version] = [s \in Sessions |-> jour[s].version]
<1>1. jour \in [Sessions -> StateType] /\ bind \in Sessions
  BY DEF IInv, TypeOK
<1> QED BY <1>1

LEMMA TurnProduced ==
  ASSUME IInv, Bounded', OInv, VInv, alive, HasTurn, NEW response \in TurnIds \cup {0},
         rows' = rows \o <<TurnRow(response)>>, jour' = [jour EXCEPT ![bind] = Finished]
  PROVE  Journal!SaveTurn(bind)
<1> DEFINE row == TurnRow(response)
           versions == [x \in Sessions |-> jour[x].version]
<1>1. /\ bind \in Sessions /\ jour[bind].version = mem.version /\ jour[bind].turn.id # 0
      /\ Finished.version = mem.version /\ row \in RowType
  <2>1. mem.turn.id # 0
    BY TurnHasNumber, BoundsAreNumbers DEF IInv
  <2>2. Finished.version = mem.version
    BY DEF Finished, IInv, TypeOK, StateType
  <2> QED BY <2>1, <2>2, FinishedKeeps DEF IInv, TypeOK, VInv, OInv, Agrees
<1>2. OutboxRow(row) = [session |-> bind, op |-> "turn.upsert", expected |-> 0]
  BY DEF OutboxRow, TurnRow
<1>3. <<row>> \in Seq(RowType) /\ OutboxRows(<<row>>) = <<OutboxRow(row)>>
  <2> HIDE DEF row
  <2> QED BY <1>1 DEF OutboxRows
<1>4. Journal!Save(OutboxRows(<<row>>))
  <2>1. rows' = rows \o <<row>>
    OBVIOUS
  <2> HIDE DEF row
  <2> QED BY <1>3, <2>1, Enters
<1>5. Journal!Save(<<[session |-> bind, op |-> "turn.upsert", expected |-> 0]>>)
  BY <1>2, <1>3, <1>4
<1>6. versions' = versions
  <2> HIDE DEF Finished
  <2> QED BY <1>1, SameVersions
<1>7. versions[bind] > 0
  BY <1>1 DEF VInv
<1> QED BY <1>5, <1>6, <1>7 DEF Journal!SaveTurn

LEMMA ReceiptsProduced ==
  ASSUME IInv, Bounded', OInv, LInv, VInv, CommitReceipts, NEW s \in Sessions, s = bind
  PROVE  Journal!Produce(s) \/ UNCHANGED Journal!vars
<1> DEFINE n == offered[cur]
           row == [session |-> bind, op |-> "acknowledgement", turn |-> cur]
           new == [i \in 1 .. n |-> row]
           sent == [i \in 1 .. n |-> [session |-> bind, op |-> "acknowledgement", expected |-> 0]]
           delivered == IF IsOpen(cur)
                        THEN [mem EXCEPT !.turn.boundary = "harness_input_accepted",
                                         !.turn.injected = TRUE]
                        ELSE mem
           versions == [x \in Sessions |-> jour[x].version]
<1>1. /\ rows' = rows \o new /\ jour' = [jour EXCEPT ![bind] = delivered]
      /\ alive /\ pc = "submit.accepted"
  BY DEF CommitReceipts, At
<1>2. /\ n \in 0 .. MaxDeliveries /\ cur \in TurnIds /\ mem \in StateType /\ bind \in Sessions
      /\ mem.version = jour[bind].version /\ mem.version > 0 /\ rows \in Seq(RowType)
  BY <1>1 DEF IInv, TypeOK, Stage, VInv, LInv, Speaking
<1>3. row \in RowType /\ OutboxRow(row) = [session |-> bind, op |-> "acknowledgement", expected |-> 0]
  BY <1>2 DEF RowType, OutboxRow
<1>4. new \in Seq(RowType) /\ OutboxRows(new) = sent
  <2>1. n \in Nat /\ new \in [1 .. n -> RowType] /\ DOMAIN new = 1 .. n
    BY <1>2, <1>3, BoundsAreNumbers
  <2>2. new \in Seq(RowType)
    BY <2>1
  <2>3. \A i \in 1 .. n : OutboxRow(new[i]) = [session |-> bind, op |-> "acknowledgement", expected |-> 0]
    <3> HIDE DEF row
    <3> QED BY <1>3
  <2> HIDE DEF new
  <2> QED BY <2>1, <2>2, <2>3 DEF OutboxRows
<1>5. versions' = versions
  <2>1. delivered.version = mem.version
    BY <1>2 DEF StateType
  <2> HIDE DEF delivered
  <2> QED BY <1>1, <1>2, <2>1, SameVersions
<1>6. CASE n = 0
  <2>1. rows' = rows
    <3>1. new = <<>>
      BY <1>6
    <3> HIDE DEF new
    <3> QED BY <1>1, <1>2, <3>1, ConcatEmptySeq
  <2> QED BY <1>5, <2>1 DEF Journal!vars
<1>7. CASE n # 0
  <2>1. n \in 1 .. MaxDeliveries
    BY <1>2, <1>7, BoundsAreNumbers
  <2>2. Journal!Save(sent)
    <3> HIDE DEF new, sent
    <3> QED BY <1>1, <1>4, Enters
  <2>3. PICK k \in 1 .. MaxDeliveries : k = n
    BY <2>1
  <2>4. versions[s] > 0 /\ sent = [i \in 1 .. k |-> [session |-> s, op |-> "acknowledgement", expected |-> 0]]
    BY <1>2, <2>3
  <2>5. Journal!SaveReceipts(s, k)
    BY <1>5, <2>2, <2>4 DEF Journal!SaveReceipts
  <2> QED BY <2>3, <2>5 DEF Journal!Produce
<1> QED BY <1>6, <1>7

LEMMA Produces ==
  ASSUME NEW s \in Sessions, Journal!Produce(s)
  PROVE  [Journal!Next]_(Journal!vars)
BY DEF Journal!Next

LEMMA FinishProduces ==
  ASSUME SaveMayFail = FALSE, IInv, Bounded', OInv, VInv, alive, NEW response \in TurnIds \cup {0},
         NEW next, Finish(response, next)
  PROVE  [Journal!Next]_(Journal!vars)
<1>1. CASE HasTurn
  <2>1. jour' = [jour EXCEPT ![bind] = Finished] /\ rows' = rows \o <<TurnRow(response)>>
    BY <1>1 DEF Finish, Save
  <2>2. Journal!SaveTurn(bind)
    BY <1>1, <2>1, TurnProduced
  <2> QED BY <2>2, Produces DEF Journal!Produce, IInv, TypeOK
<1>2. CASE ~ HasTurn
  BY <1>2 DEF Finish, Journal!vars
<1> QED BY <1>1, <1>2

LEMMA SessionProduces ==
  ASSUME SaveMayFail = FALSE, IInv, Bounded', VInv, alive,
         NEW status \in {"active", "completed", "abandoned"}, NEW next,
         Save([mem EXCEPT !.version = @ + 1], <<SessionRow(status)>>, next)
  PROVE  [Journal!Next]_(Journal!vars)
<1>1. PICK s \in Sessions : s = bind
  BY DEF IInv, TypeOK
<1>2. Journal!SaveSession(s)
  BY <1>1, SessionProduced
<1> QED BY <1>2, Produces DEF Journal!Produce

LEMMA EnsureProduces ==
  ASSUME SaveMayFail = FALSE, IInv, Bounded', VInv, alive, NEW next, EnsureSession(next)
  PROVE  [Journal!Next]_(Journal!vars)
<1>1. CASE entered
  BY <1>1 DEF EnsureSession, Journal!vars
<1>2. CASE ~ entered
  BY <1>2, SessionProduces DEF EnsureSession
<1> QED BY <1>1, <1>2

(* A save of a state that keeps its version says nothing to the outbox. *)
LEMMA StateProduces ==
  ASSUME IInv, VInv, alive, NEW state, jour' = [jour EXCEPT ![bind] = state] \/ jour' = jour,
         state.version = mem.version, rows' = rows
  PROVE  [Journal!Next]_(Journal!vars)
<1>1. [s \in Sessions |-> jour'[s].version] = [s \in Sessions |-> jour[s].version]
  BY SameVersions DEF VInv
<1> QED BY <1>1 DEF Journal!vars

LEMMA InitProduces == Init => Journal!Init
<1> SUFFICES ASSUME Init PROVE Journal!Init
  OBVIOUS
<1>1. rows = <<>> /\ jour = [s \in Sessions |-> Fresh]
  BY DEF Init
<1>2. [i \in DOMAIN rows |-> OutboxRow(rows[i])] = <<>> /\ DOMAIN rows = {}
  BY <1>1
<1>3. [s \in Sessions |-> jour[s].version] = [s \in Sessions |-> 0]
  BY <1>1 DEF Fresh
<1> QED BY <1>2, <1>3 DEF Journal!Init, Journal!Flushers

LEMMA NextProduces ==
  ASSUME SaveMayFail = FALSE
  PROVE  IInv /\ Bounded' /\ OInv /\ LInv /\ VInv /\ [Next]_vars => [Journal!Next]_(Journal!vars)
<1> SUFFICES ASSUME IInv, Bounded', OInv, LInv, VInv, [Next]_vars PROVE [Journal!Next]_(Journal!vars)
  OBVIOUS
<1> USE DEF world, store, memory
<1>0. ASSUME UNCHANGED <<jour, rows>> PROVE [Journal!Next]_(Journal!vars)
  BY <1>0 DEF Journal!vars
<1>1. CASE UNCHANGED vars
  BY <1>0, <1>1 DEF vars
<1>2. CASE SubmitRecover
  BY <1>2, FinishProduces DEF SubmitRecover, At
<1>3. CASE SubmitOpen
  <2> DEFINE state == [mem EXCEPT !.index = @ + 1, !.turn = NewTurn(Len(opened) + 1)]
  <2>1. /\ jour' = [jour EXCEPT ![bind] = state] /\ rows' = rows \o <<>> /\ alive
    BY <1>3 DEF SubmitOpen, Save, At
  <2>2. state.version = mem.version /\ rows' = rows
    BY <2>1, EmptySeq, ConcatEmptySeq DEF IInv, TypeOK, StateType
  <2> HIDE DEF state
  <2> QED BY <2>1, <2>2, StateProduces
<1>4. CASE \E n \in 0 .. MaxDeliveries : SubmitPrepare(n)
  <2>1. PICK n \in 0 .. MaxDeliveries : SubmitPrepare(n)
    BY <1>4
  <2> DEFINE prepared == [mem EXCEPT !.turn.prepared = TRUE]
  <2>2. prepared.version = mem.version
    BY DEF IInv, TypeOK, StateType
  <2>3. alive /\ rows' = rows
    BY <2>1 DEF SubmitPrepare, At
  <2>4. jour' = [jour EXCEPT ![bind] = prepared] \/ jour' = jour
    BY <2>1, Zenon DEF SubmitPrepare
  <2> HIDE DEF prepared
  <2> QED BY <2>2, <2>3, <2>4, StateProduces
<1>5. CASE AddMessage
  BY <1>0, <1>5 DEF AddMessage
<1>6. CASE CommitReceipts
  <2>1. PICK s \in Sessions : s = bind
    BY DEF IInv, TypeOK
  <2>2. Journal!Produce(s) \/ UNCHANGED Journal!vars
    BY <1>6, <2>1, ReceiptsProduced
  <2>3. CASE Journal!Produce(s)
    BY <2>3, Produces
  <2>4. CASE UNCHANGED Journal!vars
    BY <2>4
  <2> QED BY <2>2, <2>3, <2>4
<1>7. CASE DeliveryUnknown
  BY <1>0, <1>7 DEF DeliveryUnknown
<1>8. CASE EndFinish
  BY <1>8, FinishProduces DEF EndFinish, At
<1>9. ASSUME NEW from, NEW status \in {"completed", "abandoned"}, EndSession(from, status)
      PROVE  [Journal!Next]_(Journal!vars)
  BY <1>9, SessionProduces DEF EndSession, At
<1>10. CASE Release
  BY <1>0, <1>10 DEF Release
<1>11. CASE Start
  BY <1>11, EnsureProduces DEF Start, At
<1>12. CASE Submit
  BY <1>12, EnsureProduces DEF Submit, At
<1>13. CASE Complete
  BY <1>13, FinishProduces DEF Complete, At, IInv, TypeOK
<1>14. CASE Cleanup
  BY <1>0, <1>14 DEF Cleanup
<1>15. CASE EndBegin
  <2>1. CASE entered \/ HasTurn
    BY <1>15, <2>1, EnsureProduces DEF EndBegin, At
  <2>2. CASE ~ (entered \/ HasTurn)
    BY <1>0, <1>15, <2>2 DEF EndBegin
  <2> QED BY <2>1, <2>2
<1>16. CASE SaveState
  BY <1>16, StateProduces DEF SaveState
<1>17. ASSUME NEW s \in Sessions, Rebind(s) PROVE [Journal!Next]_(Journal!vars)
  <2>1. CASE HasTurn
    <3>1. rows' = Append(rows, TurnRow(0)) /\ jour' = [jour EXCEPT ![bind] = Finished] /\ alive
      BY <1>17, <2>1 DEF Rebind
    <3>2. rows' = rows \o <<TurnRow(0)>>
      <4>1. rows \in Seq(RowType) /\ TurnRow(0) \in RowType
        BY <2>1, FinishedKeeps DEF IInv, TypeOK
      <4> HIDE DEF TurnRow
      <4> QED BY <3>1, <4>1, AppendIsConcat
    <3>3. Journal!SaveTurn(bind)
      BY <2>1, <3>1, <3>2, TurnProduced
    <3> QED BY <3>3, Produces DEF Journal!Produce, IInv, TypeOK
  <2>2. CASE ~ HasTurn
    BY <1>0, <1>17, <2>2 DEF Rebind
  <2> QED BY <2>1, <2>2
<1>18. ASSUME NEW s \in Sessions, Restart(s) PROVE [Journal!Next]_(Journal!vars)
  BY <1>0, <1>18 DEF Restart
<1>19. CASE Crash
  BY <1>0, <1>19 DEF Crash
<1> QED BY <1>1, <1>2, <1>3, <1>4, <1>5, <1>6, <1>7, <1>8, <1>9, <1>10, <1>11, <1>12, <1>13, <1>14,
           <1>15, <1>16, <1>17, <1>18, <1>19 DEF Next, Handler, Host

(* Where rebind waits for on_submit and no save raises, every save of the hook
   is one of those the outbox relies on: a session's rows carry consecutive
   versions, and a turn or a receipt is never saved for a session that was
   not announced.  ensure_session, finish, on_submit, _end_shared_session,
   rebind. *)
THEOREM SavesAreTheOutboxs ==
  ASSUME SaveMayFail = FALSE, RebindWhileSubmitting = FALSE
  PROVE  Spec => OutboxSpec
<1>1. IInv /\ OInv /\ LInv /\ [Next]_vars => LInv'
  BY NextLast
<1>2. IInv /\ IInv' /\ OInv /\ LInv /\ RInv /\ [Next]_vars => RInv'
  BY NextRoom
<1>3. IInv /\ OInv /\ LInv /\ VInv /\ [Next]_vars => VInv'
  BY NextVersions
<1>4. IInv /\ Bounded' /\ OInv /\ LInv /\ VInv /\ [Next]_vars => [Journal!Next]_(Journal!vars)
  BY NextProduces
<1> QED BY <1>1, <1>2, <1>3, <1>4, InitLast, InitRoom, InitVersions, InitProduces, RowsBounded,
           Inductive, Owning, PTL DEF Spec, OutboxSpec, Journal!Spec
=============================================================================
