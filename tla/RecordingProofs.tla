--------------------------- MODULE RecordingProofs ---------------------------
(***************************************************************************)
(* Recording, for any sessions, detection tasks, calls and claims: a turn  *)
(* is examined once by each detector, a claim is published once, and what  *)
(* the session recorded itself is not recorded again for it.               *)
(*                                                                         *)
(* A window lies at or below the watermark of its session and detector     *)
(* and above the watermark it was taken at, so later ones are disjoint     *)
(* from it.  A task holds its fingerprint from its reservation on, also    *)
(* when it was cancelled with a request on its way, and lets it go only    *)
(* when that request can no longer be served.  The mark and the generation *)
(* that calls leave in the state cover the calls that stand, also while    *)
(* one of them may yet be refused and take its own back.                   *)
(***************************************************************************)
EXTENDS Recording, TLAPS

(* From its judgement on a task has a claim. *)
Found == \A t \in Tasks : pc[t] \in {"found", "publish", "flush", "sent"} => claim[t] \in Claims

(* The windows. *)
Below(t) == \A i \in window[t] : i <= watermark[Session(t)][kind[t]]
Untaken(t) == pc[t] \in {"idle", "new"} => window[t] = {}
Taken == \A t \in Tasks : Below(t) /\ Untaken(t)

(* The fingerprints. *)
Holds(t) == pc[t] \in {"publish", "flush", "sent"} \/ t \in flying \cup published
Silent(t) == pc[t] \in {"idle", "new", "judge", "found", "publish", "flush"} => t \notin flying \cup published
Kept == \A t \in Tasks : Silent(t) /\ (Holds(t) => Key(t) \in reserved)
Unshared == \A t, u \in Tasks : t # u /\ Holds(t) /\ Holds(u) => Key(t) # Key(u)

IInv == TypeOK /\ Found /\ Taken /\ ExaminedOnce /\ Kept /\ Unshared

-----------------------------------------------------------------------------
LEMMA WriterSorts == \A t \in Tasks : t \in Writers /\ t \notin Calls
BY RecordingAssumption DEF Writers

(* The type part of each step.  First what a state may become. *)
LEMMA FinishedTyped ==
  ASSUME NEW s \in States
  PROVE  /\ Finished(s) \in States /\ Finished(s).index = s.index
         /\ Finished(s).deliberate = s.deliberate /\ Finished(s).generation = s.generation
BY DEF Finished, States

LEMMA PrunedTyped == ASSUME NEW s \in States, NEW k \in Kinds PROVE [s EXCEPT !.buffer[k] = {}] \in States
BY DEF States

LEMMA MarkedTyped ==
  ASSUME NEW s \in States, NEW d \in 0 .. MaxTurns, NEW g \in Nat
  PROVE  /\ [s EXCEPT !.deliberate = d, !.generation = g] \in States
         /\ [s EXCEPT !.generation = g, !.deliberate = d] \in States
BY DEF States

LEMMA CommitTyped == ASSUME TypeOK, NEW s \in States, Commit(s) PROVE state' \in States /\ journal' \in [Sessions -> States]
BY DEF Commit, TypeOK

LEMMA LatestTyped == ASSUME NEW d \in 0 .. MaxTurns, NEW turns \in SUBSET Turns PROVE Latest(d, turns) \in 0 .. MaxTurns
<1>1. CASE \E i \in turns : i > d
  <2>1. (CHOOSE i \in turns : i > d) \in turns
    BY <1>1
  <2>2. Latest(d, turns) \in Turns
    BY <1>1, <2>1 DEF Latest
  <2> QED BY <2>2, RecordingAssumption DEF Turns
<1>2. CASE ~ \E i \in turns : i > d
  BY <1>2 DEF Latest
<1> QED BY <1>1, <1>2

LEMMA GotoTyped ==
  ASSUME TypeOK, NEW w \in Writers, NEW l \in {"new", "judge", "found", "publish", "flush", "sent", "done"}, Goto(w, l)
  PROVE  pc' \in [Writers -> {"idle", "new", "judge", "found", "publish", "flush", "sent", "done"}]
BY DEF Goto, TypeOK

LEMMA TakeTyped ==
  ASSUME TypeOK, NEW t \in Tasks, NEW turns \in SUBSET Turns, Take(t, turns)
  PROVE  /\ watermark' \in [Sessions -> [Kinds -> 0 .. MaxTurns]]
         /\ window' \in [Writers -> SUBSET Turns]
<1>1. t \in Writers /\ Session(t) \in Sessions /\ kind[t] \in Kinds
  BY WriterSorts DEF Session, TypeOK
<1>2. window' \in [Writers -> SUBSET Turns]
  BY <1>1 DEF Take, TypeOK
<1>3. PICK i \in turns : watermark' = [watermark EXCEPT ![Session(t)][kind[t]] = i]
  BY DEF Take
<1>4. i \in 0 .. MaxTurns
  BY RecordingAssumption DEF Turns
<1> QED BY <1>1, <1>2, <1>3, <1>4 DEF TypeOK

LEMMA KeyTyped == ASSUME TypeOK, NEW t \in Tasks, claim[t] \in Claims PROVE Key(t) \in Sessions \X Kinds \X Claims
BY WriterSorts DEF Key, Session, TypeOK

LEMMA RefuseTyped ==
  ASSUME TypeOK, NEW w \in Writers, Refuse(w)
  PROVE  /\ pc' \in [Writers -> {"idle", "new", "judge", "found", "publish", "flush", "sent", "done"}]
         /\ reserved' \subseteq Sessions \X Kinds \X Claims
<1>1. pc' \in [Writers -> {"idle", "new", "judge", "found", "publish", "flush", "sent", "done"}]
  BY GotoTyped DEF Refuse
<1>2. reserved' \subseteq reserved
  BY DEF Refuse, Release
<1> QED BY <1>1, <1>2 DEF TypeOK

LEMMA InitTyped == Init => TypeOK
<1>1. Fresh \in States
  BY RecordingAssumption DEF Fresh, States
<1> QED BY <1>1, RecordingAssumption DEF Init, TypeOK, Turns

LEMMA TypedNext == ASSUME TypeOK, Found, [Next]_vars PROVE TypeOK'
<1>1. CASE UNCHANGED vars
  BY <1>1 DEF vars, TypeOK
<1>2. CASE BeginTurn
  <2>1. /\ Finished(state) \in States /\ Finished(state).index = state.index
        /\ state.index + 1 \in 0 .. MaxTurns
    BY <1>2, RecordingAssumption, FinishedTyped DEF BeginTurn, TypeOK, States
  <2>2. state' \in States /\ journal' \in [Sessions -> States]
    <3>1. [Finished(state) EXCEPT !.index = @ + 1, !.open = TRUE] \in States
      BY <2>1 DEF States
    <3> QED BY <1>2, <3>1, CommitTyped DEF BeginTurn
  <2> QED BY <1>2, <2>2 DEF BeginTurn, own, wire, bounds, TypeOK
<1>3. CASE EndTurn
  <2>1. state' \in States /\ journal' \in [Sessions -> States]
    BY <1>3, FinishedTyped, CommitTyped DEF EndTurn, TypeOK
  <2> QED BY <1>3, <2>1 DEF EndTurn, own, wire, bounds, TypeOK
<1>4. CASE Rebind
  <2>1. journal' \in [Sessions -> States]
    BY <1>4, FinishedTyped DEF Rebind, TypeOK
  <2>2. sid' \in Sessions /\ state' \in States /\ epoch' \in Nat /\ rebinds' \in 0 .. MaxRebinds
    BY <1>4, RecordingAssumption DEF Rebind, TypeOK
  <2> QED BY <1>4, <2>1, <2>2 DEF Rebind, own, wire, TypeOK
<1>5. CASE Shutdown
  BY <1>5 DEF Shutdown, store, own, wire, bounds, TypeOK
<1>6. ASSUME Died PROVE TypeOK' \/ ~ (/\ watermark' \in [Sessions -> [Kinds -> 0 .. MaxTurns]]
                                      /\ window' \in [Writers -> SUBSET Turns])
  <2>1. /\ epoch' \in Nat /\ state' \in States /\ lock' = None /\ closing' = "no" /\ crashes' \in 0 .. MaxCrashes
        /\ pc' \in [Writers -> {"idle", "new", "judge", "found", "publish", "flush", "sent", "done"}]
    BY <1>6, RecordingAssumption DEF Died, TypeOK
  <2> QED BY <1>6, <2>1 DEF Died, wire, TypeOK
<1>7. CASE Restart
  BY <1>6, <1>7 DEF Restart, TypeOK
<1>8. ASSUME NEW t \in Tasks, DieTaking(t) PROVE TypeOK'
  BY <1>6, <1>8, TakeTyped DEF DieTaking
<1>9. ASSUME NEW t \in Tasks, Detect(t) PROVE TypeOK'
  <2>1. pc' \in [Writers -> {"idle", "new", "judge", "found", "publish", "flush", "sent", "done"}]
    BY <1>9, GotoTyped, WriterSorts DEF Detect
  <2>2. bound' \in [Writers -> Sessions \X Nat]
    BY <1>9 DEF Detect, TypeOK
  <2> QED BY <1>9, <2>1, <2>2 DEF Detect, store, hook, wire, bounds, TypeOK
<1>10. ASSUME NEW t \in Tasks, Capture(t) PROVE TypeOK'
  <2>1. t \in Writers /\ kind[t] \in Kinds
    BY WriterSorts DEF TypeOK
  <2>2. watermark' \in [Sessions -> [Kinds -> 0 .. MaxTurns]] /\ window' \in [Writers -> SUBSET Turns]
    BY <1>10, TakeTyped DEF Capture
  <2>3. state' \in States /\ journal' \in [Sessions -> States]
    BY <1>10, <2>1, PrunedTyped, CommitTyped DEF Capture, TypeOK
  <2>4. pc' \in [Writers -> {"idle", "new", "judge", "found", "publish", "flush", "sent", "done"}]
    BY <1>10, <2>1, GotoTyped DEF Capture
  <2>5. gen' \in [Writers -> Nat]
    BY <1>10 DEF Capture, TypeOK, States
  <2> QED BY <1>10, <2>2, <2>3, <2>4, <2>5 DEF Capture, wire, bounds, TypeOK
<1>11. ASSUME NEW t \in Tasks, NothingToTake(t) \/ NotReceived(t) PROVE TypeOK'
  <2>1. pc' \in [Writers -> {"idle", "new", "judge", "found", "publish", "flush", "sent", "done"}]
    BY <1>11, GotoTyped, WriterSorts DEF NothingToTake, NotReceived
  <2> QED BY <1>11, <2>1 DEF NothingToTake, NotReceived, store, hook, own, wire, bounds, TypeOK
<1>12. ASSUME NEW t \in Tasks, Reserve(t) PROVE TypeOK'
  <2>1. pc' \in [Writers -> {"idle", "new", "judge", "found", "publish", "flush", "sent", "done"}]
    BY <1>12, GotoTyped, WriterSorts DEF Reserve
  <2>2. reserved' \subseteq Sessions \X Kinds \X Claims
    BY <1>12, KeyTyped DEF Reserve, Found, TypeOK
  <2> QED BY <1>12, <2>1, <2>2 DEF Reserve, hook, own, wire, bounds, TypeOK
<1>13. ASSUME NEW t \in Tasks, Judge(t) PROVE TypeOK'
  <2>1. pc' \in [Writers -> {"idle", "new", "judge", "found", "publish", "flush", "sent", "done"}]
    BY <1>13, GotoTyped, WriterSorts DEF Judge
  <2>2. claim' \in [Writers -> Claims \cup {None}]
    BY <1>13 DEF Judge, TypeOK
  <2> QED BY <1>13, <2>1, <2>2 DEF Judge, store, hook, wire, bounds, TypeOK
<1>14. ASSUME NEW c \in Calls, Call(c) PROVE TypeOK'
  <2>1. pc' \in [Writers -> {"idle", "new", "judge", "found", "publish", "flush", "sent", "done"}]
    BY <1>14, GotoTyped DEF Call, Writers
  <2>2. bound' \in [Writers -> Sessions \X Nat] /\ window' \in [Writers -> SUBSET Turns]
    BY <1>14 DEF Call, TypeOK
  <2> QED BY <1>14, <2>1, <2>2 DEF Call, store, hook, wire, bounds, TypeOK
<1>15. ASSUME NEW w \in Writers, Begin(w) PROVE TypeOK'
  <2>1. /\ pc' \in [Writers -> {"idle", "new", "judge", "found", "publish", "flush", "sent", "done"}]
        /\ reserved' \subseteq Sessions \X Kinds \X Claims /\ lock' \in Writers \cup {None}
    BY <1>15, GotoTyped, RefuseTyped DEF Begin, TypeOK
  <2> QED BY <1>15, <2>1 DEF Begin, hook, own, wire, bounds, TypeOK
<1>16. ASSUME NEW w \in Writers, Submit(w) PROVE TypeOK'
  <2>1. /\ pc' \in [Writers -> {"idle", "new", "judge", "found", "publish", "flush", "sent", "done"}]
        /\ reserved' \subseteq Sessions \X Kinds \X Claims /\ lock' \in Writers \cup {None}
    BY <1>16, GotoTyped, RefuseTyped DEF Submit, TypeOK
  <2>2. flying' \subseteq Writers
    BY <1>16 DEF Submit, TypeOK
  <2>3. CASE w \in Calls /\ Commit([state EXCEPT !.generation = @ + 1, !.deliberate = Latest(@, window[w])])
             /\ snapshot' = [snapshot EXCEPT ![w] = <<state.deliberate, state.generation>>]
             /\ stands' = stands \cup {w}
    <3>1. state.deliberate \in 0 .. MaxTurns /\ state.generation \in Nat /\ window[w] \in SUBSET Turns
      BY DEF TypeOK, States
    <3>2. Latest(state.deliberate, window[w]) \in 0 .. MaxTurns
      BY <3>1, LatestTyped
    <3>3. [state EXCEPT !.generation = @ + 1, !.deliberate = Latest(@, window[w])] \in States
      <4>1. state \in States /\ state.generation + 1 \in Nat
        BY <3>1 DEF TypeOK
      <4> QED BY <3>2, <4>1, MarkedTyped
    <3>4. state' \in States /\ journal' \in [Sessions -> States]
      BY <2>3, <3>3, CommitTyped
    <3>5. snapshot' \in [Writers -> (0 .. MaxTurns) \X Nat] /\ stands' \subseteq Calls
      BY <2>3, <3>1 DEF TypeOK
    <3> QED BY <1>16, <2>1, <2>2, <3>4, <3>5 DEF Submit, bounds, TypeOK
  <2>4. CASE UNCHANGED <<journal, state, snapshot, stands>>
    BY <1>16, <2>1, <2>2, <2>4 DEF Submit, bounds, TypeOK
  <2> QED BY <1>16, <2>3, <2>4 DEF Submit
<1>17. ASSUME NEW w \in Writers, Serve(w) \/ Recorded(w) \/ Cancel(w) PROVE TypeOK'
  <2>1. pc' \in [Writers -> {"idle", "new", "judge", "found", "publish", "flush", "sent", "done"}]
    BY <1>17, GotoTyped DEF Serve, Recorded, Cancel, TypeOK
  <2>2. lock' \in Writers \cup {None} /\ flying' \subseteq Writers /\ published' \subseteq Writers
    BY <1>17 DEF Serve, Recorded, Cancel, wire, TypeOK
  <2> QED BY <1>17, <2>1, <2>2 DEF Serve, Recorded, Cancel, store, hook, own, bounds, TypeOK
<1>18. ASSUME NEW w \in Writers, Refused(w) PROVE TypeOK'
  <2>1. /\ pc' \in [Writers -> {"idle", "new", "judge", "found", "publish", "flush", "sent", "done"}]
        /\ reserved' \subseteq Sessions \X Kinds \X Claims
    BY <1>18, RefuseTyped DEF Refused
  <2>2. snapshot[w][1] \in 0 .. MaxTurns /\ snapshot[w][2] \in Nat /\ Session(w) \in Sessions
    BY DEF Session, TypeOK
  <2>3. \A s \in States : [s EXCEPT !.deliberate = snapshot[w][1], !.generation = snapshot[w][2]] \in States
    BY <2>2, MarkedTyped
  <2>4. state' \in States
    BY <1>18, <2>3 DEF Refused, TypeOK
  <2>5. journal' \in [Sessions -> States]
    <3> DEFINE restored == [journal[Session(w)] EXCEPT !.deliberate = snapshot[w][1], !.generation = snapshot[w][2]]
    <3>1. restored \in States
      BY <2>2, <2>3 DEF TypeOK
    <3>2. UNCHANGED journal \/ journal' = [journal EXCEPT ![Session(w)] = restored]
      BY <1>18 DEF Refused
    <3> QED BY <3>1, <3>2 DEF TypeOK
  <2> QED BY <1>18, <2>1, <2>4, <2>5 DEF Refused, own, bounds, TypeOK
<1> QED BY <1>1, <1>2, <1>3, <1>4, <1>5, <1>7, <1>8, <1>9, <1>10, <1>11, <1>12, <1>13, <1>14, <1>15, <1>16, <1>17, <1>18 DEF Next

LEMMA FoundNext == ASSUME TypeOK, Found, [Next]_vars PROVE Found'
<1>2. CASE BeginTurn \/ EndTurn \/ Rebind \/ Shutdown \/ UNCHANGED vars
  BY <1>2 DEF BeginTurn, EndTurn, Rebind, Shutdown, own, vars, Found
<1>3. CASE Died
  BY <1>3, WriterSorts DEF Died, Found
<1>4. ASSUME NEW t \in Tasks, Judge(t) PROVE Found'
  BY <1>4, WriterSorts DEF Judge, Goto, Found, TypeOK
<1>5. ASSUME NEW t \in Tasks, Detect(t) \/ Capture(t) \/ NothingToTake(t) \/ NotReceived(t) \/ Reserve(t)
      PROVE  Found'
  BY <1>5, WriterSorts DEF Detect, Capture, NothingToTake, NotReceived, Reserve, Goto, own, Found, TypeOK
<1>6. ASSUME NEW c \in Calls, Call(c) PROVE Found'
  BY <1>6, WriterSorts DEF Call, Goto, Found, TypeOK
<1>7. ASSUME NEW w \in Writers, Begin(w) \/ Submit(w) \/ Serve(w) \/ Recorded(w) \/ Refused(w) \/ Cancel(w)
      PROVE  Found'
  BY <1>7, WriterSorts DEF Begin, Submit, Serve, Recorded, Refused, Refuse, Cancel, Goto, own, Found, TypeOK
<1> QED BY <1>2, <1>3, <1>4, <1>5, <1>6, <1>7 DEF Next, Restart, DieTaking

-----------------------------------------------------------------------------
(* Windows.  Most steps leave them, and what they are measured by, alone. *)
LEMMA WindowsStay ==
  ASSUME TypeOK, Taken, ExaminedOnce, UNCHANGED <<kind, watermark>>,
         \A t \in Tasks : bound'[t] = bound[t] /\ window'[t] = window[t],
         \A t \in Tasks : pc'[t] \in {"idle", "new"} => pc[t] \in {"idle", "new"}
  PROVE  Taken' /\ ExaminedOnce'
BY DEF Taken, ExaminedOnce, Below, Untaken, Session

(* Detect: a task without a window is bound. *)
LEMMA WindowsDetect == ASSUME TypeOK, Taken, ExaminedOnce, NEW t \in Tasks, Detect(t) PROVE Taken' /\ ExaminedOnce'
<1>1. /\ UNCHANGED <<kind, watermark, window>> /\ window[t] = {}
      /\ \A u \in Tasks \ {t} : bound'[u] = bound[u] /\ pc'[u] = pc[u]
  BY WriterSorts DEF Detect, store, Goto, TypeOK, Taken, Untaken
<1> QED BY <1>1 DEF Taken, ExaminedOnce, Below, Untaken, Session

(* Take: the new window lies above the watermark and then at or below it. *)
LEMMA WindowsTake ==
  ASSUME TypeOK, Taken, ExaminedOnce, NEW t \in Tasks, NEW turns \in SUBSET Turns, Take(t, turns),
         UNCHANGED <<kind, bound>>, pc'[t] \notin {"idle", "new"},
         \A u \in Tasks \ {t} : pc'[u] \in {"idle", "new"} => pc[u] \in {"idle", "new"}
  PROVE  Taken' /\ ExaminedOnce'
<1> DEFINE s == Session(t)  k == kind[t]
<1>1. t \in Writers /\ s \in Sessions /\ k \in Kinds
  BY WriterSorts DEF Session, TypeOK
<1>2. /\ window'[t] = turns
      /\ \A u \in Tasks \ {t} : window'[u] = window[u]
      /\ \A i \in turns : i \in Nat /\ i > watermark[s][k]
  BY <1>1, WriterSorts DEF Take, TypeOK, Unexamined, Turns
<1>3. PICK last \in turns : (\A j \in turns : j <= last) /\ watermark' = [watermark EXCEPT ![s][k] = last]
  BY DEF Take
<1>4. /\ watermark'[s][k] = last /\ last > watermark[s][k]
      /\ \A z \in Sessions, l \in Kinds : (z # s \/ l # k) => watermark'[z][l] = watermark[z][l]
  BY <1>1, <1>2, <1>3 DEF TypeOK
<1>5. \A u \in Tasks : Session(u)' = Session(u) /\ Session(u) \in Sessions /\ kind[u] \in Kinds
  BY WriterSorts DEF Session, TypeOK
<1>6. \A u \in Tasks : \A i \in window[u] : i \in Nat
  BY WriterSorts DEF TypeOK, Turns
<1>7. watermark[s][k] \in Nat /\ last \in Nat
  BY <1>1, <1>2 DEF TypeOK
<1> HIDE DEF s, k
<1>8. ASSUME NEW u \in Tasks PROVE Below(u)' /\ Untaken(u)'
  <2>1. CASE u = t
    BY <1>2, <1>3, <1>4, <1>5, <2>1 DEF Below, Untaken, s, k
  <2>2. CASE u # t
    <3>1. Below(u) /\ Untaken(u)
      BY DEF Taken
    <3>2. Untaken(u)'
      BY <1>2, <2>2, <3>1 DEF Untaken
    <3>3. CASE Session(u) = s /\ kind[u] = k
      BY <1>2, <1>4, <1>5, <1>6, <1>7, <2>2, <3>1, <3>2, <3>3 DEF Below
    <3>4. CASE ~ (Session(u) = s /\ kind[u] = k)
      BY <1>2, <1>4, <1>5, <2>2, <3>1, <3>2, <3>4 DEF Below
    <3> QED BY <3>2, <3>3, <3>4
  <2> QED BY <2>1, <2>2
<1>9. ASSUME NEW u \in Tasks, u # t, Session(u) = s, kind[u] = k
      PROVE  window[u] \cap turns = {}
  <2>1. \A i \in window[u] : i <= watermark[s][k]
    BY <1>9 DEF Taken, Below
  <2> QED BY <1>2, <1>6, <1>7, <2>1
<1>10. ExaminedOnce'
  <2> SUFFICES ASSUME NEW u \in Tasks, NEW v \in Tasks, u # v,
                      Session(u) = Session(v), kind[u] = kind[v]
               PROVE  window'[u] \cap window'[v] = {}
    BY <1>5 DEF ExaminedOnce
  <2>1. CASE u = t
    BY <1>2, <1>9, <2>1 DEF s, k
  <2>2. CASE v = t
    BY <1>2, <1>9, <2>2 DEF s, k
  <2>3. CASE u # t /\ v # t
    BY <1>2, <2>3 DEF ExaminedOnce
  <2> QED BY <2>1, <2>2, <2>3
<1> QED BY <1>8, <1>10 DEF Taken

LEMMA WindowsNext == ASSUME IInv, Next PROVE Taken' /\ ExaminedOnce'
<1> USE DEF IInv
<1>1. CASE BeginTurn \/ EndTurn \/ Rebind \/ Shutdown
  BY <1>1, WindowsStay DEF BeginTurn, EndTurn, Rebind, Shutdown, store, own
<1>2. CASE Restart
  BY <1>2, WindowsStay, WriterSorts DEF Restart, Died, TypeOK
<1>3. ASSUME NEW t \in Tasks, Capture(t) PROVE Taken' /\ ExaminedOnce'
  <2>1. PICK turns \in SUBSET Turns : Take(t, turns)
    BY <1>3 DEF Capture
  <2>2. /\ UNCHANGED <<kind, bound>> /\ pc'[t] \notin {"idle", "new"}
        /\ \A u \in Tasks \ {t} : pc'[u] = pc[u]
    BY <1>3, WriterSorts DEF Capture, Goto, TypeOK
  <2> QED BY <2>1, <2>2, WindowsTake
<1>4. ASSUME NEW t \in Tasks, DieTaking(t) PROVE Taken' /\ ExaminedOnce'
  <2>1. PICK turns \in SUBSET Turns : Take(t, turns)
    BY <1>4 DEF DieTaking
  <2>2. /\ UNCHANGED <<kind, bound>> /\ pc'[t] \notin {"idle", "new"}
        /\ \A u \in Tasks \ {t} : pc'[u] \in {"idle", "new"} => pc[u] \in {"idle", "new"}
    BY <1>4, <2>1, WriterSorts DEF DieTaking, Died, Take, TypeOK
  <2> QED BY <2>1, <2>2, WindowsTake
<1>5. ASSUME NEW t \in Tasks, NothingToTake(t) \/ NotReceived(t) \/ Reserve(t) \/ Judge(t)
      PROVE  Taken' /\ ExaminedOnce'
  <2>1. UNCHANGED <<kind, watermark, bound, window>>
    BY <1>5 DEF NothingToTake, NotReceived, Reserve, Judge, store, own
  <2>2. \A u \in Tasks : pc'[u] \in {"idle", "new"} => pc[u] \in {"idle", "new"}
    BY <1>5, WriterSorts DEF NothingToTake, NotReceived, Reserve, Judge, Goto, TypeOK
  <2> QED BY <2>1, <2>2, WindowsStay
<1>6. ASSUME NEW c \in Calls, Call(c) PROVE Taken' /\ ExaminedOnce'
  <2>1. UNCHANGED <<kind, watermark>> /\ \A t \in Tasks : t # c
    BY <1>6, WriterSorts DEF Call, store
  <2>2. \A t \in Tasks : bound'[t] = bound[t] /\ window'[t] = window[t] /\ pc'[t] = pc[t]
    BY <1>6, <2>1, WriterSorts DEF Call, Goto, TypeOK
  <2> QED BY <2>1, <2>2, WindowsStay
<1>7. ASSUME NEW w \in Writers, Begin(w) \/ Submit(w) \/ Serve(w) \/ Recorded(w) \/ Refused(w) \/ Cancel(w)
      PROVE  Taken' /\ ExaminedOnce'
  <2>1. UNCHANGED <<kind, watermark, bound, window>>
    BY <1>7 DEF Begin, Submit, Serve, Recorded, Refused, Cancel, store, own
  <2>2. \A u \in Tasks : pc'[u] \in {"idle", "new"} => pc[u] \in {"idle", "new"}
    BY <1>7, WriterSorts DEF Begin, Submit, Serve, Recorded, Refused, Refuse, Cancel, Goto, TypeOK
  <2> QED BY <2>1, <2>2, WindowsStay
<1> QED BY <1>1, <1>2, <1>3, <1>4, <1>5, <1>6, <1>7, WindowsDetect DEF Next

-----------------------------------------------------------------------------
(* Fingerprints.  A step that makes no task a holder and frees nothing that
   one holds. *)
LEMMA KeysStay ==
  ASSUME TypeOK, Kept, Unshared, UNCHANGED kind,
         \A t \in Tasks : Silent(t)',
         \A t \in Tasks : Holds(t)' => Holds(t) /\ Key(t)' = Key(t) /\ Key(t) \in reserved'
  PROVE  Kept' /\ Unshared'
BY DEF Kept, Unshared

(* The key of a task depends on what it is bound to and what it found. *)
LEMMA KeysSame ==
  ASSUME NEW t, UNCHANGED kind, bound'[t] = bound[t], claim'[t] = claim[t]
  PROVE  Key(t)' = Key(t)
BY DEF Key, Session

(* Reserve: its fingerprint was nobody's. *)
LEMMA KeysReserve == ASSUME TypeOK, Kept, Unshared, NEW t \in Tasks, Reserve(t) PROVE Kept' /\ Unshared'
<1>1. UNCHANGED <<kind, bound, claim, flying, published>> /\ pc[t] = "found" /\ t \in Writers
  BY WriterSorts DEF Reserve, own, wire
<1>2. \A u \in Tasks : Key(u)' = Key(u)
  BY <1>1, KeysSame
<1>3. t \notin flying \cup published /\ ~ Holds(t)
  BY <1>1 DEF Kept, Silent, Holds
<1>4. \A u \in Tasks \ {t} : pc'[u] = pc[u]
  BY <1>1, WriterSorts DEF Reserve, Goto, TypeOK
<1>5. CASE Key(t) \notin reserved /\ Goto(t, "publish") /\ reserved' = reserved \cup {Key(t)}
  <2>1. pc'[t] = "publish"
    BY <1>1, <1>5 DEF Goto, TypeOK
  <2>2. \A u \in Tasks : Silent(u)'
    BY <1>1, <1>3, <1>4, <2>1 DEF Silent, Kept
  <2>3. \A u \in Tasks \ {t} : Holds(u)' => Holds(u) /\ Key(u) \in reserved
    BY <1>1, <1>4 DEF Holds, Kept
  <2>4. Kept'
    BY <1>2, <1>5, <2>2, <2>3 DEF Kept
  <2>5. Unshared'
    BY <1>2, <1>5, <2>3 DEF Unshared
  <2> QED BY <2>4, <2>5
<1>6. CASE Goto(t, "done") /\ UNCHANGED reserved
  <2>1. pc'[t] = "done"
    BY <1>1, <1>6 DEF Goto, TypeOK
  <2>2. \A u \in Tasks : Silent(u)'
    BY <1>1, <1>4, <2>1 DEF Silent, Kept
  <2>3. \A u \in Tasks : Holds(u)' => Holds(u) /\ Key(u) \in reserved
    BY <1>1, <1>3, <1>4, <2>1 DEF Holds, Kept
  <2> QED BY <1>1, <1>2, <1>6, <2>2, <2>3, KeysStay
<1> QED BY <1>5, <1>6 DEF Reserve

(* Refuse: the task lets its fingerprint go and holds nothing any more; what
   other tasks hold is another one. *)
LEMMA KeysRefuse ==
  ASSUME TypeOK, Kept, Unshared, NEW w \in Writers, Refuse(w), UNCHANGED <<kind, bound, claim, published>>,
         pc[w] \in {"publish", "flush", "sent"}, flying' = flying \ {w}, w \notin published
  PROVE  Kept' /\ Unshared'
<1>1. pc'[w] = "done" /\ \A u \in Tasks \ {w} : pc'[u] = pc[u]
  BY WriterSorts DEF Refuse, Goto, TypeOK
<1>2. \A u \in Tasks : Key(u)' = Key(u)
  BY KeysSame
<1>3. \A u \in Tasks : Silent(u)'
  BY <1>1 DEF Silent, Kept
<1>4. ASSUME NEW u \in Tasks, Holds(u)' PROVE u # w /\ Holds(u) /\ Key(u) \in reserved'
  <2>1. u # w /\ Holds(u)
    BY <1>1, <1>4 DEF Holds
  <2>2. Key(u) \in reserved
    BY <2>1 DEF Kept
  <2>3. CASE w \in Tasks
    <3>1. reserved' = reserved \ {Key(w)}
      BY <2>3 DEF Refuse, Release
    <3>2. Holds(w) /\ Key(u) # Key(w)
      BY <2>1, <2>3 DEF Holds, Unshared
    <3> QED BY <2>1, <2>2, <3>1, <3>2
  <2>4. CASE w \notin Tasks
    BY <2>1, <2>2, <2>4 DEF Refuse
  <2> QED BY <2>3, <2>4
<1> QED BY <1>2, <1>3, <1>4, KeysStay

(* Steps of a task that has not come to its fingerprint. *)
LEMMA KeysEarly ==
  ASSUME TypeOK, Kept, Unshared, NEW t \in Tasks, pc[t] \in {"idle", "new", "judge", "found"},
         pc'[t] \in {"new", "judge", "found", "done"},
         \A u \in Tasks \ {t} : pc'[u] = pc[u] /\ bound'[u] = bound[u] /\ claim'[u] = claim[u],
         UNCHANGED <<kind, reserved, flying, published>>
  PROVE  Kept' /\ Unshared'
<1>1. t \notin flying \cup published
  BY DEF Kept, Silent
<1>2. \A u \in Tasks : Silent(u)'
  BY <1>1 DEF Silent, Kept
<1>3. ASSUME NEW u \in Tasks, Holds(u)'
      PROVE  Holds(u) /\ Key(u)' = Key(u) /\ Key(u) \in reserved'
  <2>1. u # t /\ Holds(u)
    BY <1>1, <1>3 DEF Holds
  <2> QED BY <2>1, KeysSame DEF Kept
<1> QED BY <1>2, <1>3, KeysStay

(* Steps that move the program counters of writers only forwards. *)
LEMMA KeysOnward ==
  ASSUME TypeOK, Kept, Unshared, UNCHANGED <<kind, bound, claim, reserved>>,
         \A t \in Tasks : t \in flying' \cup published' => t \in flying \cup published \/ pc'[t] = "sent",
         \A t \in Tasks : \/ pc'[t] = pc[t]
                          \/ pc'[t] = "done"
                          \/ pc[t] = "publish" /\ pc'[t] = "flush"
                          \/ pc[t] = "flush" /\ pc'[t] = "sent"
  PROVE  Kept' /\ Unshared'
<1>1. \A u \in Tasks : Key(u)' = Key(u)
  BY KeysSame
<1>2. \A u \in Tasks : Silent(u)'
  BY DEF Silent, Kept
<1>3. \A u \in Tasks : Holds(u)' => Holds(u)
  BY DEF Holds
<1> QED BY <1>1, <1>2, <1>3, KeysStay DEF Kept

LEMMA KeysNext == ASSUME IInv, Next PROVE Kept' /\ Unshared'
<1> USE DEF IInv
<1>1. CASE BeginTurn \/ EndTurn \/ Rebind \/ Shutdown
  <2>1. UNCHANGED <<kind, bound, claim, reserved, flying, published, pc>>
    BY <1>1 DEF BeginTurn, EndTurn, Rebind, Shutdown, store, own, wire
  <2> QED BY <2>1, KeysOnward
<1>2. ASSUME Died, UNCHANGED <<kind, reserved>> PROVE Kept' /\ Unshared'
  <2>1. UNCHANGED <<bound, claim, flying, published>>
    BY <1>2 DEF Died, wire
  <2>2. \A t \in Tasks : pc'[t] = pc[t] \/ pc'[t] = "done"
    BY <1>2, WriterSorts DEF Died, TypeOK
  <2> QED BY <1>2, <2>1, <2>2, KeysOnward
<1>3. CASE Restart
  BY <1>2, <1>3 DEF Restart, Died
<1>4. ASSUME NEW t \in Tasks, DieTaking(t) PROVE Kept' /\ Unshared'
  BY <1>2, <1>4 DEF DieTaking, Died
<1>5. ASSUME NEW t \in Tasks, Detect(t) \/ Capture(t) \/ NothingToTake(t) \/ Judge(t) \/ NotReceived(t)
      PROVE  Kept' /\ Unshared'
  <2>1. pc[t] \in {"idle", "new", "judge", "found"}
    BY <1>5 DEF Detect, Capture, Take, NothingToTake, Judge, NotReceived
  <2>2. UNCHANGED <<kind, reserved, flying, published>>
    BY <1>5 DEF Detect, Capture, NothingToTake, Judge, NotReceived, store, own, wire
  <2>3. CASE Detect(t)
    BY <2>1, <2>2, <2>3, KeysEarly, WriterSorts DEF Detect, Goto, TypeOK
  <2>4. CASE Capture(t)
    BY <2>1, <2>2, <2>4, KeysEarly, WriterSorts DEF Capture, Goto, TypeOK
  <2>5. CASE NothingToTake(t) \/ NotReceived(t)
    BY <2>1, <2>2, <2>5, KeysEarly, WriterSorts DEF NothingToTake, NotReceived, Goto, TypeOK, own
  <2>6. CASE Judge(t)
    <3>1. pc'[t] \in {"found", "done"} /\ \A u \in Tasks \ {t} : pc'[u] = pc[u]
      BY <2>6, WriterSorts DEF Judge, Goto, TypeOK
    <3>2. \A u \in Tasks \ {t} : bound'[u] = bound[u] /\ claim'[u] = claim[u]
      BY <2>6, WriterSorts DEF Judge, TypeOK
    <3> QED BY <2>1, <2>2, <3>1, <3>2, KeysEarly
  <2> QED BY <1>5, <2>3, <2>4, <2>5, <2>6
<1>6. ASSUME NEW c \in Calls, Call(c) PROVE Kept' /\ Unshared'
  <2>1. \A t \in Tasks : pc'[t] = pc[t] /\ bound'[t] = bound[t] /\ claim'[t] = claim[t]
    BY <1>6, WriterSorts DEF Call, Goto, TypeOK
  <2>2. UNCHANGED <<kind, reserved, flying, published>>
    BY <1>6 DEF Call, store, wire
  <2>3. \A t \in Tasks : Key(t)' = Key(t)
    BY <2>1, <2>2, KeysSame
  <2>4. \A t \in Tasks : Silent(t)' /\ (Holds(t)' => Holds(t))
    BY <2>1, <2>2 DEF Silent, Holds, Kept
  <2> QED BY <2>2, <2>3, <2>4, KeysStay DEF Kept
<1>7. ASSUME NEW w \in Writers, pc[w] \in {"publish", "flush"}, Refuse(w),
             UNCHANGED <<kind, bound, claim, flying, published>>
      PROVE  Kept' /\ Unshared'
  <2>1. CASE w \in Tasks
    <3>1. w \notin flying \cup published
      BY <1>7, <2>1 DEF Kept, Silent
    <3>2. flying' = flying \ {w}
      BY <1>7, <3>1
    <3> QED BY <1>7, <3>1, <3>2, KeysRefuse
  <2>2. CASE w \notin Tasks
    <3>1. UNCHANGED reserved /\ \A t \in Tasks : pc'[t] = pc[t]
      BY <1>7, <2>2, WriterSorts DEF Refuse, Goto, TypeOK
    <3> QED BY <1>7, <3>1, KeysOnward
  <2> QED BY <2>1, <2>2
<1>8. ASSUME NEW w \in Writers, Begin(w) PROVE Kept' /\ Unshared'
  <2>1. CASE Refuse(w)
    BY <1>7, <1>8, <2>1 DEF Begin, own, wire
  <2>2. CASE ~ Refuse(w)
    <3>1. UNCHANGED <<kind, bound, claim, reserved, flying, published>> /\ pc[w] = "publish" /\ Goto(w, "flush")
      BY <1>8, <2>2 DEF Begin, own, wire
    <3>2. \A t \in Tasks : pc'[t] = pc[t] \/ (pc[t] = "publish" /\ pc'[t] = "flush")
      BY <3>1, WriterSorts DEF Goto, TypeOK
    <3> QED BY <3>1, <3>2, KeysOnward
  <2> QED BY <2>1, <2>2
<1>9. ASSUME NEW w \in Writers, Submit(w) PROVE Kept' /\ Unshared'
  <2>1. CASE Refuse(w) /\ UNCHANGED flying
    BY <1>7, <1>9, <2>1 DEF Submit
  <2>2. CASE Goto(w, "sent") /\ flying' = flying \cup {w} /\ UNCHANGED reserved
    <3>1. UNCHANGED <<kind, bound, claim, published>> /\ pc[w] = "flush" /\ w \in Tasks \cup Calls
      BY <1>9 DEF Submit, Writers
    <3>2. pc'[w] = "sent" /\ \A t \in Tasks \ {w} : pc'[t] = pc[t]
      BY <2>2, WriterSorts DEF Goto, TypeOK
    <3> QED BY <2>2, <3>1, <3>2, KeysOnward
  <2> QED BY <1>9, <2>1, <2>2 DEF Submit
<1>10. ASSUME NEW w \in Writers, Serve(w) \/ Recorded(w) \/ Cancel(w) PROVE Kept' /\ Unshared'
  <2>1. UNCHANGED <<kind, bound, claim, reserved>>
    BY <1>10 DEF Serve, Recorded, Cancel, store, own
  <2>2. flying' \cup published' \subseteq flying \cup published
    BY <1>10 DEF Serve, Recorded, Cancel, wire
  <2>3. \A t \in Tasks : pc'[t] = pc[t] \/ pc'[t] = "done"
    BY <1>10, WriterSorts DEF Serve, Recorded, Cancel, Goto, TypeOK
  <2> QED BY <2>1, <2>2, <2>3, KeysOnward
<1>11. ASSUME NEW w \in Writers, Refused(w) PROVE Kept' /\ Unshared'
  BY <1>11, KeysRefuse DEF Refused, own
<1> QED BY <1>1, <1>3, <1>4, <1>5, <1>6, <1>8, <1>9, <1>10, <1>11, KeysReserve DEF Next

-----------------------------------------------------------------------------
LEMMA InitIInv == Init => IInv
<1> SUFFICES ASSUME Init PROVE IInv
  OBVIOUS
<1>1. TypeOK /\ Found
  BY InitTyped, WriterSorts DEF Init, Found
<1>2. Taken /\ ExaminedOnce
  BY WriterSorts DEF Init, Taken, Below, Untaken, ExaminedOnce
<1>3. \A t \in Tasks : ~ Holds(t) /\ Silent(t)
  BY WriterSorts DEF Init, Holds, Silent
<1> QED BY <1>1, <1>2, <1>3 DEF IInv, Kept, Unshared

LEMMA NextIInv == IInv /\ [Next]_vars => IInv'
<1> SUFFICES ASSUME IInv, [Next]_vars PROVE IInv'
  OBVIOUS
<1>1. CASE Next
  BY <1>1, TypedNext, FoundNext, WindowsNext, KeysNext DEF IInv
<1>2. CASE UNCHANGED vars
  BY <1>2 DEF vars, IInv, TypeOK, Found, Taken, Below, Untaken, ExaminedOnce, Kept, Unshared, Holds, Silent, Key, Session
<1> QED BY <1>1, <1>2

LEMMA AlwaysIInv == Spec => []IInv
BY InitIInv, NextIInv, PTL DEF Spec

-----------------------------------------------------------------------------
(* Deliberate recordings.  An observation under way is overtaken by the calls
   that were submitted since: the generation has moved on.  A call that is
   refused takes back its own mark and no other. *)
Examining(t) == pc[t] \in {"judge", "found", "publish", "flush"} /\ Bound(t)
Overlap(c, t) == Session(c) = Session(t) /\ window[c] \cap window[t] # {}

Locked == \A w \in Writers : pc[w] \in {"flush", "sent"} <=> lock = w
Past == \A w \in Writers : bound[w][2] <= epoch
Standing == \A c \in stands : pc[c] \in {"sent", "done"}
OneTurn == \A c \in Calls : \A i, j \in window[c] : i = j

(* The mark covers every call that stands, in memory and in the journal. *)
Marked == \A c \in stands : \A i \in window[c] :
  /\ i <= journal[Session(c)].deliberate
  /\ Session(c) = sid => i <= state.deliberate

(* A task is behind the calls that stand for its turns. *)
Noticed == \A t \in Tasks : Examining(t) =>
  /\ gen[t] <= state.generation
  /\ \A c \in stands : Overlap(c, t) => gen[t] < state.generation

(* So it will be when the request under way is refused. *)
Undone == \A w \in Calls : pc[w] = "sent" =>
  /\ \A c \in stands \ {w} : Session(c) = Session(w) => \A i \in window[c] : i <= snapshot[w][1]
  /\ Bound(w) =>
       \A t \in Tasks : Examining(t) =>
         /\ gen[t] <= snapshot[w][2]
         /\ \A c \in stands \ {w} : Overlap(c, t) => gen[t] < snapshot[w][2]

DInv == Locked /\ Past /\ Standing /\ OneTurn /\ Marked /\ Noticed /\ Undone

-----------------------------------------------------------------------------
LEMMA GotoMoves ==
  ASSUME TypeOK, NEW w \in Writers, NEW l, Goto(w, l)
  PROVE  pc'[w] = l /\ \A v \in Writers \ {w} : pc'[v] = pc[v]
BY DEF Goto, TypeOK

LEMMA CallSorts == /\ \A c \in Calls : c \in Writers /\ c \notin Tasks
                   /\ None \notin Writers
BY RecordingAssumption DEF Writers

(* The lock is held across the flush and the request. *)
LEMMA LockedNext == ASSUME TypeOK, Locked, [Next]_vars PROVE Locked'
<1>1. CASE BeginTurn \/ EndTurn \/ Rebind \/ Shutdown \/ UNCHANGED vars
  BY <1>1 DEF BeginTurn, EndTurn, Rebind, Shutdown, vars, Locked
<1>2. CASE Died
  BY <1>2, CallSorts DEF Died, Locked
<1>3. ASSUME NEW t \in Tasks, Detect(t) \/ Capture(t) \/ NothingToTake(t) \/ Judge(t) \/ NotReceived(t) \/ Reserve(t)
      PROVE  Locked'
  <2>1. UNCHANGED lock /\ t \in Writers /\ pc[t] \in {"idle", "new", "judge", "found"}
    BY <1>3, WriterSorts DEF Detect, Capture, Take, NothingToTake, Judge, NotReceived, Reserve
  <2>2. pc'[t] \in {"new", "judge", "found", "publish", "done"} /\ \A v \in Writers \ {t} : pc'[v] = pc[v]
    BY <1>3, <2>1, GotoMoves DEF Detect, Capture, NothingToTake, Judge, NotReceived, Reserve
  <2> QED BY <2>1, <2>2 DEF Locked
<1>4. ASSUME NEW c \in Calls, Call(c) PROVE Locked'
  <2>1. UNCHANGED lock /\ c \in Writers /\ pc[c] = "idle"
    BY <1>4, CallSorts DEF Call
  <2>2. pc'[c] = "publish" /\ \A v \in Writers \ {c} : pc'[v] = pc[v]
    BY <1>4, <2>1, GotoMoves DEF Call
  <2> QED BY <2>1, <2>2 DEF Locked
<1>5. ASSUME NEW w \in Writers, Begin(w) \/ Submit(w) \/ Recorded(w) \/ Refused(w) PROVE Locked'
  <2>1. \/ lock = None /\ pc[w] = "publish"
        \/ lock = w
    BY <1>5 DEF Begin, Submit, Recorded, Refused, Locked
  <2>2. \/ pc'[w] \in {"flush", "sent"} /\ lock' = w
        \/ pc'[w] = "done" /\ lock' = None
        \/ pc'[w] = "done" /\ UNCHANGED lock /\ lock = None
    BY <1>5, <2>1, GotoMoves DEF Begin, Submit, Recorded, Refused, Refuse
  <2>3. \A v \in Writers \ {w} : pc'[v] = pc[v]
    BY <1>5, GotoMoves DEF Begin, Submit, Recorded, Refused, Refuse
  <2> QED BY <2>1, <2>2, <2>3, CallSorts DEF Locked
<1>6. ASSUME NEW w \in Writers, Serve(w) PROVE Locked'
  BY <1>6 DEF Serve, Locked
<1>7. ASSUME NEW w \in Writers, Cancel(w) PROVE Locked'
  <2>1. pc'[w] = "done" /\ \A v \in Writers \ {w} : pc'[v] = pc[v]
    BY <1>7, GotoMoves DEF Cancel
  <2> QED BY <1>7, <2>1, CallSorts DEF Cancel, Locked
<1> QED BY <1>1, <1>2, <1>3, <1>4, <1>5, <1>6, <1>7 DEF Next, Restart, DieTaking

(* No binding is of an epoch to come: the present one is lost for good by a
   rebind or a restart. *)
LEMMA PastNext == ASSUME TypeOK, Past, [Next]_vars PROVE Past'
<1>1. \A w \in Writers : bound[w] \in Sessions \X Nat /\ bound[w][2] <= epoch /\ epoch \in Nat
  BY DEF Past, TypeOK
<1>2. CASE UNCHANGED <<epoch, bound>>
  BY <1>2 DEF Past
<1>3. CASE epoch' = epoch + 1 /\ UNCHANGED bound
  BY <1>1, <1>3 DEF Past
<1>4. ASSUME NEW w \in Writers, UNCHANGED epoch, bound' = [bound EXCEPT ![w] = <<sid, epoch>>] PROVE Past'
  BY <1>1, <1>4 DEF Past, TypeOK
<1>5. CASE BeginTurn \/ EndTurn \/ Shutdown \/ UNCHANGED vars
  BY <1>2, <1>5 DEF BeginTurn, EndTurn, Shutdown, own, vars
<1>6. CASE Rebind \/ Died
  BY <1>3, <1>6 DEF Rebind, Died, own
<1>7. ASSUME NEW t \in Tasks, Detect(t) PROVE Past'
  BY <1>4, <1>7, WriterSorts DEF Detect, hook
<1>8. ASSUME NEW c \in Calls, Call(c) PROVE Past'
  BY <1>4, <1>8, CallSorts DEF Call, hook
<1>9. ASSUME NEW t \in Tasks, Capture(t) \/ NothingToTake(t) \/ Judge(t) \/ NotReceived(t) \/ Reserve(t) PROVE Past'
  BY <1>2, <1>9 DEF Capture, NothingToTake, Judge, NotReceived, Reserve, hook, own
<1>10. ASSUME NEW w \in Writers, Begin(w) \/ Submit(w) \/ Serve(w) \/ Recorded(w) \/ Refused(w) \/ Cancel(w) PROVE Past'
  BY <1>2, <1>10 DEF Begin, Submit, Serve, Recorded, Refused, Cancel, hook, own
<1> QED BY <1>5, <1>6, <1>7, <1>8, <1>9, <1>10 DEF Next, Restart, DieTaking

(* A call stands from its submission on. *)
LEMMA StandingNext == ASSUME TypeOK, Standing, [Next]_vars PROVE Standing'
<1>1. \A c \in stands : c \in Calls /\ c \in Writers /\ pc[c] \in {"sent", "done"}
  BY CallSorts DEF Standing, TypeOK
<1>2. ASSUME UNCHANGED stands, \A c \in Calls : pc[c] \in {"sent", "done"} => pc'[c] \in {"sent", "done"}
      PROVE  Standing'
  BY <1>1, <1>2 DEF Standing
<1>3. CASE BeginTurn \/ EndTurn \/ Rebind \/ Shutdown \/ UNCHANGED vars
  BY <1>1, <1>3 DEF BeginTurn, EndTurn, Rebind, Shutdown, vars, Standing
<1>4. CASE Died
  BY <1>2, <1>4, CallSorts DEF Died
<1>5. ASSUME NEW t \in Tasks, Detect(t) \/ Capture(t) \/ NothingToTake(t) \/ Judge(t) \/ NotReceived(t) \/ Reserve(t)
      PROVE  Standing'
  <2>1. UNCHANGED stands
    BY <1>5 DEF Detect, Capture, NothingToTake, Judge, NotReceived, Reserve
  <2>2. \A v \in Writers \ {t} : pc'[v] = pc[v]
    BY <1>5, WriterSorts, GotoMoves DEF Detect, Capture, NothingToTake, Judge, NotReceived, Reserve
  <2> QED BY <1>2, <2>1, <2>2, CallSorts
<1>6. ASSUME NEW c \in Calls, Call(c) PROVE Standing'
  <2>1. \A v \in Writers \ {c} : pc'[v] = pc[v]
    BY <1>6, CallSorts, GotoMoves DEF Call
  <2> QED BY <1>2, <1>6, <2>1, CallSorts DEF Call
<1>7. ASSUME NEW w \in Writers, Begin(w) \/ Serve(w) \/ Recorded(w) \/ Cancel(w) PROVE Standing'
  <2>1. UNCHANGED stands
    BY <1>7 DEF Begin, Serve, Recorded, Cancel
  <2>2. pc[w] \in {"sent", "done"} => pc'[w] \in {"sent", "done"}
    BY <1>7, GotoMoves DEF Begin, Serve, Recorded, Cancel
  <2>3. \A v \in Writers \ {w} : pc'[v] = pc[v]
    BY <1>7, GotoMoves DEF Begin, Serve, Recorded, Cancel, Refuse
  <2> QED BY <1>2, <2>1, <2>2, <2>3, CallSorts
<1>8. ASSUME NEW w \in Writers, Submit(w) \/ Refused(w) PROVE Standing'
  <2>1. stands' \subseteq stands \cup {w} /\ pc'[w] \in {"sent", "done"}
    BY <1>8, GotoMoves DEF Submit, Refused, Refuse
  <2>2. \A v \in Writers \ {w} : pc'[v] = pc[v]
    BY <1>8, GotoMoves DEF Submit, Refused, Refuse
  <2> QED BY <1>1, <2>1, <2>2 DEF Standing
<1> QED BY <1>3, <1>4, <1>5, <1>6, <1>7, <1>8 DEF Next, Restart, DieTaking

(* A call is made in one turn, or before the first. *)
LEMMA OneTurnNext == ASSUME TypeOK, OneTurn, [Next]_vars PROVE OneTurn'
<1>1. CASE \A c \in Calls : window'[c] = window[c]
  BY <1>1 DEF OneTurn
<1>2. CASE BeginTurn \/ EndTurn \/ Rebind \/ Shutdown \/ Restart \/ UNCHANGED vars
  BY <1>1, <1>2 DEF BeginTurn, EndTurn, Rebind, Shutdown, Restart, own, vars
<1>3. ASSUME NEW t \in Tasks, Capture(t) \/ DieTaking(t) PROVE OneTurn'
  BY <1>1, <1>3, WriterSorts, CallSorts DEF Capture, DieTaking, Take, TypeOK
<1>4. ASSUME NEW t \in Tasks, Detect(t) \/ NothingToTake(t) \/ Judge(t) \/ NotReceived(t) \/ Reserve(t) PROVE OneTurn'
  BY <1>1, <1>4 DEF Detect, NothingToTake, Judge, NotReceived, Reserve, own
<1>5. ASSUME NEW c \in Calls, Call(c) PROVE OneTurn'
  BY <1>5, CallSorts DEF Call, OneTurn, TypeOK
<1>6. ASSUME NEW w \in Writers, Begin(w) \/ Submit(w) \/ Serve(w) \/ Recorded(w) \/ Refused(w) \/ Cancel(w) PROVE OneTurn'
  BY <1>1, <1>6 DEF Begin, Submit, Serve, Recorded, Refused, Cancel, own
<1> QED BY <1>2, <1>3, <1>4, <1>5, <1>6 DEF Next

-----------------------------------------------------------------------------
(* What is compared are numbers. *)
LEMMA Numbers ==
  ASSUME TypeOK
  PROVE  /\ state.deliberate \in Nat /\ state.generation \in Nat /\ sid \in Sessions
         /\ \A s \in Sessions : journal[s].deliberate \in Nat
         /\ \A w \in Writers : /\ gen[w] \in Nat /\ snapshot[w][1] \in Nat /\ snapshot[w][2] \in Nat
                               /\ Session(w) \in Sessions /\ window[w] \subseteq Nat
         /\ stands \subseteq Calls
BY DEF TypeOK, States, Session, Turns

(* Steps that leave marks and generation alone, but for a task that begins to
   examine turns of which no call that stands was made. *)
LEMMA HeedStay ==
  ASSUME TypeOK, Marked, Noticed, Undone, UNCHANGED <<sid, epoch, snapshot, stands>>,
         state'.deliberate = state.deliberate, state'.generation = state.generation,
         \A s \in Sessions : \/ journal'[s].deliberate = journal[s].deliberate
                             \/ s = sid /\ journal'[s].deliberate = state.deliberate,
         \A c \in stands : bound'[c] = bound[c] /\ window'[c] = window[c],
         \A t \in Tasks : Examining(t)' =>
           \/ Examining(t) /\ gen'[t] = gen[t] /\ bound'[t] = bound[t] /\ window'[t] = window[t]
           \/ /\ gen'[t] = state.generation /\ \A c \in stands : ~ Overlap(c, t)'
              /\ \A w \in Calls : pc'[w] # "sent",
         \A w \in Calls : pc'[w] = "sent" => pc[w] = "sent" /\ bound'[w] = bound[w]
  PROVE  Marked' /\ Noticed' /\ Undone'
<1>1. \A c \in stands : Session(c)' = Session(c) /\ c \in Writers /\ Session(c) \in Sessions
  BY Numbers, CallSorts DEF Session
<1>2. Marked'
  BY <1>1 DEF Marked
<1>3. ASSUME NEW t \in Tasks, Examining(t)', Examining(t), gen'[t] = gen[t], bound'[t] = bound[t], window'[t] = window[t]
      PROVE  \A c \in stands : Overlap(c, t)' => Overlap(c, t)
  BY <1>1, <1>3 DEF Overlap, Session
<1>4. Noticed'
  <2> SUFFICES ASSUME NEW t \in Tasks, Examining(t)'
               PROVE  /\ gen'[t] <= state.generation
                      /\ \A c \in stands : Overlap(c, t)' => gen'[t] < state.generation
    BY DEF Noticed
  <2>1. CASE Examining(t) /\ gen'[t] = gen[t] /\ bound'[t] = bound[t] /\ window'[t] = window[t]
    BY <1>3, <2>1 DEF Noticed
  <2>2. CASE gen'[t] = state.generation /\ \A c \in stands : ~ Overlap(c, t)'
    BY <2>2, Numbers
  <2> QED BY <2>1, <2>2
<1>5. ASSUME NEW w \in Calls, pc'[w] = "sent"
      PROVE  /\ \A c \in stands \ {w} : Session(c)' = Session(w)' => \A i \in window'[c] : i <= snapshot[w][1]
             /\ Bound(w)' => \A t \in Tasks : Examining(t)' =>
                               /\ gen'[t] <= snapshot[w][2]
                               /\ \A c \in stands \ {w} : Overlap(c, t)' => gen'[t] < snapshot[w][2]
  <2>1. pc[w] = "sent" /\ bound'[w] = bound[w]
    BY <1>5
  <2>2. Session(w)' = Session(w) /\ (Bound(w)' => Bound(w))
    BY <2>1 DEF Session, Bound
  <2>3. \A c \in stands \ {w} : Session(c)' = Session(w)' => \A i \in window'[c] : i <= snapshot[w][1]
    BY <1>1, <2>1, <2>2 DEF Undone
  <2>4. ASSUME Bound(w)', NEW t \in Tasks, Examining(t)'
        PROVE  /\ gen'[t] <= snapshot[w][2]
               /\ \A c \in stands \ {w} : Overlap(c, t)' => gen'[t] < snapshot[w][2]
    <3>1. Examining(t) /\ gen'[t] = gen[t] /\ bound'[t] = bound[t] /\ window'[t] = window[t]
      BY <1>5, <2>4
    <3> QED BY <1>3, <2>1, <2>2, <2>4, <3>1 DEF Undone
  <2> QED BY <2>3, <2>4
<1>6. Undone'
  BY <1>5 DEF Undone
<1> QED BY <1>2, <1>4, <1>6

(* After a rebind or a restart nothing is bound to the present state. *)
LEMMA HeedFresh ==
  ASSUME TypeOK, Marked, Undone, Past, sid' \in Sessions, state' = journal'[sid'], epoch' = epoch + 1,
         UNCHANGED <<snapshot, stands, bound>>,
         \A s \in Sessions : \/ journal'[s].deliberate = journal[s].deliberate
                             \/ s = sid /\ journal'[s].deliberate = state.deliberate,
         \A c \in stands : window'[c] = window[c],
         \A w \in Calls : pc'[w] = "sent" => pc[w] = "sent"
  PROVE  Marked' /\ Noticed' /\ Undone'
<1>1. \A w \in Writers : ~ Bound(w)'
  BY DEF Bound, Past, TypeOK
<1>2. \A w : Session(w)' = Session(w)
  BY DEF Session
<1>3. \A c \in stands : c \in Writers /\ Session(c) \in Sessions
  BY Numbers, CallSorts
<1>4. Marked'
  BY <1>2, <1>3 DEF Marked
<1>5. Noticed'
  BY <1>1, WriterSorts DEF Noticed, Examining
<1>6. Undone'
  BY <1>1, <1>2, CallSorts DEF Undone
<1> QED BY <1>4, <1>5, <1>6

LEMMA LatestBound ==
  ASSUME NEW d \in Nat, NEW turns \in SUBSET Nat, \A i, j \in turns : i = j
  PROVE  Latest(d, turns) \in Nat /\ Latest(d, turns) >= d /\ \A i \in turns : Latest(d, turns) >= i
<1>1. CASE \E i \in turns : i > d
  <2>1. (CHOOSE i \in turns : i > d) \in turns /\ (CHOOSE i \in turns : i > d) > d
    BY <1>1
  <2>2. Latest(d, turns) \in turns /\ Latest(d, turns) > d
    BY <1>1, <2>1 DEF Latest
  <2>3. Latest(d, turns) \in Nat /\ \A i \in turns : i = Latest(d, turns)
    BY <2>2
  <2>4. \A i \in turns : Latest(d, turns) >= i
    BY <2>3
  <2> QED BY <2>2, <2>3, <2>4
<1>2. CASE ~ \E i \in turns : i > d
  BY <1>2 DEF Latest
<1> QED BY <1>1, <1>2

(* Submission by a call: the mark now covers its turn, and every task under
   way is behind. *)
LEMMA HeedSubmit ==
  ASSUME TypeOK, DInv, NEW w \in Calls, pc[w] = "flush", Bound(w), Goto(w, "sent"),
         snapshot' = [snapshot EXCEPT ![w] = <<state.deliberate, state.generation>>],
         Commit([state EXCEPT !.generation = @ + 1, !.deliberate = Latest(@, window[w])]),
         stands' = stands \cup {w}, UNCHANGED <<sid, epoch, bound, gen, window>>
  PROVE  Marked' /\ Noticed' /\ Undone'
<1> DEFINE d == state.deliberate  g == state.generation
<1>1. /\ d \in Nat /\ g \in Nat /\ w \in Writers /\ sid \in Sessions
      /\ \A c \in stands \cup {w} : c \in Calls /\ c \in Writers /\ Session(c) \in Sessions
  BY Numbers, CallSorts
<1>2. state' = [state EXCEPT !.generation = @ + 1, !.deliberate = Latest(@, window[w])] /\ journal' = [journal EXCEPT ![sid] = state']
  BY DEF Commit
<1>3. /\ state'.deliberate = Latest(d, window[w]) /\ state'.generation = g + 1
      /\ journal'[sid] = state' /\ \A s \in Sessions \ {sid} : journal'[s] = journal[s]
  BY <1>1, <1>2 DEF TypeOK, States
<1>4. state'.deliberate \in Nat /\ state'.deliberate >= d /\ \A i \in window[w] : i <= state'.deliberate
  <2>1. window[w] \in SUBSET Nat /\ \A i, j \in window[w] : i = j
    BY <1>1, Numbers DEF DInv, OneTurn
  <2> QED BY <1>1, <1>3, <2>1, LatestBound
<1>5. Session(w) = sid /\ \A v : Session(v)' = Session(v) /\ (Bound(v)' <=> Bound(v))
  BY DEF Session, Bound
<1>6. \A c \in stands : \A i \in window[c] : i \in Nat /\ (Session(c) = sid => i <= d)
  BY <1>1, Numbers DEF DInv, Marked
<1>7. pc'[w] = "sent" /\ \A v \in Writers \ {w} : pc'[v] = pc[v] /\ pc[v] \notin {"flush", "sent"}
  BY <1>1, GotoMoves DEF DInv, Locked
<1>8. /\ \A t \in Tasks : Examining(t)' => Examining(t)
      /\ \A c, t : Overlap(c, t)' = Overlap(c, t)
  BY <1>5, <1>7, WriterSorts DEF Examining, Overlap
<1> HIDE DEF d, g
<1>9. Marked'
  <2> SUFFICES ASSUME NEW c \in stands \cup {w}, NEW i \in window[c]
               PROVE  /\ i <= journal'[Session(c)].deliberate
                      /\ Session(c) = sid => i <= state'.deliberate
    BY <1>5 DEF Marked
  <2>1. CASE c = w
    BY <1>3, <1>4, <1>5, <2>1
  <2>2. CASE c \in stands /\ Session(c) = sid
    <3>1. i <= state'.deliberate
      BY <1>1, <1>4, <1>6, <2>2
    <3> QED BY <1>3, <2>2, <3>1
  <2>3. CASE c \in stands /\ Session(c) # sid
    BY <1>1, <1>3, <2>3 DEF DInv, Marked
  <2> QED BY <2>1, <2>2, <2>3
<1>10. ASSUME NEW t \in Tasks, Examining(t)
       PROVE  gen[t] \in Nat /\ gen[t] <= g /\ gen[t] < g + 1 /\ \A c \in stands : Overlap(c, t) => gen[t] < g
  <2>1. gen[t] \in Nat /\ gen[t] <= g /\ \A c \in stands : Overlap(c, t) => gen[t] < g
    BY <1>10, WriterSorts, Numbers DEF DInv, Noticed, g
  <2> QED BY <1>1, <2>1
<1>11. Noticed'
  <2>1. \A t \in Tasks : Examining(t)' => gen[t] <= g + 1 /\ gen[t] < g + 1
    BY <1>1, <1>8, <1>10
  <2> QED BY <1>3, <2>1 DEF Noticed
<1>12. Undone'
  <2> SUFFICES ASSUME NEW v \in Calls, pc'[v] = "sent"
               PROVE  /\ \A c \in (stands \cup {w}) \ {v} : Session(c) = Session(v) => \A i \in window[c] : i <= snapshot'[v][1]
                      /\ \A t \in Tasks : Examining(t)' =>
                           /\ gen[t] <= snapshot'[v][2]
                           /\ \A c \in (stands \cup {w}) \ {v} : Overlap(c, t) => gen[t] < snapshot'[v][2]
    BY <1>5, <1>8 DEF Undone
  <2>1. v = w
    BY <1>7, CallSorts
  <2>2. snapshot'[w][1] = d /\ snapshot'[w][2] = g
    BY <1>1 DEF TypeOK, d, g
  <2> QED BY <1>5, <1>6, <1>8, <1>10, <2>1, <2>2
<1> QED BY <1>9, <1>11, <1>12

(* A call is refused: what it overwrote comes back, in memory only if the
   state is still its own. *)
LEMMA HeedRefused == ASSUME TypeOK, DInv, NEW w \in Calls, Refused(w) PROVE Marked' /\ Noticed' /\ Undone'
<1> DEFINE Restored(s) == [s EXCEPT !.deliberate = snapshot[w][1], !.generation = snapshot[w][2]]
<1>1. /\ w \in Writers /\ sid \in Sessions /\ Session(w) \in Sessions /\ pc[w] = "sent"
      /\ \A c \in stands : c \in Calls /\ c \in Writers /\ Session(c) \in Sessions
  BY Numbers, CallSorts DEF Refused
<1>2. /\ state' = IF Bound(w) THEN Restored(state) ELSE state
      /\ journal' = [journal EXCEPT ![Session(w)] = Restored(journal[Session(w)])]
      /\ stands' = stands \ {w} /\ UNCHANGED <<sid, epoch, bound, gen, window, snapshot>> /\ Goto(w, "done")
  BY DEF Refused, Refuse, own
<1>3. \A s \in States : Restored(s).deliberate = snapshot[w][1] /\ Restored(s).generation = snapshot[w][2]
  BY DEF States
<1>4. /\ journal'[Session(w)].deliberate = snapshot[w][1]
      /\ \A s \in Sessions \ {Session(w)} : journal'[s] = journal[s]
  BY <1>1, <1>2, <1>3 DEF TypeOK
<1>5. \/ Bound(w) /\ state'.deliberate = snapshot[w][1] /\ state'.generation = snapshot[w][2]
      \/ ~ Bound(w) /\ UNCHANGED state
  BY <1>2, <1>3 DEF TypeOK
<1>6. Bound(w) => Session(w) = sid
  BY DEF Session, Bound
<1>7. \A v : Session(v)' = Session(v) /\ (Bound(v)' <=> Bound(v))
  BY <1>2 DEF Session, Bound
<1>8. pc'[w] = "done" /\ \A v \in Writers \ {w} : pc'[v] = pc[v] /\ pc[v] # "sent"
  BY <1>1, <1>2, GotoMoves DEF DInv, Locked
<1>9. /\ \A t \in Tasks : Examining(t)' => Examining(t)
      /\ \A c, t : Overlap(c, t)' = Overlap(c, t)
  BY <1>2, <1>7, <1>8, WriterSorts, CallSorts DEF Examining, Overlap
<1>10. /\ \A c \in stands \ {w} : Session(c) = Session(w) => \A i \in window[c] : i <= snapshot[w][1]
       /\ Bound(w) => \A t \in Tasks : Examining(t) =>
            /\ gen[t] <= snapshot[w][2]
            /\ \A c \in stands \ {w} : Overlap(c, t) => gen[t] < snapshot[w][2]
  BY <1>1 DEF DInv, Undone
<1> HIDE DEF Restored
<1>11. Marked'
  <2> SUFFICES ASSUME NEW c \in stands \ {w}, NEW i \in window[c]
               PROVE  /\ i <= journal'[Session(c)].deliberate
                      /\ Session(c) = sid => i <= state'.deliberate
    BY <1>2, <1>7 DEF Marked
  <2>1. i <= journal[Session(c)].deliberate /\ (Session(c) = sid => i <= state.deliberate)
    BY DEF DInv, Marked
  <2>2. i <= journal'[Session(c)].deliberate
    BY <1>1, <1>4, <1>10, <2>1
  <2>3. Session(c) = sid => i <= state'.deliberate
    BY <1>5, <1>6, <1>10, <2>1
  <2> QED BY <2>2, <2>3
<1>12. Noticed'
  <2>1. \A t \in Tasks : Examining(t) =>
           /\ gen[t] <= state.generation
           /\ \A c \in stands : Overlap(c, t) => gen[t] < state.generation
    BY DEF DInv, Noticed
  <2>2. \A t \in Tasks : Examining(t) =>
           /\ gen[t] <= state'.generation
           /\ \A c \in stands \ {w} : Overlap(c, t) => gen[t] < state'.generation
    BY <1>5, <1>10, <2>1
  <2> QED BY <1>2, <1>9, <2>2 DEF Noticed
<1>13. Undone'
  BY <1>8, CallSorts DEF Undone
<1> QED BY <1>11, <1>12, <1>13

(* A task begins to examine turns above the watermark, and only if the mark
   is not above it. *)
LEMMA HeedCapture == ASSUME TypeOK, DInv, NEW t \in Tasks, Capture(t) PROVE Marked' /\ Noticed' /\ Undone'
<1> DEFINE s == Session(t)  k == kind[t]
<1>1. t \in Writers /\ t \notin Calls /\ s \in Sessions /\ k \in Kinds /\ state \in States
  BY WriterSorts, Numbers DEF TypeOK
<1>2. PICK turns \in SUBSET Turns : Take(t, turns)
  BY DEF Capture
<1>3. /\ lock = None /\ Bound(t) /\ s = sid /\ turns = Unexamined(s, k)
      /\ window'[t] = turns /\ \A v \in Writers \ {t} : window'[v] = window[v]
  BY <1>1, <1>2 DEF Take, Current, Bound, Session, TypeOK
<1>4. \A i \in turns : i \in Nat /\ i > watermark[s][k]
  BY <1>3 DEF Unexamined, Turns
<1>5. /\ state'.deliberate = state.deliberate /\ state'.generation = state.generation
      /\ journal' = [journal EXCEPT ![sid] = state']
  BY <1>1 DEF Capture, Commit, States
<1>6. \A z \in Sessions : \/ journal'[z].deliberate = journal[z].deliberate
                          \/ z = sid /\ journal'[z].deliberate = state.deliberate
  BY <1>5 DEF TypeOK
<1>7. /\ UNCHANGED <<sid, epoch, snapshot, stands, bound>>
      /\ gen' = [gen EXCEPT ![t] = state.generation]
      /\ Goto(t, IF Deliberate(s, k) THEN "done" ELSE "judge")
  BY DEF Capture
<1>8. /\ gen'[t] = state.generation /\ \A v \in Writers \ {t} : gen'[v] = gen[v]
  BY <1>1, <1>7 DEF TypeOK
<1>9. /\ pc'[t] = (IF Deliberate(s, k) THEN "done" ELSE "judge")
      /\ \A v \in Writers \ {t} : pc'[v] = pc[v]
  BY <1>1, <1>7, GotoMoves
<1>10. \A v \in Writers : pc'[v] # "sent"
  BY <1>3, <1>9, CallSorts DEF DInv, Locked
<1>11. \A c \in stands : c \in Writers /\ c # t
  BY <1>1, CallSorts DEF TypeOK
<1>12. ASSUME ~ Deliberate(s, k), NEW c \in stands PROVE ~ Overlap(c, t)'
  <2>1. state.deliberate <= watermark[s][k] /\ state.deliberate \in Nat /\ watermark[s][k] \in Nat
    BY <1>1, <1>12, Numbers DEF Deliberate, TypeOK
  <2>2. Session(c)' = Session(c) /\ Session(t)' = sid /\ window'[c] = window[c]
    BY <1>3, <1>7, <1>11 DEF Session
  <2>3. ASSUME Session(c) = sid PROVE \A i \in window[c] : i \in Nat /\ i <= state.deliberate
    BY <1>11, <2>3, Numbers DEF DInv, Marked
  <2>4. Session(c) = sid => window[c] \cap turns = {}
    BY <1>4, <2>1, <2>3
  <2> QED BY <1>3, <2>2, <2>4 DEF Overlap
<1> HIDE DEF s, k
<1>13. ASSUME NEW u \in Tasks, Examining(u)'
       PROVE  \/ Examining(u) /\ gen'[u] = gen[u] /\ bound'[u] = bound[u] /\ window'[u] = window[u]
              \/ gen'[u] = state.generation /\ \A c \in stands : ~ Overlap(c, u)'
  <2>1. CASE u = t
    <3>1. ~ Deliberate(s, k)
      BY <1>9, <1>13, <2>1 DEF Examining
    <3> QED BY <1>8, <1>12, <2>1, <3>1
  <2>2. CASE u # t
    BY <1>3, <1>7, <1>8, <1>9, <1>13, <2>2, WriterSorts DEF Examining, Bound
  <2> QED BY <2>1, <2>2
<1>14. \A c \in stands : bound'[c] = bound[c] /\ window'[c] = window[c]
  BY <1>3, <1>7, <1>11
<1> QED BY <1>5, <1>6, <1>7, <1>10, <1>13, <1>14, HeedStay, CallSorts DEF DInv

LEMMA HeedNext == ASSUME TypeOK, Taken, DInv, Next PROVE Marked' /\ Noticed' /\ Undone'
<1> USE DEF DInv
<1>1. \A c \in stands : c \in Calls /\ c \in Writers /\ c \notin Tasks /\ pc[c] \in {"sent", "done"}
  BY CallSorts DEF Standing, TypeOK
<1>2. CASE BeginTurn \/ EndTurn
  <2>1. /\ state'.deliberate = state.deliberate /\ state'.generation = state.generation
        /\ journal' = [journal EXCEPT ![sid] = state']
    <3>1. state \in States /\ Finished(state) \in States
      BY FinishedTyped DEF TypeOK
    <3>2. CASE BeginTurn
      BY <3>1, <3>2, FinishedTyped DEF BeginTurn, Commit, States
    <3>3. CASE EndTurn
      BY <3>1, <3>3, FinishedTyped DEF EndTurn, Commit
    <3> QED BY <1>2, <3>2, <3>3
  <2>2. \A s \in Sessions : \/ journal'[s].deliberate = journal[s].deliberate
                            \/ s = sid /\ journal'[s].deliberate = state.deliberate
    BY <2>1 DEF TypeOK
  <2>3. UNCHANGED <<sid, epoch, snapshot, stands, bound, window, gen, pc>>
    BY <1>2 DEF BeginTurn, EndTurn, own
  <2>4. \A t : Examining(t)' => Examining(t)
    BY <2>3 DEF Examining, Bound
  <2> QED BY <2>1, <2>2, <2>3, <2>4, HeedStay
<1>3. ASSUME UNCHANGED <<journal, state, sid, epoch, snapshot, stands, window, gen>>,
             \A c \in stands : bound'[c] = bound[c],
             \A t \in Tasks : Examining(t)' => Examining(t) /\ bound'[t] = bound[t],
             \A c \in Calls : pc'[c] = "sent" => pc[c] = "sent" /\ bound'[c] = bound[c]
      PROVE  Marked' /\ Noticed' /\ Undone'
  BY <1>3, HeedStay
<1>4. ASSUME UNCHANGED <<journal, state, sid, epoch, snapshot, stands, window, gen, bound>>,
             NEW w \in Writers, \A v \in Writers \ {w} : pc'[v] = pc[v],
             w \in Tasks => pc'[w] \in {"sent", "done"} \/ pc[w] \in {"judge", "found", "publish", "flush"},
             w \in Calls => pc'[w] # "sent"
      PROVE  Marked' /\ Noticed' /\ Undone'
  <2>1. \A t \in Tasks : Examining(t)' => Examining(t)
    BY <1>4, WriterSorts DEF Examining, Bound
  <2>2. \A c \in Calls : pc'[c] = "sent" => pc[c] = "sent"
    BY <1>4, CallSorts
  <2> QED BY <1>3, <1>4, <2>1, <2>2
<1>5. CASE Shutdown
  <2>1. UNCHANGED <<journal, state, sid, epoch, snapshot, stands, window, gen, bound, pc>>
    BY <1>5 DEF Shutdown, store, own
  <2>2. \A t : Examining(t)' => Examining(t)
    BY <2>1 DEF Examining, Bound
  <2> QED BY <1>3, <2>1, <2>2
<1>6. CASE Rebind
  <2>1. \A s \in Sessions : \/ journal'[s].deliberate = journal[s].deliberate
                            \/ s = sid /\ journal'[s].deliberate = state.deliberate
    <3>1. Finished(state).deliberate = state.deliberate
      BY FinishedTyped DEF TypeOK
    <3> QED BY <1>6, <3>1 DEF Rebind, TypeOK
  <2>2. sid' \in Sessions /\ sid' # sid /\ state' = journal[sid'] /\ epoch' = epoch + 1
    BY <1>6 DEF Rebind
  <2>3. state' = journal'[sid']
    BY <1>6, <2>2 DEF Rebind, TypeOK
  <2>4. UNCHANGED <<snapshot, stands, bound, window, pc>>
    BY <1>6 DEF Rebind, own
  <2> QED BY <2>1, <2>2, <2>3, <2>4, HeedFresh
<1>7. ASSUME Died, \A c \in stands : window'[c] = window[c] PROVE Marked' /\ Noticed' /\ Undone'
  <2>1. UNCHANGED <<snapshot, stands, bound, journal, sid>> /\ sid \in Sessions /\ state' = journal[sid] /\ epoch' = epoch + 1
    BY <1>7 DEF Died, TypeOK
  <2>2. \A c \in Calls : pc'[c] # "sent"
    BY <1>7, CallSorts DEF Died
  <2> QED BY <1>7, <2>1, <2>2, HeedFresh
<1>8. CASE Restart
  BY <1>7, <1>8 DEF Restart
<1>9. ASSUME NEW t \in Tasks, NEW turns \in SUBSET Turns, Take(t, turns) PROVE \A v \in Writers \ {t} : window'[v] = window[v]
  BY <1>9 DEF Take, TypeOK
<1>10. ASSUME NEW t \in Tasks, DieTaking(t) PROVE Marked' /\ Noticed' /\ Undone'
  BY <1>1, <1>7, <1>9, <1>10 DEF DieTaking
<1>11. ASSUME NEW t \in Tasks, Detect(t) PROVE Marked' /\ Noticed' /\ Undone'
  <2>1. UNCHANGED <<journal, state, sid, epoch, snapshot, stands, window, gen>> /\ t \in Writers
    BY <1>11, WriterSorts DEF Detect, store, hook
  <2>2. pc'[t] = "new" /\ \A v \in Writers \ {t} : pc'[v] = pc[v] /\ bound'[v] = bound[v]
    BY <1>11, <2>1, GotoMoves DEF Detect, TypeOK
  <2>3. \A u \in Tasks : Examining(u)' => Examining(u) /\ bound'[u] = bound[u]
    BY <2>1, <2>2, WriterSorts DEF Examining, Bound
  <2> QED BY <1>1, <1>3, <2>1, <2>2, <2>3, CallSorts
<1>12. ASSUME NEW t \in Tasks, NothingToTake(t) \/ Judge(t) \/ NotReceived(t) \/ Reserve(t) PROVE Marked' /\ Noticed' /\ Undone'
  <2>1. UNCHANGED <<journal, state, sid, epoch, snapshot, stands, window, gen, bound>> /\ t \in Writers /\ t \notin Calls
    BY <1>12, WriterSorts DEF NothingToTake, Judge, NotReceived, Reserve, store, hook, own
  <2>2. pc'[t] = "done" \/ pc[t] \in {"judge", "found"}
    BY <1>12, <2>1, GotoMoves DEF NothingToTake, Judge, NotReceived, Reserve
  <2>3. \A v \in Writers \ {t} : pc'[v] = pc[v]
    BY <1>12, <2>1, GotoMoves DEF NothingToTake, Judge, NotReceived, Reserve
  <2> QED BY <1>4, <2>1, <2>2, <2>3
<1>13. ASSUME NEW c \in Calls, Call(c) PROVE Marked' /\ Noticed' /\ Undone'
  <2>1. /\ UNCHANGED <<journal, state, sid, epoch, snapshot, stands, gen>> /\ c \in Writers /\ pc[c] = "idle"
        /\ \A v \in Writers \ {c} : bound'[v] = bound[v] /\ window'[v] = window[v]
    BY <1>13, CallSorts DEF Call, store, hook, TypeOK
  <2>2. pc'[c] = "publish" /\ \A v \in Writers \ {c} : pc'[v] = pc[v]
    BY <1>13, <2>1, GotoMoves DEF Call
  <2>3. \A t \in Tasks : Examining(t)' => Examining(t) /\ bound'[t] = bound[t] /\ window'[t] = window[t]
    BY <2>1, <2>2, WriterSorts DEF Examining, Bound
  <2>4. \A v \in Calls : pc'[v] = "sent" => pc[v] = "sent" /\ bound'[v] = bound[v]
    BY <2>1, <2>2, CallSorts
  <2>5. \A v \in stands : bound'[v] = bound[v] /\ window'[v] = window[v]
    BY <1>1, <2>1
  <2> QED BY <2>1, <2>3, <2>4, <2>5, HeedStay
<1>14. ASSUME NEW t \in Tasks, Capture(t) PROVE Marked' /\ Noticed' /\ Undone'
  BY <1>14, HeedCapture
<1>15. ASSUME NEW w \in Writers, Begin(w) \/ Serve(w) \/ Recorded(w) \/ Cancel(w) PROVE Marked' /\ Noticed' /\ Undone'
  <2>1. UNCHANGED <<journal, state, sid, epoch, snapshot, stands, window, gen, bound>>
    BY <1>15 DEF Begin, Serve, Recorded, Cancel, store, hook, own
  <2>2. CASE Serve(w)
    BY <1>3, <2>1, <2>2 DEF Serve, Examining, Bound
  <2>3. CASE Begin(w) \/ Recorded(w) \/ Cancel(w)
    <3>1. \/ pc'[w] = "done"
          \/ pc[w] = "publish" /\ pc'[w] = "flush"
      BY <2>3, GotoMoves DEF Begin, Recorded, Cancel, Refuse
    <3>2. \A v \in Writers \ {w} : pc'[v] = pc[v]
      BY <2>3, GotoMoves DEF Begin, Recorded, Cancel, Refuse
    <3> QED BY <1>4, <2>1, <3>1, <3>2
  <2> QED BY <1>15, <2>2, <2>3
<1>16. ASSUME NEW w \in Writers, Submit(w) PROVE Marked' /\ Noticed' /\ Undone'
  <2>1. UNCHANGED <<sid, epoch, bound, gen, window>> /\ pc[w] = "flush"
    BY <1>16 DEF Submit
  <2>2. CASE w \in Calls /\ MayRecord(w) /\ Goto(w, "sent")
             /\ snapshot' = [snapshot EXCEPT ![w] = <<state.deliberate, state.generation>>]
             /\ Commit([state EXCEPT !.generation = @ + 1, !.deliberate = Latest(@, window[w])])
             /\ stands' = stands \cup {w}
    BY <2>1, <2>2, HeedSubmit DEF MayRecord, Current
  <2>3. CASE UNCHANGED <<journal, state, snapshot, stands>> /\ (Refuse(w) \/ (w \notin Calls /\ Goto(w, "sent")))
    <3>1. pc'[w] = "done" \/ (w \notin Calls /\ pc'[w] = "sent")
      BY <2>3, GotoMoves DEF Refuse
    <3>2. \A v \in Writers \ {w} : pc'[v] = pc[v]
      BY <2>3, GotoMoves DEF Refuse
    <3> QED BY <1>4, <2>1, <2>3, <3>1, <3>2
  <2> QED BY <1>16, <2>2, <2>3 DEF Submit
<1>17. ASSUME NEW w \in Writers, Refused(w) PROVE Marked' /\ Noticed' /\ Undone'
  <2>1. CASE w \in Calls
    BY <1>17, <2>1, HeedRefused
  <2>2. CASE w \notin Calls
    <3>1. UNCHANGED <<journal, state, sid, epoch, snapshot, window, gen, bound>> /\ Refuse(w)
      BY <1>17, <2>2 DEF Refused, own
    <3>2. UNCHANGED stands
      BY <1>1, <1>17, <2>2 DEF Refused
    <3>3. pc'[w] = "done" /\ \A v \in Writers \ {w} : pc'[v] = pc[v]
      BY <3>1, GotoMoves DEF Refuse
    <3> QED BY <1>4, <2>2, <3>1, <3>2, <3>3
  <2> QED BY <2>1, <2>2
<1> QED BY <1>2, <1>5, <1>6, <1>8, <1>10, <1>11, <1>12, <1>13, <1>14, <1>15, <1>16, <1>17 DEF Next

LEMMA InitDInv == Init => DInv
<1> SUFFICES ASSUME Init PROVE DInv
  OBVIOUS
<1>1. Locked
  BY CallSorts DEF Init, Locked
<1>2. Past
  BY DEF Init, Past
<1>3. Standing /\ OneTurn /\ Marked /\ Undone
  BY CallSorts DEF Init, Standing, OneTurn, Marked, Undone
<1>4. Noticed
  BY WriterSorts DEF Init, Noticed, Examining
<1> QED BY <1>1, <1>2, <1>3, <1>4 DEF DInv

LEMMA NextDInv == IInv /\ DInv /\ [Next]_vars => DInv'
<1> SUFFICES ASSUME IInv, DInv, [Next]_vars PROVE DInv'
  OBVIOUS
<1>1. Locked' /\ Past' /\ Standing' /\ OneTurn'
  BY LockedNext, PastNext, StandingNext, OneTurnNext DEF IInv, DInv
<1>2. CASE Next
  BY <1>1, <1>2, HeedNext DEF IInv, DInv
<1>3. CASE UNCHANGED vars
  <2>1. UNCHANGED <<journal, state, sid, epoch, snapshot, stands, window, gen, bound, pc>>
    BY <1>3 DEF vars
  <2>2. \A t : Examining(t)' => Examining(t)
    BY <2>1 DEF Examining, Bound
  <2>3. Marked' /\ Noticed' /\ Undone'
    BY <2>1, <2>2, HeedStay DEF IInv, DInv
  <2> QED BY <1>1, <2>3 DEF DInv
<1> QED BY <1>2, <1>3

(* A request that sets out is that of a task which is not behind. *)
LEMMA HeededStep ==
  ASSUME IInv, DInv, [Next]_vars, NEW t \in Tasks, t \in flying' \ flying, NEW c \in stands, Session(c) = Session(t)
  PROVE  window[c] \cap window[t] = {}
<1>1. flying' # flying
  OBVIOUS
<1>2. PICK w \in Writers : Submit(w) \/ Serve(w) \/ Recorded(w) \/ Refused(w)
  BY <1>1, Zenon DEF Next, BeginTurn, EndTurn, Rebind, Shutdown, Restart, DieTaking, Died, Detect, Capture, NothingToTake,
                Judge, NotReceived, Reserve, Call, Begin, Cancel, wire, vars
<1>3. Submit(w) /\ w = t /\ MayRecord(t)
  BY <1>2 DEF Submit, Serve, Recorded, Refused
<1>4. Examining(t) /\ state.generation = gen[t] /\ gen[t] \in Nat
  BY <1>3, WriterSorts, Numbers DEF Submit, MayRecord, Current, Examining, IInv
<1> QED BY <1>4 DEF DInv, Noticed, Overlap

LEMMA AlwaysDInv == Spec => []DInv
BY InitDInv, NextDInv, AlwaysIInv, PTL DEF Spec

-----------------------------------------------------------------------------
(* The session's state, the journal, the tables and all that tasks and calls
   hold keep their types; a claim is there when its fingerprint is taken. *)
THEOREM TypeCorrect == Spec => []TypeOK
<1>1. IInv => TypeOK
  BY DEF IInv
<1> QED BY <1>1, AlwaysIInv, PTL

(* No detector examines a turn twice, however tasks, rebinds and deaths fall
   between the watermark and the saved state (_capture_detection_window). *)
THEOREM ExaminedOnceAlways == Spec => []ExaminedOnce
<1>1. IInv => ExaminedOnce
  BY DEF IInv
<1> QED BY <1>1, AlwaysIInv, PTL

(* A claim that is published, or may still be, keeps its fingerprint, and no
   other task has the same (Recorder.handle). *)
THEOREM OncePerClaimAlways == Spec => []OncePerClaim
<1>1. IInv => OncePerClaim
  BY DEF IInv, OncePerClaim, Underway, Holds, Kept, Unshared
<1> QED BY <1>1, AlwaysIInv, PTL

(* No task submits turns in which the session has recorded something itself:
   the mark keeps it from capturing them, and the generation from publishing
   what it captured before, whatever is refused, cancelled or exchanged in
   between (RecordInsightTool, deliberate_changed). *)
THEOREM DeliberateFirstAlways == Spec => DeliberateFirst
<1>1. ASSUME IInv, DInv, [Next]_vars
      PROVE  [\A t \in Tasks : t \in flying' \ flying =>
                \A c \in stands : Session(c) = Session(t) => window[c] \cap window[t] = {}]_vars
  BY <1>1, HeededStep
<1> QED BY <1>1, AlwaysIInv, AlwaysDInv, PTL DEF Spec, DeliberateFirst

=============================================================================
