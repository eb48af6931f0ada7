---------------------------- MODULE FilingProofs ----------------------------
(***************************************************************************)
(* Proofs about filing: every variable keeps its type whatever happens;    *)
(* and, where a rebind waits for the threads of its hook, a message that   *)
(* counts as filed is in the queue of its project, it is filed there once  *)
(* and once more at most for each death and each overlap, and a process    *)
(* alone on its machine, whose threads never overlap, mixes no two         *)
(* projects in one queue.                                                  *)
(*                                                                         *)
(* Each invariant speaks of one hook or one thread at a time.  A step of   *)
(* thread t of hook h, Act(h, t), is shown to keep it for that thread,     *)
(* action by action; the other threads keep what is their own (Aside) and  *)
(* the other hooks all they have (Apart), and the copies in the tracker    *)
(* only grow (Grows).  Shift(h) is a step of the hook itself.              *)
(***************************************************************************)
EXTENDS Filing, FiniteSetTheorems, WellFoundedInduction, TLAPS

-----------------------------------------------------------------------------
(* Where a thread may stand. *)
Points == {"idle", "retry", "pending", "file", "added", "mirror", "answer"} \cup Naming

LEMMA BoundsAreNumbers ==
  /\ MaxCrashes \in Nat /\ MaxRebinds \in Nat /\ MaxOverlaps \in Nat
  /\ IsFiniteSet(Threads) /\ Of \in [Threads -> Hooks]
  /\ REPORT_BATCH \in Nat \ {0} /\ MIRROR_MAX_ATTEMPTS \in Nat \ {0}
  /\ Messages \subseteq Nat /\ NoName \notin Names
  /\ normalise \in [Projects -> Names] /\ To \in [Messages -> Hooks \X Projects]
BY FilingAssumption, NamesAssumption

LEMMA FirstOne ==
  ASSUME NEW S \in SUBSET Nat, S # {}
  PROVE  \E m \in S : \A k \in S : m <= k
<1>1. IsWellFoundedOn(OpToRel(<, Nat), Nat)
  BY NatLessThanWellFounded
<1>2. PICK m \in S : \A k \in S : ~ (<<k, m>> \in OpToRel(<, Nat))
  <2> HIDE DEF OpToRel
  <2> QED BY <1>1, WFMin
<1>3. \A k \in S : ~ (k < m)
  BY <1>2 DEF OpToRel
<1> QED BY <1>3

LEMMA CurrentIsThere == ASSUME TypeOK, NEW t \in Threads, todo[t] # {} PROVE Current(t) \in todo[t]
<1>1. todo[t] \in SUBSET Nat
  BY BoundsAreNumbers DEF TypeOK
<1>2. \E m \in todo[t] : \A k \in todo[t] : m <= k
  BY <1>1, FirstOne
<1> QED BY <1>2 DEF Current

LEMMA FirstIsPart == \A S : First(S) \subseteq S
BY DEF First

LEMMA NoMarksTyped == NoMark \in Marks /\ NoMarks \in [Messages -> Marks] /\ \A m \in Messages : NoMarks[m].filed = "no"
BY BoundsAreNumbers DEF NoMarks, NoMark, Marks

LEMMA MarkTyped ==
  ASSUME NEW marks \in [Messages -> Marks], NEW m \in Messages
  PROVE  /\ \A f \in {"no", "filed", "refused", "unknown"} :
              /\ [marks EXCEPT ![m].filed = f] \in [Messages -> Marks]
              /\ [marks EXCEPT ![m].filed = f][m].filed = f
              /\ \A k \in Messages : k # m => [marks EXCEPT ![m].filed = f][k] = marks[k]
         /\ [marks EXCEPT ![m].mirror = "mirrored"] \in [Messages -> Marks]
         /\ \A k \in Messages : [marks EXCEPT ![m].mirror = "mirrored"][k].filed = marks[k].filed
         /\ [marks EXCEPT ![m] = AfterFailure(@)] \in [Messages -> Marks]
         /\ \A k \in Messages : [marks EXCEPT ![m] = AfterFailure(@)][k].filed = marks[k].filed
<1>0. marks[m] \in Marks
  OBVIOUS
<1>1. \A f \in {"no", "filed", "refused", "unknown"} :
         /\ [marks EXCEPT ![m].filed = f] \in [Messages -> Marks]
         /\ [marks EXCEPT ![m].filed = f][m].filed = f
         /\ \A k \in Messages : k # m => [marks EXCEPT ![m].filed = f][k] = marks[k]
  BY <1>0 DEF Marks
<1>2. /\ [marks EXCEPT ![m].mirror = "mirrored"] \in [Messages -> Marks]
      /\ \A k \in Messages : [marks EXCEPT ![m].mirror = "mirrored"][k].filed = marks[k].filed
  BY <1>0 DEF Marks
<1>3. AfterFailure(marks[m]) \in Marks /\ AfterFailure(marks[m]).filed = marks[m].filed
  <2> DEFINE mark == marks[m]
  <2>1. mark \in Marks /\ MIRROR_MAX_ATTEMPTS \in Nat \ {0} /\ mark.tries \in 0 .. MIRROR_MAX_ATTEMPTS - 1
    BY <1>0, BoundsAreNumbers DEF Marks
  <2> HIDE DEF mark
  <2>2. CASE mark.tries + 1 >= MIRROR_MAX_ATTEMPTS
    <3>1. AfterFailure(mark) = [mark EXCEPT !.mirror = "gave_up", !.tries = 0]
      BY <2>2 DEF AfterFailure
    <3>2. 0 \in 0 .. MIRROR_MAX_ATTEMPTS - 1
      BY <2>1
    <3> QED BY <2>1, <3>1, <3>2 DEF Marks, mark
  <2>3. CASE ~ (mark.tries + 1 >= MIRROR_MAX_ATTEMPTS)
    <3>1. AfterFailure(mark) = [mark EXCEPT !.tries = @ + 1]
      BY <2>3 DEF AfterFailure
    <3>2. mark.tries + 1 \in 0 .. MIRROR_MAX_ATTEMPTS - 1
      BY <2>1, <2>3
    <3> QED BY <2>1, <3>1, <3>2 DEF Marks, mark
  <2> QED BY <2>2, <2>3
<1>4. [marks EXCEPT ![m] = AfterFailure(@)] = [marks EXCEPT ![m] = AfterFailure(marks[m])]
  OBVIOUS
<1>5. /\ [marks EXCEPT ![m] = AfterFailure(marks[m])] \in [Messages -> Marks]
      /\ \A k \in Messages : [marks EXCEPT ![m] = AfterFailure(marks[m])][k].filed = marks[k].filed
  <2> DEFINE new == AfterFailure(marks[m])
  <2>1. new \in Marks /\ new.filed = marks[m].filed
    BY <1>3
  <2> HIDE DEF new
  <2>2. [marks EXCEPT ![m] = new][m] = new /\ \A k \in Messages : k # m => [marks EXCEPT ![m] = new][k] = marks[k]
    OBVIOUS
  <2>3. [marks EXCEPT ![m] = new] \in [Messages -> Marks]
    BY <2>1
  <2>4. ASSUME NEW k \in Messages PROVE [marks EXCEPT ![m] = new][k].filed = marks[k].filed
    <3>1. CASE k = m
      BY <2>1, <2>2, <3>1
    <3>2. CASE k # m
      BY <2>2, <3>2
    <3> QED BY <3>1, <3>2
  <2>5. \A k \in Messages : [marks EXCEPT ![m] = new][k].filed = marks[k].filed
    BY <2>4
  <2> QED BY <2>3, <2>5 DEF new
<1> QED BY <1>1, <1>2, <1>4, <1>5

(* The marks of hook h become `marks`, saved or not. *)
LEMMA MarksGo ==
  ASSUME TypeOK, NEW h \in Hooks, NEW marks \in [Messages -> Marks], Remember(h, marks) \/ SaveMarks(h, marks)
  PROVE  /\ mem' \in [Hooks -> [Messages -> Marks]]
         /\ jour' \in [Hooks -> [Projects -> [Messages -> Marks]]]
         /\ mem'[h] = marks /\ \A g \in Hooks : g # h => mem'[g] = mem[g] /\ jour'[g] = jour[g]
         /\ \A p \in Projects : jour'[h][p] = jour[h][p] \/ (p = bind[h] /\ jour'[h][p] = marks)
         /\ SaveMarks(h, marks) => jour'[h][bind[h]] = marks
<1>1. /\ mem \in [Hooks -> [Messages -> Marks]] /\ bind[h] \in Projects
      /\ jour \in [Hooks -> [Projects -> [Messages -> Marks]]]
  BY DEF TypeOK
<1>2. mem' = [mem EXCEPT ![h] = marks] /\ (jour' = jour \/ jour' = [jour EXCEPT ![h][bind[h]] = marks])
      /\ (SaveMarks(h, marks) => jour' = [jour EXCEPT ![h][bind[h]] = marks])
  BY DEF Remember, SaveMarks
<1>3. mem' \in [Hooks -> [Messages -> Marks]] /\ mem'[h] = marks /\ \A g \in Hooks : g # h => mem'[g] = mem[g]
  BY <1>1, <1>2
<1>4. CASE jour' = jour
  BY <1>1, <1>2, <1>3, <1>4
<1>5. CASE jour' = [jour EXCEPT ![h][bind[h]] = marks]
  <2>1. jour'[h] = [jour[h] EXCEPT ![bind[h]] = marks] /\ \A g \in Hooks : g # h => jour'[g] = jour[g]
    BY <1>1, <1>5
  <2>2. jour'[h] \in [Projects -> [Messages -> Marks]]
    BY <1>1, <2>1
  <2>3. jour' \in [Hooks -> [Projects -> [Messages -> Marks]]]
    BY <1>1, <1>5, <2>2
  <2> QED BY <1>1, <1>3, <2>1, <2>3
<1> QED BY <1>2, <1>4, <1>5

LEMMA InitTyped == Init => TypeOK
<1> SUFFICES ASSUME Init PROVE TypeOK
  OBVIOUS
<1>1. NamesTypeOK
  BY DEF Init, NamesInit, NamesTypeOK, Registry, EmptyRegistry
<1>2. /\ jour \in [Hooks -> [Projects -> [Messages -> Marks]]]
      /\ mem \in [Hooks -> [Messages -> Marks]]
  BY NoMarksTyped DEF Init
<1>3. batch \in [Threads -> Projects] /\ bind \in [Hooks -> Projects]
  BY BoundsAreNumbers DEF Init
<1>4. /\ crashes \in 0 .. MaxCrashes /\ rebinds \in 0 .. MaxRebinds /\ overlaps \in 0 .. MaxOverlaps
      /\ tracker \in [Names -> [Messages -> Nat]] /\ shared \subseteq Messages \X Projects
  BY BoundsAreNumbers DEF Init
<1>5. /\ cache \in [Hooks -> SUBSET Messages] /\ todo \in [Threads -> SUBSET Messages]
      /\ name \in [Hooks -> Names \cup {NoName}] /\ pc \in [Threads -> Points]
      /\ back \in [Threads -> {"retry", "file"}]
      /\ result \in [Threads -> {"ok", "error", "conflict", "forbidden"}]
      /\ known \in [Hooks -> BOOLEAN] /\ said \in [Hooks -> BOOLEAN] /\ calm \in BOOLEAN
  BY DEF Init, Points
<1> QED BY <1>1, <1>2, <1>3, <1>4, <1>5 DEF TypeOK, Points

LEMMA Gone ==
  ASSUME TypeOK, NEW t \in Threads, NEW label \in Points, Goto(t, label)
  PROVE  pc' \in [Threads -> Points] /\ pc'[t] = label /\ \A u \in Threads : u # t => pc'[u] = pc[u]
BY DEF TypeOK, Goto, Points

LEMMA Advanced ==
  ASSUME TypeOK, NEW t \in Threads, NEW label \in Points, Advance(t, label)
  PROVE  /\ pc' \in [Threads -> Points] /\ pc'[t] = label /\ \A u \in Threads : u # t => pc'[u] = pc[u]
         /\ todo' \in [Threads -> SUBSET Messages] /\ todo'[t] = todo[t] \ {Current(t)}
         /\ \A u \in Threads : u # t => todo'[u] = todo[u]
<1>1. Goto(t, label) /\ todo' = [todo EXCEPT ![t] = todo[t] \ {Current(t)}]
  BY DEF Advance
<1>2. todo \in [Threads -> SUBSET Messages]
  BY DEF TypeOK
<1> QED BY <1>1, <1>2, Gone

LEMMA Rested ==
  ASSUME TypeOK, NEW t \in Threads, Rest(t)
  PROVE  /\ pc' \in [Threads -> Points] /\ pc'[t] = "idle" /\ \A u \in Threads : u # t => pc'[u] = pc[u]
         /\ todo' \in [Threads -> SUBSET Messages] /\ todo'[t] = {}
         /\ \A u \in Threads : u # t => todo'[u] = todo[u]
BY Gone DEF Rest, TypeOK, Points

LEMMA Returned ==
  ASSUME TypeOK, NEW t \in Threads, Return(t)
  PROVE  /\ pc' \in [Threads -> Points] /\ pc'[t] = back[t] /\ \A u \in Threads : u # t => pc'[u] = pc[u]
         /\ todo' \in [Threads -> SUBSET Messages] /\ todo'[t] = todo[t] \ {Current(t)}
         /\ \A u \in Threads : u # t => todo'[u] = todo[u]
         /\ back' \in [Threads -> {"retry", "file"}] /\ back'[t] = "retry"
<1>1. back \in [Threads -> {"retry", "file"}] /\ back[t] \in Points
  BY DEF TypeOK, Points
<1> QED BY <1>1, Advanced DEF Return

LEMMA StateTyped ==
  ASSUME TypeOK, UNCHANGED state
  PROVE  mem' \in [Hooks -> [Messages -> Marks]] /\ jour' \in [Hooks -> [Projects -> [Messages -> Marks]]]
BY DEF TypeOK, state

LEMMA TypedNames == ASSUME TypeOK, UNCHANGED names PROVE NamesTypeOK'
BY DEF TypeOK, NamesTypeOK, names

LEMMA StartTyped ==
  ASSUME TypeOK, NEW h \in Hooks, NEW t \in Threads, Starts(h, t)
  PROVE  overlaps' \in 0 .. MaxOverlaps /\ UNCHANGED <<calm, crashes, rebinds>>
BY BoundsAreNumbers DEF Starts, TypeOK

LEMMA TurnTyped == ASSUME TypeOK, NEW h \in Hooks, NEW t \in Threads, Turn(h, t) PROVE TypeOK'
<1>1. First(outstanding(h)) \subseteq Messages
  BY FirstIsPart DEF outstanding
<1>2. PICK C \in SUBSET Messages, k \in BOOLEAN :
        cache' = [cache EXCEPT ![h] = C] /\ known' = [known EXCEPT ![h] = k]
  BY DEF Turn, Addressed
<1>3. mem' \in [Hooks -> [Messages -> Marks]] /\ jour' \in [Hooks -> [Projects -> [Messages -> Marks]]]
  <2>1. mem[h] \in [Messages -> Marks]
    BY DEF TypeOK
  <2> QED BY <2>1, MarksGo DEF Turn
<1>4. overlaps' \in 0 .. MaxOverlaps /\ UNCHANGED <<calm, crashes, rebinds>>
  BY StartTyped DEF Turn
<1>5. pc' \in [Threads -> Points]
  BY Gone DEF Turn, Points
<1>6. /\ cache' \in [Hooks -> SUBSET Messages] /\ known' \in [Hooks -> BOOLEAN]
      /\ batch' \in [Threads -> Projects] /\ todo' \in [Threads -> SUBSET Messages]
      /\ result' \in [Threads -> {"ok", "error", "conflict", "forbidden"}]
  BY <1>1, <1>2 DEF Turn, TypeOK
<1> QED BY <1>3, <1>4, <1>5, <1>6, TypedNames DEF Turn, Points, TypeOK, binding

LEMMA ResolveTyped == ASSUME TypeOK, NEW h \in Hooks, NEW t \in Threads, Resolve(h, t) PROVE TypeOK'
<1>1. overlaps' \in 0 .. MaxOverlaps /\ UNCHANGED <<calm, crashes, rebinds>>
  BY StartTyped DEF Resolve
<1>2. pc' \in [Threads -> Points]
  BY Gone DEF Resolve, Points, Naming
<1>3. /\ batch' \in [Threads -> Projects] /\ todo' \in [Threads -> SUBSET Messages]
      /\ result' \in [Threads -> {"ok", "error", "conflict", "forbidden"}]
  BY DEF Resolve, TypeOK
<1> QED BY <1>1, <1>2, <1>3, StateTyped, TypedNames DEF Resolve, Points, TypeOK, inbox, state, binding

LEMMA RetryTyped == ASSUME TypeOK, NEW h \in Hooks, NEW t \in Threads, Retry(h, t) PROVE TypeOK'
<1>1. /\ pc' \in [Threads -> Points]
      /\ todo' \in [Threads -> SUBSET Messages] /\ back' \in [Threads -> {"retry", "file"}]
  <2>1. CASE Advance(t, "retry") /\ UNCHANGED back
    BY <2>1, Advanced DEF TypeOK, Points
  <2>2. CASE Goto(t, "pending") /\ UNCHANGED <<todo, back>>
    BY <2>2, Gone DEF TypeOK, Points
  <2>3. CASE Goto(t, "mirror") /\ back' = [back EXCEPT ![t] = "retry"] /\ UNCHANGED todo
    BY <2>3, Gone DEF TypeOK, Points
  <2> QED BY <2>1, <2>2, <2>3 DEF Retry
<1> QED BY <1>1, StateTyped, TypedNames DEF Retry, Points, TypeOK, inbox, state, binding, world

LEMMA PendingTyped == ASSUME TypeOK, NEW h \in Hooks, NEW t \in Threads, Pending(h, t) PROVE TypeOK'
<1>1. First(unfiled(h)) \subseteq Messages
  BY FirstIsPart DEF unfiled, Addressed
<1>2. /\ pc' \in [Threads -> Points]
      /\ todo' \in [Threads -> SUBSET Messages] /\ batch' \in [Threads -> Projects]
  BY <1>1 DEF Pending, Goto, TypeOK, Naming, Points
<1> QED BY <1>2, StateTyped, TypedNames DEF Pending, Points, TypeOK, inbox, state, binding, world

LEMMA BindNameTyped == ASSUME TypeOK, NEW h \in Hooks, NEW t \in Threads, BindName(h, t) PROVE TypeOK'
<1>1. pc' \in [Threads -> Points] /\ todo' \in [Threads -> SUBSET Messages]
  <2>1. Rest(t) \/ ((Goto(t, "probe") \/ Goto(t, "claim")) /\ UNCHANGED todo)
    BY DEF BindName
  <2>2. CASE Rest(t)
    BY <2>2, Rested DEF TypeOK, Points
  <2>3. CASE Goto(t, "probe") /\ UNCHANGED todo
    BY <2>3, Gone DEF TypeOK, Points, Naming
  <2>4. CASE Goto(t, "claim") /\ UNCHANGED todo
    BY <2>4, Gone DEF TypeOK, Points, Naming
  <2> QED BY <2>1, <2>2, <2>3, <2>4
<1>2. NamesTypeOK'
  BY DEF BindName, ReadRegistry, names, TypeOK, NamesTypeOK
<1> QED BY <1>1, <1>2, StateTyped DEF BindName, Points, TypeOK, inbox, state, binding, world

LEMMA ClaimNameTyped ==
  ASSUME TypeOK, NEW h \in Hooks, NEW t \in Threads, pc[t] = "write" => asked[t] \in Projects, ClaimName(h, t)
  PROVE  TypeOK'
<1>1. pc' \in [Threads -> Points]
  BY DEF ClaimName, Goto, TypeOK, Naming, Points
<1>2. NamesTypeOK'
  <2>1. CASE TruncateRegistry
    BY <2>1 DEF TruncateRegistry, TypeOK, NamesTypeOK, Registry, EmptyRegistry
  <2>2. CASE pc[t] = "write" /\ WriteRegistry(t)
    <3>1. registry' = [read[t] EXCEPT ![normalise[asked[t]]] = asked[t]] /\ UNCHANGED <<asked, read>>
      BY <2>2 DEF WriteRegistry
    <3>2. read[t] \in Registry /\ asked[t] \in Projects
      BY <2>2 DEF TypeOK, NamesTypeOK
    <3>3. registry' \in Registry
      BY <3>1, <3>2 DEF Registry
    <3> QED BY <3>1, <3>3 DEF TypeOK, NamesTypeOK
  <2> QED BY <2>1, <2>2 DEF ClaimName
<1> QED BY <1>1, <1>2, StateTyped DEF ClaimName, Points, TypeOK, thread, inbox, state, binding, world

LEMMA ProbeTyped == ASSUME TypeOK, NEW h \in Hooks, NEW t \in Threads, Probe(h, t) PROVE TypeOK'
<1>1. /\ pc' \in [Threads -> Points] /\ todo' \in [Threads -> SUBSET Messages]
      /\ name' \in [Hooks -> Names \cup {NoName}]
  <2>1. bind[h] \in Projects /\ normalise[bind[h]] \in Names
    BY BoundsAreNumbers DEF TypeOK
  <2>2. Rest(t) \/ ((Goto(t, "file") \/ Goto(t, "idle")) /\ UNCHANGED todo)
    BY DEF Probe
  <2>3. name' = name \/ name' = [name EXCEPT ![h] = normalise[bind[h]]]
    BY DEF Probe
  <2> QED BY <2>1, <2>2, <2>3, Gone, Rested DEF TypeOK, Points
<1>2. NamesTypeOK'
  BY DEF Probe, CloseRegistry, EmptyRegistry, Registry, TypeOK, NamesTypeOK
<1> QED BY <1>1, <1>2, StateTyped DEF Probe, Points, TypeOK, inbox, state, world

LEMMA FileTyped == ASSUME TypeOK, NEW h \in Hooks, NEW t \in Threads, File(h, t) PROVE TypeOK'
<1>1. /\ pc' \in [Threads -> Points]
      /\ todo' \in [Threads -> SUBSET Messages]
      /\ result' \in [Threads -> {"ok", "error", "conflict", "forbidden"}]
  <2>1. \/ Goto(t, "idle") /\ UNCHANGED todo
        \/ Goto(t, "added") /\ UNCHANGED todo
        \/ Advance(t, "file") \/ Rest(t)
    BY Zenon DEF File
  <2>2. pc' \in [Threads -> Points] /\ todo' \in [Threads -> SUBSET Messages]
    BY <2>1, Gone, Advanced, Rested DEF TypeOK, Points
  <2>3. result' \in [Threads -> {"ok", "error", "conflict", "forbidden"}]
    BY DEF File, TypeOK
  <2> QED BY <2>2, <2>3
<1>2. tracker' \in [Names -> [Messages -> Nat]]
  <2>1. CASE tracker' = tracker
    BY <2>1 DEF TypeOK
  <2>2. CASE tracker' # tracker
    <3>1. /\ tracker' = [tracker EXCEPT ![name[h]][Current(t)] = @ + 1]
          /\ todo[t] # {} /\ name[h] # NoName
      BY <2>2 DEF File
    <3>2. Current(t) \in Messages /\ name[h] \in Names
      BY <3>1, CurrentIsThere DEF TypeOK
    <3> QED BY <3>1, <3>2 DEF TypeOK
  <2> QED BY <2>1, <2>2
<1>3. mem' \in [Hooks -> [Messages -> Marks]] /\ jour' \in [Hooks -> [Projects -> [Messages -> Marks]]]
  <2>1. CASE UNCHANGED state
    BY <2>1, StateTyped
  <2>2. CASE SaveMarks(h, mem[h])
    <3>1. mem[h] \in [Messages -> Marks]
      BY DEF TypeOK
    <3> QED BY <2>2, <3>1, MarksGo
  <2>3. CASE todo[t] # {} /\ Remember(h, [mem[h] EXCEPT ![Current(t)].filed = "refused"])
    <3>1. mem[h] \in [Messages -> Marks] /\ Current(t) \in Messages
      BY <2>3, CurrentIsThere DEF TypeOK
    <3>2. [mem[h] EXCEPT ![Current(t)].filed = "refused"] \in [Messages -> Marks]
      BY <3>1, MarkTyped
    <3> QED BY <2>3, <3>2, MarksGo
  <2> QED BY <2>1, <2>2, <2>3 DEF File
<1> QED BY <1>1, <1>2, <1>3, TypedNames DEF File, Points, TypeOK, inbox, binding, world

LEMMA ReadBackTyped ==
  ASSUME TypeOK, NEW h \in Hooks, NEW t \in Threads, todo[t] # {}, ReadBack(h, t)
  PROVE  TypeOK'
<1>1. mem[h] \in [Messages -> Marks] /\ Current(t) \in Messages
  BY CurrentIsThere DEF TypeOK
<1>2. \/ Goto(t, "mirror") /\ back' = [back EXCEPT ![t] = "file"] /\ UNCHANGED todo
      \/ Rest(t) /\ UNCHANGED back
      \/ Advance(t, "file") /\ UNCHANGED back
  BY Zenon DEF ReadBack
<1>3. pc' \in [Threads -> Points] /\ todo' \in [Threads -> SUBSET Messages] /\ back' \in [Threads -> {"retry", "file"}]
  BY <1>2, Gone, Advanced, Rested DEF TypeOK, Points
<1>4. mem' \in [Hooks -> [Messages -> Marks]] /\ jour' \in [Hooks -> [Projects -> [Messages -> Marks]]]
  <2>1. /\ [mem[h] EXCEPT ![Current(t)].filed = "filed"] \in [Messages -> Marks]
        /\ [mem[h] EXCEPT ![Current(t)].filed = "unknown"] \in [Messages -> Marks]
    BY <1>1, MarkTyped
  <2>2. \/ Remember(h, [mem[h] EXCEPT ![Current(t)].filed = "filed"])
        \/ Remember(h, [mem[h] EXCEPT ![Current(t)].filed = "unknown"])
        \/ SaveMarks(h, mem[h])
        \/ UNCHANGED state
    BY Zenon DEF ReadBack
  <2> QED BY <1>1, <2>1, <2>2, MarksGo, StateTyped
<1> QED BY <1>3, <1>4, TypedNames DEF ReadBack, Points, TypeOK, inbox, binding, world

LEMMA AddedTyped == ASSUME TypeOK, NEW h \in Hooks, NEW t \in Threads, todo[t] # {}, Added(h, t) PROVE TypeOK'
<1>1. mem[h] \in [Messages -> Marks] /\ Current(t) \in Messages
  BY CurrentIsThere DEF TypeOK
<1>2. \/ Goto(t, "mirror") /\ back' = [back EXCEPT ![t] = "file"]
      \/ Goto(t, "idle") /\ UNCHANGED back
  BY Zenon DEF Added, Rest
<1>3. pc' \in [Threads -> Points] /\ back' \in [Threads -> {"retry", "file"}]
  BY <1>2, Gone DEF TypeOK, Points
<1>4. mem' \in [Hooks -> [Messages -> Marks]] /\ jour' \in [Hooks -> [Projects -> [Messages -> Marks]]]
  <2>1. [mem[h] EXCEPT ![Current(t)].filed = "filed"] \in [Messages -> Marks]
    BY <1>1, MarkTyped
  <2>2. Remember(h, [mem[h] EXCEPT ![Current(t)].filed = "filed"]) \/ UNCHANGED state
    BY Zenon DEF Added
  <2> QED BY <2>1, <2>2, MarksGo, StateTyped
<1> QED BY <1>3, <1>4, TypedNames DEF Added, Points, TypeOK, inbox, binding, world, Rest

LEMMA MirrorRequestTyped ==
  ASSUME TypeOK, NEW h \in Hooks, NEW t \in Threads, todo[t] # {}, MirrorRequest(h, t)
  PROVE  TypeOK'
<1>1. Current(t) \in Messages /\ bind[h] \in Projects /\ back[t] \in {"retry", "file"}
  BY CurrentIsThere DEF TypeOK
<1>2. \/ Advance(t, back[t]) /\ UNCHANGED <<batch, result, shared>>
      \/ /\ Goto(t, "answer") /\ UNCHANGED todo
         /\ \E r \in {"ok", "error", "conflict", "forbidden"} : result' = [result EXCEPT ![t] = r]
         /\ batch' = [batch EXCEPT ![t] = bind[h]]
         /\ shared' = shared \/ shared' = shared \cup {<<Current(t), bind[h]>>}
  <2>1. CASE Advance(t, back[t]) /\ UNCHANGED <<batch, result, shared>>
    BY <2>1
  <2>2. CASE ~ (Advance(t, back[t]) /\ UNCHANGED <<batch, result, shared>>)
    <3>1. /\ Goto(t, "answer") /\ UNCHANGED todo
          /\ batch' = [batch EXCEPT ![t] = bind[h]]
      BY <2>2 DEF MirrorRequest, Return
    <3>2. PICK applied \in BOOLEAN, r \in {"ok", "error", "conflict", "forbidden"} :
            /\ shared' = IF applied THEN shared \cup {<<Current(t), bind[h]>>} ELSE shared
            /\ result' = [result EXCEPT ![t] = r]
      BY <2>2 DEF MirrorRequest, Return
    <3> QED BY <3>1, <3>2
  <2> QED BY <2>1, <2>2
<1>3. pc' \in [Threads -> Points] /\ todo' \in [Threads -> SUBSET Messages]
  BY <1>1, <1>2, Gone, Advanced DEF TypeOK, Points
<1>4. /\ result' \in [Threads -> {"ok", "error", "conflict", "forbidden"}]
      /\ batch' \in [Threads -> Projects] /\ shared' \subseteq Messages \X Projects
  <2>1. shared \subseteq Messages \X Projects /\ shared' \subseteq shared \cup {<<Current(t), bind[h]>>}
    BY <1>2 DEF TypeOK
  <2>2. batch' \in [Threads -> Projects]
    BY <1>1, <1>2 DEF TypeOK
  <2>3. result' \in [Threads -> {"ok", "error", "conflict", "forbidden"}]
    BY <1>2 DEF TypeOK
  <2> QED BY <1>1, <2>1, <2>2, <2>3
<1> QED BY <1>3, <1>4, StateTyped, TypedNames DEF MirrorRequest, Points, TypeOK, inbox, state, binding, world, Return

LEMMA MirrorMarks ==
  ASSUME TypeOK, NEW h \in Hooks, NEW t \in Threads, todo[t] # {}, MirrorAnswer(h, t), ~ Rebound(h, t)
  PROVE  \/ UNCHANGED state
         \/ \E marks \in [Messages -> Marks] :
              /\ SaveMarks(h, marks)
              /\ \A m \in Messages : marks[m].filed = mem[h][m].filed
<1>1. mem[h] \in [Messages -> Marks] /\ Current(t) \in Messages
  BY CurrentIsThere DEF TypeOK
<1>2. result[t] \in {"ok", "error", "conflict", "forbidden"}
  BY DEF TypeOK
<1>3. CASE result[t] \in {"ok", "conflict"}
  <2> DEFINE marks == [mem[h] EXCEPT ![Current(t)].mirror = "mirrored"]
  <2>1. SaveMarks(h, marks)
    BY <1>3 DEF MirrorAnswer
  <2>2. marks \in [Messages -> Marks] /\ \A m \in Messages : marks[m].filed = mem[h][m].filed
    BY <1>1, MarkTyped
  <2> HIDE DEF marks
  <2> QED BY <2>1, <2>2
<1>4. CASE result[t] = "error"
  <2> DEFINE marks == [mem[h] EXCEPT ![Current(t)] = AfterFailure(@)]
  <2>1. SaveMarks(h, marks)
    BY <1>4 DEF MirrorAnswer
  <2>2. marks \in [Messages -> Marks] /\ \A m \in Messages : marks[m].filed = mem[h][m].filed
    BY <1>1, MarkTyped
  <2> HIDE DEF marks
  <2> QED BY <2>1, <2>2
<1>5. CASE result[t] = "forbidden"
  BY <1>5 DEF MirrorAnswer
<1> QED BY <1>2, <1>3, <1>4, <1>5

LEMMA MirrorAnswerTyped ==
  ASSUME TypeOK, NEW h \in Hooks, NEW t \in Threads, todo[t] # {}, MirrorAnswer(h, t)
  PROVE  TypeOK'
<1>1. back[t] \in {"retry", "file"} /\ mem[h] \in [Messages -> Marks]
  BY DEF TypeOK
<1>2. Advance(t, back[t])
  BY DEF MirrorAnswer, Return
<1>3. pc' \in [Threads -> Points] /\ todo' \in [Threads -> SUBSET Messages]
  BY <1>1, <1>2, Advanced DEF Points
<1>4. mem' \in [Hooks -> [Messages -> Marks]] /\ jour' \in [Hooks -> [Projects -> [Messages -> Marks]]]
  <2>1. CASE Rebound(h, t)
    <3>1. SaveMarks(h, mem[h]) \/ UNCHANGED state
      BY <2>1, Zenon DEF MirrorAnswer
    <3> QED BY <1>1, <3>1, MarksGo, StateTyped
  <2>2. CASE ~ Rebound(h, t)
    BY <2>2, MirrorMarks, MarksGo, StateTyped
  <2> QED BY <2>1, <2>2
<1>5. said' \in [Hooks -> BOOLEAN]
  BY DEF MirrorAnswer, TypeOK
<1> QED BY <1>3, <1>4, <1>5, TypedNames DEF MirrorAnswer, Points, TypeOK, inbox, world, Return

LEMMA RebindTyped == ASSUME TypeOK, NEW h \in Hooks, Rebind(h) PROVE TypeOK'
<1>1. PICK p \in Projects \ {bind[h]} :
        bind' = [bind EXCEPT ![h] = p] /\ mem' = [mem EXCEPT ![h] = jour[h][p]]
  BY DEF Rebind
<1>2. bind' \in [Hooks -> Projects] /\ mem' \in [Hooks -> [Messages -> Marks]]
  BY <1>1 DEF TypeOK
<1>3. jour' \in [Hooks -> [Projects -> [Messages -> Marks]]]
  <2> DEFINE saved == IF Resting(h) THEN jour[h][bind[h]] ELSE mem[h]
  <2>1. saved \in [Messages -> Marks]
    BY DEF TypeOK
  <2>2. jour' = [jour EXCEPT ![h][bind[h]] = saved]
    BY DEF Rebind
  <2> HIDE DEF saved
  <2>3. [jour[h] EXCEPT ![bind[h]] = saved] \in [Projects -> [Messages -> Marks]]
    BY <2>1 DEF TypeOK
  <2> QED BY <2>2, <2>3 DEF TypeOK
<1>4. rebinds' \in 0 .. MaxRebinds
  BY BoundsAreNumbers DEF Rebind, TypeOK
<1>5. /\ known' \in [Hooks -> BOOLEAN] /\ name' \in [Hooks -> Names \cup {NoName}]
      /\ said' \in [Hooks -> BOOLEAN] /\ cache' \in [Hooks -> SUBSET Messages]
  BY DEF Rebind, TypeOK
<1> QED BY <1>2, <1>3, <1>4, <1>5, TypedNames DEF Rebind, TypeOK, thread

LEMMA CrashTyped == ASSUME TypeOK, NEW h \in Hooks, Crash(h) PROVE TypeOK'
<1>1. PICK p \in Projects : bind' = [bind EXCEPT ![h] = p] /\ mem' = [mem EXCEPT ![h] = jour[h][p]]
  BY DEF Crash
<1>2. bind' \in [Hooks -> Projects] /\ mem' \in [Hooks -> [Messages -> Marks]]
  BY <1>1 DEF TypeOK
<1>3. pc' \in [Threads -> Points]
  BY DEF Crash, TypeOK, Points, Cleared
<1>4. crashes' \in 0 .. MaxCrashes
  BY BoundsAreNumbers DEF Crash, TypeOK
<1>5. /\ known' \in [Hooks -> BOOLEAN] /\ name' \in [Hooks -> Names \cup {NoName}]
      /\ said' \in [Hooks -> BOOLEAN] /\ cache' \in [Hooks -> SUBSET Messages]
  BY DEF Crash, TypeOK
<1>6. /\ todo' \in [Threads -> SUBSET Messages] /\ back' \in [Threads -> {"retry", "file"}]
      /\ result' \in [Threads -> {"ok", "error", "conflict", "forbidden"}]
  BY DEF Crash, TypeOK, Cleared
<1>7. NamesTypeOK'
  BY DEF Crash, Cleared, EmptyRegistry, Registry, TypeOK, NamesTypeOK
<1> QED BY <1>2, <1>3, <1>4, <1>5, <1>6, <1>7 DEF Crash, Points, TypeOK

LEMMA CalmTyped == ASSUME TypeOK, Calm PROVE TypeOK'
BY StateTyped, TypedNames DEF Calm, TypeOK, thread, inbox, state, binding

(* What a thread has to do when it gets there. *)
Stage(t) ==
  /\ pc[t] \in {"added", "mirror", "answer"} => todo[t] # {}
  /\ pc[t] \in {"claim", "write"} => asked[t] \in Projects
TInv == TypeOK /\ \A t \in Threads : Stage(t)

Act(h, t) == Turn(h, t) \/ Resolve(h, t) \/ Step(h, t)
Shift(h) == Rebind(h) \/ Crash(h)

(* Nothing a thread or a hook has for itself has changed. *)
Aside(t) ==
  /\ pc'[t] = pc[t] /\ batch'[t] = batch[t] /\ todo'[t] = todo[t] /\ back'[t] = back[t]
  /\ result'[t] = result[t] /\ asked'[t] = asked[t] /\ read'[t] = read[t]
Apart(h) == name'[h] = name[h] /\ bind'[h] = bind[h] /\ mem'[h] = mem[h] /\ jour'[h] = jour[h]

LEMMA ThreadOf == \A h \in Hooks : \A t \in ThreadsOf(h) : t \in Threads /\ Of[t] = h
BY DEF ThreadsOf

LEMMA HookOf == \A t \in Threads : Of[t] \in Hooks /\ t \in ThreadsOf(Of[t])
BY BoundsAreNumbers DEF ThreadsOf

LEMMA ActTyped == ASSUME TInv, NEW h \in Hooks, NEW t \in ThreadsOf(h), Act(h, t) PROVE TypeOK'
<1>0. TypeOK /\ t \in Threads /\ Stage(t)
  BY ThreadOf DEF TInv
<1>1. CASE ReadBack(h, t) \/ Added(h, t) \/ MirrorRequest(h, t) \/ MirrorAnswer(h, t)
  <2>1. todo[t] # {}
    BY <1>0, <1>1 DEF Stage, ReadBack, Added, MirrorRequest, MirrorAnswer
  <2> QED BY <1>0, <1>1, <2>1, ReadBackTyped, AddedTyped, MirrorRequestTyped, MirrorAnswerTyped
<1>2. CASE ClaimName(h, t)
  <2>1. pc[t] = "write" => asked[t] \in Projects
    BY <1>0 DEF Stage
  <2> QED BY <1>0, <1>2, <2>1, ClaimNameTyped
<1> QED BY <1>0, <1>1, <1>2, TurnTyped, ResolveTyped, RetryTyped, PendingTyped, BindNameTyped, ProbeTyped, FileTyped
        DEF Act, Step

(* What a step of thread t of hook h leaves alone, and what it does to the
   binding. *)
LEMMA OthersAside ==
  ASSUME TypeOK, NEW h \in Hooks, NEW t \in ThreadsOf(h), Act(h, t)
  PROVE  /\ \A u \in Threads : u # t => Aside(u)
         /\ \A g \in Hooks : g # h => Apart(g)
         /\ bind' = bind /\ (name' = name \/ name' = [name EXCEPT ![h] = normalise[bind[h]]])
         /\ UNCHANGED <<crashes, rebinds>>
         /\ overlaps' = overlaps \/ (overlaps' = overlaps + 1 /\ Starts(h, t))
<1>0. t \in Threads
  BY ThreadOf
<1> USE <1>0 DEF TypeOK, NamesTypeOK, Aside, Apart, Goto, Advance, state, binding, thread, world, inbox, names
<1>1. CASE Turn(h, t)
  BY <1>1 DEF Turn, SaveMarks, Starts
<1>2. CASE Resolve(h, t)
  BY <1>2 DEF Resolve, Starts
<1>3. CASE Retry(h, t)
  BY <1>3 DEF Retry
<1>4. CASE Pending(h, t)
  BY <1>4 DEF Pending
<1>5. CASE BindName(h, t)
  BY <1>5 DEF BindName, ReadRegistry, Rest
<1>6. CASE ClaimName(h, t)
  BY <1>6 DEF ClaimName, TruncateRegistry, WriteRegistry
<1>7. CASE Probe(h, t)
  BY <1>7 DEF Probe, Rest, CloseRegistry
<1>8. CASE File(h, t)
  BY <1>8 DEF File, Remember, SaveMarks, Rest
<1>9. CASE ReadBack(h, t)
  BY <1>9 DEF ReadBack, Remember, SaveMarks, Rest
<1>10. CASE Added(h, t)
  BY <1>10 DEF Added, Remember, Rest
<1>11. CASE MirrorRequest(h, t)
  BY <1>11 DEF MirrorRequest, Return
<1>12. CASE MirrorAnswer(h, t)
  BY <1>12 DEF MirrorAnswer, SaveMarks, Return
<1> QED BY <1>1, <1>2, <1>3, <1>4, <1>5, <1>6, <1>7, <1>8, <1>9, <1>10, <1>11, <1>12 DEF Act, Step

(* What a step of the hook leaves alone: of its own threads it only changes
   where they stand, and then they are at rest. *)
LEMMA OthersApart ==
  ASSUME TypeOK, NEW h \in Hooks, Shift(h)
  PROVE  /\ \A u \in Threads : Aside(u) \/ (Of[u] = h /\ pc'[u] = "idle")
         /\ \A u \in Threads : Of[u] # h => Aside(u)
         /\ \A g \in Hooks : g # h => Apart(g)
         /\ UNCHANGED <<tracker, overlaps, registry>> /\ name' = [name EXCEPT ![h] = NoName]
<1> USE DEF TypeOK, NamesTypeOK, Aside, Apart, thread, names
<1>1. CASE Rebind(h)
  BY <1>1 DEF Rebind
<1>2. CASE Crash(h)
  BY <1>2 DEF Crash, Cleared
<1> QED BY <1>1, <1>2 DEF Shift

LEMMA ActStaged == ASSUME TInv, NEW h \in Hooks, NEW t \in ThreadsOf(h), Act(h, t) PROVE Stage(t)'
<1>0. t \in Threads /\ TypeOK /\ Stage(t) /\ bind[h] \in Projects /\ back[t] \in {"retry", "file"}
  BY ThreadOf DEF TInv, TypeOK
<1> USE <1>0 DEF TypeOK, NamesTypeOK, Stage, Goto, names
<1>1. CASE Turn(h, t)
  BY <1>1 DEF Turn
<1>2. CASE Resolve(h, t)
  BY <1>2 DEF Resolve
<1>3. CASE Retry(h, t)
  BY <1>3 DEF Retry, Advance
<1>4. CASE Pending(h, t)
  BY <1>4 DEF Pending
<1>5. CASE BindName(h, t)
  BY <1>5 DEF BindName, ReadRegistry, Rest
<1>6. CASE ClaimName(h, t)
  BY <1>6 DEF ClaimName, TruncateRegistry, WriteRegistry
<1>7. CASE Probe(h, t)
  BY <1>7 DEF Probe, Rest, CloseRegistry
<1>8. CASE File(h, t)
  BY <1>8 DEF File, Advance, Rest
<1>9. CASE ReadBack(h, t)
  BY <1>9 DEF ReadBack, Advance, Rest
<1>10. CASE Added(h, t)
  BY <1>10 DEF Added, Rest
<1>11. CASE MirrorRequest(h, t)
  BY <1>11 DEF MirrorRequest, Advance, Return
<1>12. CASE MirrorAnswer(h, t)
  BY <1>12 DEF MirrorAnswer, Advance, Return
<1> QED BY <1>1, <1>2, <1>3, <1>4, <1>5, <1>6, <1>7, <1>8, <1>9, <1>10, <1>11, <1>12 DEF Act, Step

LEMMA InitStaged == Init => TInv
<1> SUFFICES ASSUME Init PROVE \A t \in Threads : Stage(t)
  BY InitTyped DEF TInv
<1> QED BY DEF Init, Stage

LEMMA NextStaged == TInv /\ [Next]_vars => TInv'
<1> SUFFICES ASSUME TInv, [Next]_vars PROVE TInv'
  OBVIOUS
<1>1. CASE UNCHANGED vars
  BY <1>1 DEF TInv, TypeOK, NamesTypeOK, Stage, vars
<1>2. CASE Calm
  <2>1. TypeOK' /\ UNCHANGED <<pc, todo, asked>>
    BY <1>2, CalmTyped DEF TInv, Calm, thread, names
  <2> QED BY <2>1 DEF TInv, Stage
<1>3. ASSUME NEW h \in Hooks, NEW t \in ThreadsOf(h), Act(h, t) PROVE TInv'
  <2>1. TypeOK' /\ Stage(t)'
    BY <1>3, ActTyped, ActStaged
  <2>2. ASSUME NEW u \in Threads, u # t PROVE Stage(u)'
    <3>1. Aside(u) /\ Stage(u)
      BY <1>3, <2>2, OthersAside DEF TInv
    <3> QED BY <3>1 DEF Aside, Stage
  <2> QED BY <2>1, <2>2 DEF TInv
<1>4. ASSUME NEW h \in Hooks, Shift(h) PROVE TInv'
  <2>1. TypeOK'
    BY <1>4, RebindTyped, CrashTyped DEF Shift, TInv
  <2>2. ASSUME NEW u \in Threads PROVE Stage(u)'
    <3>1. (Aside(u) \/ pc'[u] = "idle") /\ Stage(u)
      BY <1>4, OthersApart DEF TInv
    <3> QED BY <3>1 DEF Aside, Stage
  <2> QED BY <2>1, <2>2 DEF TInv
<1> QED BY <1>1, <1>2, <1>3, <1>4 DEF Next, Act, Shift

LEMMA Staged == Spec => []TInv
BY InitStaged, NextStaged, PTL DEF Spec

(* Every variable keeps its type, whatever overlaps, rebinds and crashes do. *)
THEOREM TypeCorrect == Spec => []TypeOK
<1>1. TInv => TypeOK
  BY DEF TInv
<1> QED BY <1>1, Staged, PTL

-----------------------------------------------------------------------------
(* Where a rebind waits for the threads of its hook, a batch is filed in the
   session it was taken from. *)
Home(m) == normalise[Sent(m)]
Batching(t) == pc[t] \in {"file", "added"} \/ (pc[t] \in {"mirror", "answer"} /\ back[t] = "file")

Named(h) == name[h] # NoName => name[h] = normalise[bind[h]]

Bound(t) ==
  /\ pc[t] # "idle" => batch[t] = bind[Of[t]]
  /\ pc[t] \in {"claim", "write"} => asked[t] = bind[Of[t]]
  /\ Batching(t) => name[Of[t]] # NoName

Work(t) ==
  /\ Batching(t) \/ pc[t] \in Naming => \A m \in todo[t] : To[m] = <<Of[t], bind[Of[t]]>>
  /\ pc[t] = "added" /\ result[t] = "ok" => tracker[normalise[bind[Of[t]]]][Current(t)] > 0

(* A message is marked as filed only when its words are where they belong,
   and they are nowhere else. *)
There(marks) == \A m \in Messages : marks[m].filed = "filed" => tracker[Home(m)][m] > 0
Kept(h) == There(mem[h]) /\ \A p \in Projects : There(jour[h][p])
AtHome == \A m \in Messages, n \in Names : tracker[n][m] > 0 => n = Home(m)

FInv ==
  /\ AtHome
  /\ \A h \in Hooks : Named(h) /\ Kept(h)
  /\ \A t \in Threads : Bound(t) /\ Work(t)

Grows == \A n \in Names, m \in Messages : tracker[n][m] > 0 => tracker'[n][m] > 0

LEMMA HomeNamed == \A m \in Messages : Sent(m) \in Projects /\ Home(m) \in Names
BY BoundsAreNumbers DEF Sent, Home

(* A rebind that waits finds its threads at rest, and after a rebind or a
   crash they are. *)
LEMMA ShiftRests ==
  ASSUME RebindWhileFiling = FALSE, TypeOK, NEW h \in Hooks, Shift(h)
  PROVE  /\ Resting(h)' /\ jour' = jour
         /\ \E p \in Projects : bind' = [bind EXCEPT ![h] = p] /\ mem' = [mem EXCEPT ![h] = jour[h][p]]
         /\ Rebind(h) => Resting(h)
<1>1. CASE Rebind(h)
  <2>1. Resting(h) /\ pc' = pc
    BY <1>1 DEF Rebind, MayRebind
  <2>2. jour' = jour
    <3>1. jour' = [jour EXCEPT ![h][bind[h]] = @]
      BY <1>1, <2>1 DEF Rebind
    <3>2. jour \in [Hooks -> [Projects -> [Messages -> Marks]]]
      BY DEF TypeOK
    <3>3. [jour[h] EXCEPT ![bind[h]] = @] = jour[h]
      BY <3>2
    <3> QED BY <3>1, <3>2, <3>3
  <2> QED BY <1>1, <2>1, <2>2 DEF Rebind, Resting, ThreadsOf
<1>2. CASE Crash(h)
  <2>1. Resting(h)'
    BY <1>2 DEF Crash, Resting, ThreadsOf, Cleared
  <2>2. jour' = jour
    BY <1>2 DEF Crash
  <2>3. ~ Rebind(h)
    BY <1>2, BoundsAreNumbers DEF Crash, Rebind, TypeOK
  <2> QED BY <1>2, <2>1, <2>2, <2>3 DEF Crash
<1> QED BY <1>1, <1>2 DEF Shift

LEMMA ActNamed ==
  ASSUME TypeOK, NEW h \in Hooks, Named(h), NEW t \in ThreadsOf(h), Act(h, t)
  PROVE  Named(h)' /\ (name[h] # NoName => name'[h] # NoName)
<1>1. bind' = bind /\ (name' = name \/ name' = [name EXCEPT ![h] = normalise[bind[h]]])
  BY OthersAside
<1>2. name \in [Hooks -> Names \cup {NoName}] /\ normalise[bind[h]] \in Names /\ NoName \notin Names
  BY BoundsAreNumbers DEF TypeOK
<1> QED BY <1>1, <1>2 DEF Named

LEMMA ActBound ==
  ASSUME TInv, FInv, NEW h \in Hooks, NEW t \in ThreadsOf(h), Act(h, t)
  PROVE  Bound(t)'
<1>0. /\ t \in Threads /\ Of[t] = h /\ TypeOK /\ Stage(t) /\ Bound(t)
      /\ bind[h] \in Projects /\ back[t] \in {"retry", "file"}
  BY ThreadOf DEF TInv, TypeOK, FInv
<1> USE <1>0 DEF TypeOK, NamesTypeOK, Bound, Batching, Goto, names, Naming
<1>1. CASE Turn(h, t)
  BY <1>1 DEF Turn, binding
<1>2. CASE Resolve(h, t)
  BY <1>2 DEF Resolve, binding
<1>3. CASE Retry(h, t)
  BY <1>3 DEF Retry, Advance, binding
<1>4. CASE Pending(h, t)
  BY <1>4 DEF Pending, binding
<1>5. CASE BindName(h, t)
  BY <1>5 DEF BindName, ReadRegistry, binding, thread, Rest
<1>6. CASE ClaimName(h, t)
  BY <1>6 DEF ClaimName, TruncateRegistry, WriteRegistry, binding, thread
<1>7. CASE Probe(h, t)
  BY <1>7, BoundsAreNumbers DEF Probe, thread, Rest, CloseRegistry
<1>8. CASE File(h, t)
  BY <1>8 DEF File, Advance, binding, Rest
<1>9. CASE ReadBack(h, t)
  BY <1>9 DEF ReadBack, Advance, binding, Rest
<1>10. CASE Added(h, t)
  BY <1>10 DEF Added, binding, Rest
<1>11. CASE MirrorRequest(h, t)
  BY <1>11 DEF MirrorRequest, Advance, binding, Return
<1>12. CASE MirrorAnswer(h, t)
  BY <1>12 DEF MirrorAnswer, Advance, Return
<1> QED BY <1>1, <1>2, <1>3, <1>4, <1>5, <1>6, <1>7, <1>8, <1>9, <1>10, <1>11, <1>12 DEF Act, Step

(* What an add does to the tracker. *)
LEMMA AddAdds ==
  ASSUME TInv, FInv, NEW h \in Hooks, NEW t \in ThreadsOf(h), Act(h, t)
  PROVE  \/ tracker' = tracker
         \/ /\ pc[t] = "file" /\ pc'[t] = "added" /\ todo[t] # {} /\ UNCHANGED <<todo, mem, jour, bind, crashes>>
            /\ Current(t) \in Messages /\ To[Current(t)] = <<h, bind[h]>> /\ name[h] = Home(Current(t))
            /\ Home(Current(t)) \in Names
            /\ tracker' = [tracker EXCEPT ![Home(Current(t))][Current(t)] = @ + 1]
<1>0. t \in Threads /\ Of[t] = h /\ TypeOK /\ Bound(t) /\ Work(t) /\ Named(h)
  BY ThreadOf DEF TInv, FInv
<1>1. CASE File(h, t)
  <2>1. CASE tracker' # tracker
    <3>1. /\ todo[t] # {} /\ name[h] # NoName /\ pc[t] = "file" /\ Goto(t, "added")
          /\ UNCHANGED <<todo, mem, jour, bind, crashes>>
          /\ tracker' = [tracker EXCEPT ![name[h]][Current(t)] = @ + 1]
      BY <1>1, <2>1 DEF File, state, binding, world
    <3>2. Current(t) \in todo[t] /\ Current(t) \in Messages
      BY <1>0, <3>1, CurrentIsThere DEF TypeOK
    <3>3. To[Current(t)] = <<h, bind[h]>>
      BY <1>0, <3>1, <3>2 DEF Work, Batching
    <3>4. name[h] = Home(Current(t))
      BY <1>0, <3>1, <3>3 DEF Named, Home, Sent
    <3>5. pc'[t] = "added"
      BY <1>0, <3>1, Gone DEF Points
    <3> QED BY <3>1, <3>2, <3>3, <3>4, <3>5, HomeNamed
  <2> QED BY <2>1
<1>2. CASE ~ File(h, t)
  BY <1>2 DEF Act, Step, Turn, Resolve, Retry, Pending, BindName, ClaimName, Probe, ReadBack, Added, MirrorRequest,
              MirrorAnswer
<1> QED BY <1>1, <1>2

LEMMA ActGrows ==
  ASSUME TInv, TypeOK', FInv, NEW h \in Hooks, NEW t \in ThreadsOf(h), Act(h, t)
  PROVE  Grows /\ AtHome'
<1>1. tracker \in [Names -> [Messages -> Nat]] /\ AtHome
  BY DEF TInv, TypeOK, FInv
<1>2. CASE tracker' = tracker
  BY <1>1, <1>2 DEF Grows, AtHome, Home, Sent
<1>3. CASE tracker' # tracker
  <2>1. PICK m \in Messages, n \in Names : n = Home(m) /\ tracker' = [tracker EXCEPT ![n][m] = @ + 1]
    BY <1>3, AddAdds
  <2>2. tracker'[n] = [tracker[n] EXCEPT ![m] = tracker[n][m] + 1] /\ \A x \in Names : x # n => tracker'[x] = tracker[x]
    BY <1>1, <2>1
  <2>3. tracker'[n][m] = tracker[n][m] + 1 /\ \A k \in Messages : k # m => tracker'[n][k] = tracker[n][k]
    BY <1>1, <2>2
  <2>4. Grows
    BY <1>1, <2>2, <2>3 DEF Grows
  <2>5. ASSUME NEW k \in Messages, NEW x \in Names, tracker'[x][k] > 0 PROVE x = Home(k)
    <3>1. CASE x = n /\ k = m
      BY <2>1, <3>1
    <3>2. CASE ~ (x = n /\ k = m)
      BY <1>1, <2>2, <2>3, <2>5, <3>2 DEF AtHome
    <3> QED BY <3>1, <3>2
  <2> QED BY <2>4, <2>5 DEF AtHome, Home, Sent
<1> QED BY <1>2, <1>3

(* What is left of a batch shrinks, and stays in one project. *)
LEMMA ActWork ==
  ASSUME TInv, TypeOK', FInv, NEW h \in Hooks, NEW t \in ThreadsOf(h), Act(h, t)
  PROVE  Work(t)'
<1>0. /\ t \in Threads /\ Of[t] = h /\ Named(h)
      /\ TypeOK /\ Stage(t) /\ Bound(t) /\ Work(t) /\ bind[h] \in Projects /\ back[t] \in {"retry", "file"}
      /\ pc \in [Threads -> Points] /\ bind \in [Hooks -> Projects] /\ todo \in [Threads -> SUBSET Messages]
      /\ back \in [Threads -> {"retry", "file"}]
  BY ThreadOf DEF TInv, TypeOK, FInv, Points
<1>1. CASE pc'[t] \notin {"file", "added", "mirror", "answer"} \cup Naming
  BY <1>1 DEF Work, Batching
<1>2. CASE Pending(h, t)
  <2>1. /\ todo'[t] = First(unfiled(h)) /\ bind' = bind /\ First(unfiled(h)) \subseteq unfiled(h)
        /\ pc'[t] \in {"idle", "ready", "file"}
    BY <1>0, <1>2, FirstIsPart DEF Pending, binding, Goto
  <2> QED BY <1>0, <2>1 DEF Work, unfiled, Addressed
<1>3. ASSUME /\ Batching(t) \/ pc[t] \in Naming
             /\ todo'[t] \subseteq todo[t] /\ bind'[h] = bind[h]
             /\ pc'[t] # "added" \/ result'[t] # "ok"
      PROVE  Work(t)'
  <2>1. \A m \in todo[t] : To[m] = <<h, bind[h]>>
    BY <1>0, <1>3 DEF Work
  <2>2. \A m \in todo'[t] : To[m] = <<h, bind'[h]>>
    BY <1>3, <2>1
  <2>3. ~ (pc'[t] = "added" /\ result'[t] = "ok")
    BY <1>3
  <2> QED BY <1>0, <2>2, <2>3 DEF Work
<1>4. CASE Turn(h, t)
  BY <1>0, <1>1, <1>4, Gone DEF Turn, Points, Naming
<1>5. CASE Retry(h, t)
  <2>1. \/ Goto(t, "pending") \/ Advance(t, "retry")
        \/ Goto(t, "mirror") /\ back' = [back EXCEPT ![t] = "retry"]
    BY <1>5, Zenon DEF Retry
  <2>2. pc'[t] \in {"pending", "retry"} \/ (pc'[t] = "mirror" /\ back'[t] = "retry")
    BY <1>0, <2>1, Gone, Advanced DEF Points
  <2> QED BY <2>2 DEF Work, Batching, Naming
<1>6. CASE BindName(h, t)
  <2>1. pc[t] \in Naming /\ bind' = bind /\ (Rest(t) \/ (UNCHANGED todo /\ pc'[t] # "added"))
    BY <1>0, <1>6 DEF BindName, Goto, binding, Naming
  <2> QED BY <1>0, <1>1, <1>3, <2>1, Rested DEF Naming
<1>7. CASE ClaimName(h, t)
  BY <1>0, <1>3, <1>7 DEF ClaimName, Goto, thread, binding, Naming
<1>8. CASE Probe(h, t)
  <2>1. pc[t] \in Naming /\ bind' = bind /\ (Rest(t) \/ (UNCHANGED todo /\ pc'[t] # "added"))
    BY <1>0, <1>8 DEF Probe, Goto, Naming
  <2> QED BY <1>0, <1>1, <1>3, <2>1, Rested DEF Naming
<1>9. CASE File(h, t)
  <2>1. /\ pc[t] = "file" /\ Batching(t) /\ bind' = bind
        /\ \/ Goto(t, "idle") /\ UNCHANGED todo
           \/ Goto(t, "added") /\ UNCHANGED todo
           \/ Advance(t, "file") \/ Rest(t)
    BY <1>9, Zenon DEF File, Batching, binding
  <2>2. todo'[t] \subseteq todo[t] /\ bind'[h] = bind[h]
    BY <1>0, <2>1, Advanced, Rested DEF Points
  <2>3. CASE pc'[t] # "added" \/ result'[t] # "ok"
    BY <1>3, <2>1, <2>2, <2>3
  <2>4. CASE pc'[t] = "added" /\ result'[t] = "ok"
    <3>1. /\ todo[t] # {} /\ UNCHANGED todo /\ name[h] # NoName
          /\ tracker' = [tracker EXCEPT ![name[h]][Current(t)] = @ + 1]
      BY <1>0, <1>9, <2>4 DEF File, Advance, Goto, TypeOK, Rest
    <3>2. Current(t) \in Messages /\ name[h] = normalise[bind[h]] /\ name[h] \in Names
      BY <1>0, <3>1, CurrentIsThere, BoundsAreNumbers DEF Named, TypeOK
    <3>3. tracker \in [Names -> [Messages -> Nat]]
      BY <1>0 DEF TypeOK
    <3>4. tracker'[name[h]][Current(t)] > 0
      BY <3>1, <3>2, <3>3
    <3>5. Current(t)' = Current(t)
      BY <3>1 DEF Current
    <3>6. \A m \in todo'[t] : To[m] = <<h, bind'[h]>>
      BY <1>0, <2>1, <2>2 DEF Work
    <3> QED BY <1>0, <2>1, <3>2, <3>4, <3>5, <3>6 DEF Work
  <2> QED BY <2>3, <2>4
<1>10. CASE ReadBack(h, t)
  <2>1. /\ Batching(t) /\ bind' = bind
        /\ \/ Goto(t, "mirror") /\ UNCHANGED todo
           \/ Rest(t)
           \/ Advance(t, "file")
    BY <1>10, Zenon DEF ReadBack, Batching, binding
  <2>2. todo'[t] \subseteq todo[t] /\ bind'[h] = bind[h] /\ pc'[t] # "added"
    BY <1>0, <2>1, Gone, Advanced, Rested DEF Points
  <2> QED BY <1>3, <2>1, <2>2
<1>11. CASE Added(h, t)
  <2>1. /\ Batching(t) /\ bind' = bind
        /\ (Goto(t, "mirror") /\ UNCHANGED todo) \/ Rest(t)
    BY <1>11, Zenon DEF Added, Batching, binding
  <2>2. todo'[t] \subseteq todo[t] /\ bind'[h] = bind[h] /\ pc'[t] # "added"
    BY <1>0, <2>1, Gone, Rested DEF Points
  <2> QED BY <1>3, <2>1, <2>2
<1>12. CASE MirrorRequest(h, t)
  <2>1. /\ bind' = bind /\ pc[t] = "mirror"
        /\ \/ Goto(t, "answer") /\ UNCHANGED <<todo, back>>
           \/ Return(t)
    BY <1>12, Zenon DEF MirrorRequest, binding
  <2>2. /\ todo'[t] \subseteq todo[t] /\ bind'[h] = bind[h]
        /\ (pc'[t] = "answer" /\ back'[t] = back[t]) \/ pc'[t] = back[t]
    BY <1>0, <2>1, Gone, Returned DEF Points
  <2> QED BY <1>0, <1>1, <1>3, <2>1, <2>2 DEF Batching, Work, Naming
<1>13. CASE MirrorAnswer(h, t)
  <2>1. /\ bind' = bind /\ pc[t] = "answer" /\ Return(t)
    BY <1>13, Zenon DEF MirrorAnswer
  <2>2. /\ todo'[t] \subseteq todo[t] /\ bind'[h] = bind[h] /\ pc'[t] = back[t]
    BY <1>0, <2>1, Returned DEF Points
  <2> QED BY <1>0, <1>1, <1>3, <2>1, <2>2 DEF Batching, Work, Naming
<1>14. CASE Resolve(h, t)
  BY <1>0, <1>14 DEF Resolve, Work, Batching, Goto
<1> QED BY <1>2, <1>4, <1>5, <1>6, <1>7, <1>8, <1>9, <1>10, <1>11, <1>12, <1>13, <1>14 DEF Act, Step

(* What hook h saves and remembers after its marks became `marks`. *)
LEMMA KeptOn ==
  ASSUME TypeOK, Grows, NEW h \in Hooks, Kept(h), NEW marks \in [Messages -> Marks],
         Remember(h, marks) \/ SaveMarks(h, marks),
         \A m \in Messages : marks[m].filed = "filed" => mem[h][m].filed = "filed" \/ tracker[Home(m)][m] > 0
  PROVE  Kept(h)'
<1>1. \A m \in Messages : marks[m].filed = "filed" => tracker'[Home(m)][m] > 0
  BY HomeNamed DEF Kept, There, Grows
<1>2. \A p \in Projects, m \in Messages : jour[h][p][m].filed = "filed" => tracker'[Home(m)][m] > 0
  BY HomeNamed DEF Kept, There, Grows
<1>3. mem'[h] = marks /\ \A p \in Projects : jour'[h][p] = jour[h][p] \/ jour'[h][p] = marks
  BY MarksGo
<1>4. \A m \in Messages : mem'[h][m].filed = "filed" => tracker'[Home(m)][m] > 0
  BY <1>1, <1>3
<1>5. \A p \in Projects, m \in Messages : jour'[h][p][m].filed = "filed" => tracker'[Home(m)][m] > 0
  BY <1>1, <1>2, <1>3
<1> QED BY <1>4, <1>5 DEF Kept, There, Home, Sent

LEMMA KeptStill ==
  ASSUME TypeOK, Grows, NEW h \in Hooks, Kept(h), jour'[h] = jour[h],
         mem'[h] = mem[h] \/ (\E p \in Projects : mem'[h] = jour[h][p])
  PROVE  Kept(h)'
<1>1. \A m \in Messages : mem[h][m].filed = "filed" => tracker'[Home(m)][m] > 0
  BY HomeNamed DEF Kept, There, Grows
<1>2. \A p \in Projects, m \in Messages : jour[h][p][m].filed = "filed" => tracker'[Home(m)][m] > 0
  BY HomeNamed DEF Kept, There, Grows
<1>3. \A m \in Messages : mem'[h][m].filed = "filed" => tracker'[Home(m)][m] > 0
  <2>1. CASE mem'[h] = mem[h]
    BY <1>1, <2>1
  <2>2. CASE \E p \in Projects : mem'[h] = jour[h][p]
    BY <1>2, <2>2
  <2> QED BY <2>1, <2>2
<1> QED BY <1>2, <1>3 DEF Kept, There, Home, Sent

(* Marks that say no more than the tracker shows, and forget nothing. *)
Onward(h, marks) ==
  \A m \in Messages :
    /\ marks[m].filed = "filed" => mem[h][m].filed = "filed" \/ tracker[Home(m)][m] > 0
    /\ mem[h][m].filed # "no" => marks[m].filed # "no"

(* The marks of h after a step. *)
LEMMA ActMarks ==
  ASSUME TInv, FInv, NEW h \in Hooks, NEW t \in ThreadsOf(h), Act(h, t)
  PROVE  \/ UNCHANGED state
         \/ \E marks \in [Messages -> Marks] : (Remember(h, marks) \/ SaveMarks(h, marks)) /\ Onward(h, marks)
<1>0. /\ t \in Threads /\ Of[t] = h /\ Named(h) /\ TypeOK /\ Stage(t) /\ Bound(t) /\ Work(t)
      /\ mem[h] \in [Messages -> Marks]
  BY ThreadOf DEF TInv, TypeOK, FInv
<1>1. CASE \/ Resolve(h, t) \/ Retry(h, t) \/ Pending(h, t) \/ BindName(h, t) \/ ClaimName(h, t) \/ Probe(h, t)
           \/ MirrorRequest(h, t)
  BY <1>1 DEF Resolve, Retry, Pending, BindName, ClaimName, Probe, MirrorRequest
<1>2. ASSUME SaveMarks(h, mem[h])
      PROVE  \E marks \in [Messages -> Marks] : (Remember(h, marks) \/ SaveMarks(h, marks)) /\ Onward(h, marks)
  BY <1>0, <1>2 DEF Onward
<1>3. ASSUME todo[t] # {}, NEW f \in {"filed", "refused", "unknown"},
             Remember(h, [mem[h] EXCEPT ![Current(t)].filed = f]),
             f = "filed" => tracker[Home(Current(t))][Current(t)] > 0
      PROVE  \E marks \in [Messages -> Marks] : (Remember(h, marks) \/ SaveMarks(h, marks)) /\ Onward(h, marks)
  <2> DEFINE marks == [mem[h] EXCEPT ![Current(t)].filed = f]
  <2>1. Current(t) \in Messages
    BY <1>0, <1>3, CurrentIsThere DEF TypeOK
  <2>2. /\ marks \in [Messages -> Marks] /\ marks[Current(t)].filed = f
        /\ \A k \in Messages : k # Current(t) => marks[k] = mem[h][k]
    <3>1. f \in {"no", "filed", "refused", "unknown"}
      OBVIOUS
    <3>2. /\ [mem[h] EXCEPT ![Current(t)].filed = f] \in [Messages -> Marks]
          /\ [mem[h] EXCEPT ![Current(t)].filed = f][Current(t)].filed = f
          /\ \A k \in Messages : k # Current(t) => [mem[h] EXCEPT ![Current(t)].filed = f][k] = mem[h][k]
      BY <1>0, <2>1, <3>1 DEF Marks
    <3> QED BY <3>2
  <2>3. Remember(h, marks)
    BY <1>3
  <2> HIDE DEF marks
  <2>4. Onward(h, marks)
    BY <1>3, <2>1, <2>2 DEF Onward
  <2> QED BY <2>2, <2>3, <2>4
<1>4. ASSUME Batching(t), todo[t] # {}
      PROVE  To[Current(t)] = <<h, bind[h]>> /\ name[h] = Home(Current(t))
  <2>1. Current(t) \in todo[t]
    BY <1>0, <1>4, CurrentIsThere
  <2> QED BY <1>0, <1>4, <2>1 DEF Bound, Named, Work, Home, Sent
<1>5. CASE File(h, t)
  BY <1>2, <1>3, <1>5, Zenon DEF File
<1>6. CASE ReadBack(h, t)
  <2>1. todo[t] # {} /\ Batching(t)
    BY <1>0, <1>6 DEF Stage, ReadBack, Batching
  <2>2. FindFiled(h, t) => tracker[Home(Current(t))][Current(t)] > 0
    BY <1>4, <2>1 DEF FindFiled
  <2> QED BY <1>2, <1>3, <1>6, <2>1, <2>2, Zenon DEF ReadBack
<1>7. CASE Added(h, t)
  <2>1. todo[t] # {} /\ Batching(t) /\ pc[t] = "added" /\ result[t] = "ok"
    BY <1>0, <1>7 DEF Stage, Added, Batching
  <2>2. tracker[Home(Current(t))][Current(t)] > 0
    BY <1>0, <1>4, <2>1 DEF Work, Home, Sent
  <2> QED BY <1>3, <1>7, <2>1, <2>2, Zenon DEF Added
<1>8. CASE MirrorAnswer(h, t)
  <2>1. todo[t] # {}
    BY <1>0, <1>8 DEF Stage, MirrorAnswer
  <2>2. CASE Rebound(h, t)
    <3>1. SaveMarks(h, mem[h]) \/ UNCHANGED state
      BY <1>8, <2>2, Zenon DEF MirrorAnswer
    <3> QED BY <1>2, <3>1
  <2>3. CASE ~ Rebound(h, t)
    <3>1. CASE UNCHANGED state
      BY <3>1
    <3>2. CASE ~ UNCHANGED state
      <4>1. PICK marks \in [Messages -> Marks] :
              SaveMarks(h, marks) /\ \A m \in Messages : marks[m].filed = mem[h][m].filed
        BY <1>0, <1>8, <2>1, <2>3, <3>2, MirrorMarks
      <4> QED BY <4>1 DEF Onward
    <3> QED BY <3>1, <3>2
  <2> QED BY <2>2, <2>3
<1>9. CASE Turn(h, t)
  BY <1>2, <1>9 DEF Turn
<1> QED BY <1>1, <1>5, <1>6, <1>7, <1>8, <1>9 DEF Act, Step

LEMMA ActKept ==
  ASSUME TInv, TypeOK', FInv, NEW h \in Hooks, NEW t \in ThreadsOf(h), Act(h, t)
  PROVE  Kept(h)'
<1>1. TypeOK /\ Kept(h) /\ Grows
  BY ActGrows DEF TInv, FInv
<1>2. CASE UNCHANGED state
  BY <1>1, <1>2, KeptStill DEF state
<1>3. CASE ~ UNCHANGED state
  <2>1. PICK marks \in [Messages -> Marks] : (Remember(h, marks) \/ SaveMarks(h, marks)) /\ Onward(h, marks)
    BY <1>3, ActMarks
  <2> QED BY <1>1, <2>1, KeptOn DEF Onward
<1> QED BY <1>2, <1>3

(* What a step elsewhere does to a thread that is not at it. *)
LEMMA AsideFiled ==
  ASSUME TypeOK, Grows, NEW u \in Threads, Stage(u), Bound(u), Work(u), Aside(u), bind'[Of[u]] = bind[Of[u]],
         name[Of[u]] # NoName => name'[Of[u]] # NoName
  PROVE  Bound(u)' /\ Work(u)'
<1>1. Bound(u)'
  BY DEF Bound, Batching, Aside
<1>2. Batching(u)' = Batching(u) /\ Current(u)' = Current(u)
  BY DEF Aside, Batching, Current
<1>3. pc[u] = "added" => Current(u) \in Messages
  BY CurrentIsThere DEF Stage, TypeOK
<1>4. normalise[bind[Of[u]]] \in Names
  BY HookOf, BoundsAreNumbers DEF TypeOK
<1>5. pc[u] = "added" /\ result[u] = "ok" => tracker'[normalise[bind[Of[u]]]][Current(u)] > 0
  BY <1>3, <1>4 DEF Work, Grows
<1>6. Batching(u) \/ pc[u] \in Naming => \A m \in todo[u] : To[m] = <<Of[u], bind[Of[u]]>>
  BY DEF Work
<1> QED BY <1>1, <1>2, <1>5, <1>6 DEF Work, Aside

LEMMA IdleFree == ASSUME NEW u \in Threads, pc'[u] = "idle" PROVE Bound(u)' /\ Work(u)'
BY DEF Bound, Work, Batching, Naming

LEMMA InitFiled == Init => FInv
<1> SUFFICES ASSUME Init PROVE FInv
  OBVIOUS
<1>1. AtHome
  BY DEF Init, AtHome
<1>2. ASSUME NEW h \in Hooks PROVE Named(h) /\ Kept(h)
  <2>1. There(NoMarks)
    BY NoMarksTyped DEF There
  <2>2. mem[h] = NoMarks /\ (\A p \in Projects : jour[h][p] = NoMarks) /\ name[h] = NoName
    BY DEF Init
  <2> QED BY <2>1, <2>2 DEF Named, Kept
<1>3. \A t \in Threads : Bound(t) /\ Work(t)
  BY DEF Init, Bound, Work, Batching, Naming
<1> QED BY <1>1, <1>2, <1>3 DEF FInv

LEMMA NextFiled == RebindWhileFiling = FALSE /\ TInv /\ TypeOK' /\ FInv /\ [Next]_vars => FInv'
<1> SUFFICES ASSUME RebindWhileFiling = FALSE, TInv, TypeOK', FInv, [Next]_vars PROVE FInv'
  OBVIOUS
<1>0. /\ TypeOK /\ AtHome /\ \A h \in Hooks : Named(h) /\ Kept(h)
      /\ \A t \in Threads : Of[t] \in Hooks /\ Stage(t) /\ Bound(t) /\ Work(t)
  BY HookOf DEF TInv, FInv
<1>1. CASE UNCHANGED vars \/ Calm
  <2>1. UNCHANGED <<pc, batch, todo, back, result, tracker, name, bind, mem, jour, asked, read>>
    BY <1>1 DEF vars, Calm, thread, names, state, binding
  <2>2. Grows
    BY <2>1 DEF Grows
  <2>3. \A t \in Threads : Aside(t) /\ bind'[Of[t]] = bind[Of[t]] /\ name'[Of[t]] = name[Of[t]]
    BY <2>1 DEF Aside
  <2>4. \A t \in Threads : Bound(t)' /\ Work(t)'
    BY <1>0, <2>2, <2>3, AsideFiled
  <2>5. \A h \in Hooks : Named(h)' /\ Kept(h)'
    BY <1>0, <2>1 DEF Named, Kept, There, Home, Sent
  <2> QED BY <1>0, <2>1, <2>4, <2>5 DEF FInv, AtHome, Home, Sent
<1>2. ASSUME NEW h \in Hooks, NEW t \in ThreadsOf(h), Act(h, t) PROVE FInv'
  <2>1. AtHome' /\ Grows /\ Bound(t)' /\ Work(t)' /\ Named(h)' /\ Kept(h)'
    BY <1>0, <1>2, ActGrows, ActBound, ActWork, ActNamed, ActKept
  <2>2. ASSUME NEW g \in Hooks, g # h PROVE Named(g)' /\ Kept(g)'
    <3>1. Apart(g)
      BY <1>0, <1>2, <2>2, OthersAside
    <3> QED BY <1>0, <2>1, <3>1, KeptStill DEF Apart, Named
  <2>3. ASSUME NEW u \in Threads, u # t PROVE Bound(u)' /\ Work(u)'
    <3>1. Aside(u) /\ bind' = bind
      BY <1>0, <1>2, <2>3, OthersAside
    <3>2. name[Of[u]] # NoName => name'[Of[u]] # NoName
      <4>1. CASE Of[u] = h
        BY <1>0, <1>2, <4>1, ActNamed
      <4>2. CASE Of[u] # h
        BY <1>0, <1>2, <4>2, OthersAside DEF Apart
      <4> QED BY <4>1, <4>2
    <3> QED BY <1>0, <2>1, <3>1, <3>2, AsideFiled
  <2> QED BY <2>1, <2>2, <2>3 DEF FInv
<1>3. ASSUME NEW h \in Hooks, Shift(h) PROVE FInv'
  <2>1. tracker' = tracker /\ name' = [name EXCEPT ![h] = NoName]
    BY <1>0, <1>3, OthersApart
  <2>2. AtHome' /\ Grows
    BY <1>0, <2>1 DEF AtHome, Grows, Home, Sent
  <2>3. ASSUME NEW g \in Hooks PROVE Named(g)' /\ Kept(g)'
    <3>1. CASE g = h
      <4>1. jour'[h] = jour[h] /\ \E p \in Projects : mem'[h] = jour[h][p]
        BY <1>0, <1>3, ShiftRests DEF TypeOK
      <4>2. name'[h] = NoName
        BY <1>0, <2>1 DEF TypeOK
      <4> QED BY <1>0, <2>2, <3>1, <4>1, <4>2, KeptStill DEF Named
    <3>2. CASE g # h
      <4>1. Apart(g)
        BY <1>0, <1>3, <3>2, OthersApart
      <4> QED BY <1>0, <2>2, <4>1, KeptStill DEF Apart, Named
    <3> QED BY <3>1, <3>2
  <2>4. ASSUME NEW u \in Threads PROVE Bound(u)' /\ Work(u)'
    <3>1. CASE Of[u] = h
      <4>1. pc'[u] = "idle"
        BY <1>0, <1>3, <3>1, ShiftRests DEF Resting, ThreadsOf
      <4> QED BY <4>1, IdleFree
    <3>2. CASE Of[u] # h
      <4>1. Aside(u) /\ Apart(Of[u])
        BY <1>0, <1>3, <3>2, OthersApart
      <4> QED BY <1>0, <2>2, <4>1, AsideFiled DEF Apart
    <3> QED BY <3>1, <3>2
  <2> QED BY <2>2, <2>3, <2>4 DEF FInv
<1> QED BY <1>1, <1>2, <1>3 DEF Next, Act, Shift

LEMMA Filed == ASSUME RebindWhileFiling = FALSE PROVE Spec => []FInv
<1>1. TInv => TypeOK
  BY DEF TInv
<1> QED BY <1>1, Staged, InitFiled, NextFiled, PTL DEF Spec

(* A message that counts as filed has its words in the queue of the project
   it was sent in, if no rebind happens beside a thread of its hook. *)
THEOREM FiledIsThereAlways == ASSUME RebindWhileFiling = FALSE PROVE Spec => []FiledIsThere
<1>1. FInv => FiledIsThere
  BY DEF FInv, FiledIsThere, Kept, There, Home
<1> QED BY <1>1, Filed, PTL

-----------------------------------------------------------------------------
(* A report is added only for a message without a mark, and what may have
   been added is marked before the thread lets go of it. *)
Quiet(t) ==
  \/ pc[t] \in {"idle", "retry", "pending"} \cup Naming
  \/ pc[t] \in {"mirror", "answer"} /\ back[t] = "retry"
Saved(h) == (\A t \in ThreadsOf(h) : Quiet(t)) => mem[h] = jour[h][bind[h]]

(* The mark of m, in memory while its session is the one at work. *)
Marked(h, p, m) == IF bind[h] = p THEN mem[h][m].filed # "no" ELSE jour[h][p][m].filed # "no"

(* The thread adds m; it has m in its batch and still before it. *)
Adding(t, m) == pc[t] = "added" /\ Current(t) = m
Treats(t, m) ==
  /\ Batching(t) \/ pc[t] \in Naming
  /\ m \in todo[t] /\ ~ (pc[t] \in {"added", "mirror", "answer"} /\ Current(t) = m)

(* The threads that may still add m: with a mark, those that have it in their
   batch already; without one, all that are at work. *)
Ahead(m) == {t \in ThreadsOf(To[m][1]) : Treats(t, m)}
Unspent(m) == {t \in ThreadsOf(To[m][1]) : pc[t] # "idle" /\ ~ Adding(t, m)}

Counted(m) ==
  IF Marked(To[m][1], Sent(m), m)
  THEN tracker[Home(m)][m] + Cardinality(Ahead(m)) <= 1 + crashes + overlaps
  ELSE tracker[Home(m)][m] + Cardinality(Unspent(m))
         <= crashes + overlaps + (IF Resting(To[m][1]) THEN 0 ELSE 1)

CInv == (\A h \in Hooks : Saved(h)) /\ \A m \in Messages : Counted(m)

LEMMA Fewer ==
  ASSUME NEW U \in SUBSET Threads, NEW S \in SUBSET U
  PROVE  Cardinality(S) \in Nat /\ Cardinality(U) \in Nat /\ Cardinality(S) <= Cardinality(U)
<1>1. IsFiniteSet(U)
  BY BoundsAreNumbers, FS_Subset
<1> QED BY <1>1, FS_Subset, FS_CardinalityType

LEMMA OneFewer ==
  ASSUME NEW U \in SUBSET Threads, NEW t \in U, NEW S \in SUBSET U, t \notin S
  PROVE  Cardinality(S) + 1 <= Cardinality(U)
<1>1. IsFiniteSet(U) /\ S \subseteq U \ {t}
  BY BoundsAreNumbers, FS_Subset
<1>2. IsFiniteSet(U \ {t}) /\ Cardinality(U \ {t}) = Cardinality(U) - 1
  BY <1>1, FS_RemoveElement
<1>3. Cardinality(S) <= Cardinality(U \ {t}) /\ Cardinality(S) \in Nat /\ Cardinality(U) \in Nat
  BY <1>1, <1>2, FS_Subset, FS_CardinalityType
<1> QED BY <1>2, <1>3

LEMMA OneMore ==
  ASSUME NEW U \in SUBSET Threads, NEW t \in Threads, NEW S \in SUBSET (U \cup {t})
  PROVE  Cardinality(S) <= Cardinality(U) + 1
<1>1. IsFiniteSet(U) /\ IsFiniteSet(U \cup {t})
  BY BoundsAreNumbers, FS_Subset
<1>2. Cardinality(U \cup {t}) <= Cardinality(U) + 1 /\ Cardinality(U) \in Nat
  BY <1>1, FS_AddElement, FS_CardinalityType
<1>3. Cardinality(S) <= Cardinality(U \cup {t}) /\ Cardinality(S) \in Nat /\ Cardinality(U \cup {t}) \in Nat
  BY <1>1, FS_Subset, FS_CardinalityType
<1> QED BY <1>2, <1>3

LEMMA OtherQuiet == ASSUME NEW u \in Threads, Aside(u) PROVE Quiet(u)' = Quiet(u)
BY DEF Aside, Quiet

LEMMA ActSaved ==
  ASSUME TInv, FInv, CInv, NEW h \in Hooks, NEW t \in ThreadsOf(h), Act(h, t)
  PROVE  Saved(h)'
<1>0. /\ t \in Threads /\ Of[t] = h
      /\ TypeOK /\ Stage(t) /\ Bound(t) /\ Saved(h) /\ bind[h] \in Projects /\ back[t] \in {"retry", "file"}
      /\ mem[h] \in [Messages -> Marks] /\ bind' = bind
      /\ mem \in [Hooks -> [Messages -> Marks]] /\ jour \in [Hooks -> [Projects -> [Messages -> Marks]]]
      /\ pc \in [Threads -> Points] /\ bind \in [Hooks -> Projects] /\ back \in [Threads -> {"retry", "file"}]
  BY ThreadOf, OthersAside DEF TInv, FInv, CInv, TypeOK, Points
<1>1. ASSUME Quiet(t) \/ ~ Quiet(t)', UNCHANGED state PROVE Saved(h)'
  <2>1. \A u \in ThreadsOf(h) : u # t => Quiet(u)' = Quiet(u)
    BY <1>0, ThreadOf, OthersAside, OtherQuiet
  <2>2. (\A u \in ThreadsOf(h) : Quiet(u)') => \A u \in ThreadsOf(h) : Quiet(u)
    BY <1>1, <2>1
  <2>3. (\A u \in ThreadsOf(h) : Quiet(u)') => mem'[h] = jour'[h][bind'[h]]
    BY <1>0, <1>1, <2>2 DEF Saved, state
  <2> QED BY <2>3 DEF Saved, ThreadsOf
<1>2. ASSUME NEW marks \in [Messages -> Marks], SaveMarks(h, marks) PROVE Saved(h)'
  <2>1. mem'[h] = marks /\ jour'[h][bind[h]] = marks
    BY <1>0, <1>2, MarksGo
  <2> QED BY <1>0, <2>1 DEF Saved
<1>3. ASSUME pc'[t] \in {"file", "added"} \/ (pc'[t] = "mirror" /\ back'[t] = "file") PROVE Saved(h)'
  <2>1. ~ Quiet(t)'
    BY <1>3 DEF Quiet, Naming
  <2> QED BY <2>1 DEF Saved, ThreadsOf
<1>4. CASE Turn(h, t)
  BY <1>0, <1>2, <1>4 DEF Turn
<1>5. CASE Resolve(h, t)
  BY <1>1, <1>5 DEF Resolve, Starts, Quiet
<1>6. CASE Retry(h, t)
  BY <1>0, <1>1, <1>6 DEF Retry, Quiet
<1>7. CASE Pending(h, t)
  BY <1>0, <1>1, <1>7 DEF Pending, Quiet
<1>8. CASE BindName(h, t) \/ ClaimName(h, t) \/ Probe(h, t)
  BY <1>0, <1>1, <1>8 DEF BindName, ClaimName, Probe, Quiet, Naming
<1>9. CASE File(h, t)
  <2>1. \/ SaveMarks(h, mem[h]) \/ Goto(t, "added") \/ Advance(t, "file")
        \/ Rebound(h, t) \/ name[h] = NoName
    BY <1>9, Zenon DEF File
  <2>2. ~ Rebound(h, t) /\ name[h] # NoName
    BY <1>0, <1>9 DEF File, Bound, Batching, Rebound
  <2>3. CASE Goto(t, "added") \/ Advance(t, "file")
    BY <1>0, <1>3, <2>3, Gone, Advanced DEF Points
  <2> QED BY <1>0, <1>2, <2>1, <2>2, <2>3
<1>10. CASE ReadBack(h, t)
  <2>1. \/ SaveMarks(h, mem[h]) \/ Advance(t, "file") \/ name[h] = NoName
        \/ Goto(t, "mirror") /\ back' = [back EXCEPT ![t] = "file"]
    BY <1>10, Zenon DEF ReadBack
  <2>2. name[h] # NoName
    BY <1>0, <1>10 DEF ReadBack, Bound, Batching
  <2>3. CASE Advance(t, "file")
    BY <1>0, <1>3, <2>3, Advanced DEF Points
  <2>4. CASE Goto(t, "mirror") /\ back' = [back EXCEPT ![t] = "file"]
    BY <1>0, <1>3, <2>4, Gone DEF Points
  <2> QED BY <1>0, <1>2, <2>1, <2>2, <2>3, <2>4
<1>11. CASE Added(h, t)
  <2>1. Rebound(h, t) \/ (Goto(t, "mirror") /\ back' = [back EXCEPT ![t] = "file"])
    BY <1>11, Zenon DEF Added
  <2>2. ~ Rebound(h, t)
    BY <1>0, <1>11 DEF Added, Bound, Rebound
  <2> QED BY <1>0, <1>3, <2>1, <2>2, Gone DEF Points
<1>12. CASE MirrorRequest(h, t)
  <2>1. /\ UNCHANGED state /\ pc[t] = "mirror"
        /\ (Goto(t, "answer") /\ UNCHANGED back) \/ Return(t)
    BY <1>12, Zenon DEF MirrorRequest
  <2>2. (pc'[t] = "answer" /\ back'[t] = back[t]) \/ pc'[t] = back[t]
    BY <1>0, <2>1, Gone, Returned DEF Points
  <2> QED BY <1>0, <1>1, <2>1, <2>2 DEF Quiet, Naming
<1>13. CASE MirrorAnswer(h, t)
  <2>1. /\ pc[t] = "answer" /\ Return(t) /\ todo[t] # {}
    BY <1>0, <1>13, Zenon DEF MirrorAnswer, Stage
  <2>2. ~ Rebound(h, t)
    BY <1>0, <2>1 DEF Bound, Rebound
  <2>3. CASE UNCHANGED state
    <3>1. pc'[t] = back[t]
      BY <1>0, <2>1, Returned DEF Points
    <3> QED BY <1>0, <1>1, <2>1, <2>3, <3>1 DEF Quiet, Naming
  <2>4. CASE ~ UNCHANGED state
    BY <1>0, <1>2, <1>13, <2>1, <2>2, <2>4, MirrorMarks
  <2> QED BY <2>3, <2>4
<1> QED BY <1>4, <1>5, <1>6, <1>7, <1>8, <1>9, <1>10, <1>11, <1>12, <1>13 DEF Act, Step

LEMMA ShiftSaved ==
  ASSUME RebindWhileFiling = FALSE, TypeOK, NEW h \in Hooks, Shift(h)
  PROVE  Saved(h)'
<1>1. PICK p \in Projects : bind' = [bind EXCEPT ![h] = p] /\ mem' = [mem EXCEPT ![h] = jour[h][p]] /\ jour' = jour
  BY ShiftRests
<1>2. bind'[h] = p /\ mem'[h] = jour'[h][p]
  BY <1>1 DEF TypeOK
<1> QED BY <1>2 DEF Saved

(* A mark once set stays, unless the process dies. *)
LEMMA MarkStays ==
  ASSUME TInv, FInv, NEW h \in Hooks, NEW t \in ThreadsOf(h), Act(h, t),
         NEW p \in Projects, NEW m \in Messages, Marked(h, p, m)
  PROVE  Marked(h, p, m)'
<1>0. TypeOK /\ bind' = bind
  BY OthersAside DEF TInv
<1>1. CASE UNCHANGED state
  BY <1>0, <1>1 DEF Marked, state
<1>2. CASE ~ UNCHANGED state
  <2>1. PICK marks \in [Messages -> Marks] : (Remember(h, marks) \/ SaveMarks(h, marks)) /\ Onward(h, marks)
    BY <1>2, ActMarks
  <2>2. mem'[h] = marks /\ \A q \in Projects : q # bind[h] => jour'[h][q] = jour[h][q]
    BY <1>0, <2>1, MarksGo
  <2> QED BY <1>0, <2>1, <2>2 DEF Marked, Onward
<1> QED BY <1>1, <1>2

(* An add that was under way is marked, unless the queue shows that it never
   landed. *)
LEMMA AddIsMarked ==
  ASSUME TInv, FInv, NEW h \in Hooks, NEW t \in ThreadsOf(h), Act(h, t), NEW m \in Messages, Adding(t, m)
  PROVE  Marked(h, Sent(m), m)' \/ (~ (tracker[Home(m)][m] > 0) /\ pc'[t] = "idle")
<1>0. /\ t \in Threads /\ Of[t] = h /\ Named(h) /\ bind' = bind
      /\ TypeOK /\ Stage(t) /\ Bound(t) /\ Work(t) /\ bind[h] \in Projects
      /\ mem \in [Hooks -> [Messages -> Marks]] /\ pc \in [Threads -> Points]
      /\ pc[t] = "added" /\ todo[t] # {} /\ Current(t) = m /\ name[h] # NoName
      /\ mem[h] \in [Messages -> Marks]
  BY ThreadOf, OthersAside DEF TInv, FInv, TypeOK, Adding, Stage, Bound, Batching, Points
<1>1. To[m] = <<h, bind[h]>> /\ name[h] = Home(m) /\ Sent(m) = bind[h]
  <2>1. Current(t) \in todo[t]
    BY <1>0, CurrentIsThere
  <2> QED BY <1>0, <2>1 DEF Named, Work, Batching, Home, Sent
<1>2. ~ Rebound(h, t)
  BY <1>0 DEF Bound, Rebound
<1>3. ReadBack(h, t) \/ Added(h, t)
  BY <1>0 DEF Act, Step, Turn, Resolve, Starts, Retry, Pending, BindName, ClaimName, Probe, File, MirrorRequest,
              MirrorAnswer
<1>4. ASSUME NEW f \in {"filed", "unknown"}, Remember(h, [mem[h] EXCEPT ![Current(t)].filed = f])
      PROVE  Marked(h, Sent(m), m)'
  <2>1. mem'[h][m].filed = f
    BY <1>0, <1>4 DEF Remember, Marks
  <2> QED BY <1>0, <1>1, <2>1 DEF Marked, Sent
<1>5. CASE Added(h, t)
  <2>1. Remember(h, [mem[h] EXCEPT ![Current(t)].filed = "filed"])
    BY <1>2, <1>5, Zenon DEF Added
  <2> QED BY <1>4, <2>1
<1>6. CASE ReadBack(h, t)
  <2>1. \/ Remember(h, [mem[h] EXCEPT ![Current(t)].filed = "filed"])
        \/ Remember(h, [mem[h] EXCEPT ![Current(t)].filed = "unknown"])
        \/ ~ FindFiled(h, t) /\ Goto(t, "idle")
    BY <1>0, <1>6, Zenon DEF ReadBack, Rest
  <2>2. FindFiled(h, t) <=> tracker[Home(m)][m] > 0
    BY <1>0, <1>1 DEF FindFiled
  <2>3. Goto(t, "idle") => pc'[t] = "idle"
    BY <1>0 DEF Goto
  <2> QED BY <1>4, <2>1, <2>2, <2>3
<1> QED BY <1>3, <1>5, <1>6

(* A thread has a message before it only if it was at work already and not
   adding it, and a marked one only if it had that before it. *)
LEMMA ActTreats ==
  ASSUME TInv, FInv, NEW h \in Hooks, NEW t \in ThreadsOf(h), Act(h, t), NEW m \in Messages, Treats(t, m)'
  PROVE  pc[t] # "idle" /\ ~ Adding(t, m) /\ (Treats(t, m) \/ ~ Marked(h, Sent(m), m))
<1>0. /\ t \in Threads /\ Of[t] = h /\ TypeOK /\ Stage(t) /\ back[t] \in {"retry", "file"}
      /\ pc \in [Threads -> Points] /\ todo \in [Threads -> SUBSET Messages] /\ back \in [Threads -> {"retry", "file"}]
  BY ThreadOf DEF TInv, TypeOK, Points
<1>1. /\ pc'[t] \in {"file", "added"} \cup Naming \/ (pc'[t] \in {"mirror", "answer"} /\ back'[t] = "file")
      /\ m \in todo'[t] /\ ~ (pc'[t] \in {"added", "mirror", "answer"} /\ Current(t)' = m)
  BY DEF Treats, Batching
<1>2. CASE Turn(h, t)
  BY <1>0, <1>1, <1>2, Gone DEF Turn, Points, Naming
<1>3. CASE Resolve(h, t)
  BY <1>0, <1>1, <1>3 DEF Resolve
<1>4. CASE Retry(h, t)
  <2>1. \/ Goto(t, "pending") \/ Advance(t, "retry")
        \/ Goto(t, "mirror") /\ back' = [back EXCEPT ![t] = "retry"]
    BY <1>4, Zenon DEF Retry
  <2>2. pc'[t] \in {"pending", "retry"} \/ (pc'[t] = "mirror" /\ back'[t] = "retry")
    BY <1>0, <2>1, Gone, Advanced DEF Points
  <2> QED BY <1>1, <2>2 DEF Naming
<1>5. CASE Pending(h, t)
  <2>1. pc[t] = "pending" /\ todo'[t] = First(unfiled(h)) /\ First(unfiled(h)) \subseteq unfiled(h)
    BY <1>0, <1>5, FirstIsPart DEF Pending
  <2>2. To[m] = <<h, bind[h]>> /\ mem[h][m].filed = "no"
    BY <1>1, <2>1 DEF unfiled, Addressed
  <2> QED BY <2>1, <2>2 DEF Marked, Sent, Adding
<1>6. CASE BindName(h, t) \/ ClaimName(h, t) \/ Probe(h, t)
  <2>1. pc[t] \in Naming /\ (Rest(t) \/ todo' = todo)
    BY <1>6 DEF BindName, ClaimName, Probe, thread, Naming
  <2> QED BY <1>0, <1>1, <2>1, Rested DEF Treats, Adding, Naming
<1>7. CASE File(h, t)
  <2>1. /\ pc[t] = "file"
        /\ UNCHANGED todo \/ Advance(t, "file") \/ Rest(t)
    BY <1>7, Zenon DEF File
  <2>2. todo'[t] \subseteq todo[t]
    BY <1>0, <2>1, Advanced, Rested DEF Points
  <2> QED BY <1>1, <2>1, <2>2 DEF Treats, Batching, Adding
<1>8. ASSUME Batching(t), pc[t] \in {"added", "mirror", "answer"},
             \/ UNCHANGED todo /\ pc'[t] \in {"mirror", "answer"}
             \/ todo'[t] = todo[t] \ {Current(t)}
      PROVE  pc[t] # "idle" /\ ~ Adding(t, m) /\ (Treats(t, m) \/ ~ Marked(h, Sent(m), m))
  <2>1. m \in todo[t] /\ m # Current(t)
    <3>1. CASE UNCHANGED todo /\ pc'[t] \in {"mirror", "answer"}
      <4>1. Current(t)' = Current(t)
        BY <3>1 DEF Current
      <4> QED BY <1>1, <3>1, <4>1
    <3>2. CASE todo'[t] = todo[t] \ {Current(t)}
      BY <1>1, <3>2
    <3> QED BY <1>8, <3>1, <3>2
  <2> QED BY <1>8, <2>1 DEF Treats, Adding
<1>9. CASE ReadBack(h, t)
  <2>1. /\ pc[t] = "added"
        /\ \/ Goto(t, "mirror") /\ UNCHANGED todo
           \/ Goto(t, "idle")
           \/ Advance(t, "file")
    BY <1>9, Zenon DEF ReadBack, Rest
  <2>2. CASE Goto(t, "idle")
    BY <1>0, <1>1, <2>2, Gone DEF Points, Naming
  <2>3. CASE Goto(t, "mirror") /\ UNCHANGED todo
    BY <1>0, <1>8, <2>1, <2>3, Gone DEF Points, Batching
  <2>4. CASE Advance(t, "file")
    BY <1>0, <1>8, <2>1, <2>4, Advanced DEF Points, Batching
  <2> QED BY <2>1, <2>2, <2>3, <2>4
<1>10. CASE Added(h, t)
  <2>1. /\ pc[t] = "added"
        /\ (Goto(t, "mirror") /\ UNCHANGED todo) \/ Goto(t, "idle")
    BY <1>10, Zenon DEF Added, Rest
  <2>2. CASE Goto(t, "idle")
    BY <1>0, <1>1, <2>2, Gone DEF Points, Naming
  <2>3. CASE Goto(t, "mirror") /\ UNCHANGED todo
    BY <1>0, <1>8, <2>1, <2>3, Gone DEF Points, Batching
  <2> QED BY <2>1, <2>2, <2>3
<1>11. CASE MirrorRequest(h, t) \/ MirrorAnswer(h, t)
  <2>1. /\ pc[t] \in {"mirror", "answer"}
        /\ (Goto(t, "answer") /\ UNCHANGED <<todo, back>>) \/ Return(t)
    BY <1>11, Zenon DEF MirrorRequest, MirrorAnswer
  <2>2. \/ UNCHANGED todo /\ pc'[t] = "answer" /\ back'[t] = back[t]
        \/ todo'[t] = todo[t] \ {Current(t)} /\ pc'[t] = back[t]
    BY <1>0, <2>1, Gone, Returned DEF Points
  <2>3. back[t] = "file"
    BY <1>0, <1>1, <2>2 DEF Naming
  <2> QED BY <1>8, <2>1, <2>2, <2>3 DEF Batching
<1> QED BY <1>2, <1>3, <1>4, <1>5, <1>6, <1>7, <1>9, <1>10, <1>11 DEF Act, Step

LEMMA ActStarts ==
  ASSUME NEW h \in Hooks, NEW t \in ThreadsOf(h), Act(h, t), pc[t] = "idle"
  PROVE  Starts(h, t) /\ UNCHANGED tracker
BY DEF Act, Step, Turn, Resolve, Retry, Pending, BindName, ClaimName, Probe, File, ReadBack, Added, MirrorRequest,
       MirrorAnswer, Naming

LEMMA NumbersTyped == ASSUME TypeOK PROVE crashes \in Nat /\ overlaps \in Nat
BY BoundsAreNumbers DEF TypeOK

LEMMA Slack ==
  ASSUME NEW n \in Nat, NEW c \in Nat, NEW o \in Nat, NEW r \in Nat, NEW d \in Nat, NEW p \in Nat,
         c <= d, o <= p, n <= c + o + r
  PROVE  n <= d + p + r
OBVIOUS

(* A step for another hook, which may be one more overlap. *)
LEMMA CountedElsewhere ==
  ASSUME TypeOK, TypeOK', NEW m \in Messages, Counted(m), Apart(To[m][1]), \A t \in ThreadsOf(To[m][1]) : Aside(t),
         tracker'[Home(m)][m] = tracker[Home(m)][m], crashes' \in {crashes, crashes + 1},
         overlaps' \in {overlaps, overlaps + 1}
  PROVE  Counted(m)'
<1>1. \A t \in ThreadsOf(To[m][1]) : Treats(t, m)' = Treats(t, m) /\ Adding(t, m)' = Adding(t, m) /\ pc'[t] = pc[t]
  BY DEF Aside, Treats, Adding, Batching, Current
<1>2. Ahead(m)' = Ahead(m) /\ Unspent(m)' = Unspent(m)
  BY <1>1 DEF Ahead, Unspent, ThreadsOf
<1>3. /\ Marked(To[m][1], Sent(m), m)' = Marked(To[m][1], Sent(m), m) /\ Resting(To[m][1])' = Resting(To[m][1])
      /\ tracker'[Home(m)'][m] = tracker[Home(m)][m]
  BY <1>1 DEF Apart, Marked, Resting, ThreadsOf, Sent, Home
<1>4. tracker[Home(m)][m] \in Nat
  BY HomeNamed DEF TypeOK
<1>5. Cardinality(Ahead(m)) \in Nat /\ Cardinality(Unspent(m)) \in Nat
  BY Fewer DEF Ahead, Unspent, ThreadsOf
<1>6. /\ crashes \in Nat /\ overlaps \in Nat /\ crashes' \in Nat /\ overlaps' \in Nat
      /\ crashes <= crashes' /\ overlaps <= overlaps'
  BY NumbersTyped
<1>7. CASE Marked(To[m][1], Sent(m), m)
  <2> DEFINE k == tracker[Home(m)][m]
             a == Cardinality(Ahead(m))
  <2>1. k + a <= 1 + crashes + overlaps /\ k \in Nat /\ a \in Nat
    BY <1>4, <1>5, <1>7 DEF Counted
  <2> HIDE DEF k, a
  <2>2. k + a <= crashes' + overlaps' + 1
    <3>1. k + a \in Nat /\ k + a <= crashes + overlaps + 1
      BY <1>6, <2>1
    <3> QED BY <1>6, <3>1, Slack
  <2>3. tracker'[Home(m)'][m] + Cardinality(Ahead(m)') <= 1 + crashes' + overlaps'
    BY <1>2, <1>3, <1>6, <2>2 DEF k, a
  <2>4. Marked(To[m][1], Sent(m), m)'
    BY <1>3, <1>7
  <2> QED BY <2>3, <2>4 DEF Counted
<1>8. CASE ~ Marked(To[m][1], Sent(m), m)
  <2> DEFINE k == tracker[Home(m)][m]
             a == Cardinality(Unspent(m))
             r == IF Resting(To[m][1]) THEN 0 ELSE 1
  <2>1. k + a <= crashes + overlaps + r /\ k \in Nat /\ a \in Nat /\ r \in Nat
    BY <1>4, <1>5, <1>8 DEF Counted
  <2> HIDE DEF k, a, r
  <2>2. k + a <= crashes' + overlaps' + r
    <3>1. k + a \in Nat /\ r \in Nat /\ k + a <= crashes + overlaps + r
      BY <2>1
    <3> QED BY <1>6, <3>1, Slack
  <2>3. tracker'[Home(m)'][m] + Cardinality(Unspent(m)') <= crashes' + overlaps' + (IF Resting(To[m][1])' THEN 0 ELSE 1)
    BY <1>2, <1>3, <2>2 DEF k, a, r
  <2>4. ~ Marked(To[m][1], Sent(m), m)'
    BY <1>3, <1>8
  <2> QED BY <2>3, <2>4 DEF Counted
<1> QED BY <1>7, <1>8

(* A step of a thread of the hook m was sent to. *)
LEMMA CountedHere ==
  ASSUME TInv, TypeOK', FInv, CInv, NEW h \in Hooks, NEW t \in ThreadsOf(h), Act(h, t),
         NEW m \in Messages, To[m][1] = h
  PROVE  Counted(m)'
<1> DEFINE p == Sent(m)
           n == Home(m)
           k == tracker[n][m]
           A == Ahead(m)
           U == Unspent(m)
<1>0. /\ t \in Threads /\ Of[t] = h /\ TypeOK /\ Counted(m) /\ p \in Projects /\ n \in Names
      /\ To[m] = <<h, p>>
      /\ tracker \in [Names -> [Messages -> Nat]] /\ k \in Nat /\ crashes' = crashes
      /\ \A u \in Threads : u # t => Aside(u)
      /\ crashes \in Nat /\ overlaps \in Nat
  <2>1. To[m] \in Hooks \X Projects /\ \A x \in Messages : Sent(x) \in Projects /\ Home(x) \in Names
    BY BoundsAreNumbers, HomeNamed
  <2> QED BY <2>1, ThreadOf, OthersAside, NumbersTyped DEF TInv, CInv, TypeOK, Sent
<1>1. A \subseteq U /\ U \subseteq Threads /\ A \in SUBSET U /\ A \in SUBSET Threads /\ U \in SUBSET Threads
  BY DEF Ahead, Unspent, Treats, Adding, Batching, Naming, ThreadsOf
<1>2. Cardinality(A) \in Nat /\ Cardinality(U) \in Nat /\ Cardinality(A) <= Cardinality(U)
  BY <1>1, Fewer
<1>3. ASSUME NEW u \in ThreadsOf(h), u # t
      PROVE  Treats(u, m)' = Treats(u, m) /\ Adding(u, m)' = Adding(u, m) /\ pc'[u] = pc[u]
  BY <1>0, <1>3, ThreadOf DEF Aside, Treats, Adding, Batching, Current
<1>4. Home(m)' = n /\ Sent(m)' = p /\ Ahead(m)' \subseteq ThreadsOf(h) /\ Unspent(m)' \subseteq ThreadsOf(h)
      /\ t \in ThreadsOf(h) /\ ThreadsOf(h) \subseteq Threads
  BY DEF Home, Sent, Ahead, Unspent, ThreadsOf
<1>5. /\ Ahead(m)' \subseteq U
      /\ Marked(h, p, m) => Ahead(m)' \subseteq A
  <2>1. ASSUME NEW u \in Ahead(m)' PROVE u \in U /\ (Marked(h, p, m) => u \in A)
    <3>1. u \in ThreadsOf(h) /\ Treats(u, m)'
      BY <1>4 DEF Ahead, ThreadsOf
    <3>2. CASE u = t
      <4>1. pc[t] # "idle" /\ ~ Adding(t, m) /\ (Treats(t, m) \/ ~ Marked(h, Sent(m), m))
        BY <3>1, <3>2, ActTreats
      <4> QED BY <3>1, <3>2, <4>1 DEF Ahead, Unspent
    <3>3. CASE u # t
      <4>1. Treats(u, m)
        BY <1>3, <3>1, <3>3
      <4> QED BY <1>1, <3>1, <4>1 DEF Ahead
    <3> QED BY <3>2, <3>3
  <2> QED BY <2>1
<1>6. \A u \in Unspent(m)' : u = t \/ u \in U
  <2> SUFFICES ASSUME NEW u \in Unspent(m)', u # t PROVE u \in U
    OBVIOUS
  <2>1. u \in ThreadsOf(h) /\ pc'[u] # "idle" /\ ~ Adding(u, m)'
    BY <1>4 DEF Unspent, ThreadsOf
  <2>2. pc[u] # "idle" /\ ~ Adding(u, m)
    BY <1>3, <2>1
  <2> QED BY <2>1, <2>2 DEF Unspent
<1>7. Marked(h, p, m) => Marked(h, p, m)'
  BY <1>0, MarkStays
<1>8. /\ Marked(h, p, m) => k + Cardinality(A) <= 1 + crashes + overlaps
      /\ ~ Marked(h, p, m) => k + Cardinality(U) <= crashes + overlaps + (IF Resting(h) THEN 0 ELSE 1)
  BY <1>0 DEF Counted
<1>9. SUFFICES /\ Marked(h, p, m)' => tracker'[n][m] + Cardinality(Ahead(m)') <= 1 + crashes' + overlaps'
               /\ ~ Marked(h, p, m)' =>
                    tracker'[n][m] + Cardinality(Unspent(m)') <= crashes' + overlaps' + (IF Resting(h)' THEN 0 ELSE 1)
  <2>1. Marked(To[m][1], Sent(m), m)' = Marked(h, p, m)' /\ Resting(To[m][1])' = Resting(h)'
    OBVIOUS
  <2> QED BY <1>4, <1>9, <2>1 DEF Counted
<1>10. CASE tracker' # tracker /\ Current(t) = m
  <2>1. /\ pc[t] = "file" /\ pc'[t] = "added" /\ UNCHANGED <<todo, mem, jour, bind>>
        /\ Current(t) \in todo[t] /\ tracker' = [tracker EXCEPT ![n][m] = @ + 1] /\ overlaps' = overlaps
    <3>1. overlaps' = overlaps
      <4>1. ~ Starts(h, t)
        BY <1>10, AddAdds DEF Starts, TInv
      <4> QED BY <1>0, <4>1, OthersAside
    <3>2. todo[t] # {}
      BY <1>10, AddAdds
    <3> QED BY <1>0, <1>10, <3>1, <3>2, AddAdds, CurrentIsThere
  <2>2. tracker'[n][m] = k + 1
    BY <1>0, <2>1
  <2>3. Marked(h, p, m)' = Marked(h, p, m)
    BY <2>1 DEF Marked
  <2>4. t \in A /\ t \in U
    <3>1. Treats(t, m)
      BY <1>10, <2>1 DEF Treats, Batching
    <3> QED BY <1>1, <1>4, <3>1 DEF Ahead
  <2>5. ~ Treats(t, m)' /\ Adding(t, m)'
    <3>1. Current(t)' = m
      BY <1>10, <2>1 DEF Current
    <3> QED BY <2>1, <3>1 DEF Treats, Adding
  <2>6. t \notin Ahead(m)' /\ t \notin Unspent(m)'
    BY <2>5 DEF Ahead, Unspent
  <2>7. CASE Marked(h, p, m)
    <3>1. Cardinality(Ahead(m)') + 1 <= Cardinality(A) /\ Cardinality(Ahead(m)') \in Nat
      BY <1>1, <1>5, <2>4, <2>6, <2>7, OneFewer, Fewer
    <3> QED BY <1>0, <1>2, <1>8, <2>1, <2>2, <2>3, <2>7, <3>1
  <2>8. CASE ~ Marked(h, p, m)
    <3>1. Unspent(m)' \in SUBSET U
      BY <1>6, <2>6
    <3>2. Cardinality(Unspent(m)') + 1 <= Cardinality(U) /\ Cardinality(Unspent(m)') \in Nat
      BY <1>1, <2>4, <2>6, <3>1, OneFewer, Fewer
    <3>3. ~ Resting(h) /\ ~ Resting(h)'
      BY <1>4, <2>1 DEF Resting, ThreadsOf
    <3> QED BY <1>0, <1>2, <1>8, <2>1, <2>2, <2>3, <2>8, <3>2, <3>3
  <2> QED BY <2>7, <2>8
<1>11. CASE ~ (tracker' # tracker /\ Current(t) = m)
  <2>1. tracker'[n][m] = k
    BY <1>0, <1>11, AddAdds
  <2>2. overlaps' = overlaps \/ overlaps' = overlaps + 1
    BY <1>0, OthersAside
  <2>3. CASE Marked(h, p, m)
    <3>1. Cardinality(Ahead(m)') <= Cardinality(A) /\ Cardinality(Ahead(m)') \in Nat
      BY <1>1, <1>5, <2>3, Fewer
    <3> QED BY <1>0, <1>2, <1>7, <1>8, <2>1, <2>2, <2>3, <3>1
  <2>4. CASE ~ Marked(h, p, m) /\ Marked(h, p, m)'
    <3>1. Cardinality(Ahead(m)') <= Cardinality(U) /\ Cardinality(Ahead(m)') \in Nat
      BY <1>1, <1>5, Fewer
    <3>2. k + Cardinality(U) <= crashes + overlaps + 1
      BY <1>0, <1>2, <1>8, <2>4
    <3> QED BY <1>0, <1>2, <2>1, <2>2, <2>4, <3>1, <3>2
  <2>5. CASE ~ Marked(h, p, m) /\ ~ Marked(h, p, m)' /\ pc[t] = "idle"
    <3>1. Starts(h, t)
      BY <2>5, ActStarts
    <3>2. Cardinality(Unspent(m)') <= Cardinality(U) + 1 /\ Cardinality(Unspent(m)') \in Nat
      <4>1. Unspent(m)' \in SUBSET (U \cup {t}) /\ Unspent(m)' \in SUBSET Threads
        BY <1>4, <1>6
      <4> QED BY <1>0, <1>1, <4>1, OneMore, Fewer
    <3>3. k + Cardinality(U) <= crashes + overlaps + (IF Resting(h) THEN 0 ELSE 1)
      BY <1>8, <2>5
    <3>4. CASE Resting(h)
      <4>1. ~ Resting(h)'
        <5>1. pc'[t] # "idle"
          BY <1>0, <2>5 DEF Act, Step, Turn, Resolve, Retry, Pending, BindName, ClaimName, Probe, File, ReadBack,
                            Added, MirrorRequest, MirrorAnswer, Goto, TypeOK, Naming
        <5> QED BY <1>4, <5>1 DEF Resting, ThreadsOf
      <4> QED BY <1>0, <1>2, <2>1, <2>2, <2>5, <3>2, <3>3, <3>4, <4>1
    <3>5. CASE ~ Resting(h)
      <4>1. overlaps' = overlaps + 1
        BY <3>1, <3>5 DEF Starts
      <4>2. ~ Resting(h)'
        BY <1>3, <2>5, <3>5 DEF Resting, ThreadsOf
      <4> QED BY <1>0, <1>2, <2>1, <2>5, <3>2, <3>3, <3>5, <4>1, <4>2
    <3> QED BY <3>4, <3>5
  <2>6. CASE ~ Marked(h, p, m) /\ ~ Marked(h, p, m)' /\ pc[t] # "idle"
    <3>1. ~ Resting(h)
      BY <1>4, <2>6 DEF Resting
    <3>2. k + Cardinality(U) <= crashes + overlaps + 1
      BY <1>0, <1>2, <1>8, <2>6, <3>1
    <3>3. Adding(t, m) => k = 0
      BY <1>0, <2>6, AddIsMarked
    <3>4. CASE Resting(h)'
      <4>1. Unspent(m)' = {}
        BY <1>4, <3>4 DEF Unspent, Resting, ThreadsOf
      <4>2. Cardinality(Unspent(m)') = 0
        BY <4>1, FS_EmptySet
      <4>3. k = 0 \/ 1 <= Cardinality(U)
        <5>1. CASE Adding(t, m)
          BY <3>3, <5>1
        <5>2. CASE ~ Adding(t, m)
          <6>1. t \in U /\ {} \in SUBSET U
            BY <1>4, <2>6, <5>2 DEF Unspent
          <6>2. Cardinality({}) + 1 <= Cardinality(U) /\ Cardinality({}) = 0
            BY <1>1, <6>1, OneFewer, FS_EmptySet
          <6> QED BY <6>2
        <5> QED BY <5>1, <5>2
      <4>4. k <= crashes + overlaps
        BY <1>0, <1>2, <3>2, <4>3
      <4> QED BY <1>0, <2>1, <2>2, <2>6, <3>4, <4>2, <4>4
    <3>5. CASE ~ Resting(h)'
      <4>1. Cardinality(Unspent(m)') \in Nat /\ k + Cardinality(Unspent(m)') <= crashes + overlaps + 1
        <5>1. CASE Adding(t, m) /\ pc'[t] # "idle" /\ ~ Adding(t, m)'
          BY <1>0, <2>6, <5>1, AddIsMarked
        <5>2. CASE t \in U \/ t \notin Unspent(m)'
          <6>1. Unspent(m)' \in SUBSET U
            BY <1>6, <5>2
          <6> QED BY <1>0, <1>1, <1>2, <3>2, <6>1, Fewer
        <5>3. t \in Unspent(m)' => pc'[t] # "idle" /\ ~ Adding(t, m)'
          BY DEF Unspent
        <5>4. ~ Adding(t, m) => t \in U
          BY <1>4, <2>6 DEF Unspent
        <5> QED BY <5>1, <5>2, <5>3, <5>4
      <4> QED BY <1>0, <2>1, <2>2, <2>6, <3>5, <4>1
    <3> QED BY <3>4, <3>5
  <2> QED BY <2>3, <2>4, <2>5, <2>6
<1> QED BY <1>10, <1>11

(* A rebind or a death of the hook m was sent to. *)
LEMMA CountedShift ==
  ASSUME RebindWhileFiling = FALSE, TInv, TypeOK', CInv, NEW h \in Hooks, Shift(h),
         NEW m \in Messages, To[m][1] = h
  PROVE  Counted(m)'
<1> DEFINE p == Sent(m)
           n == Home(m)
           k == tracker[n][m]
<1>0. /\ TypeOK /\ Counted(m) /\ Saved(h) /\ p \in Projects /\ k \in Nat /\ tracker' = tracker
      /\ overlaps' = overlaps /\ crashes \in Nat /\ overlaps \in Nat
      /\ bind \in [Hooks -> Projects] /\ mem \in [Hooks -> [Messages -> Marks]]
  BY HomeNamed, NumbersTyped, OthersApart DEF TInv, CInv, TypeOK
<1>1. Resting(h)' /\ jour' = jour /\ (Rebind(h) => Resting(h))
  BY <1>0, ShiftRests
<1>2. Ahead(m)' = {} /\ Unspent(m)' = {}
  BY <1>1 DEF Ahead, Unspent, Treats, Batching, Naming, Resting, ThreadsOf
<1>3. Cardinality(Ahead(m)') = 0 /\ Cardinality(Unspent(m)') = 0
  BY <1>2, FS_EmptySet
<1>4. Cardinality(Ahead(m)) \in Nat /\ Cardinality(Unspent(m)) \in Nat
  BY Fewer DEF Ahead, Unspent, ThreadsOf
<1>5. /\ Marked(h, p, m) => k <= 1 + crashes + overlaps
      /\ ~ Marked(h, p, m) => k <= crashes + overlaps + (IF Resting(h) THEN 0 ELSE 1)
  BY <1>0, <1>4 DEF Counted
<1>6. Home(m)' = n /\ Sent(m)' = p
  BY DEF Home, Sent
<1>7. CASE Crash(h)
  <2>1. crashes' = crashes + 1
    BY <1>7 DEF Crash
  <2>2. k <= crashes' + overlaps'
    BY <1>0, <1>5, <2>1
  <2>3. tracker'[Home(m)'][m] = k
    BY <1>0, <1>6
  <2>4. k + 0 <= crashes' + overlaps' + 0 /\ k + 0 <= 1 + crashes' + overlaps'
    BY <1>0, <2>1, <2>2
  <2> HIDE DEF k
  <2> QED BY <1>1, <1>3, <2>3, <2>4 DEF Counted
<1>8. CASE Rebind(h)
  <2>1. crashes' = crashes
    BY <1>8 DEF Rebind
  <2>2. mem[h] = jour[h][bind[h]]
    BY <1>1, <1>8, <1>0 DEF Saved, Quiet, Resting
  <2>3. PICK q \in Projects : bind' = [bind EXCEPT ![h] = q] /\ mem' = [mem EXCEPT ![h] = jour[h][q]]
    BY <1>0, ShiftRests
  <2>4. Marked(h, p, m)' = Marked(h, p, m)
    <3>1. bind'[h] = q /\ mem'[h] = jour[h][q] /\ jour' = jour
      BY <1>0, <1>1, <2>3
    <3> QED BY <2>2, <3>1 DEF Marked
  <2>5. k + 0 <= 1 + crashes' + overlaps' /\ (~ Marked(h, p, m) => k + 0 <= crashes' + overlaps' + 0)
    BY <1>0, <1>1, <1>5, <1>8, <2>1
  <2>6. tracker'[Home(m)'][m] = k /\ Marked(To[m][1], Sent(m), m)' = Marked(h, p, m)
    BY <1>0, <1>6, <2>4
  <2> HIDE DEF k
  <2> QED BY <1>1, <1>3, <2>5, <2>6 DEF Counted
<1> QED BY <1>7, <1>8 DEF Shift

LEMMA InitCounted == Init => CInv
<1> SUFFICES ASSUME Init PROVE CInv
  OBVIOUS
<1>1. ASSUME NEW h \in Hooks PROVE Saved(h)
  BY DEF Init, Saved
<1>2. ASSUME NEW m \in Messages PROVE Counted(m)
  <2>1. tracker[Home(m)][m] = 0 /\ crashes = 0 /\ overlaps = 0 /\ Resting(To[m][1])
    BY HomeNamed DEF Init, Resting, ThreadsOf
  <2>2. Ahead(m) = {} /\ Unspent(m) = {}
    BY DEF Init, Ahead, Unspent, Treats, Batching, Naming, ThreadsOf
  <2>3. Cardinality(Ahead(m)) = 0 /\ Cardinality(Unspent(m)) = 0
    BY <2>2, FS_EmptySet
  <2> QED BY <2>1, <2>3 DEF Counted
<1> QED BY <1>1, <1>2 DEF CInv

LEMMA NextCounted == RebindWhileFiling = FALSE /\ TInv /\ TypeOK' /\ FInv /\ CInv /\ [Next]_vars => CInv'
<1> SUFFICES ASSUME RebindWhileFiling = FALSE, TInv, TypeOK', FInv, CInv, [Next]_vars PROVE CInv'
  OBVIOUS
<1>0. /\ TypeOK /\ (\A h \in Hooks : Saved(h)) /\ \A m \in Messages : Counted(m)
      /\ \A m \in Messages : To[m][1] \in Hooks
      /\ \A g \in Hooks : \A u \in ThreadsOf(g) : u \in Threads /\ Of[u] = g
  BY BoundsAreNumbers, ThreadOf DEF TInv, CInv
<1>1. ASSUME NEW g \in Hooks, Apart(g), \A u \in ThreadsOf(g) : Aside(u) PROVE Saved(g)'
  <2>1. \A u \in ThreadsOf(g) : Quiet(u)' = Quiet(u)
    BY <1>0, <1>1, OtherQuiet
  <2> QED BY <1>0, <1>1, <2>1 DEF Saved, Apart, ThreadsOf
<1>2. CASE UNCHANGED vars \/ Calm
  <2>1. UNCHANGED <<pc, batch, todo, back, result, tracker, bind, name, mem, jour, asked, read, crashes, overlaps>>
    BY <1>2 DEF vars, Calm, thread, state, binding, names
  <2>2. (\A u \in Threads : Aside(u)) /\ \A g \in Hooks : Apart(g)
    BY <2>1 DEF Aside, Apart
  <2>3. \A h \in Hooks : Saved(h)'
    BY <1>0, <1>1, <2>2
  <2>4. \A m \in Messages : Counted(m)'
    BY <1>0, <2>1, <2>2, CountedElsewhere
  <2> QED BY <2>3, <2>4 DEF CInv
<1>3. ASSUME NEW h \in Hooks, NEW t \in ThreadsOf(h), Act(h, t) PROVE CInv'
  <2>1. ASSUME NEW g \in Hooks, g # h PROVE Apart(g) /\ \A u \in ThreadsOf(g) : Aside(u)
    BY <1>0, <1>3, <2>1, OthersAside
  <2>2. ASSUME NEW g \in Hooks PROVE Saved(g)'
    <3>1. CASE g = h
      BY <1>3, <3>1, ActSaved
    <3>2. CASE g # h
      BY <1>1, <2>1, <3>2
    <3> QED BY <3>1, <3>2
  <2>3. ASSUME NEW m \in Messages PROVE Counted(m)'
    <3>1. CASE To[m][1] = h
      BY <1>3, <3>1, CountedHere
    <3>2. CASE To[m][1] # h
      <4>1. tracker'[Home(m)][m] = tracker[Home(m)][m]
        <5>1. tracker' # tracker => To[Current(t)][1] = h
          BY <1>3, AddAdds
        <5>2. tracker' # tracker => Current(t) # m
          BY <3>2, <5>1
        <5>3. tracker \in [Names -> [Messages -> Nat]]
          BY <1>0 DEF TypeOK
        <5> QED BY <1>3, <5>2, <5>3, AddAdds, HomeNamed
      <4>2. crashes' \in {crashes, crashes + 1} /\ overlaps' \in {overlaps, overlaps + 1}
        BY <1>0, <1>3, OthersAside
      <4> QED BY <1>0, <2>1, <3>2, <4>1, <4>2, CountedElsewhere
    <3> QED BY <3>1, <3>2
  <2> QED BY <2>2, <2>3 DEF CInv
<1>4. ASSUME NEW h \in Hooks, Shift(h) PROVE CInv'
  <2>1. ASSUME NEW g \in Hooks, g # h PROVE Apart(g) /\ \A u \in ThreadsOf(g) : Aside(u)
    BY <1>0, <1>4, <2>1, OthersApart
  <2>2. ASSUME NEW g \in Hooks PROVE Saved(g)'
    <3>1. CASE g = h
      BY <1>0, <1>4, <3>1, ShiftSaved
    <3>2. CASE g # h
      BY <1>1, <2>1, <3>2
    <3> QED BY <3>1, <3>2
  <2>3. ASSUME NEW m \in Messages PROVE Counted(m)'
    <3>1. CASE To[m][1] = h
      BY <1>4, <3>1, CountedShift
    <3>2. CASE To[m][1] # h
      <4>1. tracker' = tracker /\ overlaps' \in {overlaps, overlaps + 1}
        BY <1>0, <1>4, OthersApart
      <4>2. crashes' \in {crashes, crashes + 1}
        BY <1>4 DEF Shift, Rebind, Crash
      <4> QED BY <1>0, <2>1, <3>2, <4>1, <4>2, CountedElsewhere
    <3> QED BY <3>1, <3>2
  <2> QED BY <2>2, <2>3 DEF CInv
<1> QED BY <1>2, <1>3, <1>4 DEF Next, Act, Shift

(* A message is in one queue only, once and once more at most for each death
   of the process and each thread started beside a running one, if no rebind
   happens beside a thread of the hook. *)
THEOREM FiledOnceAlways == ASSUME RebindWhileFiling = FALSE PROVE Spec => []FiledOnce
<1>1. TInv /\ FInv /\ CInv => FiledOnce
  <2> SUFFICES ASSUME TInv, FInv, CInv, NEW m \in Messages, NEW n \in Names
               PROVE  tracker[n][m] <= 1 + crashes + overlaps
    BY DEF FiledOnce
  <2>1. tracker[n][m] \in Nat /\ crashes \in Nat /\ overlaps \in Nat
    BY NumbersTyped DEF TInv, TypeOK
  <2>2. Cardinality(Ahead(m)) \in Nat /\ Cardinality(Unspent(m)) \in Nat
    BY Fewer DEF Ahead, Unspent, ThreadsOf
  <2>3. CASE n = Home(m)
    <3>1. \/ tracker[n][m] + Cardinality(Ahead(m)) <= 1 + crashes + overlaps
          \/ tracker[n][m] + Cardinality(Unspent(m)) <= crashes + overlaps
          \/ tracker[n][m] + Cardinality(Unspent(m)) <= crashes + overlaps + 1
      BY <2>1, <2>2, <2>3 DEF CInv, Counted
    <3> QED BY <2>1, <2>2, <3>1
  <2>4. CASE n # Home(m)
    <3>1. ~ (tracker[n][m] > 0)
      BY <2>4 DEF FInv, AtHome
    <3> QED BY <2>1, <3>1
  <2> QED BY <2>3, <2>4
<1>2. TInv => TypeOK
  BY DEF TInv
<1>3. Spec => []CInv
  BY <1>2, Staged, Filed, InitCounted, NextCounted, PTL DEF Spec
<1> QED BY <1>1, <1>3, Staged, Filed, PTL

-----------------------------------------------------------------------------
(* With one process on the machine, whose threads never overlap, the registry
   is never lost between its two writes: a name in use is held by the project
   at work, and the names of the reports already filed by the projects they
   were sent in. *)
OneProcess == \A g, h \in Hooks : g = h

Alone == \A t, u \in Threads : pc[t] # "idle" /\ pc[u] # "idle" => t = u

Claim(t) ==
  /\ pc[t] \in Naming => name[Of[t]] = NoName
  /\ pc[t] = "claim" => read[t] = registry
  /\ pc[t] = "probe" => Held(registry, bind[Of[t]]) = bind[Of[t]]
  /\ pc[t] \in {"claim", "write"} => ~ Conflict(read[t], bind[Of[t]])
Holds(h) == name[h] # NoName => Held(registry, bind[h]) = bind[h]

(* What has been filed, the registry knows, or what a thread read of it and
   is about to write back. *)
Ledger(r) == \A m \in Messages : tracker[Home(m)][m] > 0 => Held(r, Sent(m)) = Sent(m)
Owns ==
  /\ (\A t \in Threads : pc[t] # "write") => Ledger(registry)
  /\ \A t \in Threads : pc[t] = "write" => Ledger(read[t])

NInv == Alone /\ Owns /\ (\A t \in Threads : Claim(t)) /\ \A h \in Hooks : Holds(h)

LEMMA ActAlone ==
  ASSUME OneProcess, MaxOverlaps = 0, TInv, TypeOK', Alone, NEW h \in Hooks, NEW t \in ThreadsOf(h), Act(h, t)
  PROVE  Alone' /\ \A u \in Threads : u # t => pc[u] = "idle"
<1>0. /\ t \in Threads /\ TypeOK /\ \A u \in Threads : u # t => Aside(u)
      /\ \A u \in Threads : u \in ThreadsOf(h)
  BY ThreadOf, HookOf, OthersAside DEF TInv, OneProcess
<1>1. overlaps = 0 /\ overlaps' = 0
  BY <1>0 DEF TypeOK
<1>2. pc[t] = "idle" => Resting(h)
  <2>1. pc[t] = "idle" => Starts(h, t)
    BY ActStarts
  <2> QED BY <1>1, <2>1 DEF Starts
<1>3. \A u \in Threads : u # t => pc[u] = "idle"
  BY <1>0, <1>2 DEF Resting, Alone
<1> QED BY <1>0, <1>3 DEF Alone, Aside

LEMMA ActClaim ==
  ASSUME TInv, FInv, NInv, NEW h \in Hooks, NEW t \in ThreadsOf(h), Act(h, t)
  PROVE  Claim(t)' /\ Holds(h)'
<1>0. /\ t \in Threads /\ Of[t] = h
      /\ TypeOK /\ Bound(t) /\ Claim(t) /\ Holds(h) /\ bind[h] \in Projects /\ back[t] \in {"retry", "file"}
      /\ pc \in [Threads -> Points] /\ name \in [Hooks -> Names \cup {NoName}] /\ bind \in [Hooks -> Projects]
      /\ asked \in [Threads -> Projects \cup {NoProject}] /\ read \in [Threads -> Registry]
      /\ bind' = bind
  BY ThreadOf, OthersAside DEF TInv, FInv, NInv, TypeOK, NamesTypeOK, Points
<1>1. ASSUME UNCHANGED <<registry, name>>, pc'[t] \notin Naming
      PROVE  Claim(t)' /\ Holds(h)'
  BY <1>0, <1>1 DEF Claim, Holds, Naming, Held
<1>2. CASE Turn(h, t)
  BY <1>0, <1>1, <1>2, Gone DEF Turn, binding, names, Points, Naming
<1>3. CASE Resolve(h, t)
  <2>1. UNCHANGED <<registry, name>> /\ name[h] = NoName /\ pc'[t] = "ready"
    BY <1>0, <1>3 DEF Resolve, binding, names, Goto
  <2> QED BY <1>0, <2>1 DEF Claim, Holds
<1>4. CASE Retry(h, t)
  <2>1. Goto(t, "pending") \/ Goto(t, "mirror") \/ Advance(t, "retry")
    BY <1>4, Zenon DEF Retry
  <2>2. pc'[t] \notin Naming
    BY <1>0, <2>1, Gone, Advanced DEF Points, Naming
  <2> QED BY <1>1, <1>4, <2>2 DEF Retry, binding, names
<1>5. CASE Pending(h, t)
  <2>1. /\ UNCHANGED <<registry, name>>
        /\ pc'[t] \in {"idle", "file"} \/ (pc'[t] = "ready" /\ name[h] = NoName)
    BY <1>0, <1>5 DEF Pending, binding, names, Goto
  <2>2. CASE pc'[t] \in {"idle", "file"}
    BY <1>1, <2>1, <2>2 DEF Naming
  <2>3. CASE pc'[t] = "ready" /\ name[h] = NoName
    BY <1>0, <2>1, <2>3 DEF Claim, Holds, Naming
  <2> QED BY <2>1, <2>2, <2>3
<1>6. CASE BindName(h, t)
  <2>1. UNCHANGED <<name, registry>> /\ name[h] = NoName
    BY <1>0, <1>6 DEF BindName, ReadRegistry, binding, names, Claim, Naming
  <2>2. \/ pc'[t] = "idle"
        \/ pc'[t] = "probe" /\ Held(registry, bind[h]) = bind[h]
        \/ pc'[t] = "claim" /\ ~ Conflict(registry, bind[h]) /\ read'[t] = registry
    BY <1>0, <1>6 DEF BindName, ReadRegistry, Goto, Rest
  <2> QED BY <1>0, <2>1, <2>2 DEF Claim, Holds, Held, Conflict, Naming
<1>7. CASE ClaimName(h, t)
  <2>1. UNCHANGED <<name, asked, read>> /\ name[h] = NoName /\ asked[t] = bind[h]
    BY <1>0, <1>7 DEF ClaimName, TruncateRegistry, WriteRegistry, binding, Claim, Bound, Naming
  <2>2. CASE pc[t] = "claim" /\ Goto(t, "write")
    <3>1. pc'[t] = "write"
      BY <1>0, <2>2 DEF Goto
    <3>2. ~ Conflict(read[t], bind[h])
      BY <1>0, <2>2 DEF Claim
    <3> QED BY <1>0, <2>1, <3>1, <3>2 DEF Claim, Holds, Conflict, Held
  <2>3. CASE WriteRegistry(t) /\ Goto(t, "probe")
    <3>1. pc'[t] = "probe"
      BY <1>0, <2>3 DEF Goto
    <3>2. registry' = [read[t] EXCEPT ![normalise[bind[h]]] = bind[h]]
      BY <2>1, <2>3 DEF WriteRegistry
    <3>3. registry'[normalise[bind[h]]] = bind[h]
      BY <1>0, <3>2, BoundsAreNumbers DEF Registry
    <3> QED BY <1>0, <2>1, <3>1, <3>3 DEF Claim, Holds, Held
  <2> QED BY <1>7, <2>2, <2>3 DEF ClaimName
<1>8. CASE Probe(h, t)
  <2>1. /\ registry' = registry /\ Held(registry, bind[h]) = bind[h]
        /\ pc'[t] \in {"file", "idle"}
    BY <1>0, <1>8 DEF Probe, Claim, Goto, names, Rest, CloseRegistry
  <2> QED BY <1>0, <2>1 DEF Claim, Holds, Naming, Held
<1>9. CASE File(h, t) \/ ReadBack(h, t) \/ Added(h, t) \/ MirrorRequest(h, t) \/ MirrorAnswer(h, t)
  <2>1. UNCHANGED <<registry, name>>
    BY <1>9 DEF File, ReadBack, Added, MirrorRequest, MirrorAnswer, binding, names
  <2>2. \/ Goto(t, "idle") \/ Goto(t, "added") \/ Goto(t, "mirror") \/ Goto(t, "answer")
        \/ Advance(t, "file") \/ Advance(t, back[t])
    BY <1>9, Zenon DEF File, ReadBack, Added, MirrorRequest, MirrorAnswer, Rest, Return
  <2>3. pc'[t] \notin Naming
    BY <1>0, <2>2, Gone, Advanced DEF Points, Naming
  <2> QED BY <1>1, <2>1, <2>3
<1> QED BY <1>2, <1>3, <1>4, <1>5, <1>6, <1>7, <1>8, <1>9 DEF Act, Step

LEMMA ActOwns ==
  ASSUME TInv, TypeOK', FInv, NInv, NEW h \in Hooks, NEW t \in ThreadsOf(h), Act(h, t),
         \A u \in Threads : u # t => pc[u] = "idle" /\ Aside(u)
  PROVE  Owns'
<1>0. /\ t \in Threads /\ Of[t] = h
      /\ TypeOK /\ Bound(t) /\ Claim(t) /\ Holds(h) /\ Owns /\ bind[h] \in Projects
      /\ pc \in [Threads -> Points] /\ tracker \in [Names -> [Messages -> Nat]]
      /\ read \in [Threads -> Registry] /\ registry \in Registry
  BY ThreadOf DEF TInv, FInv, NInv, TypeOK, NamesTypeOK, Points
<1>1. \A m \in Messages : Sent(m) \in Projects /\ Home(m) \in Names /\ Home(m) = normalise[Sent(m)]
  BY HomeNamed DEF Home
<1>2. ASSUME pc'[t] # "write", \A m \in Messages : tracker'[Home(m)][m] > 0 => registry'[normalise[Sent(m)]] = Sent(m)
      PROVE  Owns'
  <2>1. \A u \in Threads : pc'[u] # "write"
    BY <1>2 DEF Aside
  <2>2. Ledger(registry)'
    BY <1>2 DEF Ledger, Held, Home, Sent
  <2> QED BY <2>1, <2>2 DEF Owns
<1>3. pc[t] # "write" => \A m \in Messages : tracker[Home(m)][m] > 0 => registry[normalise[Sent(m)]] = Sent(m)
  <2>1. pc[t] # "write" => \A u \in Threads : pc[u] # "write"
    OBVIOUS
  <2> QED BY <1>0, <2>1 DEF Owns, Ledger, Held
<1>4. CASE tracker' # tracker
  <2>1. /\ pc[t] = "file" /\ pc'[t] = "added"
        /\ Current(t) \in Messages /\ To[Current(t)] = <<h, bind[h]>> /\ name[h] = Home(Current(t))
        /\ tracker' = [tracker EXCEPT ![Home(Current(t))][Current(t)] = @ + 1]
    BY <1>4, AddAdds
  <2>2. registry' = registry
    BY <1>0, <2>1 DEF Act, Step, Turn, Resolve, Retry, Pending, BindName, ClaimName, Probe, File, ReadBack, Added,
                      MirrorRequest, MirrorAnswer, Starts, names
  <2>3. Held(registry, bind[h]) = bind[h] /\ Sent(Current(t)) = bind[h]
    <3>1. name[h] # NoName
      BY <1>0, <2>1 DEF Bound, Batching
    <3> QED BY <1>0, <2>1, <3>1 DEF Holds, Sent
  <2>4. ASSUME NEW m \in Messages, tracker'[Home(m)][m] > 0 PROVE registry[normalise[Sent(m)]] = Sent(m)
    <3>1. CASE m = Current(t)
      BY <2>3, <3>1 DEF Held
    <3>2. CASE m # Current(t)
      <4>1. tracker'[Home(m)][m] = tracker[Home(m)][m]
        BY <1>0, <1>1, <2>1, <3>2
      <4> QED BY <1>3, <2>1, <2>4, <4>1
    <3> QED BY <3>1, <3>2
  <2> QED BY <1>2, <2>1, <2>2, <2>4
<1>5. CASE tracker' = tracker /\ ClaimName(h, t)
  <2>1. CASE pc[t] = "claim" /\ Goto(t, "write") /\ TruncateRegistry
    <3>1. pc'[t] = "write" /\ read' = read /\ read[t] = registry
      BY <1>0, <2>1 DEF Goto, TruncateRegistry, Claim
    <3>2. Ledger(read[t])'
      BY <1>3, <1>5, <2>1, <3>1 DEF Ledger, Held, Home, Sent
    <3>3. \A u \in Threads : pc'[u] = "write" => u = t
      BY DEF Aside
    <3> QED BY <1>0, <3>1, <3>2, <3>3 DEF Owns
  <2>2. CASE pc[t] = "write" /\ WriteRegistry(t) /\ Goto(t, "probe")
    <3>1. /\ pc'[t] = "probe" /\ registry' = [read[t] EXCEPT ![normalise[bind[h]]] = bind[h]]
          /\ ~ Conflict(read[t], bind[h])
      BY <1>0, <2>2 DEF Goto, WriteRegistry, Claim, Bound
    <3>2. ASSUME NEW m \in Messages, tracker[Home(m)][m] > 0 PROVE registry'[Home(m)] = Sent(m)
      <4>1. read[t][Home(m)] = Sent(m)
        BY <1>0, <1>1, <2>2, <3>2 DEF Owns, Ledger, Held
      <4>2. CASE Home(m) = normalise[bind[h]]
        <5>1. read[t][Home(m)] \in {NoProject, bind[h]}
          BY <3>1, <4>2 DEF Conflict, Held
        <5>2. Sent(m) = bind[h]
          BY <1>1, <4>1, <5>1, NamesAssumption
        <5> QED BY <1>0, <1>1, <3>1, <4>2, <5>2 DEF Registry
      <4>3. CASE Home(m) # normalise[bind[h]]
        BY <1>0, <1>1, <3>1, <4>1, <4>3 DEF Registry
      <4> QED BY <4>2, <4>3
    <3>3. \A m \in Messages : tracker'[Home(m)][m] > 0 => registry'[normalise[Sent(m)]] = Sent(m)
      BY <1>1, <1>5, <3>2
    <3> QED BY <1>2, <3>1, <3>3
  <2> QED BY <1>5, <2>1, <2>2 DEF ClaimName
<1>6. CASE tracker' = tracker /\ ~ ClaimName(h, t)
  <2>1. registry' = registry
    BY <1>6 DEF Act, Step, Turn, Resolve, Retry, Pending, BindName, ReadRegistry, Probe, File, ReadBack, Added,
                MirrorRequest, MirrorAnswer, names, Rest, CloseRegistry, Return
  <2>2. pc[t] # "write" /\ pc'[t] # "write"
    <3>1. pc[t] # "write"
      BY <1>6 DEF Act, Step, Turn, Resolve, Starts, Retry, Pending, BindName, Probe, File, ReadBack, Added,
                  MirrorRequest, MirrorAnswer
    <3>2. back[t] \in {"retry", "file"}
      BY <1>0 DEF TypeOK
    <3> QED BY <1>0, <1>6, <3>1, <3>2
            DEF Act, Step, Turn, Resolve, Retry, Pending, BindName, Probe, File, ReadBack, Added, MirrorRequest,
                MirrorAnswer, Goto, Advance, Rest, CloseRegistry, Return
  <2> QED BY <1>2, <1>3, <1>6, <2>1, <2>2
<1> QED BY <1>4, <1>5, <1>6

LEMMA InitNamed == Init => NInv
<1> SUFFICES ASSUME Init PROVE NInv
  OBVIOUS
<1>1. (\A t \in Threads : pc[t] = "idle") /\ (\A h \in Hooks : name[h] = NoName)
      /\ \A m \in Messages : tracker[Home(m)][m] = 0
  BY HomeNamed DEF Init
<1> QED BY <1>1 DEF NInv, Alone, Owns, Ledger, Claim, Holds, Naming

LEMMA NextNamed ==
  /\ OneProcess /\ RebindWhileFiling = FALSE /\ MaxOverlaps = 0
  /\ TInv /\ TypeOK' /\ FInv /\ NInv /\ [Next]_vars
  => NInv'
<1> SUFFICES ASSUME OneProcess, RebindWhileFiling = FALSE, MaxOverlaps = 0, TInv, TypeOK', FInv, NInv, [Next]_vars
             PROVE  NInv'
  OBVIOUS
<1>0. TypeOK /\ Alone /\ Owns /\ (\A t \in Threads : Claim(t) /\ Of[t] \in Hooks) /\ \A h \in Hooks : Holds(h)
  BY HookOf DEF TInv, NInv
<1>1. CASE UNCHANGED vars \/ Calm
  <2>1. UNCHANGED <<pc, name, registry, read, tracker, bind>>
    BY <1>1 DEF vars, Calm, names, binding
  <2>2. Owns'
    BY <1>0, <2>1 DEF Owns, Ledger, Held, Home, Sent
  <2>3. (\A t \in Threads : Claim(t)') /\ \A h \in Hooks : Holds(h)'
    BY <1>0, <2>1 DEF Claim, Holds, Held, Conflict
  <2>4. Alone'
    BY <1>0, <2>1 DEF Alone
  <2> QED BY <2>2, <2>3, <2>4 DEF NInv
<1>2. ASSUME NEW h \in Hooks, NEW t \in ThreadsOf(h), Act(h, t) PROVE NInv'
  <2>1. Alone' /\ \A u \in Threads : u # t => pc[u] = "idle" /\ Aside(u)
    BY <1>0, <1>2, ActAlone, OthersAside
  <2>2. Claim(t)' /\ Holds(h)' /\ Owns'
    BY <1>2, <2>1, ActClaim, ActOwns
  <2>3. \A u \in Threads : u # t => Claim(u)'
    BY <2>1 DEF Aside, Claim, Naming
  <2>4. \A g \in Hooks : g = h
    BY DEF OneProcess
  <2> QED BY <2>1, <2>2, <2>3, <2>4 DEF NInv
<1>3. ASSUME NEW h \in Hooks, Shift(h) PROVE NInv'
  <2>1. (\A g \in Hooks : g = h) /\ \A u \in Threads : u \in ThreadsOf(h)
    BY HookOf DEF OneProcess
  <2>2. \A u \in Threads : pc'[u] = "idle"
    BY <1>0, <1>3, <2>1, ShiftRests DEF Resting, ThreadsOf
  <2>3. tracker' = tracker /\ registry' = registry /\ name'[h] = NoName
    BY <1>0, <1>3, OthersApart DEF names, TypeOK
  <2>4. \A u \in Threads : pc[u] # "write"
    <3>1. CASE Rebind(h)
      BY <1>0, <1>3, <2>1, <3>1, ShiftRests DEF Resting
    <3>2. CASE Crash(h)
      BY <2>1, <3>2 DEF Crash
    <3> QED BY <1>3, <3>1, <3>2 DEF Shift
  <2>5. Owns'
    BY <1>0, <2>2, <2>3, <2>4 DEF Owns, Ledger, Held, Home, Sent
  <2> QED BY <2>1, <2>2, <2>3, <2>5 DEF NInv, Alone, Claim, Holds, Naming
<1> QED BY <1>1, <1>2, <1>3 DEF Next, Act, Shift

(* No tracker project holds the reports of two teamwork projects, if one
   process runs on the machine, its threads never overlap and no rebind
   happens beside them. *)
THEOREM OneBacklogAlways ==
  ASSUME OneProcess, RebindWhileFiling = FALSE, MaxOverlaps = 0 PROVE Spec => []OneBacklog
<1>1. FInv /\ NInv => OneBacklog
  <2> SUFFICES ASSUME FInv, NInv, NEW m1 \in Messages, NEW m2 \in Messages,
                      NEW n \in Copies(m1) \cap Copies(m2)
               PROVE  Sent(m1) = Sent(m2)
    BY DEF OneBacklog
  <2>1. n \in Names /\ tracker[n][m1] > 0 /\ tracker[n][m2] > 0
    BY DEF Copies
  <2>2. n = Home(m1) /\ n = Home(m2)
    BY <2>1 DEF FInv, AtHome
  <2>3. PICK r : Ledger(r)
    BY DEF NInv, Owns
  <2>4. r[n] = Sent(m1) /\ r[n] = Sent(m2)
    BY <2>1, <2>2, <2>3 DEF Ledger, Held, Home
  <2> QED BY <2>4
<1>2. TInv => TypeOK
  BY DEF TInv
<1>3. Spec => []NInv
  BY <1>2, Staged, Filed, InitNamed, NextNamed, PTL DEF Spec
<1> QED BY <1>1, <1>3, Filed, PTL

(* The same for any number of processes and overlaps, if no two projects have
   one name: then nothing depends on the registry. *)
THEOREM OneBacklogApart ==
  ASSUME \A p, q \in Projects : normalise[p] = normalise[q] => p = q, RebindWhileFiling = FALSE
  PROVE  Spec => []OneBacklog
<1>1. FInv => OneBacklog
  BY HomeNamed DEF FInv, AtHome, OneBacklog, Copies, Home
<1> QED BY <1>1, Filed, PTL
=============================================================================
