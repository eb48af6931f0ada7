---------------------------- MODULE ArrivalsProofs ----------------------------
(***************************************************************************)
(* Arrivals, for any number of projects, records, waits and prompts, and   *)
(* without a bound on edits or rebinds: the cache is true, an answer ends   *)
(* its own wait, and none is missed.                                       *)
(*                                                                         *)
(* All three rest on what a state, in memory or in the journal, knows of   *)
(* the project it belongs to.  A page is applied only under the binding    *)
(* its retrieve began with, so that what it changes is the state of the    *)
(* project it was asked of.                                                *)
(***************************************************************************)
EXTENDS Arrivals, FiniteSetTheorems, TLAPS

(* What a state knows of the records of its project, as the service has them:
   its cursor is never ahead; an answer in the cache was given; an answer the
   cursor has passed is in the cache, unless its body may be left out; and a
   claim is cached as last read, or evicted and asked for again. *)
Rows == [Names -> [v : Versions, ans : Versions, gone : BOOLEAN]]
Covered(rows, s) == \A r \in Names : s.cursor[r] <= rows[r].v
Told(rows, s) == \A r \in Names : s.cache[r].answered => rows[r].ans > 0
Shown(rows, s) ==
  \A r \in Names \ Omissible :
    rows[r].ans \in 1 .. s.cursor[r] /\ ~rows[r].gone => s.cache[r].answered
Claims(rows, s) ==
  \A r \in Knowledge :
    /\ s.cache[r] # Absent => s.cache[r].v >= s.cursor[r]
    /\ (s.cache[r] = Absent /\ s.cursor[r] > 0 /\ s.cursor[r] = rows[r].v) => rows[r].gone \/ s.refetch
Knows(rows, s) == Covered(rows, s) /\ Told(rows, s) /\ Shown(rows, s) /\ Claims(rows, s)

(* What it has cached is of its own project. *)
From(p, s) == \A r \in Names : s.cache[r] # Absent => s.cache[r].from = p
True(p, s) == From(p, s) /\ Knows(service[p], s)

CInv == TypeOK /\ True(project, state) /\ \A p \in Projects : True(p, saved[p])

(* What is looked for is what the current wait asked, and a call that has not
   asked yet has no answer. *)
Asked ==
  /\ wait # None => pc[wait] # "idle" /\ waiting \in {None, want[wait]}
  /\ \A w \in Waits : pc[w] = "idle" => answer[w] = None

(* The current wait is looked for until it has its answer, and has it as soon
   as it polls if the cache does. *)
Watching == \A w \in Waits : WaitCurrent(w) => waiting = want[w] \/ answer[w] # None
Heard ==
  \A w \in Waits :
    pc[w] \in {"poll", "reading"} /\ WaitCurrent(w) /\ state.cache[want[w]].answered => answer[w] # None

NInv == CInv /\ Asked /\ AnswerIsMine /\ Watching /\ Heard

-----------------------------------------------------------------------------
(* Type correctness *)

USE ArrivalsAssumption

LEMMA Bounds == MaxPages \in Nat \ {0} /\ MaxVersion \in Nat /\ MaxFaults \in Nat /\ 0 \in Versions
BY DEF Versions

(* What has been forgotten is a cursor and a cache. *)
LEMMA Nothing == NoCursor \in [Names -> Versions] /\ NoCache \in [Names -> Cached] /\ Absent \in Cached
BY Bounds DEF NoCursor, NoCache, Cached

(* There are finitely many arrivals at a time. *)
LEMMA FinitelyMany ==
  ASSUME NEW b \in SUBSET (Names \X Versions)
  PROVE  IsFiniteSet(b) /\ Cardinality(b) \in Nat
<1>1. IsFiniteSet(Versions)
  BY Bounds, FS_Interval DEF Versions
<1>2. IsFiniteSet(Names \X Versions)
  BY <1>1, FS_Product
<1>3. IsFiniteSet(b)
  BY <1>2, FS_Subset
<1> QED BY <1>3, FS_CardinalityType

(* An arrival taken from a batch leaves fewer. *)
LEMMA FewerLeft ==
  ASSUME TypeOK, NEW a \in batch
  PROVE  batch \ {a} \in SUBSET (Names \X Versions) /\ Cardinality(batch \ {a}) <= Batch
<1>1. IsFiniteSet(batch) /\ Cardinality(batch) \in Nat
  BY FinitelyMany DEF TypeOK
<1>2. Cardinality(batch \ {a}) = Cardinality(batch) - 1
  BY <1>1, FS_RemoveElement
<1> QED BY <1>1, <1>2 DEF TypeOK

LEMMA NoneLeft == {} \in SUBSET (Names \X Versions) /\ Cardinality({}) <= Batch
BY FS_EmptySet

(* What a page puts into the cache can be cached. *)
LEMMA ItemCached ==
  ASSUME TypeOK, NEW p \in Projects, NEW r \in Names, NEW omitted, service[p][r].v > 0
  PROVE  ReadItem(p, r, omitted) \in Cached
<1>1. state.cache[r] \in Cached
  BY DEF TypeOK, States
<1>2. Entry(p, r) \in Cached
  BY DEF TypeOK, Entry, Cached, Versions
<1> QED BY <1>1, <1>2 DEF ReadItem, Cached

(* The binding of this moment can be pinned. *)
LEMMA NowBinds == ASSUME TypeOK PROVE Now \in Bindings
BY DEF TypeOK, Now, Bindings

LEMMA BlankState == Blank \in States
BY DEF Blank, States, NoCursor, NoCache, Cached, Versions

(* A read leaves its reader somewhere, and the watch with a batch. *)
LEMMA ReturnTyped ==
  ASSUME TypeOK, state' \in States, NEW x \in Readers, Return(x)
  PROVE  /\ lock' = None /\ page' = 0 /\ pin' = None
         /\ pc' \in [Readers -> {"idle", "declared", "poll", "reading", "deliver", "submitted",
                                 "answered", "done"}]
         /\ seen' \in [Names -> Versions] /\ batch' \in SUBSET (Names \X Versions)
         /\ Cardinality(batch') <= Batch
<1>1. CASE x # Watch
  BY <1>1 DEF TypeOK, Return, Release, Goto, Rest
<1>2. CASE x = Watch
  <2>1. /\ lock' = None /\ page' = 0 /\ pin' = None
        /\ seen' = [r \in Names |-> IF state'.cache[r] = Absent THEN 0 ELSE seen[r]]
        /\ batch' \in Batches(Unseen) /\ Goto(x, "deliver")
    BY <1>2 DEF Return, Release
  <2>2. seen' \in [Names -> Versions]
    BY <2>1 DEF TypeOK, Versions
  <2>3. Unseen \subseteq Names \X Versions
    BY DEF Unseen, Pending, States, Cached, Versions
  <2>4. batch' \in SUBSET (Names \X Versions) /\ Cardinality(batch') <= Batch
    <3>1. batch' \in SUBSET (Names \X Versions) /\ (Cardinality(batch') = Batch \/ Cardinality(batch') < Batch)
      BY <2>1, <2>3 DEF Batches
    <3> QED BY <3>1, FinitelyMany
  <2>5. pc' \in [Readers -> {"idle", "declared", "poll", "reading", "deliver", "submitted",
                             "answered", "done"}]
    BY <2>1 DEF TypeOK, Goto
  <2> QED BY <2>1, <2>2, <2>4, <2>5
<1> QED BY <1>1, <1>2

(* An answer noted is one to a request. *)
LEMMA NoteTyped ==
  ASSUME TypeOK, NEW p \in Projects, NEW answers, answers \subseteq {waiting} \cap Names, NoteAnswer(p, answers)
  PROVE  /\ waiting' \in Requests \cup {None}
         /\ answer' \in [Waits -> (Projects \X Requests) \cup {None}]
<1>1. CASE answers = {}
  BY <1>1 DEF TypeOK, NoteAnswer
<1>2. CASE answers # {}
  <2>1. answers = {waiting} /\ waiting \in Requests
    BY <1>2 DEF TypeOK
  <2>2. (CHOOSE r \in answers : TRUE) = waiting
    BY <2>1
  <2>3. waiting' = None
    BY <1>2 DEF NoteAnswer
  <2>4. answer' = answer \/ (wait # None /\ answer' = [answer EXCEPT ![wait] = <<p, waiting>>])
    BY <1>2, <2>2 DEF NoteAnswer
  <2>5. answer' \in [Waits -> (Projects \X Requests) \cup {None}]
    <3>1. CASE answer' = answer
      BY <3>1 DEF TypeOK
    <3>2. CASE wait # None /\ answer' = [answer EXCEPT ![wait] = <<p, waiting>>]
      <4>1. <<p, waiting>> \in (Projects \X Requests) \cup {None}
        BY <2>1
      <4> QED BY <3>2, <4>1 DEF TypeOK
    <3> QED BY <2>4, <3>1, <3>2
  <2> QED BY <2>3, <2>5
<1> QED BY <1>1, <1>2

(* The states a read leaves are states, and so are those that forget. *)
LEMMA PageTyped ==
  ASSUME TypeOK, NEW x \in Readers, ApplyPage(x)
  PROVE  /\ state' \in States /\ saved' \in [Projects -> States]
         /\ pin[1] = project
         /\ waiting' \in Requests \cup {None}
         /\ answer' \in [Waits -> (Projects \X Requests) \cup {None}]
<1>1. pin = Now /\ pin[1] = project
  BY DEF ApplyPage, StillBound, Now
<1>2. PICK items \in SUBSET News, omitted \in SUBSET Omissible :
        /\ state' = [cursor |-> [r \in Names |-> IF r \in items THEN service[pin[1]][r].v ELSE state.cursor[r]],
                    cache |-> [r \in Names |-> IF r \in items THEN ReadItem(pin[1], r, omitted) ELSE state.cache[r]],
                    refetch |-> state.refetch
                                \/ \E r \in omitted \cap Knowledge : ~service[pin[1]][r].gone]
        /\ saved' = [saved EXCEPT ![project] = state']
        /\ NoteAnswer(pin[1], Answers(pin[1], items, omitted))
  BY DEF ApplyPage
<1>3. project \in Projects /\ state.refetch \in BOOLEAN
  BY DEF TypeOK, States
<1>4. \A r \in items : service[project][r].v > 0 /\ service[project][r].v \in Versions
  <2>1. \A r \in items : r \in Names /\ service[project][r].v > state.cursor[r]
    BY <1>1 DEF News
  <2> QED BY <2>1 DEF TypeOK, States, Versions
<1>5. [r \in Names |-> IF r \in items THEN service[pin[1]][r].v ELSE state.cursor[r]] \in [Names -> Versions]
  BY <1>1, <1>4 DEF TypeOK, States
<1>6. [r \in Names |-> IF r \in items THEN ReadItem(pin[1], r, omitted) ELSE state.cache[r]] \in [Names -> Cached]
  BY <1>1, <1>3, <1>4, ItemCached DEF TypeOK, States
<1>7. state' \in States
  BY <1>2, <1>3, <1>5, <1>6 DEF States
<1>8. Answers(pin[1], items, omitted) \subseteq {waiting} \cap Names
  BY DEF Answers, News
<1> QED BY <1>1, <1>2, <1>3, <1>7, <1>8, NoteTyped DEF TypeOK

LEMMA OpenTyped ==
  ASSUME TypeOK, NEW x \in Readers, Open(x)
  PROVE  /\ state' \in States /\ lock' \in Readers \cup {None} /\ page' \in 0 .. MaxPages
         /\ pin' \in Bindings
         /\ pc' \in [Readers -> {"idle", "declared", "poll", "reading", "deliver", "submitted",
                                 "answered", "done"}]
<1>1. state' \in States
  <2>1. state.cursor \in [Names -> Versions] /\ state.cache \in [Names -> Cached] /\ state.refetch \in BOOLEAN
    BY DEF TypeOK, States
  <2>2. state = [cursor |-> state.cursor, cache |-> state.cache, refetch |-> state.refetch]
    BY DEF TypeOK, States
  <2>3. state' \in {state, [cursor |-> NoCursor, cache |-> state.cache, refetch |-> FALSE]}
    BY <2>2 DEF Open
  <2>4. [cursor |-> NoCursor, cache |-> state.cache, refetch |-> FALSE] \in States
    BY <2>1, Nothing DEF States
  <2> QED BY <2>3, <2>4 DEF TypeOK
<1>2. pin' \in Bindings
  BY NowBinds DEF Open
<1>3. page' \in 0 .. MaxPages
  BY DEF Open
<1> QED BY <1>1, <1>2, <1>3 DEF TypeOK, Open, Goto

LEMMA TypeNext == ASSUME TypeOK, [Next]_vars PROVE TypeOK'
<1> USE DEF outside, session, ticket, live, cached, reads
<1>1. CASE UNCHANGED vars
  BY <1>1 DEF TypeOK, vars
<1>2. ASSUME NEW p \in Projects, NEW r \in Names, Edit(p, r) PROVE TypeOK'
  <2>1. service' \in [Projects -> [Names -> [v : Versions, ans : Versions, gone : BOOLEAN]]]
    BY <1>2 DEF TypeOK, Edit, Versions
  <2>2. edits' \in 0 .. MaxEdits
    BY <1>2 DEF TypeOK, Edit
  <2> QED BY <1>2, <2>1, <2>2 DEF TypeOK, Edit
<1>3. ASSUME NEW x \in Pollers, Read(x) PROVE TypeOK'
  <2>1. x \in Readers /\ Open(x)
    BY <1>3 DEF Readers, Read
  <2> QED BY <1>3, <2>1, OpenTyped DEF TypeOK, Read
<1>4. ASSUME NEW x \in Prompts, Prompt(x) PROVE TypeOK'
  <2>1. x \in Readers /\ Open(x)
    BY <1>4 DEF Readers, Prompt
  <2> QED BY <1>4, <2>1, OpenTyped DEF TypeOK, Prompt
<1>5. ASSUME NEW x \in Readers, ApplyPage(x) PROVE TypeOK'
  <2>1. /\ state' \in States /\ saved' \in [Projects -> States]
        /\ waiting' \in Requests \cup {None}
        /\ answer' \in [Waits -> (Projects \X Requests) \cup {None}]
    BY <1>5, PageTyped
  <2>2. UNCHANGED <<outside, session, wait, want, bound, flight, accepted, retired>>
    BY <1>5 DEF ApplyPage
  <2>3. CASE Return(x)
    BY <2>1, <2>2, <2>3, ReturnTyped DEF TypeOK
  <2>4. CASE page < MaxPages /\ page' = page + 1 /\ UNCHANGED <<lock, pin, pc, seen, batch>>
    <3>1. page' \in 0 .. MaxPages
      BY <2>4 DEF TypeOK
    <3> QED BY <2>1, <2>2, <2>4, <3>1 DEF TypeOK
  <2> QED BY <1>5, <2>3, <2>4 DEF ApplyPage
<1>6. ASSUME NEW x \in Readers, Leave(x) PROVE TypeOK'
  BY <1>6 DEF TypeOK, Leave, Goto, Rest, Release
<1>7. ASSUME NEW x \in Readers, ReadFails(x) PROVE TypeOK'
  <2>1. /\ state' \in States /\ saved' \in [Projects -> States] /\ retired' \in 0 .. MaxFaults
    <3>1. [state EXCEPT !.cursor = NoCursor, !.cache = NoCache] \in States
      BY Nothing DEF TypeOK, States
    <3>2. CASE UNCHANGED <<cached, retired>>
      BY <3>2 DEF TypeOK
    <3>3. CASE /\ epoch + retired < MaxFaults /\ retired' = retired + 1
               /\ state' = [state EXCEPT !.cursor = NoCursor, !.cache = NoCache]
               /\ saved' = [saved EXCEPT ![project] = state']
      BY <3>1, <3>3 DEF TypeOK
    <3> QED BY <1>7, <3>2, <3>3 DEF ReadFails
  <2> QED BY <1>7, <2>1 DEF TypeOK, ReadFails, Goto, Rest, Release
<1>8. ASSUME NEW w \in Waits, Declare(w) PROVE TypeOK'
  <2>1. bound' \in [Pollers -> Bindings]
    BY <1>8, NowBinds DEF TypeOK, Declare
  <2> QED BY <1>8, <2>1 DEF TypeOK, Declare, Goto
<1>9. ASSUME NEW w \in Waits, Declared(w) PROVE TypeOK'
  <2> DEFINE c == state.cache[want[w]]
             found == {r \in {want[w]} \cap {waiting} : c.answered}
  <2>1. NoteAnswer(c.from, found)
    BY <1>9 DEF Declared
  <2>2. waiting' \in Requests \cup {None} /\ answer' \in [Waits -> (Projects \X Requests) \cup {None}]
    <3>1. CASE found = {}
      BY <2>1, <3>1 DEF TypeOK, NoteAnswer
    <3>2. CASE found # {}
      <4>1. want[w] \in Names /\ c \in Cached /\ c.answered
        BY <3>2 DEF TypeOK, States
      <4>2. c.from \in Projects
        BY <4>1 DEF Cached, Absent
      <4>3. found \subseteq {waiting} \cap Names
        BY <4>1
      <4> HIDE DEF c, found
      <4> QED BY <2>1, <4>2, <4>3, NoteTyped
    <3> QED BY <3>1, <3>2
  <2> QED BY <1>9, <2>2 DEF TypeOK, Declared, Goto
<1>10. ASSUME NEW w \in Waits, WaitEnds(w) PROVE TypeOK'
  <2>1. /\ lock' \in Readers \cup {None} /\ page' \in 0 .. MaxPages /\ pin' \in Bindings \cup {None}
    BY <1>10, Bounds DEF TypeOK, WaitEnds, Release
  <2>2. pc' \in [Readers -> {"idle", "declared", "poll", "reading", "deliver", "submitted",
                             "answered", "done"}]
    BY <1>10 DEF TypeOK, WaitEnds, Goto, Returns
  <2> QED BY <1>10, <2>1, <2>2 DEF TypeOK, WaitEnds
<1>11. CASE StartWatch
  <2>1. bound' \in [Pollers -> Bindings]
    BY <1>11, NowBinds DEF TypeOK, StartWatch
  <2>2. seen' \in [Names -> Versions]
    BY <1>11 DEF TypeOK, StartWatch, States, Cached, Absent, Versions
  <2> QED BY <1>11, <2>1, <2>2 DEF TypeOK, StartWatch, Goto
<1>12. CASE Rewatch
  <2>1. bound' \in [Pollers -> Bindings] /\ seen' \in [Names -> Versions]
    BY <1>12, NowBinds, Bounds DEF TypeOK, Rewatch
  <2> QED BY <1>12, <2>1 DEF TypeOK, Rewatch
<1>13. CASE PollEnds
  BY <1>13, NoneLeft DEF TypeOK, PollEnds, Goto
<1>14. CASE Deliver
  <2>1. PICK a \in batch :
          /\ batch' = batch \ {a}
          /\ \/ /\ flight' = [r |-> a[1], v |-> a[2], bound |-> bound[Watch], at |-> "new"]
                /\ Goto(Watch, "submitted")
             \/ UNCHANGED <<flight, pc>>
    BY <1>14 DEF Deliver
  <2>2. a \in Names \X Versions
    BY DEF TypeOK
  <2>3. flight' \in Arrival \cup {None}
    BY <2>1, <2>2 DEF TypeOK, Arrival, Pollers
  <2>4. pc' \in [Readers -> {"idle", "declared", "poll", "reading", "deliver", "submitted",
                             "answered", "done"}]
    BY <2>1 DEF TypeOK, Goto
  <2>5. batch' \in SUBSET (Names \X Versions) /\ Cardinality(batch') <= Batch
    BY <2>1, FewerLeft
  <2> QED BY <1>14, <2>3, <2>4, <2>5 DEF TypeOK, Deliver
<1>15. CASE Submit \/ HostAccepts \/ HostRejects \/ SubmitTimesOut
  <2>1. pc' \in [Readers -> {"idle", "declared", "poll", "reading", "deliver", "submitted",
                             "answered", "done"}]
    BY <1>15 DEF TypeOK, Submit, HostAccepts, HostRejects, SubmitTimesOut, Resume, Goto
  <2>2. flight \in Arrival
    BY <1>15 DEF TypeOK, Submit, HostAccepts, HostRejects, SubmitTimesOut
  <2>3. flight' \in Arrival \cup {None}
    BY <1>15, <2>2 DEF Submit, HostAccepts, HostRejects, SubmitTimesOut, Arrival
  <2>4. seen' \in [Names -> Versions] /\ accepted' \in [Names -> Versions]
    BY <1>15, <2>2 DEF TypeOK, Submit, HostAccepts, HostRejects, SubmitTimesOut, Arrival
  <2> QED BY <1>15, <2>1, <2>3, <2>4 DEF TypeOK, Submit, HostAccepts, HostRejects, SubmitTimesOut
<1>16. CASE Rebind
  BY <1>16 DEF TypeOK, Rebind, Versions
<1>17. CASE StopWatch
  <2>1. /\ lock' \in Readers \cup {None} /\ page' \in 0 .. MaxPages /\ pin' \in Bindings \cup {None}
    BY <1>17, Bounds DEF TypeOK, StopWatch, Release
  <2>2. seen' \in [Names -> Versions] /\ accepted' = seen'
    BY <1>17, Bounds DEF StopWatch
  <2>3. pc' \in [Readers -> {"idle", "declared", "poll", "reading", "deliver", "submitted",
                             "answered", "done"}]
    BY <1>17 DEF TypeOK, StopWatch, Goto
  <2> QED BY <1>17, <2>1, <2>2, <2>3, NoneLeft DEF TypeOK, StopWatch
<1>18. CASE EndSession
  BY <1>18 DEF TypeOK, EndSession
<1> QED BY <1>1, <1>2, <1>3, <1>4, <1>5, <1>6, <1>7, <1>8, <1>9, <1>10, <1>11, <1>12, <1>13, <1>14,
           <1>15, <1>16, <1>17, <1>18 DEF Next

LEMMA TypeInit == Init => TypeOK
<1> SUFFICES ASSUME Init PROVE TypeOK
  OBVIOUS
<1>1. <<project, 0>> \in Bindings
  BY DEF Init, Bindings
<1> QED BY <1>1, BlankState, NoneLeft DEF Init, TypeOK, Versions

(* Whatever the people, the service and the host do, the variables hold what
   they are meant to hold. *)
THEOREM TypeCorrect == Spec => []TypeOK
<1>1. TypeOK /\ [Next]_vars => TypeOK'
  BY TypeNext
<1> QED BY <1>1, TypeInit, PTL DEF Spec

-----------------------------------------------------------------------------
(* The cache *)

(* A record that is edited has a version no cursor has passed; its answer, if
   it is not the old one of a record that was there, is of that version. *)
LEMMA EditKnown ==
  ASSUME NEW rows \in Rows, NEW s \in States, NEW r \in Names, Knows(rows, s),
         NEW f \in [v : Versions, ans : Versions, gone : BOOLEAN],
         f.v = rows[r].v + 1,
         f.ans = f.v \/ (f.ans = rows[r].ans /\ (rows[r].gone => rows[r].ans = 0))
  PROVE  Knows([rows EXCEPT ![r] = f], s)
<1> DEFINE after == [rows EXCEPT ![r] = f]
<1>1. after \in Rows /\ after[r] = f /\ \A q \in Names \ {r} : after[q] = rows[q]
  BY DEF Rows
<1>2. s.cursor \in [Names -> Nat] /\ rows[r].v \in Nat /\ rows[r].ans \in Nat /\ s.cursor[r] <= rows[r].v
  BY DEF States, Rows, Versions, Knows, Covered
<1> HIDE DEF after
<1>3. Covered(after, s)
  <2>1. ASSUME NEW q \in Names PROVE s.cursor[q] <= after[q].v
    BY <1>1, <1>2 DEF Knows, Covered
  <2> QED BY <2>1 DEF Covered
<1>4. Told(after, s)
  <2>1. f.v > 0
    BY <1>2
  <2> QED BY <1>1, <1>2, <2>1 DEF Knows, Told
<1>5. Shown(after, s)
  <2>1. ASSUME NEW q \in Names \ Omissible, after[q].ans \in 1 .. s.cursor[q], ~after[q].gone
        PROVE  s.cache[q].answered
    <3>1. CASE q # r
      BY <1>1, <2>1, <3>1 DEF Knows, Shown
    <3>2. CASE q = r
      <4>1. f.ans = rows[r].ans /\ rows[r].ans \in 1 .. s.cursor[r]
        BY <1>1, <1>2, <2>1, <3>2
      <4>2. ~rows[r].gone
        BY <1>2, <4>1
      <4> QED BY <2>1, <3>2, <4>1, <4>2 DEF Knows, Shown
    <3> QED BY <3>1, <3>2
  <2> QED BY <2>1 DEF Shown
<1>6. Claims(after, s)
  <2>1. ASSUME NEW q \in Knowledge, s.cache[q] = Absent, s.cursor[q] > 0, s.cursor[q] = after[q].v
        PROVE  after[q].gone \/ s.refetch
    <3>1. q # r
      BY <1>1, <1>2, <2>1
    <3> QED BY <1>1, <2>1, <3>1 DEF Knows, Claims
  <2> QED BY <2>1 DEF Knows, Claims
<1> QED BY <1>3, <1>4, <1>5, <1>6 DEF Knows, after

(* A state that reads from the start knows less, and nothing that is false. *)
LEMMA RewoundKnown ==
  ASSUME NEW rows \in Rows, NEW s \in States, Knows(rows, s), NEW t \in States, t.cursor = NoCursor,
         t.cache = s.cache \/ t.cache = NoCache
  PROVE  Knows(rows, t)
<1>1. \A r \in Names : /\ t.cursor[r] = 0
                       /\ t.cache[r] = s.cache[r] \/ t.cache[r] = Absent
  BY DEF NoCursor, NoCache
<1>2. \A r \in Names : rows[r].v >= 0 /\ rows[r].v \in Nat /\ (t.cache[r] # Absent => t.cache[r].v >= 0)
  BY DEF Rows, States, Cached, Versions
<1>3. Covered(rows, t)
  BY <1>1, <1>2 DEF Covered
<1>4. Told(rows, t)
  BY <1>1 DEF Knows, Told, Absent
<1>5. Shown(rows, t)
  BY <1>1 DEF Shown
<1>6. Claims(rows, t)
  BY <1>1, <1>2 DEF Claims
<1> QED BY <1>3, <1>4, <1>5, <1>6 DEF Knows

(* The state after a page. *)
Paged(items, omitted) ==
  [cursor |-> [r \in Names |-> IF r \in items THEN service[project][r].v ELSE state.cursor[r]],
   cache |-> [r \in Names |-> IF r \in items THEN ReadItem(project, r, omitted) ELSE state.cache[r]],
   refetch |-> state.refetch \/ \E r \in omitted \cap Knowledge : ~service[project][r].gone]

(* A page brings the cursor and the cache to what the service has. *)
LEMMA PageKnown ==
  ASSUME TypeOK, True(project, state), NEW items \in SUBSET Names, NEW omitted \in SUBSET (items \cap Omissible),
         Paged(items, omitted) \in States
  PROVE  True(project, Paged(items, omitted))
<1> DEFINE t == Paged(items, omitted)
<1> DEFINE rows == service[project]
<1>1. rows \in Rows /\ state \in States
  BY DEF TypeOK, Rows
<1>2. ASSUME NEW r \in Names \ items
      PROVE  t.cursor[r] = state.cursor[r] /\ t.cache[r] = state.cache[r]
  BY DEF Paged
<1>3. ASSUME NEW r \in items
      PROVE  /\ t.cursor[r] = rows[r].v /\ rows[r].v \in Nat
             /\ t.cache[r] = ReadItem(project, r, omitted)
  BY <1>1 DEF Rows, Versions, Paged
<1>4. ASSUME NEW r \in items
      PROVE  t.cache[r] \in {Absent, Entry(project, r)} \/ (t.cache[r] = state.cache[r] /\ r \in omitted \ Knowledge)
  BY <1>3, <1>4 DEF ReadItem
<1>5. From(project, t)
  <2>1. \A r \in Names : state.cache[r] # Absent => state.cache[r].from = project
    BY DEF True, From
  <2>2. \A r \in Names : Entry(project, r).from = project
    BY DEF Entry
  <2> QED BY <1>2, <1>4, <2>1, <2>2 DEF From
<1>6. Covered(rows, t)
  <2>1. ASSUME NEW r \in Names PROVE t.cursor[r] <= rows[r].v
    <3>1. CASE r \in items
      <4>1. t.cursor[r] = rows[r].v /\ rows[r].v \in Nat
        BY <1>3, <3>1
      <4> HIDE DEF rows
      <4> QED BY <4>1
    <3>2. CASE r \notin items
      <4>1. state.cursor[r] <= rows[r].v
        BY DEF True, Knows, Covered
      <4> QED BY <1>2, <3>2, <4>1
    <3> QED BY <3>1, <3>2
  <2> QED BY <2>1 DEF Covered
<1>7. Told(rows, t)
  <2>1. \A r \in Names : state.cache[r].answered => rows[r].ans > 0
    BY DEF True, Knows, Told
  <2>2. \A r \in Names : Entry(project, r).answered => rows[r].ans > 0
    BY DEF Entry
  <2>3. ~Absent.answered
    BY DEF Absent
  <2> QED BY <1>2, <1>4, <2>1, <2>2, <2>3 DEF Told
<1>8. Shown(rows, t)
  <2>1. ASSUME NEW r \in Names \ Omissible, rows[r].ans \in 1 .. t.cursor[r], ~rows[r].gone
        PROVE  t.cache[r].answered
    <3>1. CASE r \in items
      <4>1. t.cache[r] = Entry(project, r)
        BY <1>3, <2>1, <3>1 DEF ReadItem
      <4>2. rows[r].ans > 0
        BY <2>1
      <4>3. Entry(project, r).answered = (rows[r].ans > 0)
        BY DEF Entry
      <4> QED BY <4>1, <4>2, <4>3
    <3>2. CASE r \notin items
      BY <1>2, <2>1, <3>2 DEF True, Knows, Shown
    <3> QED BY <3>1, <3>2
  <2> QED BY <2>1 DEF Shown
<1>9. Claims(rows, t)
  <2>1. ASSUME NEW r \in Knowledge
        PROVE  /\ t.cache[r] # Absent => t.cache[r].v >= t.cursor[r]
               /\ (t.cache[r] = Absent /\ t.cursor[r] > 0 /\ t.cursor[r] = rows[r].v)
                    => rows[r].gone \/ t.refetch
    <3>1. CASE r \in items
      <4>1. t.cache[r] # Absent => t.cache[r].v = rows[r].v
        <5>1. Entry(project, r).v = rows[r].v
          BY DEF Entry
        <5>2. t.cache[r] \in {Absent, Entry(project, r)}
          BY <1>4, <2>1, <3>1
        <5> QED BY <5>1, <5>2
      <4>2. Entry(project, r) # Absent
        BY DEF Entry, Absent, TypeOK
      <4>3. t.cache[r] = Absent => rows[r].gone \/ t.refetch
        BY <1>3, <2>1, <3>1, <4>2 DEF ReadItem, Paged
      <4> QED BY <1>3, <3>1, <4>1, <4>3
    <3>2. CASE r \notin items
      <4>1. state.refetch => t.refetch
        BY DEF Paged
      <4> QED BY <1>2, <2>1, <3>2, <4>1 DEF True, Knows, Claims
    <3> QED BY <3>1, <3>2
  <2> QED BY <2>1 DEF Claims
<1> QED BY <1>5, <1>6, <1>7, <1>8, <1>9 DEF True, Knows

LEMMA Untouched ==
  ASSUME CInv, TypeOK', UNCHANGED <<service, cached, project>>
  PROVE  CInv'
BY DEF CInv, True, cached

(* To read from the start is to forget the cursor. *)
LEMMA OpenKnown ==
  ASSUME CInv, TypeOK', NEW x \in Readers, Open(x), UNCHANGED <<service, project>>,
         saved' = saved \/ saved' = [saved EXCEPT ![project] = state]
  PROVE  CInv' /\ state'.cache = state.cache
<1>1. service[project] \in Rows /\ state \in States /\ state' \in States /\ project \in Projects
  BY DEF CInv, TypeOK, Rows
<1>2. state' = state \/ (state'.cursor = NoCursor /\ state'.cache = state.cache)
  <2>1. state = [cursor |-> state.cursor, cache |-> state.cache, refetch |-> state.refetch]
    BY <1>1 DEF States
  <2> QED BY <2>1 DEF Open
<1>3. Knows(service[project], state')
  BY <1>1, <1>2, RewoundKnown DEF CInv, True
<1>4. From(project, state')
  BY <1>2 DEF CInv, True, From
<1>5. \A p \in Projects : True(p, saved'[p])
  BY <1>1 DEF CInv, TypeOK
<1> QED BY <1>2, <1>3, <1>4, <1>5 DEF CInv, True

LEMMA EditCached ==
  ASSUME CInv, TypeOK', NEW p \in Projects, NEW r \in Names, Edit(p, r)
  PROVE  /\ CInv'
         /\ \A q \in Projects, n \in Names : service[q][n].ans > 0 => service'[q][n].ans > 0
<1>1. PICK f \in [v : Versions, ans : Versions, gone : BOOLEAN] :
        /\ service' = [service EXCEPT ![p][r] = f]
        /\ f.v = service[p][r].v + 1
        /\ f.ans = f.v \/ (f.ans = service[p][r].ans /\ (service[p][r].gone => ~(service[p][r].ans > 0)))
  <2> DEFINE old == service[p][r]
  <2>1. old \in [v : Versions, ans : Versions, gone : BOOLEAN] /\ old.v + 1 \in Versions
    BY DEF CInv, TypeOK, Edit, Versions
  <2>2. PICK answered \in BOOLEAN, gone \in BOOLEAN :
          service' = [service EXCEPT ![p][r] =
            [v |-> old.v + 1, ans |-> IF answered \/ (old.gone /\ old.ans > 0) THEN old.v + 1 ELSE old.ans,
             gone |-> gone]]
    BY DEF Edit
  <2> DEFINE ans == IF answered \/ (old.gone /\ old.ans > 0) THEN old.v + 1 ELSE old.ans
             f == [v |-> old.v + 1, ans |-> ans, gone |-> gone]
  <2>3. ans \in Versions /\ (ans = old.v + 1 \/ (ans = old.ans /\ (old.gone => ~(old.ans > 0))))
    BY <2>1
  <2>4. service' = [service EXCEPT ![p][r] = f]
    BY <2>2
  <2> HIDE DEF ans
  <2>5. f \in [v : Versions, ans : Versions, gone : BOOLEAN] /\ f.v = old.v + 1 /\ f.ans = ans
    BY <2>1, <2>3
  <2> HIDE DEF f
  <2> QED BY <2>3, <2>4, <2>5
<1>2. service \in [Projects -> Rows] /\ service[p][r].ans \in Nat /\ service[p][r].v \in Nat
  BY DEF CInv, TypeOK, Rows, Versions
<1>3. f.ans = f.v \/ (f.ans = service[p][r].ans /\ (service[p][r].gone => service[p][r].ans = 0))
  BY <1>1, <1>2
<1>4. ASSUME NEW q \in Projects
      PROVE  service'[q] = IF q = p THEN [service[p] EXCEPT ![r] = f] ELSE service[q]
  BY <1>1, <1>2
<1>5. ASSUME NEW q \in Projects, NEW s \in States, Knows(service[q], s)
      PROVE  Knows(service'[q], s)
  <2>1. CASE q = p
    BY <1>1, <1>2, <1>3, <1>4, <1>5, <2>1, EditKnown
  <2>2. CASE q # p
    BY <1>4, <1>5, <2>2
  <2> QED BY <2>1, <2>2
<1>6. UNCHANGED <<cached, project>>
  BY DEF Edit, session
<1>7. state \in States /\ project \in Projects /\ \A q \in Projects : saved[q] \in States
  BY DEF CInv, TypeOK
<1>8. CInv'
  BY <1>5, <1>6, <1>7 DEF CInv, True, cached
<1>9. ASSUME NEW q \in Projects, NEW n \in Names, service[q][n].ans > 0 PROVE service'[q][n].ans > 0
  BY <1>1, <1>2, <1>4, <1>9 DEF Rows
<1> QED BY <1>8, <1>9

(* What ApplyPage does, by the name of the project it is bound to. *)
LEMMA PageCached ==
  ASSUME CInv, TypeOK', NEW x \in Readers, ApplyPage(x)
  PROVE  /\ CInv' /\ project \in Projects
         /\ \E items \in SUBSET Names : \E omitted \in SUBSET (items \cap Omissible) :
              /\ NoteAnswer(project, Answers(project, items, omitted))
              /\ \A r \in Names : state'.cache[r] = IF r \in items THEN ReadItem(project, r, omitted)
                                                    ELSE state.cache[r]
<1>1. pin[1] = project /\ project \in Projects
  BY DEF ApplyPage, StillBound, Now, CInv, TypeOK
<1>2. PICK items \in SUBSET Names, omitted \in SUBSET Omissible :
        /\ omitted \subseteq items
        /\ state' = Paged(items, omitted)
        /\ saved' = [saved EXCEPT ![project] = state']
        /\ NoteAnswer(project, Answers(project, items, omitted))
  BY <1>1 DEF ApplyPage, News, Paged
<1>3. UNCHANGED <<service, project>>
  BY DEF ApplyPage, outside, session
<1>4. True(project, state')
  <2>1. TypeOK /\ True(project, state) /\ state' \in States /\ omitted \in SUBSET (items \cap Omissible)
    BY <1>2 DEF CInv, TypeOK
  <2> QED BY <1>2, <2>1, PageKnown
<1>5. \A p \in Projects : True(p, saved'[p])
  BY <1>1, <1>2, <1>4 DEF CInv, TypeOK
<1>6. CInv'
  BY <1>3, <1>4, <1>5 DEF CInv, True
<1>7. \A r \in Names : state'.cache[r] = IF r \in items THEN ReadItem(project, r, omitted) ELSE state.cache[r]
  BY <1>2 DEF Paged
<1> QED BY <1>1, <1>2, <1>6, <1>7

LEMMA FailCached ==
  ASSUME CInv, TypeOK', NEW x \in Readers, ReadFails(x)
  PROVE  CInv' /\ \A r \in Names : state'.cache[r].answered => state.cache[r].answered
<1>1. UNCHANGED <<service, project>>
  BY DEF ReadFails, outside, session
<1>2. CASE UNCHANGED cached
  BY <1>1, <1>2, Untouched DEF cached
<1>3. CASE /\ state' = [state EXCEPT !.cursor = NoCursor, !.cache = NoCache]
           /\ saved' = [saved EXCEPT ![project] = state']
  <2>1. service[project] \in Rows /\ state \in States /\ state' \in States /\ project \in Projects
    BY <1>1 DEF CInv, TypeOK, Rows
  <2>2. state'.cursor = NoCursor /\ state'.cache = NoCache
    BY <1>3, <2>1 DEF States
  <2>3. Knows(service[project], state')
    BY <2>1, <2>2, RewoundKnown DEF CInv, True
  <2>4. \A r \in Names : state'.cache[r] = Absent
    BY <2>2 DEF NoCache
  <2>5. True(project, state')
    BY <2>3, <2>4 DEF True, From
  <2>6. \A p \in Projects : True(p, saved'[p])
    BY <1>3, <2>5 DEF CInv, TypeOK
  <2>7. CInv'
    BY <1>1, <2>5, <2>6 DEF CInv, True
  <2> QED BY <2>4, <2>7 DEF Absent
<1> QED BY <1>2, <1>3 DEF ReadFails

LEMMA RebindCached ==
  ASSUME CInv, TypeOK', Rebind
  PROVE  CInv'
<1>1. UNCHANGED <<service, saved>> /\ project' \in Projects /\ state' = saved[project']
  BY DEF Rebind, outside
<1>2. True(project', saved[project'])
  BY <1>1 DEF CInv
<1> QED BY <1>1, <1>2 DEF CInv, True

-----------------------------------------------------------------------------
(* The waits *)

(* How the waits go on in a step that declares none. *)
Onward ==
  \A w \in Waits : \/ pc'[w] = pc[w]
                   \/ pc[w] \in {"declared", "poll", "reading"} /\ pc'[w] \in {"poll", "reading"}
                   \/ pc'[w] = "done"
                   \/ pc'[w] = "answered" /\ answer[w] # None
StillAsked ==
  /\ UNCHANGED <<wait, want, project, epoch>> /\ \A w \in Waits : bound'[w] = bound[w]
  /\ closing' # "ended" => closing # "ended"
  /\ Onward

(* Most steps note no answer, and put none into the cache. *)
Aside ==
  /\ StillAsked /\ UNCHANGED <<waiting, answer>>
  /\ \A w \in Waits : pc'[w] \in {"poll", "reading"} => pc[w] \in {"poll", "reading"}
  /\ \A r \in Names : state'.cache[r].answered => state.cache[r].answered
  /\ \A p \in Projects, r \in Names : service[p][r].ans > 0 => service'[p][r].ans > 0

(* A wait that is current has been. *)
LEMMA CurrentBefore ==
  ASSUME StillAsked, NEW w \in Waits, WaitCurrent(w)'
  PROVE  WaitCurrent(w) /\ wait = w
BY DEF StillAsked, WaitCurrent, Bound, Now

LEMMA AsideKeeps ==
  ASSUME NInv, CInv', Aside
  PROVE  NInv'
<1> USE DEF Aside
<1>1. \A w \in Waits : want[w] \in Names /\ bound[w][1] \in Projects
  BY DEF NInv, CInv, TypeOK, Pollers, Bindings
<1>2. Asked'
  <2>1. wait \in Waits \cup {None}
    BY DEF NInv, CInv, TypeOK
  <2> QED BY <2>1 DEF NInv, Asked, StillAsked, Onward
<1>3. AnswerIsMine'
  <2>1. ASSUME NEW w \in Waits, answer[w] # None
        PROVE  answer[w] = <<bound[w][1], want[w]>> /\ service'[bound[w][1]][want[w]].ans > 0
    BY <1>1, <2>1 DEF NInv, AnswerIsMine
  <2>2. \A w \in Waits : pc'[w] = "answered" => answer[w] # None
    BY DEF NInv, AnswerIsMine, StillAsked, Onward
  <2> QED BY <2>1, <2>2 DEF AnswerIsMine, StillAsked
<1>4. Watching'
  BY CurrentBefore DEF NInv, Watching, StillAsked
<1>5. Heard'
  BY <1>1, CurrentBefore DEF NInv, Heard, StillAsked
<1> QED BY <1>2, <1>3, <1>4, <1>5 DEF NInv

(* An answer that is noted goes to the current wait only. *)
LEMMA Noted ==
  ASSUME NInv, NEW p \in Projects, NEW answers \in SUBSET ({waiting} \cap Names), NoteAnswer(p, answers),
         \A r \in answers : service[p][r].ans > 0,
         \A w \in Waits : WaitCurrent(w) => bound[w][1] = p
  PROVE  /\ waiting' \in {waiting, None}
         /\ \A w \in Waits :
              \/ answer'[w] = answer[w]
              \/ /\ wait = w /\ answer'[w] = <<bound[w][1], want[w]>> /\ answer'[w] # None
                 /\ service[bound[w][1]][want[w]].ans > 0
         /\ \A w \in Waits : WaitCurrent(w) /\ waiting' # waiting => answer'[w] # None
         /\ answers # {} => waiting' # waiting
<1>1. CASE answers = {}
  BY <1>1 DEF NoteAnswer
<1>2. CASE answers # {}
  <2>1. answers = {waiting} /\ waiting \in Requests /\ waiting # None /\ waiting' = None
    BY <1>2 DEF NoteAnswer, NInv, CInv, TypeOK
  <2>2. (CHOOSE r \in answers : TRUE) = waiting
    BY <2>1
  <2>3. CASE wait # None /\ WaitCurrent(wait)
    <3>1. wait \in Waits /\ bound[wait][1] = p /\ want[wait] = waiting
      BY <2>1, <2>3 DEF NInv, CInv, TypeOK, Asked
    <3>2. answer' = [answer EXCEPT ![wait] = <<p, waiting>>] /\ answer \in [Waits -> (Projects \X Requests) \cup {None}]
      BY <1>2, <2>2, <2>3 DEF NoteAnswer, NInv, CInv, TypeOK
    <3>3. <<p, waiting>> # None
      BY <2>1
    <3>4. service[p][waiting].ans > 0
      BY <2>1
    <3>5. \A w \in Waits : WaitCurrent(w) => w = wait
      BY DEF WaitCurrent
    <3> QED BY <2>1, <3>1, <3>2, <3>3, <3>4, <3>5
  <2>4. CASE ~(wait # None /\ WaitCurrent(wait))
    <3>1. \A w \in Waits : ~WaitCurrent(w)
      BY <2>4 DEF WaitCurrent
    <3>2. answer' = answer
      BY <1>2, <2>4 DEF NoteAnswer
    <3> QED BY <2>1, <3>1, <3>2
  <2> QED BY <2>3, <2>4
<1> QED BY <1>1, <1>2

(* So the invariant holds after an answer has been noted, whatever the cache
   has for those who had none. *)
LEMMA NotedKeeps ==
  ASSUME NInv, CInv', StillAsked, UNCHANGED service,
         NEW p \in Projects, NEW answers \in SUBSET ({waiting} \cap Names), NoteAnswer(p, answers),
         \A r \in answers : service[p][r].ans > 0,
         \A w \in Waits : WaitCurrent(w) => bound[w][1] = p,
         \A w \in Waits : pc'[w] \in {"poll", "reading"} /\ WaitCurrent(w) /\ state'.cache[want[w]].answered
                            => answer[w] # None \/ waiting \in answers
  PROVE  NInv'
<1>1. /\ waiting' \in {waiting, None}
      /\ \A w \in Waits :
           \/ answer'[w] = answer[w]
           \/ /\ wait = w /\ answer'[w] = <<bound[w][1], want[w]>> /\ answer'[w] # None
              /\ service[bound[w][1]][want[w]].ans > 0
      /\ \A w \in Waits : WaitCurrent(w) /\ waiting' # waiting => answer'[w] # None
      /\ answers # {} => waiting' # waiting
  BY Noted
<1>2. \A w \in Waits : answer[w] # None => answer'[w] # None
  BY <1>1
<1>3. wait \in Waits \cup {None}
  BY DEF NInv, CInv, TypeOK
<1>4. Asked'
  BY <1>1, <1>3 DEF NInv, Asked, StillAsked, Onward
<1>5. AnswerIsMine'
  <2>1. ASSUME NEW w \in Waits, answer'[w] # None
        PROVE  answer'[w] = <<bound[w][1], want[w]>> /\ service[bound[w][1]][want[w]].ans > 0
    BY <1>1, <2>1 DEF NInv, AnswerIsMine
  <2>2. \A w \in Waits : pc'[w] = "answered" => answer'[w] # None
    BY <1>2 DEF NInv, AnswerIsMine, StillAsked, Onward
  <2> QED BY <2>1, <2>2 DEF AnswerIsMine, StillAsked
<1>6. Watching'
  BY <1>1, <1>2, CurrentBefore DEF NInv, Watching, StillAsked
<1>7. Heard'
  <2>1. ASSUME NEW w \in Waits, pc'[w] \in {"poll", "reading"}, WaitCurrent(w)', state'.cache[want[w]].answered
        PROVE  answer'[w] # None
    <3>1. WaitCurrent(w)
      BY <2>1, CurrentBefore
    <3>2. answer[w] # None \/ answers # {}
      BY <2>1, <3>1
    <3> QED BY <1>1, <1>2, <3>1, <3>2
  <2> QED BY <2>1 DEF Heard, StillAsked
<1> QED BY <1>4, <1>5, <1>6, <1>7 DEF NInv

LEMMA DeclareKeeps ==
  ASSUME NInv, TypeOK', NEW w \in Waits, Declare(w)
  PROVE  NInv'
<1> USE DEF outside, session, reads, live
<1>1. CInv'
  BY Untouched DEF NInv, Declare
<1>2. /\ wait' = w /\ waiting' = want[w] /\ pc'[w] = "declared" /\ pc[w] = "idle"
      /\ \A u \in Waits \ {w} : pc'[u] = pc[u] /\ bound'[u] = bound[u]
      /\ UNCHANGED <<answer, want, service>>
  BY DEF Declare, Goto, NInv, CInv, TypeOK, Readers, Pollers
<1>3. answer[w] = None
  BY <1>2 DEF NInv, Asked
<1>4. Asked'
  BY <1>2, <1>3 DEF NInv, Asked
<1>5. AnswerIsMine'
  BY <1>2, <1>3 DEF NInv, AnswerIsMine
<1>6. \A u \in Waits \ {w} : ~WaitCurrent(u)'
  BY <1>2 DEF WaitCurrent
<1>7. Watching' /\ Heard'
  BY <1>2, <1>6 DEF Watching, Heard
<1> QED BY <1>1, <1>4, <1>5, <1>7 DEF NInv

LEMMA DeclaredKeeps ==
  ASSUME NInv, TypeOK', NEW w \in Waits, Declared(w)
  PROVE  NInv'
<1> USE DEF outside, session, reads, live
<1> DEFINE c == state.cache[want[w]]
           found == {r \in {want[w]} \cap {waiting} : c.answered}
<1>1. CInv' /\ UNCHANGED <<service, state>>
  BY Untouched DEF NInv, Declared, cached
<1>2. /\ pc[w] = "declared" /\ pc'[w] = "poll" /\ \A u \in Waits \ {w} : pc'[u] = pc[u]
      /\ UNCHANGED <<wait, want, project, epoch, bound, closing>>
  BY DEF Declared, Goto, NInv, CInv, TypeOK, Readers, Pollers
<1>3. StillAsked
  BY <1>2 DEF StillAsked, Onward
<1>4. WaitCurrent(w) /\ \A u \in Waits \ {w} : ~WaitCurrent(u)
  BY DEF Declared, WaitCurrent
<1>5. NoteAnswer(c.from, found)
  BY DEF Declared
<1>6. want[w] \in Names /\ project \in Projects /\ bound[w][1] = project
  BY <1>4 DEF NInv, CInv, TypeOK, WaitCurrent, Bound, Now
<1>7. CASE c.answered
  <2>1. c # Absent /\ c.from = project /\ service[project][want[w]].ans > 0
    BY <1>6, <1>7 DEF NInv, CInv, True, From, Knows, Told, Absent
  <2>2. found \in SUBSET ({waiting} \cap Names) /\ \A r \in found : service[project][r].ans > 0
    BY <1>6, <2>1
  <2>3. \A u \in Waits : WaitCurrent(u) => bound[u][1] = project
    BY <1>4, <1>6
  <2>4. answer[w] # None \/ waiting \in found
    BY <1>4, <1>7 DEF NInv, Watching
  <2>5. \A u \in Waits : pc'[u] \in {"poll", "reading"} /\ WaitCurrent(u) /\ state'.cache[want[u]].answered
                           => answer[u] # None \/ waiting \in found
    BY <1>4, <2>4
  <2>6. NoteAnswer(project, found)
    BY <1>5, <2>1
  <2> HIDE DEF c, found
  <2> QED BY <1>1, <1>3, <1>6, <2>2, <2>3, <2>5, <2>6, NotedKeeps
<1>8. CASE ~c.answered
  <2>1. found = {}
    BY <1>8
  <2>2. NoteAnswer(project, {})
    BY <1>5, <2>1 DEF NoteAnswer
  <2>3. \A u \in Waits : pc'[u] \in {"poll", "reading"} /\ WaitCurrent(u) /\ state'.cache[want[u]].answered
                           => answer[u] # None
    BY <1>1, <1>4, <1>8
  <2>4. \A u \in Waits : WaitCurrent(u) => bound[u][1] = project
    BY <1>4, <1>6
  <2> HIDE DEF c, found
  <2> QED BY <1>1, <1>3, <1>6, <2>2, <2>3, <2>4, NotedKeeps
<1> QED BY <1>7, <1>8

LEMMA PageKeeps ==
  ASSUME NInv, TypeOK', NEW x \in Readers, ApplyPage(x)
  PROVE  NInv'
<1> USE DEF outside, session
<1>1. CInv' /\ project \in Projects
  BY PageCached DEF NInv
<1>2. PICK items \in SUBSET Names, omitted \in SUBSET Omissible :
        /\ omitted \subseteq items
        /\ NoteAnswer(project, Answers(project, items, omitted))
        /\ \A r \in Names : state'.cache[r] = IF r \in items THEN ReadItem(project, r, omitted)
                                              ELSE state.cache[r]
  BY PageCached DEF NInv
<1> DEFINE answers == Answers(project, items, omitted)
<1>3. answers \in SUBSET ({waiting} \cap Names) /\ \A r \in answers : service[project][r].ans > 0
  BY DEF Answers
<1>4. \A w \in Waits : pc'[w] = pc[w] \/ (pc[w] = "reading" /\ pc'[w] = "poll")
  <2>1. pc[x] = "reading" /\ \A w \in Waits : w # Watch /\ w \notin Prompts /\ w \in Readers
    BY DEF ApplyPage, Readers, Pollers
  <2>2. pc' = pc \/ Goto(x, IF x = Watch THEN "deliver" ELSE Rest(x))
    BY DEF ApplyPage, Return
  <2> QED BY <2>1, <2>2 DEF Goto, Rest, NInv, CInv, TypeOK
<1>5. StillAsked /\ UNCHANGED service
  BY <1>4 DEF ApplyPage, StillAsked, Onward
<1>6. \A w \in Waits : WaitCurrent(w) => bound[w][1] = project
  BY DEF WaitCurrent, Bound, Now
<1>7. ASSUME NEW w \in Waits, pc'[w] \in {"poll", "reading"}, WaitCurrent(w), state'.cache[want[w]].answered,
             answer[w] = None
      PROVE  waiting \in answers
  <2>1. want[w] \in Names /\ want[w] = waiting /\ ~state.cache[want[w]].answered
    BY <1>4, <1>7 DEF NInv, CInv, TypeOK, Watching, Heard
  <2>2. want[w] \in items /\ ReadItem(project, want[w], omitted).answered
    BY <1>2, <1>7, <2>1
  <2>3. ~service[project][want[w]].gone /\ want[w] \notin omitted /\ Entry(project, want[w]).answered
    BY <2>1, <2>2 DEF ReadItem, Absent
  <2> QED BY <2>1, <2>2, <2>3 DEF Answers, Entry
<1> HIDE DEF answers
<1> QED BY <1>1, <1>2, <1>3, <1>5, <1>6, <1>7, NotedKeeps DEF answers

LEMMA RebindKeeps ==
  ASSUME NInv, TypeOK', Rebind
  PROVE  NInv'
<1>1. CInv'
  BY RebindCached DEF NInv
<1>2. wait' = None /\ UNCHANGED <<service, want, answer, bound, pc>>
  BY DEF Rebind, outside
<1>3. Asked' /\ AnswerIsMine'
  BY <1>2 DEF NInv, Asked, AnswerIsMine
<1>4. \A w \in Waits : ~WaitCurrent(w)'
  BY <1>2 DEF WaitCurrent
<1> QED BY <1>1, <1>3, <1>4 DEF NInv, Watching, Heard

(* Steps that leave the waits where they are, or let one begin or end a read. *)
LEMMA AsideStands ==
  ASSUME CInv, UNCHANGED <<wait, want, bound, project, epoch, waiting, answer>>,
         closing' # "ended" => closing # "ended",
         \A w \in Waits :
           \/ pc'[w] = pc[w]
           \/ pc[w] \in {"poll", "reading"} /\ pc'[w] \in {"poll", "reading"}
           \/ pc'[w] = "done"
           \/ pc'[w] = "answered" /\ answer[w] # None,
         \A r \in Names : state'.cache[r].answered => state.cache[r].answered,
         \A p \in Projects, r \in Names : service[p][r].ans > 0 => service'[p][r].ans > 0
  PROVE  Aside
<1>1. StillAsked
  BY DEF StillAsked, Onward
<1>2. \A w \in Waits : pc'[w] \in {"poll", "reading"} => pc[w] \in {"poll", "reading"}
  OBVIOUS
<1> QED BY <1>1, <1>2 DEF Aside

(* Steps of the watch and of the host touch no wait. *)
LEMMA WatchAside ==
  ASSUME CInv, TypeOK', UNCHANGED <<service, cached, project, epoch, ticket>>,
         \A w \in Waits : pc'[w] = pc[w] /\ bound'[w] = bound[w],
         closing' # "ended" => closing # "ended"
  PROVE  CInv' /\ Aside
<1>1. CInv'
  BY Untouched
<1>2. StillAsked
  BY DEF StillAsked, Onward, ticket
<1> QED BY <1>1, <1>2 DEF Aside, ticket, cached

LEMMA WatchSteps ==
  ASSUME CInv, TypeOK',
         \/ StartWatch \/ Rewatch \/ PollEnds \/ Deliver \/ Submit \/ HostAccepts \/ HostRejects
         \/ SubmitTimesOut \/ StopWatch \/ EndSession
  PROVE  CInv' /\ Aside
<1> USE DEF outside, session, live, reads
<1>1. Watch \notin Waits /\ Waits \subseteq Pollers /\ Waits \subseteq Readers
  BY DEF Pollers, Readers
<1>2. pc \in [Readers -> {"idle", "declared", "poll", "reading", "deliver", "submitted", "answered", "done"}]
      /\ bound \in [Pollers -> Bindings]
  BY DEF CInv, TypeOK
<1>3. \A label : Goto(Watch, label) => \A w \in Waits : pc'[w] = pc[w]
  BY <1>1, <1>2 DEF Goto
<1>4. Resume => \A w \in Waits : pc'[w] = pc[w]
  BY <1>1, <1>2 DEF Resume
<1>5. \A b : bound' = [bound EXCEPT ![Watch] = b] => \A w \in Waits : bound'[w] = bound[w]
  BY <1>1, <1>2
<1>6. UNCHANGED <<service, cached, project, epoch, ticket>>
  BY DEF StartWatch, Rewatch, PollEnds, Deliver, Submit, HostAccepts, HostRejects, SubmitTimesOut,
         StopWatch, EndSession
<1>7. \A w \in Waits : pc'[w] = pc[w]
  BY <1>3, <1>4 DEF StartWatch, Rewatch, PollEnds, Deliver, Submit, HostAccepts, HostRejects,
                    SubmitTimesOut, StopWatch, EndSession
<1>8. \A w \in Waits : bound'[w] = bound[w]
  BY <1>5 DEF StartWatch, Rewatch, PollEnds, Deliver, Submit, HostAccepts, HostRejects,
              SubmitTimesOut, StopWatch, EndSession
<1>9. closing' # "ended" => closing # "ended"
  BY DEF StartWatch, Rewatch, PollEnds, Deliver, Submit, HostAccepts, HostRejects,
         SubmitTimesOut, StopWatch, EndSession, Running
<1> QED BY <1>6, <1>7, <1>8, <1>9, WatchAside

(* Nor does a read that begins, fails or is left, or the end of a wait,
   change more of a wait than where it is. *)
LEMMA ReadSteps ==
  ASSUME CInv, TypeOK', NEW x \in Readers,
         \/ x \in Pollers /\ Read(x)
         \/ x \in Prompts /\ Prompt(x)
         \/ Leave(x) \/ ReadFails(x)
         \/ x \in Waits /\ WaitEnds(x)
  PROVE  CInv' /\ Aside
<1> USE DEF outside, session, ticket, live
<1>1. /\ UNCHANGED <<service, wait, want, bound, project, epoch, waiting, answer, closing>>
      /\ \A w \in Waits : w \notin Prompts /\ w # Watch /\ w \in Readers
  BY DEF Read, Prompt, Leave, ReadFails, WaitEnds, Readers, Pollers
<1>2. CInv' /\ \A r \in Names : state'.cache[r].answered => state.cache[r].answered
  <2>1. CASE x \in Pollers /\ Read(x)
    BY <1>1, <2>1, OpenKnown DEF Read
  <2>2. CASE x \in Prompts /\ Prompt(x)
    BY <1>1, <2>2, OpenKnown DEF Prompt
  <2>3. CASE Leave(x)
    BY <1>1, <2>3, Untouched DEF Leave, cached
  <2>4. CASE ReadFails(x)
    BY <2>4, FailCached
  <2>5. CASE x \in Waits /\ WaitEnds(x)
    BY <1>1, <2>5, Untouched DEF WaitEnds, cached
  <2> QED BY <2>1, <2>2, <2>3, <2>4, <2>5
<1>3. ASSUME NEW w \in Waits
      PROVE  \/ pc'[w] = pc[w]
             \/ pc[w] \in {"poll", "reading"} /\ pc'[w] \in {"poll", "reading"}
             \/ pc'[w] = "done"
             \/ pc'[w] = "answered" /\ answer[w] # None
  <2>1. pc \in [Readers -> {"idle", "declared", "poll", "reading", "deliver", "submitted", "answered", "done"}]
    BY DEF CInv, TypeOK
  <2>2. w \in Readers /\ w \notin Prompts
    BY <1>1
  <2>3. CASE x \in Pollers /\ Read(x)
    BY <2>1, <2>2, <2>3 DEF Read, Open, Goto
  <2>4. CASE x \in Prompts /\ Prompt(x)
    BY <2>1, <2>2, <2>4 DEF Prompt, Open, Goto
  <2>5. CASE Leave(x)
    BY <2>1, <2>2, <2>5 DEF Leave, Goto, Rest
  <2>6. CASE ReadFails(x)
    BY <2>1, <2>2, <2>6 DEF ReadFails, Goto, Rest
  <2>7. CASE x \in Waits /\ WaitEnds(x)
    BY <2>1, <2>2, <2>7 DEF WaitEnds, Goto, Returns
  <2> QED BY <2>3, <2>4, <2>5, <2>6, <2>7
<1> QED BY <1>1, <1>2, <1>3, AsideStands

LEMMA EditKeeps ==
  ASSUME CInv, TypeOK', NEW p \in Projects, NEW r \in Names, Edit(p, r)
  PROVE  CInv' /\ Aside
<1>1. UNCHANGED <<wait, want, bound, project, epoch, waiting, answer, closing, pc, state>>
  BY DEF Edit, session, ticket, cached
<1> QED BY <1>1, EditCached, AsideStands

-----------------------------------------------------------------------------
(* What a session may count on *)

LEMMA NInit == Init => NInv
<1> SUFFICES ASSUME Init PROVE NInv
  OBVIOUS
<1>1. TypeOK
  BY TypeInit
<1>2. \A p \in Projects : service[p] \in Rows /\ True(p, Blank)
  <2>1. \A r \in Names : Blank.cursor[r] = 0 /\ Blank.cache[r] = Absent
    BY DEF Blank, NoCursor, NoCache
  <2>2. ASSUME NEW p \in Projects PROVE service[p] \in Rows /\ Knows(service[p], Blank)
    <3>1. service[p] \in Rows /\ \A r \in Names : service[p][r].v = 0 /\ service[p][r].ans = 0
      BY <1>1 DEF Init, TypeOK, Rows
    <3> QED BY <2>1, <3>1 DEF Knows, Covered, Told, Shown, Claims, Absent
  <2> QED BY <2>1, <2>2 DEF True, From
<1>3. CInv
  BY <1>1, <1>2 DEF CInv, Init, TypeOK
<1>4. \A w \in Waits : pc[w] = "idle" /\ answer[w] = None
  BY DEF Init, Readers, Pollers
<1>5. wait = None /\ \A w \in Waits : ~WaitCurrent(w)
  BY DEF Init, WaitCurrent
<1> QED BY <1>3, <1>4, <1>5 DEF NInv, Asked, AnswerIsMine, Watching, Heard

LEMMA NNext == ASSUME NInv, [Next]_vars PROVE NInv'
<1>1. TypeOK /\ CInv /\ TypeOK'
  BY TypeNext DEF NInv, CInv
<1>2. CASE UNCHANGED vars
  <2>1. CInv'
    BY <1>1, <1>2, Untouched DEF vars, cached
  <2>2. Aside
    BY <1>1, <1>2, AsideStands DEF vars
  <2> QED BY <2>1, <2>2, AsideKeeps
<1>3. ASSUME NEW p \in Projects, NEW r \in Names, Edit(p, r) PROVE NInv'
  BY <1>1, <1>3, EditKeeps, AsideKeeps
<1>4. ASSUME NEW x \in Pollers, Read(x) PROVE NInv'
  BY <1>1, <1>4, ReadSteps, AsideKeeps DEF Readers
<1>5. ASSUME NEW x \in Prompts, Prompt(x) PROVE NInv'
  BY <1>1, <1>5, ReadSteps, AsideKeeps DEF Readers
<1>6. ASSUME NEW x \in Readers, ApplyPage(x) PROVE NInv'
  BY <1>1, <1>6, PageKeeps
<1>7. ASSUME NEW x \in Readers, Leave(x) \/ ReadFails(x) PROVE NInv'
  BY <1>1, <1>7, ReadSteps, AsideKeeps
<1>8. ASSUME NEW w \in Waits, Declare(w) PROVE NInv'
  BY <1>1, <1>8, DeclareKeeps
<1>9. ASSUME NEW w \in Waits, Declared(w) PROVE NInv'
  BY <1>1, <1>9, DeclaredKeeps
<1>10. ASSUME NEW w \in Waits, WaitEnds(w) PROVE NInv'
  <2>1. w \in Readers
    BY DEF Readers, Pollers
  <2> QED BY <1>1, <1>10, <2>1, ReadSteps, AsideKeeps
<1>11. CASE \/ StartWatch \/ Rewatch \/ PollEnds \/ Deliver \/ Submit \/ HostAccepts \/ HostRejects
            \/ SubmitTimesOut \/ StopWatch \/ EndSession
  BY <1>1, <1>11, WatchSteps, AsideKeeps
<1>12. CASE Rebind
  BY <1>1, <1>12, RebindKeeps
<1> QED BY <1>2, <1>3, <1>4, <1>5, <1>6, <1>7, <1>8, <1>9, <1>10, <1>11, <1>12 DEF Next

LEMMA NAlways == Spec => []NInv
<1>1. NInv /\ [Next]_vars => NInv'
  BY NNext
<1> QED BY <1>1, NInit, PTL DEF Spec

(* An answer ends only the wait that asked for it, however many waits take
   over from each other, and whichever projects the session is bound to. *)
THEOREM AnswerIsMineAlways == Spec => []AnswerIsMine
<1>1. NInv => AnswerIsMine
  BY DEF NInv
<1> QED BY <1>1, NAlways, PTL

(* The cache tells of its own project only, and never a claim the cursor has
   gone past, in memory and in every session's journal. *)
THEOREM CacheFaithfulAlways == Spec => []CacheFaithful
<1>1. \A p \in Projects : \A s : True(p, s) => Faithful(p, s)
  BY DEF True, From, Knows, Claims, Faithful
<1>2. NInv => CacheFaithful
  BY <1>1 DEF NInv, CInv, TypeOK, CacheFaithful
<1> QED BY <1>2, NAlways, PTL

(* The answer a session is blocked on is not dropped, whoever read it and
   however often the project was left and come back to, as long as the service
   sends requests with their body. *)
THEOREM AnswerNotMissedAlways ==
  ASSUME Requests \cap Omissible = {}
  PROVE  Spec => []AnswerNotMissed
<1>1. NInv => AnswerNotMissed
  <2> SUFFICES ASSUME NInv, NEW w \in Waits, pc[w] \in {"poll", "reading"}, WaitCurrent(w),
                      service[bound[w][1]][want[w]].ans \in 1 .. state.cursor[want[w]],
                      ~service[bound[w][1]][want[w]].gone
               PROVE  answer[w] # None
    BY DEF AnswerNotMissed
  <2>1. bound[w][1] = project
    BY DEF WaitCurrent, Bound, Now
  <2>2. want[w] \in Names \ Omissible
    BY DEF NInv, CInv, TypeOK
  <2>3. state.cache[want[w]].answered
    BY <2>1, <2>2 DEF NInv, CInv, True, Knows, Shown
  <2> QED BY <2>3 DEF NInv, Heard
<1> QED BY <1>1, NAlways, PTL
=============================================================================
