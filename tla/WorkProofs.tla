----------------------------- MODULE WorkProofs -----------------------------
(***************************************************************************)
(* Work, for any calls, projects, records and people: a request takes      *)
(* effect where and on what it was decided for, a question goes to nobody  *)
(* by guess, and what the session is told of a request is so.              *)
(*                                                                         *)
(* What a call sent and read stays with it: a request is looked at when it *)
(* is sent, and then carried along as it waits, is late or is applied.     *)
(* While a call reads, whatever it is looking for and was there all along  *)
(* is on a page it has read or still before it.                            *)
(* Last, type correctness, of which the bound on versions is the harder    *)
(* half: a call takes effect on a record at most once.                     *)
(***************************************************************************)
EXTENDS Work, FiniteSetTheorems, TLAPS

Bindings == [project : Projects, epoch : Nat]
Entries == [project : Projects, id : Nat, version : Nat, mine : BOOLEAN]
Requests == [call : Calls, project : Projects, id : Nat, version : Nat]
States == [pc : {"free", "read", "decide", "items", "sent", "over"},
           tool : Tools \cup {"none"}, at : Bindings, arg : SUBSET Records,
           read : SUBSET Entries, pages : Nat, cursor : Nat,
           whole : BOOLEAN, sent : SUBSET Requests,
           outcome : {"none", "done", "refused", "unknown", "failed"}]

(* As much of the types as this needs: versions have no bound here. *)
Typed ==
  /\ hook \in Bindings
  /\ work \in [Projects -> [Records -> [version : Nat, mine : BOOLEAN]]]
  /\ agents \subseteq Projects
  /\ names \in [Projects -> SUBSET People]
  /\ call \in [Calls -> States]
  /\ late \subseteq Requests /\ applied \subseteq Requests
  /\ steady \in [Calls -> SUBSET Nat]

(* What was sent. *)
Gone(c) == {q \in late \cup applied : q.call = c}
Proper(c, q) ==
  /\ q.call = c
  /\ call[c].tool \in {"write", "publish"} => q.id \in Records
  /\ call[c].tool # "publish" => q.project = call[c].at.project
  /\ call[c].tool = "write" =>
       [project |-> q.project, id |-> q.id, version |-> q.version, mine |-> TRUE] \in call[c].read
  /\ call[c].tool = "ask" => steady[c] \subseteq {q.id}
Sending(c) ==
  /\ \A q \in call[c].sent \cup Gone(c) : Proper(c, q)
  /\ call[c].pc \in {"free", "read", "decide"} => call[c].sent = {} /\ Gone(c) = {}
  /\ call[c].pc = "sent" /\ call[c].tool # "publish" => Gone(c) = {}
  /\ call[c].pc = "items" => call[c].tool = "publish"

(* What is said of it. *)
Telling(c) ==
  /\ call[c].tool \in {"ask", "send"} /\ Gone(c) # {} => call[c].outcome # "refused"
  /\ call[c].pc # "over" => call[c].outcome = "none"
  /\ call[c].outcome = "done" /\ call[c].tool \in {"write", "ask", "send"} =>
       \E q \in applied : q.call = c

(* What was read. *)
Found(c) == {e.id : e \in call[c].read}
Reading(c) ==
  /\ call[c].pc = "free" => call[c].read = {} /\ call[c].cursor = 0 /\ ~ call[c].whole
  /\ call[c].pc = "read" =>
       /\ ~ call[c].whole
       /\ steady[c] \subseteq Sought(call[c].tool, call[c].at.project)
       /\ \A x \in steady[c] : x > call[c].cursor \/ x \in Found(c)
  /\ call[c].whole => steady[c] \subseteq Found(c)
  /\ call[c].tool = "ask" => \A e \in call[c].read : e.id \in steady[c] => e.mine
  /\ \A e \in call[c].read : e.project = call[c].at.project

Kept(c) == Sending(c) /\ Telling(c) /\ Reading(c)
IInv == Typed /\ \A c \in Calls : Kept(c)

-----------------------------------------------------------------------------
LEMMA IdsAreNumbers == Ids \subseteq Nat
BY WorkAssumption DEF Ids

LEMMA MaxOne == ASSUME NEW m \in Nat PROVE Max({m}) = m
BY DEF Max

(* What a page shows has numbers, and what a tool looks for is shown. *)
LEMMA ShownTyped ==
  ASSUME Typed, NEW t, NEW p \in Projects
  PROVE  /\ Shown(t, p) \subseteq Nat /\ Sought(t, p) \subseteq Shown(t, p)
         /\ \A x \in Shown(t, p) : Seen(t, p, x) \in Entries /\ Seen(t, p, x).id = x
                                 /\ Seen(t, p, x).project = p
<1>1. Records \subseteq Nat /\ People \subseteq Nat /\ Agent \in Nat
  BY WorkAssumption
<1>2. Shown(t, p) \subseteq Nat
  BY <1>1 DEF Shown
<1>3. Sought(t, p) \subseteq Shown(t, p)
  BY DEF Sought, Shown, Typed
<1>4. ASSUME NEW x \in Shown(t, p)
      PROVE  Seen(t, p, x) \in Entries /\ Seen(t, p, x).id = x /\ Seen(t, p, x).project = p
  <2>1. CASE t = "ask" \/ x = Agent
    BY <1>2, <2>1 DEF Seen, Entries
  <2>2. CASE ~ (t = "ask" \/ x = Agent)
    <3>1. x \in Records
      BY <2>2 DEF Shown
    <3>2. work[p][x].version \in Nat /\ work[p][x].mine \in BOOLEAN
      BY <3>1 DEF Typed
    <3> QED BY <1>2, <2>2, <3>2 DEF Seen, Entries
  <2> QED BY <2>1, <2>2
<1> QED BY <1>2, <1>3, <1>4

(* The page is one entry, the next, if there is any. *)
LEMMA PageOne ==
  ASSUME NEW rest \in SUBSET Nat, NEW page, page = {x \in rest : \A y \in rest : x <= y}, page # {}
  PROVE  Max(page) \in page /\ page = {Max(page)} /\ \A x \in rest : x = Max(page) \/ x > Max(page)
<1>1. PICK m \in page : TRUE
  OBVIOUS
<1>2. m \in rest /\ m \in Nat /\ \A x \in rest : m <= x
  BY <1>1
<1>3. ASSUME NEW z \in page PROVE z = m
  <2>1. z \in rest /\ z \in Nat /\ \A x \in rest : z <= x
    OBVIOUS
  <2>2. z <= m /\ m <= z
    BY <1>2, <2>1
  <2> QED BY <1>2, <2>1, <2>2
<1>4. page = {m}
  BY <1>1, <1>3
<1>5. Max(page) = m
  BY <1>2, <1>4, MaxOne
<1>6. ASSUME NEW x \in rest PROVE x = m \/ x > m
  BY <1>2
<1> QED BY <1>1, <1>4, <1>5, <1>6

-----------------------------------------------------------------------------
(* A call goes on with another state of its own. *)
LEMMA GoesOn ==
  ASSUME Typed, NEW c \in Calls, NEW s \in States, call' = [call EXCEPT ![c] = s]
  PROVE  /\ call' \in [Calls -> States] /\ call'[c] = s
         /\ \A d \in Calls \ {c} : call'[d] = call[d]
BY DEF Typed

(* A call is over. *)
LEMMA EndTyped ==
  ASSUME Typed, NEW c \in Calls, NEW o \in {"done", "refused", "unknown", "failed"}, End(c, o)
  PROVE  /\ call' \in [Calls -> States]
         /\ call'[c] = [call[c] EXCEPT !.pc = "over", !.outcome = o]
         /\ \A d \in Calls \ {c} : call'[d] = call[d]
<1> DEFINE s == [call[c] EXCEPT !.pc = "over", !.outcome = o]
<1>1. call[c] \in States
  BY DEF Typed
<1>2. s \in States
  BY <1>1 DEF States
<1>3. call' = [call EXCEPT ![c] = s]
  BY DEF End
<1> HIDE DEF s
<1>4. /\ call' \in [Calls -> States] /\ call'[c] = s
      /\ \A d \in Calls \ {c} : call'[d] = call[d]
  BY <1>2, <1>3, GoesOn
<1> QED BY <1>4 DEF s

(* It sends a request. *)
LEMMA PostTyped ==
  ASSUME Typed, NEW c \in Calls, NEW q \in Requests, Post(c, q)
  PROVE  /\ call' \in [Calls -> States]
         /\ call'[c] = [call[c] EXCEPT !.pc = "sent", !.sent = {q}]
         /\ \A d \in Calls \ {c} : call'[d] = call[d]
<1> DEFINE s == [call[c] EXCEPT !.pc = "sent", !.sent = {q}]
<1>1. call[c] \in States
  BY DEF Typed
<1>2. s \in States
  BY <1>1 DEF States
<1>3. call' = [call EXCEPT ![c] = s]
  BY DEF Post
<1> HIDE DEF s
<1>4. /\ call' \in [Calls -> States] /\ call'[c] = s
      /\ \A d \in Calls \ {c} : call'[d] = call[d]
  BY <1>2, <1>3, GoesOn
<1> QED BY <1>4 DEF s

(* It is told of its request. *)
LEMMA ToldTyped ==
  ASSUME Typed, NEW c \in Calls, NEW o \in {"done", "refused", "unknown", "failed"}, Told(c, o)
  PROVE  /\ call' \in [Calls -> States]
         /\ call'[c] = IF call[c].tool = "publish"
                       THEN [call[c] EXCEPT !.pc = "items", !.sent = {}]
                       ELSE [call[c] EXCEPT !.pc = "over", !.outcome = o]
         /\ \A d \in Calls \ {c} : call'[d] = call[d]
<1>1. CASE call[c].tool # "publish"
  BY <1>1, EndTyped DEF Told
<1>2. CASE call[c].tool = "publish"
  <2> DEFINE s == [call[c] EXCEPT !.pc = "items", !.sent = {}]
  <2>1. call[c] \in States
    BY DEF Typed
  <2>2. s \in States
    BY <2>1 DEF States
  <2>3. call' = [call EXCEPT ![c] = s]
    BY <1>2 DEF Told
  <2> HIDE DEF s
  <2>4. /\ call' \in [Calls -> States] /\ call'[c] = s
        /\ \A d \in Calls \ {c} : call'[d] = call[d]
    BY <2>2, <2>3, GoesOn
  <2> QED BY <1>2, <2>4 DEF s
<1> QED BY <1>1, <1>2

(* A request the service takes only raises versions. *)
LEMMA TakeTyped ==
  ASSUME Typed, NEW q \in Requests, Take(q)
  PROVE  /\ work' \in [Projects -> [Records -> [version : Nat, mine : BOOLEAN]]]
         /\ \A p \in Projects, r \in Records : work'[p][r].version >= work[p][r].version
         /\ applied' = applied \cup {q}
<1>1. q.project \in Projects
  BY DEF Requests
<1>2. CASE ~ Overwrites(q)
  BY <1>2 DEF Take, Typed
<1>3. CASE Overwrites(q)
  <2> DEFINE w == work[q.project]
             r == w[q.id]
             n == [version |-> r.version + 1, mine |-> r.mine \/ r.version = 0]
             v == [w EXCEPT ![q.id] = n]
  <2>1. work' = [work EXCEPT ![q.project] = v]
    BY <1>3 DEF Take
  <2>2. w \in [Records -> [version : Nat, mine : BOOLEAN]]
    BY <1>1 DEF Typed
  <2>3. v \in [Records -> [version : Nat, mine : BOOLEAN]] /\ \A x \in Records : v[x].version >= w[x].version
    <3>1. ASSUME q.id \in Records
          PROVE n \in [version : Nat, mine : BOOLEAN] /\ n.version >= r.version
      BY <2>2, <3>1
    <3> HIDE DEF n
    <3>2. \A x \in Records : v[x] = IF x = q.id THEN n ELSE w[x]
      BY <2>2
    <3>3. \A x \in Records : w[x].version >= w[x].version
      BY <2>2
    <3> QED BY <2>2, <3>1, <3>2, <3>3
  <2> HIDE DEF v
  <2>4. work' \in [Projects -> [Records -> [version : Nat, mine : BOOLEAN]]]
    BY <1>1, <2>1, <2>3 DEF Typed
  <2>5. \A p \in Projects : work'[p] = IF p = q.project THEN v ELSE work[p]
    BY <2>1 DEF Typed
  <2>6. \A p \in Projects, x \in Records : work[p][x].version >= work[p][x].version
    BY DEF Typed
  <2> QED BY <2>3, <2>4, <2>5, <2>6 DEF Take
<1> QED BY <1>2, <1>3

-----------------------------------------------------------------------------
(* Nothing that shows is taken from the pages. *)
Grows ==
  /\ \A p \in Projects, r \in Records : work[p][r].version > 0 => work'[p][r].version > 0
  /\ agents \subseteq agents' /\ \A p \in Projects : names[p] \subseteq names'[p]

LEMMA SoughtGrows ==
  ASSUME Grows, NEW p \in Projects, NEW t
  PROVE  Sought(t, p) \subseteq Sought(t, p)'
BY DEF Grows, Sought, Shown

(* A call that does nothing while the pages grow stays as it is. *)
LEMMA Rests ==
  ASSUME IInv, Grows, NEW d \in Calls, call'[d] = call[d], steady'[d] = steady[d],
         Gone(d)' \subseteq Gone(d), applied \subseteq applied'
  PROVE  Kept(d)'
<1>1. Kept(d) /\ call[d] \in States
  BY DEF IInv, Typed
<1>2. Sending(d)'
  BY <1>1 DEF Kept, Sending, Proper
<1>3. Telling(d)'
  BY <1>1 DEF Kept, Telling
<1>4. Reading(d)'
  <2>1. Found(d)' = Found(d)
    BY DEF Found
  <2> DEFINE t == call[d].tool
             p == call[d].at.project
  <2>2. p \in Projects
    BY <1>1 DEF States, Bindings
  <2>3. ASSUME call[d].pc = "read"
        PROVE steady'[d] \subseteq Sought(call[d].tool, call[d].at.project)'
    <3>1. steady[d] \subseteq Sought(t, p)
      BY <1>1, <2>3 DEF Kept, Reading
    <3>2. call'[d].tool = t /\ call'[d].at.project = p
      OBVIOUS
    <3> HIDE DEF t, p
    <3>3. steady'[d] \subseteq IF t = "ask" THEN names'[p] ELSE {r \in Records : work'[p][r].version > 0} \cup {a \in {Agent} : p \in agents'}
      BY <3>1, <2>2 DEF Sought, Shown, Grows
    <3> QED BY <3>2, <3>3 DEF Sought, Shown
  <2> QED BY <1>1, <2>1, <2>3 DEF Kept, Reading
<1> QED BY <1>2, <1>3, <1>4 DEF Kept

(* One call acts, and the others rest. *)
LEMMA OneActs ==
  ASSUME IInv, Typed', Grows, NEW c \in Calls,
         \A d \in Calls \ {c} : call'[d] = call[d] /\ steady'[d] = steady[d] /\ Gone(d)' \subseteq Gone(d),
         applied \subseteq applied', Kept(c)'
  PROVE  IInv'
<1>1. \A d \in Calls \ {c} : Kept(d)'
  BY Rests
<1> QED BY <1>1 DEF IInv

LEMMA SameGrows == UNCHANGED <<work, agents, names>> => Grows
BY DEF Grows

-----------------------------------------------------------------------------
(* A call ends without a request of its own to be told of. *)
LEMMA EndKeeps ==
  ASSUME IInv, NEW c \in Calls, NEW o \in {"done", "refused", "unknown", "failed"}, End(c, o),
         UNCHANGED <<hook, work, agents, names, late, applied, steady>>,
         call[c].pc \in {"read", "decide", "items"},
         o = "refused" => call[c].pc # "items",
         o = "done" => call[c].tool \in {"tasks", "publish"}
  PROVE  IInv'
<1> DEFINE s == call[c]
<1>1. Typed /\ Kept(c)
  BY DEF IInv
<1>2. /\ call' \in [Calls -> States] /\ call'[c] = [s EXCEPT !.pc = "over", !.outcome = o]
      /\ \A d \in Calls \ {c} : call'[d] = call[d]
  BY <1>1, EndTyped
<1>3. Typed'
  BY <1>1, <1>2 DEF Typed
<1>4. s \in States
  BY <1>1 DEF Typed
<1>5. /\ call'[c].pc = "over" /\ call'[c].outcome = o
      /\ call'[c].tool = s.tool /\ call'[c].at = s.at /\ call'[c].read = s.read
      /\ call'[c].whole = s.whole /\ call'[c].sent = s.sent
  BY <1>2, <1>4 DEF States
<1>6. \A d \in Calls : Gone(d)' = Gone(d)
  BY DEF Gone
<1>7. Sending(c)'
  BY <1>1, <1>5, <1>6 DEF Kept, Sending, Proper
<1>8. Telling(c)'
  <2>1. o = "refused" => Gone(c) = {}
    BY <1>1 DEF Kept, Sending
  <2> QED BY <2>1, <1>5, <1>6 DEF Telling
<1>9. Reading(c)'
  BY <1>1, <1>5 DEF Kept, Reading, Found
<1>10. Grows
  BY SameGrows
<1> QED BY <1>2, <1>3, <1>6, <1>7, <1>8, <1>9, <1>10, OneActs DEF Kept

(* A call begins, and has not read anything. *)
LEMMA CallKeeps ==
  ASSUME IInv, NEW c \in Calls, NEW t \in Tools, NEW arg \in SUBSET Records, Call(c, t, arg)
  PROVE  IInv'
<1> DEFINE s == call[c]
           q == [call |-> c, project |-> hook.project, id |-> Nobody, version |-> 0]
           n == [s EXCEPT !.tool = t, !.at = hook, !.arg = arg,
                   !.pc = IF t = "send" THEN "sent" ELSE "read",
                   !.sent = {q : x \in {t} \cap {"send"}}]
<1>1. Typed /\ Kept(c) /\ s \in States /\ s.pc = "free"
  BY DEF IInv, Typed, Call
<1>2. hook \in Bindings /\ hook.project \in Projects
  BY <1>1 DEF Typed, Bindings
<1>3. {q : x \in {t} \cap {"send"}} \subseteq {q} /\ (t # "send" => {q : x \in {t} \cap {"send"}} = {})
  OBVIOUS
<1>4. q \in Requests
  BY <1>2 DEF Requests, Nobody
<1>5. n \in States
  BY <1>1, <1>2, <1>3, <1>4 DEF States
<1>6. call' = [call EXCEPT ![c] = n]
  BY DEF Call
<1>7. /\ n.pc = (IF t = "send" THEN "sent" ELSE "read") /\ n.tool = t /\ n.at = hook
      /\ n.sent = {q : x \in {t} \cap {"send"}} /\ n.read = s.read /\ n.cursor = s.cursor
      /\ n.whole = s.whole /\ n.outcome = s.outcome
  BY <1>1 DEF States
<1> HIDE DEF n
<1>8. /\ call' \in [Calls -> States] /\ call'[c] = n
      /\ \A d \in Calls \ {c} : call'[d] = call[d]
  BY <1>1, <1>5, <1>6, GoesOn
<1>9. /\ hook' = hook /\ work' = work /\ agents' = agents /\ names' = names
      /\ late' = late /\ applied' = applied
      /\ steady' = [steady EXCEPT ![c] = IF t = "send" THEN {} ELSE Sought(t, hook.project)]
  BY DEF Call, service
<1>10. Sought(t, hook.project) \subseteq Nat
  BY <1>1, <1>2, ShownTyped
<1>11. /\ steady' \in [Calls -> SUBSET Nat]
       /\ steady'[c] = IF t = "send" THEN {} ELSE Sought(t, hook.project)
       /\ \A d \in Calls \ {c} : steady'[d] = steady[d]
  BY <1>1, <1>9, <1>10 DEF Typed
<1>12. Typed'
  BY <1>1, <1>8, <1>9, <1>11 DEF Typed
<1>13. \A d \in Calls : Gone(d)' = Gone(d)
  BY <1>9 DEF Gone
<1>14. Gone(c) = {} /\ s.read = {} /\ s.cursor = 0 /\ ~ s.whole /\ s.outcome = "none"
  BY <1>1 DEF Kept, Sending, Telling, Reading
<1>15. Sending(c)'
  <2>1. Gone(c)' = {}
    BY <1>13, <1>14
  <2>2. \A r \in call'[c].sent : Proper(c, r)'
    BY <1>3, <1>7, <1>8, <1>11 DEF Proper
  <2>3. n.pc \in {"free", "read", "decide"} => n.sent = {}
    BY <1>3, <1>7
  <2> QED BY <2>1, <2>2, <2>3, <1>7, <1>8 DEF Sending
<1>16. Telling(c)'
  BY <1>7, <1>8, <1>13, <1>14 DEF Telling
<1>17. Reading(c)'
  <2> DEFINE p == hook.project
  <2>1. Sought(t, p) = IF t = "ask" THEN names'[p]
          ELSE {r \in Records : work'[p][r].version > 0} \cup {a \in {Agent} : p \in agents'}
    BY <1>9 DEF Sought, Shown
  <2>2. call'[c].tool = t /\ call'[c].at.project = p /\ call'[c].pc = n.pc
        /\ call'[c].read = {} /\ call'[c].cursor = 0 /\ ~ call'[c].whole
    BY <1>7, <1>8, <1>14
  <2> HIDE DEF p
  <2>3. n.pc = "read" => steady'[c] \subseteq Sought(call[c].tool, call[c].at.project)'
    <3>1. n.pc = "read" => t # "send"
      BY <1>7
    <3>2. n.pc = "read" => steady'[c] = Sought(t, p)
      BY <3>1, <1>11 DEF p
    <3> QED BY <3>2, <2>1, <2>2 DEF Sought, Shown
  <2>4. \A x \in steady'[c] : x > 0
    <3>1. Records \cup People \cup {Agent} \subseteq Nat \ {0}
      BY WorkAssumption
    <3>2. Sought(t, p) \subseteq Nat \ {0}
      BY <3>1, <1>1, <1>2 DEF Sought, Shown, Typed, p
    <3> QED BY <3>2, <1>11 DEF p
  <2>5. n.pc # "free"
    BY <1>7
  <2> QED BY <2>2, <2>3, <2>4, <2>5 DEF Reading, Found
<1>18. Grows
  BY <1>9, SameGrows
<1> QED BY <1>8, <1>9, <1>11, <1>12, <1>13, <1>15, <1>16, <1>17, <1>18, OneActs DEF Kept

(* A page brings the next entry, and leaves what comes after it. *)
LEMMA ReadPageKeeps ==
  ASSUME IInv, NEW c \in Calls, ReadPage(c)
  PROVE  IInv'
<1> DEFINE s == call[c]
           p == s.at.project
           rest == {x \in Shown(s.tool, p) : x > s.cursor}
           page == {x \in rest : \A y \in rest : x <= y}
           more == rest # page
           new == {Seen(s.tool, p, x) : x \in page}
           after == IF page = {} THEN s.cursor ELSE Max(page)
           n == [s EXCEPT !.read = @ \cup new, !.pages = @ + 1, !.cursor = after, !.whole = ~ more,
                   !.pc = IF more /\ s.pages + 1 < PAGE_LIMIT THEN "read" ELSE "decide"]
<1>1. Typed /\ Kept(c) /\ s \in States /\ s.pc = "read"
  BY DEF IInv, Typed, ReadPage
<1>2. p \in Projects
  BY <1>1 DEF States, Bindings
<1>3. /\ Shown(s.tool, p) \subseteq Nat /\ Sought(s.tool, p) \subseteq Shown(s.tool, p)
      /\ \A x \in Shown(s.tool, p) : /\ Seen(s.tool, p, x) \in Entries /\ Seen(s.tool, p, x).id = x
                                      /\ Seen(s.tool, p, x).project = p
  BY <1>1, <1>2, ShownTyped
<1>4. rest \subseteq Nat /\ page \subseteq rest /\ rest \subseteq Shown(s.tool, p)
  BY <1>3
<1>5. new \subseteq Entries
  BY <1>3, <1>4
<1>6. page # {} => /\ Max(page) \in page /\ page = {Max(page)}
                   /\ \A x \in rest : x = Max(page) \/ x > Max(page)
  <2> HIDE DEF rest
  <2> QED BY <1>4, PageOne
<1>7. after \in Nat
  BY <1>1, <1>4, <1>6 DEF States
<1>8. call' = [call EXCEPT ![c] = n] /\ UNCHANGED <<hook, work, agents, names, late, applied, steady>>
  BY DEF ReadPage, service
<1>9. more \in BOOLEAN
  OBVIOUS
<1> HIDE DEF new, after, more
<1>10. /\ n \in States
       /\ n.pc \in {"read", "decide"} /\ n.tool = s.tool /\ n.at = s.at /\ n.read = s.read \cup new
       /\ n.cursor = after /\ n.whole = ~ more /\ n.sent = s.sent /\ n.outcome = s.outcome
       /\ n.pc = "read" => more
  <2> DEFINE next == IF more /\ s.pages + 1 < PAGE_LIMIT THEN "read" ELSE "decide"
  <2>1. next \in {"read", "decide"} /\ (next = "read" => more)
    BY <1>9
  <2>2. s.pages + 1 \in Nat /\ s.read \cup new \in SUBSET Entries /\ (~ more) \in BOOLEAN
    BY <1>1, <1>5, <1>9 DEF States
  <2> HIDE DEF next
  <2> QED BY <2>1, <2>2, <1>1, <1>7 DEF States
<1> HIDE DEF n
<1>11. /\ call' \in [Calls -> States] /\ call'[c] = n
       /\ \A d \in Calls \ {c} : call'[d] = call[d]
  BY <1>1, <1>8, <1>10, GoesOn
<1>12. Typed'
  BY <1>1, <1>8, <1>11 DEF Typed
<1>13. \A d \in Calls : Gone(d)' = Gone(d)
  BY <1>8 DEF Gone
<1>14. Sending(c)'
  <2>1. s.sent = {} /\ Gone(c) = {}
    BY <1>1 DEF Kept, Sending
  <2> QED BY <2>1, <1>10, <1>11, <1>13 DEF Sending
<1>15. Telling(c)'
  BY <1>1, <1>10, <1>11, <1>13 DEF Kept, Sending, Telling
<1>16. steady[c] \subseteq Sought(s.tool, p) /\ (\A x \in steady[c] : x > s.cursor \/ x \in Found(c))
  BY <1>1 DEF Kept, Reading
<1>17. Found(c) \subseteq {e.id : e \in s.read \cup new}
  BY DEF Found
<1>18. ASSUME NEW x \in page PROVE x \in {e.id : e \in s.read \cup new}
  <2>1. Seen(s.tool, p, x) \in new /\ Seen(s.tool, p, x).id = x
    BY <1>3, <1>4 DEF new
  <2> QED BY <2>1
<1>19. ASSUME NEW x \in steady[c]
       PROVE  x \in {e.id : e \in s.read \cup new} \/ (x > after /\ more)
  <2>1. CASE x \in Found(c)
    BY <1>17, <2>1
  <2>2. CASE x \notin Found(c)
    <3>1. x > s.cursor /\ x \in rest
      BY <1>3, <1>16, <2>2
    <3>2. CASE page = {}
      BY <3>1, <3>2 DEF after, more
    <3>3. CASE page # {}
      <4> HIDE DEF page, rest
      <4>1. x = Max(page) \/ x > Max(page)
        BY <3>1, <3>3, <1>6
      <4>2. CASE x = Max(page)
        BY <4>2, <3>3, <1>6, <1>18
      <4>3. CASE x > Max(page)
        <5>1. x # Max(page)
          BY <4>3, <1>4, <1>6, <3>1, <3>3
        <5>2. x \notin page
          BY <5>1, <1>6, <3>3
        <5> QED BY <5>2, <4>3, <3>1, <3>3 DEF after, more
      <4> QED BY <4>1, <4>2, <4>3
    <3> QED BY <3>2, <3>3
  <2> QED BY <2>1, <2>2
<1>20. s.tool = "ask" => \A e \in s.read \cup new : e.id \in steady[c] => e.mine
  <2> SUFFICES ASSUME s.tool = "ask", NEW e \in s.read \cup new, e.id \in steady[c] PROVE e.mine
    OBVIOUS
  <2>1. CASE e \in s.read
    BY <1>1, <2>1 DEF Kept, Reading
  <2>2. CASE e \in new
    <3>1. PICK x \in page : e = Seen(s.tool, p, x)
      BY <2>2 DEF new
    <3>2. e.id = x
      BY <3>1, <1>3, <1>4
    <3>3. x \in names[p]
      BY <3>2, <1>16 DEF Sought
    <3> QED BY <3>1, <3>3 DEF Seen
  <2> QED BY <2>1, <2>2
<1>21. \A e \in s.read \cup new : e.project = p
  <2>1. \A e \in s.read : e.project = p
    BY <1>1 DEF Kept, Reading
  <2>2. \A e \in new : e.project = p
    BY <1>3, <1>4 DEF new
  <2> QED BY <2>1, <2>2
<1>22. Reading(c)'
  <2>1. /\ call'[c].read = s.read \cup new /\ call'[c].cursor = after /\ call'[c].whole = ~ more
        /\ call'[c].tool = s.tool /\ call'[c].at.project = p /\ steady'[c] = steady[c]
        /\ call'[c].pc \in {"read", "decide"} /\ (call'[c].pc = "read" => more)
    BY <1>8, <1>10, <1>11
  <2>2. Found(c)' = {e.id : e \in s.read \cup new}
    BY <2>1 DEF Found
  <2>3. steady'[c] \subseteq Sought(call[c].tool, call[c].at.project)'
    <3>1. steady[c] \subseteq IF s.tool = "ask" THEN names'[p]
            ELSE {r \in Records : work'[p][r].version > 0} \cup {a \in {Agent} : p \in agents'}
      BY <1>8, <1>16 DEF Sought, Shown
    <3> HIDE DEF p
    <3> QED BY <2>1, <3>1 DEF Sought, Shown
  <2> HIDE DEF s, p
  <2> QED BY <1>19, <1>20, <1>21, <2>1, <2>2, <2>3 DEF Reading
<1>23. Grows
  BY <1>8, SameGrows
<1> QED BY <1>8, <1>11, <1>12, <1>13, <1>14, <1>15, <1>22, <1>23, OneActs DEF Kept

-----------------------------------------------------------------------------
(* A call sends what it was asked to, where it was asked to. *)
LEMMA PostKeeps ==
  ASSUME IInv, NEW c \in Calls, NEW q \in Requests, Post(c, q), Proper(c, q),
         UNCHANGED <<hook, work, agents, names, late, applied, steady>>,
         call[c].pc = "decide", call[c].tool # "publish"
  PROVE  IInv'
<1> DEFINE s == call[c]
<1>1. Typed /\ Kept(c) /\ s \in States
  BY DEF IInv, Typed
<1>2. /\ call' \in [Calls -> States] /\ call'[c] = [s EXCEPT !.pc = "sent", !.sent = {q}]
      /\ \A d \in Calls \ {c} : call'[d] = call[d]
  BY <1>1, PostTyped
<1>3. Typed'
  BY <1>1, <1>2 DEF Typed
<1>4. /\ call'[c].pc = "sent" /\ call'[c].sent = {q} /\ call'[c].outcome = s.outcome
      /\ call'[c].tool = s.tool /\ call'[c].at = s.at /\ call'[c].read = s.read
      /\ call'[c].whole = s.whole
  BY <1>1, <1>2 DEF States
<1>5. \A d \in Calls : Gone(d)' = Gone(d)
  BY DEF Gone
<1>6. Gone(c) = {} /\ s.outcome = "none"
  BY <1>1 DEF Kept, Sending, Telling
<1>7. Sending(c)'
  <2>1. Proper(c, q)'
    BY <1>4 DEF Proper
  <2>2. \A r \in call'[c].sent \cup Gone(c)' : r = q
    BY <1>4, <1>5, <1>6
  <2>3. \A r \in call'[c].sent \cup Gone(c)' : Proper(c, r)'
    BY <2>1, <2>2
  <2> QED BY <2>3, <1>4, <1>5, <1>6 DEF Sending
<1>8. Telling(c)'
  BY <1>4, <1>5, <1>6 DEF Telling
<1>9. Reading(c)'
  BY <1>1, <1>4 DEF Kept, Reading, Found
<1>10. Grows
  BY SameGrows
<1> QED BY <1>2, <1>3, <1>5, <1>7, <1>8, <1>9, <1>10, OneActs DEF Kept

LEMMA WriteKeeps ==
  ASSUME IInv, NEW c \in Calls, Write(c)
  PROVE  IInv'
<1> DEFINE s == call[c]
<1>1. Typed /\ Kept(c) /\ s \in States /\ s.pc = "decide" /\ s.tool = "write"
  BY DEF IInv, Typed, Write, Deciding
<1>2. UNCHANGED <<hook, work, agents, names, late, applied, steady>>
  BY DEF Write, service
<1>3. ASSUME NEW e \in Assigned(c), Pinned(c),
             Post(c, [call |-> c, project |-> s.at.project, id |-> e.id, version |-> e.version])
      PROVE  IInv'
  <2> DEFINE q == [call |-> c, project |-> s.at.project, id |-> e.id, version |-> e.version]
  <2>1. e \in s.read /\ e.mine /\ e.id \in Records
    BY <1>1 DEF Assigned, States
  <2>2. e \in Entries /\ e.project = s.at.project
    BY <1>1, <2>1 DEF States, Kept, Reading
  <2>3. e = [project |-> e.project, id |-> e.id, version |-> e.version, mine |-> TRUE]
    BY <2>1, <2>2 DEF Entries
  <2>4. q \in Requests /\ q.call = c /\ q.project = s.at.project /\ q.id = e.id /\ q.version = e.version
    BY <2>2 DEF Entries, Requests
  <2> HIDE DEF q
  <2>5. Proper(c, q)
    BY <1>1, <2>1, <2>2, <2>3, <2>4 DEF Proper
  <2>6. Post(c, q)
    BY <1>3 DEF q
  <2> QED BY <1>1, <1>2, <2>4, <2>5, <2>6, PostKeeps
<1>4. ASSUME End(c, "refused") PROVE IInv'
  BY <1>1, <1>2, <1>4, EndKeeps
<1> QED BY <1>3, <1>4 DEF Write

(* One of those who were read bears the name, all were read: nobody else
   bore it all the time. *)
LEMMA AskKeeps ==
  ASSUME IInv, NEW c \in Calls, Ask(c)
  PROVE  IInv'
<1> DEFINE s == call[c]
<1>1. Typed /\ Kept(c) /\ s \in States /\ s.pc = "decide" /\ s.tool = "ask"
  BY DEF IInv, Typed, Ask, Deciding
<1>2. UNCHANGED <<hook, work, agents, names, late, applied, steady>>
  BY DEF Ask, service
<1>3. ASSUME NEW e \in Matches(c), Pinned(c), s.whole, Matches(c) = {e},
             Post(c, [call |-> c, project |-> s.at.project, id |-> e.id, version |-> 0])
      PROVE  IInv'
  <2> DEFINE q == [call |-> c, project |-> s.at.project, id |-> e.id, version |-> 0]
  <2>1. e \in s.read
    BY DEF Matches
  <2>2. e \in Entries
    BY <1>1, <2>1 DEF States
  <2>3. q \in Requests /\ q.call = c /\ q.project = s.at.project /\ q.id = e.id
    BY <1>1, <2>2 DEF Entries, Requests, States, Bindings
  <2> HIDE DEF q
  <2>4. ASSUME NEW x \in steady[c] PROVE x = e.id
    <3>1. PICK d \in s.read : d.id = x
      BY <1>1, <1>3 DEF Kept, Reading, Found
    <3>2. d.mine
      BY <1>1, <3>1 DEF Kept, Reading
    <3>3. d \in Matches(c)
      BY <3>2 DEF Matches
    <3> QED BY <1>3, <3>1, <3>3
  <2>5. Proper(c, q)
    BY <1>1, <2>3, <2>4 DEF Proper
  <2>6. Post(c, q)
    BY <1>3 DEF q
  <2> QED BY <1>1, <1>2, <2>3, <2>5, <2>6, PostKeeps
<1>4. ASSUME End(c, "refused") PROVE IInv'
  BY <1>1, <1>2, <1>4, EndKeeps
<1> QED BY <1>3, <1>4 DEF Ask

-----------------------------------------------------------------------------
(* What publish decides is bound to no project. *)
LEMMA ItemsKeeps ==
  ASSUME IInv, NEW c \in Calls, Items(c)
  PROVE  IInv'
<1> DEFINE s == call[c]
<1>1. Typed /\ Kept(c) /\ s \in States /\ s.pc = "decide" /\ s.tool = "publish"
  BY DEF IInv, Typed, Items, Deciding
<1>2. UNCHANGED <<hook, work, agents, names, late, applied, steady>>
  BY DEF Items, service
<1>3. ASSUME call' = [call EXCEPT ![c].pc = "items", ![c].arg = @ \cap Local[hook.project]]
      PROVE  IInv'
  <2> DEFINE n == [s EXCEPT !.pc = "items", !.arg = @ \cap Local[hook.project]]
  <2>1. call' = [call EXCEPT ![c] = n]
    BY <1>1, <1>3 DEF Typed
  <2>2. /\ n \in States /\ n.pc = "items" /\ n.sent = s.sent /\ n.outcome = s.outcome /\ n.tool = s.tool
        /\ n.at = s.at /\ n.read = s.read /\ n.whole = s.whole
    BY <1>1 DEF States
  <2> HIDE DEF n
  <2>3. /\ call' \in [Calls -> States] /\ call'[c] = n
        /\ \A d \in Calls \ {c} : call'[d] = call[d]
    BY <1>1, <2>1, <2>2, GoesOn
  <2>4. Typed'
    BY <1>1, <1>2, <2>3 DEF Typed
  <2>5. \A d \in Calls : Gone(d)' = Gone(d)
    BY <1>2 DEF Gone
  <2>6. s.sent = {} /\ Gone(c) = {}
    BY <1>1 DEF Kept, Sending
  <2>7. Sending(c)'
    BY <1>1, <2>2, <2>3, <2>5, <2>6 DEF Sending
  <2>8. Telling(c)'
    BY <1>1, <2>2, <2>3, <2>5, <2>6 DEF Kept, Telling
  <2>9. Reading(c)'
    BY <1>1, <1>2, <2>2, <2>3 DEF Kept, Reading, Found
  <2>10. Grows
    BY <1>2, SameGrows
  <2> QED BY <1>2, <2>3, <2>4, <2>5, <2>7, <2>8, <2>9, <2>10, OneActs DEF Kept
<1>4. ASSUME End(c, "refused") PROVE IInv'
  BY <1>1, <1>2, <1>4, EndKeeps
<1>5. ASSUME End(c, "failed") PROVE IInv'
  BY <1>1, <1>2, <1>5, EndKeeps
<1> QED BY <1>3, <1>4, <1>5 DEF Items

LEMMA PublishKeeps ==
  ASSUME IInv, NEW c \in Calls, Publish(c)
  PROVE  IInv'
<1> DEFINE s == call[c]
<1>1. Typed /\ Kept(c) /\ s \in States /\ s.pc = "items"
  BY DEF IInv, Typed, Publish
<1>2. UNCHANGED <<hook, work, agents, names, late, applied, steady>>
  BY DEF Publish, service
<1>3. s.tool = "publish"
  BY <1>1 DEF Kept, Sending
<1>4. ASSUME NEW r \in s.arg,
             call' = [call EXCEPT ![c] = [call[c] EXCEPT !.pc = "sent", !.arg = @ \ {r}, !.sent = Projected(c, r)]]
      PROVE  IInv'
  <2> DEFINE n == [call[c] EXCEPT !.pc = "sent", !.arg = @ \ {r}, !.sent = Projected(c, r)]
  <2>1. r \in Records /\ r \in Nat
    BY <1>1, WorkAssumption DEF States
  <2>2. \A q \in Projected(c, r) : q \in Requests /\ q.call = c /\ q.id = r
    <3> DEFINE known == {e.version : e \in {d \in s.read : d.id = r}}
    <3>1. known \subseteq Nat
      BY <1>1 DEF States, Entries
    <3>2. hook.project \in Projects
      BY <1>1 DEF Typed, Bindings
    <3> DEFINE vs == IF known = {} THEN {0} ELSE known
    <3>3. vs \subseteq Nat
      BY <3>1
    <3>4. Projected(c, r) = {[call |-> c, project |-> hook.project, id |-> r, version |-> v] : v \in vs}
      BY DEF Projected
    <3> HIDE DEF vs
    <3> QED BY <2>1, <3>2, <3>3, <3>4 DEF Requests
  <2>3. Projected(c, r) \subseteq Requests
    BY <2>2
  <2>4. /\ n \in States /\ n.pc = "sent" /\ n.sent = Projected(c, r) /\ n.outcome = s.outcome
        /\ n.tool = s.tool /\ n.at = s.at /\ n.read = s.read /\ n.whole = s.whole
    BY <1>1, <2>3 DEF States
  <2>5. call' = [call EXCEPT ![c] = n]
    BY <1>4
  <2> HIDE DEF n
  <2>6. /\ call' \in [Calls -> States] /\ call'[c] = n
        /\ \A d \in Calls \ {c} : call'[d] = call[d]
    BY <1>1, <2>4, <2>5, GoesOn
  <2>7. Typed'
    BY <1>1, <1>2, <2>6 DEF Typed
  <2>8. \A d \in Calls : Gone(d)' = Gone(d)
    BY <1>2 DEF Gone
  <2>9. Sending(c)'
    <3>1. \A q \in Projected(c, r) : Proper(c, q)'
      BY <1>3, <2>1, <2>2, <2>4, <2>6 DEF Proper
    <3>2. \A q \in Gone(c) : Proper(c, q)'
      BY <1>1, <1>2, <2>4, <2>6 DEF Kept, Sending, Proper
    <3> QED BY <1>3, <2>4, <2>6, <2>8, <3>1, <3>2 DEF Sending
  <2>10. Telling(c)'
    BY <1>1, <1>3, <2>4, <2>6 DEF Kept, Telling
  <2>11. Reading(c)'
    BY <1>1, <1>2, <2>4, <2>6 DEF Kept, Reading, Found
  <2>12. Grows
    BY <1>2, SameGrows
  <2> QED BY <1>2, <2>6, <2>7, <2>8, <2>9, <2>10, <2>11, <2>12, OneActs DEF Kept
<1>5. ASSUME End(c, "done") PROVE IInv'
  BY <1>1, <1>2, <1>3, <1>5, EndKeeps
<1> QED BY <1>4, <1>5 DEF Publish

-----------------------------------------------------------------------------
(* A call is told of its request, which took effect, may still, or never will. *)
LEMMA ToldKeeps ==
  ASSUME IInv, NEW c \in Calls, NEW o \in {"done", "refused", "unknown"}, Told(c, o), call[c].pc = "sent",
         Typed', Grows, UNCHANGED steady, applied \subseteq applied',
         \A q \in late' \cup applied' : q \in late \cup applied \/ q \in call[c].sent,
         o = "done" => \E q \in call[c].sent : q \in applied',
         o = "refused" /\ call[c].tool \in {"ask", "send"} => late' \cup applied' \subseteq late \cup applied
  PROVE  IInv'
<1> DEFINE s == call[c]
<1>1. Typed /\ Kept(c) /\ s \in States
  BY DEF IInv, Typed
<1>2. /\ call' \in [Calls -> States]
      /\ call'[c] = IF s.tool = "publish" THEN [s EXCEPT !.pc = "items", !.sent = {}]
                                          ELSE [s EXCEPT !.pc = "over", !.outcome = o]
      /\ \A d \in Calls \ {c} : call'[d] = call[d]
  BY <1>1, ToldTyped
<1>3. /\ call'[c].pc = (IF s.tool = "publish" THEN "items" ELSE "over")
      /\ call'[c].outcome = (IF s.tool = "publish" THEN s.outcome ELSE o)
      /\ call'[c].tool = s.tool /\ call'[c].at = s.at /\ call'[c].read = s.read
      /\ call'[c].whole = s.whole /\ call'[c].sent \subseteq s.sent
  BY <1>1, <1>2 DEF States
<1>4. \A q \in s.sent : q.call = c
  BY <1>1 DEF Kept, Sending, Proper
<1>5. \A d \in Calls \ {c} : Gone(d)' \subseteq Gone(d)
  BY <1>4 DEF Gone
<1>6. Gone(c)' \subseteq s.sent \cup Gone(c)
  BY DEF Gone
<1>7. Sending(c)'
  <2>1. \A q \in s.sent \cup Gone(c) : Proper(c, q)'
    BY <1>1, <1>3 DEF Kept, Sending, Proper
  <2> QED BY <2>1, <1>3, <1>6 DEF Sending
<1>8. Telling(c)'
  <2>1. CASE s.tool = "publish"
    BY <2>1, <1>1, <1>3 DEF Kept, Telling
  <2>2. CASE s.tool # "publish"
    <3>1. Gone(c) = {}
      BY <1>1, <2>2 DEF Kept, Sending
    <3>2. s.tool \in {"ask", "send"} /\ o = "refused" => Gone(c)' = {}
      BY <3>1 DEF Gone
    <3>3. o = "done" => \E q \in applied' : q.call = c
      BY <1>4
    <3> QED BY <2>2, <3>2, <3>3, <1>3 DEF Telling
  <2> QED BY <2>1, <2>2
<1>9. Reading(c)'
  BY <1>1, <1>3 DEF Kept, Reading, Found
<1> QED BY <1>2, <1>5, <1>7, <1>8, <1>9, OneActs DEF Kept

LEMMA AcceptedKeeps ==
  ASSUME IInv, NEW c \in Calls, Accepted(c)
  PROVE  IInv'
<1>1. Typed /\ call[c] \in States /\ call[c].pc = "sent"
  BY DEF IInv, Typed, Accepted
<1>2. PICK q \in call[c].sent : Take(q)
  BY DEF Accepted
<1>3. q \in Requests
  BY <1>1, <1>2 DEF States
<1>4. /\ work' \in [Projects -> [Records -> [version : Nat, mine : BOOLEAN]]]
      /\ \A p \in Projects, r \in Records : work'[p][r].version >= work[p][r].version
      /\ applied' = applied \cup {q}
  BY <1>1, <1>2, <1>3, TakeTyped
<1>5. Told(c, "done") /\ UNCHANGED <<hook, agents, names, late, steady>>
  BY DEF Accepted
<1>6. call' \in [Calls -> States]
  BY <1>1, <1>5, ToldTyped
<1>7. Typed'
  BY <1>1, <1>3, <1>4, <1>5, <1>6 DEF Typed
<1>8. Grows
  BY <1>1, <1>4, <1>5 DEF Grows, Typed
<1> QED BY <1>1, <1>2, <1>4, <1>5, <1>7, <1>8, ToldKeeps

LEMMA RefusedKeeps ==
  ASSUME IInv, NEW c \in Calls, Refused(c)
  PROVE  IInv'
<1>1. Typed /\ call[c].pc = "sent" /\ Told(c, "refused")
      /\ UNCHANGED <<hook, work, agents, names, late, applied, steady>>
  BY DEF IInv, Refused, service
<1>2. call' \in [Calls -> States]
  BY <1>1, ToldTyped
<1>3. Typed'
  BY <1>1, <1>2 DEF Typed
<1>4. Grows
  BY <1>1, SameGrows
<1> QED BY <1>1, <1>3, <1>4, ToldKeeps

LEMMA UnansweredKeeps ==
  ASSUME IInv, NEW c \in Calls, Unanswered(c)
  PROVE  IInv'
<1> DEFINE o == IF call[c].tool \in {"ask", "send"} THEN "unknown" ELSE "refused"
<1>1. Typed /\ call[c].pc = "sent" /\ Told(c, o) /\ late' = late \cup call[c].sent
      /\ UNCHANGED <<hook, work, agents, names, applied, steady>> /\ call[c] \in States
  BY DEF IInv, Unanswered, Typed
<1>2. o \in {"done", "refused", "unknown"} /\ o # "done"
      /\ ~ (o = "refused" /\ call[c].tool \in {"ask", "send"})
  OBVIOUS
<1> HIDE DEF o
<1>3. call' \in [Calls -> States]
  BY <1>1, <1>2, ToldTyped
<1>4. Typed'
  BY <1>1, <1>3 DEF Typed, States
<1>5. Grows
  BY <1>1, SameGrows
<1> QED BY <1>1, <1>2, <1>4, <1>5, ToldKeeps

-----------------------------------------------------------------------------
(* The calls rest while the service and people act. *)
LEMMA AllRest ==
  ASSUME IInv, Typed', Grows, UNCHANGED <<call, steady>>, applied \subseteq applied',
         late' \cup applied' \subseteq late \cup applied
  PROVE  IInv'
<1>1. ASSUME NEW d \in Calls PROVE Kept(d)'
  <2>1. Gone(d)' \subseteq Gone(d)
    BY DEF Gone
  <2> QED BY <2>1, Rests
<1> QED BY <1>1 DEF IInv

LEMMA LateArrivalKeeps ==
  ASSUME IInv, NEW q \in late, LateArrival(q)
  PROVE  IInv'
<1>1. Typed /\ late' = late \ {q} /\ UNCHANGED <<hook, agents, names, call, steady>> /\ q \in Requests
  BY DEF IInv, LateArrival, Typed
<1>2. CASE Take(q)
  <2>1. /\ work' \in [Projects -> [Records -> [version : Nat, mine : BOOLEAN]]]
        /\ \A p \in Projects, r \in Records : work'[p][r].version >= work[p][r].version
        /\ applied' = applied \cup {q}
    BY <1>1, <1>2, TakeTyped
  <2>2. Typed'
    BY <1>1, <2>1 DEF Typed
  <2>3. Grows
    BY <1>1, <2>1 DEF Grows, Typed
  <2> QED BY <1>1, <2>1, <2>2, <2>3, AllRest
<1>3. CASE UNCHANGED <<applied, work>>
  <2>1. Typed'
    BY <1>1, <1>3 DEF Typed
  <2>2. Grows
    BY <1>1, <1>3 DEF Grows
  <2> QED BY <1>1, <1>3, <2>1, <2>2, AllRest
<1> QED BY <1>2, <1>3 DEF LateArrival

LEMMA ReassignKeeps ==
  ASSUME IInv, NEW p \in Projects, NEW r \in Records, Reassign(p, r)
  PROVE  IInv'
<1>1. Typed /\ UNCHANGED <<hook, agents, names, call, late, applied, steady>>
  BY DEF IInv, Reassign
<1> DEFINE w == work[p]
           n == [version |-> w[r].version + 1, mine |-> ~ w[r].mine]
           v == [w EXCEPT ![r] = n]
<1>2. w \in [Records -> [version : Nat, mine : BOOLEAN]] /\ work' = [work EXCEPT ![p] = v]
  BY <1>1 DEF Typed, Reassign
<1>3. w[r].version \in Nat /\ w[r].mine \in BOOLEAN
  BY <1>2
<1>4. n \in [version : Nat, mine : BOOLEAN] /\ n.version > 0
  BY <1>3
<1> HIDE DEF n
<1>5. v \in [Records -> [version : Nat, mine : BOOLEAN]] /\ \A x \in Records : v[x] = IF x = r THEN n ELSE w[x]
  BY <1>2, <1>4
<1> HIDE DEF v
<1>6. Typed'
  BY <1>1, <1>2, <1>5 DEF Typed
<1>7. \A y \in Projects : work'[y] = IF y = p THEN v ELSE work[y]
  BY <1>1, <1>2 DEF Typed
<1>8. Grows
  BY <1>1, <1>4, <1>5, <1>7 DEF Grows
<1> QED BY <1>1, <1>6, <1>8, AllRest

LEMMA RegisterKeeps ==
  ASSUME IInv, NEW p \in Projects, Register(p)
  PROVE  IInv'
<1>1. Typed /\ agents' = agents \cup {p} /\ UNCHANGED <<hook, work, names, call, late, applied, steady>>
  BY DEF IInv, Register
<1>2. Typed'
  BY <1>1 DEF Typed
<1>3. Grows
  BY <1>1 DEF Grows
<1> QED BY <1>1, <1>2, <1>3, AllRest

LEMMA BindKeeps ==
  ASSUME IInv, NEW p \in Projects, Bind(p)
  PROVE  IInv'
<1>1. Typed /\ hook' = [project |-> p, epoch |-> hook.epoch + 1]
      /\ UNCHANGED <<work, agents, names, call, late, applied, steady>>
  BY DEF IInv, Bind
<1>2. hook' \in Bindings
  BY <1>1 DEF Typed, Bindings
<1>3. Typed'
  BY <1>1, <1>2 DEF Typed
<1>4. Grows
  BY <1>1, SameGrows
<1> QED BY <1>1, <1>3, <1>4, AllRest

(* Who takes another name meanwhile did not bear it all the time. *)
LEMMA RenameKeeps ==
  ASSUME IInv, NEW p \in Projects, NEW x \in People, Rename(p, x)
  PROVE  IInv'
<1>1. Typed /\ UNCHANGED <<hook, work, agents, call, late, applied>>
      /\ names' = [names EXCEPT ![p] = IF x \in @ THEN @ \ {x} ELSE @ \cup {x}]
      /\ steady' = [c \in Calls |->
           IF call[c].pc = "read" /\ call[c].tool = "ask" /\ call[c].at.project = p
           THEN steady[c] \ {x} ELSE steady[c]]
  BY DEF IInv, Rename
<1>2. Typed'
  <2>1. names' \in [Projects -> SUBSET People]
    BY <1>1 DEF Typed
  <2>2. steady' \in [Calls -> SUBSET Nat]
    BY <1>1 DEF Typed
  <2> QED BY <1>1, <2>1, <2>2 DEF Typed
<1>3. ASSUME NEW c \in Calls PROVE Kept(c)'
  <2>1. Kept(c) /\ call'[c] = call[c] /\ call[c] \in States
    BY <1>1 DEF IInv, Typed
  <2>2. Gone(c)' = Gone(c) /\ Found(c)' = Found(c)
    BY <1>1 DEF Gone, Found
  <2>3. steady'[c] \subseteq steady[c]
    BY <1>1
  <2>4. Sending(c)'
    BY <1>1, <2>1, <2>2, <2>3 DEF Kept, Sending, Proper
  <2>5. Telling(c)'
    BY <1>1, <2>1, <2>2 DEF Kept, Telling
  <2>6. ASSUME call[c].pc = "read" PROVE steady'[c] \subseteq Sought(call[c].tool, call[c].at.project)'
    <3>1. steady[c] \subseteq Sought(call[c].tool, call[c].at.project)
      BY <2>1, <2>6 DEF Kept, Reading
    <3>2. call[c].at.project \in Projects
      BY <2>1 DEF States, Bindings
    <3>3. CASE call[c].tool = "ask"
      <4>1. CASE call[c].at.project = p
        <5>1. steady'[c] = steady[c] \ {x} /\ steady[c] \subseteq names[p]
          BY <1>1, <2>6, <3>1, <3>3, <4>1 DEF Sought
        <5>2. names[p] \ {x} \subseteq names'[p]
          BY <1>1 DEF Typed
        <5> QED BY <1>1, <3>3, <4>1, <5>1, <5>2 DEF Sought
      <4>2. CASE call[c].at.project # p
        <5>1. names'[call[c].at.project] = names[call[c].at.project]
          BY <1>1, <3>2, <4>2 DEF Typed
        <5> QED BY <1>1, <2>3, <3>1, <3>3, <5>1 DEF Sought
      <4> QED BY <4>1, <4>2
    <3>4. CASE call[c].tool # "ask"
      BY <1>1, <2>3, <3>1, <3>4 DEF Sought, Shown
    <3> QED BY <3>3, <3>4
  <2>7. Reading(c)'
    BY <1>1, <2>1, <2>2, <2>3, <2>6 DEF Kept, Reading
  <2> QED BY <2>4, <2>5, <2>7 DEF Kept
<1> QED BY <1>2, <1>3 DEF IInv

-----------------------------------------------------------------------------
LEMMA InitKeeps == Init => IInv
<1> SUFFICES ASSUME Init PROVE IInv
  OBVIOUS
<1> DEFINE f == [pc |-> "free", tool |-> "none", at |-> hook, arg |-> {}, read |-> {}, pages |-> 0,
                 cursor |-> 0, whole |-> FALSE, sent |-> {}, outcome |-> "none"]
<1>1. hook \in Bindings
  BY WorkAssumption DEF Init, Bindings
<1>2. f \in States
  BY <1>1 DEF States
<1>3. call = [c \in Calls |-> f] /\ late = {} /\ applied = {} /\ steady = [c \in Calls |-> {}]
  BY DEF Init
<1>4. work \in [Projects -> [Records -> [version : Nat, mine : BOOLEAN]]]
  <2>1. PICK first \in [Records -> {[version |-> 0, mine |-> FALSE], [version |-> 1, mine |-> TRUE]}] :
          work = [p \in Projects |-> first]
    BY DEF Init
  <2>2. {[version |-> 0, mine |-> FALSE], [version |-> 1, mine |-> TRUE]} \subseteq [version : Nat, mine : BOOLEAN]
    OBVIOUS
  <2>3. first \in [Records -> [version : Nat, mine : BOOLEAN]]
    BY <2>2
  <2> QED BY <2>1, <2>3
<1>5. agents \subseteq Projects /\ names \in [Projects -> SUBSET People]
  BY DEF Init
<1>6. Typed
  BY <1>1, <1>2, <1>3, <1>4, <1>5 DEF Typed
<1>7. ASSUME NEW c \in Calls PROVE Kept(c)
  <2>1. call[c] = f /\ Gone(c) = {} /\ steady[c] = {}
    BY <1>3 DEF Gone
  <2> QED BY <2>1 DEF Kept, Sending, Telling, Reading
<1> QED BY <1>6, <1>7 DEF IInv

LEMMA NextKeeps == IInv /\ [Next]_vars => IInv'
<1> SUFFICES ASSUME IInv, [Next]_vars PROVE IInv'
  OBVIOUS
<1>1. CASE UNCHANGED vars
  <2>1. UNCHANGED <<hook, work, agents, names, call, late, applied, steady>>
    BY <1>1 DEF vars
  <2>2. Typed'
    BY <2>1 DEF IInv, Typed
  <2>3. Grows
    BY <2>1, SameGrows
  <2> QED BY <2>1, <2>2, <2>3, AllRest
<1>2. ASSUME NEW c \in Calls, Step(c) PROVE IInv'
  <2>1. CASE \E t \in Tools, arg \in SUBSET Records : Call(c, t, arg)
    BY <2>1, CallKeeps
  <2>2. CASE ReadPage(c)
    BY <2>2, ReadPageKeeps
  <2>3. CASE ReadOmits(c)
    BY <2>3, EndKeeps DEF ReadOmits, service
  <2>4. CASE ReadLost(c)
    BY <2>4, EndKeeps DEF ReadLost, service
  <2>5. CASE ReadFails(c)
    BY <2>5, EndKeeps DEF ReadFails, service
  <2>6. CASE List(c)
    BY <2>6, EndKeeps DEF List, Deciding, service
  <2>7. CASE Write(c)
    BY <2>7, WriteKeeps
  <2>8. CASE Ask(c)
    BY <2>8, AskKeeps
  <2>9. CASE Items(c)
    BY <2>9, ItemsKeeps
  <2>10. CASE Publish(c)
    BY <2>10, PublishKeeps
  <2>11. CASE Accepted(c)
    BY <2>11, AcceptedKeeps
  <2>12. CASE Refused(c)
    BY <2>12, RefusedKeeps
  <2>13. CASE Unanswered(c)
    BY <2>13, UnansweredKeeps
  <2> QED BY <1>2, <2>1, <2>2, <2>3, <2>4, <2>5, <2>6, <2>7, <2>8, <2>9, <2>10, <2>11, <2>12, <2>13 DEF Step
<1>3. ASSUME NEW q \in late, LateArrival(q) PROVE IInv'
  BY <1>3, LateArrivalKeeps
<1>4. ASSUME NEW p \in Projects, Bind(p) \/ Register(p) PROVE IInv'
  BY <1>4, BindKeeps, RegisterKeeps
<1>5. ASSUME NEW p \in Projects, NEW r \in Records, Reassign(p, r) PROVE IInv'
  BY <1>5, ReassignKeeps
<1>6. ASSUME NEW p \in Projects, NEW x \in People, Rename(p, x) PROVE IInv'
  BY <1>6, RenameKeeps
<1> QED BY <1>1, <1>2, <1>3, <1>4, <1>5, <1>6 DEF Next

LEMMA Inductive == Spec => []IInv
BY InitKeeps, NextKeeps, PTL DEF Spec

-----------------------------------------------------------------------------
(* A claim, a report of progress, an answer, a question or a message takes
   effect in the project it was made in, and a write only over the version
   this call read there as its person's own: WorkTools.write,
   AskTool.execute, SendTool.execute. *)
THEOREM WrittenAtHomeAlways == Spec => []WrittenAtHome
<1>1. IInv => WrittenAtHome
  <2> SUFFICES ASSUME IInv, NEW q \in applied
               PROVE  /\ call[q.call].tool # "publish" => q.project = call[q.call].at.project
                      /\ call[q.call].tool = "write" =>
                           [project |-> q.project, id |-> q.id, version |-> q.version, mine |-> TRUE] \in call[q.call].read
    BY DEF WrittenAtHome
  <2>1. q.call \in Calls
    BY DEF IInv, Typed, Requests
  <2>2. q \in Gone(q.call)
    BY DEF Gone
  <2>3. Proper(q.call, q)
    BY <2>1, <2>2 DEF IInv, Kept, Sending
  <2> QED BY <2>3 DEF Proper
<1> QED BY <1>1, Inductive, PTL

(* A question never goes to one of two who both bore the name all the time
   it was looked up, and a read that counts as complete has missed nothing
   that was there throughout: AskTool.execute, WorkTools.people. *)
THEOREM NoGuessAlways == Spec => []NoGuess
<1>1. IInv => NoGuess
  BY DEF IInv, Kept, Sending, Reading, Found, Proper, Gone, NoGuess
<1> QED BY <1>1, Inductive, PTL

(* A question or a message reported as not sent has changed nothing and
   never will, and what is reported as sent or recorded took effect:
   AskTool.execute, SendTool.execute, WorkTools.write. *)
THEOREM HonestAnswerAlways == Spec => []HonestAnswer
<1>1. IInv => HonestAnswer
  BY DEF IInv, Kept, Telling, Gone, HonestAnswer
<1> QED BY <1>1, Inductive, PTL

-----------------------------------------------------------------------------
(* Type correctness.  That versions stay within their bound is not a matter
   of types: it holds because a call takes effect on a record once at most. *)

(* A call reads a record once, sends one request at a time, and one for each
   record: none is sent for a record that another request was for. *)
Single(c) ==
  /\ \A e \in call[c].read : e.id <= call[c].cursor
  /\ \A e, f \in call[c].read : e.id = f.id => e = f
  /\ \A q, u \in call[c].sent : q = u
  /\ \A q, u \in Gone(c) : q.id = u.id => q = u
  /\ call[c].pc = "sent" => \A q \in call[c].sent, u \in Gone(c) : q.id # u.id
  /\ call[c].tool = "publish" => \A q \in call[c].sent \cup Gone(c) : q.id \notin call[c].arg

(* So each change of a record's version has an author of its own: people, who
   edit, or a call. *)
Writers(p, r) == {q.call : q \in {u \in applied : Overwrites(u) /\ u.project = p /\ u.id = r}}
Lasting ==
  \A p \in Projects, r \in Records : work[p][r].version <= 1 + edits + Cardinality(Writers(p, r))

SInv ==
  /\ IInv /\ \A c \in Calls : Single(c)
  /\ late \cap applied = {} /\ Lasting /\ edits \in 0 .. MaxEdits

(* Writers are calls, and there are finitely many. *)
LEMMA WritersCount ==
  ASSUME applied \subseteq Requests, NEW p, NEW r
  PROVE  /\ Writers(p, r) \subseteq Calls /\ IsFiniteSet(Writers(p, r))
         /\ Cardinality(Writers(p, r)) \in Nat /\ Cardinality(Calls) \in Nat
         /\ Cardinality(Writers(p, r)) <= Cardinality(Calls)
<1>1. Writers(p, r) \subseteq Calls
  BY DEF Writers, Requests
<1>2. IsFiniteSet(Calls)
  BY WorkAssumption
<1>3. IsFiniteSet(Writers(p, r)) /\ Cardinality(Writers(p, r)) <= Cardinality(Calls)
  BY <1>1, <1>2, FS_Subset
<1> QED BY <1>1, <1>2, <1>3, FS_CardinalityType

(* Calls whose requests count keep their tool. *)
ToolsStay == \A c \in Calls : Gone(c) # {} => call'[c].tool = call[c].tool

LEMMA StillWriters ==
  ASSUME Typed, ToolsStay, UNCHANGED applied, NEW p, NEW r
  PROVE  Writers(p, r)' = Writers(p, r)
<1>1. \A q \in applied : Overwrites(q)' = Overwrites(q)
  BY DEF Typed, Requests, ToolsStay, Gone, Overwrites
<1> QED BY <1>1 DEF Writers

LEMMA StillLasts ==
  ASSUME SInv, ToolsStay, UNCHANGED <<work, applied, edits>>
  PROVE  Lasting'
BY StillWriters DEF SInv, IInv, Lasting

(* A request that is taken is the first of its call for its record. *)
LEMMA TakeLasts ==
  ASSUME SInv, ToolsStay, NEW q \in Requests, Take(q), UNCHANGED edits,
         Gone(q.call) # {} \/ call'[q.call].tool = call[q.call].tool,
         Overwrites(q) => q.id \in Records,
         \A u \in applied : u.call = q.call => u.id # q.id
  PROVE  Lasting'
<1>1. Typed /\ applied \subseteq Requests /\ q.call \in Calls /\ q.project \in Projects
      /\ applied' = applied \cup {q} /\ edits \in Nat
  BY DEF SInv, IInv, Typed, Requests, Take
<1>2. \A u \in applied' : Overwrites(u)' = Overwrites(u)
  BY <1>1 DEF Requests, ToolsStay, Gone, Overwrites
<1>3. CASE ~ Overwrites(q)
  <2>1. ASSUME NEW p \in Projects, NEW r \in Records PROVE Writers(p, r)' = Writers(p, r)
    BY <1>1, <1>2, <1>3 DEF Writers
  <2> QED BY <1>3, <2>1 DEF SInv, Lasting, Take
<1>4. CASE Overwrites(q)
  <2> DEFINE w == work[q.project]
             n == [version |-> w[q.id].version + 1, mine |-> w[q.id].mine \/ w[q.id].version = 0]
  <2>1. work' = [work EXCEPT ![q.project][q.id] = n] /\ q.id \in Records
    BY <1>4 DEF Take
  <2>2. \A p \in Projects, r \in Records :
          work'[p][r].version = IF p = q.project /\ r = q.id THEN work[p][r].version + 1 ELSE work[p][r].version
    <3>1. work \in [Projects -> [Records -> [version : Nat, mine : BOOLEAN]]]
      BY <1>1 DEF Typed
    <3>2. n.version = w[q.id].version + 1
      OBVIOUS
    <3> HIDE DEF n
    <3> QED BY <1>1, <2>1, <3>1, <3>2
  <2>3. ASSUME NEW p \in Projects, NEW r \in Records
        PROVE  work'[p][r].version <= 1 + edits' + Cardinality(Writers(p, r)')
    <3>1. work[p][r].version <= 1 + edits + Cardinality(Writers(p, r)) /\ work[p][r].version \in Nat
      BY <1>1 DEF SInv, Lasting, Typed
    <3>2. IsFiniteSet(Writers(p, r)) /\ Cardinality(Writers(p, r)) \in Nat
      BY <1>1, WritersCount
    <3>3. CASE p = q.project /\ r = q.id
      <4>1. Writers(p, r)' = Writers(p, r) \cup {q.call} /\ q.call \notin Writers(p, r)
        BY <1>1, <1>2, <1>4, <3>3 DEF Writers
      <4>2. Cardinality(Writers(p, r)') = Cardinality(Writers(p, r)) + 1
        BY <3>2, <4>1, FS_AddElement
      <4> QED BY <1>1, <2>2, <3>1, <3>2, <3>3, <4>2
    <3>4. CASE ~ (p = q.project /\ r = q.id)
      <4>1. Writers(p, r)' = Writers(p, r)
        BY <1>1, <1>2, <3>4 DEF Writers
      <4> QED BY <2>2, <3>1, <3>4, <4>1
    <3> QED BY <3>3, <3>4
  <2> QED BY <2>3 DEF Lasting
<1> QED BY <1>3, <1>4

(* A call rests, or acts while the others rest. *)
LEMMA SingleRests ==
  ASSUME NEW d \in Calls, Single(d), call'[d] = call[d], Gone(d)' \subseteq Gone(d)
  PROVE  Single(d)'
BY DEF Single

LEMMA SinglyOne ==
  ASSUME SInv, IInv', NEW c \in Calls,
         \A d \in Calls \ {c} : call'[d] = call[d] /\ Gone(d)' \subseteq Gone(d),
         Single(c)', late' \cap applied' = {}, Lasting', edits' = edits
  PROVE  SInv'
BY SingleRests DEF SInv

(* Whatever a call does without being told of a request. *)
LEMMA ActsAlone ==
  ASSUME SInv, IInv', NEW c \in Calls, \A d \in Calls \ {c} : call'[d] = call[d],
         UNCHANGED <<work, late, applied, edits>>,
         Gone(c) # {} => call'[c].tool = call[c].tool,
         Single(c)'
  PROVE  SInv'
<1>1. \A d \in Calls : Gone(d)' = Gone(d)
  BY DEF Gone
<1>2. Lasting'
  BY StillLasts DEF ToolsStay
<1> QED BY <1>1, <1>2, SinglyOne DEF SInv

LEMMA EndSingly ==
  ASSUME SInv, IInv', NEW c \in Calls, NEW o \in {"done", "refused", "unknown", "failed"}, End(c, o),
         UNCHANGED <<work, late, applied, edits>>
  PROVE  SInv'
<1>1. Typed /\ call[c] \in States /\ Single(c)
  BY DEF SInv, IInv, Typed
<1>2. /\ call'[c] = [call[c] EXCEPT !.pc = "over", !.outcome = o]
      /\ \A d \in Calls \ {c} : call'[d] = call[d]
  BY <1>1, EndTyped
<1>3. /\ call'[c].pc = "over" /\ call'[c].tool = call[c].tool /\ call'[c].read = call[c].read
      /\ call'[c].cursor = call[c].cursor /\ call'[c].arg = call[c].arg /\ call'[c].sent = call[c].sent
  BY <1>1, <1>2 DEF States
<1>4. Single(c)'
  BY <1>1, <1>3 DEF Single, Gone
<1> QED BY <1>2, <1>3, <1>4, ActsAlone

LEMMA PostSingly ==
  ASSUME SInv, IInv', NEW c \in Calls, NEW q \in Requests, Post(c, q),
         call[c].pc = "decide", call[c].tool # "publish", UNCHANGED <<work, late, applied, edits>>
  PROVE  SInv'
<1>1. Typed /\ call[c] \in States /\ Single(c) /\ Gone(c) = {}
  BY DEF SInv, IInv, Typed, Kept, Sending
<1>2. /\ call'[c] = [call[c] EXCEPT !.pc = "sent", !.sent = {q}]
      /\ \A d \in Calls \ {c} : call'[d] = call[d]
  BY <1>1, PostTyped
<1>3. /\ call'[c].tool = call[c].tool /\ call'[c].read = call[c].read
      /\ call'[c].cursor = call[c].cursor /\ call'[c].sent = {q}
  BY <1>1, <1>2 DEF States
<1>4. Single(c)'
  BY <1>1, <1>3 DEF Single, Gone
<1> QED BY <1>2, <1>3, <1>4, ActsAlone

LEMMA CallSingly ==
  ASSUME SInv, IInv', NEW c \in Calls, NEW t \in Tools, NEW arg \in SUBSET Records, Call(c, t, arg)
  PROVE  SInv'
<1> DEFINE q == [call |-> c, project |-> hook.project, id |-> Nobody, version |-> 0]
           sends == {q : x \in {t} \cap {"send"}}
<1>1. Typed /\ call[c] \in States /\ call[c].pc = "free" /\ Kept(c)
  BY DEF SInv, IInv, Typed, Call
<1>2. call[c].read = {} /\ Gone(c) = {}
  BY <1>1 DEF Kept, Sending, Reading
<1>3. /\ call'[c] = [call[c] EXCEPT !.tool = t, !.at = hook, !.arg = arg,
                       !.pc = IF t = "send" THEN "sent" ELSE "read", !.sent = sends]
      /\ \A d \in Calls \ {c} : call'[d] = call[d]
  BY <1>1 DEF Call, Typed
<1>4. (\A x, y \in sends : x = y) /\ (t = "publish" => sends = {})
  OBVIOUS
<1> HIDE DEF sends
<1>5. call'[c].read = {} /\ call'[c].sent = sends /\ call'[c].tool = t
  BY <1>1, <1>2, <1>3 DEF States
<1>6. UNCHANGED <<work, late, applied, edits>>
  BY DEF Call, service
<1>7. Single(c)'
  BY <1>2, <1>4, <1>5, <1>6 DEF Single, Gone
<1> QED BY <1>2, <1>3, <1>6, <1>7, ActsAlone

(* A page's entry comes after all that was read. *)
LEMMA ReadPageSingly ==
  ASSUME SInv, IInv', NEW c \in Calls, ReadPage(c)
  PROVE  SInv'
<1> DEFINE s == call[c]
           p == s.at.project
           rest == {x \in Shown(s.tool, p) : x > s.cursor}
           page == {x \in rest : \A y \in rest : x <= y}
           new == {Seen(s.tool, p, x) : x \in page}
           after == IF page = {} THEN s.cursor ELSE Max(page)
           n == [s EXCEPT !.read = @ \cup new, !.pages = @ + 1, !.cursor = after, !.whole = ~ (rest # page),
                   !.pc = IF rest # page /\ s.pages + 1 < PAGE_LIMIT THEN "read" ELSE "decide"]
<1>1. Typed /\ Kept(c) /\ s \in States /\ s.pc = "read" /\ Single(c)
  BY DEF SInv, IInv, Typed, ReadPage
<1>2. p \in Projects
  BY <1>1 DEF States, Bindings
<1>3. /\ Shown(s.tool, p) \subseteq Nat
      /\ \A x \in Shown(s.tool, p) : Seen(s.tool, p, x) \in Entries /\ Seen(s.tool, p, x).id = x
  BY <1>1, <1>2, ShownTyped
<1>4. rest \subseteq Nat /\ page \subseteq rest /\ rest \subseteq Shown(s.tool, p)
      /\ s.cursor \in Nat /\ \A x \in rest : x > s.cursor
  BY <1>1, <1>3 DEF States
<1>5. page # {} => Max(page) \in page /\ page = {Max(page)}
  <2> HIDE DEF rest
  <2> QED BY <1>4, PageOne
<1>6. /\ s.sent = {} /\ Gone(c) = {}
  BY <1>1 DEF Kept, Sending
<1>7. /\ call'[c] = n /\ \A d \in Calls \ {c} : call'[d] = call[d]
      /\ UNCHANGED <<work, late, applied, edits>>
  BY <1>1 DEF ReadPage, service, Typed
<1>8. \A e \in new : e.id \in page /\ e = Seen(s.tool, p, e.id)
  BY <1>3, <1>4
<1>9. after \in Nat /\ s.cursor <= after /\ \A x \in page : x = after /\ x > s.cursor
  <2> HIDE DEF rest, page
  <2>1. CASE page = {}
    BY <1>4, <2>1
  <2>2. CASE page # {}
    <3>1. after = Max(page) /\ after \in page /\ page = {after}
      BY <1>5, <2>2
    <3> QED BY <1>4, <3>1
  <2> QED BY <2>1, <2>2
<1> HIDE DEF new, after, page, rest
<1>10. n.read = s.read \cup new /\ n.cursor = after /\ n.sent = {} /\ n.tool = s.tool
  BY <1>1, <1>6 DEF States
<1> HIDE DEF n
<1>11. \A e \in s.read : e.id <= s.cursor /\ e.id \in Nat
  BY <1>1 DEF Single, States, Entries
<1>12. \A e \in s.read \cup new : e.id <= after
  <2>1. \A e \in new : e.id = after
    BY <1>8, <1>9
  <2>2. ASSUME NEW e \in s.read PROVE e.id <= after
    BY <1>4, <1>9, <1>11
  <2> QED BY <1>9, <2>1, <2>2
<1>13. \A e, f \in s.read \cup new : e.id = f.id => e = f
  <2>1. ASSUME NEW e \in s.read, NEW f \in new PROVE e.id # f.id
    BY <1>4, <1>8, <1>9, <1>11
  <2>2. \A e, f \in new : e.id = f.id => e = f
    BY <1>8
  <2>3. \A e, f \in s.read : e.id = f.id => e = f
    BY <1>1 DEF Single
  <2> QED BY <2>1, <2>2, <2>3
<1>14. Single(c)'
  BY <1>6, <1>7, <1>10, <1>12, <1>13 DEF Single, Gone
<1> QED BY <1>6, <1>7, <1>14, ActsAlone

LEMMA ItemsSingly ==
  ASSUME SInv, IInv', NEW c \in Calls, Items(c)
  PROVE  SInv'
<1>1. Typed /\ Kept(c) /\ call[c] \in States /\ Single(c) /\ call[c].pc = "decide"
  BY DEF SInv, IInv, Typed, Items, Deciding
<1>2. UNCHANGED <<work, late, applied, edits>>
  BY DEF Items, service
<1>3. call[c].sent = {} /\ Gone(c) = {}
  BY <1>1 DEF Kept, Sending
<1>4. ASSUME call' = [call EXCEPT ![c].pc = "items", ![c].arg = @ \cap Local[hook.project]] PROVE SInv'
  <2>1. /\ call'[c] = [call[c] EXCEPT !.pc = "items", !.arg = @ \cap Local[hook.project]]
        /\ \A d \in Calls \ {c} : call'[d] = call[d]
    BY <1>1, <1>4 DEF Typed
  <2>2. /\ call'[c].read = call[c].read /\ call'[c].cursor = call[c].cursor /\ call'[c].sent = {}
        /\ call'[c].tool = call[c].tool
    BY <1>1, <1>3, <2>1 DEF States
  <2>3. Single(c)'
    BY <1>1, <1>2, <1>3, <2>2 DEF Single, Gone
  <2> QED BY <1>2, <1>3, <2>1, <2>3, ActsAlone
<1>5. ASSUME NEW o \in {"refused", "failed"}, End(c, o) PROVE SInv'
  BY <1>2, <1>5, EndSingly
<1> QED BY <1>4, <1>5 DEF Items

LEMMA PublishSingly ==
  ASSUME SInv, IInv', NEW c \in Calls, Publish(c)
  PROVE  SInv'
<1> DEFINE s == call[c]
<1>1. Typed /\ Kept(c) /\ s \in States /\ Single(c) /\ s.pc = "items" /\ s.tool = "publish"
  BY DEF SInv, IInv, Typed, Publish, Kept, Sending
<1>2. UNCHANGED <<work, late, applied, edits>>
  BY DEF Publish, service
<1>3. ASSUME NEW r \in s.arg,
             call' = [call EXCEPT ![c] = [call[c] EXCEPT !.pc = "sent", !.arg = @ \ {r}, !.sent = Projected(c, r)]]
      PROVE  SInv'
  <2>1. /\ call'[c] = [s EXCEPT !.pc = "sent", !.arg = @ \ {r}, !.sent = Projected(c, r)]
        /\ \A d \in Calls \ {c} : call'[d] = call[d]
    BY <1>1, <1>3 DEF Typed
  <2>2. /\ call'[c].read = s.read /\ call'[c].cursor = s.cursor /\ call'[c].sent = Projected(c, r)
        /\ call'[c].tool = s.tool /\ call'[c].arg = s.arg \ {r}
    BY <1>1, <2>1 DEF States
  <2>3. (\A q \in Projected(c, r) : q.id = r) /\ \A q, u \in Projected(c, r) : q = u
    <3> DEFINE known == {e.version : e \in {d \in s.read : d.id = r}}
               vs == IF known = {} THEN {0} ELSE known
    <3>1. \A v, w \in vs : v = w
      BY <1>1 DEF Single
    <3>2. Projected(c, r) = {[call |-> c, project |-> hook.project, id |-> r, version |-> v] : v \in vs}
      BY DEF Projected
    <3> HIDE DEF vs
    <3> QED BY <3>1, <3>2
  <2>4. Single(c)'
    BY <1>1, <1>2, <2>2, <2>3 DEF Single, Gone
  <2> QED BY <1>2, <2>1, <2>2, <2>4, ActsAlone
<1>4. ASSUME End(c, "done") PROVE SInv'
  BY <1>2, <1>4, EndSingly
<1> QED BY <1>3, <1>4 DEF Publish

LEMMA ToldTool ==
  ASSUME Typed, NEW c \in Calls, NEW o \in {"done", "refused", "unknown", "failed"}, Told(c, o)
  PROVE  \A d \in Calls : call'[d].tool = call[d].tool
<1> DEFINE s == call[c]
<1>1. /\ call'[c] = IF s.tool = "publish" THEN [s EXCEPT !.pc = "items", !.sent = {}]
                                          ELSE [s EXCEPT !.pc = "over", !.outcome = o]
      /\ \A d \in Calls \ {c} : call'[d] = call[d] /\ s \in States
  BY ToldTyped DEF Typed
<1> HIDE DEF s
<1>2. call'[c].tool = s.tool
  BY <1>1 DEF States
<1> QED BY <1>1, <1>2 DEF s

(* A call that is told of its request has no other for the same record. *)
LEMMA ToldSingly ==
  ASSUME SInv, IInv', NEW c \in Calls, NEW o \in {"done", "refused", "unknown"}, Told(c, o), call[c].pc = "sent",
         \A q \in late' \cup applied' : q \in late \cup applied \/ q \in call[c].sent,
         late' \cap applied' = {}, UNCHANGED edits, Lasting'
  PROVE  SInv'
<1> DEFINE s == call[c]
<1>1. Typed /\ Kept(c) /\ s \in States /\ Single(c)
  BY DEF SInv, IInv, Typed
<1>2. /\ call'[c] = IF s.tool = "publish" THEN [s EXCEPT !.pc = "items", !.sent = {}]
                                          ELSE [s EXCEPT !.pc = "over", !.outcome = o]
      /\ \A d \in Calls \ {c} : call'[d] = call[d]
  BY <1>1, ToldTyped
<1>3. /\ call'[c].pc # "sent" /\ call'[c].tool = s.tool /\ call'[c].read = s.read
      /\ call'[c].cursor = s.cursor /\ call'[c].arg = s.arg /\ call'[c].sent \subseteq s.sent
  BY <1>1, <1>2 DEF States
<1>4. \A q \in s.sent : q.call = c
  BY <1>1 DEF Kept, Sending, Proper
<1>5. Gone(c)' \subseteq s.sent \cup Gone(c) /\ \A d \in Calls \ {c} : Gone(d)' \subseteq Gone(d)
  BY <1>4 DEF Gone
<1>6. \A q, u \in s.sent \cup Gone(c) : q.id = u.id => q = u
  BY <1>1 DEF Single
<1>7. Single(c)'
  BY <1>1, <1>3, <1>5, <1>6 DEF Single
<1> QED BY <1>2, <1>5, <1>7, SinglyOne

(* A request that was sent is neither late nor applied, nor is another of its
   call for its record. *)
LEMMA SentIsNew ==
  ASSUME SInv, NEW c \in Calls, call[c].pc = "sent", NEW q \in call[c].sent
  PROVE  q.call = c /\ q \notin late \cup applied /\ \A u \in late \cup applied : u.call = c => u.id # q.id
<1>1. Kept(c) /\ Single(c)
  BY DEF SInv, IInv
<1>2. q.call = c
  BY <1>1 DEF Kept, Sending, Proper
<1> QED BY <1>1, <1>2 DEF Single, Gone

LEMMA AcceptedSingly ==
  ASSUME SInv, IInv', NEW c \in Calls, Accepted(c)
  PROVE  SInv'
<1>1. Typed /\ call[c] \in States /\ call[c].pc = "sent" /\ Kept(c)
  BY DEF SInv, IInv, Typed, Accepted
<1>2. PICK q \in call[c].sent : Take(q)
  BY DEF Accepted
<1>3. q \in Requests /\ applied' = applied \cup {q}
  BY <1>1, <1>2 DEF States, Take
<1>4. q.call = c /\ q \notin late \cup applied /\ \A u \in late \cup applied : u.call = c => u.id # q.id
  BY <1>1, SentIsNew
<1>5. Told(c, "done") /\ UNCHANGED <<late, edits>>
  BY DEF Accepted
<1>6. \A d \in Calls : call'[d].tool = call[d].tool
  BY <1>1, <1>5, ToldTool
<1>7. Overwrites(q) => q.id \in Records
  BY <1>1, <1>2, <1>4 DEF Overwrites, Kept, Sending, Proper
<1>8. Lasting'
  BY <1>2, <1>3, <1>4, <1>5, <1>6, <1>7, TakeLasts DEF ToolsStay
<1>9. late' \cap applied' = {}
  BY <1>3, <1>4, <1>5 DEF SInv
<1> QED BY <1>1, <1>3, <1>5, <1>8, <1>9, ToldSingly

(* No answer, or a refusal: what was sent may be late. *)
LEMMA UntoldSingly ==
  ASSUME SInv, IInv', NEW c \in Calls, Refused(c) \/ Unanswered(c)
  PROVE  SInv'
<1>1. Typed /\ call[c] \in States /\ call[c].pc = "sent"
  BY DEF SInv, IInv, Typed, Refused, Unanswered
<1>2. PICK o \in {"refused", "unknown"} : Told(c, o)
  BY DEF Refused, Unanswered
<1>3. UNCHANGED <<work, applied, edits>> /\ late \subseteq late' /\ late' \subseteq late \cup call[c].sent
  BY DEF Refused, Unanswered, service
<1>4. \A d \in Calls : call'[d].tool = call[d].tool
  BY <1>1, <1>2, ToldTool
<1>5. Lasting'
  BY <1>3, <1>4, StillLasts DEF ToolsStay
<1>6. late' \cap applied' = {}
  BY <1>1, <1>3, SentIsNew DEF SInv
<1> QED BY <1>1, <1>2, <1>3, <1>5, <1>6, ToldSingly

(* The calls rest while the service and people act. *)
LEMMA AllRestSingly ==
  ASSUME SInv, IInv', UNCHANGED call, late' \cup applied' \subseteq late \cup applied,
         late' \cap applied' = {}, Lasting', edits' \in 0 .. MaxEdits
  PROVE  SInv'
<1>1. \A d \in Calls : Single(d)'
  <2>1. \A d \in Calls : Gone(d)' \subseteq Gone(d)
    BY DEF Gone
  <2> QED BY <2>1, SingleRests DEF SInv
<1> QED BY <1>1 DEF SInv

LEMMA LateArrivalSingly ==
  ASSUME SInv, IInv', NEW q \in late, LateArrival(q)
  PROVE  SInv'
<1>1. /\ late' = late \ {q} /\ UNCHANGED <<call, edits>> /\ Typed /\ q \in Requests /\ q.call \in Calls
      /\ late \cap applied = {} /\ edits \in 0 .. MaxEdits
  BY DEF SInv, IInv, LateArrival, Typed, Requests
<1>2. ToolsStay
  BY <1>1 DEF ToolsStay
<1>3. CASE Take(q)
  <2>1. applied' = applied \cup {q}
    BY <1>3 DEF Take
  <2>2. \A u \in applied : u.call = q.call => u.id # q.id
    BY <1>1 DEF SInv, Single, Gone
  <2>3. Overwrites(q) => q.id \in Records
    BY <1>1 DEF SInv, IInv, Kept, Sending, Proper, Gone, Overwrites
  <2>4. Lasting'
    BY <1>1, <1>2, <1>3, <2>2, <2>3, TakeLasts
  <2> QED BY <1>1, <2>1, <2>4, AllRestSingly
<1>4. CASE UNCHANGED <<applied, work>>
  BY <1>1, <1>2, <1>4, StillLasts, AllRestSingly
<1> QED BY <1>3, <1>4 DEF LateArrival

LEMMA ReassignSingly ==
  ASSUME SInv, IInv', NEW p \in Projects, NEW r \in Records, Reassign(p, r)
  PROVE  SInv'
<1>1. /\ UNCHANGED <<call, late, applied>> /\ edits' = edits + 1 /\ edits' \in 0 .. MaxEdits
      /\ Typed /\ edits \in Nat /\ late \cap applied = {} /\ applied \subseteq Requests
  BY WorkAssumption DEF SInv, IInv, Reassign, Typed
<1>2. ToolsStay
  BY <1>1 DEF ToolsStay
<1>3. ASSUME NEW y \in Projects, NEW x \in Records
      PROVE  work'[y][x].version <= 1 + edits' + Cardinality(Writers(y, x)')
  <2>1. Writers(y, x)' = Writers(y, x) /\ Cardinality(Writers(y, x)) \in Nat
    BY <1>1, <1>2, StillWriters, WritersCount
  <2>2. work[y][x].version <= 1 + edits + Cardinality(Writers(y, x)) /\ work[y][x].version \in Nat
    BY <1>1 DEF SInv, Lasting, Typed
  <2>3. work'[y][x].version = work[y][x].version \/ work'[y][x].version = work[y][x].version + 1
    <3> DEFINE n == [version |-> work[p][r].version + 1, mine |-> ~ work[p][r].mine]
    <3>1. work' = [work EXCEPT ![p][r] = n] /\ n.version = work[p][r].version + 1
      BY DEF Reassign
    <3> HIDE DEF n
    <3> QED BY <1>1, <3>1 DEF Typed
  <2> QED BY <1>1, <2>1, <2>2, <2>3
<1>4. Lasting'
  BY <1>3 DEF Lasting
<1> QED BY <1>1, <1>4, AllRestSingly

(* People join or are renamed, the agent registers, the project changes. *)
LEMMA AroundSingly ==
  ASSUME SInv, IInv', UNCHANGED <<call, work, late, applied>>, edits' \in {edits, edits + 1} \cap (0 .. MaxEdits)
  PROVE  SInv'
<1>1. ToolsStay /\ Typed /\ applied \subseteq Requests /\ late \cap applied = {} /\ edits \in Nat
  BY DEF ToolsStay, SInv, IInv, Typed
<1>2. ASSUME NEW y \in Projects, NEW x \in Records
      PROVE  work'[y][x].version <= 1 + edits' + Cardinality(Writers(y, x)')
  <2>1. Writers(y, x)' = Writers(y, x) /\ Cardinality(Writers(y, x)) \in Nat
    BY <1>1, StillWriters, WritersCount
  <2>2. work[y][x].version <= 1 + edits + Cardinality(Writers(y, x)) /\ work[y][x].version \in Nat
    BY <1>1 DEF SInv, Lasting, Typed
  <2> QED BY <1>1, <2>1, <2>2
<1>3. Lasting'
  BY <1>2 DEF Lasting
<1> QED BY <1>1, <1>3, AllRestSingly

LEMMA InitSingly == Init => SInv
<1> SUFFICES ASSUME Init PROVE SInv
  OBVIOUS
<1>1. IInv
  BY InitKeeps
<1>2. ASSUME NEW c \in Calls PROVE Single(c)
  <2>1. call[c].read = {} /\ call[c].sent = {} /\ call[c].pc = "free" /\ Gone(c) = {}
    BY DEF Init, Gone
  <2> QED BY <2>1 DEF Single
<1>3. late \cap applied = {} /\ applied = {} /\ edits = 0 /\ edits \in 0 .. MaxEdits
  BY WorkAssumption DEF Init
<1>4. Lasting
  <2> SUFFICES ASSUME NEW p \in Projects, NEW r \in Records
               PROVE  work[p][r].version <= 1 + edits + Cardinality(Writers(p, r))
    BY DEF Lasting
  <2>1. Writers(p, r) = {}
    BY <1>3 DEF Writers
  <2>2. Cardinality(Writers(p, r)) = 0
    BY <2>1, FS_EmptySet
  <2>3. work[p][r].version \in {0, 1}
    <3>1. PICK first \in [Records -> {[version |-> 0, mine |-> FALSE], [version |-> 1, mine |-> TRUE]}] :
            work = [y \in Projects |-> first]
      BY DEF Init
    <3>2. work[p][r] \in {[version |-> 0, mine |-> FALSE], [version |-> 1, mine |-> TRUE]}
      BY <3>1
    <3> QED BY <3>2
  <2> QED BY <1>3, <2>2, <2>3
<1> QED BY <1>1, <1>2, <1>3, <1>4 DEF SInv

LEMMA NextSingly == SInv /\ [Next]_vars => SInv'
<1> SUFFICES ASSUME SInv, [Next]_vars PROVE SInv'
  OBVIOUS
<1>1. IInv' /\ Typed /\ edits \in 0 .. MaxEdits /\ MaxEdits \in Nat
  BY NextKeeps, WorkAssumption DEF SInv, IInv
<1>2. CASE UNCHANGED vars
  BY <1>1, <1>2, AroundSingly DEF vars
<1>3. ASSUME NEW c \in Calls, Step(c) PROVE SInv'
  <2> DEFINE s == call[c]
  <2>1. CASE \E t \in Tools, arg \in SUBSET Records : Call(c, t, arg)
    BY <1>1, <2>1, CallSingly
  <2>2. CASE ReadPage(c)
    BY <1>1, <2>2, ReadPageSingly
  <2>3. CASE ReadOmits(c) \/ ReadLost(c) \/ ReadFails(c) \/ List(c)
    <3>1. UNCHANGED <<work, late, applied, edits>> /\ (End(c, "refused") \/ End(c, "failed") \/ End(c, "done"))
      BY <2>3 DEF ReadOmits, ReadLost, ReadFails, List, service
    <3> QED BY <1>1, <3>1, EndSingly
  <2>4. CASE Write(c)
    <3>1. s \in States /\ s.pc = "decide" /\ s.tool = "write" /\ UNCHANGED <<work, late, applied, edits>>
      BY <1>1, <2>4 DEF Typed, Write, Deciding, service
    <3>2. CASE \E e \in Assigned(c) :
                 Post(c, [call |-> c, project |-> s.at.project, id |-> e.id, version |-> e.version])
      <4>1. PICK e \in Assigned(c) :
              Post(c, [call |-> c, project |-> s.at.project, id |-> e.id, version |-> e.version])
        BY <3>2
      <4>2. e \in Entries
        BY <3>1 DEF Assigned, States
      <4>3. [call |-> c, project |-> s.at.project, id |-> e.id, version |-> e.version] \in Requests
        BY <3>1, <4>2 DEF Entries, Requests, States, Bindings
      <4> QED BY <1>1, <3>1, <4>1, <4>3, PostSingly
    <3>3. CASE End(c, "refused")
      BY <1>1, <3>1, <3>3, EndSingly
    <3> QED BY <2>4, <3>2, <3>3 DEF Write
  <2>5. CASE Ask(c)
    <3>1. s \in States /\ s.pc = "decide" /\ s.tool = "ask" /\ UNCHANGED <<work, late, applied, edits>>
      BY <1>1, <2>5 DEF Typed, Ask, Deciding, service
    <3>2. CASE \E e \in Matches(c) :
                 Post(c, [call |-> c, project |-> s.at.project, id |-> e.id, version |-> 0])
      <4>1. PICK e \in Matches(c) :
              Post(c, [call |-> c, project |-> s.at.project, id |-> e.id, version |-> 0])
        BY <3>2
      <4>2. e \in Entries
        BY <3>1 DEF Matches, States
      <4>3. [call |-> c, project |-> s.at.project, id |-> e.id, version |-> 0] \in Requests
        BY <3>1, <4>2 DEF Entries, Requests, States, Bindings
      <4> QED BY <1>1, <3>1, <4>1, <4>3, PostSingly
    <3>3. CASE End(c, "refused")
      BY <1>1, <3>1, <3>3, EndSingly
    <3> QED BY <2>5, <3>2, <3>3 DEF Ask
  <2>6. CASE Items(c)
    BY <1>1, <2>6, ItemsSingly
  <2>7. CASE Publish(c)
    BY <1>1, <2>7, PublishSingly
  <2>8. CASE Accepted(c)
    BY <1>1, <2>8, AcceptedSingly
  <2>9. CASE Refused(c) \/ Unanswered(c)
    BY <1>1, <2>9, UntoldSingly
  <2> QED BY <1>3, <2>1, <2>2, <2>3, <2>4, <2>5, <2>6, <2>7, <2>8, <2>9 DEF Step
<1>4. ASSUME NEW q \in late, LateArrival(q) PROVE SInv'
  BY <1>1, <1>4, LateArrivalSingly
<1>5. ASSUME NEW p \in Projects, Bind(p) \/ Register(p) PROVE SInv'
  <2>1. UNCHANGED <<call, work, late, applied>> /\ edits' \in {edits, edits + 1} \cap (0 .. MaxEdits)
    BY <1>1, <1>5 DEF Bind, Register
  <2> QED BY <1>1, <2>1, AroundSingly
<1>6. ASSUME NEW p \in Projects, NEW r \in Records, Reassign(p, r) PROVE SInv'
  BY <1>1, <1>6, ReassignSingly
<1>7. ASSUME NEW p \in Projects, NEW x \in People, Rename(p, x) PROVE SInv'
  <2>1. UNCHANGED <<call, work, late, applied>> /\ edits' \in {edits, edits + 1} \cap (0 .. MaxEdits)
    BY <1>1, <1>7 DEF Rename
  <2> QED BY <1>1, <2>1, AroundSingly
<1> QED BY <1>2, <1>3, <1>4, <1>5, <1>6, <1>7 DEF Next

(* So no version exceeds what people and calls can have made of it. *)
LEMMA VersionsFit ==
  ASSUME SInv
  PROVE  /\ MaxVersion \in Nat \ {0}
         /\ \A p \in Projects, r \in Records : work[p][r].version \in 0 .. MaxVersion
<1>1. Typed /\ applied \subseteq Requests /\ MaxEdits \in Nat /\ edits \in 0 .. MaxEdits
  BY WorkAssumption DEF SInv, IInv, Typed
<1>2. Cardinality(Calls) \in Nat
  BY <1>1, WritersCount
<1>3. ASSUME NEW p \in Projects, NEW r \in Records PROVE work[p][r].version \in 0 .. MaxVersion
  <2>1. Cardinality(Writers(p, r)) \in Nat /\ Cardinality(Writers(p, r)) <= Cardinality(Calls)
    BY <1>1, WritersCount
  <2>2. work[p][r].version \in Nat /\ work[p][r].version <= 1 + edits + Cardinality(Writers(p, r))
    BY <1>1 DEF Typed, SInv, Lasting
  <2> QED BY <1>1, <1>2, <2>1, <2>2 DEF MaxVersion
<1> QED BY <1>1, <1>2, <1>3 DEF MaxVersion

-----------------------------------------------------------------------------
(* What was read and sent came from there, and pages are counted. *)
CallFits(c) ==
  /\ call[c].at \in Binding /\ call[c].read \subseteq Entry /\ call[c].sent \subseteq Request
  /\ call[c].pages \in 0 .. PAGE_LIMIT
  /\ call[c].pc = "free" => call[c].pages = 0
  /\ call[c].pc = "read" => call[c].pages < PAGE_LIMIT

Fits ==
  /\ hook \in Binding /\ late \cup applied \subseteq Request /\ steady \in [Calls -> SUBSET Ids]
  /\ \A c \in Calls : CallFits(c)

(* A call that reads no more keeps what it read. *)
LEMMA PastReading ==
  ASSUME Fits, NEW c \in Calls, call'[c].pc \notin {"free", "read"},
         call'[c].at = call[c].at, call'[c].read = call[c].read, call'[c].pages = call[c].pages,
         call'[c].sent \subseteq Request, \A d \in Calls \ {c} : call'[d] = call[d],
         late' \cup applied' \subseteq late \cup applied \cup call[c].sent, UNCHANGED <<hook, steady>>
  PROVE  Fits'
<1>1. CallFits(c)'
  BY DEF Fits, CallFits
<1>2. \A d \in Calls \ {c} : CallFits(d)'
  BY DEF Fits, CallFits
<1>3. late' \cup applied' \subseteq Request
  BY DEF Fits, CallFits
<1> QED BY <1>1, <1>2, <1>3 DEF Fits

LEMMA EndFits ==
  ASSUME Typed, Fits, NEW c \in Calls, NEW o \in {"done", "refused", "unknown", "failed"}, End(c, o),
         UNCHANGED <<hook, late, applied, steady>>
  PROVE  Fits'
<1>1. /\ call'[c] = [call[c] EXCEPT !.pc = "over", !.outcome = o] /\ call[c] \in States
      /\ \A d \in Calls \ {c} : call'[d] = call[d]
  BY EndTyped DEF Typed
<1>2. /\ call'[c].pc = "over" /\ call'[c].at = call[c].at /\ call'[c].read = call[c].read
      /\ call'[c].pages = call[c].pages /\ call'[c].sent = call[c].sent
  BY <1>1 DEF States
<1>3. call[c].sent \subseteq Request
  BY DEF Fits, CallFits
<1> QED BY <1>1, <1>2, <1>3, PastReading

LEMMA PostFits ==
  ASSUME Typed, Fits, NEW c \in Calls, NEW q \in Requests \cap Request, Post(c, q),
         UNCHANGED <<hook, late, applied, steady>>
  PROVE  Fits'
<1>1. /\ call'[c] = [call[c] EXCEPT !.pc = "sent", !.sent = {q}] /\ call[c] \in States
      /\ \A d \in Calls \ {c} : call'[d] = call[d]
  BY PostTyped DEF Typed
<1>2. /\ call'[c].pc = "sent" /\ call'[c].at = call[c].at /\ call'[c].read = call[c].read
      /\ call'[c].pages = call[c].pages /\ call'[c].sent = {q}
  BY <1>1 DEF States
<1> QED BY <1>1, <1>2, PastReading

LEMMA ToldFits ==
  ASSUME Typed, Fits, NEW c \in Calls, NEW o \in {"done", "refused", "unknown"}, Told(c, o),
         late' \cup applied' \subseteq late \cup applied \cup call[c].sent, UNCHANGED <<hook, steady>>
  PROVE  Fits'
<1>1. /\ call'[c] = IF call[c].tool = "publish"
                    THEN [call[c] EXCEPT !.pc = "items", !.sent = {}]
                    ELSE [call[c] EXCEPT !.pc = "over", !.outcome = o]
      /\ \A d \in Calls \ {c} : call'[d] = call[d] /\ call[c] \in States
  BY ToldTyped DEF Typed
<1>2. /\ call'[c].pc \in {"items", "over"} /\ call'[c].at = call[c].at /\ call'[c].read = call[c].read
      /\ call'[c].pages = call[c].pages /\ call'[c].sent \subseteq call[c].sent
  BY <1>1 DEF States
<1>3. call[c].sent \subseteq Request
  BY DEF Fits, CallFits
<1> QED BY <1>1, <1>2, <1>3, PastReading

(* A page adds entries of the ids and versions there are. *)
LEMMA ReadPageFits ==
  ASSUME SInv, Fits, NEW c \in Calls, ReadPage(c)
  PROVE  Fits'
<1> DEFINE s == call[c]
           p == s.at.project
           rest == {x \in Shown(s.tool, p) : x > s.cursor}
           page == {x \in rest : \A y \in rest : x <= y}
           new == {Seen(s.tool, p, x) : x \in page}
           after == IF page = {} THEN s.cursor ELSE Max(page)
           next == IF rest # page /\ s.pages + 1 < PAGE_LIMIT THEN "read" ELSE "decide"
           n == [s EXCEPT !.read = @ \cup new, !.pages = @ + 1, !.cursor = after, !.whole = ~ (rest # page),
                   !.pc = next]
<1>1. Typed /\ s \in States /\ s.pc = "read" /\ CallFits(c)
  BY DEF SInv, IInv, Typed, ReadPage, Fits
<1>2. p \in Projects /\ page \subseteq Shown(s.tool, p)
  BY <1>1 DEF States, Bindings
<1>3. ASSUME NEW x \in page PROVE Seen(s.tool, p, x) \in Entry
  <2>1. x \in Ids /\ (s.tool # "ask" /\ x # Agent => x \in Records)
    BY <1>2 DEF Shown, Ids
  <2>2. CASE s.tool = "ask" \/ x = Agent
    BY <1>2, <2>1, <2>2, VersionsFit DEF Seen, Entry
  <2>3. CASE ~ (s.tool = "ask" \/ x = Agent)
    <3>1. work[p][x].version \in 0 .. MaxVersion /\ work[p][x].mine \in BOOLEAN
      BY <1>1, <1>2, <2>1, <2>3, VersionsFit DEF Typed
    <3> QED BY <1>2, <2>1, <2>3, <3>1 DEF Seen, Entry
  <2> QED BY <2>2, <2>3
<1>4. new \subseteq Entry
  BY <1>3
<1>5. /\ call'[c] = n /\ \A d \in Calls \ {c} : call'[d] = call[d]
      /\ UNCHANGED <<hook, late, applied, steady>>
  BY <1>1 DEF ReadPage, service, Typed
<1>6. next \in {"read", "decide"} /\ (next = "read" => s.pages + 1 < PAGE_LIMIT)
  OBVIOUS
<1> HIDE DEF new, after, next, page, rest
<1>7. n.pc = next /\ n.at = s.at /\ n.read = s.read \cup new /\ n.pages = s.pages + 1 /\ n.sent = s.sent
  BY <1>1 DEF States
<1> HIDE DEF n
<1>8. CallFits(c)'
  BY <1>1, <1>4, <1>5, <1>6, <1>7, WorkAssumption DEF CallFits
<1>9. \A d \in Calls \ {c} : CallFits(d)'
  BY <1>5 DEF Fits, CallFits
<1> QED BY <1>5, <1>8, <1>9 DEF Fits

LEMMA CallFitsFirst ==
  ASSUME SInv, Fits, NEW c \in Calls, NEW t \in Tools, NEW arg \in SUBSET Records, Call(c, t, arg)
  PROVE  Fits'
<1> DEFINE q == [call |-> c, project |-> hook.project, id |-> Nobody, version |-> 0]
           sends == {q : x \in {t} \cap {"send"}}
           next == IF t = "send" THEN "sent" ELSE "read"
           n == [call[c] EXCEPT !.tool = t, !.at = hook, !.arg = arg, !.pc = next, !.sent = sends]
<1>1. Typed /\ call[c] \in States /\ call[c].pc = "free" /\ CallFits(c) /\ Kept(c)
  BY DEF SInv, IInv, Typed, Call, Fits
<1>2. hook \in Binding /\ hook.project \in Projects
  BY DEF Fits, Binding
<1>3. q \in Request
  BY <1>2, VersionsFit DEF Request
<1>4. sends \subseteq Request /\ next \in {"sent", "read"}
  BY <1>3
<1>5. call'[c] = n /\ (\A d \in Calls \ {c} : call'[d] = call[d]) /\ UNCHANGED <<hook, late, applied>>
  BY <1>1 DEF Call, Typed, service
<1>6. steady' \in [Calls -> SUBSET Ids]
  <2>1. Sought(t, hook.project) \subseteq Ids
    BY <1>1, <1>2 DEF Sought, Shown, Ids, Typed
  <2> QED BY <2>1 DEF Call, Fits
<1> HIDE DEF sends, next
<1>7. n.pc = next /\ n.at = hook /\ n.read = call[c].read /\ n.pages = call[c].pages /\ n.sent = sends
  BY <1>1 DEF States
<1> HIDE DEF n
<1>8. CallFits(c)'
  BY <1>1, <1>2, <1>4, <1>5, <1>7, WorkAssumption DEF CallFits
<1>9. \A d \in Calls \ {c} : CallFits(d)'
  BY <1>5 DEF Fits, CallFits
<1> QED BY <1>2, <1>5, <1>6, <1>8, <1>9 DEF Fits

LEMMA ItemsFits ==
  ASSUME SInv, Fits, NEW c \in Calls, Items(c)
  PROVE  Fits'
<1>1. Typed /\ call[c] \in States /\ CallFits(c) /\ UNCHANGED <<hook, late, applied, steady>>
  BY DEF SInv, IInv, Typed, Items, service, Fits
<1>2. ASSUME call' = [call EXCEPT ![c].pc = "items", ![c].arg = @ \cap Local[hook.project]] PROVE Fits'
  <2>1. /\ call'[c] = [call[c] EXCEPT !.pc = "items", !.arg = @ \cap Local[hook.project]]
        /\ \A d \in Calls \ {c} : call'[d] = call[d]
    BY <1>1, <1>2 DEF Typed
  <2>2. /\ call'[c].pc = "items" /\ call'[c].at = call[c].at /\ call'[c].read = call[c].read
        /\ call'[c].pages = call[c].pages /\ call'[c].sent = call[c].sent
    BY <1>1, <2>1 DEF States
  <2> QED BY <1>1, <2>1, <2>2, PastReading DEF CallFits
<1>3. ASSUME NEW o \in {"refused", "failed"}, End(c, o) PROVE Fits'
  BY <1>1, <1>3, EndFits
<1> QED BY <1>2, <1>3 DEF Items

LEMMA PublishFits ==
  ASSUME SInv, Fits, NEW c \in Calls, Publish(c)
  PROVE  Fits'
<1>1. Typed /\ call[c] \in States /\ CallFits(c) /\ UNCHANGED <<hook, late, applied, steady>>
  BY DEF SInv, IInv, Typed, Publish, service, Fits
<1>2. ASSUME NEW r \in call[c].arg,
             call' = [call EXCEPT ![c] = [call[c] EXCEPT !.pc = "sent", !.arg = @ \ {r}, !.sent = Projected(c, r)]]
      PROVE  Fits'
  <2>1. /\ call'[c] = [call[c] EXCEPT !.pc = "sent", !.arg = @ \ {r}, !.sent = Projected(c, r)]
        /\ \A d \in Calls \ {c} : call'[d] = call[d]
    BY <1>1, <1>2 DEF Typed
  <2>2. /\ call'[c].pc = "sent" /\ call'[c].at = call[c].at /\ call'[c].read = call[c].read
        /\ call'[c].pages = call[c].pages /\ call'[c].sent = Projected(c, r)
    BY <1>1, <2>1 DEF States
  <2>3. Projected(c, r) \subseteq Request
    <3> DEFINE known == {e.version : e \in {d \in call[c].read : d.id = r}}
               vs == IF known = {} THEN {0} ELSE known
    <3>1. r \in Ids /\ hook.project \in Projects
      BY <1>1 DEF States, Ids, Fits, Binding
    <3>2. known \subseteq 0 .. MaxVersion
      BY <1>1 DEF CallFits, Entry
    <3>3. vs \subseteq 0 .. MaxVersion
      BY <3>2, VersionsFit
    <3>4. Projected(c, r) = {[call |-> c, project |-> hook.project, id |-> r, version |-> v] : v \in vs}
      BY DEF Projected
    <3> HIDE DEF vs
    <3> QED BY <3>1, <3>3, <3>4 DEF Request
  <2> QED BY <1>1, <2>1, <2>2, <2>3, PastReading
<1>3. ASSUME End(c, "done") PROVE Fits'
  BY <1>1, <1>3, EndFits
<1> QED BY <1>2, <1>3 DEF Publish

LEMMA WriteFits ==
  ASSUME SInv, Fits, NEW c \in Calls, Write(c) \/ Ask(c)
  PROVE  Fits'
<1> DEFINE s == call[c]
           q(e, v) == [call |-> c, project |-> s.at.project, id |-> e.id, version |-> v]
<1>1. Typed /\ s \in States /\ CallFits(c) /\ UNCHANGED <<hook, late, applied, steady>>
  BY DEF SInv, IInv, Typed, Write, Ask, service, Fits
<1>2. ASSUME NEW e \in s.read, NEW v \in {0, e.version}, Post(c, q(e, v)) PROVE Fits'
  <2>1. e \in Entry /\ e \in Entries /\ s.at.project \in Projects
    BY <1>1 DEF CallFits, States, Bindings
  <2>2. v \in 0 .. MaxVersion
    BY <2>1, VersionsFit DEF Entry
  <2>3. q(e, v) \in Requests /\ q(e, v) \in Request
    BY <2>1, <2>2 DEF Requests, Request, Entry, Entries
  <2> HIDE DEF q
  <2> QED BY <1>1, <1>2, <2>3, PostFits
<1>3. ASSUME End(c, "refused") PROVE Fits'
  BY <1>1, <1>3, EndFits
<1>4. Assigned(c) \subseteq s.read /\ Matches(c) \subseteq s.read
  BY DEF Assigned, Matches
<1> QED BY <1>2, <1>3, <1>4 DEF Write, Ask

LEMMA InitFits == Init => Fits
<1> SUFFICES ASSUME Init PROVE Fits
  OBVIOUS
<1>1. hook \in Binding
  BY WorkAssumption DEF Init, Binding
<1>2. late \cup applied \subseteq Request /\ steady \in [Calls -> SUBSET Ids]
  BY DEF Init
<1>3. ASSUME NEW c \in Calls PROVE CallFits(c)
  <2>1. call[c].at = hook /\ call[c].read = {} /\ call[c].sent = {} /\ call[c].pages = 0 /\ call[c].pc = "free"
    BY DEF Init
  <2> QED BY <1>1, <2>1, WorkAssumption DEF CallFits
<1> QED BY <1>1, <1>2, <1>3 DEF Fits

LEMMA NextFits == SInv /\ Fits /\ [Next]_vars => Fits'
<1> SUFFICES ASSUME SInv, Fits, [Next]_vars PROVE Fits'
  OBVIOUS
<1>1. Typed
  BY DEF SInv, IInv
<1>2. ASSUME UNCHANGED call, hook' \in Binding, late' \cup applied' \subseteq Request,
             steady' \in [Calls -> SUBSET Ids]
      PROVE  Fits'
  BY <1>2 DEF Fits, CallFits
<1>3. CASE UNCHANGED vars
  BY <1>2, <1>3 DEF vars, Fits
<1>4. ASSUME NEW c \in Calls, Step(c) PROVE Fits'
  <2>1. CASE \E t \in Tools, arg \in SUBSET Records : Call(c, t, arg)
    BY <2>1, CallFitsFirst
  <2>2. CASE ReadPage(c)
    BY <2>2, ReadPageFits
  <2>3. CASE ReadOmits(c) \/ ReadLost(c) \/ ReadFails(c) \/ List(c)
    <3>1. UNCHANGED <<hook, late, applied, steady>> /\ (End(c, "refused") \/ End(c, "failed") \/ End(c, "done"))
      BY <2>3 DEF ReadOmits, ReadLost, ReadFails, List, service
    <3> QED BY <1>1, <3>1, EndFits
  <2>4. CASE Write(c) \/ Ask(c)
    BY <2>4, WriteFits
  <2>5. CASE Items(c)
    BY <2>5, ItemsFits
  <2>6. CASE Publish(c)
    BY <2>6, PublishFits
  <2>7. CASE Accepted(c)
    <3>1. Told(c, "done") /\ UNCHANGED <<hook, late, steady>> /\ \E q \in call[c].sent : Take(q)
      BY <2>7 DEF Accepted
    <3>2. applied' \subseteq applied \cup call[c].sent
      BY <3>1 DEF Take
    <3> QED BY <1>1, <3>1, <3>2, ToldFits
  <2>8. CASE Refused(c) \/ Unanswered(c)
    <3>1. (Told(c, "refused") \/ Told(c, "unknown")) /\ UNCHANGED <<hook, applied, steady>>
          /\ late' \subseteq late \cup call[c].sent
      BY <2>8 DEF Refused, Unanswered, service
    <3> QED BY <1>1, <3>1, ToldFits
  <2> QED BY <1>4, <2>1, <2>2, <2>3, <2>4, <2>5, <2>6, <2>7, <2>8 DEF Step
<1>5. ASSUME NEW q \in late, LateArrival(q) PROVE Fits'
  BY <1>2, <1>5 DEF LateArrival, Take, Fits
<1>6. ASSUME NEW p \in Projects, Bind(p) PROVE Fits'
  <2>1. hook' \in Binding
    BY <1>6, WorkAssumption DEF Bind, Fits, Binding
  <2> QED BY <1>2, <1>6, <2>1 DEF Bind, Fits
<1>7. ASSUME NEW p \in Projects, Register(p) PROVE Fits'
  BY <1>2, <1>7 DEF Register, Fits
<1>8. ASSUME NEW p \in Projects, NEW r \in Records, Reassign(p, r) PROVE Fits'
  BY <1>2, <1>8 DEF Reassign, Fits
<1>9. ASSUME NEW p \in Projects, NEW x \in People, Rename(p, x) PROVE Fits'
  <2>1. steady' \in [Calls -> SUBSET Ids]
    BY <1>9 DEF Rename, Fits
  <2> QED BY <1>2, <1>9, <2>1 DEF Rename, Fits
<1> QED BY <1>3, <1>4, <1>5, <1>6, <1>7, <1>8, <1>9 DEF Next

(* The variables keep their types.  A version is bounded by what people edit
   and by the number of calls: a call never has two requests for one record,
   so it takes effect on it once at most, however late its requests arrive:
   WorkTools.write, PublishWorkTool.publish_selected. *)
THEOREM TypeCorrect == Spec => []TypeOK
<1>1. Init => SInv /\ Fits
  BY InitSingly, InitFits
<1>2. SInv /\ Fits /\ [Next]_vars => (SInv /\ Fits)'
  BY NextSingly, NextFits
<1>3. SInv /\ Fits => TypeOK
  <2> SUFFICES ASSUME SInv, Fits PROVE TypeOK
    OBVIOUS
  <2>1. Typed /\ edits \in 0 .. MaxEdits
    BY DEF SInv, IInv
  <2>2. work \in [Projects -> [Records -> [version : 0 .. MaxVersion, mine : BOOLEAN]]]
    <3>1. ASSUME NEW p \in Projects, NEW r \in Records
          PROVE  work[p][r] \in [version : 0 .. MaxVersion, mine : BOOLEAN]
      <4>1. work[p][r] \in [version : Nat, mine : BOOLEAN] /\ work[p][r].version \in 0 .. MaxVersion
        BY <2>1, VersionsFit DEF Typed
      <4> QED BY <4>1
    <3> QED BY <2>1, <3>1 DEF Typed
  <2>3. ASSUME NEW c \in Calls
        PROVE  call[c] \in [pc : {"free", "read", "decide", "items", "sent", "over"},
                            tool : Tools \cup {"none"}, at : Binding, arg : SUBSET Records,
                            read : SUBSET Entry, pages : 0 .. PAGE_LIMIT, cursor : Nat,
                            whole : BOOLEAN, sent : SUBSET Request,
                            outcome : {"none", "done", "refused", "unknown", "failed"}]
    <3>1. call[c] \in States /\ CallFits(c)
      BY <2>1 DEF Typed, Fits
    <3> QED BY <3>1 DEF States, CallFits
  <2> QED BY <2>1, <2>2, <2>3 DEF Typed, Fits, TypeOK
<1> QED BY <1>1, <1>2, <1>3, PTL DEF Spec

=============================================================================
