-------------------------------- MODULE Work --------------------------------
(***************************************************************************)
(* The tools a session uses on shared records while people use them too:   *)
(* tasks, claim, progress and answer (here "write"), ask, send and         *)
(* publish.  Each call works in a thread; teamwork_bind may exchange the   *)
(* project and the client of the hook between any two of its steps, and a  *)
(* request that gets no answer may still arrive.                           *)
(*                                                                         *)
(* Records and people have numbers, and a page of the service shows the    *)
(* next one.  A shared item published from the local queue has the number  *)
(* of the local item: its id is derived from it.                           *)
(***************************************************************************)
EXTENDS Naturals, FiniteSets, FiniteSetsExt

CONSTANTS
  Calls,        \* tool calls of this session
  Tools,        \* the tools they may call
  Projects,
  Configured,   \* the project the session starts with
  Records,      \* work records, numbered
  Agent,        \* the number of this session's own agent record
  People,       \* people, numbered
  Local,        \* the items in each project's local queue
  PAGE_LIMIT,
  MaxEdits,     \* bound: what people change meanwhile
  MaxBinds      \* bound: changes of project

ASSUME WorkAssumption ==
  /\ Tools \subseteq {"tasks", "write", "ask", "send", "publish"}
  /\ Records \cup People \cup {Agent} \subseteq Nat \ {0} /\ Agent \notin Records
  /\ Configured \in Projects
  /\ Local \in [Projects -> SUBSET Records]
  /\ IsFiniteSet(Calls)
  /\ PAGE_LIMIT \in Nat \ {0} /\ MaxEdits \in Nat /\ MaxBinds \in Nat

VARIABLES
  hook,     \* the project of self.hook.connection, and how often it was exchanged
  work,     \* the records of each project: their version, and whether they are mine
  agents,   \* projects where this session's agent record exists
  names,    \* people of each project who bear the name the session asks for
  call,     \* what each call has pinned, read and sent
  late,     \* requests nobody waits for any more
  applied,  \* requests that took effect
  steady,   \* what a call is looking for and was there throughout its read
  edits

vars == <<hook, work, agents, names, call, late, applied, steady, edits>>

Nobody == 0
Ids == Records \cup People \cup {Agent}
MaxVersion == 1 + MaxEdits + Cardinality(Calls)

Binding == [project : Projects, epoch : 0 .. MaxBinds]
Entry == [project : Projects, id : Ids, version : 0 .. MaxVersion, mine : BOOLEAN]
Request == [call : Calls, project : Projects, id : Ids \cup {Nobody}, version : 0 .. MaxVersion]

TypeOK ==
  /\ hook \in Binding
  /\ work \in [Projects -> [Records -> [version : 0 .. MaxVersion, mine : BOOLEAN]]]
  /\ agents \subseteq Projects
  /\ names \in [Projects -> SUBSET People]
  /\ call \in [Calls -> [pc : {"free", "read", "decide", "items", "sent", "over"},
                         tool : Tools \cup {"none"}, at : Binding, arg : SUBSET Records,
                         read : SUBSET Entry, pages : 0 .. PAGE_LIMIT, cursor : Nat,
                         whole : BOOLEAN, sent : SUBSET Request,
                         outcome : {"none", "done", "refused", "unknown", "failed"}]]
  /\ late \subseteq Request /\ applied \subseteq Request
  /\ steady \in [Calls -> SUBSET Ids]
  /\ edits \in 0 .. MaxEdits

(* The projects begin alike, in any way that matters to a call.            *)
Init ==
  /\ hook = [project |-> Configured, epoch |-> 0]
  /\ \E first \in [Records -> {[version |-> 0, mine |-> FALSE], [version |-> 1, mine |-> TRUE]}] :
       work = [p \in Projects |-> first]
  /\ agents \in {{}, Projects}
  /\ \E first \in SUBSET People : names = [p \in Projects |-> first]
  /\ call = [c \in Calls |->
       [pc |-> "free", tool |-> "none", at |-> hook, arg |-> {}, read |-> {}, pages |-> 0,
        cursor |-> 0, whole |-> FALSE, sent |-> {}, outcome |-> "none"]]
  /\ late = {} /\ applied = {}
  /\ steady = [c \in Calls |-> {}]
  /\ edits = 0

-----------------------------------------------------------------------------
(* The service and the people who use it.                                  *)

Overwrites(q) == call[q.call].tool \in {"write", "publish"}

(* A question or a message is a new record; a write of a record is taken   *)
(* only over the version it expects.                                       *)
Acceptable(q) == Overwrites(q) => q.version = work[q.project][q.id].version

Take(q) ==
  /\ Acceptable(q)
  /\ applied' = applied \cup {q}
  /\ work' = IF Overwrites(q)
             THEN [work EXCEPT ![q.project][q.id] =
                     [version |-> @.version + 1, mine |-> @.mine \/ @.version = 0]]
             ELSE work

LateArrival(q) ==
  /\ q \in late
  /\ late' = late \ {q}
  /\ Take(q) \/ UNCHANGED <<applied, work>>
  /\ UNCHANGED <<hook, agents, names, call, steady, edits>>

(* People edit and reassign records, and join, leave and change names.     *)
Reassign(p, r) ==
  /\ edits < MaxEdits /\ edits' = edits + 1
  /\ work' = [work EXCEPT ![p][r] = [version |-> @.version + 1, mine |-> ~ @.mine]]
  /\ UNCHANGED <<hook, agents, names, call, late, applied, steady>>

Rename(p, x) ==
  /\ edits < MaxEdits /\ edits' = edits + 1
  /\ names' = [names EXCEPT ![p] = IF x \in @ THEN @ \ {x} ELSE @ \cup {x}]
  /\ steady' = [c \in Calls |->
       IF call[c].pc = "read" /\ call[c].tool = "ask" /\ call[c].at.project = p
       THEN steady[c] \ {x} ELSE steady[c]]
  /\ UNCHANGED <<hook, work, agents, call, late, applied>>

Register(p) ==
  /\ edits < MaxEdits /\ edits' = edits + 1
  /\ p \notin agents /\ agents' = agents \cup {p}
  /\ UNCHANGED <<hook, work, names, call, late, applied, steady>>

(* What the pages of tool t's read show of project p; of each entry, its   *)
(* version and whether it is one the tool looks for.                       *)
Shown(t, p) ==
  IF t = "ask" THEN People
  ELSE {r \in Records : work[p][r].version > 0} \cup {a \in {Agent} : p \in agents}

Seen(t, p, x) ==
  IF t = "ask" \/ x = Agent
  THEN [project |-> p, id |-> x, version |-> 0, mine |-> t = "ask" => x \in names[p]]
  ELSE [project |-> p, id |-> x, version |-> work[p][x].version, mine |-> work[p][x].mine]

Sought(t, p) == IF t = "ask" THEN names[p] ELSE Shown(t, p)

-----------------------------------------------------------------------------
(* A call pins the project and the client, and reads.                      *)

Bind(p) ==
  /\ hook.epoch < MaxBinds /\ p # hook.project
  /\ hook' = [project |-> p, epoch |-> hook.epoch + 1]
  /\ UNCHANGED <<work, agents, names, call, late, applied, steady, edits>>

Pinned(c) == hook = call[c].at

(* A call is over, with what the session is told.                          *)
End(c, outcome) == call' = [call EXCEPT ![c].pc = "over", ![c].outcome = outcome]
Post(c, q) == call' = [call EXCEPT ![c].pc = "sent", ![c].sent = {q}]

service == <<work, agents, names, late, applied>>

Call(c, t, arg) ==
  /\ call[c].pc = "free"
  /\ arg # {} /\ (t # "publish" => Cardinality(arg) = 1)
  /\ call' = [call EXCEPT ![c] = [call[c] EXCEPT !.tool = t, !.at = hook, !.arg = arg,
       !.pc = IF t = "send" THEN "sent" ELSE "read",
       !.sent = {[call |-> c, project |-> hook.project, id |-> Nobody, version |-> 0] : x \in {t} \cap {"send"}}]]
  /\ steady' = [steady EXCEPT ![c] = IF t = "send" THEN {} ELSE Sought(t, hook.project)]
  /\ UNCHANGED <<hook, service, edits>>

ReadPage(c) ==
  LET p == call[c].at.project
      rest == {x \in Shown(call[c].tool, p) : x > call[c].cursor}
      page == {x \in rest : \A y \in rest : x <= y}
      more == rest # page
  IN  /\ call[c].pc = "read" /\ Pinned(c)
      /\ call' = [call EXCEPT ![c] = [call[c] EXCEPT
           !.read = @ \cup {Seen(call[c].tool, p, x) : x \in page}, !.pages = @ + 1,
           !.cursor = IF page = {} THEN @ ELSE Max(page), !.whole = ~ more,
           !.pc = IF more /\ call[c].pages + 1 < PAGE_LIMIT THEN "read" ELSE "decide"]]
      /\ UNCHANGED <<hook, service, steady, edits>>

(* A page of people leaves a body out, or says that it is cut short.       *)
ReadOmits(c) ==
  /\ call[c].pc = "read" /\ call[c].tool = "ask"
  /\ End(c, "refused")
  /\ UNCHANGED <<hook, service, steady, edits>>

(* The project changed around a page: its caller gets nothing.             *)
ReadLost(c) ==
  /\ call[c].pc = "read" /\ ~ Pinned(c)
  /\ End(c, "refused")
  /\ UNCHANGED <<hook, service, steady, edits>>

ReadFails(c) ==
  /\ call[c].pc = "read"
  /\ End(c, "failed")
  /\ UNCHANGED <<hook, service, steady, edits>>

-----------------------------------------------------------------------------
(* What it decides from what it read.                                      *)

Deciding(c, t) == call[c].pc = "decide" /\ call[c].tool = t
Registered(c) == \E e \in call[c].read : e.id = Agent

List(c) ==
  /\ Deciding(c, "tasks")
  /\ End(c, "done")
  /\ UNCHANGED <<hook, service, steady, edits>>

(* The record named, among those assigned to this session's person.        *)
Assigned(c) == {e \in call[c].read : Registered(c) /\ e.mine /\ e.id \in call[c].arg}

(* A defect: the write goes through the client the hook has by then.       *)
WriteElsewhere(c) ==
  /\ Deciding(c, "write")
  /\ \/ \E e \in Assigned(c) :
          Post(c, [call |-> c, project |-> hook.project, id |-> e.id, version |-> e.version])
     \/ Assigned(c) = {} /\ End(c, "refused")
  /\ UNCHANGED <<hook, service, steady, edits>>

Write(c) ==
  /\ Deciding(c, "write")
  /\ \/ \E e \in Assigned(c) :
          Pinned(c) /\ Post(c, [call |-> c, project |-> call[c].at.project, id |-> e.id, version |-> e.version])
     \/ (~ Pinned(c) \/ Assigned(c) = {}) /\ End(c, "refused")
  /\ UNCHANGED <<hook, service, steady, edits>>

(* Those on the pages who bear the name.                                   *)
Matches(c) == {e \in call[c].read : e.mine}

(* A defect: a list of people cut off at the page limit is used.           *)
AskAnyway(c) ==
  /\ Deciding(c, "ask")
  /\ \/ \E e \in Matches(c) :
          /\ Pinned(c) /\ Matches(c) = {e}
          /\ Post(c, [call |-> c, project |-> call[c].at.project, id |-> e.id, version |-> 0])
     \/ (~ Pinned(c) \/ Cardinality(Matches(c)) # 1) /\ End(c, "refused")
  /\ UNCHANGED <<hook, service, steady, edits>>

Ask(c) ==
  /\ Deciding(c, "ask")
  /\ \/ \E e \in Matches(c) :
          /\ Pinned(c) /\ call[c].whole /\ Matches(c) = {e}
          /\ Post(c, [call |-> c, project |-> call[c].at.project, id |-> e.id, version |-> 0])
     \/ /\ ~ Pinned(c) \/ ~ call[c].whole \/ Cardinality(Matches(c)) # 1
        /\ End(c, "refused")
  /\ UNCHANGED <<hook, service, steady, edits>>

(* The named items of the queue the hook has now.                          *)
Items(c) ==
  /\ Deciding(c, "publish")
  /\ \/ /\ Registered(c)
        /\ call' = [call EXCEPT ![c].pc = "items", ![c].arg = @ \cap Local[hook.project]]
     \/ ~ Registered(c) /\ End(c, "refused")
     \/ Registered(c) /\ End(c, "failed")       \* the queue cannot be read
  /\ UNCHANGED <<hook, service, steady, edits>>

(* The operation for one item: its shared record is new, or changed at the
   version that was read.  What people wrote in it stays.                  *)
Projected(c, r) ==
  LET known == {e.version : e \in {d \in call[c].read : d.id = r}}
  IN  {[call |-> c, project |-> hook.project, id |-> r, version |-> v] :
         v \in IF known = {} THEN {0} ELSE known}

(* Each is posted through the client the hook has at that moment.          *)
Publish(c) ==
  /\ call[c].pc = "items"
  /\ \/ \E r \in call[c].arg :
          call' = [call EXCEPT ![c] = [call[c] EXCEPT !.pc = "sent", !.arg = @ \ {r}, !.sent = Projected(c, r)]]
     \/ call[c].arg = {} /\ End(c, "done")
  /\ UNCHANGED <<hook, service, steady, edits>>

(* publish goes on with the next item, whatever became of this one.        *)
Told(c, outcome) ==
  IF call[c].tool = "publish"
  THEN call' = [call EXCEPT ![c].pc = "items", ![c].sent = {}]
  ELSE End(c, outcome)

Accepted(c) ==
  /\ call[c].pc = "sent"
  /\ \E q \in call[c].sent : Take(q)
  /\ Told(c, "done")
  /\ UNCHANGED <<hook, agents, names, late, steady, edits>>

Refused(c) ==
  /\ call[c].pc = "sent"
  /\ Told(c, "refused")
  /\ UNCHANGED <<hook, service, steady, edits>>

(* A defect: a lost answer is reported as a refusal.                       *)
UnansweredMeansNo(c) ==
  /\ call[c].pc = "sent"
  /\ late' = late \cup call[c].sent
  /\ Told(c, "refused")
  /\ UNCHANGED <<hook, work, agents, names, applied, steady, edits>>

(* No answer, or one that says nothing.  ask and send say so; the others   *)
(* report a refusal.                                                       *)
Unanswered(c) ==
  /\ call[c].pc = "sent"
  /\ late' = late \cup call[c].sent
  /\ Told(c, IF call[c].tool \in {"ask", "send"} THEN "unknown" ELSE "refused")
  /\ UNCHANGED <<hook, work, agents, names, applied, steady, edits>>

Step(c) ==
  \/ \E t \in Tools, arg \in SUBSET Records : Call(c, t, arg)
  \/ ReadPage(c) \/ ReadOmits(c) \/ ReadLost(c) \/ ReadFails(c)
  \/ List(c) \/ Write(c) \/ Ask(c) \/ Items(c) \/ Publish(c)
  \/ Accepted(c) \/ Refused(c) \/ Unanswered(c)

Next ==
  \/ \E c \in Calls : Step(c)
  \/ \E q \in late : LateArrival(q)
  \/ \E p \in Projects : Bind(p) \/ Register(p)
  \/ \E p \in Projects, r \in Records : Reassign(p, r)
  \/ \E p \in Projects, x \in People : Rename(p, x)

Spec == Init /\ [][Next]_vars

-----------------------------------------------------------------------------
(* What may go wrong when the project, the records and the people change   *)
(* under a call, and answers are lost.                                     *)

(* A claim, a report of progress, an answer, a question or a message takes *)
(* effect in the project it was made in and nowhere else, and a write only *)
(* over the very version that this call read there as its person's own:    *)
(* WorkTools.write, AskTool.execute, SendTool.execute.                     *)
WrittenAtHome == \A q \in applied :
  /\ call[q.call].tool # "publish" => q.project = call[q.call].at.project
  /\ call[q.call].tool = "write" =>
       [project |-> q.project, id |-> q.id, version |-> q.version, mine |-> TRUE] \in call[q.call].read

(* A question never goes to one of two people who both bore the name all   *)
(* the time it was looked up, however many pages that took and whoever was *)
(* renamed meanwhile: AskTool.execute with WorkTools.people.  A read that  *)
(* counts as complete has missed nothing that was there throughout.        *)
NoGuess == \A c \in Calls :
  /\ call[c].whole => steady[c] \subseteq {e.id : e \in call[c].read}
  /\ \A q \in call[c].sent \cup {r \in late \cup applied : r.call = c} :
       call[c].tool = "ask" => steady[c] \subseteq {q.id}

(* A question or a message that was reported as not sent has changed       *)
(* nothing and never will, and one reported as sent took effect:           *)
(* AskTool.execute, SendTool.execute.                                      *)
HonestAnswer == \A c \in Calls :
  /\ call[c].outcome = "refused" /\ call[c].tool \in {"ask", "send"} =>
       \A q \in late \cup applied : q.call # c
  /\ call[c].outcome = "done" /\ call[c].tool \in {"write", "ask", "send"} =>
       \E q \in applied : q.call = c

(* An item of one project's local queue is published to that project only: *)
(* PublishWorkTool.publish_selected.  A bind between its read and its      *)
(* posts breaks it.                                                        *)
PublishedAtHome == \A q \in applied :
  call[q.call].tool = "publish" => q.id \in Local[q.project]

(* A claim, a report of progress or an answer that is said not to be       *)
(* recorded is not: WorkTools.write.  A lost answer breaks it.             *)
RefusedMeansNo == \A c \in Calls :
  call[c].outcome = "refused" /\ call[c].tool = "write" => \A q \in applied : q.call # c

=============================================================================
