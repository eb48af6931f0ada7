------------------------------ MODULE Arrivals ------------------------------
(***************************************************************************)
(* What the project sends to a session: the context is read page by page   *)
(* into the cache, an answer ends the wait that asked for it, and a watch   *)
(* hands every new version to a host that takes live input.                *)
(*                                                                         *)
(* The waits, the watch and the prompts (on_submit) read under self.lock   *)
(* and look at the binding again after every await, since a rebind takes   *)
(* no lock.  A page is read                                                *)
(* and applied in one step: the reader holds the lock and a page that      *)
(* comes after a rebind or a cancellation is dropped whole, so when the    *)
(* service read it makes no difference.  A cached version read again is    *)
(* taken for the same version.                                             *)
(***************************************************************************)
EXTENDS Naturals, FiniteSets

CONSTANTS
  Projects,     \* each with a session of its own
  First,        \* the project it starts with
  Names,        \* records of the context, by cache key
  Knowledge,    \* those that are an idea or an insight
  Requests,     \* those that are a request, and may be answered
  Omissible,    \* those whose body the service may leave out
  Waits,        \* calls of the wait tool with a request
  Prompts,      \* handlers of on_submit, for one prompt after another
  Watch, None,
  MaxPages,     \* of one retrieve: 5 in the code
  Batch,        \* LIVE_ARRIVALS_PER_POLL
  MaxVersion, MaxEdits,
  MaxFaults     \* bounds, the last one of rebinds and retired cursors together

ASSUME ArrivalsAssumption ==
  /\ Knowledge \subseteq Names /\ Requests \subseteq Names /\ Omissible \subseteq Names
  /\ IsFiniteSet(Names) /\ Waits \cap Prompts = {} /\ Watch \notin Waits \cup Prompts
  /\ None \notin Waits \cup Prompts \cup {Watch} \cup Names \cup Projects \cup (Projects \X Requests)
  /\ {MaxPages, Batch} \subseteq Nat \ {0} /\ {MaxVersion, MaxEdits, MaxFaults} \subseteq Nat /\ First \in Projects

Pollers == Waits \cup {Watch}
Readers == Pollers \cup Prompts
Bindings == Projects \X (0 .. MaxFaults)
Versions == 0 .. MaxVersion
Absent == [from |-> None, v |-> 0, answered |-> FALSE]
Cached == [from : Projects, v : Versions \ {0}, answered : BOOLEAN] \cup {Absent}
States == [cursor : [Names -> Versions], cache : [Names -> Cached], refetch : BOOLEAN]
NoCursor == [r \in Names |-> 0]
NoCache == [r \in Names |-> Absent]
Blank == [cursor |-> NoCursor, cache |-> NoCache, refetch |-> FALSE]

VARIABLES
  service,     \* each project's records: version, the version since which an
               \* answer shows, gone
  saved,       \* the journal's state of each session
  project, epoch,  \* the connection, and how often the state was exchanged
  state,       \* self.state: what the cursor covers and the cache
  lock,        \* who reads under self.lock
  page, pin,   \* of the retrieve under way: its page, and the binding it began with
  wait,        \* self._wait: whose ticket is current
  waiting,     \* self.waiting_on
  pc,          \* of every reader
  bound,       \* the binding of every wait and of the watch
  want, answer,  \* of every ticket: the request, and <<project, request>> answered
  seen,        \* of the watch: the version of each record handed over
  batch,       \* the arrivals of this poll still to be submitted
  flight,      \* the submission in flight
  accepted,    \* history: the last versions the host took for the current binding
               \* while the watch ran
  closing,     \* "no", "live": the watch is stopped, "ended"
  edits, retired

outside == <<service, edits>>
session == <<project, epoch, closing>>
ticket == <<wait, waiting, want, answer>>
live == <<seen, batch, flight, accepted>>
cached == <<state, saved>>
reads == <<lock, page, pin>>
vars == <<service, saved, project, epoch, state, lock, page, pin, wait, waiting, pc, bound, want,
          answer, seen, batch, flight, accepted, closing, edits, retired>>

Arrival == [r : Names, v : Versions, bound : Bindings, at : {"new", "host"}]

TypeOK ==
  /\ service \in [Projects -> [Names -> [v : Versions, ans : Versions, gone : BOOLEAN]]]
  /\ saved \in [Projects -> States] /\ state \in States
  /\ project \in Projects /\ epoch \in 0 .. MaxFaults
  /\ lock \in Readers \cup {None} /\ page \in 0 .. MaxPages /\ pin \in Bindings \cup {None}
  /\ wait \in Waits \cup {None} /\ waiting \in Requests \cup {None}
  /\ pc \in [Readers -> {"idle", "declared", "poll", "reading", "deliver", "submitted", "answered", "done"}]
  /\ bound \in [Pollers -> Bindings]
  /\ want \in [Waits -> Requests] /\ answer \in [Waits -> (Projects \X Requests) \cup {None}]
  /\ seen \in [Names -> Versions] /\ batch \in SUBSET (Names \X Versions)
  /\ Cardinality(batch) <= Batch
  /\ flight \in Arrival \cup {None}
  /\ accepted \in [Names -> Versions]
  /\ closing \in {"no", "live", "ended"}
  /\ edits \in 0 .. MaxEdits /\ retired \in 0 .. MaxFaults

Init ==
  /\ service = [p \in Projects |-> [r \in Names |-> [v |-> 0, ans |-> 0, gone |-> FALSE]]]
  /\ saved = [p \in Projects |-> Blank] /\ state = Blank
  /\ project = First /\ epoch = 0
  /\ lock = None /\ page = 0 /\ pin = None /\ wait = None /\ waiting = None
  /\ pc = [x \in Readers |-> "idle"] /\ bound = [x \in Pollers |-> <<project, 0>>]
  /\ want \in [Waits -> Requests] /\ answer = [w \in Waits |-> None]
  /\ seen = [r \in Names |-> 0] /\ batch = {} /\ flight = None /\ accepted = seen
  /\ closing = "no" /\ edits = 0 /\ retired = 0

-----------------------------------------------------------------------------
(* The project *)

(* A record is created, edited, answered or deleted; an answer stays, and is
   shown again if the record comes back. *)
Edit(p, r) ==
  LET old == service[p][r]
      v == old.v + 1
      shows(answered) == answered \/ (old.gone /\ old.ans > 0)
  IN
  /\ old.v < MaxVersion /\ edits < MaxEdits /\ edits' = edits + 1
  /\ \E answered, gone \in BOOLEAN :
       /\ answered => r \in Requests /\ old.v > 0 /\ old.ans = 0 /\ ~gone
       /\ gone => old.v > 0 /\ ~old.gone
       /\ service' = [service EXCEPT ![p][r] =
            [v |-> v, ans |-> IF shows(answered) THEN v ELSE old.ans, gone |-> gone]]
  /\ UNCHANGED <<cached, session, reads, ticket, pc, bound, live, retired>>

-----------------------------------------------------------------------------
(* What readers share *)

Goto(x, label) == pc' = [pc EXCEPT ![x] = label]
Now == <<project, epoch>>
Bound(x) == bound[x] = Now
WaitCurrent(w) == wait = w /\ closing # "ended" /\ Bound(w)
Running == closing = "no"

(* What the page may carry: all that changed since the cursor. *)
News == {r \in Names : service[pin[1]][r].v > state.cursor[r]}

Entry(p, r) ==
  [from |-> p, v |-> service[p][r].v, answered |-> service[p][r].ans > 0]

(* Mutant: an omitted body leaves the one before in the cache. *)
ReadKeeping(p, r, omitted) ==
  IF service[p][r].gone THEN Absent ELSE IF r \in omitted THEN state.cache[r] ELSE Entry(p, r)

(* An item of a page: a deletion, a record, or its metadata alone, which for
   knowledge evicts the body that is no longer true. *)
ReadItem(p, r, omitted) ==
  IF service[p][r].gone \/ r \in omitted \cap Knowledge THEN Absent
  ELSE IF r \in omitted THEN state.cache[r] ELSE Entry(p, r)

(* note_answer for the items of a page. *)
Answers(p, items, omitted) ==
  {r \in items \cap {waiting} : r \notin omitted /\ ~service[p][r].gone /\ service[p][r].ans > 0}

(* The ticket is filled if it is still current, and the wait is over. *)
NoteAnswer(p, answers) ==
  IF answers = {} THEN UNCHANGED <<waiting, answer>>
  ELSE /\ waiting' = None
       /\ answer' = IF wait # None /\ WaitCurrent(wait)
                    THEN [answer EXCEPT ![wait] = <<p, CHOOSE r \in answers : TRUE>>] ELSE answer

-----------------------------------------------------------------------------
(* retrieve *)

(* The lock is taken; a body that was left out asks for a new baseline. *)
Open(x) ==
  /\ lock = None /\ lock' = x /\ page' = 1 /\ pin' = Now /\ Goto(x, "reading")
  /\ state' = IF state.refetch THEN [state EXCEPT !.refetch = FALSE, !.cursor = NoCursor] ELSE state

(* A wait or the watch reads at each of its polls. *)
Read(x) ==
  /\ pc[x] = "poll" /\ Open(x)
  /\ IF x = Watch THEN Running /\ Bound(x) ELSE WaitCurrent(x) /\ answer[x] = None
  /\ UNCHANGED <<outside, saved, session, ticket, bound, live, retired>>

(* on_submit reads before each prompt, after it has saved the state. *)
Prompt(x) ==
  /\ pc[x] = "idle" /\ Open(x)
  /\ saved' = [saved EXCEPT ![project] = state]
  /\ UNCHANGED <<outside, session, ticket, bound, live, retired>>

Release == lock' = None /\ page' = 0 /\ pin' = None

(* Where a reader waits for its next read. *)
Rest(x) == IF x \in Prompts THEN "idle" ELSE "poll"

(* The versions not handed over yet, of records still cached. *)
Pending == {<<r, state'.cache[r].v>> : r \in {n \in Names : state'.cache[n] # Absent}}
Unseen == {a \in Pending : seen'[a[1]] # a[2]}

(* At most Batch of them in one poll. *)
Batches(unseen) ==
  {b \in SUBSET unseen : Cardinality(b) = Batch \/ (b = unseen /\ Cardinality(b) < Batch)}

(* retrieve is over: a wait looks at its ticket, a prompt goes on, the watch
   prunes what it has seen and takes its batch. *)
Return(x) ==
  /\ Release
  /\ IF x # Watch THEN Goto(x, Rest(x)) /\ UNCHANGED <<seen, batch>>
     ELSE /\ seen' = [r \in Names |-> IF state'.cache[r] = Absent THEN 0 ELSE seen[r]]
          /\ batch' \in Batches(Unseen)
          /\ Goto(x, "deliver")

(* Mutant: a page is applied whatever the binding. *)
BoundAlways == TRUE

(* The test between the answer of the service and its use. *)
StillBound == pin = Now

(* One page: any part of the news, applied to the cache with the cursor.  The
   service lists what was deleted too, also to a read from the start. *)
ApplyPage(x) ==
  LET p == pin[1] IN
  /\ pc[x] = "reading" /\ StillBound
  /\ \E items \in SUBSET News : \E omitted \in SUBSET (items \cap Omissible) :
       /\ items = {} => News = {}
       /\ state' = [cursor |-> [r \in Names |-> IF r \in items THEN service[p][r].v ELSE state.cursor[r]],
                    cache |-> [r \in Names |-> IF r \in items THEN ReadItem(p, r, omitted) ELSE state.cache[r]],
                    refetch |-> state.refetch
                                \/ \E r \in omitted \cap Knowledge : ~service[p][r].gone]
       /\ saved' = [saved EXCEPT ![project] = state']
       /\ NoteAnswer(p, Answers(p, items, omitted))
       /\ IF items # News /\ page < MaxPages
          THEN page' = page + 1 /\ UNCHANGED <<lock, pin, pc, seen, batch>>
          ELSE Return(x)
  /\ UNCHANGED <<outside, session, wait, want, bound, flight, accepted, retired>>

(* The project was changed during the read: retrieve returns with nothing. *)
Leave(x) ==
  /\ pc[x] = "reading" /\ pin # Now
  /\ Goto(x, Rest(x)) /\ Release
  /\ UNCHANGED <<outside, cached, session, ticket, bound, live, retired>>

(* The request fails.  410 retires the cursor, and the cache with it. *)
ReadFails(x) ==
  /\ pc[x] = "reading" /\ pin = Now
  /\ Goto(x, IF x \in Waits THEN "done" ELSE Rest(x)) /\ Release
  /\ \/ UNCHANGED <<cached, retired>>
     \/ /\ epoch + retired < MaxFaults /\ retired' = retired + 1
        /\ state' = [state EXCEPT !.cursor = NoCursor, !.cache = NoCache]
        /\ saved' = [saved EXCEPT ![project] = state']
  /\ UNCHANGED <<outside, session, ticket, bound, live>>

-----------------------------------------------------------------------------
(* The wait tool *)

(* declare_wait takes the wait over, then publishes it in a thread. *)
Declare(w) ==
  /\ pc[w] = "idle" /\ closing # "ended"
  /\ wait' = w /\ waiting' = want[w]
  /\ bound' = [bound EXCEPT ![w] = Now] /\ Goto(w, "declared")
  /\ UNCHANGED <<outside, cached, session, reads, want, answer, live, retired>>

(* Mutant: an answer that is cached already is not looked for. *)
DeclaredUncached(w) ==
  /\ pc[w] = "declared" /\ WaitCurrent(w)
  /\ Goto(w, "poll")
  /\ UNCHANGED <<outside, cached, session, reads, ticket, bound, live, retired>>

(* Published: an answer that came before is in the cache. *)
Declared(w) ==
  LET c == state.cache[want[w]] IN
  /\ pc[w] = "declared" /\ WaitCurrent(w)
  /\ NoteAnswer(c.from, {r \in {want[w]} \cap {waiting} : c.answered})
  /\ Goto(w, "poll")
  /\ UNCHANGED <<outside, cached, session, reads, wait, want, bound, live, retired>>

(* The tool hands over what its ticket holds, if that is still the wait. *)
Returns(w) == IF answer[w] # None /\ WaitCurrent(w) THEN "answered" ELSE "done"

(* await_answer ends: answered, superseded, or at its deadline; a read under
   way is cancelled.  The wait itself stays declared. *)
WaitEnds(w) ==
  /\ pc[w] \in {"declared", "poll", "reading"}
  /\ Goto(w, Returns(w))
  /\ IF lock = w THEN Release ELSE UNCHANGED reads
  /\ UNCHANGED <<outside, cached, session, ticket, bound, live, retired>>

-----------------------------------------------------------------------------
(* The live watch *)

(* live_watch begins: what is cached by then has been seen. *)
StartWatch ==
  /\ pc[Watch] = "idle" /\ Running
  /\ bound' = [bound EXCEPT ![Watch] = Now]
  /\ seen' = [r \in Names |-> state.cache[r].v]
  /\ Goto(Watch, "poll")
  /\ UNCHANGED <<outside, cached, session, reads, ticket, batch, flight, accepted, retired>>

(* After a rebind the watch begins anew. *)
Rewatch ==
  /\ pc[Watch] = "poll" /\ ~Bound(Watch) /\ Running
  /\ bound' = [bound EXCEPT ![Watch] = Now] /\ seen' = [r \in Names |-> 0]
  /\ UNCHANGED <<outside, cached, session, reads, ticket, pc, batch, flight, accepted, retired>>

(* The batch is done, or the project was changed. *)
PollEnds ==
  /\ pc[Watch] = "deliver" /\ (batch = {} \/ ~Bound(Watch))
  /\ batch' = {} /\ Goto(Watch, "poll")
  /\ UNCHANGED <<outside, cached, session, reads, ticket, bound, seen, flight, accepted, retired>>

(* Mutant: an arrival counts as seen when it is submitted. *)
DeliverSeen ==
  \E a \in batch :
  /\ pc[Watch] = "deliver" /\ Bound(Watch)
  /\ batch' = batch \ {a} /\ seen' = [seen EXCEPT ![a[1]] = a[2]]
  /\ IF state.cache[a[1]].v = a[2] /\ flight = None
     THEN /\ flight' = [r |-> a[1], v |-> a[2], bound |-> bound[Watch], at |-> "new"]
          /\ Goto(Watch, "submitted")
     ELSE UNCHANGED <<flight, pc>>
  /\ UNCHANGED <<outside, cached, session, reads, ticket, bound, accepted, retired>>

(* deliver_live: an arrival that was replaced since is left for the next poll,
   and so is every one while a submission is in flight. *)
Deliver ==
  \E a \in batch :
  /\ pc[Watch] = "deliver" /\ Bound(Watch)
  /\ batch' = batch \ {a}
  /\ IF state.cache[a[1]].v = a[2] /\ flight = None
     THEN /\ flight' = [r |-> a[1], v |-> a[2], bound |-> bound[Watch], at |-> "new"]
          /\ Goto(Watch, "submitted")
     ELSE UNCHANGED <<flight, pc>>
  /\ UNCHANGED <<outside, cached, session, reads, ticket, bound, seen, accepted, retired>>

Resume == pc' = IF pc[Watch] = "submitted" THEN [pc EXCEPT ![Watch] = "deliver"] ELSE pc

(* submit runs: the binding once more, then the host is called. *)
Submit ==
  /\ flight # None /\ flight.at = "new"
  /\ IF Running /\ flight.bound = Now
     THEN flight' = [flight EXCEPT !.at = "host"] /\ UNCHANGED pc
     ELSE flight' = None /\ Resume
  /\ UNCHANGED <<outside, cached, session, reads, ticket, bound, seen, batch, accepted, retired>>

(* The host takes it, however late; it is marked for its own binding only. *)
HostAccepts ==
  /\ flight # None /\ flight.at = "host"
  /\ flight' = None /\ Resume
  /\ IF Running /\ flight.bound = Now
     THEN /\ accepted' = [accepted EXCEPT ![flight.r] = flight.v]
          /\ seen' = [seen EXCEPT ![flight.r] = flight.v]
     ELSE UNCHANGED <<accepted, seen>>
  /\ UNCHANGED <<outside, cached, session, reads, ticket, bound, batch, retired>>

(* The host refuses it, or lets itself be cancelled. *)
HostRejects ==
  /\ flight # None /\ flight.at = "host"
  /\ flight' = None /\ Resume
  /\ UNCHANGED <<outside, cached, session, reads, ticket, bound, seen, batch, accepted, retired>>

(* LIVE_SUBMIT_SECONDS are over, and the host does not let itself be
   cancelled: the watch goes on, the submission stays in flight. *)
SubmitTimesOut ==
  /\ pc[Watch] = "submitted" /\ flight # None /\ flight.at = "host"
  /\ Goto(Watch, "deliver")
  /\ UNCHANGED <<outside, cached, session, reads, ticket, bound, live, retired>>

-----------------------------------------------------------------------------
(* Rebind and shutdown *)

Rebind ==
  /\ epoch + retired < MaxFaults /\ Running
  /\ \E p \in Projects \ {project} : project' = p /\ state' = saved[p]
  /\ epoch' = epoch + 1 /\ wait' = None /\ waiting' = None
  /\ accepted' = [r \in Names |-> 0]
  /\ UNCHANGED <<outside, saved, reads, pc, bound, want, answer, seen, batch, flight, closing,
                 retired>>

(* stop_live_watch: the watch is cancelled wherever it is, and what it had
   seen goes with it. *)
StopWatch ==
  /\ Running /\ closing' = "live"
  /\ Goto(Watch, "done") /\ batch' = {}
  /\ seen' = [r \in Names |-> 0] /\ accepted' = seen'
  /\ IF lock = Watch THEN Release ELSE UNCHANGED reads
  /\ UNCHANGED <<outside, cached, project, epoch, ticket, bound, flight, retired>>

(* _end_shared_session, under the lock. *)
EndSession ==
  /\ closing = "live" /\ lock = None /\ closing' = "ended"
  /\ UNCHANGED <<outside, cached, project, epoch, reads, ticket, pc, bound, live, retired>>

Next ==
  \/ \E p \in Projects, r \in Names : Edit(p, r)
  \/ \E x \in Pollers : Read(x)
  \/ \E x \in Prompts : Prompt(x)
  \/ \E x \in Readers : ApplyPage(x) \/ Leave(x) \/ ReadFails(x)
  \/ \E w \in Waits : Declare(w) \/ Declared(w) \/ WaitEnds(w)
  \/ StartWatch \/ Rewatch \/ PollEnds \/ Deliver
  \/ Submit \/ HostAccepts \/ HostRejects \/ SubmitTimesOut
  \/ Rebind \/ StopWatch \/ EndSession

Spec == Init /\ [][Next]_vars

ReadsAll == ApplyPage(Watch) /\ pc'[Watch] = "deliver"

(* The event loop runs the watch and its submission, the lock is first come
   first served, every wait and every request has a deadline, and neither the
   service nor the host fails for ever. *)
Fairness ==
  /\ WF_vars(StartWatch \/ Leave(Watch) \/ Rewatch \/ PollEnds \/ Deliver)
  /\ SF_vars(Read(Watch)) /\ SF_vars(ReadsAll)
  /\ WF_vars(Submit \/ HostAccepts \/ HostRejects) /\ SF_vars(HostAccepts)
  /\ \A w \in Waits : WF_vars(WaitEnds(w))
  /\ \A x \in Prompts : WF_vars(ApplyPage(x) \/ Leave(x) \/ ReadFails(x))

FairSpec == Spec /\ Fairness

-----------------------------------------------------------------------------
(* What a session may count on *)

(* An answer ends only the wait that asked for it: what a ticket holds, and the
   tool hands over, is the answer given to its own request in the project it
   was bound to (note_answer, wait_current, WaitTool.execute). *)
AnswerIsMine ==
  \A w \in Waits :
    /\ answer[w] # None => /\ answer[w] = <<bound[w][1], want[w]>>
                           /\ service[bound[w][1]][want[w]].ans > 0
    /\ pc[w] = "answered" => answer[w] # None

(* The answer a session is blocked on is not dropped: once the cursor has
   passed it, the wait that is current and watching holds it, whoever read
   the page and even if it came before the wait (note_answer, declare_wait). *)
AnswerNotMissed ==
  \A w \in Waits :
    LET r == want[w] s == service[bound[w][1]][r] IN
    (pc[w] \in {"poll", "reading"} /\ WaitCurrent(w) /\ s.ans \in 1 .. state.cursor[r] /\ ~s.gone)
      => answer[w] # None

(* The cache tells of its own project only, and never a claim the cursor has
   gone past: knowledge is cached in the version last read, or evicted and
   asked for again (retrieve, knowledge_refetch). *)
Faithful(p, s) ==
  /\ \A r \in Names : s.cache[r] # Absent => s.cache[r].from = p
  /\ \A r \in Knowledge :
       /\ s.cache[r] # Absent => s.cache[r].v >= s.cursor[r]
       /\ (s.cache[r] = Absent /\ s.cursor[r] > 0 /\ s.cursor[r] = service[p][r].v)
            => service[p][r].gone \/ s.refetch
CacheFaithful == Faithful(project, state) /\ \A p \in Projects : Faithful(p, saved[p])

(* No arrival is lost to the batch limit, a refusal, a timeout or another
   reader: a version cached while the watch runs is taken by the host, unless
   it is replaced, the project is left or the session ends (live_poll). *)
InCache(r, n) == Running /\ state.cache[r] # Absent /\ state.cache[r].v = n
Waiting(r, n) == InCache(r, n) /\ pc[Watch] # "idle" /\ seen[r] # n
NoArrivalLost ==
  \A r \in Names, n \in 1 .. MaxVersion :
    Waiting(r, n) ~> (~InCache(r, n) \/ accepted[r] = n)
=============================================================================
