-------------------------------- MODULE Cards --------------------------------
(***************************************************************************)
(* The two cards of a session that never go through the outbox: its agent  *)
(* registration and its presence.  register_agent and report_presence run  *)
(* in threads; each takes _card_lock to decide and to note the outcome,    *)
(* and sends with the lock released.  rebind takes the lock and may come   *)
(* anywhere in between, also back to a session it left.                    *)
(*                                                                         *)
(* A request may be lost, applied without its sender learning of it, or    *)
(* arrive after its sender gave up.  The service is external: it takes a   *)
(* card only at its current version, and answers a conflict with it.       *)
(***************************************************************************)
EXTENDS Naturals, FiniteSets

CONSTANTS
  Sessions,    \* the sessions of this native session, one a project
  Threads,     \* threads that may be sending cards
  Unsupported, \* the kinds the service does not know or forbids
  NoSession,
  MaxCards,    \* bound: observations made
  MaxRebinds,  \* bound: changes of project
  MaxRestarts  \* bound: processes that end

Kinds == {"agent", "presence"}

ASSUME CardsAssumption ==
  /\ Unsupported \subseteq Kinds
  /\ NoSession \notin Sessions
  /\ {MaxCards, MaxRebinds, MaxRestarts} \subseteq Nat

VARIABLES
  bind,      \* self.sid
  gen,       \* identity of self.client and self.connection
  entered,   \* self.entered
  status,    \* agent_status, presence_status; "none" until either is sent
  own,       \* agent_version, presence_version
  versions,  \* self._card_versions
  inflight,  \* self._card_inflight
  th,        \* what each thread is doing
  wire,      \* requests whose sender gave up and that may still arrive
  svc,       \* the service: version of each card
  shown,     \* the service: the observation each card shows; 0: none
  taken,     \* history: the bindings under which a card was accepted
  clock,     \* observations made so far
  restarts

hook == <<bind, gen, entered, status, own, versions, inflight>>
service == <<wire, svc, shown, taken>>
bounds == <<clock, restarts>>
vars == <<bind, gen, entered, status, own, versions, inflight, th,
          wire, svc, shown, taken, clock, restarts>>

Keys == Sessions \X Kinds
Verdicts == {"ok", "conflict", "unknown field", "refused"}
Steps == {"observe", "check", "send", "answered", "done"}

(* The locals of one attempt: start is the version it began with, expected the
   one its operation carries, queue the project whose queue it describes. *)
Attempt ==
  [pc : Steps, sid : Sessions, kind : Kinds, gen : Nat, obs : Nat,
   start : Nat, expected : Nat, queue : Sessions \cup {NoSession},
   objectives : BOOLEAN, rebase : BOOLEAN,
   answer : Verdicts \cup {"none"}, actual : Nat]
Idle == [pc |-> "idle"]

TypeOK ==
  /\ bind \in Sessions /\ gen \in Nat /\ entered \in BOOLEAN
  /\ status \in [Kinds -> {"none", "pending", "unavailable", "ok"}]
  /\ own \in [Kinds -> Nat]
  /\ versions \in [Keys -> Nat]
  /\ inflight \subseteq Keys
  /\ th \in [Threads -> Attempt \cup {Idle}]
  /\ wire \subseteq Attempt
  /\ svc \in [Keys -> Nat] /\ shown \in [Keys -> Nat]
  /\ taken \subseteq Nat \X Kinds
  /\ clock \in Nat /\ restarts \in Nat

Fresh(s) ==
  /\ bind' = s /\ entered' = FALSE
  /\ status' = [k \in Kinds |-> "none"]

Init ==
  /\ bind \in Sessions /\ gen = 1 /\ entered = FALSE
  /\ status = [k \in Kinds |-> "none"]
  /\ own = [k \in Kinds |-> 0]
  /\ versions = [c \in Keys |-> 0]
  /\ inflight = {}
  /\ th = [t \in Threads |-> Idle]
  /\ wire = {}
  /\ svc = [c \in Keys |-> 0] /\ shown = [c \in Keys |-> 0]
  /\ taken = {} /\ clock = 0 /\ restarts = 0

-----------------------------------------------------------------------------
Sending(t) == th[t] # Idle
Key(a) == <<a.sid, a.kind>>
Max(m, n) == IF m >= n THEN m ELSE n

(* current(): the binding is still the one the attempt began with. *)
Current(a) == a.sid = bind /\ a.gen = gen

Step(t, from) == Sending(t) /\ th[t].pc = from

(* Mutant: the set of cards being sent is not consulted. *)
BeginUnguarded(t, k) ==
  /\ th[t] = Idle /\ clock < MaxCards
  /\ status[k] # "unavailable" /\ entered
  /\ inflight' = inflight \cup {<<bind, k>>}
  /\ clock' = clock + 1
  /\ LET version == Max(own[k], versions[<<bind, k>>])
     IN th' = [th EXCEPT ![t] =
          [pc |-> IF k = "agent" THEN "observe" ELSE "send",
           sid |-> bind, kind |-> k, gen |-> gen, obs |-> clock + 1,
           start |-> version, expected |-> version, queue |-> NoSession,
           objectives |-> FALSE, rebase |-> TRUE, answer |-> "none", actual |-> 0]]
  /\ UNCHANGED <<bind, gen, entered, status, own, versions, restarts>>
  /\ UNCHANGED service

(* register_agent, report_presence: under the lock, unless the card is
   disabled, the session has not begun, or another thread sends this card. *)
Begin(t, k) ==
  /\ th[t] = Idle /\ clock < MaxCards
  /\ status[k] # "unavailable" /\ entered
  /\ <<bind, k>> \notin inflight
  /\ inflight' = inflight \cup {<<bind, k>>}
  /\ clock' = clock + 1
  /\ LET version == Max(own[k], versions[<<bind, k>>])
     IN th' = [th EXCEPT ![t] =
          [pc |-> IF k = "agent" THEN "observe" ELSE "send",
           sid |-> bind, kind |-> k, gen |-> gen, obs |-> clock + 1,
           start |-> version, expected |-> version, queue |-> NoSession,
           objectives |-> FALSE, rebase |-> TRUE, answer |-> "none", actual |-> 0]]
  /\ UNCHANGED <<bind, gen, entered, status, own, versions, restarts>>
  /\ UNCHANGED service

(* queue_observation: the queue is the one of whichever project is bound by
   then, and may have objectives to tell of. *)
Observe(t, objectives) ==
  /\ Step(t, "observe")
  /\ th' = [th EXCEPT ![t].pc = "check", ![t].queue = bind, ![t].objectives = objectives]
  /\ UNCHANGED hook /\ UNCHANGED service /\ UNCHANGED bounds

(* if not current(): return *)
CheckBinding(t) ==
  /\ Step(t, "check")
  /\ th' = [th EXCEPT ![t].pc = IF Current(th[t]) THEN "send" ELSE "done"]
  /\ UNCHANGED hook /\ UNCHANGED service /\ UNCHANGED bounds

-----------------------------------------------------------------------------
(* The service and the network (external) *)

(* A card with objectives is one an older service does not understand; it may
   see the conflict first. *)
Verdict(a, verdict) ==
  \/ a.kind \in Unsupported /\ verdict = "refused"
  \/ a.kind \notin Unsupported /\ a.objectives /\ verdict = "unknown field"
  \/ a.kind \notin Unsupported /\ a.expected # svc[Key(a)] /\ verdict = "conflict"
  \/ /\ a.kind \notin Unsupported /\ ~a.objectives
     /\ a.expected = svc[Key(a)] /\ verdict = "ok"

Take(a) ==
  IF Verdict(a, "ok")
  THEN /\ svc' = [svc EXCEPT ![Key(a)] = @ + 1]
       /\ shown' = [shown EXCEPT ![Key(a)] = a.obs]
       /\ taken' = taken \cup {<<a.gen, a.kind>>}
  ELSE UNCHANGED <<svc, shown, taken>>

Serve(t, verdict) ==
  /\ Step(t, "send") /\ Verdict(th[t], verdict)
  /\ Take(th[t])
  /\ th' = [th EXCEPT ![t].pc = "answered", ![t].answer = verdict,
                      ![t].actual = svc[Key(th[t])]]
  /\ UNCHANGED hook /\ UNCHANGED wire /\ UNCHANGED bounds

LateArrival(a) ==
  /\ a \in wire
  /\ wire' = wire \ {a}
  /\ Take(a)
  /\ UNCHANGED hook /\ UNCHANGED th /\ UNCHANGED bounds

-----------------------------------------------------------------------------
(* _publish_card and what follows it *)

Answered(t, answer) == Step(t, "answered") /\ th[t].answer = answer

(* One rebase, on a conflict with a version ahead of ours. *)
MayRebase(a) == a.rebase /\ a.actual > a.expected /\ Current(a)

Rebase(t) ==
  /\ Answered(t, "conflict") /\ MayRebase(th[t])
  /\ th' = [th EXCEPT ![t].pc = "send", ![t].expected = th[t].actual,
                      ![t].rebase = FALSE, ![t].answer = "none", ![t].actual = 0]
  /\ UNCHANGED hook /\ UNCHANGED service /\ UNCHANGED bounds

(* An older service: once more without the objectives, and with no second
   rebase if the first request had one. *)
Downgrade(t) ==
  /\ Answered(t, "unknown field") /\ Current(th[t])
  /\ th' = [th EXCEPT ![t].pc = "send", ![t].objectives = FALSE,
                      ![t].rebase = (th[t].expected = th[t].start),
                      ![t].answer = "none", ![t].actual = 0]
  /\ UNCHANGED hook /\ UNCHANGED service /\ UNCHANGED bounds

(* The error is raised: noted under the lock, for the binding it is about. *)
Fail(t, outcome) ==
  /\ status' = IF Current(th[t]) THEN [status EXCEPT ![th[t].kind] = outcome] ELSE status
  /\ th' = [th EXCEPT ![t].pc = "done"]
  /\ UNCHANGED <<bind, gen, entered, own, versions, inflight>> /\ UNCHANGED bounds

(* A status that retryable_card_error does not list. *)
Refused(t) ==
  /\ \/ Answered(t, "refused")
     \/ Answered(t, "conflict") /\ ~MayRebase(th[t])
     \/ Answered(t, "unknown field") /\ ~Current(th[t])
  /\ Fail(t, "unavailable")
  /\ UNCHANGED service

(* No answer, or one that asks to come back: the request may have been
   applied, be lost, or still be under way. *)
Transient(t) ==
  /\ Step(t, "send") \/ Step(t, "answered")
  /\ Fail(t, "pending")
  /\ \/ UNCHANGED wire
     \/ Step(t, "send") /\ wire' = wire \cup {th[t]}
  /\ UNCHANGED <<svc, shown, taken>>

(* Mutant: the session alone decides whose status it is. *)
AcceptedBySession(t) ==
  /\ Answered(t, "ok")
  /\ LET a == th[t]
         version == Max(versions[Key(a)], a.expected + 1)
     IN /\ versions' = [versions EXCEPT ![Key(a)] = version]
        /\ own' = IF a.sid = bind THEN [own EXCEPT ![a.kind] = Max(@, version)] ELSE own
        /\ status' = IF a.sid = bind THEN [status EXCEPT ![a.kind] = "ok"] ELSE status
  /\ th' = [th EXCEPT ![t].pc = "done"]
  /\ UNCHANGED <<bind, gen, entered, inflight>> /\ UNCHANGED service /\ UNCHANGED bounds

(* The version belongs to the session, whichever binding is current; the
   status to the binding. *)
Accepted(t) ==
  /\ Answered(t, "ok")
  /\ LET a == th[t]
         version == Max(versions[Key(a)], a.expected + 1)
     IN /\ versions' = [versions EXCEPT ![Key(a)] = version]
        /\ own' = IF a.sid = bind THEN [own EXCEPT ![a.kind] = Max(@, version)] ELSE own
        /\ status' = IF Current(a) THEN [status EXCEPT ![a.kind] = "ok"] ELSE status
  /\ th' = [th EXCEPT ![t].pc = "done"]
  /\ UNCHANGED <<bind, gen, entered, inflight>> /\ UNCHANGED service /\ UNCHANGED bounds

(* finally *)
End(t) ==
  /\ Step(t, "done")
  /\ inflight' = inflight \ {Key(th[t])}
  /\ th' = [th EXCEPT ![t] = Idle]
  /\ UNCHANGED <<bind, gen, entered, status, own, versions>>
  /\ UNCHANGED service /\ UNCHANGED bounds

-----------------------------------------------------------------------------
EnsureSession ==
  /\ ~entered /\ entered' = TRUE
  /\ UNCHANGED <<bind, gen, status, own, versions, inflight, th>>
  /\ UNCHANGED service /\ UNCHANGED bounds

(* Mutant: the versions of the old session's cards are kept. *)
RebindKeepsVersions(s) ==
  /\ s # bind /\ gen <= MaxRebinds
  /\ Fresh(s)
  /\ gen' = gen + 1
  /\ UNCHANGED <<own, versions, inflight, th>> /\ UNCHANGED service /\ UNCHANGED bounds

(* Mutant: what is being sent is forgotten. *)
RebindForgetsInflight(s) ==
  /\ s # bind /\ gen <= MaxRebinds
  /\ Fresh(s)
  /\ gen' = gen + 1
  /\ versions' = [c \in Keys |->
       IF c[1] = bind THEN Max(versions[c], own[c[2]]) ELSE versions[c]]
  /\ own' = [k \in Kinds |-> versions[<<s, k>>]]
  /\ inflight' = {}
  /\ UNCHANGED th /\ UNCHANGED service /\ UNCHANGED bounds

Rebind(s) ==
  /\ s # bind /\ gen <= MaxRebinds
  /\ Fresh(s)
  /\ gen' = gen + 1
  /\ versions' = [c \in Keys |->
       IF c[1] = bind THEN Max(versions[c], own[c[2]]) ELSE versions[c]]
  /\ own' = [k \in Kinds |-> versions[<<s, k>>]]
  /\ UNCHANGED <<inflight, th>> /\ UNCHANGED service /\ UNCHANGED bounds

(* The process ends and the native session is resumed by another: nothing of
   this is persisted.  What was being sent may still arrive. *)
Restart(s) ==
  /\ restarts < MaxRestarts /\ restarts' = restarts + 1
  /\ Fresh(s)
  /\ gen' = gen + 1
  /\ own' = [k \in Kinds |-> 0]
  /\ versions' = [c \in Keys |-> 0]
  /\ inflight' = {}
  /\ wire' = wire \cup {th[t] : t \in {u \in Threads : Step(u, "send")}}
  /\ th' = [t \in Threads |-> Idle]
  /\ UNCHANGED <<svc, shown, taken, clock>>

-----------------------------------------------------------------------------
Work(t) ==
  \/ \E k \in Kinds : Begin(t, k)
  \/ \E objectives \in BOOLEAN : Observe(t, objectives)
  \/ CheckBinding(t)
  \/ Rebase(t) \/ Downgrade(t) \/ Refused(t) \/ Accepted(t) \/ End(t)

Next ==
  \/ \E t \in Threads :
       \/ \E verdict \in Verdicts : Serve(t, verdict)
       \/ Work(t) \/ Transient(t)
  \/ \E a \in wire : LateArrival(a)
  \/ EnsureSession
  \/ \E s \in Sessions : Rebind(s) \/ Restart(s)

Spec == Init /\ [][Next]_vars

-----------------------------------------------------------------------------
(* Properties *)

(* At most one thread sends a card of a session, also after the hook has left
   the session and come back: a second one would meet the first's version. *)
OneSender ==
  \A t, u \in Threads :
    Sending(t) /\ Sending(u) /\ Key(th[t]) = Key(th[u]) => t = u

(* No version the hook remembers is ahead of the service.  A request ahead of
   it is never rebased, so its card would be disabled for good. *)
NeverAhead ==
  /\ \A k \in Kinds : own[k] <= svc[<<bind, k>>]
  /\ \A c \in Keys : versions[c] <= svc[c]

(* A heartbeat delivered late is a lie: what the service shows of a session
   never gives way to something observed before it. *)
NoStaleOverwrite == [][\A c \in Keys : shown'[c] >= shown[c]]_vars

(* A card counts as registered when the service accepted it from this very
   binding, not from one the hook has left. *)
StatusIsEarned == \A k \in Kinds : status[k] = "ok" => <<gen, k>> \in taken

(* A registration never tells one project of another project's queue. *)
OwnQueueOnly ==
  \A a \in wire \cup {th[t] : t \in {u \in Threads : Step(u, "send")}} :
    a.queue \in {a.sid, NoSession}

(* register_agent: "A definite unsupported or forbidden response disables it;
   transient failures allow a fresh observation at the next lifecycle
   boundary". *)
DisabledOnlyIfUnsupported ==
  \A k \in Kinds : status[k] = "unavailable" => k \in Unsupported
=============================================================================
