----------------------------- MODULE CardsProofs -----------------------------
(***************************************************************************)
(* Theorems about Cards, for all sessions, threads, services and bounds.   *)
(***************************************************************************)
EXTENDS Cards, TLAPS

(* What a step of a thread leaves alone of its attempt. *)
Continues(t) ==
  /\ Sending(t)
  /\ th' = [th EXCEPT ![t] = th'[t]]
  /\ th'[t] \in Attempt
  /\ \A field \in {"sid", "kind", "gen", "obs"} : th'[t][field] = th[t][field]

Going(t) ==
  \/ \E objectives \in BOOLEAN : Observe(t, objectives)
  \/ CheckBinding(t)
  \/ \E verdict \in Verdicts : Serve(t, verdict)
  \/ Rebase(t) \/ Downgrade(t) \/ Refused(t) \/ Accepted(t) \/ Transient(t)

-----------------------------------------------------------------------------
LEMMA AttemptAt ==
  ASSUME TypeOK, NEW t \in Threads, Sending(t)
  PROVE  /\ th[t] \in Attempt
         /\ Key(th[t]) \in Keys
         /\ th[t].sid \in Sessions /\ th[t].kind \in Kinds /\ th[t].gen \in Nat
         /\ th[t].obs \in Nat /\ th[t].expected \in Nat /\ th[t].actual \in Nat
  BY DEF TypeOK, Sending, Attempt, Key, Keys

LEMMA MaxNat ==
  ASSUME NEW m \in Nat, NEW n \in Nat
  PROVE  Max(m, n) \in Nat /\ Max(m, n) >= m /\ Max(m, n) >= n
  BY DEF Max

LEMMA AttemptNotIdle == Idle \notin Attempt
  BY DEF Idle, Attempt, Steps

(* Every step of a thread between Begin and End goes on with one attempt. *)
LEMMA GoingContinues ==
  ASSUME TypeOK, NEW t \in Threads, Going(t)
  PROVE  Continues(t)
  <1>1. ASSUME NEW objectives \in BOOLEAN, Observe(t, objectives) PROVE Continues(t)
    <2>1. th[t] \in Attempt BY <1>1, AttemptAt DEF Observe, Step
    <2>2. bind \in Sessions /\ th \in [Threads -> Attempt \cup {Idle}] BY DEF TypeOK
    <2> QED BY <1>1, <2>1, <2>2 DEF Observe, Step, Continues, Attempt, Steps
  <1>2. ASSUME CheckBinding(t) PROVE Continues(t)
    <2>1. th[t] \in Attempt BY <1>2, AttemptAt DEF CheckBinding, Step
    <2>2. th \in [Threads -> Attempt \cup {Idle}] BY DEF TypeOK
    <2> QED BY <1>2, <2>1, <2>2 DEF CheckBinding, Step, Continues, Attempt, Steps
  <1>3. ASSUME NEW verdict \in Verdicts, Serve(t, verdict) PROVE Continues(t)
    <2>1. th[t] \in Attempt /\ Key(th[t]) \in Keys
      BY <1>3, AttemptAt DEF Serve, Step
    <2>2. th \in [Threads -> Attempt \cup {Idle}] /\ svc \in [Keys -> Nat] BY DEF TypeOK
    <2>3. svc[Key(th[t])] \in Nat BY <2>1, <2>2
    <2> QED BY <1>3, <2>1, <2>2, <2>3 DEF Serve, Step, Continues, Attempt, Steps, Verdicts
  <1>4. ASSUME Rebase(t) PROVE Continues(t)
    <2>1. th[t] \in Attempt BY <1>4, AttemptAt DEF Rebase, Answered, Step
    <2>2. th \in [Threads -> Attempt \cup {Idle}] BY DEF TypeOK
    <2> QED BY <1>4, <2>1, <2>2 DEF Rebase, Answered, Step, Continues, Attempt, Steps
  <1>5. ASSUME Downgrade(t) PROVE Continues(t)
    <2>1. th[t] \in Attempt BY <1>5, AttemptAt DEF Downgrade, Answered, Step
    <2>2. th \in [Threads -> Attempt \cup {Idle}] BY DEF TypeOK
    <2> QED BY <1>5, <2>1, <2>2 DEF Downgrade, Answered, Step, Continues, Attempt, Steps
  <1>6. ASSUME Refused(t) \/ Transient(t) \/ Accepted(t) PROVE Continues(t)
    <2>1. th[t] \in Attempt /\ Sending(t)
      BY <1>6, AttemptAt DEF Refused, Transient, Accepted, Answered, Step
    <2>2. th \in [Threads -> Attempt \cup {Idle}] BY DEF TypeOK
    <2>3. th' = [th EXCEPT ![t].pc = "done"]
      BY <1>6 DEF Refused, Transient, Accepted, Fail
    <2> QED BY <2>1, <2>2, <2>3 DEF Continues, Attempt, Steps
  <1> QED BY <1>1, <1>2, <1>3, <1>4, <1>5, <1>6 DEF Going

LEMMA NextSteps ==
  ASSUME Next
  PROVE  \/ \E t \in Threads : \/ \E k \in Kinds : Begin(t, k)
                               \/ Going(t) \/ End(t)
         \/ \E a \in wire : LateArrival(a)
         \/ EnsureSession
         \/ \E s \in Sessions : Rebind(s) \/ Restart(s)
  BY DEF Next, Work, Going

LEMMA ContinuesOthers ==
  ASSUME TypeOK, NEW t \in Threads, Continues(t)
  PROVE  /\ th' \in [Threads -> Attempt \cup {Idle}]
         /\ \A u \in Threads : th'[u] # Idle <=> Sending(u)
         /\ \A u \in Threads : u # t => th'[u] = th[u]
         /\ \A u \in Threads : Sending(u) =>
              /\ Key(th'[u]) = Key(th[u])
              /\ th'[u].obs = th[u].obs
              /\ th'[u].gen = th[u].gen
  BY AttemptNotIdle DEF TypeOK, Continues, Sending, Key

(***************************************************************************)
(* Type correctness                                                        *)
(***************************************************************************)
LEMMA BeginThread ==
  ASSUME TypeOK, NEW t \in Threads, NEW k \in Kinds, Begin(t, k)
  PROVE  /\ th'[t] \in Attempt
         /\ th' = [th EXCEPT ![t] = th'[t]]
         /\ th'[t].sid = bind /\ th'[t].kind = k
         /\ th'[t].gen = gen /\ th'[t].obs = clock + 1
         /\ th'[t].expected = Max(own[k], versions[<<bind, k>>])
         /\ th'[t].actual = 0 /\ th'[t].answer = "none"
         /\ th'[t].pc \in {"observe", "send"} /\ th'[t].queue = NoSession
         /\ own[k] \in Nat /\ versions[<<bind, k>>] \in Nat
  <1> DEFINE version == Max(own[k], versions[<<bind, k>>])
             a == [pc |-> IF k = "agent" THEN "observe" ELSE "send",
                   sid |-> bind, kind |-> k, gen |-> gen, obs |-> clock + 1,
                   start |-> version, expected |-> version, queue |-> NoSession,
                   objectives |-> FALSE, rebase |-> TRUE, answer |-> "none",
                   actual |-> 0]
  <1>1. own[k] \in Nat /\ versions[<<bind, k>>] \in Nat
    BY DEF TypeOK, Keys
  <1>2. version \in Nat
    BY <1>1, MaxNat
  <1>3. th' = [th EXCEPT ![t] = a] /\ th \in [Threads -> Attempt \cup {Idle}]
    BY DEF Begin, TypeOK
  <1>4. th'[t] = a
    BY <1>3
  <1> HIDE DEF version
  <1>5. a \in Attempt
    BY <1>2 DEF TypeOK, Attempt, Steps
  <1>6. /\ a.sid = bind /\ a.kind = k /\ a.gen = gen /\ a.obs = clock + 1
        /\ a.expected = version /\ a.actual = 0 /\ a.answer = "none"
        /\ a.pc \in {"observe", "send"} /\ a.queue = NoSession
    OBVIOUS
  <1> HIDE DEF a
  <1> QED BY <1>1, <1>3, <1>4, <1>5, <1>6 DEF version

LEMMA ServiceTyped ==
  ASSUME TypeOK, NEW a \in Attempt, Take(a)
  PROVE  /\ svc' \in [Keys -> Nat] /\ shown' \in [Keys -> Nat]
         /\ taken' \subseteq Nat \X Kinds
  <1>1. Key(a) \in Keys /\ <<a.gen, a.kind>> \in Nat \X Kinds /\ a.obs \in Nat
    BY DEF Attempt, Key, Keys
  <1>2. /\ svc \in [Keys -> Nat] /\ shown \in [Keys -> Nat]
        /\ taken \subseteq Nat \X Kinds
    BY DEF TypeOK
  <1>3. svc[Key(a)] + 1 \in Nat
    BY <1>1, <1>2
  <1>4. CASE Verdict(a, "ok")
    BY <1>1, <1>2, <1>3, <1>4 DEF Take
  <1>5. CASE ~Verdict(a, "ok")
    BY <1>2, <1>5 DEF Take
  <1> QED BY <1>4, <1>5

LEMMA FreshTyped ==
  ASSUME NEW s \in Sessions, Fresh(s)
  PROVE  /\ bind' \in Sessions /\ entered' \in BOOLEAN
         /\ status' \in [Kinds -> {"none", "pending", "unavailable", "ok"}]
  BY DEF Fresh

(* The outcome of a request is noted without leaving the types. *)
LEMMA GoingTyped ==
  ASSUME TypeOK, NEW t \in Threads, Going(t)
  PROVE  TypeOK'
  <1> USE DEF TypeOK
  <1>0. /\ th[t] \in Attempt /\ Key(th[t]) \in Keys /\ Continues(t)
        /\ th[t].kind \in Kinds /\ th[t].expected \in Nat
        /\ th' \in [Threads -> Attempt \cup {Idle}]
    BY GoingContinues, ContinuesOthers, AttemptAt DEF Continues
  <1>1. CASE UNCHANGED hook /\ UNCHANGED service /\ UNCHANGED bounds
    BY <1>0, <1>1 DEF hook, service, bounds
  <1>2. ASSUME NEW verdict \in Verdicts, Serve(t, verdict) PROVE TypeOK'
    BY <1>0, <1>2, ServiceTyped DEF Serve, hook, bounds
  <1>3. ASSUME NEW outcome \in {"unavailable", "pending"}, Fail(t, outcome)
        PROVE  /\ status' \in [Kinds -> {"none", "pending", "unavailable", "ok"}]
               /\ UNCHANGED <<bind, gen, entered, own, versions, inflight, clock, restarts>>
    BY <1>0, <1>3 DEF Fail, bounds
  <1>4. CASE Refused(t)
    BY <1>0, <1>3, <1>4 DEF Refused, service
  <1>5. CASE Transient(t)
    <2>1. wire' \subseteq Attempt
      BY <1>0, <1>5 DEF Transient
    <2> QED BY <1>0, <1>3, <1>5, <2>1 DEF Transient
  <1>6. CASE Accepted(t)
    <2> DEFINE a == th[t]
               version == Max(versions[Key(a)], a.expected + 1)
    <2>1. version \in Nat
      <3>1. versions[Key(a)] \in Nat /\ a.expected + 1 \in Nat
        BY <1>0
      <3> HIDE DEF a
      <3> QED BY <3>1, MaxNat
    <2>2. own[a.kind] \in Nat
      BY <1>0
    <2>3. Max(own[a.kind], version) \in Nat
      BY <2>1, <2>2, MaxNat
    <2>4. /\ versions' = [versions EXCEPT ![Key(a)] = version]
          /\ own' = IF a.sid = bind
                    THEN [own EXCEPT ![a.kind] = Max(own[a.kind], version)] ELSE own
          /\ status' = IF Current(a) THEN [status EXCEPT ![a.kind] = "ok"] ELSE status
      BY <1>6 DEF Accepted
    <2> HIDE DEF version
    <2>5. versions' \in [Keys -> Nat] /\ own' \in [Kinds -> Nat]
          /\ status' \in [Kinds -> {"none", "pending", "unavailable", "ok"}]
      BY <1>0, <2>1, <2>3, <2>4
    <2> QED BY <1>0, <1>6, <2>5 DEF Accepted, service, bounds
  <1> QED BY <1>1, <1>2, <1>4, <1>5, <1>6
          DEF Going, Observe, CheckBinding, Rebase, Downgrade

LEMMA TypeNext ==
  ASSUME TypeOK, [Next]_vars
  PROVE  TypeOK'
  <1> USE DEF TypeOK
  <1>1. ASSUME NEW t \in Threads, NEW k \in Kinds, Begin(t, k) PROVE TypeOK'
    <2>1. th'[t] \in Attempt /\ th' = [th EXCEPT ![t] = th'[t]]
      BY <1>1, BeginThread
    <2>2. th' \in [Threads -> Attempt \cup {Idle}]
      BY <2>1
    <2> QED BY <1>1, <2>2 DEF Begin, service, Keys
  <1>2. ASSUME NEW t \in Threads, Going(t) PROVE TypeOK'
    BY <1>2, GoingTyped
  <1>3. ASSUME NEW t \in Threads, End(t) PROVE TypeOK'
    BY <1>3 DEF End, service, bounds
  <1>4. ASSUME NEW a \in wire, LateArrival(a) PROVE TypeOK'
    <2>1. a \in Attempt /\ wire' \subseteq Attempt
      BY <1>4 DEF LateArrival
    <2> QED BY <1>4, <2>1, ServiceTyped DEF LateArrival, hook, bounds
  <1>5. CASE EnsureSession
    BY <1>5 DEF EnsureSession, service, bounds
  <1>6. ASSUME NEW s \in Sessions, Rebind(s) PROVE TypeOK'
    <2>1. versions' \in [Keys -> Nat]
      <3>1. ASSUME NEW c \in Keys PROVE Max(versions[c], own[c[2]]) \in Nat
        BY MaxNat DEF Keys
      <3> QED BY <1>6, <3>1 DEF Rebind
    <2>2. own' \in [Kinds -> Nat]
      BY <1>6 DEF Rebind, Keys
    <2>3. Fresh(s) /\ gen' \in Nat
      BY <1>6 DEF Rebind
    <2> QED BY <1>6, <2>1, <2>2, <2>3, FreshTyped DEF Rebind, service, bounds
  <1>7. ASSUME NEW s \in Sessions, Restart(s) PROVE TypeOK'
    <2>1. wire' \subseteq Attempt
      BY <1>7, AttemptAt DEF Restart, Step
    <2>2. Fresh(s) /\ gen' \in Nat /\ restarts' \in Nat
      BY <1>7 DEF Restart
    <2>3. own' \in [Kinds -> Nat] /\ versions' \in [Keys -> Nat]
      BY <1>7 DEF Restart
    <2>4. th' \in [Threads -> Attempt \cup {Idle}]
      BY <1>7 DEF Restart
    <2>5. inflight' \subseteq Keys /\ UNCHANGED <<svc, shown, taken, clock>>
      BY <1>7 DEF Restart
    <2> QED BY <2>1, <2>2, <2>3, <2>4, <2>5, FreshTyped
  <1>8. CASE UNCHANGED vars
    BY <1>8 DEF vars
  <1> QED BY <1>1, <1>2, <1>3, <1>4, <1>5, <1>6, <1>7, <1>8, NextSteps

LEMMA TypeInit == Init => TypeOK
  <1> SUFFICES ASSUME Init PROVE TypeOK
    OBVIOUS
  <1>1. status \in [Kinds -> {"none", "pending", "unavailable", "ok"}]
    BY DEF Init
  <1>2. /\ own \in [Kinds -> Nat] /\ versions \in [Keys -> Nat]
        /\ svc \in [Keys -> Nat] /\ shown \in [Keys -> Nat]
    BY DEF Init
  <1>3. th \in [Threads -> Attempt \cup {Idle}]
    BY DEF Init
  <1> QED BY <1>1, <1>2, <1>3 DEF Init, TypeOK

(* Every variable keeps to its type, whatever the number of sessions and
   threads. *)
THEOREM TypeCorrect == Spec => []TypeOK
  <1>1. TypeOK /\ [Next]_vars => TypeOK'
    BY TypeNext
  <1> QED BY TypeInit, <1>1, PTL DEF Spec

(***************************************************************************)
(* One sender                                                              *)
(***************************************************************************)

(* A card that is being sent is in the set that Begin consults; and since two
   threads never send the same one, End takes out no other thread's. *)
Guarded == \A t \in Threads : Sending(t) => Key(th[t]) \in inflight

SenderInv == OneSender /\ Guarded

LEMMA GoingKeepsInflight ==
  ASSUME NEW t \in Threads, Going(t)
  PROVE  inflight' = inflight
  BY DEF Going, Observe, CheckBinding, Serve, Rebase, Downgrade, Refused,
         Transient, Fail, Accepted, hook

LEMMA SenderNext ==
  ASSUME TypeOK, SenderInv, [Next]_vars
  PROVE  SenderInv'
  <1>1. ASSUME NEW t \in Threads, NEW k \in Kinds, Begin(t, k) PROVE SenderInv'
    <2>1. /\ th[t] = Idle /\ <<bind, k>> \notin inflight
          /\ inflight' = inflight \cup {<<bind, k>>}
      BY <1>1 DEF Begin
    <2>2. /\ Key(th'[t]) = <<bind, k>>
          /\ \A u \in Threads : u # t => th'[u] = th[u]
      BY <1>1, BeginThread DEF Key, TypeOK
    <2> QED BY <2>1, <2>2 DEF SenderInv, OneSender, Guarded, Sending
  <1>2. ASSUME NEW t \in Threads, Going(t) PROVE SenderInv'
    <2>1. /\ \A u \in Threads : th'[u] # Idle <=> Sending(u)
          /\ \A u \in Threads : Sending(u) => Key(th'[u]) = Key(th[u])
          /\ inflight' = inflight
      BY <1>2, GoingContinues, ContinuesOthers, GoingKeepsInflight
    <2> QED BY <2>1 DEF SenderInv, OneSender, Guarded, Sending
  <1>3. ASSUME NEW t \in Threads, End(t) PROVE SenderInv'
    <2>1. /\ Sending(t)
          /\ inflight' = inflight \ {Key(th[t])}
          /\ \A u \in Threads : th'[u] = IF u = t THEN Idle ELSE th[u]
      BY <1>3 DEF End, Step, TypeOK
    <2> QED BY <2>1 DEF SenderInv, OneSender, Guarded, Sending
  <1>4. CASE UNCHANGED <<th, inflight>>
    BY <1>4 DEF SenderInv, OneSender, Guarded, Sending
  <1>5. ASSUME NEW a \in wire, LateArrival(a) PROVE SenderInv'
    BY <1>4, <1>5 DEF LateArrival, hook
  <1>6. ASSUME NEW s \in Sessions, Rebind(s) PROVE SenderInv'
    BY <1>4, <1>6 DEF Rebind
  <1>7. ASSUME NEW s \in Sessions, Restart(s) PROVE SenderInv'
    <2>1. \A u \in Threads : th'[u] = Idle
      BY <1>7 DEF Restart
    <2> QED BY <2>1 DEF SenderInv, OneSender, Guarded, Sending
  <1> QED BY <1>1, <1>2, <1>3, <1>4, <1>5, <1>6, <1>7, NextSteps
          DEF EnsureSession, vars

LEMMA SenderInit == Init => SenderInv
  BY DEF Init, SenderInv, OneSender, Guarded, Sending

(* However the threads, rebind and restarts interleave, no two threads of a
   process send the same card of the same session. *)
THEOREM OneSenderAlways == Spec => []OneSender
  <1>1. TypeOK /\ SenderInv /\ [Next]_vars => SenderInv'
    BY SenderNext
  <1>2. SenderInv => OneSender
    BY DEF SenderInv
  <1> QED BY SenderInit, <1>1, <1>2, TypeCorrect, PTL DEF Spec

(***************************************************************************)
(* Versions                                                                *)
(***************************************************************************)

(* Nor is the version of a request ahead of the service; and one that was
   accepted is behind it. *)
Behind ==
  \A t \in Threads : Sending(t) =>
    /\ th[t].expected <= svc[Key(th[t])]
    /\ th[t].actual <= svc[Key(th[t])]
    /\ th[t].answer = "ok" => th[t].expected < svc[Key(th[t])]

VersionInv == NeverAhead /\ Behind

LEMMA TakeEffect ==
  ASSUME TypeOK, NEW a \in Attempt, Take(a)
  PROVE  /\ Key(a) \in Keys
         /\ \/ UNCHANGED <<svc, shown, taken>> /\ ~Verdict(a, "ok")
            \/ /\ Verdict(a, "ok")
               /\ a.expected = svc[Key(a)] /\ svc'[Key(a)] = svc[Key(a)] + 1
               /\ shown'[Key(a)] = a.obs
               /\ \A c \in Keys : c # Key(a) => svc'[c] = svc[c] /\ shown'[c] = shown[c]
               /\ taken' = taken \cup {<<a.gen, a.kind>>}
  <1>1. Key(a) \in Keys
    BY DEF Attempt, Key, Keys
  <1>2. svc \in [Keys -> Nat] /\ shown \in [Keys -> Nat]
    BY DEF TypeOK
  <1>3. CASE Verdict(a, "ok")
    <2>1. a.expected = svc[Key(a)]
      BY <1>3 DEF Verdict
    <2> QED BY <1>1, <1>2, <1>3, <2>1 DEF Take
  <1>4. CASE ~Verdict(a, "ok")
    BY <1>1, <1>4 DEF Take
  <1> QED BY <1>3, <1>4

(* Nothing the service does takes a version back. *)
LEMMA SvcGrows ==
  ASSUME TypeOK, NEW a \in Attempt, Take(a)
  PROVE  \A c \in Keys : svc'[c] \in Nat /\ svc'[c] >= svc[c]
  BY TakeEffect, ServiceTyped DEF TypeOK

(* So what was behind the service stays so while it serves. *)
LEMMA ServiceKeepsBehind ==
  ASSUME TypeOK, NeverAhead, UNCHANGED <<bind, own, versions>>,
         \A c \in Keys : svc'[c] \in Nat /\ svc'[c] >= svc[c]
  PROVE  NeverAhead'
  <1>1. \A k \in Kinds : <<bind, k>> \in Keys /\ own[k] \in Nat
    BY DEF TypeOK, Keys
  <1>2. \A c \in Keys : versions[c] \in Nat /\ svc[c] \in Nat
    BY DEF TypeOK
  <1> QED BY <1>1, <1>2 DEF NeverAhead

LEMMA BehindLater ==
  ASSUME TypeOK, Behind, NEW u \in Threads, Sending(u),
         \A c \in Keys : svc'[c] \in Nat /\ svc'[c] >= svc[c]
  PROVE  /\ th[u].expected <= svc'[Key(th[u])]
         /\ th[u].actual <= svc'[Key(th[u])]
         /\ th[u].answer = "ok" => th[u].expected < svc'[Key(th[u])]
  <1>1. /\ Key(th[u]) \in Keys /\ th[u].expected \in Nat /\ th[u].actual \in Nat
        /\ svc[Key(th[u])] \in Nat
    BY AttemptAt DEF TypeOK
  <1>2. svc'[Key(th[u])] \in Nat /\ svc'[Key(th[u])] >= svc[Key(th[u])]
    BY <1>1
  <1> QED BY <1>1, <1>2 DEF Behind

(* What one thread does concerns no other thread's request. *)
LEMMA BehindOthers ==
  ASSUME TypeOK, Behind, NEW t \in Threads, Continues(t),
         \A c \in Keys : svc'[c] \in Nat /\ svc'[c] >= svc[c],
         th'[t].expected <= svc'[Key(th[t])],
         th'[t].actual <= svc'[Key(th[t])],
         th'[t].answer = "ok" => th'[t].expected < svc'[Key(th[t])]
  PROVE  Behind'
  <1> SUFFICES ASSUME NEW u \in Threads, Sending(u)'
               PROVE  (/\ th[u].expected <= svc[Key(th[u])]
                       /\ th[u].actual <= svc[Key(th[u])]
                       /\ th[u].answer = "ok" => th[u].expected < svc[Key(th[u])])'
    BY DEF Behind
  <1>1. Sending(u) /\ Key(th'[u]) = Key(th[u])
    BY ContinuesOthers DEF Sending
  <1>2. CASE u = t
    BY <1>1, <1>2 DEF Key
  <1>3. CASE u # t
    <2>1. th'[u] = th[u]
      BY <1>3, ContinuesOthers
    <2> QED BY <1>1, <2>1, BehindLater DEF Key
  <1> QED BY <1>2, <1>3

LEMMA VersionGoing ==
  ASSUME TypeOK, VersionInv, NEW t \in Threads, Going(t)
  PROVE  VersionInv'
  <1>0. /\ th[t] \in Attempt /\ Key(th[t]) \in Keys /\ Continues(t) /\ Sending(t)
        /\ th[t].expected \in Nat /\ th[t].actual \in Nat /\ svc[Key(th[t])] \in Nat
        /\ th \in [Threads -> Attempt \cup {Idle}]
        /\ th[t].expected <= svc[Key(th[t])] /\ th[t].actual <= svc[Key(th[t])]
        /\ th[t].answer = "ok" => th[t].expected < svc[Key(th[t])]
    BY GoingContinues, AttemptAt DEF Continues, TypeOK, VersionInv, Behind
  <1>1. ASSUME svc' = svc,
               th'[t].expected \in {th[t].expected, th[t].actual},
               th'[t].actual \in {0, th[t].actual},
               \/ th'[t].answer = "none"
               \/ th'[t].answer = th[t].answer /\ th'[t].expected = th[t].expected
        PROVE  Behind'
    <2>1. \A c \in Keys : svc'[c] \in Nat /\ svc'[c] >= svc[c]
      BY <1>1 DEF TypeOK
    <2> QED BY <1>0, <1>1, <2>1, BehindOthers DEF VersionInv
  <1>2. ASSUME UNCHANGED <<bind, own, versions, svc>> PROVE NeverAhead'
    BY <1>2 DEF VersionInv, NeverAhead
  <1>3. ASSUME th' = [th EXCEPT ![t].pc = "done"], svc' = svc PROVE Behind'
    <2>1. /\ th'[t].expected = th[t].expected /\ th'[t].actual = th[t].actual
          /\ th'[t].answer = th[t].answer
      BY <1>0, <1>3 DEF Attempt
    <2> QED BY <1>1, <1>3, <2>1
  <1>4. ASSUME NEW objectives \in BOOLEAN, Observe(t, objectives) PROVE VersionInv'
    <2>1. /\ th'[t].expected = th[t].expected /\ th'[t].actual = th[t].actual
          /\ th'[t].answer = th[t].answer
      BY <1>0, <1>4 DEF Observe, Attempt
    <2> QED BY <1>1, <1>2, <1>4, <2>1 DEF Observe, VersionInv, hook, service
  <1>5. CASE CheckBinding(t)
    <2>1. /\ th'[t].expected = th[t].expected /\ th'[t].actual = th[t].actual
          /\ th'[t].answer = th[t].answer
      BY <1>0, <1>5 DEF CheckBinding, Attempt
    <2> QED BY <1>1, <1>2, <1>5, <2>1 DEF CheckBinding, VersionInv, hook, service
  <1>6. CASE Rebase(t)
    <2>1. /\ th'[t].expected = th[t].actual /\ th'[t].actual = 0
          /\ th'[t].answer = "none"
      BY <1>0, <1>6 DEF Rebase, Attempt
    <2> QED BY <1>1, <1>2, <1>6, <2>1 DEF Rebase, VersionInv, hook, service
  <1>7. CASE Downgrade(t)
    <2>1. /\ th'[t].expected = th[t].expected /\ th'[t].actual = 0
          /\ th'[t].answer = "none"
      BY <1>0, <1>7 DEF Downgrade, Attempt
    <2> QED BY <1>1, <1>2, <1>7, <2>1 DEF Downgrade, VersionInv, hook, service
  <1>8. CASE Refused(t) \/ Transient(t)
    <2>1. /\ th' = [th EXCEPT ![t].pc = "done"]
          /\ UNCHANGED <<bind, own, versions, svc>>
      BY <1>8 DEF Refused, Transient, Fail, service
    <2> QED BY <1>2, <1>3, <2>1 DEF VersionInv
  <1>9. ASSUME NEW verdict \in Verdicts, Serve(t, verdict) PROVE VersionInv'
    <2>1. Take(th[t]) /\ UNCHANGED <<bind, own, versions>> /\ Verdict(th[t], verdict)
      BY <1>9 DEF Serve, hook
    <2>2. \A c \in Keys : svc'[c] \in Nat /\ svc'[c] >= svc[c]
      BY <1>0, <2>1, SvcGrows
    <2>3. /\ th'[t].expected = th[t].expected /\ th'[t].actual = svc[Key(th[t])]
          /\ th'[t].answer = verdict
      BY <1>0, <1>9 DEF Serve, Attempt
    <2>4. verdict = "ok" => svc'[Key(th[t])] = th[t].expected + 1
      BY <1>0, <2>1, TakeEffect
    <2>5. Behind'
      BY <1>0, <2>2, <2>3, <2>4, BehindOthers DEF VersionInv
    <2> QED BY <2>1, <2>2, <2>5, ServiceKeepsBehind DEF VersionInv
  <1>10. CASE Accepted(t)
    <2> DEFINE a == th[t]
               version == Max(versions[Key(a)], a.expected + 1)
    <2>1. /\ versions' = [versions EXCEPT ![Key(a)] = version]
          /\ own' = IF a.sid = bind
                    THEN [own EXCEPT ![a.kind] = Max(own[a.kind], version)] ELSE own
          /\ UNCHANGED <<bind, svc>> /\ a.answer = "ok"
          /\ th' = [th EXCEPT ![t].pc = "done"]
      BY <1>10 DEF Accepted, Answered, service
    <2>2. versions[Key(a)] \in Nat /\ versions[Key(a)] <= svc[Key(a)]
      BY <1>0 DEF TypeOK, VersionInv, NeverAhead
    <2>3. version \in Nat /\ version <= svc[Key(a)]
      BY <1>0, <2>1, <2>2 DEF Max
    <2>4. a.kind \in Kinds /\ own[a.kind] \in Nat /\ own[a.kind] <= svc[<<bind, a.kind>>]
      BY <1>0, AttemptAt DEF TypeOK, VersionInv, NeverAhead
    <2> HIDE DEF version
    <2>5. a.sid = bind => Max(own[a.kind], version) <= svc[<<bind, a.kind>>]
      BY <2>3, <2>4 DEF Max, Key
    <2> HIDE DEF a
    <2>6. NeverAhead'
      <3>1. \A c \in Keys : versions'[c] <= svc[c]
        BY <1>0, <2>1, <2>3 DEF TypeOK, VersionInv, NeverAhead, a
      <3>2. \A k \in Kinds : own'[k] <= svc[<<bind, k>>]
        BY <2>1, <2>4, <2>5 DEF TypeOK, VersionInv, NeverAhead
      <3> QED BY <2>1, <3>1, <3>2 DEF NeverAhead
    <2> QED BY <1>3, <2>1, <2>6 DEF VersionInv
  <1> QED BY <1>4, <1>5, <1>6, <1>7, <1>8, <1>9, <1>10 DEF Going

LEMMA VersionNext ==
  ASSUME TypeOK, VersionInv, [Next]_vars
  PROVE  VersionInv'
  <1>1. ASSUME NEW t \in Threads, NEW k \in Kinds, Begin(t, k) PROVE VersionInv'
    <2>1. UNCHANGED <<bind, own, versions, svc>>
      BY <1>1 DEF Begin, service
    <2>2. NeverAhead'
      BY <2>1 DEF VersionInv, NeverAhead
    <2>3. \A u \in Threads : u # t => th'[u] = th[u]
      BY <1>1, BeginThread DEF TypeOK
    <2>4. Key(th'[t]) = <<bind, k>> /\ Key(th'[t]) \in Keys
      BY <1>1, BeginThread DEF Key, Keys, TypeOK
    <2>5. /\ own[k] \in Nat /\ own[k] <= svc[<<bind, k>>]
          /\ versions[<<bind, k>>] \in Nat /\ versions[<<bind, k>>] <= svc[<<bind, k>>]
          /\ svc[<<bind, k>>] \in Nat
      BY <1>1, <2>4, BeginThread DEF VersionInv, NeverAhead, TypeOK, Keys
    <2>6. /\ th'[t].expected <= svc[Key(th'[t])] /\ th'[t].actual <= svc[Key(th'[t])]
          /\ th'[t].answer # "ok"
      BY <1>1, <2>4, <2>5, BeginThread DEF Max
    <2>7. Behind'
      BY <2>1, <2>3, <2>6 DEF VersionInv, Behind, Sending, Key
    <2> QED BY <2>2, <2>7 DEF VersionInv
  <1>2. ASSUME NEW t \in Threads, Going(t) PROVE VersionInv'
    BY <1>2, VersionGoing
  <1>3. ASSUME NEW t \in Threads, End(t) PROVE VersionInv'
    <2>1. UNCHANGED <<bind, own, versions, svc>>
      BY <1>3 DEF End, service
    <2>2. \A u \in Threads : th'[u] = IF u = t THEN Idle ELSE th[u]
      BY <1>3 DEF End, TypeOK
    <2> QED BY <2>1, <2>2 DEF VersionInv, NeverAhead, Behind, Sending, Key
  <1>4. ASSUME NEW a \in wire, LateArrival(a) PROVE VersionInv'
    <2>1. Take(a) /\ a \in Attempt /\ UNCHANGED <<bind, own, versions, th>>
      BY <1>4 DEF LateArrival, hook, TypeOK
    <2>2. \A c \in Keys : svc'[c] \in Nat /\ svc'[c] >= svc[c]
      BY <2>1, SvcGrows
    <2>3. Behind'
      BY <2>1, <2>2, BehindLater DEF VersionInv, Behind, Sending, Key
    <2> QED BY <2>1, <2>2, <2>3, ServiceKeepsBehind DEF VersionInv
  <1>5. CASE UNCHANGED <<bind, own, versions, svc, th>>
    BY <1>5 DEF VersionInv, NeverAhead, Behind, Sending, Key
  <1>6. ASSUME NEW s \in Sessions, Rebind(s) PROVE VersionInv'
    <2>1. /\ versions' = [c \in Keys |->
               IF c[1] = bind THEN Max(versions[c], own[c[2]]) ELSE versions[c]]
          /\ own' = [k \in Kinds |-> versions[<<s, k>>]]
          /\ bind' = s /\ UNCHANGED <<svc, th>>
      BY <1>6 DEF Rebind, Fresh, service
    <2>2. ASSUME NEW c \in Keys PROVE versions'[c] <= svc[c]
      <3>1. /\ versions[c] \in Nat /\ svc[c] \in Nat /\ versions[c] <= svc[c]
            /\ c[2] \in Kinds /\ own[c[2]] \in Nat
            /\ c[1] = bind => c = <<bind, c[2]>>
        BY DEF TypeOK, Keys, VersionInv, NeverAhead
      <3>2. c[1] = bind => own[c[2]] <= svc[c]
        BY <3>1 DEF VersionInv, NeverAhead
      <3> QED BY <2>1, <3>1, <3>2 DEF Max
    <2>3. ASSUME NEW k \in Kinds PROVE own'[k] <= svc[<<s, k>>]
      BY <2>1 DEF VersionInv, NeverAhead, Keys
    <2>4. NeverAhead'
      BY <2>1, <2>2, <2>3 DEF NeverAhead
    <2>5. Behind'
      BY <2>1 DEF VersionInv, Behind, Sending, Key
    <2> QED BY <2>4, <2>5 DEF VersionInv
  <1>7. ASSUME NEW s \in Sessions, Restart(s) PROVE VersionInv'
    <2>1. /\ \A k \in Kinds : own'[k] = 0
          /\ \A c \in Keys : versions'[c] = 0 /\ svc[c] \in Nat
          /\ \A u \in Threads : th'[u] = Idle
          /\ bind' = s /\ svc' = svc
      BY <1>7 DEF Restart, Fresh, TypeOK
    <2>2. \A k \in Kinds : <<s, k>> \in Keys
      BY DEF Keys
    <2> QED BY <2>1, <2>2 DEF VersionInv, NeverAhead, Behind, Sending
  <1> QED BY <1>1, <1>2, <1>3, <1>4, <1>5, <1>6, <1>7, NextSteps
          DEF EnsureSession, service, vars

LEMMA VersionInit == Init => VersionInv
  BY DEF Init, VersionInv, NeverAhead, Behind, Sending, Keys

(* The versions the hook remembers, of the bound session and of those it left,
   are never ahead of the service's. *)
THEOREM NeverAheadAlways == Spec => []NeverAhead
  <1>1. TypeOK /\ VersionInv /\ [Next]_vars => VersionInv'
    BY VersionNext
  <1>2. VersionInv => NeverAhead
    BY DEF VersionInv
  <1> QED BY VersionInit, <1>1, <1>2, TypeCorrect, PTL DEF Spec

(***************************************************************************)
(* Observations                                                            *)
(***************************************************************************)

(* What a thread is about to show is the newest observation of its card: one
   that was abandoned is older, and succeeds only if nothing newer did. *)
Newest ==
  /\ \A c \in Keys : shown[c] <= clock
  /\ \A t \in Threads : Sending(t) =>
       th[t].obs <= clock /\ shown[Key(th[t])] <= th[t].obs
  /\ \A a \in wire :
       /\ a.obs <= clock /\ a.expected <= svc[Key(a)]
       /\ a.expected = svc[Key(a)] => shown[Key(a)] <= a.obs
       /\ \A t \in Threads : Sending(t) /\ Key(th[t]) = Key(a) => a.obs <= th[t].obs

(* A step of a thread that shows nothing: at most its request is abandoned. *)
LEMMA NewestQuiet ==
  ASSUME TypeOK, Newest, NEW t \in Threads, Continues(t),
         UNCHANGED <<svc, shown, clock>>,
         \/ wire' = wire
         \/ wire' = wire \cup {th[t]} /\ OneSender /\ Behind
  PROVE  Newest'
  <1>1. \A u \in Threads :
          /\ Sending(u)' <=> Sending(u)
          /\ Sending(u) => Key(th'[u]) = Key(th[u]) /\ th'[u].obs = th[u].obs
    BY ContinuesOthers DEF Sending
  <1>2. \A c \in Keys : shown'[c] <= clock'
    BY DEF Newest
  <1>3. \A u \in Threads : Sending(u)' =>
          th'[u].obs <= clock' /\ shown'[Key(th'[u])] <= th'[u].obs
    BY <1>1 DEF Newest
  <1>4. ASSUME NEW a \in wire
        PROVE  /\ a.obs <= clock' /\ a.expected <= svc'[Key(a)]
               /\ a.expected = svc'[Key(a)] => shown'[Key(a)] <= a.obs
               /\ \A u \in Threads :
                    Sending(u)' /\ Key(th'[u]) = Key(a) => a.obs <= th'[u].obs
    BY <1>1 DEF Newest
  <1>5. ASSUME OneSender, Behind
        PROVE  /\ th[t].obs <= clock' /\ th[t].expected <= svc'[Key(th[t])]
               /\ shown'[Key(th[t])] <= th[t].obs
               /\ \A u \in Threads :
                    Sending(u)' /\ Key(th'[u]) = Key(th[t]) => th[t].obs <= th'[u].obs
    <2>1. Sending(t) /\ th[t].obs \in Nat
      BY AttemptAt DEF Continues
    <2>2. \A u \in Threads : Sending(u)' /\ Key(th'[u]) = Key(th[t]) => u = t
      BY <1>1, <1>5, <2>1 DEF OneSender
    <2> QED BY <1>1, <1>5, <2>1, <2>2 DEF Newest, Behind
  <1>6. \A a \in wire' :
          /\ a.obs <= clock' /\ a.expected <= svc'[Key(a)]
          /\ a.expected = svc'[Key(a)] => shown'[Key(a)] <= a.obs
          /\ \A u \in Threads :
               Sending(u)' /\ Key(th'[u]) = Key(a) => a.obs <= th'[u].obs
    BY <1>4, <1>5
  <1> QED BY <1>2, <1>3, <1>6 DEF Newest, Key

(* The service takes a request that no abandoned one and no thread's precedes. *)
LEMMA NewestTake ==
  ASSUME TypeOK, Newest, NEW a \in Attempt, Take(a), clock' = clock,
         wire' \subseteq wire,
         a.obs <= clock,
         a.expected = svc[Key(a)] => shown[Key(a)] <= a.obs,
         \A u \in Threads :
           /\ Sending(u)' <=> Sending(u)
           /\ Sending(u) => Key(th'[u]) = Key(th[u]) /\ th'[u].obs = th[u].obs
           /\ Sending(u) /\ Key(th[u]) = Key(a) => a.obs <= th[u].obs
  PROVE  /\ Newest'
         /\ \A c \in Keys : shown'[c] >= shown[c]
  <1>1. CASE UNCHANGED <<svc, shown>>
    <2>1. \A c \in Keys : shown'[c] >= shown[c]
      BY <1>1 DEF TypeOK
    <2> QED BY <1>1, <2>1 DEF Newest, Key
  <1>2. ASSUME /\ a.expected = svc[Key(a)] /\ svc'[Key(a)] = svc[Key(a)] + 1
               /\ shown'[Key(a)] = a.obs
               /\ \A c \in Keys : c # Key(a) => svc'[c] = svc[c] /\ shown'[c] = shown[c]
        PROVE  /\ Newest'
               /\ \A c \in Keys : shown'[c] >= shown[c]
    <2>0. /\ Key(a) \in Keys /\ a.obs \in Nat /\ a.expected \in Nat
          /\ \A c \in Keys : shown[c] \in Nat /\ svc[c] \in Nat
      BY TakeEffect DEF Attempt, TypeOK
    <2>1. \A c \in Keys : shown'[c] <= clock' /\ shown'[c] >= shown[c]
      BY <1>2, <2>0 DEF Newest
    <2>2. \A u \in Threads : Sending(u)' =>
            th'[u].obs <= clock' /\ shown'[Key(th'[u])] <= th'[u].obs
      BY <1>2, <2>0, AttemptAt DEF Newest
    <2>3. ASSUME NEW b \in wire
          PROVE  /\ b.obs <= clock' /\ b.expected <= svc'[Key(b)]
                 /\ b.expected = svc'[Key(b)] => shown'[Key(b)] <= b.obs
      <3>1. /\ Key(b) \in Keys /\ b.expected \in Nat /\ b.expected <= svc[Key(b)]
            /\ b.obs <= clock
            /\ b.expected = svc[Key(b)] => shown[Key(b)] <= b.obs
        BY DEF TypeOK, Attempt, Key, Keys, Newest
      <3>2. CASE Key(b) = Key(a)
        BY <1>2, <2>0, <3>1, <3>2
      <3>3. CASE Key(b) # Key(a)
        BY <1>2, <3>1, <3>3
      <3> QED BY <3>2, <3>3
    <2>4. \A b \in wire, u \in Threads :
            Sending(u)' /\ Key(th'[u]) = Key(b) => b.obs <= th'[u].obs
      BY DEF Newest
    <2> QED BY <2>1, <2>2, <2>3, <2>4 DEF Newest, Key
  <1> QED BY <1>1, <1>2, TakeEffect

ObservationInv == SenderInv /\ VersionInv /\ Newest

LEMMA NewestGoing ==
  ASSUME TypeOK, ObservationInv, NEW t \in Threads, Going(t)
  PROVE  /\ Newest'
         /\ \A c \in Keys : shown'[c] >= shown[c]
  <1>1. Continues(t) /\ Sending(t) /\ th[t] \in Attempt
    BY GoingContinues, AttemptAt DEF Continues
  <1>2. CASE \E verdict \in Verdicts : Serve(t, verdict)
    <2>1. Take(th[t]) /\ clock' = clock /\ wire' = wire
      BY <1>2 DEF Serve, bounds
    <2>2. /\ th[t].obs \in Nat /\ th[t].obs <= clock
          /\ shown[Key(th[t])] <= th[t].obs
      BY <1>1, AttemptAt DEF ObservationInv, Newest
    <2>3. \A u \in Threads : Sending(u) /\ Key(th[u]) = Key(th[t]) => u = t
      BY <1>1 DEF ObservationInv, SenderInv, OneSender
    <2>4. \A u \in Threads :
            /\ Sending(u)' <=> Sending(u)
            /\ Sending(u) => Key(th'[u]) = Key(th[u]) /\ th'[u].obs = th[u].obs
      BY <1>1, ContinuesOthers DEF Sending
    <2> QED BY <1>1, <2>1, <2>2, <2>3, <2>4, NewestTake DEF ObservationInv
  <1>3. CASE ~ \E verdict \in Verdicts : Serve(t, verdict)
    <2>1. /\ UNCHANGED <<svc, shown, clock>>
          /\ wire' = wire \/ wire' = wire \cup {th[t]}
      BY <1>3 DEF Going, Observe, CheckBinding, Rebase, Downgrade, Refused,
                  Transient, Fail, Accepted, service, bounds
    <2>2. Newest'
      BY <1>1, <2>1, NewestQuiet DEF ObservationInv, SenderInv, VersionInv
    <2> QED BY <2>1, <2>2 DEF TypeOK
  <1> QED BY <1>2, <1>3

LEMMA NewestNext ==
  ASSUME TypeOK, ObservationInv, [Next]_vars
  PROVE  /\ Newest'
         /\ \A c \in Keys : shown'[c] >= shown[c]
  <1>0. \A c \in Keys : shown[c] \in Nat
    BY DEF TypeOK
  <1>1. ASSUME NEW t \in Threads, NEW k \in Kinds, Begin(t, k)
        PROVE  Newest' /\ shown' = shown
    <2>1. UNCHANGED <<svc, shown, wire>> /\ clock' = clock + 1 /\ clock \in Nat
      BY <1>1 DEF Begin, service, TypeOK
    <2>2. \A u \in Threads : u # t => th'[u] = th[u]
      BY <1>1, BeginThread DEF TypeOK
    <2>3. th'[t].obs = clock + 1 /\ Key(th'[t]) \in Keys
      BY <1>1, BeginThread DEF Key, Keys, TypeOK
    <2>4. \A c \in Keys : shown'[c] <= clock'
      BY <1>0, <2>1 DEF ObservationInv, Newest
    <2>5. \A u \in Threads : Sending(u)' =>
            th'[u].obs <= clock' /\ shown'[Key(th'[u])] <= th'[u].obs
      <3>1. ASSUME NEW u \in Threads, u # t, Sending(u)'
            PROVE  th'[u].obs <= clock' /\ shown'[Key(th'[u])] <= th'[u].obs
        BY <2>1, <2>2, <3>1, AttemptAt DEF ObservationInv, Newest, Sending
      <3> QED BY <2>1, <2>3, <2>4, <3>1
    <2>6. ASSUME NEW a \in wire
          PROVE  /\ a.obs <= clock' /\ a.expected <= svc'[Key(a)]
                 /\ a.expected = svc'[Key(a)] => shown'[Key(a)] <= a.obs
                 /\ \A u \in Threads :
                      Sending(u)' /\ Key(th'[u]) = Key(a) => a.obs <= th'[u].obs
      <3>1. a.obs \in Nat /\ a.obs <= clock
        BY DEF TypeOK, Attempt, ObservationInv, Newest
      <3>2. \A u \in Threads : u # t /\ Sending(u)' /\ Key(th'[u]) = Key(a)
              => a.obs <= th'[u].obs
        BY <2>2 DEF ObservationInv, Newest, Sending
      <3> QED BY <2>1, <2>3, <3>1, <3>2 DEF ObservationInv, Newest
    <2> QED BY <2>1, <2>4, <2>5, <2>6 DEF Newest, Key
  <1>2. ASSUME NEW t \in Threads, Going(t)
        PROVE  Newest' /\ \A c \in Keys : shown'[c] >= shown[c]
    BY <1>2, NewestGoing
  <1>3. ASSUME NEW t \in Threads, End(t)
        PROVE  Newest' /\ shown' = shown
    <2>1. UNCHANGED <<svc, shown, wire, clock>>
      BY <1>3 DEF End, service, bounds
    <2>2. \A u \in Threads : th'[u] = IF u = t THEN Idle ELSE th[u]
      BY <1>3 DEF End, TypeOK
    <2> QED BY <2>1, <2>2 DEF ObservationInv, Newest, Sending, Key
  <1>4. ASSUME NEW a \in wire, LateArrival(a)
        PROVE  Newest' /\ \A c \in Keys : shown'[c] >= shown[c]
    <2>1. /\ Take(a) /\ a \in Attempt /\ wire' \subseteq wire
          /\ th' = th /\ clock' = clock
      BY <1>4 DEF LateArrival, hook, bounds, TypeOK
    <2>2. Newest
      BY DEF ObservationInv
    <2>3. /\ a.obs <= clock
          /\ a.expected = svc[Key(a)] => shown[Key(a)] <= a.obs
          /\ \A u \in Threads : Sending(u) /\ Key(th[u]) = Key(a) => a.obs <= th[u].obs
      BY <2>2 DEF Newest
    <2>4. \A u \in Threads : Sending(u)' <=> Sending(u)
      BY <2>1 DEF Sending
    <2> QED BY <2>1, <2>2, <2>3, <2>4, NewestTake
  <1>5. ASSUME UNCHANGED <<svc, shown, wire, clock, th>>
        PROVE  Newest' /\ shown' = shown
    <2>1. Newest
      BY DEF ObservationInv
    <2>2. Newest'
      BY <1>5, <2>1 DEF Newest, Sending, Key
    <2> QED BY <1>5, <2>2
  <1>6. ASSUME NEW s \in Sessions, Rebind(s)
        PROVE  Newest' /\ shown' = shown
    BY <1>5, <1>6 DEF Rebind, service, bounds
  <1>7. ASSUME NEW s \in Sessions, Restart(s)
        PROVE  Newest' /\ shown' = shown
    <2>1. /\ UNCHANGED <<svc, shown, clock>>
          /\ wire' = wire \cup {th[t] : t \in {u \in Threads : Step(u, "send")}}
          /\ \A u \in Threads : th'[u] = Idle
      BY <1>7 DEF Restart
    <2>2. ASSUME NEW a \in wire'
          PROVE  /\ a.obs <= clock /\ a.expected <= svc[Key(a)]
                 /\ a.expected = svc[Key(a)] => shown[Key(a)] <= a.obs
      <3>1. CASE a \in wire
        BY <3>1 DEF ObservationInv, Newest
      <3>2. ASSUME NEW u \in Threads, Sending(u), a = th[u]
            PROVE  /\ a.obs <= clock /\ a.expected <= svc[Key(a)]
                   /\ shown[Key(a)] <= a.obs
        BY <3>2 DEF ObservationInv, Newest, VersionInv, Behind
      <3> QED BY <2>1, <2>2, <3>1, <3>2 DEF Step
    <2> QED BY <2>1, <2>2 DEF ObservationInv, Newest, Sending, Key
  <1>8. ASSUME EnsureSession \/ UNCHANGED vars
        PROVE  Newest' /\ shown' = shown
    BY <1>5, <1>8 DEF EnsureSession, service, bounds, vars
  <1>9. shown' = shown => \A c \in Keys : shown'[c] >= shown[c]
    BY <1>0
  <1> QED BY <1>1, <1>2, <1>3, <1>4, <1>6, <1>7, <1>8, <1>9, NextSteps

LEMMA NewestInit == Init => Newest
  BY DEF Init, Newest, Sending, Keys

(* A card observed earlier never replaces one observed later, however requests
   are lost, delayed, rebased, or taken up by another process. *)
THEOREM NoStaleOverwriteAlways == Spec => NoStaleOverwrite
  <1>1. TypeOK /\ ObservationInv /\ [Next]_vars => ObservationInv'
    BY SenderNext, VersionNext, NewestNext DEF ObservationInv
  <1>2. TypeOK /\ ObservationInv /\ [Next]_vars
        => [\A c \in Keys : shown'[c] >= shown[c]]_vars
    BY NewestNext
  <1>3. Init => ObservationInv
    BY SenderInit, VersionInit, NewestInit DEF ObservationInv
  <1> QED BY <1>1, <1>2, <1>3, TypeCorrect, PTL DEF Spec, NoStaleOverwrite

(***************************************************************************)
(* Statuses and queues                                                     *)
(***************************************************************************)

(* The binding an attempt began with is no later than the present one. An
   accepted attempt was accepted for its binding; one whose queue has been
   checked describes its own project's, and one that is about to be checked
   describes the queue of the binding, if that has not changed. *)
Bound ==
  \A t \in Threads : Sending(t) =>
    /\ th[t].gen <= gen
    /\ th[t].answer = "ok" => <<th[t].gen, th[t].kind>> \in taken
    /\ th[t].pc = "check" /\ Current(th[t]) => th[t].queue = th[t].sid
    /\ th[t].pc \in {"send", "answered"} => th[t].queue \in {th[t].sid, NoSession}

BoundInv ==
  /\ StatusIsEarned /\ Bound
  /\ \A a \in wire : a.queue \in {a.sid, NoSession}

LEMMA EarnedLater ==
  ASSUME StatusIsEarned, taken \subseteq taken', UNCHANGED <<gen, status>>
  PROVE  StatusIsEarned'
  BY DEF StatusIsEarned

(* What one thread does concerns no other thread's attempt. *)
LEMMA BoundOthers ==
  ASSUME TypeOK, Bound, NEW t \in Threads, Continues(t),
         UNCHANGED <<bind, gen>>, taken \subseteq taken',
         th'[t].answer = "ok" => <<th[t].gen, th[t].kind>> \in taken',
         th'[t].pc = "check" /\ Current(th[t]) => th'[t].queue = th[t].sid,
         th'[t].pc \in {"send", "answered"} => th'[t].queue \in {th[t].sid, NoSession}
  PROVE  Bound'
  <1> SUFFICES ASSUME NEW u \in Threads, Sending(u)'
        PROVE  (/\ th[u].gen <= gen
                /\ th[u].answer = "ok" => <<th[u].gen, th[u].kind>> \in taken
                /\ th[u].pc = "check" /\ Current(th[u]) => th[u].queue = th[u].sid
                /\ th[u].pc \in {"send", "answered"} =>
                     th[u].queue \in {th[u].sid, NoSession})'
    BY DEF Bound
  <1>1. Sending(u)
    BY ContinuesOthers DEF Sending
  <1>2. CASE u = t
    <2>1. /\ th'[t].sid = th[t].sid /\ th'[t].kind = th[t].kind
          /\ th'[t].gen = th[t].gen
      BY DEF Continues
    <2> QED BY <1>1, <1>2, <2>1 DEF Bound, Current
  <1>3. CASE u # t
    <2>1. th'[u] = th[u]
      BY <1>3, ContinuesOthers
    <2> QED BY <1>1, <2>1 DEF Bound, Current
  <1> QED BY <1>2, <1>3

LEMMA BoundGoing ==
  ASSUME TypeOK, BoundInv, NEW t \in Threads, Going(t)
  PROVE  BoundInv'
  <1>0. /\ th[t] \in Attempt /\ Continues(t) /\ Sending(t)
        /\ th \in [Threads -> Attempt \cup {Idle}]
        /\ th[t].answer = "ok" => <<th[t].gen, th[t].kind>> \in taken
        /\ th[t].pc = "check" /\ Current(th[t]) => th[t].queue = th[t].sid
        /\ th[t].pc \in {"send", "answered"} => th[t].queue \in {th[t].sid, NoSession}
    BY GoingContinues, AttemptAt DEF Continues, TypeOK, BoundInv, Bound
  <1>1. ASSUME th'[t].pc = "done", th'[t].answer = th[t].answer,
               UNCHANGED <<bind, gen>>, taken' = taken
        PROVE  Bound'
    BY <1>0, <1>1, BoundOthers DEF BoundInv
  <1>2. ASSUME NEW objectives \in BOOLEAN, Observe(t, objectives) PROVE BoundInv'
    <2>1. /\ th'[t].answer = th[t].answer /\ th'[t].pc = "check"
          /\ th'[t].queue = bind
      BY <1>0, <1>2 DEF Observe, Attempt
    <2>2. UNCHANGED <<bind, gen, taken, wire, status>>
      BY <1>2 DEF Observe, hook, service
    <2>3. Bound'
      BY <1>0, <2>1, <2>2, BoundOthers DEF BoundInv, Current
    <2> QED BY <2>2, <2>3, EarnedLater DEF BoundInv
  <1>3. CASE CheckBinding(t)
    <2>1. /\ th'[t].answer = th[t].answer /\ th'[t].queue = th[t].queue
          /\ th[t].pc = "check"
          /\ th'[t].pc = IF Current(th[t]) THEN "send" ELSE "done"
      BY <1>0, <1>3 DEF CheckBinding, Step, Attempt
    <2>2. UNCHANGED <<bind, gen, taken, wire, status>>
      BY <1>3 DEF CheckBinding, hook, service
    <2>3. Bound'
      BY <1>0, <2>1, <2>2, BoundOthers DEF BoundInv
    <2> QED BY <2>2, <2>3, EarnedLater DEF BoundInv
  <1>4. ASSUME NEW verdict \in Verdicts, Serve(t, verdict) PROVE BoundInv'
    <2>1. /\ th'[t].answer = verdict /\ th'[t].queue = th[t].queue
          /\ th[t].pc = "send" /\ th'[t].pc = "answered"
      BY <1>0, <1>4 DEF Serve, Step, Attempt
    <2>2. /\ UNCHANGED <<bind, gen, wire, status>> /\ taken \subseteq taken'
          /\ verdict = "ok" => <<th[t].gen, th[t].kind>> \in taken'
      BY <1>4 DEF Serve, Take, hook
    <2>3. Bound'
      BY <1>0, <2>1, <2>2, BoundOthers DEF BoundInv
    <2> QED BY <2>2, <2>3, EarnedLater DEF BoundInv
  <1>5. CASE Rebase(t) \/ Downgrade(t)
    <2>1. /\ th'[t].answer = "none" /\ th'[t].queue = th[t].queue
          /\ th[t].pc = "answered" /\ th'[t].pc = "send"
      <3>1. CASE Rebase(t)
        BY <1>0, <3>1 DEF Rebase, Answered, Step, Attempt
      <3>2. CASE Downgrade(t)
        BY <1>0, <3>2 DEF Downgrade, Answered, Step, Attempt
      <3> QED BY <1>5, <3>1, <3>2
    <2>2. UNCHANGED <<bind, gen, taken, wire, status>>
      BY <1>5 DEF Rebase, Downgrade, hook, service
    <2>3. Bound'
      BY <1>0, <2>1, <2>2, BoundOthers DEF BoundInv
    <2> QED BY <2>2, <2>3, EarnedLater DEF BoundInv
  <1>6. CASE Refused(t) \/ Transient(t)
    <2>1. /\ th'[t].pc = "done" /\ th'[t].answer = th[t].answer
          /\ UNCHANGED <<bind, gen, taken>>
      <3>1. /\ th' = [th EXCEPT ![t].pc = "done"]
            /\ UNCHANGED <<bind, gen, taken>>
        BY <1>6 DEF Refused, Transient, Fail, service
      <3> QED BY <1>0, <3>1 DEF Attempt
    <2>2. wire' = wire \/ (th[t].pc = "send" /\ wire' = wire \cup {th[t]})
      BY <1>6 DEF Refused, Transient, Step, service
    <2>3. StatusIsEarned'
      <3>1. \E outcome \in {"unavailable", "pending"} :
              status' = IF Current(th[t])
                        THEN [status EXCEPT ![th[t].kind] = outcome] ELSE status
        BY <1>6 DEF Refused, Transient, Fail
      <3>2. \A k \in Kinds : status'[k] = "ok" => status[k] = "ok"
        BY <1>0, <3>1 DEF TypeOK
      <3> QED BY <2>1, <3>2 DEF BoundInv, StatusIsEarned
    <2> QED BY <1>0, <1>1, <2>1, <2>2, <2>3 DEF BoundInv
  <1>7. CASE Accepted(t)
    <2>1. /\ th'[t].pc = "done" /\ th'[t].answer = th[t].answer
          /\ th[t].answer = "ok" /\ UNCHANGED <<bind, gen, taken, wire>>
      BY <1>0, <1>7 DEF Accepted, Answered, service, Attempt
    <2>2. status' = IF Current(th[t]) THEN [status EXCEPT ![th[t].kind] = "ok"] ELSE status
      BY <1>7 DEF Accepted
    <2>3. StatusIsEarned'
      <3>1. ASSUME NEW k \in Kinds, status'[k] = "ok"
            PROVE  status[k] = "ok" \/ (k = th[t].kind /\ th[t].gen = gen)
        BY <2>2, <3>1 DEF TypeOK, Current
      <3> QED BY <1>0, <2>1, <3>1 DEF BoundInv, StatusIsEarned
    <2> QED BY <1>1, <2>1, <2>3 DEF BoundInv
  <1> QED BY <1>2, <1>3, <1>4, <1>5, <1>6, <1>7 DEF Going

LEMMA BoundNext ==
  ASSUME TypeOK, BoundInv, [Next]_vars
  PROVE  BoundInv'
  <1>1. ASSUME NEW t \in Threads, NEW k \in Kinds, Begin(t, k) PROVE BoundInv'
    <2>1. UNCHANGED <<bind, gen, taken, wire, status>> /\ gen \in Nat
      BY <1>1 DEF Begin, service, TypeOK
    <2>2. \A u \in Threads : u # t => th'[u] = th[u]
      BY <1>1, BeginThread DEF TypeOK
    <2>3. /\ th'[t].gen = gen /\ th'[t].answer # "ok" /\ th'[t].pc # "check"
          /\ th'[t].queue = NoSession
      BY <1>1, BeginThread
    <2>4. Bound'
      BY <2>1, <2>2, <2>3 DEF BoundInv, Bound, Sending, Current
    <2> QED BY <2>1, <2>4, EarnedLater DEF BoundInv
  <1>2. ASSUME NEW t \in Threads, Going(t) PROVE BoundInv'
    BY <1>2, BoundGoing
  <1>3. ASSUME NEW t \in Threads, End(t) PROVE BoundInv'
    <2>1. UNCHANGED <<bind, gen, taken, wire, status>>
      BY <1>3 DEF End, service
    <2>2. \A u \in Threads : th'[u] = IF u = t THEN Idle ELSE th[u]
      BY <1>3 DEF End, TypeOK
    <2>3. Bound'
      BY <2>1, <2>2 DEF BoundInv, Bound, Sending, Current
    <2> QED BY <2>1, <2>3, EarnedLater DEF BoundInv
  <1>4. ASSUME NEW a \in wire, LateArrival(a) PROVE BoundInv'
    <2>1. UNCHANGED <<bind, gen, th, status>> /\ taken \subseteq taken' /\ wire' \subseteq wire
      BY <1>4 DEF LateArrival, Take, hook
    <2>2. Bound'
      BY <2>1 DEF BoundInv, Bound, Sending, Current
    <2> QED BY <2>1, <2>2, EarnedLater DEF BoundInv
  <1>5. CASE UNCHANGED <<bind, gen, th, status, taken, wire>>
    BY <1>5 DEF BoundInv, StatusIsEarned, Bound, Sending, Current
  <1>6. ASSUME NEW s \in Sessions, Rebind(s) PROVE BoundInv'
    <2>1. /\ \A k \in Kinds : status'[k] = "none"
          /\ gen' = gen + 1 /\ gen \in Nat /\ UNCHANGED <<th, taken, wire>>
      BY <1>6 DEF Rebind, Fresh, service, TypeOK
    <2>2. ASSUME NEW u \in Threads, Sending(u)
          PROVE  th[u].gen <= gen' /\ ~Current(th[u])'
      <3>1. th[u].gen \in Nat /\ th[u].gen <= gen
        BY <2>2, AttemptAt DEF BoundInv, Bound
      <3> QED BY <2>1, <3>1 DEF Current
    <2>3. Bound'
      BY <2>1, <2>2 DEF BoundInv, Bound, Sending, Current
    <2>4. StatusIsEarned'
      BY <2>1 DEF StatusIsEarned
    <2> QED BY <2>1, <2>3, <2>4 DEF BoundInv
  <1>7. ASSUME NEW s \in Sessions, Restart(s) PROVE BoundInv'
    <2>1. /\ \A k \in Kinds : status'[k] = "none"
          /\ wire' = wire \cup {th[t] : t \in {u \in Threads : Step(u, "send")}}
          /\ \A u \in Threads : th'[u] = Idle
      BY <1>7 DEF Restart, Fresh
    <2>2. \A a \in wire' : a.queue \in {a.sid, NoSession}
      BY <2>1 DEF BoundInv, Bound, Step
    <2>3. Bound' /\ StatusIsEarned'
      BY <2>1 DEF Bound, Sending, StatusIsEarned
    <2> QED BY <2>2, <2>3 DEF BoundInv
  <1>8. CASE EnsureSession
    BY <1>5, <1>8 DEF EnsureSession, service
  <1>9. CASE UNCHANGED vars
    BY <1>5, <1>9 DEF vars
  <1> QED BY <1>1, <1>2, <1>3, <1>4, <1>6, <1>7, <1>8, <1>9, NextSteps

LEMMA BoundAlways == Spec => []BoundInv
  <1>1. Init => BoundInv
    BY DEF Init, BoundInv, StatusIsEarned, Bound, Sending
  <1>2. TypeOK /\ BoundInv /\ [Next]_vars => BoundInv'
    BY BoundNext
  <1> QED BY <1>1, <1>2, TypeCorrect, PTL DEF Spec

(* A late answer to a binding the hook has left marks no card of the new one
   as registered, also when the hook is back in the same session. *)
THEOREM StatusIsEarnedAlways == Spec => []StatusIsEarned
  <1>1. BoundInv => StatusIsEarned
    BY DEF BoundInv
  <1> QED BY <1>1, BoundAlways, PTL

(* No registration under way carries the queue of another project, although
   the queue is read outside the lock, while rebind may run. *)
THEOREM OwnQueueAlways == Spec => []OwnQueueOnly
  <1>1. BoundInv => OwnQueueOnly
    <2>1. ASSUME BoundInv, NEW t \in Threads, Step(t, "send")
          PROVE  th[t].queue \in {th[t].sid, NoSession}
      BY <2>1 DEF BoundInv, Bound, Step
    <2> QED BY <2>1 DEF BoundInv, OwnQueueOnly
  <1> QED BY <1>1, BoundAlways, PTL
=============================================================================
