---------------------------- MODULE OutboxProofs ----------------------------
(* What holds of Outbox for all sessions, flushers and bounds. *)
EXTENDS Outbox, TLAPS

(***************************************************************************)
(* Type correctness                                                        *)
(***************************************************************************)

(* What Save does to the rows: it keeps those there were and adds the batch
   behind them. *)
LEMMA SaveExtends ==
  ASSUME rows \in Seq(Row), NEW batch \in Seq(Row), rows' = rows \o batch
  PROVE  /\ rows' \in Seq(Row)
         /\ Len(rows') = Len(rows) + Len(batch)
         /\ DOMAIN rows = 1 .. Len(rows)
         /\ DOMAIN rows' = 1 .. Len(rows')
         /\ \A r \in DOMAIN rows : r \in DOMAIN rows' /\ rows'[r] = rows[r]
         /\ \A r \in DOMAIN rows' \ DOMAIN rows :
              /\ r - Len(rows) \in 1 .. Len(batch)
              /\ rows'[r] = batch[r - Len(rows)]
  OBVIOUS

LEMMA RowsTyped ==
  ASSUME TypeOK, NEW r \in DOMAIN rows
  PROVE  rows[r] \in Row /\ rows[r].session \in Sessions /\ rows[r].expected \in Nat
  <1>1. rows[r] \in Row
    BY DEF TypeOK
  <1> QED BY <1>1 DEF Row

(* The three producers save a batch of well-formed rows. *)
LEMMA BatchesTyped ==
  ASSUME TypeOK, NEW s \in Sessions, Produce(s)
  PROVE  /\ \E batch \in Seq(Row) : Len(batch) > 0 /\ Save(batch)
         /\ version' \in [Sessions -> Nat]
  <1>1. CASE SaveSession(s)
    <2> DEFINE batch == <<[session |-> s, op |-> "session.upsert", expected |-> version[s]]>>
    <2>1. batch \in Seq(Row) /\ Len(batch) > 0
      BY DEF TypeOK, Row, Ops
    <2>2. Save(batch) /\ version' \in [Sessions -> Nat]
      BY <1>1 DEF SaveSession, TypeOK
    <2> HIDE DEF batch
    <2> QED BY <2>1, <2>2
  <1>2. CASE SaveTurn(s)
    <2> DEFINE batch == <<[session |-> s, op |-> "turn.upsert", expected |-> 0]>>
    <2>1. batch \in Seq(Row) /\ Len(batch) > 0
      BY DEF Row, Ops
    <2>2. Save(batch) /\ version' \in [Sessions -> Nat]
      BY <1>2 DEF SaveTurn, TypeOK
    <2> HIDE DEF batch
    <2> QED BY <2>1, <2>2
  <1>3. ASSUME NEW n \in 1 .. MaxReceipts, SaveReceipts(s, n)
        PROVE  /\ \E batch \in Seq(Row) : Len(batch) > 0 /\ Save(batch)
               /\ version' \in [Sessions -> Nat]
    <2> DEFINE receipt == [session |-> s, op |-> "acknowledgement", expected |-> 0]
               batch == [i \in 1 .. n |-> receipt]
    <2>1. receipt \in Row
      BY DEF Row, Ops
    <2>2. batch \in Seq(Row) /\ Len(batch) > 0
      BY <2>1, OutboxAssumption
    <2>3. Save(batch) /\ version' \in [Sessions -> Nat]
      BY <1>3 DEF SaveReceipts, TypeOK
    <2> HIDE DEF batch
    <2> QED BY <2>2, <2>3
  <1> QED BY <1>1, <1>2, <1>3 DEF Produce

LEMMA ClientProjectTyped ==
  ASSUME TypeOK, NEW f \in Flushers, pc[f] # "idle" => sess[f] \in Sessions, pc[f] # "idle"
  PROVE  ClientProject(f) \in Projects
  BY OutboxAssumption DEF ClientProject

(* The flusher half of type correctness that the steps rely on. *)
Busy ==
  \A f \in Flushers :
    /\ pc[f] # "idle" => sess[f] \in Sessions
    /\ pc[f] \in {"request", "answered", "delete"} => held[f] \in DOMAIN rows

LEMMA ApplyTyped ==
  ASSUME TypeOK, NEW r \in DOMAIN rows, NEW p \in Projects, Apply(r, p), rows' = rows
  PROVE  /\ stored' \in [Projects -> SUBSET (DOMAIN rows)]
         /\ svcVersion' \in [Projects -> [Sessions -> Nat]]
  <1>1. rows[r].session \in Sessions
    BY RowsTyped
  <1>2. CASE r \in stored[p]
    BY <1>2 DEF TypeOK, Apply
  <1>3. CASE r \notin stored[p]
    <2>1. stored' = [stored EXCEPT ![p] = @ \cup {r}]
      BY <1>3 DEF Apply
    <2>2. stored' \in [Projects -> SUBSET (DOMAIN rows)]
      BY <2>1 DEF TypeOK
    <2>3. CASE rows[r].op = "session.upsert"
      <3>1. svcVersion' = [svcVersion EXCEPT ![p][rows[r].session] = @ + 1]
        BY <1>3, <2>3 DEF Apply
      <3> QED BY <1>1, <2>2, <3>1 DEF TypeOK
    <2>4. CASE rows[r].op # "session.upsert"
      BY <1>3, <2>2, <2>4 DEF TypeOK, Apply
    <2> QED BY <2>3, <2>4
  <1> QED BY <1>2, <1>3

LEMMA TypeNext ==
  ASSUME TypeOK, Busy, [Next]_vars
  PROVE  TypeOK' /\ Busy'
  <1> USE DEF TypeOK, Busy
  <1>1. ASSUME NEW s \in Sessions, Produce(s)
        PROVE  TypeOK' /\ Busy'
    <2>0. PICK batch \in Seq(Row) :
            Len(batch) > 0 /\ Save(batch) /\ version' \in [Sessions -> Nat]
      BY <1>1, BatchesTyped
    <2>1. /\ rows' = rows \o batch
          /\ outbox' = outbox \cup (Len(rows) + 1 .. Len(rows) + Len(batch))
          /\ UNCHANGED threads /\ UNCHANGED service
      BY <2>0 DEF Save
    <2>2. /\ rows' \in Seq(Row)
          /\ Len(rows') = Len(rows) + Len(batch)
          /\ DOMAIN rows' = 1 .. Len(rows')
          /\ DOMAIN rows = 1 .. Len(rows)
          /\ DOMAIN rows \subseteq DOMAIN rows'
      BY <2>1, SaveExtends
    <2>3. outbox' \subseteq DOMAIN rows'
      BY <2>1, <2>2
    <2>4. stored' \in [Projects -> SUBSET (DOMAIN rows')]
      BY <2>1, <2>2 DEF service
    <2> QED BY <2>0, <2>1, <2>2, <2>3, <2>4 DEF threads, service
  <1>2. ASSUME NEW f \in Flushers, Flush(f)
        PROVE  TypeOK' /\ Busy'
    <2>1. ASSUME NEW s \in Sessions, FlushStart(f, s) PROVE TypeOK' /\ Busy'
      BY <2>1 DEF FlushStart, Enter, Move, journal, service, Steps
    <2>2. ASSUME NEW s \in Sessions, ReplayNext(f, s) PROVE TypeOK' /\ Busy'
      BY <2>2 DEF ReplayNext, Enter, Move, journal, service, Steps
    <2>3. CASE ReplayBegin(f)
      <3>1. {rows[r].session : r \in outbox} \subseteq Sessions
        BY RowsTyped
      <3> QED BY <2>3, <3>1 DEF ReplayBegin, journal, service, Steps
    <2>4. CASE SelectHead(f)
      BY <2>4 DEF SelectHead, Move, Pending, journal, service, Steps
    <2>5. CASE FlushReturn(f)
      BY <2>5 DEF FlushReturn, Leave, journal, service, Steps
    <2>6. CASE Delete(f)
      BY <2>6 DEF Delete, Move, service, Steps
    <2> QED BY <1>2, <2>1, <2>2, <2>3, <2>4, <2>5, <2>6 DEF Flush
  <1>3. ASSUME NEW f \in Flushers, Network(f)
        PROVE  TypeOK' /\ Busy'
    <2>1. CASE Accept(f)
      <3>1. ClientProject(f) \in Projects
        BY <2>1, ClientProjectTyped DEF Accept, Move
      <3>2. held[f] \in DOMAIN rows
        BY <2>1 DEF Accept, Move
      <3>3. /\ stored' \in [Projects -> SUBSET (DOMAIN rows)]
            /\ svcVersion' \in [Projects -> [Sessions -> Nat]]
        BY <2>1, <3>1, <3>2, ApplyTyped DEF Accept, journal
      <3> QED BY <2>1, <3>3 DEF Accept, Move, journal, Steps
    <2>2. CASE Answer(f)
      BY <2>2 DEF Answer, Move, journal, service, Steps
    <2>3. ASSUME pc[f] # "idle", Abandon(f)
          PROVE  wire' \subseteq (DOMAIN rows) \X Projects
      BY <2>3, ClientProjectTyped DEF Abandon
    <2>4. CASE RequestFail(f)
      <3>1. wire' \subseteq (DOMAIN rows) \X Projects
        BY <2>3, <2>4 DEF RequestFail
      <3> QED BY <2>4, <3>1 DEF RequestFail, Leave, journal, Steps
    <2>5. CASE Die(f)
      <3>1. wire' \subseteq (DOMAIN rows) \X Projects
        BY <2>3, <2>5 DEF Die
      <3> QED BY <2>5, <3>1 DEF Die, Leave, journal, Steps
    <2> QED BY <1>3, <2>1, <2>2, <2>4, <2>5 DEF Network
  <1>4. ASSUME NEW r \in DOMAIN rows, NEW p \in Projects, LateArrival(r, p)
        PROVE  TypeOK' /\ Busy'
    <2>1. /\ stored' \in [Projects -> SUBSET (DOMAIN rows)]
          /\ svcVersion' \in [Projects -> [Sessions -> Nat]]
      BY <1>4, ApplyTyped DEF LateArrival, journal
    <2> QED BY <1>4, <2>1 DEF LateArrival, threads, journal
  <1>5. CASE UNCHANGED vars
    BY <1>5 DEF vars
  <1> QED BY <1>1, <1>2, <1>3, <1>4, <1>5 DEF Next

LEMMA TypeInit == Init => TypeOK /\ Busy
  BY DEF Init, TypeOK, Busy, Steps

(* The journal, the flushers, the network and the service keep their types,
   and a flush under way always has a session and a row of the journal. *)
THEOREM TypeCorrect == Spec => []TypeOK
  <1>1. TypeOK /\ Busy /\ [Next]_vars => TypeOK' /\ Busy'
    BY TypeNext
  <1>2. Spec => [](TypeOK /\ Busy)
    BY TypeInit, <1>1, PTL DEF Spec
  <1> QED BY <1>2, PTL

(***************************************************************************)
(* Order and durability                                                    *)
(***************************************************************************)

(* A row takes effect after its predecessors; a flusher that holds a row, and
   a request left on the wire, have those predecessors behind them. *)
AppliedInOrder == \A r \in Applied : Earlier(r) \subseteq Applied

Holding(f) == pc[f] \in {"request", "answered", "delete"}

HeldInOrder ==
  \A f \in Flushers : Holding(f) =>
    /\ Earlier(held[f]) \subseteq Applied
    /\ pc[f] # "request" => held[f] \in Applied

WireInOrder == \A req \in wire : Earlier(req[1]) \subseteq Applied

OrderInv ==
  TypeOK /\ Busy /\ NothingLost /\ AppliedInOrder /\ HeldInOrder /\ WireInOrder

(* Saving rows adds to the journal and changes nothing about the old rows. *)
LEMMA SaveEffect ==
  ASSUME TypeOK, NEW batch \in Seq(Row), Save(batch)
  PROVE  /\ rows' \in Seq(Row)
         /\ DOMAIN rows \subseteq DOMAIN rows'
         /\ \A r \in DOMAIN rows : rows'[r] = rows[r] /\ Earlier(r)' = Earlier(r)
         /\ Applied' = Applied
         /\ outbox' = outbox \cup (DOMAIN rows' \ DOMAIN rows)
         /\ UNCHANGED threads /\ UNCHANGED service
  <1>1. /\ rows' = rows \o batch
        /\ outbox' = outbox \cup (Len(rows) + 1 .. Len(rows) + Len(batch))
        /\ UNCHANGED threads /\ UNCHANGED service
    BY DEF Save
  <1>2. /\ rows' \in Seq(Row)
        /\ Len(rows') = Len(rows) + Len(batch)
        /\ DOMAIN rows = 1 .. Len(rows)
        /\ DOMAIN rows' = 1 .. Len(rows')
        /\ \A r \in DOMAIN rows : r \in DOMAIN rows' /\ rows'[r] = rows[r]
    BY <1>1, SaveExtends DEF TypeOK
  <1>3. Len(rows) \in Nat /\ Len(batch) \in Nat
    BY DEF TypeOK
  <1>4. DOMAIN rows' \ DOMAIN rows = Len(rows) + 1 .. Len(rows) + Len(batch)
    BY <1>2, <1>3
  <1>5. \A r \in DOMAIN rows : Earlier(r)' = Earlier(r)
    BY <1>2, <1>3 DEF Earlier
  <1>6. Applied' = Applied
    BY <1>1, <1>2 DEF Applied, TypeOK, service
  <1> QED BY <1>1, <1>2, <1>4, <1>5, <1>6

LEMMA ApplyEffect ==
  ASSUME TypeOK, NEW r \in DOMAIN rows, NEW p \in Projects, Apply(r, p), rows' = rows
  PROVE  /\ Applied' = Applied \cup {r}
         /\ \A q \in DOMAIN rows : Earlier(q)' = Earlier(q)
  <1>1. CASE r \in stored[p]
    BY <1>1 DEF Apply, Applied, Earlier
  <1>2. CASE r \notin stored[p]
    <2>1. stored' = [stored EXCEPT ![p] = @ \cup {r}]
      BY <1>2 DEF Apply
    <2> QED BY <2>1 DEF Applied, Earlier, TypeOK
  <1> QED BY <1>1, <1>2

LEMMA QuietEffect ==
  ASSUME rows' = rows, stored' = stored
  PROVE  /\ Applied' = Applied /\ Applied \subseteq DOMAIN rows
         /\ \A r \in DOMAIN rows : Earlier(r)' = Earlier(r)
  BY DEF Applied, Earlier

LEMMA OrderInit == Init => OrderInv
  <1> SUFFICES ASSUME Init PROVE OrderInv
    OBVIOUS
  <1>1. TypeOK /\ Busy
    BY TypeInit
  <1>2. NothingLost /\ AppliedInOrder /\ HeldInOrder /\ WireInOrder
    BY DEF Init, NothingLost, AppliedInOrder, HeldInOrder, WireInOrder, Applied, Holding
  <1> QED BY <1>1, <1>2 DEF OrderInv

(* An abandoned request leaves the wire in order: its sender held it. *)
LEMMA AbandonEffect ==
  ASSUME OrderInv, NEW f \in Flushers, Abandon(f)
  PROVE  \A req \in wire' : req[1] \in DOMAIN rows /\ Earlier(req[1]) \subseteq Applied
  <1>1. \A req \in wire : req[1] \in DOMAIN rows /\ Earlier(req[1]) \subseteq Applied
    BY DEF OrderInv, TypeOK, WireInOrder
  <1>2. CASE UNCHANGED wire
    BY <1>1, <1>2
  <1>3. CASE pc[f] = "request" /\ wire' = wire \cup {<<held[f], ClientProject(f)>>}
    <2>1. held[f] \in DOMAIN rows /\ Earlier(held[f]) \subseteq Applied
      BY <1>3 DEF OrderInv, Busy, HeldInOrder, Holding
    <2> QED BY <1>1, <1>3, <2>1
  <1> QED BY <1>2, <1>3 DEF Abandon

LEMMA OrderNext ==
  ASSUME OrderInv, [Next]_vars
  PROVE  OrderInv'
  <1> USE DEF OrderInv
  <1>0. TypeOK' /\ Busy'
    BY TypeNext
  <1> SUFFICES NothingLost' /\ AppliedInOrder' /\ HeldInOrder' /\ WireInOrder'
    BY <1>0
  <1>1. ASSUME NEW s \in Sessions, Produce(s)
        PROVE  NothingLost' /\ AppliedInOrder' /\ HeldInOrder' /\ WireInOrder'
    <2>1. PICK batch \in Seq(Row) : Save(batch)
      BY <1>1, BatchesTyped
    <2>2. /\ DOMAIN rows \subseteq DOMAIN rows'
          /\ \A r \in DOMAIN rows : rows'[r] = rows[r] /\ Earlier(r)' = Earlier(r)
          /\ Applied' = Applied
          /\ outbox' = outbox \cup (DOMAIN rows' \ DOMAIN rows)
          /\ UNCHANGED threads /\ UNCHANGED service
      BY <2>1, SaveEffect
    <2>3. NothingLost'
      BY <2>2 DEF NothingLost
    <2>4. AppliedInOrder'
      BY <2>2 DEF AppliedInOrder, Applied
    <2>5. HeldInOrder'
      BY <2>2 DEF HeldInOrder, Holding, Busy, threads
    <2>6. WireInOrder'
      BY <2>2 DEF WireInOrder, TypeOK, service
    <2> QED BY <2>3, <2>4, <2>5, <2>6
  <1>2. ASSUME NEW f \in Flushers, Flush(f)
        PROVE  NothingLost' /\ AppliedInOrder' /\ HeldInOrder' /\ WireInOrder'
    <2>0. rows' = rows /\ stored' = stored /\ wire' = wire
      BY <1>2 DEF Flush, FlushStart, ReplayNext, ReplayBegin, SelectHead, FlushReturn,
                  Delete, journal, service
    <2>1. /\ Applied' = Applied /\ Applied \subseteq DOMAIN rows
          /\ \A r \in DOMAIN rows : Earlier(r)' = Earlier(r)
      BY <2>0, QuietEffect
    <2>2. AppliedInOrder' /\ WireInOrder'
      BY <2>0, <2>1 DEF AppliedInOrder, WireInOrder, TypeOK
    <2>3. ASSUME UNCHANGED outbox,
                 \A g \in Flushers : Holding(g)' => Holding(g) /\ UNCHANGED <<pc[g], held[g]>>
          PROVE  NothingLost' /\ HeldInOrder'
      <3>1. NothingLost'
        BY <2>0, <2>1, <2>3 DEF NothingLost
      <3>2. HeldInOrder'
        BY <2>0, <2>1, <2>3 DEF HeldInOrder, Busy, Holding
      <3> QED BY <3>1, <3>2
    <2>4. ASSUME NEW s \in Sessions, FlushStart(f, s) PROVE NothingLost' /\ HeldInOrder'
      BY <2>3, <2>4 DEF FlushStart, Enter, Move, Holding, TypeOK, journal
    <2>5. ASSUME NEW s \in Sessions, ReplayNext(f, s) PROVE NothingLost' /\ HeldInOrder'
      BY <2>3, <2>5 DEF ReplayNext, Enter, Move, Holding, TypeOK, journal
    <2>6. CASE ReplayBegin(f)
      BY <2>2, <2>3, <2>6 DEF ReplayBegin, Holding, TypeOK, journal
    <2>7. CASE FlushReturn(f)
      BY <2>2, <2>3, <2>7 DEF FlushReturn, Leave, Holding, TypeOK, journal
    <2>8. CASE SelectHead(f)
      <3>1. PICK r \in Pending(sess[f]) :
              /\ \A q \in Pending(sess[f]) : r <= q
              /\ held' = [held EXCEPT ![f] = r]
              /\ pc' = [pc EXCEPT ![f] = "request"]
              /\ UNCHANGED outbox
        BY <2>8 DEF SelectHead, Move, journal
      <3>2. r \in outbox /\ r \in DOMAIN rows /\ rows[r].session = sess[f]
        BY <3>1 DEF Pending, TypeOK
      <3>3. ASSUME NEW q \in Earlier(r) PROVE q \in Applied
        <4>1. q \in DOMAIN rows /\ q < r /\ rows[q].session = sess[f]
          BY <3>2 DEF Earlier
        <4>2. q \in Nat /\ r \in Nat
          BY <3>2, <4>1 DEF TypeOK
        <4>3. q \notin outbox
          BY <3>1, <4>1, <4>2 DEF Pending
        <4> QED BY <4>1, <4>3 DEF NothingLost
      <3>4. HeldInOrder'
        BY <2>0, <2>1, <3>1, <3>2, <3>3 DEF HeldInOrder, Holding, TypeOK, Busy
      <3>5. NothingLost'
        BY <2>0, <2>1, <3>1 DEF NothingLost
      <3> QED BY <2>2, <3>4, <3>5
    <2>9. CASE Delete(f)
      <3>1. /\ pc[f] = "delete" /\ pc' = [pc EXCEPT ![f] = "select"]
            /\ outbox' = outbox \ {held[f]}
            /\ held' = [held EXCEPT ![f] = 0]
        BY <2>9 DEF Delete, Move
      <3>2. held[f] \in Applied
        BY <3>1 DEF HeldInOrder, Holding
      <3>3. NothingLost'
        BY <2>0, <2>1, <3>1, <3>2 DEF NothingLost
      <3>4. HeldInOrder'
        BY <2>0, <2>1, <3>1 DEF HeldInOrder, Holding, TypeOK, Busy
      <3> QED BY <2>2, <3>3, <3>4
    <2> QED BY <1>2, <2>2, <2>4, <2>5, <2>6, <2>7, <2>8, <2>9 DEF Flush
  <1>3. ASSUME NEW f \in Flushers, Network(f)
        PROVE  NothingLost' /\ AppliedInOrder' /\ HeldInOrder' /\ WireInOrder'
    <2>1. CASE Accept(f)
      <3>1. /\ pc[f] = "request" /\ pc' = [pc EXCEPT ![f] = "answered"]
            /\ Apply(held[f], ClientProject(f))
            /\ UNCHANGED <<held, wire>> /\ UNCHANGED journal
        BY <2>1 DEF Accept, Move
      <3>2. held[f] \in DOMAIN rows /\ Earlier(held[f]) \subseteq Applied
        BY <3>1 DEF Busy, HeldInOrder, Holding
      <3>3. ClientProject(f) \in Projects
        BY <3>1, ClientProjectTyped DEF Busy
      <3>4. /\ Applied' = Applied \cup {held[f]}
            /\ \A q \in DOMAIN rows : Earlier(q)' = Earlier(q)
        BY <3>1, <3>2, <3>3, ApplyEffect DEF journal
      <3>5. NothingLost'
        BY <3>1, <3>4 DEF NothingLost, journal
      <3>6. AppliedInOrder'
        BY <3>2, <3>4 DEF AppliedInOrder, Applied
      <3>7. HeldInOrder'
        BY <3>1, <3>2, <3>4 DEF HeldInOrder, Holding, Busy, TypeOK
      <3>8. WireInOrder'
        BY <3>1, <3>4 DEF WireInOrder, TypeOK
      <3> QED BY <3>5, <3>6, <3>7, <3>8
    <2>2. CASE Answer(f)
      <3>1. rows' = rows /\ stored' = stored /\ wire' = wire /\ outbox' = outbox
        BY <2>2 DEF Answer, journal, service
      <3>2. /\ Applied' = Applied /\ Applied \subseteq DOMAIN rows
            /\ \A r \in DOMAIN rows : Earlier(r)' = Earlier(r)
        BY <3>1, QuietEffect
      <3>3. NothingLost' /\ AppliedInOrder' /\ WireInOrder'
        BY <3>1, <3>2 DEF NothingLost, AppliedInOrder, WireInOrder, TypeOK
      <3>4. HeldInOrder'
        BY <2>2, <3>1, <3>2 DEF Answer, Move, HeldInOrder, Holding, Busy, TypeOK
      <3> QED BY <3>3, <3>4
    <2>3. ASSUME Leave(f), Abandon(f), UNCHANGED journal, UNCHANGED stored
          PROVE  NothingLost' /\ AppliedInOrder' /\ HeldInOrder' /\ WireInOrder'
      <3>1. rows' = rows /\ outbox' = outbox
        BY <2>3 DEF journal
      <3>2. Applied' = Applied /\ \A r \in DOMAIN rows : Earlier(r)' = Earlier(r)
        BY <2>3, <3>1, QuietEffect
      <3>3. NothingLost' /\ AppliedInOrder'
        BY <3>1, <3>2 DEF NothingLost, AppliedInOrder, Applied
      <3>4. WireInOrder'
        BY <2>3, <3>1, <3>2, AbandonEffect DEF WireInOrder
      <3>5. HeldInOrder'
        BY <2>3, <3>1, <3>2 DEF Leave, HeldInOrder, Holding, Busy, TypeOK
      <3> QED BY <3>3, <3>4, <3>5
    <2>4. CASE RequestFail(f)
      BY <2>3, <2>4 DEF RequestFail
    <2>5. CASE Die(f)
      BY <2>3, <2>5 DEF Die
    <2> QED BY <1>3, <2>1, <2>2, <2>4, <2>5 DEF Network
  <1>4. ASSUME NEW r \in DOMAIN rows, NEW p \in Projects, LateArrival(r, p)
        PROVE  NothingLost' /\ AppliedInOrder' /\ HeldInOrder' /\ WireInOrder'
    <2>1. Earlier(r) \subseteq Applied
      BY <1>4 DEF LateArrival, WireInOrder
    <2>2. /\ Applied' = Applied \cup {r}
          /\ \A q \in DOMAIN rows : Earlier(q)' = Earlier(q)
      BY <1>4, ApplyEffect DEF LateArrival, journal
    <2>3. NothingLost'
      BY <1>4, <2>2 DEF LateArrival, NothingLost, journal
    <2>4. AppliedInOrder'
      BY <2>1, <2>2 DEF AppliedInOrder, Applied
    <2>5. HeldInOrder'
      BY <1>4, <2>2 DEF LateArrival, HeldInOrder, Holding, Busy, threads
    <2>6. WireInOrder'
      BY <1>4, <2>2 DEF LateArrival, WireInOrder, TypeOK
    <2> QED BY <2>3, <2>4, <2>5, <2>6
  <1>5. CASE UNCHANGED vars
    <2>1. /\ Applied' = Applied /\ Applied \subseteq DOMAIN rows
          /\ \A r \in DOMAIN rows : Earlier(r)' = Earlier(r)
      BY <1>5, QuietEffect DEF vars
    <2>2. NothingLost' /\ AppliedInOrder' /\ WireInOrder'
      BY <1>5, <2>1 DEF vars, NothingLost, AppliedInOrder, WireInOrder, TypeOK
    <2>3. HeldInOrder'
      BY <1>5, <2>1 DEF vars, HeldInOrder, Holding, Busy
    <2> QED BY <2>2, <2>3
  <1> QED BY <1>1, <1>2, <1>3, <1>4, <1>5 DEF Next

LEMMA OrderAlways == Spec => []OrderInv
  <1>1. OrderInv /\ [Next]_vars => OrderInv'
    BY OrderNext
  <1> QED BY OrderInit, <1>1, PTL DEF Spec

(* Nothing is silently dropped by Journal.save, Journal.flush and replay,
   whichever of their threads die, fail or overlap. *)
THEOREM NothingIsLost == Spec => []NothingLost
  <1>1. OrderInv => NothingLost
    BY DEF OrderInv
  <1> QED BY OrderAlways, <1>1, PTL

(* The outbox implements first-in first-out delivery of each session's rows,
   each taking effect once. *)
THEOREM ImplementsFifo == Spec => FifoSpec
  <1>1. Init => Fifo!Init
    BY DEF Init, Fifo!Init, Applied
  <1>2. OrderInv /\ OrderInv' /\ [Next]_vars => [Fifo!Next]_(Fifo!vars)
    <2> SUFFICES ASSUME OrderInv, OrderInv', [Next]_vars
                 PROVE  [Fifo!Next]_(Fifo!vars)
      OBVIOUS
    <2> USE DEF OrderInv
    <2>1. ASSUME NEW s \in Sessions, Produce(s) PROVE Fifo!Submit
      <3>1. PICK batch \in Seq(Row) : Len(batch) > 0 /\ Save(batch)
        BY <2>1, BatchesTyped
      <3>2. Applied' = Applied /\ \A r \in DOMAIN rows : rows'[r] = rows[r]
        BY <3>1, SaveEffect
      <3>3. rows' \in Seq(Row) /\ Len(rows') > Len(rows)
        BY <3>1, SaveExtends DEF Save, TypeOK
      <3> QED BY <3>2, <3>3 DEF Fifo!Submit
    <2>2. ASSUME NEW r \in DOMAIN rows, NEW p \in Projects, Apply(r, p), rows' = rows,
                 Earlier(r) \subseteq Applied
          PROVE  [Fifo!Next]_(Fifo!vars)
      <3>1. Applied' = Applied \cup {r}
        BY <2>2, ApplyEffect
      <3>2. CASE r \in Applied
        BY <2>2, <3>1, <3>2 DEF Fifo!vars
      <3>3. CASE r \notin Applied
        <4>1. Fifo!Deliver(r)
          BY <2>2, <3>1, <3>3 DEF Fifo!Deliver, Fifo!Earlier, Earlier
        <4> QED BY <4>1 DEF Fifo!Next
      <3> QED BY <3>2, <3>3
    <2>3. ASSUME rows' = rows, stored' = stored PROVE [Fifo!Next]_(Fifo!vars)
      BY <2>3, QuietEffect DEF Fifo!vars
    <2>4. ASSUME NEW f \in Flushers, Flush(f) PROVE [Fifo!Next]_(Fifo!vars)
      BY <2>3, <2>4 DEF Flush, FlushStart, ReplayNext, ReplayBegin, SelectHead, FlushReturn,
                        Delete, journal, service
    <2>5. ASSUME NEW f \in Flushers, Network(f) PROVE [Fifo!Next]_(Fifo!vars)
      <3>1. CASE Accept(f)
        <4>1. /\ pc[f] = "request" /\ Apply(held[f], ClientProject(f)) /\ rows' = rows
          BY <3>1 DEF Accept, Move, journal
        <4>2. held[f] \in DOMAIN rows /\ Earlier(held[f]) \subseteq Applied
          BY <4>1 DEF Busy, HeldInOrder, Holding
        <4>3. ClientProject(f) \in Projects
          BY <4>1, ClientProjectTyped DEF Busy
        <4> QED BY <2>2, <4>1, <4>2, <4>3
      <3>2. CASE ~Accept(f)
        BY <2>3, <2>5, <3>2 DEF Network, Answer, RequestFail, Die, journal, service
      <3> QED BY <3>1, <3>2
    <2>6. ASSUME NEW r \in DOMAIN rows, NEW p \in Projects, LateArrival(r, p)
          PROVE  [Fifo!Next]_(Fifo!vars)
      <3>1. Earlier(r) \subseteq Applied
        BY <2>6 DEF LateArrival, WireInOrder
      <3> QED BY <2>2, <2>6, <3>1 DEF LateArrival, journal
    <2>7. CASE UNCHANGED vars
      BY <2>3, <2>7 DEF vars
    <2> QED BY <2>1, <2>4, <2>5, <2>6, <2>7 DEF Next, Fifo!Next
  <1> QED BY OrderAlways, <1>1, <1>2, PTL DEF Spec, FifoSpec, Fifo!Spec

(***************************************************************************)
(* Versions: why the service never refuses a session record for its        *)
(* version, as long as every session of the journal is bound to the        *)
(* project of the connection.                                              *)
(***************************************************************************)

(* The journal serves one project: no session was moved to another one. *)
OneProjectOnly == \A s \in Sessions : ProjectOf[s] = ConnectionProject

Upserts(s) ==
  {r \in DOMAIN rows : rows[r].session = s /\ rows[r].op = "session.upsert"}

(* The session records of s carry the versions 0, 1, ..., version[s] - 1 in
   the order of the journal, and s has one before any other row. *)
Numbered(s) ==
  /\ \A r \in Upserts(s) : rows[r].expected < version[s]
  /\ \A q, r \in Upserts(s) : q < r => rows[q].expected < rows[r].expected
  /\ \A v \in Nat : v < version[s] => \E r \in Upserts(s) : rows[r].expected = v
  /\ \A r \in DOMAIN rows :
       rows[r].session = s /\ r \notin Upserts(s) => \E q \in Upserts(s) : q < r

Numbering == \A s \in Sessions : Numbered(s)

(* Of those records the service has applied the first ones. *)
Counted(s) ==
  LET applied == svcVersion[ConnectionProject][s]
  IN  /\ applied <= version[s]
      /\ \A r \in Upserts(s) :
           r \in stored[ConnectionProject] <=> rows[r].expected < applied

OnlyHere ==
  /\ \A p \in Projects \ {ConnectionProject} : stored[p] = {}
  /\ \A req \in wire : req[2] = ConnectionProject

VersionInv ==
  OrderInv /\ Numbering /\ OnlyHere /\ \A s \in Sessions : Counted(s)

-----------------------------------------------------------------------------
(* A batch without session records leaves the numbering alone. *)
LEMMA PlainBatch ==
  ASSUME TypeOK, NEW s \in Sessions, Produce(s)
  PROVE  \/ SaveSession(s)
         \/ /\ version[s] > 0 /\ version' = version
            /\ \E batch \in Seq(Row) :
                 /\ Save(batch)
                 /\ \A i \in 1 .. Len(batch) :
                      batch[i].session = s /\ batch[i].op # "session.upsert"
  <1>1. CASE SaveTurn(s)
    <2> DEFINE batch == <<[session |-> s, op |-> "turn.upsert", expected |-> 0]>>
    <2>1. batch \in Seq(Row) /\ \A i \in 1 .. Len(batch) :
                      batch[i].session = s /\ batch[i].op # "session.upsert"
      BY DEF Row, Ops
    <2>2. Save(batch) /\ version[s] > 0 /\ version' = version
      BY <1>1 DEF SaveTurn
    <2> HIDE DEF batch
    <2> QED BY <2>1, <2>2
  <1>2. ASSUME NEW n \in 1 .. MaxReceipts, SaveReceipts(s, n)
        PROVE  /\ version[s] > 0 /\ version' = version
               /\ \E batch \in Seq(Row) :
                    /\ Save(batch)
                    /\ \A i \in 1 .. Len(batch) :
                         batch[i].session = s /\ batch[i].op # "session.upsert"
    <2> DEFINE receipt == [session |-> s, op |-> "acknowledgement", expected |-> 0]
               batch == [i \in 1 .. n |-> receipt]
    <2>1. receipt \in Row
      BY DEF Row, Ops
    <2>2. batch \in Seq(Row) /\ \A i \in 1 .. Len(batch) :
                      batch[i].session = s /\ batch[i].op # "session.upsert"
      BY <2>1, OutboxAssumption
    <2>3. Save(batch) /\ version[s] > 0 /\ version' = version
      BY <1>2 DEF SaveReceipts
    <2> HIDE DEF batch
    <2> QED BY <2>2, <2>3
  <1> QED BY <1>1, <1>2 DEF Produce

(* Old rows keep their kind, and Upserts gains the new session records. *)
LEMMA UpsertsGrow ==
  ASSUME TypeOK, NEW batch \in Seq(Row), Save(batch), NEW t \in Sessions
  PROVE  /\ Upserts(t) \subseteq Upserts(t)'
         /\ \A r \in Upserts(t)' : r \in DOMAIN rows => r \in Upserts(t)
         /\ Upserts(t) \subseteq DOMAIN rows
  BY SaveEffect DEF Upserts

LEMMA PlainBatchUpserts ==
  ASSUME TypeOK, NEW s \in Sessions, NEW batch \in Seq(Row), Save(batch),
         \A i \in 1 .. Len(batch) : batch[i].session = s /\ batch[i].op # "session.upsert"
  PROVE  /\ \A t \in Sessions : Upserts(t)' = Upserts(t)
         /\ \A r \in DOMAIN rows' \ DOMAIN rows : rows'[r].session = s
  <1>1. rows' = rows \o batch
    BY DEF Save
  <1>2. \A r \in DOMAIN rows' \ DOMAIN rows :
          rows'[r].session = s /\ rows'[r].op # "session.upsert"
    BY <1>1, SaveExtends DEF TypeOK
  <1>3. \A t \in Sessions : Upserts(t)' \subseteq Upserts(t)
    BY <1>2, UpsertsGrow DEF Upserts
  <1> QED BY <1>2, <1>3, UpsertsGrow

LEMMA NewRow ==
  ASSUME TypeOK, NEW s \in Sessions, SaveSession(s)
  PROVE  LET new == Len(rows) + 1 IN
         /\ DOMAIN rows' = DOMAIN rows \cup {new}
         /\ new \notin DOMAIN rows
         /\ \A r \in DOMAIN rows : r < new
         /\ rows'[new] = [session |-> s, op |-> "session.upsert", expected |-> version[s]]
         /\ version' = [version EXCEPT ![s] = @ + 1]
         /\ \E batch \in Seq(Row) : Save(batch)
  <1> DEFINE row == [session |-> s, op |-> "session.upsert", expected |-> version[s]]
             batch == <<row>>
  <1>1. row \in Row
    BY DEF TypeOK, Row, Ops
  <1>2. Save(batch) /\ version' = [version EXCEPT ![s] = @ + 1]
    BY DEF SaveSession
  <1>3. rows' = rows \o batch
    BY <1>2 DEF Save
  <1> HIDE DEF row
  <1>4. batch \in Seq(Row) /\ Len(batch) = 1 /\ batch[1] = row
    <2>1. batch \in Seq(Row)
      BY <1>1
    <2>2. Len(batch) = 1 /\ batch[1] = row
      OBVIOUS
    <2> QED BY <2>1, <2>2
  <1> HIDE DEF batch
  <1>5. /\ Len(rows') = Len(rows) + 1
        /\ DOMAIN rows = 1 .. Len(rows)
        /\ DOMAIN rows' = 1 .. Len(rows')
        /\ \A r \in DOMAIN rows' \ DOMAIN rows : rows'[r] = batch[r - Len(rows)]
        /\ Len(rows) \in Nat
    <2>1. rows \in Seq(Row) /\ Len(rows) \in Nat
      BY DEF TypeOK
    <2>2. /\ Len(rows') = Len(rows) + Len(batch)
          /\ DOMAIN rows = 1 .. Len(rows)
          /\ DOMAIN rows' = 1 .. Len(rows')
          /\ \A r \in DOMAIN rows' \ DOMAIN rows : rows'[r] = batch[r - Len(rows)]
      BY <1>3, <1>4, <2>1, SaveExtends
    <2> QED BY <1>4, <2>1, <2>2
  <1>6. rows'[Len(rows) + 1] = row
    BY <1>4, <1>5
  <1> QED BY <1>2, <1>4, <1>5, <1>6 DEF row


-----------------------------------------------------------------------------
LEMMA NumberingNext ==
  ASSUME TypeOK, Numbering, [Next]_vars
  PROVE  Numbering'
  <1> USE DEF Numbering
  <1>1. ASSUME UNCHANGED <<rows, version>> PROVE Numbering'
    BY <1>1 DEF Numbered, Upserts
  <1>2. ASSUME NEW s \in Sessions, SaveSession(s), NEW t \in Sessions
        PROVE  Numbered(t)'
    <2> DEFINE new == Len(rows) + 1
    <2>1. /\ DOMAIN rows' = DOMAIN rows \cup {new}
          /\ new \notin DOMAIN rows
          /\ \A r \in DOMAIN rows : r < new
          /\ rows'[new] = [session |-> s, op |-> "session.upsert", expected |-> version[s]]
          /\ version' = [version EXCEPT ![s] = @ + 1]
      BY <1>2, NewRow
    <2>2. \A r \in DOMAIN rows : rows'[r] = rows[r]
      BY <1>2, NewRow, SaveEffect
    <2>3. /\ version[s] \in Nat /\ new \in Nat /\ DOMAIN rows \subseteq Nat
          /\ \A r \in DOMAIN rows : rows[r].expected \in Nat
      BY RowsTyped DEF TypeOK
    <2> HIDE DEF new
    <2>4. rows'[new].session = s /\ rows'[new].op = "session.upsert" /\ rows'[new].expected = version[s]
      BY <2>1
    <2>5. CASE t = s
      <3>1. Upserts(s)' = Upserts(s) \cup {new}
        BY <2>1, <2>2, <2>4 DEF Upserts
      <3>2. Upserts(s) \subseteq DOMAIN rows
        BY DEF Upserts
      <3>3. version'[s] = version[s] + 1
        BY <2>1 DEF TypeOK
      <3>4. \A r \in Upserts(s)' : rows'[r].expected < version'[s]
        BY <2>2, <2>3, <2>4, <3>1, <3>2, <3>3 DEF Numbered
      <3>5. \A q, r \in Upserts(s)' : q < r => rows'[q].expected < rows'[r].expected
        <4> SUFFICES ASSUME NEW q \in Upserts(s)', NEW r \in Upserts(s)', q < r
                     PROVE  rows'[q].expected < rows'[r].expected
          OBVIOUS
        <4>1. q \in Upserts(s)
          BY <2>1, <2>3, <3>1, <3>2
        <4>2. CASE r = new
          BY <2>2, <2>4, <3>2, <4>1, <4>2 DEF Numbered
        <4>3. CASE r \in Upserts(s)
          BY <2>2, <3>2, <4>1, <4>3 DEF Numbered
        <4> QED BY <3>1, <4>2, <4>3
      <3>6. \A v \in Nat : v < version'[s] => \E r \in Upserts(s)' : rows'[r].expected = v
        <4> SUFFICES ASSUME NEW v \in Nat, v < version[s] + 1
                     PROVE  \E r \in Upserts(s)' : rows'[r].expected = v
          BY <3>3
        <4>1. CASE v = version[s]
          BY <2>4, <3>1, <4>1
        <4>2. CASE v < version[s]
          BY <2>2, <3>1, <3>2, <4>2 DEF Numbered
        <4> QED BY <2>3, <4>1, <4>2
      <3>7. \A r \in DOMAIN rows' :
              rows'[r].session = s /\ r \notin Upserts(s)' => \E q \in Upserts(s)' : q < r
        BY <2>1, <2>2, <3>1 DEF Numbered
      <3> QED BY <2>5, <3>4, <3>5, <3>6, <3>7 DEF Numbered
    <2>6. CASE t # s
      <3>1. Upserts(t)' = Upserts(t)
        BY <2>1, <2>2, <2>4, <2>6 DEF Upserts
      <3>2. version'[t] = version[t]
        BY <2>1, <2>6 DEF TypeOK
      <3>3. \A r \in Upserts(t) : rows'[r] = rows[r]
        BY <2>2 DEF Upserts
      <3>4. Numbered(t)
        OBVIOUS
      <3>5. \A r \in DOMAIN rows' :
              rows'[r].session = t /\ r \notin Upserts(t) => \E q \in Upserts(t) : q < r
        BY <2>1, <2>2, <2>4, <2>6, <3>4 DEF Numbered
      <3> QED BY <3>1, <3>2, <3>3, <3>4, <3>5 DEF Numbered
    <2> QED BY <2>5, <2>6
  <1>3. ASSUME NEW s \in Sessions, NEW batch \in Seq(Row), Save(batch),
               version[s] > 0, version' = version,
               \A i \in 1 .. Len(batch) : batch[i].session = s /\ batch[i].op # "session.upsert",
               NEW t \in Sessions
        PROVE  Numbered(t)'
    <2>1. /\ Upserts(t)' = Upserts(t)
          /\ \A r \in DOMAIN rows' \ DOMAIN rows : rows'[r].session = s
      BY <1>3, PlainBatchUpserts
    <2>2. \A r \in DOMAIN rows : rows'[r] = rows[r]
      BY <1>3, SaveEffect
    <2>3. Upserts(t) \subseteq DOMAIN rows
      BY DEF Upserts
    <2>4. Numbered(t)
      OBVIOUS
    <2>5. ASSUME NEW r \in DOMAIN rows', rows'[r].session = t, r \notin Upserts(t)
          PROVE  \E q \in Upserts(t) : q < r
      <3>1. CASE r \in DOMAIN rows
        BY <2>2, <2>4, <2>5, <3>1 DEF Numbered
      <3>2. CASE r \notin DOMAIN rows
        <4>1. t = s
          BY <2>1, <2>5, <3>2
        <4>2. PICK q \in Upserts(t) : TRUE
          BY <1>3, <2>4, <4>1 DEF Numbered, TypeOK
        <4>3. q < r
          BY <1>3, <2>3, <3>2, <4>2, SaveExtends DEF Save, TypeOK
        <4> QED BY <4>3
      <3> QED BY <3>1, <3>2
    <2> QED BY <1>3, <2>1, <2>2, <2>3, <2>4, <2>5 DEF Numbered
  <1>4. ASSUME NEW s \in Sessions, Produce(s) PROVE Numbering'
    BY <1>2, <1>3, <1>4, PlainBatch
  <1>5. ASSUME NEW f \in Flushers, Flush(f) PROVE Numbering'
    BY <1>1, <1>5 DEF Flush, FlushStart, ReplayNext, ReplayBegin, SelectHead, FlushReturn,
                      Delete, journal
  <1>6. ASSUME NEW f \in Flushers, Network(f) PROVE Numbering'
    BY <1>1, <1>6 DEF Network, Accept, Answer, RequestFail, Die, journal
  <1>7. ASSUME NEW r \in DOMAIN rows, NEW p \in Projects, LateArrival(r, p) PROVE Numbering'
    BY <1>1, <1>7 DEF LateArrival, journal
  <1>8. CASE UNCHANGED vars
    BY <1>1, <1>8 DEF vars
  <1> QED BY <1>4, <1>5, <1>6, <1>7, <1>8 DEF Next

(* An application at the connection's project keeps the count. *)
LEMMA ApplyCounted ==
  ASSUME VersionInv, NEW r \in DOMAIN rows, Apply(r, ConnectionProject),
         UNCHANGED <<rows, version>>, NEW s \in Sessions
  PROVE  Counted(s)'
  <1> DEFINE C == ConnectionProject
             t == rows[r].session
  <1>0. TypeOK /\ Numbered(s) /\ Counted(s) /\ C \in Projects
    BY OutboxAssumption DEF VersionInv, OrderInv, Numbering
  <1>1. t \in Sessions /\ rows[r].expected \in Nat
    BY <1>0, RowsTyped
  <1>2. Upserts(s)' = Upserts(s) /\ Upserts(s) \subseteq DOMAIN rows
    BY DEF Upserts
  <1>3. CASE r \in stored[C]
    BY <1>0, <1>2, <1>3 DEF Apply, Counted
  <1>4. CASE r \notin stored[C]
    <2>1. stored'[C] = stored[C] \cup {r}
      BY <1>0, <1>4 DEF Apply, TypeOK
    <2>2. CASE r \in Upserts(s)
      <3>1. t = s /\ rows[r].op = "session.upsert"
        BY <2>2 DEF Upserts
      <3>2. rows[r].expected = svcVersion[C][s]
        BY <1>4, <3>1 DEF Apply, Acceptable
      <3>3. svcVersion'[C][s] = svcVersion[C][s] + 1
        BY <1>0, <1>4, <3>1 DEF Apply, TypeOK
      <3>4. svcVersion[C][s] \in Nat /\ version[s] \in Nat
        BY <1>0 DEF TypeOK
      <3>5. svcVersion'[C][s] <= version[s]
        BY <1>0, <2>2, <3>2, <3>3, <3>4 DEF Numbered
      <3>6. ASSUME NEW q \in Upserts(s)
            PROVE  q \in stored'[C] <=> rows[q].expected < svcVersion'[C][s]
        <4>1. rows[q].expected \in Nat /\ q \in Nat /\ r \in Nat
          BY <1>0, <1>2, RowsTyped DEF TypeOK
        <4>2. rows[q].expected = rows[r].expected => q = r
          BY <1>0, <2>2, <4>1 DEF Numbered
        <4> QED BY <1>0, <2>1, <3>2, <3>3, <3>4, <4>1, <4>2 DEF Counted
      <3> QED BY <1>2, <3>5, <3>6 DEF Counted
    <2>3. CASE r \notin Upserts(s)
      <3>1. svcVersion'[C][s] = svcVersion[C][s]
        BY <1>0, <1>1, <1>4, <2>3 DEF Apply, Upserts, TypeOK
      <3> QED BY <1>0, <1>2, <2>1, <2>3, <3>1 DEF Counted
    <2> QED BY <2>2, <2>3
  <1> QED BY <1>3, <1>4

LEMMA VersionInit == OneProjectOnly /\ Init => VersionInv
  <1> SUFFICES ASSUME Init PROVE VersionInv
    OBVIOUS
  <1>1. OrderInv
    BY OrderInit
  <1>2. ASSUME NEW s \in Sessions PROVE Numbered(s)
    BY DEF Init, Numbered, Upserts
  <1>3. OnlyHere
    BY DEF Init, OnlyHere
  <1>4. ASSUME NEW s \in Sessions PROVE Counted(s)
    BY OutboxAssumption DEF Init, Counted, Upserts
  <1> QED BY <1>1, <1>2, <1>3, <1>4 DEF VersionInv, Numbering

LEMMA VersionNext ==
  ASSUME OneProjectOnly, VersionInv, [Next]_vars
  PROVE  VersionInv'
  <1> DEFINE C == ConnectionProject
  <1>0. TypeOK /\ Busy /\ OrderInv /\ Numbering /\ OnlyHere /\ \A s \in Sessions : Counted(s)
    BY DEF VersionInv, OrderInv
  <1>1. OrderInv' /\ Numbering'
    BY <1>0, OrderNext, NumberingNext
  <1>2. \A f \in Flushers : pc[f] # "idle" => ClientProject(f) = C
    BY <1>0 DEF ClientProject, Busy, OneProjectOnly
  <1> SUFFICES OnlyHere' /\ \A s \in Sessions : Counted(s)'
    BY <1>1 DEF VersionInv
  <1>3. ASSUME UNCHANGED <<rows, version, stored, svcVersion>>
        PROVE  \A s \in Sessions : Counted(s)'
    BY <1>0, <1>3 DEF Counted, Upserts
  <1>4. ASSUME NEW r \in DOMAIN rows, NEW p \in Projects, p = C, Apply(r, p),
               UNCHANGED <<rows, version>>
        PROVE  /\ \A s \in Sessions : Counted(s)'
               /\ \A q \in Projects \ {C} : stored'[q] = {}
    <2>1. \A s \in Sessions : Counted(s)'
      BY <1>4, ApplyCounted
    <2>2. \A q \in Projects \ {C} : stored'[q] = {}
      BY <1>0, <1>4 DEF Apply, OnlyHere, TypeOK
    <2> QED BY <2>1, <2>2
  <1>5. ASSUME NEW s \in Sessions, Produce(s)
        PROVE  OnlyHere' /\ \A t \in Sessions : Counted(t)'
    <2>1. PICK batch \in Seq(Row) : Save(batch)
      BY <1>0, <1>5, BatchesTyped
    <2>2. UNCHANGED service /\ \A r \in DOMAIN rows : rows'[r] = rows[r]
      BY <1>0, <2>1, SaveEffect
    <2>3. OnlyHere'
      BY <1>0, <2>2 DEF OnlyHere, service
    <2>4. CASE SaveSession(s)
      <3> SUFFICES ASSUME NEW t \in Sessions PROVE Counted(t)'
        BY <2>3
      <3> DEFINE new == Len(rows) + 1
      <3>1. /\ DOMAIN rows' = DOMAIN rows \cup {new}
            /\ new \notin DOMAIN rows
            /\ rows'[new] = [session |-> s, op |-> "session.upsert", expected |-> version[s]]
            /\ version' = [version EXCEPT ![s] = @ + 1]
        BY <1>0, <2>4, NewRow
      <3> HIDE DEF new
      <3>2. svcVersion[C][t] \in Nat /\ version[t] \in Nat /\ svcVersion[C][t] <= version[t]
        BY <1>0, OutboxAssumption DEF TypeOK, Counted
      <3>3. svcVersion'[C][t] <= version'[t]
        BY <1>0, <2>2, <3>1, <3>2 DEF service, TypeOK
      <3>4. ASSUME NEW r \in Upserts(t)'
            PROVE  r \in stored'[C] <=> rows'[r].expected < svcVersion'[C][t]
        <4>1. CASE r \in DOMAIN rows
          <5>1. r \in Upserts(t)
            BY <1>0, <2>1, <4>1, UpsertsGrow
          <5> QED BY <1>0, <2>2, <4>1, <5>1 DEF Counted, service
        <4>2. CASE r = new
          <5>1. rows'[r].session = s /\ rows'[r].expected = version[s]
            BY <3>1, <4>2
          <5>2. t = s
            BY <5>1 DEF Upserts
          <5>3. new \notin stored[C]
            BY <1>0, <3>1, OutboxAssumption DEF TypeOK
          <5> QED BY <2>2, <3>2, <4>2, <5>1, <5>2, <5>3 DEF service
        <4>3. r \in DOMAIN rows'
          BY DEF Upserts
        <4> QED BY <3>1, <4>1, <4>2, <4>3
      <3> QED BY <3>3, <3>4 DEF Counted
    <2>5. CASE ~SaveSession(s)
      <3>1. version' = version /\ \A t \in Sessions : Upserts(t)' = Upserts(t)
        BY <1>0, <1>5, <2>5, PlainBatch, PlainBatchUpserts
      <3>2. \A t \in Sessions : Upserts(t) \subseteq DOMAIN rows
        BY DEF Upserts
      <3>3. \A t \in Sessions : Counted(t)'
        BY <1>0, <2>2, <3>1, <3>2 DEF Counted, service
      <3> QED BY <2>3, <3>3
    <2> QED BY <2>4, <2>5
  <1>6. ASSUME NEW f \in Flushers, Flush(f)
        PROVE  OnlyHere' /\ \A s \in Sessions : Counted(s)'
    <2>1. UNCHANGED <<rows, version, stored, svcVersion, wire>>
      BY <1>6 DEF Flush, FlushStart, ReplayNext, ReplayBegin, SelectHead, FlushReturn,
                  Delete, journal, service
    <2> QED BY <1>0, <1>3, <2>1 DEF OnlyHere
  <1>7. ASSUME NEW f \in Flushers, Network(f)
        PROVE  OnlyHere' /\ \A s \in Sessions : Counted(s)'
    <2>1. CASE Accept(f)
      <3>1. /\ pc[f] = "request" /\ Apply(held[f], ClientProject(f))
            /\ UNCHANGED <<rows, version, wire>>
        BY <2>1 DEF Accept, Move, journal
      <3>2. held[f] \in DOMAIN rows /\ ClientProject(f) = C /\ C \in Projects
        BY <1>0, <1>2, <3>1, OutboxAssumption DEF Busy
      <3> QED BY <1>0, <1>4, <3>1, <3>2 DEF OnlyHere
    <2>2. CASE Answer(f)
      BY <1>0, <1>3, <2>2 DEF Answer, OnlyHere, journal, service
    <2>3. ASSUME pc[f] # "idle", Abandon(f), UNCHANGED journal, UNCHANGED <<stored, svcVersion>>
          PROVE  OnlyHere' /\ \A s \in Sessions : Counted(s)'
      <3>1. \A req \in wire' : req[2] = C
        BY <1>0, <1>2, <2>3 DEF Abandon, OnlyHere
      <3> QED BY <1>0, <1>3, <2>3, <3>1 DEF OnlyHere, journal
    <2>4. CASE RequestFail(f)
      BY <2>3, <2>4 DEF RequestFail
    <2>5. CASE Die(f)
      BY <2>3, <2>5 DEF Die
    <2> QED BY <1>7, <2>1, <2>2, <2>4, <2>5 DEF Network
  <1>8. ASSUME NEW r \in DOMAIN rows, NEW p \in Projects, LateArrival(r, p)
        PROVE  OnlyHere' /\ \A s \in Sessions : Counted(s)'
    <2>1. /\ p = C /\ Apply(r, p) /\ UNCHANGED <<rows, version>> /\ wire' \subseteq wire
      BY <1>0, <1>8 DEF LateArrival, OnlyHere, journal
    <2> QED BY <1>0, <1>4, <2>1 DEF OnlyHere
  <1>9. CASE UNCHANGED vars
    BY <1>0, <1>3, <1>9 DEF vars, OnlyHere
  <1> QED BY <1>5, <1>6, <1>7, <1>8, <1>9 DEF Next

LEMMA VersionAlways == OneProjectOnly => (Spec => []VersionInv)
  <1> SUFFICES ASSUME OneProjectOnly PROVE Spec => []VersionInv
    OBVIOUS
  <1>1. Init => VersionInv
    BY VersionInit
  <1>2. VersionInv /\ [Next]_vars => VersionInv'
    BY VersionNext
  <1> QED BY <1>1, <1>2, PTL DEF Spec

-----------------------------------------------------------------------------
LEMMA AppliedHere ==
  ASSUME VersionInv
  PROVE  Applied = stored[ConnectionProject]
  BY OutboxAssumption DEF VersionInv, OrderInv, OnlyHere, TypeOK, Applied

(* A request whose predecessors are applied the service has, or can take. *)
LEMMA NextInLine ==
  ASSUME VersionInv, NEW r \in DOMAIN rows, Earlier(r) \subseteq Applied,
         r \notin stored[ConnectionProject]
  PROVE  Acceptable(r, ConnectionProject)
  <1> DEFINE C == ConnectionProject
             s == rows[r].session
             current == svcVersion[C][s]
  <1>0. TypeOK /\ Applied = stored[C]
    BY AppliedHere DEF VersionInv, OrderInv
  <1>1. s \in Sessions /\ rows[r].expected \in Nat
    BY <1>0, RowsTyped
  <1>2. Numbered(s) /\ Counted(s)
    BY <1>1 DEF VersionInv, Numbering
  <1>3. current \in Nat /\ version[s] \in Nat
    BY <1>0, <1>1, OutboxAssumption DEF TypeOK
  <1>4. \A q \in Upserts(s) : q < r => rows[q].expected < current
    BY <1>0, <1>2 DEF Upserts, Earlier, Counted
  <1>5. CASE r \in Upserts(s)
    <2>1. current <= rows[r].expected
      BY <1>1, <1>2, <1>3, <1>5 DEF Counted
    <2>2. ASSUME current < rows[r].expected PROVE FALSE
      <3>1. current < version[s]
        BY <1>1, <1>2, <1>3, <1>5, <2>2 DEF Numbered
      <3>2. PICK q \in Upserts(s) : rows[q].expected = current
        BY <1>2, <1>3, <3>1 DEF Numbered
      <3>3. q \in Nat /\ r \in Nat
        BY <1>0 DEF Upserts, TypeOK
      <3>4. ~(r < q) /\ q # r
        BY <1>1, <1>2, <1>3, <1>5, <2>2, <3>2 DEF Numbered
      <3>5. q < r
        BY <3>3, <3>4
      <3> QED BY <1>3, <1>4, <3>2, <3>5
    <2>3. rows[r].expected = current
      BY <1>1, <1>3, <2>1, <2>2
    <2> QED BY <1>5, <2>3 DEF Acceptable, Upserts
  <1>6. CASE r \notin Upserts(s)
    <2>1. PICK q \in Upserts(s) : q < r
      BY <1>2, <1>6 DEF Numbered
    <2>2. rows[q].expected \in Nat /\ rows[q].expected < current
      BY <1>0, <1>4, <2>1, RowsTyped DEF Upserts
    <2>3. rows[r].op # "session.upsert" /\ current > 0
      BY <1>3, <1>6, <2>2 DEF Upserts
    <2> QED BY <2>3 DEF Acceptable
  <1> QED BY <1>5, <1>6

(* No request of the outbox meets a version conflict or a missing session:
   not those of overlapping flushes, nor a repeat, nor one that arrives after
   its sender gave up.  The hypothesis is the one replay_pending makes. *)
THEOREM NeverConflicts == OneProjectOnly => (Spec => []NoConflict)
  <1> SUFFICES ASSUME OneProjectOnly PROVE Spec => []NoConflict
    OBVIOUS
  <1>1. ASSUME VersionInv PROVE NoConflict
    <2> DEFINE C == ConnectionProject
    <2>0. TypeOK /\ Busy /\ HeldInOrder /\ WireInOrder /\ OnlyHere
      BY <1>1 DEF VersionInv, OrderInv
    <2>1. ASSUME NEW req \in wire
          PROVE  req[1] \in stored[req[2]] \/ Acceptable(req[1], req[2])
      <3>1. req[1] \in DOMAIN rows /\ req[2] = C /\ Earlier(req[1]) \subseteq Applied
        BY <2>0, <2>1 DEF TypeOK, OnlyHere, WireInOrder
      <3> QED BY <1>1, <3>1, NextInLine
    <2>2. ASSUME NEW f \in Flushers, pc[f] = "request"
          PROVE  held[f] \in stored[ClientProject(f)] \/ Acceptable(held[f], ClientProject(f))
      <3>1. held[f] \in DOMAIN rows /\ Earlier(held[f]) \subseteq Applied
        BY <2>0, <2>2 DEF Busy, HeldInOrder, Holding
      <3>2. ClientProject(f) = C
        BY <2>0, <2>2 DEF Busy, ClientProject, OneProjectOnly
      <3> QED BY <1>1, <3>1, <3>2, NextInLine
    <2> QED BY <2>1, <2>2 DEF NoConflict, InFlight
  <1> QED BY VersionAlways, <1>1, PTL

(* A journal with nothing left to send for a session agrees with the service
   on the version of the session's record. *)
THEOREM AgreesWhenDrained == OneProjectOnly => (Spec => []CaughtUp)
  <1> SUFFICES ASSUME OneProjectOnly PROVE Spec => []CaughtUp
    OBVIOUS
  <1>1. ASSUME VersionInv, NEW s \in Sessions, Pending(s) = {}
        PROVE  svcVersion[ProjectOf[s]][s] = version[s]
    <2> DEFINE C == ConnectionProject
               current == svcVersion[C][s]
    <2>0. TypeOK /\ NothingLost /\ Applied = stored[C] /\ Numbered(s) /\ Counted(s)
      BY <1>1, AppliedHere DEF VersionInv, OrderInv, Numbering
    <2>1. current \in Nat /\ version[s] \in Nat /\ current <= version[s]
      BY <2>0, OutboxAssumption DEF TypeOK, Counted
    <2>2. ASSUME current < version[s] PROVE FALSE
      <3>1. PICK r \in Upserts(s) : rows[r].expected = current
        BY <2>0, <2>1, <2>2 DEF Numbered
      <3>2. r \in stored[C]
        BY <1>1, <2>0, <3>1 DEF NothingLost, Pending, Upserts
      <3> QED BY <2>0, <2>1, <3>1, <3>2 DEF Counted
    <2>3. current = version[s]
      BY <2>1, <2>2
    <2> QED BY <2>3 DEF OneProjectOnly
  <1>2. VersionInv => CaughtUp
    BY <1>1 DEF CaughtUp
  <1> QED BY VersionAlways, <1>2, PTL
=============================================================================
