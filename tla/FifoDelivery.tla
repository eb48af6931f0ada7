---------------------------- MODULE FifoDelivery ----------------------------
(***************************************************************************)
(* What the durable outbox promises its users, with no machinery: rows are *)
(* submitted for sessions, and every row takes effect at most once and only *)
(* after all the rows submitted before it for the same session.            *)
(* docs/architecture/ARCHITECTURE.md: "strictly ordered and stops at its   *)
(* first failure, so nothing is reordered or silently dropped".            *)
(***************************************************************************)
EXTENDS Naturals, Sequences

CONSTANT Row        \* the rows that may be submitted, each with a session

VARIABLES
  rows,             \* every row ever submitted, in submission order
  delivered         \* the positions in rows that have taken effect

vars == <<rows, delivered>>

TypeOK ==
  /\ rows \in Seq(Row)
  /\ delivered \subseteq DOMAIN rows

Earlier(r) == {q \in DOMAIN rows : q < r /\ rows[q].session = rows[r].session}

Init == rows = <<>> /\ delivered = {}

(* One transaction of the client submits a batch of rows. *)
Submit ==
  /\ rows' \in Seq(Row)
  /\ Len(rows') > Len(rows)
  /\ \A r \in DOMAIN rows : rows'[r] = rows[r]
  /\ UNCHANGED delivered

(* Row r takes effect: it had not before, and all its predecessors had. *)
Deliver(r) ==
  /\ r \notin delivered
  /\ Earlier(r) \subseteq delivered
  /\ delivered' = delivered \cup {r}
  /\ UNCHANGED rows

Next == Submit \/ \E r \in DOMAIN rows : Deliver(r)

Spec == Init /\ [][Next]_vars
=============================================================================
