----------------------------- MODULE LiveAudits -----------------------------
(***************************************************************************)
(* What watches that a live session agrees with its broker: the reconciler *)
(* and the drift auditor.                                                  *)
(*                                                                         *)
(* Every so many ticks or seconds the main thread reads the broker's open  *)
(* orders and compares them with the executor's resting orders.  It only   *)
(* reports (mode alert_only).  The broker answers for one moment and the   *)
(* main thread does nothing in between, so a comparison is one step.       *)
(* Orders without a reference are still on their way and are not compared. *)
(*                                                                         *)
(* For every fill of an order that has a reference the auditor keeps a     *)
(* snapshot and asks the broker for the trades of that order; the answer   *)
(* ends the audit, whatever it says.                                       *)
(***************************************************************************)
EXTENDS Naturals

CONSTANT Audit   \* DriftAuditConfig.enabled

ASSUME AuditAssumption == Audit \in BOOLEAN

VARIABLES
    recon,   \* the last comparison: the references it complained about
    audits   \* _pending_audits: the reference of every order under audit

-----------------------------------------------------------------------------
(* Reconciler *)

NothingReported == [ghosts |-> {}, orphans |-> {}]

IsClean(r) == r.ghosts = {} /\ r.orphans = {}

\* Mutant: the two sides of the comparison are swapped.
GhostOrdersSwapped(brokerOrders, localRefs) ==
  {ref \in localRefs : ref \notin DOMAIN brokerOrders}

\* Orders at the broker that no resting order of the executor has as its own.
GhostOrders(brokerOrders, localRefs) ==
  {ref \in DOMAIN brokerOrders : ref \notin localRefs}

\* Mutant: orders that were found missing once are still counted.
OrphanOrdersKept(brokerOrders, localRefs) ==
  recon.orphans \cup {ref \in localRefs : ref \notin DOMAIN brokerOrders}

\* Resting orders that the broker no longer has.
OrphanOrders(brokerOrders, localRefs) ==
  {ref \in localRefs : ref \notin DOMAIN brokerOrders}

\* _diff. A limit order of the executor keeps its price outside the fields
\* that _order_is_stale compares, and its lots never change: no pair is stale.
Diff(brokerOrders, localRefs) ==
  [ghosts |-> GhostOrders(brokerOrders, localRefs),
   orphans |-> OrphanOrders(brokerOrders, localRefs)]

\* reconcile, with _handle_result.
ReconcileWith(brokerOrders, localRefs) == recon' = Diff(brokerOrders, localRefs)

-----------------------------------------------------------------------------
(* DriftAuditor *)

NoAudits == [i \in {} |-> 0]

\* _on_order_outcome takes a fill of an order that has a reference.
Audits(ref) == Audit /\ ref # 0

AuditBegins(i, ref) ==
  [j \in DOMAIN audits \cup {i} |-> IF j = i THEN ref ELSE audits[j]]

\* Mutant: an answer that failed returns before the snapshot is taken out.
AuditEndsIfAnswered(i, answered) ==
  audits' = [j \in (IF answered THEN DOMAIN audits \ {i} ELSE DOMAIN audits) |-> audits[j]]

\* _on_trades_response: the snapshot is taken out first; a failed or empty
\* answer only means that nothing is compared.
AuditEnds(i, answered) ==
  audits' = [j \in DOMAIN audits \ {i} |-> audits[j]]
=============================================================================
