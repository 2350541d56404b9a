---------------------------- MODULE MCFilingJob ----------------------------
(* An instance of FilingJob for TLC: a formation with the partner's agent    *)
(* and an annual report.                                                     *)
EXTENDS FilingJob, TLC

CONSTANTS o1, o2

TwoOrders == {o1, o2}
TheFormation == {o1}
ActionTypeOf == o1 :> "formation" @@ o2 :> "annual_report"

\* The line from the queue to completion with its recovery branch.
MainLine ==
  { "ready_to_file", "operator_required", "submitted", "approved",
    "documents_collected", "customer_notified", "complete",
    "needs_evidence_reverification", "ein_received" }

\* Receipt and approval, which serve a formation and an annual report.
FormationKinds == {"submitted_receipt", "approved_certificate"}

\* No action reads another order's rows, so one order at a time will do.
Untouched(o) ==
  LET s == IF o \in RAOrders THEN "pending_payment" ELSE "none"
  IN  /\ order[o] = s /\ job[o] = s /\ funds[o] = "none"
      /\ ~confirmed[o] /\ artifacts[o] = {} /\ ~prepping[o]
      /\ \A r \in Runs : run[o][r] = "idle"

OneAtATime == \A p, q \in Orders : p = q \/ Untouched(p) \/ Untouched(q)
=============================================================================
