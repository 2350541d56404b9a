--------------------------- MODULE MCFilingSystem ---------------------------
(* Instances of FilingSystem for TLC: an annual report in Texas, formations  *)
(* in California and Nevada.                                                 *)
EXTENDS FilingSystem, TLC

CONSTANTS o1, o2

OneOrder == {o1}
AFormation == o1 :> "formation"
AnAnnualReport == o1 :> "annual_report"
InTexas == o1 :> "TX"
InCalifornia == o1 :> "CA"
TwoOrders == {o1, o2}
TwoFormations == o1 :> "formation" @@ o2 :> "formation"
InCaliforniaAndNevada == o1 :> "CA" @@ o2 :> "NV"
NoOrder == {}
FormationKinds == {"submitted_receipt", "approved_certificate", "state_correspondence"}

\* For an annual report any of the four terminal kinds will do.
AnnualKinds == {"submitted_receipt"} \cup TerminalArtifacts("annual_report")

\* The moves an operator makes around a filing the workers are polling.
WorkQueue ==
  { "ready_to_file", "automation_started", "operator_required",
    "pending_government_review", "rejected_or_needs_correction" }

\* Without the rejection, which the Texas instance keeps.
FilingQueue == WorkQueue \ {"rejected_or_needs_correction"}

\* Without the status only California selects, and with the later targets, among
\* them an alias the workers select and one that is as strong as an approval.
WholeLine ==
  (WorkQueue \ {"automation_started"})
    \cup {"submitted_to_state", "approved", "ein_received", "complete"}

\* No action reads another order's rows, so one order at a time will do.
Untouched(o) ==
  /\ order[o] = "none" /\ job[o] = "none" /\ funds[o] = "none"
  /\ ~confirmed[o] /\ artifacts[o] = {} /\ ~prepping[o] /\ filed[o] = 0
  /\ \A r \in Runs : run[o][r] = "idle"
  /\ \A w \in Workers : seen[w][o] = "idle"

OneAtATime == \A p, q \in Orders : p = q \/ Untouched(p) \/ Untouched(q)
=============================================================================
