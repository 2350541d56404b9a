--------------------------- MODULE MCOperatorQueue ---------------------------
(* Instances of OperatorQueue for TLC.                                        *)
EXTENDS OperatorQueue, TLC

CONSTANTS t1, t2, r1, r2

TwoTickets == {t1, t2}
TwoRuns == {r1, r2}
OneTicket == {t1}
OneRun == {r1}

\* A filing before, in and after an operator's hands.
Passing == {"ready_to_file", "state_approved", "complete"}

Alike == Permutations({t1, t2}) \cup Permutations({r1, r2})
=============================================================================
