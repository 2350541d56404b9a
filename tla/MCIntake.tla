------------------------------ MODULE MCIntake ------------------------------
(* Instances of Intake for TLC.                                              *)
EXTENDS Intake, TLC

CONSTANTS o1, o2, q1, q2, s1, s2, e1

TwoOrders == {o1, o2}
TwoQuotes == {q1, q2}
TwoSessions == {s1, s2}
OneExternal == {e1}
Alike ==
  Permutations(TwoOrders) \cup Permutations(TwoQuotes) \cup Permutations(TwoSessions)
=============================================================================
