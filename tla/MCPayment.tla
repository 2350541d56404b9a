------------------------------ MODULE MCPayment ------------------------------
(* Instances of Payment for TLC: a fee estimate of 2 and final totals around *)
(* it; any mix of two sessions.                                              *)
EXTENDS Payment, TLC

CONSTANTS s1, s2

TwoSessions == {s1, s2}
Alike == Permutations(TwoSessions)
NoQuotes == {}
Oldest == {1}
Reduced == {1}
Raised == {2}
Raises == {"failed"}
RaisesOrDies == {"failed", "processing"}
=============================================================================
