----------------------------- MODULE MCAccounts -----------------------------
(* Instances of Accounts for TLC.                                            *)
EXTENDS Accounts

CONSTANTS a1, a2, o1, o2, l1, c1, s1, s2

TwoSpellings == {a1, a2}
TwoOrders == {o1, o2}
OneLink == {l1}
OneChallenge == {c1}
TwoSessions == {s1, s2}
=============================================================================
