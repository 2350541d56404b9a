-------------------------- MODULE MCRegisteredAgent --------------------------
(* Instances of RegisteredAgent for TLC.                                     *)
EXTENDS RegisteredAgent

CONSTANTS j1, j2, p1, p2, p3

TwoJobs == {j1, j2}
ThreePartnerOrders == {p1, p2, p3}
=============================================================================
