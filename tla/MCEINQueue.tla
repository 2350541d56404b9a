----------------------------- MODULE MCEINQueue -----------------------------
(* An instance of EINQueue for TLC: one order, as no action reads another's. *)
EXTENDS EINQueue

CONSTANTS o1

OneOrder == {o1}
=============================================================================
