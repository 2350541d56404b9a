--------------------------- MODULE MCResearchQueue ---------------------------
(* Two states, one with a productization job that comes second by priority,  *)
(* a daemon and an operator's run.                                          *)
EXTENDS ResearchQueue

TheStateOf == [j \in Jobs |-> IF j = "other" THEN "TX" ELSE "NV"]
ThePlaces == [j \in Jobs |->
  CASE j = "map" -> 1 [] j = "product" -> 2 [] j = "other" -> 3]
=============================================================================
