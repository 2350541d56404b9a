--------------------------- MODULE FilingEvidence ---------------------------
(***************************************************************************)
(* What the filing system promises of every filing, without its statuses,  *)
(* endpoints and workers: evidence is append-only, and a filing is shown   *)
(* as submitted or settled only while the evidence for it is on file.      *)
(***************************************************************************)
CONSTANT Orders

VARIABLES
  stage,     \* "open", "submitted" or "settled"
  evidence   \* what is on file for each order

EvidenceKinds == {"confirmation", "receipt", "terminal"}

Needs ==
  [ open |-> {}, submitted |-> {"confirmation", "receipt"}, settled |-> EvidenceKinds ]

Init ==
  /\ stage = [o \in Orders |-> "open"]
  /\ evidence = [o \in Orders |-> {}]

\* Record evidence, show another stage, or both.
Step(o) ==
  \E s \in DOMAIN Needs :
    /\ stage' = [stage EXCEPT ![o] = s]
    /\ \E new \in SUBSET EvidenceKinds :
         /\ Needs[s] \subseteq evidence[o] \cup new
         /\ evidence' = [evidence EXCEPT ![o] = @ \cup new]

Next == \E o \in Orders : Step(o)

Spec == Init /\ [][Next]_<<stage, evidence>>
=============================================================================
