---------------------------- MODULE FilingProofs ----------------------------
(***************************************************************************)
(* Type correctness and the evidence invariants of FilingJob, the server   *)
(* alone, for every set of orders, action type, target status and number   *)
(* of pipelines; then the same for FilingSystem, the server with the       *)
(* worker processes, and that the two implement FilingEvidence.            *)
(***************************************************************************)
EXTENDS FilingSystem, TLAPS

\* The statuses the code writes are statuses of the model.
LEMMA StatusFacts ==
  /\ JobStatuses \subseteq OrderStatuses
  /\ {"pending_payment", "paid", "preparing", "generating_documents",
      "ready_to_file", "operator_required", "payment_required", "error",
      "submitted", "submitted_to_state", "approved", "state_approved",
      "complete", "ein_pending", "ein_received", "operator_review",
      "pending_state_review", "received_needs_sosdirect_check"} \subseteq JobStatuses
  /\ {"payment_authorized", "payment_captured", "refund_recorded"} \subseteq OrderStatuses
  /\ {"submitted_receipt", "approved_certificate", "state_correspondence",
      "registered_agent_assignment"} \subseteq ArtifactTypes
  /\ \A a \in ActionTypes : TerminalArtifacts(a) \subseteq ArtifactTypes
BY DEF JobStatuses, OrderStatuses, UNIVERSAL_FILING_STATES,
       LEGACY_STATUS_ALIASES, WorkerStatuses, ArtifactTypes, TerminalArtifacts,
       ActionTypes

\* What the payment webhooks write keeps to the types.
LEMMA PaymentKeepsType ==
  ASSUME TypeOK, NEW o \in Orders, PaymentStep(o)
  PROVE  TypeOK'
<1> USE StatusFacts DEF TypeOK, FundStates, RunStates, SetOrder, NoEvidence, jobVars
<1>1. CASE create_formation(o) BY <1>1 DEF create_formation
<1>2. CASE PaymentAuthorized(o)
  <2>1. funds' \in [Orders -> FundStates]
    BY <1>2 DEF PaymentAuthorized, KeepCapture
  <2>2. run' \in [Orders -> [Runs -> RunStates]]
    <3>1. StartPipeline(o) \/ UNCHANGED run BY <1>2, Zenon DEF PaymentAuthorized
    <3>2. CASE StartPipeline(o) BY <3>2 DEF StartPipeline
    <3>3. CASE UNCHANGED run BY <3>3
    <3> QED BY <3>1, <3>2, <3>3
  <2>3. /\ order' \in [Orders -> OrderStatuses \cup {"none"}]
        /\ job' \in [Orders -> JobStatuses \cup {"none"}]
    <3>1. CASE /\ SetOrder(o, "payment_authorized")
               /\ UNCHANGED job
      BY <3>1
    <3>2. CASE /\ SetOrder(o, "ready_to_file")
               /\ job' = [job EXCEPT ![o] = "ready_to_file"]
      BY <3>2
    <3> QED BY <1>2, <3>1, <3>2, Zenon DEF PaymentAuthorized
  <2> QED BY <1>2, <2>1, <2>2, <2>3 DEF PaymentAuthorized
<1>3. CASE AdditionalAuthorized(o) BY <1>3 DEF AdditionalAuthorized, KeepCapture
<1>4. CASE PaymentPaid(o) BY <1>4 DEF PaymentPaid, KeepCapture, StartPipeline
<1>5. CASE CartCaptured(o) BY <1>5 DEF CartCaptured, StartPipeline
<1>6. CASE PaymentCaptured(o) BY <1>6 DEF PaymentCaptured
<1>7. CASE PaymentCanceled(o) BY <1>7 DEF PaymentCanceled
<1>8. CASE PaymentRefunded(o) BY <1>8 DEF PaymentRefunded
<1> QED BY <1>1, <1>2, <1>3, <1>4, <1>5, <1>6, <1>7, <1>8 DEF PaymentStep

\* So does each step of a formation pipeline, its except branch included.
LEMMA PipelineKeepsType ==
  ASSUME TypeOK, NEW o \in Orders, NEW r \in Runs,
         PipelineProgress(o, r) \/ PipelineError(o, r) \/ PipelineLost(o, r)
  PROVE  TypeOK'
<1> USE StatusFacts DEF TypeOK, RunStates, SetOrder, NoEvidence, jobVars, Advance
<1>1. CASE PipelinePrepare(o, r) BY <1>1 DEF PipelinePrepare, SetFormationJob
<1>2. CASE PipelineGenerate(o, r) BY <1>2 DEF PipelineGenerate
<1>3. CASE PipelineQueue(o, r) BY <1>3 DEF PipelineQueue, SetFormationJob
<1>4. CASE PipelineDone(o, r) BY <1>4 DEF PipelineDone
<1>5. CASE PipelineError(o, r) BY <1>5 DEF PipelineError, AtWork
<1>6. CASE PipelineLost(o, r) BY <1>6 DEF PipelineLost, AtWork
<1> QED BY <1>1, <1>2, <1>3, <1>4, <1>5, <1>6 DEF PipelineProgress

\* So do filing prep and the assignment of the registered agent.
LEMMA PrepKeepsType ==
  ASSUME TypeOK, NEW o \in Orders, PrepStep(o)
  PROVE  TypeOK'
<1> USE StatusFacts DEF TypeOK, jobVars, Attach
<1>1. CASE prepare_order_start(o) BY <1>1 DEF prepare_order_start
<1>2. CASE prepare_order_finish(o) BY <1>2 DEF prepare_order_finish
<1>3. CASE refresh_ready_after_ra(o) BY <1>3 DEF refresh_ready_after_ra
<1> QED BY <1>1, <1>2, <1>3 DEF PrepStep

\* So do the operator's endpoints: a target comes from Targets, a kind from Kinds.
LEMMA OperatorKeepsType ==
  ASSUME TypeOK, NEW o \in Orders, OperatorStep(o)
  PROVE  TypeOK'
<1> USE StatusFacts, ConstantsAssumption
    DEF TypeOK, SetOrder, SetJob, NoEvidence, jobVars, Attach, Confirm,
        OperatorUnchanged, apply_filing_confirmation
<1>1. ASSUME NEW t \in Targets, NEW e \in BOOLEAN, NEW g \in BOOLEAN,
             transition_filing_job(o, t, e, g)
      PROVE  TypeOK'
  BY <1>1 DEF transition_filing_job
<1>2. ASSUME NEW k \in Kinds, add_filing_evidence(o, k)
      PROVE  TypeOK'
  BY <1>2 DEF add_filing_evidence
<1>3. ASSUME NEW g \in BOOLEAN, mark_filing_submitted(o, g)
      PROVE  TypeOK'
  BY <1>3 DEF mark_filing_submitted
<1>4. ASSUME NEW g \in BOOLEAN, mark_filing_approved(o, g)
      PROVE  TypeOK'
  BY <1>4 DEF mark_filing_approved
<1>5. ASSUME NEW k \in Kinds, NEW g \in BOOLEAN, mark_annual_report_complete(o, k, g)
      PROVE  TypeOK'
  BY <1>5 DEF mark_annual_report_complete
<1>6. CASE autopilot_intervention(o) BY <1>6 DEF autopilot_intervention
<1>7. CASE ein_status(o) BY <1>7 DEF ein_status
<1> QED BY <1>1, <1>2, <1>3, <1>4, <1>5, <1>6, <1>7 DEF OperatorStep

\* Every step of the server keeps to the types, a restart included.
LEMMA NextKeepsType == ASSUME TypeOK, Next PROVE TypeOK'
<1>1. CASE Crash
  <2>1. run' \in [Orders -> [Runs -> RunStates]]
    BY <1>1 DEF Crash, TypeOK, RunStates
  <2>2. /\ prepping' \in [Orders -> BOOLEAN]
        /\ crashes' \in 0..MaxCrashes
    BY <1>1, ConstantsAssumption DEF Crash, TypeOK
  <2> QED BY <1>1, <2>1, <2>2 DEF Crash, TypeOK, jobVars
<1>2. ASSUME NEW o \in Orders, OrderStep(o) PROVE TypeOK'
  BY <1>2, PaymentKeepsType, PipelineKeepsType, PrepKeepsType, OperatorKeepsType
  DEF OrderStep
<1> QED BY <1>1, <1>2 DEF Next

\* An empty database, but for the partner-agent orders, is well typed.
LEMMA InitType == Init => TypeOK
BY StatusFacts, ConstantsAssumption DEF Init, TypeOK, FundStates, RunStates, Runs

\* Every variable of the server keeps to its set of values.
THEOREM TypeCorrect == Spec => []TypeOK
<1>1. TypeOK /\ [Next]_vars => TypeOK'
  BY NextKeepsType DEF TypeOK, vars
<1> QED BY InitType, <1>1, PTL DEF Spec

-----------------------------------------------------------------------------
(* The evidence.  Both invariants are inductive together with the types: a   *)
(* step moves one order, never loses evidence of it, and whatever it claims  *)
(* is backed by the trigger or by what the job had claimed before.           *)

Claims == {"submitted"} \cup SettledStates

Unmoved(p) ==
  /\ order'[p] = order[p]
  /\ job'[p] = job[p]
  /\ confirmed'[p] = confirmed[p]
  /\ artifacts'[p] = artifacts[p]

EvidenceGrows(o) ==
  /\ artifacts[o] \subseteq artifacts'[o]
  /\ confirmed[o] => confirmed'[o]

JobBacked(o) ==
  \/ job'[o] = job[o]
  \/ normalize_state(job'[o]) \notin Claims
  \/ normalize_state(job[o]) \in SettledStates
  \/ /\ job'[o] \in SubmittedRaw \cup TerminalRaw
     /\ evidence_invariant(ActionOf[o], job'[o], confirmed'[o], artifacts'[o])

OrderBacked(o) ==
  \/ order'[o] = order[o]
  \/ order'[o] \notin SubmittedRaw \cup TerminalRaw
  \/ evidence_invariant(ActionOf[o], order'[o], confirmed'[o], artifacts'[o])

Moves(o) ==
  /\ \A p \in Orders \ {o} : Unmoved(p)
  /\ EvidenceGrows(o)
  /\ JobBacked(o)
  /\ OrderBacked(o)

\* What the triggers guard is what the normalized statuses claim, but for
\* 'ein_received' and 'customer_notified'.
LEMMA RawFacts ==
  /\ \A s \in SubmittedRaw : normalize_state(s) = "submitted"
  /\ \A s \in TerminalRaw : normalize_state(s) \in SettledStates
  /\ \A s : normalize_state(s) = "submitted" => s \in SubmittedRaw
  /\ \A s : normalize_state(s) \in SettledStates =>
        s \in TerminalRaw \cup {"ein_received", "customer_notified"}
BY DEF SubmittedRaw, TerminalRaw, SettledStates, normalize_state,
       LEGACY_STATUS_ALIASES

\* The statuses that claim nothing, as the code writes them.
LEMMA PlainFacts ==
  \A s \in {"none", "pending_payment", "paid", "preparing", "generating_documents",
            "ready_to_file", "operator_required", "payment_required", "error",
            "operator_review", "pending_state_review", "ein_pending",
            "received_needs_sosdirect_check", "payment_authorized",
            "payment_captured", "refund_recorded"} :
    /\ normalize_state(s) \notin Claims
    /\ s \notin SubmittedRaw \cup TerminalRaw
BY DEF SubmittedRaw, TerminalRaw, SettledStates, Claims, normalize_state,
       LEGACY_STATUS_ALIASES

\* A move of one order keeps the evidence invariants of all of them.
LEMMA MovesKeepEvidence ==
  ASSUME TypeOK, EvidenceInvariant, OrderEvidence, NEW o \in Orders, Moves(o)
  PROVE  EvidenceInvariant' /\ OrderEvidence'
<1>1. ASSUME NEW p \in Orders PROVE JobEvidence(p)'
  <2>1. CASE p # o
    BY <2>1 DEF Moves, Unmoved, EvidenceInvariant, JobEvidence
  <2>2. CASE p = o
    <3> USE <2>2 DEF Moves, EvidenceGrows
    <3>0. JobEvidence(o) BY DEF EvidenceInvariant
    <3>1. CASE job'[o] = job[o] BY <3>0, <3>1 DEF JobEvidence
    <3>2. CASE normalize_state(job'[o]) \notin Claims
      BY <3>2 DEF JobEvidence, Claims
    <3>3. CASE normalize_state(job[o]) \in SettledStates
      BY <3>0, <3>3 DEF JobEvidence
    <3>4. CASE /\ job'[o] \in SubmittedRaw \cup TerminalRaw
               /\ evidence_invariant(ActionOf[o], job'[o], confirmed'[o], artifacts'[o])
      BY <3>4, RawFacts DEF JobEvidence, evidence_invariant, SettledStates
    <3> QED BY <3>1, <3>2, <3>3, <3>4 DEF JobBacked
  <2> QED BY <2>1, <2>2
<1>2. ASSUME NEW p \in Orders
      PROVE  evidence_invariant(ActionOf[p], order'[p], confirmed'[p], artifacts'[p])
  <2>0. evidence_invariant(ActionOf[p], order[p], confirmed[p], artifacts[p])
    BY DEF OrderEvidence
  <2>1. CASE p # o
    BY <2>0, <2>1 DEF Moves, Unmoved
  <2>2. CASE p = o
    BY <2>0, <2>2 DEF Moves, EvidenceGrows, OrderBacked, evidence_invariant
  <2> QED BY <2>1, <2>2
<1> QED BY <1>1, <1>2 DEF EvidenceInvariant, OrderEvidence

\* The two statuses no trigger guards are entered from a settled status only.
LEMMA UnguardedOnlyFromSettled ==
  ASSUME NEW current, NEW target \in {"ein_received", "customer_notified"},
         NEW e \in BOOLEAN, validate_transition(current, target, e)
  PROVE  normalize_state(current) \in SettledStates
<1> DEFINE c == normalize_state(current)
           t == normalize_state(target)
<1>1. t \in {"documents_collected", "customer_notified"}
  BY DEF normalize_state, LEGACY_STATUS_ALIASES
<1>2. c = t \/ (c \in UNIVERSAL_FILING_STATES /\ t \in ALLOWED_TRANSITIONS[c])
  BY DEF validate_transition
<1>3. ASSUME NEW s \in UNIVERSAL_FILING_STATES, NEW u \in ALLOWED_TRANSITIONS[s],
             u \in {"documents_collected", "customer_notified"}
      PROVE  s \in SettledStates
  BY <1>3 DEF UNIVERSAL_FILING_STATES, ALLOWED_TRANSITIONS, SettledStates
<1> QED BY <1>1, <1>2, <1>3 DEF SettledStates

\* The payment webhooks write statuses that claim nothing.
LEMMA PaymentMoves ==
  ASSUME TypeOK, NEW o \in Orders, PaymentStep(o)
  PROVE  Moves(o)
<1> USE PlainFacts DEF TypeOK, Moves, Unmoved, EvidenceGrows, JobBacked,
        OrderBacked, SetOrder, NoEvidence, jobVars
<1>1. CASE create_formation(o) BY <1>1 DEF create_formation
<1>2. CASE PaymentAuthorized(o)
  <2>1. CASE Formation(o) BY <1>2, <2>1 DEF PaymentAuthorized
  <2>2. CASE ~Formation(o) BY <1>2, <2>2 DEF PaymentAuthorized
  <2> QED BY <2>1, <2>2
<1>3. CASE AdditionalAuthorized(o) BY <1>3 DEF AdditionalAuthorized
<1>4. CASE PaymentPaid(o) BY <1>4 DEF PaymentPaid
<1>5. CASE CartCaptured(o) BY <1>5 DEF CartCaptured
<1>6. CASE PaymentCaptured(o) BY <1>6 DEF PaymentCaptured
<1>7. CASE PaymentCanceled(o) BY <1>7 DEF PaymentCanceled
<1>8. CASE PaymentRefunded(o) BY <1>8 DEF PaymentRefunded
<1> QED BY <1>1, <1>2, <1>3, <1>4, <1>5, <1>6, <1>7, <1>8 DEF PaymentStep

\* The pipeline moves a job back to the queue, and drops no evidence.
LEMMA PipelineMoves ==
  ASSUME TypeOK, NEW o \in Orders, NEW r \in Runs,
         PipelineProgress(o, r) \/ PipelineError(o, r) \/ PipelineLost(o, r)
  PROVE  Moves(o)
<1> USE PlainFacts DEF TypeOK, Moves, Unmoved, EvidenceGrows, JobBacked,
        OrderBacked, SetOrder, NoEvidence, jobVars
<1>1. CASE PipelinePrepare(o, r) BY <1>1 DEF PipelinePrepare, SetFormationJob
<1>2. CASE PipelineGenerate(o, r) BY <1>2 DEF PipelineGenerate
<1>3. CASE PipelineQueue(o, r) BY <1>3 DEF PipelineQueue, SetFormationJob
<1>4. CASE PipelineDone(o, r) BY <1>4 DEF PipelineDone
<1>5. CASE PipelineError(o, r) BY <1>5 DEF PipelineError, AtWork
<1>6. CASE PipelineLost(o, r) BY <1>6 DEF PipelineLost, AtWork
<1> QED BY <1>1, <1>2, <1>3, <1>4, <1>5, <1>6 DEF PipelineProgress

\* Filing prep and the registered agent only add evidence and requeue.
LEMMA PrepMoves ==
  ASSUME TypeOK, NEW o \in Orders, PrepStep(o)
  PROVE  Moves(o)
<1> USE PlainFacts DEF TypeOK, Moves, Unmoved, EvidenceGrows, JobBacked,
        OrderBacked, jobVars, Attach
<1>1. CASE prepare_order_start(o) BY <1>1 DEF prepare_order_start
<1>2. CASE prepare_order_finish(o) BY <1>2 DEF prepare_order_finish
<1>3. CASE refresh_ready_after_ra(o) BY <1>3 DEF refresh_ready_after_ra
<1> QED BY <1>1, <1>2, <1>3 DEF PrepStep

\* The endpoints that store one status on job and order, past the trigger.
LEMMA GuardedMoves ==
  ASSUME TypeOK, NEW o \in Orders, NEW s, NEW new, NEW g \in BOOLEAN,
         Attach(o, new), Confirm(o, g) \/ UNCHANGED confirmed,
         SetJob(o, s), SetOrder(o, s),
         \/ s \in SubmittedRaw \cup TerminalRaw
         \/ normalize_state(s) \notin Claims
         \/ normalize_state(job[o]) \in SettledStates
  PROVE  Moves(o)
<1>1. \A p \in Orders \ {o} : Unmoved(p)
  BY DEF Unmoved, TypeOK, Attach, Confirm, SetJob, SetOrder
<1>2. EvidenceGrows(o)
  BY DEF EvidenceGrows, TypeOK, Attach, Confirm
<1>3. /\ job'[o] = s /\ order'[o] = s
      /\ evidence_invariant(ActionOf[o], s, confirmed'[o], artifacts'[o])
  BY DEF SetJob, SetOrder, TypeOK
<1> QED BY <1>1, <1>2, <1>3 DEF Moves, JobBacked, OrderBacked

\* Every operator endpoint either passes the trigger or claims nothing.
LEMMA OperatorMoves ==
  ASSUME TypeOK, NEW o \in Orders, OperatorStep(o)
  PROVE  Moves(o)
<1>1. ASSUME NEW t \in Targets, NEW e \in BOOLEAN, NEW g \in BOOLEAN,
             transition_filing_job(o, t, e, g)
      PROVE  Moves(o)
  <2>1. PICK new : Attach(o, new) BY <1>1, Zenon DEF transition_filing_job
  <2>2. Confirm(o, g) \/ UNCHANGED confirmed
    BY <1>1 DEF transition_filing_job, apply_filing_confirmation
  <2>3. /\ SetJob(o, t) /\ SetOrder(o, t)
        /\ validate_transition(job[o], t, e)
    BY <1>1 DEF transition_filing_job
  <2>4. \/ t \in SubmittedRaw \cup TerminalRaw
        \/ normalize_state(t) \notin Claims
        \/ normalize_state(job[o]) \in SettledStates
    BY <2>3, RawFacts, UnguardedOnlyFromSettled DEF Claims
  <2> QED BY <2>1, <2>2, <2>3, <2>4, GuardedMoves
<1>2. ASSUME NEW k \in Kinds, add_filing_evidence(o, k)
      PROVE  Moves(o)
  BY <1>2 DEF add_filing_evidence, TypeOK, Moves, Unmoved, EvidenceGrows,
              JobBacked, OrderBacked, Attach
<1>3. ASSUME NEW g \in BOOLEAN, mark_filing_submitted(o, g)
      PROVE  Moves(o)
  <2> DEFINE s == IF ActionOf[o] = "annual_report" THEN "submitted" ELSE "submitted_to_state"
  <2>1. /\ Attach(o, {"submitted_receipt"}) /\ SetJob(o, s) /\ SetOrder(o, s)
        /\ Confirm(o, g) \/ UNCHANGED confirmed
    BY <1>3 DEF mark_filing_submitted, apply_filing_confirmation
  <2>2. s \in SubmittedRaw \cup TerminalRaw BY DEF SubmittedRaw
  <2> QED BY <2>1, <2>2, GuardedMoves
<1>4. ASSUME NEW g \in BOOLEAN, mark_filing_approved(o, g)
      PROVE  Moves(o)
  <2> DEFINE s == IF ActionOf[o] = "annual_report" THEN "approved" ELSE "state_approved"
  <2>1. /\ Attach(o, {"approved_certificate"}) /\ SetJob(o, s) /\ SetOrder(o, s)
        /\ Confirm(o, g) \/ UNCHANGED confirmed
    BY <1>4 DEF mark_filing_approved, apply_filing_confirmation
  <2>2. s \in SubmittedRaw \cup TerminalRaw BY DEF TerminalRaw
  <2> QED BY <2>1, <2>2, GuardedMoves
<1>5. ASSUME NEW k \in Kinds, NEW g \in BOOLEAN, mark_annual_report_complete(o, k, g)
      PROVE  Moves(o)
  <2>1. /\ Attach(o, {k}) /\ SetJob(o, "complete") /\ SetOrder(o, "complete")
        /\ Confirm(o, g) \/ UNCHANGED confirmed
    BY <1>5 DEF mark_annual_report_complete, apply_filing_confirmation
  <2>2. "complete" \in SubmittedRaw \cup TerminalRaw BY DEF TerminalRaw
  <2> QED BY <2>1, <2>2, GuardedMoves
<1>6. CASE autopilot_intervention(o)
  BY <1>6, PlainFacts DEF autopilot_intervention, TypeOK, Moves, Unmoved,
     EvidenceGrows, JobBacked, OrderBacked, NoEvidence
<1>7. CASE ein_status(o)
  <2>1. \A s \in {"ein_pending", "ein_received"} : s \notin SubmittedRaw \cup TerminalRaw
    BY DEF SubmittedRaw, TerminalRaw
  <2> QED
    BY <1>7, <2>1 DEF ein_status, TypeOK, Moves, Unmoved, EvidenceGrows,
       JobBacked, OrderBacked, SetOrder, jobVars
<1> QED BY <1>1, <1>2, <1>3, <1>4, <1>5, <1>6, <1>7 DEF OperatorStep

\* Every step of the server moves one order in this sense, or none.
LEMMA NextMoves ==
  ASSUME TypeOK, Next
  PROVE  UNCHANGED <<order, jobVars>> \/ \E o \in Orders : Moves(o)
<1>1. CASE Crash BY <1>1 DEF Crash
<1>2. ASSUME NEW o \in Orders, OrderStep(o) PROVE Moves(o)
  BY <1>2, PaymentMoves, PipelineMoves, PrepMoves, OperatorMoves DEF OrderStep
<1> QED BY <1>1, <1>2 DEF Next

Inv == TypeOK /\ EvidenceInvariant /\ OrderEvidence

\* A step that leaves the four tables alone keeps the invariants.
LEMMA UnmovedKeepsEvidence ==
  ASSUME EvidenceInvariant, OrderEvidence, UNCHANGED <<order, jobVars>>
  PROVE  EvidenceInvariant' /\ OrderEvidence'
BY DEF EvidenceInvariant, OrderEvidence, JobEvidence, jobVars

\* No order claims anything at first.
LEMMA InitEvidence == Init => EvidenceInvariant /\ OrderEvidence
<1> SUFFICES ASSUME Init, NEW o \in Orders
             PROVE  /\ JobEvidence(o)
                    /\ evidence_invariant(ActionOf[o], order[o], confirmed[o], artifacts[o])
  BY DEF EvidenceInvariant, OrderEvidence
<1>1. job[o] \in {"none", "pending_payment"} /\ order[o] \in {"none", "pending_payment"}
  BY DEF Init
<1> QED BY <1>1, PlainFacts DEF JobEvidence, evidence_invariant, Claims

\* The evidence invariants of filing_jobs and of orders hold in every state of
\* the server: no interleaving of webhooks, pipelines, crashes, prep and
\* operators shows a submission or an approval whose evidence is not on file.
THEOREM EvidenceOnFile == Spec => [](EvidenceInvariant /\ OrderEvidence)
<1>1. Init => Inv BY InitType, InitEvidence DEF Inv
<1>2. Inv /\ [Next]_vars => Inv'
  <2>1. CASE Next
    BY <2>1, NextKeepsType, NextMoves, MovesKeepEvidence, UnmovedKeepsEvidence DEF Inv
  <2>2. CASE UNCHANGED vars
    BY <2>2, UnmovedKeepsEvidence DEF Inv, TypeOK, vars, jobVars
  <2> QED BY <2>1, <2>2
<1>3. Inv => EvidenceInvariant /\ OrderEvidence BY DEF Inv
<1> QED BY <1>1, <1>2, <1>3, PTL DEF Spec

-----------------------------------------------------------------------------
(***************************************************************************)
(* The server and the worker processes together.                           *)
(***************************************************************************)

\* The statuses a poller selects are statuses of the model.
LEMMA SelectsFacts ==
  ASSUME NEW w \in Pollers, NEW s \in Selects(w) \cap (JobStatuses \cup {"none"})
  PROVE  s \in JobStatuses
<1>1. s # "none" BY DEF Pollers, Selects, LISTENER_ACTIVE
<1> QED BY <1>1

\* The end of a worker's turn frees its slot and leaves payments alone.
LEMMA FinishKeepsType ==
  ASSUME SysTypeOK, NEW w \in Workers, NEW o \in Orders, Finish(w, o),
         order' \in [Orders -> OrderStatuses \cup {"none"}],
         job' \in [Orders -> JobStatuses \cup {"none"}],
         confirmed' \in [Orders -> BOOLEAN],
         artifacts' \in [Orders -> SUBSET ArtifactTypes]
  PROVE  SysTypeOK'
BY DEF SysTypeOK, TypeOK, Finish

\* What the workers attach and confirm keeps to the types.
LEMMA EvidenceTypes ==
  ASSUME TypeOK, NEW o \in Orders
  PROVE  /\ \A a \in SUBSET ArtifactTypes :
              Attach(o, a) => artifacts' \in [Orders -> SUBSET ArtifactTypes]
         /\ \A g \in BOOLEAN : Confirm(o, g) => confirmed' \in [Orders -> BOOLEAN]
         /\ \A s \in JobStatuses :
              /\ SetJob(o, s) => job' \in [Orders -> JobStatuses \cup {"none"}]
              /\ SetOrder(o, s) => order' \in [Orders -> OrderStatuses \cup {"none"}]
              /\ JobOnly(o, s) => job' \in [Orders -> JobStatuses \cup {"none"}]
         /\ escalate_to_operator_required(o) =>
              /\ job' \in [Orders -> JobStatuses \cup {"none"}]
              /\ order' \in [Orders -> OrderStatuses \cup {"none"}]
<1> USE StatusFacts DEF TypeOK
<1>1. \A a \in SUBSET ArtifactTypes :
        Attach(o, a) => artifacts' \in [Orders -> SUBSET ArtifactTypes]
  BY DEF Attach
<1>2. \A g \in BOOLEAN : Confirm(o, g) => confirmed' \in [Orders -> BOOLEAN]
  BY DEF Confirm
<1>3. ASSUME NEW s \in JobStatuses
      PROVE  /\ SetJob(o, s) => job' \in [Orders -> JobStatuses \cup {"none"}]
             /\ SetOrder(o, s) => order' \in [Orders -> OrderStatuses \cup {"none"}]
             /\ JobOnly(o, s) => job' \in [Orders -> JobStatuses \cup {"none"}]
  BY DEF SetJob, SetOrder, JobOnly
<1>4. escalate_to_operator_required(o) =>
        /\ job' \in [Orders -> JobStatuses \cup {"none"}]
        /\ order' \in [Orders -> OrderStatuses \cup {"none"}]
  BY DEF escalate_to_operator_required, SetOrder
<1> QED BY <1>1, <1>2, <1>3, <1>4

\* What the end of a worker's turn has written to the four tables.
Written ==
  /\ order' \in [Orders -> OrderStatuses \cup {"none"}]
  /\ job' \in [Orders -> JobStatuses \cup {"none"}]
  /\ confirmed' \in [Orders -> BOOLEAN]
  /\ artifacts' \in [Orders -> SUBSET ArtifactTypes]

\* An approval, whichever way the trigger decides.
LEMMA ApproveWrites ==
  ASSUME TypeOK, NEW o \in Orders, NEW otherwise,
         Approve(o, otherwise)
  PROVE  \/ SetJob(o, "state_approved") /\ SetOrder(o, "state_approved")
         \/ otherwise
BY DEF Approve, JobAndOrder

\* The rows a worker commits are well typed, whichever branch it took.
LEMMA WorkerWrites ==
  ASSUME TypeOK, NEW o \in Orders,
         \/ \E w \in Workers : NothingCommitted(w, o)
         \/ \E w \in Pollers : Escalated(w, o)
         \/ listener_check(o) \/ attach_approval_document(o) \/ ca_check_status(o)
         \/ ca_mark_submitted(o) \/ ca_not_submitted(o)
         \/ nv_persist_filing_result(o)
  PROVE  Written
<1> USE EvidenceTypes, StatusFacts DEF TypeOK, Written
<1>1. ASSUME NEW w \in Workers, NothingCommitted(w, o) PROVE Written
  BY <1>1 DEF NothingCommitted, jobVars
<1>2. ASSUME NEW w \in Pollers, Escalated(w, o) PROVE Written
  BY <1>2 DEF Escalated
<1>3. CASE listener_check(o)
  <2>1. UNCHANGED confirmed BY <1>3 DEF listener_check
  <2>2. CASE /\ \E doc \in {{}, {"state_correspondence"}, {"approved_certificate"}} :
                  Attach(o, doc)
             /\ JobOnly(o, "operator_review")
    BY <2>1, <2>2 DEF JobOnly
  <2>3. CASE /\ Attach(o, {"approved_certificate"})
             /\ Approve(o, UNCHANGED <<job, order>>)
    BY <2>1, <2>3, ApproveWrites
  <2>4. CASE UNCHANGED artifacts /\ JobOnly(o, "received_needs_sosdirect_check")
    BY <2>1, <2>4 DEF JobOnly
  <2> QED BY <1>3, <2>2, <2>3, <2>4 DEF listener_check
<1>4. CASE attach_approval_document(o)
  BY <1>4, ApproveWrites DEF attach_approval_document
<1>5. CASE ca_check_status(o)
  <2>1. CASE /\ NoEvidence
             /\ \E s \in {"pending_state_review", "operator_review"} : JobOnly(o, s)
    BY <2>1 DEF JobOnly, NoEvidence
  <2>2. CASE /\ Attach(o, {"approved_certificate"})
             /\ \E found \in BOOLEAN : Confirm(o, found)
             /\ Approve(o, escalate_to_operator_required(o))
    BY <2>2, ApproveWrites
  <2>3. CASE /\ Attach(o, {"state_correspondence"})
             /\ UNCHANGED <<job, order, confirmed>>
    BY <2>3
  <2> QED BY <1>5, <2>1, <2>2, <2>3 DEF ca_check_status
<1>6. CASE ca_mark_submitted(o) BY <1>6 DEF ca_mark_submitted
<1>7. CASE ca_not_submitted(o) BY <1>7 DEF ca_not_submitted, NoEvidence, JobOnly
<1>8. CASE nv_persist_filing_result(o)
  <2>1. PICK r \in file_llc_results :
          /\ Attach(o, r.shots)
          /\ Confirm(o, r.number)
          /\ JobAndOrder(o, "submitted_to_state") \/ escalate_to_operator_required(o)
    BY <1>8 DEF nv_persist_filing_result
  <2>2. r.number \in BOOLEAN /\ r.shots \in SUBSET ArtifactTypes
    BY <2>1 DEF file_llc_results
  <2> QED BY <2>1, <2>2 DEF JobAndOrder
<1> QED BY <1>1, <1>2, <1>3, <1>4, <1>5, <1>6, <1>7, <1>8

\* Every step of server or worker keeps to the types.
LEMMA SysNextKeepsType ==
  ASSUME SysTypeOK, SysNext
  PROVE  SysTypeOK'
<1>1. CASE Next /\ UNCHANGED <<seen, filed>>
  BY <1>1, NextKeepsType DEF SysTypeOK
<1>2. ASSUME NEW o \in Orders, WorkerStep(o) PROVE SysTypeOK'
  <2>1. ASSUME NEW w \in Pollers, Select(w, o) PROVE SysTypeOK'
    <3>1. job[o] \in JobStatuses
      BY <2>1, SelectsFacts DEF Select, SysTypeOK, TypeOK
    <3>2. seen' \in [Workers -> [Orders -> JobStatuses \cup {"idle", "filed", "passed"}]]
      BY <2>1, <3>1 DEF Select, SysTypeOK, Workers
    <3> QED BY <2>1, <3>2 DEF Select, SysTypeOK, TypeOK, vars
  <2>2. CASE ca_portal_submit(o)
    <3>1. seen' \in [Workers -> [Orders -> JobStatuses \cup {"idle", "filed", "passed"}]]
      BY <2>2 DEF ca_portal_submit, SysTypeOK, Workers, Pollers
    <3>2. filed' \in [Orders -> 0..MaxFilings]
      BY <2>2, SystemAssumption DEF ca_portal_submit, SysTypeOK
    <3> QED BY <2>2, <3>1, <3>2 DEF ca_portal_submit, SysTypeOK, TypeOK, vars
  <2>3. ASSUME NEW w \in Workers,
               NothingCommitted(w, o) \/ (w \in Pollers /\ Escalated(w, o))
        PROVE  SysTypeOK'
    <3>1. Finish(w, o) BY <2>3 DEF NothingCommitted, Escalated
    <3>2. Written BY <2>3, WorkerWrites DEF SysTypeOK
    <3> QED BY <3>1, <3>2, FinishKeepsType DEF Written
  <2>4. CASE \/ listener_check(o) \/ attach_approval_document(o)
             \/ ca_check_status(o) \/ ca_mark_submitted(o) \/ ca_not_submitted(o)
             \/ nv_persist_filing_result(o)
    <3>1. \E w \in Workers : Finish(w, o)
      BY <2>4 DEF listener_check, attach_approval_document, ca_check_status,
                  ca_mark_submitted, ca_not_submitted, nv_persist_filing_result,
                  Workers, Pollers
    <3>2. Written BY <2>4, WorkerWrites DEF SysTypeOK
    <3> QED BY <3>1, <3>2, FinishKeepsType DEF Written
  <2>5. CASE nv_check_status(o)
    <3>1. seen' \in [Workers -> [Orders -> JobStatuses \cup {"idle", "filed", "passed"}]]
      BY <2>5 DEF nv_check_status, SysTypeOK, Workers
    <3> QED BY <2>5, <3>1 DEF nv_check_status, SysTypeOK, TypeOK, vars
  <2> QED BY <1>2, <2>1, <2>2, <2>3, <2>4, <2>5 DEF WorkerStep, Workers
<1> QED BY <1>1, <1>2 DEF SysNext

\* The system starts well typed, with every worker idle.
LEMMA SysInitType == SysInit => SysTypeOK
BY InitType, SystemAssumption DEF SysInit, SysTypeOK

\* Every variable of the system keeps to its set of values.
THEOREM SysTypeCorrect == SysSpec => []SysTypeOK
<1>1. SysTypeOK /\ [SysNext]_sysVars => SysTypeOK'
  BY SysNextKeepsType DEF SysTypeOK, TypeOK, sysVars, vars
<1> QED BY SysInitType, <1>1, PTL DEF SysSpec

-----------------------------------------------------------------------------
(* The evidence.  A worker's write is a move of its order, as the server's   *)
(* are: what it claims has passed the trigger, or claims nothing.            *)

\* A turn that stores evidence and a plain status on the job, and on the
\* order at most the same one.
LEMMA PlainWorkerMoves ==
  ASSUME TypeOK, NEW o \in Orders, NEW s, NEW new, NEW g \in BOOLEAN,
         Attach(o, new) \/ UNCHANGED artifacts,
         Confirm(o, g) \/ UNCHANGED confirmed,
         job' = [job EXCEPT ![o] = s],
         SetOrder(o, s) \/ UNCHANGED order,
         s \in {"operator_required", "operator_review", "pending_state_review",
                "payment_required", "received_needs_sosdirect_check"}
  PROVE  Moves(o)
<1>1. \A p \in Orders \ {o} : Unmoved(p)
  BY DEF Unmoved, TypeOK, Attach, Confirm, SetOrder
<1>2. EvidenceGrows(o)
  BY DEF EvidenceGrows, TypeOK, Attach, Confirm
<1>3. job'[o] = s /\ (order'[o] = s \/ order'[o] = order[o])
  BY DEF SetOrder, TypeOK
<1> QED BY <1>1, <1>2, <1>3, PlainFacts DEF Moves, JobBacked, OrderBacked

\* An approval's turn: past the trigger, escalated, or job and order as they were.
LEMMA ApproveMoves ==
  ASSUME TypeOK, NEW o \in Orders, NEW new, NEW g \in BOOLEAN, NEW otherwise,
         Attach(o, new), Confirm(o, g) \/ UNCHANGED confirmed,
         Approve(o, otherwise),
         otherwise => escalate_to_operator_required(o) \/ UNCHANGED <<job, order>>
  PROVE  Moves(o)
<1>1. CASE SetJob(o, "state_approved") /\ SetOrder(o, "state_approved")
  <2>1. "state_approved" \in SubmittedRaw \cup TerminalRaw BY DEF TerminalRaw
  <2> QED BY <1>1, <2>1, GuardedMoves
<1>2. CASE escalate_to_operator_required(o)
  BY <1>2, PlainWorkerMoves DEF escalate_to_operator_required
<1>3. CASE UNCHANGED <<job, order>>
  <2>1. \A p \in Orders \ {o} : Unmoved(p)
    BY <1>3 DEF Unmoved, TypeOK, Attach, Confirm
  <2>2. EvidenceGrows(o) BY DEF EvidenceGrows, TypeOK, Attach, Confirm
  <2> QED BY <1>3, <2>1, <2>2 DEF Moves, JobBacked, OrderBacked
<1> QED BY <1>1, <1>2, <1>3, ApproveWrites

\* Every worker's turn is a move of its order: guarded, plain or nothing.
LEMMA WorkerMoves ==
  ASSUME TypeOK, NEW o \in Orders, WorkerStep(o)
  PROVE  UNCHANGED <<order, jobVars>> \/ Moves(o)
<1>1. ASSUME NEW w \in Workers,
             (w \in Pollers /\ Select(w, o)) \/ NothingCommitted(w, o)
      PROVE  UNCHANGED <<order, jobVars>>
  BY <1>1 DEF Select, NothingCommitted, vars, jobVars
<1>2. ASSUME NEW w \in Pollers, Escalated(w, o) PROVE Moves(o)
  <2>1. PICK kept : Attach(o, kept) BY <1>2 DEF Escalated
  <2> QED BY <1>2, <2>1, PlainWorkerMoves DEF Escalated, escalate_to_operator_required
<1>3. CASE listener_check(o)
  <2>0. UNCHANGED confirmed BY <1>3 DEF listener_check
  <2>1. CASE /\ \E doc \in {{}, {"state_correspondence"}, {"approved_certificate"}} :
                  Attach(o, doc)
             /\ JobOnly(o, "operator_review")
    <3>1. PICK doc : Attach(o, doc) BY <2>1
    <3> QED BY <2>0, <2>1, <3>1, PlainWorkerMoves DEF JobOnly
  <2>2. CASE /\ Attach(o, {"approved_certificate"})
             /\ Approve(o, UNCHANGED <<job, order>>)
    BY <2>0, <2>2, ApproveMoves
  <2>3. CASE UNCHANGED artifacts /\ JobOnly(o, "received_needs_sosdirect_check")
    BY <2>0, <2>3, PlainWorkerMoves DEF JobOnly
  <2> QED BY <1>3, <2>1, <2>2, <2>3 DEF listener_check
<1>4. CASE attach_approval_document(o)
  <2>1. PICK g \in BOOLEAN : Confirm(o, g) BY <1>4 DEF attach_approval_document
  <2> QED BY <1>4, <2>1, ApproveMoves DEF attach_approval_document
<1>5. CASE ca_check_status(o)
  <2>1. CASE /\ NoEvidence
             /\ \E s \in {"pending_state_review", "operator_review"} : JobOnly(o, s)
    BY <2>1, PlainWorkerMoves DEF JobOnly, NoEvidence
  <2>2. CASE /\ Attach(o, {"approved_certificate"})
             /\ \E found \in BOOLEAN : Confirm(o, found)
             /\ Approve(o, escalate_to_operator_required(o))
    <3>1. PICK g \in BOOLEAN : Confirm(o, g) BY <2>2
    <3> QED BY <2>2, <3>1, ApproveMoves
  <2>3. CASE /\ Attach(o, {"state_correspondence"})
             /\ UNCHANGED <<job, order, confirmed>>
    BY <2>3 DEF TypeOK, Moves, Unmoved, EvidenceGrows, JobBacked, OrderBacked, Attach
  <2> QED BY <1>5, <2>1, <2>2, <2>3 DEF ca_check_status
<1>6. CASE ca_portal_submit(o) BY <1>6 DEF ca_portal_submit, vars, jobVars
<1>7. CASE ca_mark_submitted(o)
  <2>1. PICK g \in BOOLEAN : Confirm(o, g) BY <1>7 DEF ca_mark_submitted
  <2> QED BY <1>7, <2>1, PlainWorkerMoves
          DEF ca_mark_submitted, escalate_to_operator_required
<1>8. CASE ca_not_submitted(o)
  BY <1>8, PlainWorkerMoves DEF ca_not_submitted, JobOnly, NoEvidence
<1>9. CASE nv_check_status(o) BY <1>9 DEF nv_check_status, vars, jobVars
<1>10. CASE nv_persist_filing_result(o)
  <2>1. PICK r \in file_llc_results :
          /\ Attach(o, r.shots)
          /\ Confirm(o, r.number)
          /\ JobAndOrder(o, "submitted_to_state") \/ escalate_to_operator_required(o)
    BY <1>10 DEF nv_persist_filing_result
  <2>0. r.number \in BOOLEAN BY <2>1 DEF file_llc_results
  <2>2. CASE escalate_to_operator_required(o)
    BY <2>0, <2>1, <2>2, PlainWorkerMoves DEF escalate_to_operator_required
  <2>3. CASE JobAndOrder(o, "submitted_to_state")
    <3>1. "submitted_to_state" \in SubmittedRaw \cup TerminalRaw BY DEF SubmittedRaw
    <3> QED BY <2>0, <2>1, <2>3, <3>1, GuardedMoves DEF JobAndOrder
  <2> QED BY <2>1, <2>2, <2>3
<1> QED BY <1>1, <1>2, <1>3, <1>4, <1>5, <1>6, <1>7, <1>8, <1>9, <1>10
        DEF WorkerStep, Workers

\* A step of the system moves one order, or leaves all four tables alone.
LEMMA SysNextMoves ==
  ASSUME TypeOK, SysNext
  PROVE  UNCHANGED <<order, jobVars>> \/ \E o \in Orders : Moves(o)
BY NextMoves, WorkerMoves DEF SysNext

SysInv == SysTypeOK /\ EvidenceInvariant /\ OrderEvidence

\* The types and the evidence invariants are inductive together.
LEMMA SysInvHolds ==
  /\ SysInit => SysInv
  /\ SysInv /\ [SysNext]_sysVars => SysInv'
<1>1. SysInit => SysInv BY SysInitType, InitEvidence DEF SysInit, SysInv
<1>2. ASSUME SysInv, SysNext PROVE SysInv'
  <2>1. SysTypeOK' BY <1>2, SysNextKeepsType DEF SysInv
  <2>2. EvidenceInvariant' /\ OrderEvidence'
    BY <1>2, SysNextMoves, MovesKeepEvidence, UnmovedKeepsEvidence DEF SysInv, SysTypeOK
  <2> QED BY <2>1, <2>2 DEF SysInv
<1>3. ASSUME SysInv, UNCHANGED sysVars PROVE SysInv'
  BY <1>3, UnmovedKeepsEvidence
  DEF SysInv, SysTypeOK, TypeOK, sysVars, vars, jobVars
<1> QED BY <1>1, <1>2, <1>3

\* No interleaving of the server with the workers' stale writes shows, on the
\* job or on the order, a submission or an approval whose evidence is not on
\* file.
THEOREM SysEvidenceOnFile == SysSpec => [](EvidenceInvariant /\ OrderEvidence)
<1>1. SysInv => EvidenceInvariant /\ OrderEvidence BY DEF SysInv
<1> QED BY SysInvHolds, <1>1, PTL DEF SysSpec

-----------------------------------------------------------------------------
(* Refinement: a move is a step of FilingEvidence, everything else stutters. *)

\* What a status claims is on file wherever the job's evidence is (what
\* JobEvidence says, of any status, confirmation and artifacts).
LEMMA StageBacked ==
  ASSUME NEW action, NEW status, NEW confirmation, NEW arts,
         LET s == normalize_state(status)
         IN  /\ s \in {"submitted"} \cup SettledStates =>
                  confirmation /\ "submitted_receipt" \in arts
             /\ s \in SettledStates => arts \cap TerminalArtifacts(action) # {}
  PROVE  Promise!Needs[StageOf(status)] \subseteq OnFile(action, confirmation, arts)
<1>1. CASE normalize_state(status) \in SettledStates
  <2>1. Promise!Needs[StageOf(status)] = {"confirmation", "receipt", "terminal"}
    BY <1>1 DEF StageOf, Promise!Needs, Promise!EvidenceKinds
  <2> QED BY <1>1, <2>1 DEF OnFile
<1>2. CASE normalize_state(status) = "submitted"
  <2>1. Promise!Needs[StageOf(status)] = {"confirmation", "receipt"}
    BY <1>2 DEF StageOf, SettledStates, Promise!Needs
  <2> QED BY <1>2, <2>1 DEF OnFile
<1>3. CASE normalize_state(status) \notin {"submitted"} \cup SettledStates
  BY <1>3 DEF StageOf, Promise!Needs
<1> QED BY <1>1, <1>2, <1>3

\* A move of one order is a step of FilingEvidence, or a stutter.
LEMMA MoveKeepsPromise ==
  ASSUME NEW o \in Orders, Moves(o), EvidenceInvariant'
  PROVE  Promise!Step(o)
<1> DEFINE s == StageOf(job'[o])
           new == OnFile(ActionOf[o], confirmed'[o], artifacts'[o])
<1>1. s \in DOMAIN Promise!Needs /\ new \in SUBSET Promise!EvidenceKinds
  BY DEF StageOf, OnFile, Promise!EvidenceKinds, Promise!Needs
<1>2. Promise!Needs[s] \subseteq new
  BY StageBacked DEF EvidenceInvariant, JobEvidence
<1>3. OnFile(ActionOf[o], confirmed[o], artifacts[o]) \subseteq new
  BY DEF Moves, EvidenceGrows, OnFile
<1>4. \A p \in Orders \ {o} :
        /\ StageOf(job'[p]) = StageOf(job[p])
        /\ OnFile(ActionOf[p], confirmed'[p], artifacts'[p])
             = OnFile(ActionOf[p], confirmed[p], artifacts[p])
  BY DEF Moves, Unmoved
<1>5. stageBar' = [stageBar EXCEPT ![o] = s]
  BY <1>4 DEF stageBar
<1>6. evidenceBar' = [evidenceBar EXCEPT ![o] = @ \cup new]
  BY <1>3, <1>4 DEF evidenceBar
<1>7. Promise!Needs[s] \subseteq evidenceBar[o] \cup new BY <1>2
<1> QED BY <1>1, <1>5, <1>6, <1>7 DEF Promise!Step

\* A step that leaves the tables alone is a stutter.
LEMMA UnmovedKeepsPromise ==
  ASSUME UNCHANGED <<order, jobVars>>
  PROVE  UNCHANGED <<stageBar, evidenceBar>>
BY DEF jobVars, stageBar, evidenceBar

\* Nothing is on file at first, and nothing is claimed.
LEMMA InitKeepsPromise == Init => Promise!Init
<1> SUFFICES ASSUME Init PROVE Promise!Init
  OBVIOUS
<1>1. ASSUME NEW o \in Orders
      PROVE  /\ StageOf(job[o]) = "open"
             /\ OnFile(ActionOf[o], confirmed[o], artifacts[o]) = {}
  <2>1. job[o] \in {"none", "pending_payment"} BY DEF Init
  <2>2. confirmed[o] = FALSE /\ artifacts[o] = {} BY DEF Init
  <2>3. normalize_state(job[o]) \notin Claims BY <2>1, PlainFacts
  <2> QED BY <2>2, <2>3 DEF Claims, StageOf, OnFile
<1> QED BY <1>1 DEF Promise!Init, stageBar, evidenceBar

\* The server with its workers implements FilingEvidence: every step of either
\* adds to the evidence of at most one order, and shows a stage of it only
\* with what that stage needs on file.
THEOREM SystemKeepsPromise == SysSpec => KeepsPromise
<1>1. SysInit => Promise!Init BY InitKeepsPromise DEF SysInit
<1>2. SysInv /\ SysInv' /\ [SysNext]_sysVars
        => [Promise!Next]_<<stageBar, evidenceBar>>
  <2>1. ASSUME SysInv, SysInv', SysNext
        PROVE  Promise!Next \/ UNCHANGED <<stageBar, evidenceBar>>
    BY <2>1, SysNextMoves, MoveKeepsPromise, UnmovedKeepsPromise
    DEF SysInv, SysTypeOK, Promise!Next
  <2>2. ASSUME UNCHANGED sysVars PROVE UNCHANGED <<stageBar, evidenceBar>>
    BY <2>2, UnmovedKeepsPromise DEF sysVars, vars, jobVars
  <2> QED BY <2>1, <2>2
<1> QED BY <1>1, <1>2, SysInvHolds, PTL DEF SysSpec, KeepsPromise, Promise!Spec
=============================================================================
