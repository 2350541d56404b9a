---------------------------- MODULE FilingStates ----------------------------
(***************************************************************************)
(* The vocabulary of a filing and the two rules that guard it:             *)
(*   - validate_transition, the universal evidence-gated state machine;    *)
(*   - evidence_invariant, the predicate of the SQLite triggers on the     *)
(*     table filing_jobs.                                                  *)
(* A status is stored raw (legacy names included) and compared after       *)
(* normalize_state.  No variables: the other modules are built from this.  *)
(***************************************************************************)
EXTENDS FiniteSets

UNIVERSAL_FILING_STATES ==
  { "intake_complete", "ready_to_file", "automation_started",
    "operator_required", "payment_required", "submitted",
    "pending_government_review", "rejected_or_needs_correction", "approved",
    "documents_collected", "customer_notified", "complete",
    "needs_evidence_reverification", "closed_unfiled" }

LEGACY_STATUS_ALIASES ==
  [ pending_payment      |-> "payment_required",
    paid                 |-> "intake_complete",
    preparing            |-> "intake_complete",
    generating_documents |-> "intake_complete",
    ready_to_file        |-> "ready_to_file",
    submitted_to_state   |-> "submitted",
    state_approved       |-> "approved",
    ein_pending          |-> "pending_government_review",
    ein_queued           |-> "pending_government_review",
    ein_received         |-> "documents_collected",
    human_review         |-> "operator_required",
    manual_review        |-> "operator_required",
    error                |-> "operator_required" ]

ALLOWED_TRANSITIONS ==
  [ intake_complete |-> {"payment_required", "ready_to_file", "operator_required"},
    payment_required |-> {"intake_complete", "operator_required"},
    ready_to_file |-> {"automation_started", "operator_required", "submitted"},
    automation_started |->
      {"payment_required", "submitted", "operator_required",
       "rejected_or_needs_correction"},
    operator_required |->
      {"ready_to_file", "automation_started", "submitted",
       "pending_government_review", "rejected_or_needs_correction",
       "needs_evidence_reverification", "closed_unfiled"},
    submitted |->
      {"pending_government_review", "rejected_or_needs_correction", "approved",
       "operator_required", "needs_evidence_reverification"},
    pending_government_review |->
      {"approved", "rejected_or_needs_correction", "operator_required",
       "needs_evidence_reverification"},
    rejected_or_needs_correction |->
      {"ready_to_file", "operator_required", "closed_unfiled"},
    approved |->
      {"documents_collected", "operator_required",
       "needs_evidence_reverification"},
    documents_collected |->
      {"customer_notified", "complete", "needs_evidence_reverification"},
    customer_notified |-> {"complete", "needs_evidence_reverification"},
    complete |-> {},
    needs_evidence_reverification |->
      {"submitted", "approved", "complete", "closed_unfiled",
       "operator_required"},
    closed_unfiled |-> {} ]

EVIDENCE_REQUIRED_STATES ==
  {"submitted", "approved", "documents_collected", "complete"}

\* Statuses the workers write that the universal machine does not know.
WorkerStatuses ==
  {"pending_state_review", "operator_review", "received_needs_sosdirect_check"}

JobStatuses ==
  UNIVERSAL_FILING_STATES \cup DOMAIN LEGACY_STATUS_ALIASES \cup WorkerStatuses

\* Statuses only an order has: those of the payment webhooks.
OrderStatuses ==
  JobStatuses \cup {"payment_authorized", "payment_captured", "refund_recorded"}

normalize_state(s) ==
  IF s \in DOMAIN LEGACY_STATUS_ALIASES THEN LEGACY_STATUS_ALIASES[s] ELSE s

validate_transition(current, target, hasEvidence) ==
  LET c == normalize_state(current)
      t == normalize_state(target)
  IN  /\ t \in UNIVERSAL_FILING_STATES
      /\ t \in EVIDENCE_REQUIRED_STATES => hasEvidence
      /\ \/ c = t
         \/ c \in UNIVERSAL_FILING_STATES /\ t \in ALLOWED_TRANSITIONS[c]

-----------------------------------------------------------------------------
(* The triggers.  An artifact of the model is an evidence row whose digest   *)
(* is recorded: insert_filing_artifact refuses one it cannot hash.           *)

ActionTypes == {"formation", "annual_report", "amendment"}

ArtifactTypes ==
  {"submitted_receipt", "approved_certificate", "state_correspondence",
   "state_acknowledgment", "state_filed_document",
   "registered_agent_assignment"}

SubmittedRaw == {"submitted", "submitted_to_state"}
TerminalRaw == {"approved", "state_approved", "documents_collected", "complete"}

TerminalArtifacts(action) ==
  CASE action = "annual_report" ->
         {"approved_certificate", "state_correspondence",
          "state_acknowledgment", "state_filed_document"}
    [] action = "amendment" -> {"approved_certificate", "state_filed_document"}
    [] OTHER -> {"approved_certificate"}

evidence_invariant(action, status, confirmed, arts) ==
  /\ status \in SubmittedRaw \cup TerminalRaw =>
       confirmed /\ "submitted_receipt" \in arts
  /\ status \in TerminalRaw => arts \cap TerminalArtifacts(action) # {}

-----------------------------------------------------------------------------
(* The gates of a submission (filing_adapters.py).                           *)

PAYMENT_READY_STATUSES ==
  { "payment_authorized", "payment_captured", "paid", "ready_to_file",
    "automation_started", "operator_required", "submitted",
    "submitted_to_state", "pending_government_review", "approved",
    "state_approved", "documents_collected", "complete" }

TERMINAL_OR_SUBMITTED_STATUSES ==
  { "submitted", "submitted_to_state", "pending_government_review", "approved",
    "state_approved", "documents_collected", "complete" }
=============================================================================
