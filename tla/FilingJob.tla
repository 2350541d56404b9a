----------------------------- MODULE FilingJob -----------------------------
(***************************************************************************)
(* One filing job and its order, as the API server keeps them: the rows    *)
(* orders, filing_jobs and filing_artifacts, the formation pipeline that a *)
(* payment starts, and every endpoint that moves a job.  An endpoint whose *)
(* SQLite transaction aborts leaves no trace, so a refused call is a step  *)
(* that is not enabled.  Each order has one job; ActionOf gives its type.  *)
(***************************************************************************)
EXTENDS FilingStates, Naturals

CONSTANTS
  Orders,      \* order ids
  ActionOf,    \* the action_type of each order's job
  QuoteOrders, \* orders with an execution quote (all but the direct checkout's)
  RAOrders,    \* orders placed while the partner registered agent was on sale
  Targets,     \* the target statuses an operator asks the endpoint for
  Kinds,       \* the types of evidence an operator attaches
  MaxRuns,     \* pipelines started per order (one per payment webhook)
  MaxCrashes   \* restarts of the server process

ASSUME ConstantsAssumption ==
  /\ ActionOf \in [Orders -> ActionTypes]
  /\ QuoteOrders \subseteq Orders
  /\ RAOrders \subseteq Orders
  /\ \A o \in RAOrders : ActionOf[o] = "formation"
  /\ Targets \subseteq JobStatuses
  /\ Kinds \subseteq ArtifactTypes
  /\ MaxRuns \in Nat
  /\ MaxCrashes \in Nat

VARIABLES
  order,      \* orders.status, "none" before the row exists
  job,        \* filing_jobs.status
  confirmed,  \* orders.filing_confirmation holds a valid value
  artifacts,  \* evidence rows of filing_artifacts, by type
  funds,      \* what the latest quote and the ledger show
  run,        \* the formation pipelines of each order
  prepping,   \* a filing-prep request awaiting its documents
  crashes

vars == <<order, job, confirmed, artifacts, funds, run, prepping, crashes>>
jobVars == <<job, confirmed, artifacts>>

Runs == 1..MaxRuns
RunStates ==
  {"idle", "queued", "confirming", "generating", "notifying", "done", "lost"}
FundStates == {"none", "authorized", "captured", "canceled"}

TypeOK ==
  /\ order \in [Orders -> OrderStatuses \cup {"none"}]
  /\ job \in [Orders -> JobStatuses \cup {"none"}]
  /\ confirmed \in [Orders -> BOOLEAN]
  /\ artifacts \in [Orders -> SUBSET ArtifactTypes]
  /\ funds \in [Orders -> FundStates]
  /\ run \in [Orders -> [Runs -> RunStates]]
  /\ prepping \in [Orders -> BOOLEAN]
  /\ crashes \in 0..MaxCrashes

\* An order with the partner's agent is in the database already: the service
\* is withheld today, and create_formation refuses a new one.
Init ==
  /\ order = [o \in Orders |-> IF o \in RAOrders THEN "pending_payment" ELSE "none"]
  /\ job = [o \in Orders |-> IF o \in RAOrders THEN "pending_payment" ELSE "none"]
  /\ confirmed = [o \in Orders |-> FALSE]
  /\ artifacts = [o \in Orders |-> {}]
  /\ funds = [o \in Orders |-> "none"]
  /\ run = [o \in Orders |-> [r \in Runs |-> "idle"]]
  /\ prepping = [o \in Orders |-> FALSE]
  /\ crashes = 0

Exists(o) == order[o] # "none"
Formation(o) == ActionOf[o] = "formation"

-----------------------------------------------------------------------------
(* Writes to the tables.  The triggers check the new row against the order's *)
(* confirmation and the artifacts as this transaction leaves them.           *)

SetOrder(o, s) == order' = [order EXCEPT ![o] = s]

\* Faulty forms the mutants use: the trigger dropped, evidence replaced.
SetJobUnguarded(o, s) == job' = [job EXCEPT ![o] = s]
AttachReplacing(o, arts) == artifacts' = [artifacts EXCEPT ![o] = arts]
ConfirmReplacing(o, given) == confirmed' = [confirmed EXCEPT ![o] = given]

SetJob(o, s) ==
  /\ evidence_invariant(ActionOf[o], s, confirmed'[o], artifacts'[o])
  /\ job' = [job EXCEPT ![o] = s]

Attach(o, arts) == artifacts' = [artifacts EXCEPT ![o] = @ \cup arts]
Confirm(o, given) == confirmed' = [confirmed EXCEPT ![o] = @ \/ given]
NoEvidence == UNCHANGED <<confirmed, artifacts>>

\* apply_filing_confirmation_for_transition: keep a supplied value, else
\* insist on the one the order already holds.
apply_filing_confirmation(o, target, given) ==
  IF normalize_state(target) \in EVIDENCE_REQUIRED_STATES
  THEN /\ given \/ confirmed[o]
       /\ Confirm(o, given)
  ELSE UNCHANGED confirmed

\* The formation checks of validate_filing_preflight that can change while
\* an order lives: the registered agent.  (What the customer typed does not;
\* a consent artifact counts as an assignment.)
RegisteredAgentReady(o, arts) ==
  o \in RAOrders => "registered_agent_assignment" \in arts

validate_submission_safety(o) ==
  /\ order[o] \in PAYMENT_READY_STATUSES
  /\ o \in QuoteOrders => funds[o] = "captured"
  /\ job[o] \notin TERMINAL_OR_SUBMITTED_STATUSES
  /\ Formation(o) => RegisteredAgentReady(o, artifacts[o])

PaymentVerified(o) ==
  order[o] \in PAYMENT_READY_STATUSES \/ funds[o] # "none"

-----------------------------------------------------------------------------
(* Orders and payments.  The webhook handlers are modelled in Payment; here  *)
(* they are what they do to the order and the pipelines they start.          *)

create_formation(o) ==
  /\ o \notin RAOrders
  /\ order[o] = "none"
  /\ SetOrder(o, "pending_payment")
  /\ job' = [job EXCEPT ![o] = "pending_payment"]
  /\ NoEvidence
  /\ UNCHANGED <<funds, run, prepping, crashes>>

\* The background task of a webhook, in the first slot that is free.
StartPipeline(o) ==
  \E r \in Runs :
    /\ run[o][r] = "idle"
    /\ \A q \in Runs : q < r => run[o][q] # "idle"
    /\ run' = [run EXCEPT ![o][r] = "queued"]

KeepCapture(o) ==
  funds' = [funds EXCEPT ![o] = IF @ = "captured" THEN @ ELSE "authorized"]

\* checkout.session.completed with capture_strategy authorize_then_capture.
PaymentAuthorized(o) ==
  /\ Exists(o)
  /\ KeepCapture(o)
  /\ IF Formation(o)
     THEN /\ SetOrder(o, "payment_authorized")
          /\ StartPipeline(o)
          /\ UNCHANGED job
     ELSE /\ SetOrder(o, "ready_to_file")
          /\ job' = [job EXCEPT ![o] = "ready_to_file"]
          /\ UNCHANGED run
  /\ NoEvidence
  /\ UNCHANGED <<prepping, crashes>>

\* The same event for a supplemental authorization, which an operator may ask
\* for as soon as the quote counts an authorization, paid or not.
AdditionalAuthorized(o) ==
  /\ o \in QuoteOrders /\ Exists(o)
  /\ KeepCapture(o)
  /\ SetOrder(o, "payment_authorized")
  /\ UNCHANGED <<jobVars, run, prepping, crashes>>

\* The direct checkout: the ledger shows a capture, no quote does.  Nobody asks
\* what the order is for.
PaymentPaid(o) ==
  /\ Exists(o)
  /\ SetOrder(o, "paid")
  /\ KeepCapture(o)
  /\ StartPipeline(o)
  /\ UNCHANGED <<jobVars, prepping, crashes>>

\* The multi-LLC cart, captured at checkout.
CartCaptured(o) ==
  /\ Exists(o) /\ Formation(o) /\ o \in QuoteOrders
  /\ SetOrder(o, "payment_captured")
  /\ funds' = [funds EXCEPT ![o] = "captured"]
  /\ StartPipeline(o)
  /\ UNCHANGED <<jobVars, prepping, crashes>>

\* The admin capture, or payment_intent.succeeded at any later time.  Without
\* a PaymentIntent the endpoint records the capture as a dry run.
PaymentCaptured(o) ==
  /\ \/ funds[o] \in {"authorized", "captured"}
     \/ o \in QuoteOrders /\ Exists(o) /\ funds[o] = "none"
  /\ SetOrder(o, "payment_captured")
  /\ funds' = [funds EXCEPT ![o] = "captured"]
  /\ UNCHANGED <<jobVars, run, prepping, crashes>>

\* payment_intent.canceled: the order's latest authorization lapses, perhaps
\* after an earlier one was captured.
PaymentCanceled(o) ==
  /\ funds[o] \in {"authorized", "captured"}
  /\ SetOrder(o, "pending_payment")
  /\ funds' = [funds EXCEPT ![o] = IF @ = "captured" THEN @ ELSE "canceled"]
  /\ UNCHANGED <<jobVars, run, prepping, crashes>>

\* charge.refunded and its kin: the order row only, the quote is left alone.
PaymentRefunded(o) ==
  /\ funds[o] # "none"
  /\ SetOrder(o, "refund_recorded")
  /\ UNCHANGED <<jobVars, funds, run, prepping, crashes>>

-----------------------------------------------------------------------------
(* run_formation_pipeline: the steps between its awaits.  The job it moves   *)
(* is the order's formation job; that of a service order is another one,     *)
(* which the pipeline makes and this module leaves out.                      *)

Advance(o, r, from, to) ==
  /\ run[o][r] = from
  /\ run' = [run EXCEPT ![o][r] = to]

SetFormationJob(o, s) == job' = IF Formation(o) THEN [job EXCEPT ![o] = s] ELSE job

PipelinePrepare(o, r) ==
  /\ Advance(o, r, "queued", "confirming")
  /\ SetFormationJob(o, "paid")
  /\ SetOrder(o, "preparing")
  /\ NoEvidence
  /\ UNCHANGED <<funds, prepping, crashes>>

PipelineGenerate(o, r) ==
  /\ Advance(o, r, "confirming", "generating")
  /\ SetOrder(o, "generating_documents")
  /\ UNCHANGED <<jobVars, funds, prepping, crashes>>

PipelineQueue(o, r) ==
  /\ Advance(o, r, "generating", "notifying")
  /\ SetFormationJob(o, "ready_to_file")
  /\ SetOrder(o, "ready_to_file")
  /\ NoEvidence
  /\ UNCHANGED <<funds, prepping, crashes>>

PipelineDone(o, r) ==
  /\ Advance(o, r, "notifying", "done")
  /\ UNCHANGED <<order, jobVars, funds, prepping, crashes>>

AtWork == {"queued", "confirming", "generating", "notifying"}

\* Faulty: the error swallowed, nothing recorded on the order.
PipelineErrorSilent(o, r) ==
  /\ \E s \in AtWork : Advance(o, r, s, "done")
  /\ UNCHANGED <<order, jobVars, funds, prepping, crashes>>

\* The except branch: a write or an await raised.
PipelineError(o, r) ==
  /\ \E s \in AtWork : Advance(o, r, s, "done")
  /\ SetOrder(o, "error")
  /\ UNCHANGED <<jobVars, funds, prepping, crashes>>

\* What is read before the try raises, or the except branch's own write: the
\* task ends and the order does not say so.
PipelineLost(o, r) ==
  /\ \E s \in AtWork : Advance(o, r, s, "lost")
  /\ UNCHANGED <<order, jobVars, funds, prepping, crashes>>

\* A restart loses every background task and every request in flight.
Crash ==
  /\ crashes < MaxCrashes
  /\ crashes' = crashes + 1
  /\ run' = [o \in Orders |-> [r \in Runs |->
               IF run[o][r] \in AtWork THEN "lost" ELSE run[o][r]]]
  /\ prepping' = [o \in Orders |-> FALSE]
  /\ UNCHANGED <<order, jobVars, funds>>

-----------------------------------------------------------------------------
(* Filing prep and the registered agent.                                     *)

PrepStatuses ==
  {"paid", "payment_authorized", "payment_captured", "preparing",
   "generating_documents"}

\* The request up to the await on document generation.
prepare_order_start(o) ==
  /\ Exists(o) /\ Formation(o) /\ ~prepping[o]
  /\ PaymentVerified(o)
  /\ prepping' = [prepping EXCEPT ![o] = TRUE]
  /\ UNCHANGED <<order, jobVars, funds, run, crashes>>

\* Back from the await: requeue the job, try the agent (whose assignment also
\* releases an order at operator_required), and route by what still blocks.
prepare_order_finish(o) ==
  /\ prepping[o]
  /\ prepping' = [prepping EXCEPT ![o] = FALSE]
  /\ \E ra \in IF o \in RAOrders THEN {{}, {"registered_agent_assignment"}} ELSE {{}} :
       Attach(o, ra)
  /\ LET ready == PaymentVerified(o) /\ RegisteredAgentReady(o, artifacts'[o])
         s == IF ready THEN "ready_to_file" ELSE "operator_required"
         assigned == artifacts'[o] # artifacts[o]
     IN  /\ job' = [job EXCEPT ![o] = s]
         /\ order' = [order EXCEPT ![o] =
              IF \/ @ \in PrepStatuses
                 \/ assigned /\ ready /\ @ = "operator_required"
              THEN s ELSE @]
  /\ UNCHANGED <<confirmed, funds, run, crashes>>

\* The partner's assignment arrives, in a fulfilment or a reconciliation.
refresh_ready_after_ra(o) ==
  /\ o \in RAOrders /\ Exists(o) /\ Formation(o)
  /\ "registered_agent_assignment" \notin artifacts[o]
  /\ Attach(o, {"registered_agent_assignment"})
  /\ IF PaymentVerified(o)
     THEN /\ job' = [job EXCEPT ![o] = "ready_to_file"]
          /\ order' = [order EXCEPT ![o] =
               IF @ \in PrepStatuses \cup {"operator_required"}
               THEN "ready_to_file" ELSE @]
     ELSE UNCHANGED <<job, order>>
  /\ UNCHANGED <<confirmed, funds, run, prepping, crashes>>

-----------------------------------------------------------------------------
(* The operator's endpoints.                                                 *)

OperatorUnchanged == UNCHANGED <<funds, run, prepping, crashes>>

\* The universal transition: the raw target is stored on job and order.
transition_filing_job(o, target, hasEvidence, given) ==
  /\ Exists(o)
  /\ validate_transition(job[o], target, hasEvidence)
  /\ LET kind == IF normalize_state(target)
                      \in {"approved", "complete", "documents_collected"}
                 THEN "approved_certificate" ELSE "submitted_receipt"
     IN  Attach(o, IF hasEvidence THEN {kind} ELSE {})
  /\ apply_filing_confirmation(o, target, given)
  /\ SetJob(o, target)
  /\ SetOrder(o, target)
  /\ OperatorUnchanged

add_filing_evidence(o, kind) ==
  /\ Exists(o)
  /\ kind \notin artifacts[o]
  /\ Attach(o, {kind})
  /\ UNCHANGED <<order, job, confirmed>>
  /\ OperatorUnchanged

mark_filing_submitted(o, given) ==
  /\ Exists(o)
  /\ validate_submission_safety(o)
  /\ LET s == IF ActionOf[o] = "annual_report"
              THEN "submitted" ELSE "submitted_to_state"
     IN  /\ apply_filing_confirmation(o, s, given)
         /\ Attach(o, {"submitted_receipt"})
         /\ SetJob(o, s)
         /\ SetOrder(o, s)
  /\ OperatorUnchanged

mark_filing_approved(o, given) ==
  /\ Exists(o)
  /\ LET s == IF ActionOf[o] = "annual_report" THEN "approved" ELSE "state_approved"
     IN  /\ apply_filing_confirmation(o, s, given)
         /\ Attach(o, {"approved_certificate"})
         /\ SetJob(o, s)
         /\ SetOrder(o, s)
  /\ OperatorUnchanged

mark_annual_report_complete(o, kind, given) ==
  /\ Exists(o) /\ ActionOf[o] = "annual_report"
  /\ kind \in TerminalArtifacts("annual_report")
  /\ apply_filing_confirmation(o, "complete", given)
  /\ Attach(o, {kind})
  /\ SetJob(o, "complete")
  /\ SetOrder(o, "complete")
  /\ OperatorUnchanged

\* autopilot/start at a trusted-access checkpoint: the preflight must have
\* passed, and the order row is left alone.
autopilot_intervention(o) ==
  /\ Exists(o)
  /\ order[o] \in PAYMENT_READY_STATUSES
  /\ job[o] \notin TERMINAL_OR_SUBMITTED_STATUSES
  /\ Formation(o) => RegisteredAgentReady(o, artifacts[o])
  /\ job' = [job EXCEPT ![o] = "operator_required"]
  /\ NoEvidence
  /\ UNCHANGED order
  /\ OperatorUnchanged

\* The EIN lane writes the order row only.
ein_status(o) ==
  /\ Exists(o)
  /\ \E s \in {"ein_pending", "ein_received"} : SetOrder(o, s)
  /\ UNCHANGED jobVars
  /\ OperatorUnchanged

-----------------------------------------------------------------------------
PaymentStep(o) ==
  \/ create_formation(o)
  \/ PaymentAuthorized(o)
  \/ PaymentPaid(o)
  \/ AdditionalAuthorized(o)
  \/ CartCaptured(o)
  \/ PaymentCaptured(o)
  \/ PaymentCanceled(o)
  \/ PaymentRefunded(o)

PipelineProgress(o, r) ==
  \/ PipelinePrepare(o, r)
  \/ PipelineGenerate(o, r)
  \/ PipelineQueue(o, r)
  \/ PipelineDone(o, r)

PrepStep(o) ==
  \/ prepare_order_start(o)
  \/ prepare_order_finish(o)
  \/ refresh_ready_after_ra(o)

OperatorStep(o) ==
  \/ \E t \in Targets, e, g \in BOOLEAN : transition_filing_job(o, t, e, g)
  \/ \E k \in Kinds : add_filing_evidence(o, k)
  \/ \E g \in BOOLEAN : mark_filing_submitted(o, g)
  \/ \E g \in BOOLEAN : mark_filing_approved(o, g)
  \/ \E k \in Kinds, g \in BOOLEAN : mark_annual_report_complete(o, k, g)
  \/ autopilot_intervention(o)
  \/ ein_status(o)

OrderStep(o) ==
  \/ PaymentStep(o)
  \/ \E r \in Runs : PipelineProgress(o, r) \/ PipelineError(o, r) \/ PipelineLost(o, r)
  \/ PrepStep(o)
  \/ OperatorStep(o)

Next == Crash \/ \E o \in Orders : OrderStep(o)

Formations == {o \in Orders : Formation(o)}

\* The event loop keeps running a task that is ready, until it returns; that of
\* a formation is all the property needs.
Fairness == \A o \in Formations, r \in Runs : WF_vars(PipelineProgress(o, r))

Spec == Init /\ [][Next]_vars
FairSpec == Spec /\ Fairness

-----------------------------------------------------------------------------
(* Properties.                                                               *)

SettledStates == {"approved", "documents_collected", "customer_notified", "complete"}

\* A job whose normalized status is submitted has its receipt and the order a
\* confirmation; one that is approved, collected, notified or complete has
\* the terminal evidence of its action type as well.  The triggers look at six
\* raw statuses only: 'ein_received' (an alias of documents_collected) and
\* 'customer_notified' are reached without them and rest on the state machine.
JobEvidence(o) ==
  LET s == normalize_state(job[o])
  IN  /\ s \in {"submitted"} \cup SettledStates =>
           confirmed[o] /\ "submitted_receipt" \in artifacts[o]
      /\ s \in SettledStates =>
           artifacts[o] \cap TerminalArtifacts(ActionOf[o]) # {}

EvidenceInvariant == \A o \in Orders : JobEvidence(o)

\* The customer reads orders.status, which no trigger guards: it never claims
\* a submission or an approval whose evidence is not on file, whatever the
\* webhooks, the pipeline and the job have done since.
OrderEvidence ==
  \A o \in Orders :
    evidence_invariant(ActionOf[o], order[o], confirmed[o], artifacts[o])

\* A paid formation reaches the filing queue, or the order shows the error: a
\* pipeline that was started does not leave its job at 'paid' unnoticed, unless
\* that pipeline itself is lost, by a restart or because the database takes
\* neither its work nor its error.
PipelineEndsVisibly ==
  \A o \in Formations, r \in Runs :
    run[o][r] = "queued" ~>
      \/ job[o] \notin {"none", "pending_payment", "paid"}
      \/ order[o] = "error"
      \/ run[o][r] = "lost"
=============================================================================
