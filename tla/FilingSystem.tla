---------------------------- MODULE FilingSystem ----------------------------
(***************************************************************************)
(* The server of FilingJob together with the worker processes that poll    *)
(* and use the state portals: filing_status_listener (TX public tracker),  *)
(* tx_sosdirect_document_worker, ca_bizfile_worker (status, submit) and    *)
(* silverflume_filer (NV).                                                 *)
(*                                                                         *)
(* Each is a process of its own, started by cron; silverflume_filer has no *)
(* schedule and runs for the order it is given.  It selects job rows,      *)
(* talks to a portal for seconds or minutes, and then writes by job id     *)
(* alone: `seen` is the row it selected, and everything else may have      *)
(* moved in between.  A run over several jobs handles them one at a time.  *)
(***************************************************************************)
EXTENDS FilingJob

CONSTANTS
  StateOf,     \* the state of each order
  MaxFilings   \* submissions of one order at the portal

ASSUME SystemAssumption ==
  /\ StateOf \in [Orders -> {"TX", "CA", "NV"}]
  /\ MaxFilings \in Nat

VARIABLES
  seen,   \* the status a worker selected the job with, "idle" without one;
          \* silverflume keeps only that it "passed" its guard
  filed   \* submissions the California portal has accepted

sysVars == <<vars, seen, filed>>

Pollers == {"listener", "tx_documents", "ca_status", "ca_submit"}
Workers == Pollers \cup {"silverflume"}

LISTENER_ACTIVE ==
  {"submitted_to_state", "awaiting_state", "pending_state_review",
   "received_needs_sosdirect_check"}

TERMINAL_DOWNGRADE_GUARD ==
  {"submitted", "submitted_to_state", "approved", "state_approved",
   "documents_collected", "complete"}

\* The rows each poller selects.
Selects(w) ==
  CASE w = "listener" -> LISTENER_ACTIVE
    [] w = "tx_documents" -> LISTENER_ACTIVE \cup {"operator_review"}
    [] w = "ca_status" -> LISTENER_ACTIVE \cup {"submitted"}
    [] w = "ca_submit" -> {"ready_to_file", "automation_started"}

StateFor(w) == IF w \in {"listener", "tx_documents"} THEN "TX" ELSE "CA"

SysTypeOK ==
  /\ TypeOK
  /\ seen \in [Workers -> [Orders -> JobStatuses \cup {"idle", "filed", "passed"}]]
  /\ filed \in [Orders -> 0..MaxFilings]

SysInit ==
  /\ Init
  /\ seen = [w \in Workers |-> [o \in Orders |-> "idle"]]
  /\ filed = [o \in Orders |-> 0]

-----------------------------------------------------------------------------
(* The steps of a worker.                                                    *)

Select(w, o) ==
  /\ StateOf[o] = StateFor(w)
  /\ job[o] \in Selects(w)
  /\ seen[w][o] = "idle"
  /\ seen' = [seen EXCEPT ![w][o] = job[o]]
  /\ UNCHANGED <<vars, filed>>

\* The end of a worker's turn with a job: the writes that commit with it.
Finish(w, o) ==
  /\ seen[w][o] # "idle"
  /\ seen' = [seen EXCEPT ![w][o] = "idle"]
  /\ UNCHANGED <<funds, run, prepping, crashes, filed>>

\* Nothing to write, or the process died before its commit.
NothingCommitted(w, o) ==
  /\ Finish(w, o)
  /\ UNCHANGED <<order, jobVars>>

JobOnly(o, s) ==
  /\ job' = [job EXCEPT ![o] = s]
  /\ UNCHANGED order

JobAndOrder(o, s) ==
  /\ SetJob(o, s)
  /\ SetOrder(o, s)

\* Faulty: the error's code stored as the status.
EscalateRaw(o) ==
  /\ job' = [job EXCEPT ![o] = "worker_error"]
  /\ SetOrder(o, "operator_required")

\* escalate_to_operator_required, with the checkpoint file if there is one.
escalate_to_operator_required(o) ==
  /\ job' = [job EXCEPT ![o] = "operator_required"]
  /\ SetOrder(o, "operator_required")

Escalated(w, o) ==
  /\ w # "listener"
  /\ Finish(w, o)
  /\ \E kept \in SUBSET {"state_correspondence"} : Attach(o, kept)
  /\ UNCHANGED confirmed
  /\ escalate_to_operator_required(o)

\* The update to state_approved with the document just stored; when the
\* trigger aborts it, the document and the confirmation stay.
Approve(o, otherwise) ==
  LET ok == evidence_invariant(ActionOf[o], "state_approved",
                               confirmed'[o], artifacts'[o])
  IN  IF ok THEN JobAndOrder(o, "state_approved") ELSE otherwise

listener_check(o) ==
  /\ Finish("listener", o)
  /\ UNCHANGED confirmed
  /\ \/ \* rejected or returned, with or without a document, which counts as a
        \* certificate where the text has a sign of approval in it ("Not Filed")
        /\ \E doc \in {{}, {"state_correspondence"}, {"approved_certificate"}} :
             Attach(o, doc)
        /\ JobOnly(o, "operator_review")
     \/ \* approved, and the document was downloaded
        /\ Attach(o, {"approved_certificate"})
        /\ Approve(o, UNCHANGED <<job, order>>)
     \/ \* received: the public tracker alone
        /\ seen["listener"][o] = "submitted_to_state"
        /\ UNCHANGED artifacts
        /\ JobOnly(o, "received_needs_sosdirect_check")

attach_approval_document(o) ==
  /\ Finish("tx_documents", o)
  /\ Attach(o, {"approved_certificate"})
  /\ \E found \in BOOLEAN : Confirm(o, found)
  /\ Approve(o, escalate_to_operator_required(o))

ca_check_status(o) ==
  /\ Finish("ca_status", o)
  /\ \/ /\ NoEvidence
        /\ \E s \in {"pending_state_review", "operator_review"} : JobOnly(o, s)
     \/ /\ Attach(o, {"approved_certificate"})
        /\ \E found \in BOOLEAN : Confirm(o, found)
        /\ Approve(o, escalate_to_operator_required(o))
     \/ \* approved, but no certificate was captured
        /\ Attach(o, {"state_correspondence"})
        /\ UNCHANGED <<job, order, confirmed>>

\* The portal's side of a submission: the filing is made and paid for.
ca_portal_submit(o) ==
  /\ seen["ca_submit"][o] \in Selects("ca_submit")
  /\ filed[o] < MaxFilings
  /\ filed' = [filed EXCEPT ![o] = @ + 1]
  /\ seen' = [seen EXCEPT !["ca_submit"][o] = "filed"]
  /\ UNCHANGED vars

\* Faulty: the order told first, the receipt left for later.
ca_mark_submitted_bare(o) ==
  /\ seen["ca_submit"][o] = "filed"
  /\ Finish("ca_submit", o)
  /\ SetOrder(o, "submitted_to_state")
  /\ UNCHANGED jobVars

\* mark_submitted.  Its update of orders names a column the table does not
\* have, so the statement raises and the except branch escalates; the receipt,
\* and the confirmation if the page showed one, are in the same transaction.
ca_mark_submitted(o) ==
  /\ seen["ca_submit"][o] = "filed"
  /\ Finish("ca_submit", o)
  /\ Attach(o, {"submitted_receipt"})
  /\ \E found \in BOOLEAN : Confirm(o, found)
  /\ escalate_to_operator_required(o)

\* No saved payment method (before the portal is paid), or a block, which the
\* worker may also meet on the page that follows the payment.
ca_not_submitted(o) ==
  /\ Finish("ca_submit", o)
  /\ NoEvidence
  /\ \/ seen["ca_submit"][o] # "filed" /\ JobOnly(o, "payment_required")
     \/ JobOnly(o, "operator_required")

\* The guard of _persist_filing_result, read before the first write.
nv_check_status(o) ==
  /\ StateOf[o] = "NV" /\ Formation(o)
  /\ Exists(o) /\ job[o] \notin TERMINAL_DOWNGRADE_GUARD
  /\ seen["silverflume"][o] = "idle"
  /\ seen' = [seen EXCEPT !["silverflume"][o] = "passed"]
  /\ UNCHANGED <<vars, filed>>

\* What a run of file_llc hands over: whether it asks for a review, whether a
\* number was read, and its screenshots.  The confirmation page is captured, as
\* the receipt, only where its number was read; the browser may raise after.
file_llc_results ==
  { r \in [review : BOOLEAN, number : BOOLEAN,
          shots : SUBSET {"submitted_receipt", "state_correspondence"}] :
      "submitted_receipt" \in r.shots => r.number }

\* _persist_filing_result: one transaction, submitted with receipt and number.
nv_persist_filing_result(o) ==
  /\ Finish("silverflume", o)
  /\ \E r \in file_llc_results :
       /\ Attach(o, r.shots)
       /\ Confirm(o, r.number)
       /\ IF "submitted_receipt" \in r.shots /\ ~r.review
          THEN JobAndOrder(o, "submitted_to_state")
          ELSE escalate_to_operator_required(o)

WorkerStep(o) ==
  \/ \E w \in Pollers : Select(w, o) \/ Escalated(w, o)
  \/ \E w \in Workers : NothingCommitted(w, o)
  \/ listener_check(o)
  \/ attach_approval_document(o)
  \/ ca_check_status(o)
  \/ ca_portal_submit(o)
  \/ ca_mark_submitted(o)
  \/ ca_not_submitted(o)
  \/ nv_check_status(o)
  \/ nv_persist_filing_result(o)

SysNext ==
  \/ Next /\ UNCHANGED <<seen, filed>>
  \/ \E o \in Orders : WorkerStep(o)

SysSpec == SysInit /\ [][SysNext]_sysVars

-----------------------------------------------------------------------------
(* Properties.                                                               *)

\* The refinement mapping: a job's stage, and the evidence on file for it.
StageOf(status) ==
  LET s == normalize_state(status)
  IN  IF s \in SettledStates THEN "settled"
      ELSE IF s = "submitted" THEN "submitted" ELSE "open"

OnFile(action, confirmation, arts) ==
  { k \in {"confirmation", "receipt", "terminal"} :
      \/ k = "confirmation" /\ confirmation
      \/ k = "receipt" /\ "submitted_receipt" \in arts
      \/ k = "terminal" /\ arts \cap TerminalArtifacts(action) # {} }

stageBar == [o \in Orders |-> StageOf(job[o])]
evidenceBar == [o \in Orders |-> OnFile(ActionOf[o], confirmed[o], artifacts[o])]

Promise == INSTANCE FilingEvidence WITH stage <- stageBar, evidence <- evidenceBar

\* The server and the workers together keep the promise of FilingEvidence:
\* no interleaving of stale worker writes, payments and operators shows a
\* stage whose evidence is missing, and no evidence is ever lost.
KeepsPromise == Promise!Spec

\* "Received" in the public tracker must not overwrite a stronger status: a
\* job the state is known to be reviewing, or has approved, does not become
\* received_needs_sosdirect_check (docs/cron_jobs.md, filing_status_listener.py).
ReceivedNeverDowngrades ==
  [][\A o \in Orders :
       normalize_state(job[o])
           \in {"pending_state_review", "pending_government_review"} \cup SettledStates
         => job'[o] # "received_needs_sosdirect_check"]_sysVars

\* The duplicate-filing gate of mark-submitted: a filing the state is known to
\* be reviewing is not recorded as submitted a second time.
NoSecondSubmission ==
  [][\A o \in Orders :
       job[o] \in {"pending_state_review", "received_needs_sosdirect_check"} =>
         job'[o] \notin SubmittedRaw]_sysVars

\* The duplicate-filing check of the preflight: the portal does not take a
\* second filing of the same job.
FiledOnce == \A o \in Orders : filed[o] <= 1

\* The worker's turn that files the receipt of a paid California filing, with
\* the File Number on record, leaves the filing shown as submitted.
ReceiptShowsSubmitted ==
  [][\A o \in Orders :
       /\ seen["ca_submit"][o] = "filed" /\ seen'["ca_submit"][o] = "idle"
       /\ "submitted_receipt" \in artifacts'[o] \ artifacts[o]
       /\ confirmed'[o]
       => job'[o] = "submitted_to_state" /\ order'[o] = "submitted_to_state"]_sysVars
=============================================================================
