# SOSFiler: formal models

SOSFiler takes an order for a business formation (or an annual report), collects
a payment that is authorized first and captured once the government fees are
known, prepares the documents, files with the state and keeps the evidence. One
FastAPI process serves customers, operators and Stripe; cron starts worker
processes that drive the state portals; all of them write one SQLite file.

These modules model the parts where order, failure and concurrency decide
whether the system is right: what an order claims to its customer and which
evidence backs it, what the workers write over each other, what is charged, who
may open what, and what gets lost between two processes and one file. TLC checks
them on small instances; TLAPS proves every safety property the runs check for every
value of the constants.

    tlc -config MCFilingJob_formation.cfg MCFilingJob
    tlapm FilingProofs.tla

## Inventory

| component | state | operations | hard because | correct when |
|---|---|---|---|---|
| state machine and triggers (`execution_platform.py`, triggers in `server.py`) | none; `filing_jobs.status` | `validate_transition`, `filing_jobs_evidence_invariant` | raw and normalized statuses; the trigger sees six raw ones | no status without its evidence |
| orders, jobs, evidence (`server.py`) | `orders`, `filing_jobs`, `filing_artifacts` | payment webhooks, formation pipeline, filing prep, registered agent, operator endpoints | awaits in the pipeline, webhooks at any time, restarts | order and job claim only what is on file; a paid order moves on |
| portal workers (`filing_status_listener.py`, `tx_sosdirect_document_worker.py`, `ca_bizfile_worker.py`, `silverflume_filer.py`) | the rows they selected | check status, attach documents, submit, escalate | processes of their own, stale selections, death between portal and commit | no downgrade, no second filing, nothing filed unpaid |
| payment (`server.py`) | `execution_quotes`, `payment_ledger`, `stripe_webhook_events`, Stripe's intents | authorize, reconcile, supplement, capture, webhooks | several quotes and checkouts of one order, redelivery, reordering, failing handlers, restarts | one charge per quote, booked as taken, its memory never lost |
| quotes, orders, cart, partners (`server.py`) | `orders`, `execution_quotes`, `partner_orders`, `partner_applications`, Stripe sessions | quote, order, check out, apply, approve, completed sessions | several commits per handler, repeated requests, handlers that fail half way | one order per external id; what is paid is booked with every order; a fee is paid once |
| accounts and cockpit (`server.py`) | `users`, reset links, `auth_mfa_challenges`, `admin_sessions` | sign up and in, link orders, reset, challenge, verify, revoke | two commits per verification, restarts forget rate limits, addresses differ in case | one session per code, none after spent guesses; an order stays with its owner |
| EIN queue (`ein_queue_worker.py`, `ein_completion_ingest.py`, `irs_ein_worker.py`, `server.py`) | `ein_queue.json` per order, `orders.ein`, timeline, vaulted SSN | queue after approval, prepare, complete, ingest | a file shared without a lock, two ways to ask, file and tables written apart | ready only with an SSN, received only with the letter, a captured letter is published |
| tickets, runs, engineering queue (`server.py`, `filing_adapters.py`) | `support_tickets`, `automation_runs` | open, approve, close, backfill; start, resume, stop; test, deploy check | repeated clicks, threads that end late, restarts | one open ticket per purpose; a ticket is built once, and while it is approved |
| registered agent (`corpnet_client.py`, `server.py`) | partner orders, artifacts | fulfil, reconcile | remote calls that time out, a batch in one transaction | evidence is of CorpNet's order for this job, and is reported |
| regulatory research queue (`research_worker.py`) | `research_queue.json`, controls | claim, finish, set status, initialise | a file lock some commands ignore, leases, cooldowns, death, exceptions nobody catches | claims exclude; productization comes last; every job gets its turn |
| portal certification (`state_review_certifier.py`, `state_automation_profiles.py`, `state_automation_matrix.py`) | gates file, matrix | select, visit, classify, write the result | 51 scripts, statuses read by a list elsewhere, a file written in place | complete only from a safe page; unfinished gates stay on the worklist; complete ones stay |
| execution mirror (`execution_repository.py`) | Supabase tables | dual write, backfill, compare | best effort, beside the commit | the mirror catches up |
| regulatory batches and record store (`regulatory/`) | JSON documents | extract, import, review | status and store in separate critical sections | no record without its source |
| compliance, notifier, documents, licences, DBA, routing, launch readiness, frontend | files and reports | | little or no concurrent state | |

`PROJECT.json` lists every component with what is and is not modelled, and
every hazard with the line where it bites and the property that would catch it.

## Modules

    FilingStates          the status vocabulary, validate_transition, the triggers' predicate
      FilingJob           orders, jobs, evidence: the API server          MCFilingJob
        FilingSystem      + the portal workers as processes               MCFilingSystem, FilingProofs
          FilingEvidence  what the two together promise (abstract)
    Payment               one order and its quotes, operator and Stripe         MCPayment, PaymentProofs
    Intake                quotes, orders, checkouts, partners                   MCIntake, IntakeProofs
    Accounts              customers' accounts and the operator's way in         MCAccounts, AccountsProofs
    EINQueue              from approval to the EIN                              MCEINQueue, AgentAndEINProofs
    RegisteredAgent       the partner that supplies agents                      MCRegisteredAgent, AgentAndEINProofs
    OperatorQueue         tickets, runs and engineering jobs                    MCOperatorQueue, OperatorQueueProofs
    ResearchQueue         the queue of filing research                          MCResearchQueue, ResearchQueueProofs
    Certification         the portals' certification gates                      MCCertification, CertificationProofs

FilingProofs is about FilingJob and FilingSystem. AgentAndEINProofs has the two
small modules of what a filing gets from outside, which share no variable;
RegisteredAgent's definitions that EINQueue has too begin with `Agent`.

The modules without an EXTENDS between them meet in rows of one table. What
one module does to another's row is an action of the latter: `Approve` and
`Complete` in EINQueue and `JobMoves` in OperatorQueue stand for FilingJob,
`ein_status` in FilingJob for EINQueue, the payment actions of FilingJob for
Payment and Intake, and each may happen more often there than it really does.

**FilingStates** keeps the source's names. A status is raw, as the column stores
it; `normalize_state` maps the aliases. `evidence_invariant` is the predicate
of the triggers on `filing_jobs`; a write that makes it false is aborted.
Evidence is a set of artifact types, because the predicate asks whether a row
of a type with a recorded digest exists.

**FilingJob** has one order with one job per element of `Orders`. The server is
one asyncio process and its SQLite calls are synchronous, so everything a
handler does between two awaits is one step. Two operations have awaits in the
middle: the formation pipeline (e-mail, document generation; four steps, any of
which may end in the `except` branch, `PipelineError`, or without a trace,
`PipelineLost`: what is read before the `try`, or the branch's own write, raises)
and filing prep (two steps). A direct checkout starts a pipeline whatever the
order is for; the formation job it then makes for a service order is beside the
order's own and left out. A handler
refused by a guard or by a trigger rolls back, which is a step that is not
enabled. `Crash` is a restart: tables stay, background tasks and requests in
flight are gone (a run is then `lost`). `funds` is what quote and ledger show of
the payment; Payment has the detail, and here the payment actions may happen more
often than there.

**FilingSystem** adds the workers. A worker's turn with a job is `Select` (it
remembers the row) and later one of its commits, which go by job id and may find
the job moved on. `Approve` is the update to `state_approved`: when the trigger
aborts it the worker's earlier statements of the transaction stay, and the
worker escalates (Texas documents, California) or leaves job and order alone
(the listener). A document the listener stores is named by the text it was found
with, so a rejection may leave an `approved_certificate` ("Not Filed"). `NothingCommitted` covers a dry run, nothing new on the portal,
and a process killed at any point before its commit.
The California submission is three steps, `Select`, `ca_portal_submit` (the
portal has filing and fee), `ca_mark_submitted`, because a death between them
leaves a filing nobody recorded.
The Nevada run has no schedule and no selection: `nv_check_status` is the guard it
reads just before its transaction, `nv_persist_filing_result` that transaction,
with what `file_llc` may hand over as a set of records.

**FilingEvidence** is the abstract specification: a filing has a stage (open,
submitted, settled) and evidence that only grows, and shows a stage only with
what the stage needs. FilingSystem implements it under the mapping `stageBar`
and `evidenceBar` (`KeepsPromise`).

**Payment** is one order with the quotes that are made its own, the ledger rows
that are read again, the event log and Stripe's sessions and intents.
`authorize_order` binds the quote it is given, whosever it is, and counts it as
authorized at once; another order may take it away again
(`authorize_other_order`) and be captured on it (`other_order_captured`). Capture,
reconciliation, the submission gate and the intents' events all go by the latest
quote (`IsLatest`), a completed session by the quote in its metadata. A direct
checkout is captured as it is paid and touches no quote. `charged` remembers, for
the property alone, on which quote the capture endpoint charged a session. An
event is due until it is answered; `stripe_webhook` is a handler that gets
through, `stripe_webhook_cut_short` one that ends before its first commit, after
it, or after the ledger row: as `failed` when an exception was caught, as
`processing` when the process died. `capture_lost` is a capture at Stripe whose
commit never came.

**Intake** has what a payment is preceded by. No handler of it suspends, but
each commits several times, and the `_cut_short` actions are a restart, or an
exception, between two commits. A session carries the orders and quotes of its
metadata; `stripe_webhook` is the completed session's handler to its end,
`stripe_webhook_fails` the same with any part of the ledger's rows, after which
the event is let in again. `AuthorizationLapses` and `payment_intent_canceled`
are an authorization that ends at Stripe and the handler that puts its order
(`Linked`, by `orders.stripe_payment_intent`) back to `pending_payment`. An
application's fee may be waived by the environment, which a restart changes.

**Accounts** follows one mailbox. Accounts are keyed by the address as typed,
orders by its lower case, so the accounts of one mailbox are `Spellings`.
A challenge's code is known to its reader or not (`told`); a guess is right only
then. Verification commits the challenge's use and the session apart.

**EINQueue** is one order's way through server, queue worker, ingest worker and
IRS worker. Each worker selects, works, and commits; the file is written
immediately and the tables with the commit, so `queue_lost` and `complete_lost`
leave the file only. `Refs` is what `redact_sensitive` makes of the SSN's vault
reference each time the file is saved.

**OperatorQueue** has one row type for the three kinds of rows `automation_runs`
holds: filing runs, engineering jobs, notes of a closing. The adapters never
suspend, so a start is a step; tests and deploy check run in threads and are two
steps each, with the row read at the start.

**RegisteredAgent** has the partner's orders and, per job, artifact, file and
status. An answer is ready by its status or by a link to a document, which CorpNet
may put on an order that is still pending (`CorpNetLinksDocument`). A reconciliation is one step, as it holds SQLite's write lock and blocks
the event loop; its other outcome, `reconcile_raises`, takes the rows back.

**ResearchQueue** is the queue file with its claims. `Claim` and `Finish` are
the two critical sections of a run, what happens between them is a choice of
outcomes; `update_status` and `init_queue` read and, with `save_queue`, write
without the lock; any process that finds no file makes it so (`present`).
`LeaseLapses` is a run that outlives its lease. `Raises` is an exception of a
fetch that nothing catches, `Crash` a kill: both end the run with its claims in
the file, and the daemon (`up`), which only an operator starts (`StartDaemon`).

**Certification** follows one jurisdiction, any of the 51. A page is the set of
signs the scripts look for, and every script is an operator from the signs to a
result, in the order of its own tests; `Visits[s]` is all that the script of `s`
can return, whatever the portal shows. The gates are computed from the matrix and
overridden by the file, which a certifier reads, empties and writes. `ByHand`
marks what an operator enters in the file, `seen` the signs a run saw when it
recorded a complete gate, `disturbed` that two certifiers overlapped or one died
while the file was empty.

Definitions marked "Faulty" are the mutated forms that show each checked
property can fail; no specification uses them.

## Runs

| run | question | bounds |
|---|---|---|
| `formation` | does the server's evidence invariant survive overlapping pipelines, and does a started pipeline end where somebody sees it? | one formation with the partner's agent or one annual report, two overlapping pipelines, the nine targets of the main line with its recovery branch, two kinds of evidence, one restart |
| `texas` | do server and workers keep the promise of FilingEvidence for an annual report? | one turn per worker kind in flight, the operator's targets with the later ones and an alias of each strength, all four terminal kinds of evidence; no restart, as `PipelineLost` and `NothingCommitted` already lose all that a restart would |
| `california` | the same for a formation, there or in Nevada, and what does the order show? | one order of each state, one of them touched; four operator targets (`texas` has the rejection), three kinds of evidence, one portal submission |
| `charges` | is a quote charged once, booked as taken, and is that final? | two checkouts of any kind, two quotes of 2, the older one shared with other orders, totals of 1 or 2, one handler that raises or dies |
| `repair` | do redelivered webhooks repair a lost capture and a failed handler? | two checkouts of any kind, one quote of 1 that may be raised to 2, one failing handler, one restart around a capture |
| `orders` | do repeated requests and handlers that fail half way leave one order, booked in full? | two orders, two quotes, two checkouts of any kind, one external id, one failure, an authorization may lapse |
| `cockpit` | does a code open one session, and does an order keep its owner? | two spellings, two orders, one reset link, one challenge, two sessions, two guesses, one restart |
| `lane` | is nothing ready without an SSN or received without a letter, and does a captured letter arrive? | one order, one worker of each kind, one death between file and commit |
| `work` | is a ticket built once and while it is approved, and is there one open ticket per purpose? | two tickets, two rows of `automation_runs`, three statuses of the filing, one restart |
| `agents` | is the evidence of CorpNet's order for this job, and reported? | two jobs, three partner orders, each with or without a document |
| `research` | do claims exclude, does productization wait, does every job get its turn? | three jobs in two states, a daemon and a run by hand, one job per run, a queue file or none, one edit around the lock, one lapsed lease or lost run by hand, any number of daemons that end and are started again |
| `portals` | does any script complete a gate from an unsafe page, and does the worklist keep what is unfinished? | all 51 jurisdictions, every page, two certifiers at once, two starts, two entry certifications |

One order is enough in FilingJob, FilingSystem and EINQueue: no action reads
another order's rows, so an order's behaviours do not depend on how many there
are, and the proofs hold for any set; `formation` and `california` therefore have
their two orders move one at a time (`OneAtATime`). The amounts give every
comparison in the code both outcomes; two sessions are the fewest that can
replace each other, two quotes the fewest of which a later one can. Workers
beyond one turn of each kind would only repeat it.
Two tickets, orders, jobs or certifiers are what a pair can confuse; the third
partner order is one that is lost beside two that are not. A death once is
enough to lose a commit, and what the code does afterwards is the same as before.
In `research` the code's factor of 6 candidates per job is 2: it must leave
some job out of the candidates, as 6 does with the real queue's hundreds. Guesses
in `cockpit` are 2 in place of 5, which separates the last from the first.

`texas` has an annual report because its terminal evidence is the most varied;
a formation in Texas and an annual report in California are covered by the
theorems, which hold for every value of `ActionOf` and `StateOf`.

### Refuted statements

Documents, comments or messages of the repository promise some things the code
does not do. The definitions are beside the properties, and these configurations
end in the counterexample; they are not part of the runs that must pass.

| configuration | statement | where it says so | what the code does |
|---|---|---|---|
| `MCFilingSystem_received.cfg` | `ReceivedNeverDowngrades` | docs/cron_jobs.md:95: "`Received` in the public tracker must not overwrite a stronger SOSDirect entity status such as `Pending Review`." | filing_status_listener.py:318 tests the status selected before its portal requests and updates by id alone |
| `MCFilingSystem_resubmit.cfg` | `NoSecondSubmission` | server.py:6349: "This filing is already submitted, approved, or complete. Create a correction job instead of resubmitting." | filing_adapters.py:40 lacks `pending_state_review` and `received_needs_sosdirect_check`, which the workers write after a submission |
| `MCFilingSystem_refiled.cfg` | `FiledOnce` | docs/filing_automation_process.txt:27: "Current preflight checks block submission when payment is not authorized/paid, a duplicate filing risk exists" | ca_bizfile_worker.py:1128 pays the portal and records it afterwards; after a death in between the next run files again |
| `MCFilingSystem_receipt.cfg` | `ReceiptShowsSubmitted` | qa/test_pr6_worker_confirmation.py:151 expects success, with an orders table of its own that has the column (38) | ca_bizfile_worker.py:1112 updates `orders.submitted_at`, which the schema gives `filing_jobs` only: receipt and File Number are stored and the job is escalated |
| `MCPayment_retry.cfg` | `CountedOnce` | docs/gtm_architecture_plan_2026-05-15.md:47: "Idempotent webhook ledger" | server.py:3072 commits the supplement before the event ends; a retry adds it again |
| `MCEINQueue_unqueued.cfg` | `ApprovedIsQueued` | docs/cron_jobs.md:9: an approved order's EIN application is queued | a customer who asks before approval (server.py:11389) leaves `ein_pending` on the timeline, which `already_queued` takes for queued |
| `MCOperatorQueue_stop.cfg` | `StopIsFinal` | server.py:3489, `ENGINEERING_TRANSITIONS`: nothing follows `stop_requested` | a tests thread that ends after the stop writes its own status (server.py:3939) |
| `MCIntake_quote.cfg` | `QuotedMoneyIsTheOrders` | server.py:7511: "Quote is already bound to a different order" | `authorize_order` binds the quote it is given to its own order, whichever it had (server.py:7830) |

Two more configurations show how far the properties of Payment reach. No document
states what they refute; a reader might take it for granted:

| configuration | statement | what the code does |
|---|---|---|
| `MCPayment_twice.cfg` | `ChargedOnce`: of two paid checkouts one is charged | `authorize_order` makes another quote the order's (server.py:7830); capture reads the latest quote (server.py:2652), which says nothing was captured, and charges the second. `ChargedOncePerQuote` is what holds |
| `MCPayment_relinked.cfg` | `AllIsRecorded`: every charge is booked in the end | a restart loses the record of a capture, a second checkout completes and replaces `orders.stripe_payment_intent`, and `payment_intent.succeeded` of the first finds no order (server.py:3314). `CaptureIsRecorded` therefore excepts a session that was replaced |

### Steps the models contain and no property rules out

The code does nothing against them:

- the universal transition records a submission of an order whose payment is
  only authorized: it does not ask `validate_submission_safety` (server.py:9261);
- the California submit worker files a `ready_to_file` job without reading its
  payment (ca_bizfile_worker.py:1128);
- a restart drops a pipeline that is queued or under way, and nothing starts it
  again (server.py:8692); an exception before the `try` or in the `except` branch
  ends it unseen (server.py:8798, 8838). `PipelineEndsVisibly` excepts a pipeline
  that was lost so;
- binding another quote to an order that was captured sets the captured total its
  submission gate reads back to 0 (server.py:7830, 2677): no quote forgets its
  capture (`CaptureIsFinal`), but the gate shuts;
- a direct checkout of an order with a quote is captured and the quote does not
  know it (server.py:8709), so a held authorization may be captured as well;
- a completed event that is handled after its authorization was canceled, because
  it was late or failed before, shows the order as authorized (server.py:3030);
- a restart inside a webhook handler leaves its event at `processing`, and every
  redelivery is answered as a duplicate (server.py:2606); `PaidIsNoticed` is
  therefore checked with handlers that raise;
- an order nobody has paid can be reconciled and captured as a dry run, because
  the session counts as authorized when it is created (server.py:7827);
- with checkout and supplement both held, the reconciled total cannot be
  captured: only the first intent is asked for (server.py:7994);
- `create_order` makes the formation before it checks the quote, and a refused
  quote leaves the order (server.py:7501); a restart before the partner's row is
  inserted leaves order and quote bound and the external id unknown, so the
  repeated request is refused for good (server.py:7161);
- a stopped filing run can be resumed, and a restart leaves a run `running` for
  ever (server.py:9479); an engineering job reaches `ready_to_deploy` from
  `in_progress` without tests;
- `fulfil` asks only for an attached assignment, so a repeated call places a
  second partner order (server.py:10882); an answer with a document counts as an
  assignment also while CorpNet calls the order pending (server.py:10711); a job
  gets back to `ready_to_file` whatever it was (server.py:10832);
- a text such as "Not Filed" contains "filed", so the document of a rejected Texas
  filing is stored as an `approved_certificate` (filing_status_listener.py:274),
  which later satisfies the trigger;
- an exception other than `OSError` while a page is fetched ends the research
  daemon (research_worker.py:640, 917), and nothing in the repository starts it
  again; `EveryJobIsTried` is about a daemon that stays up;
- cooldowns do not last, because `Finish` reads the controls again
  (research_worker.py:860), and a status a reviewer sets while a run has the job
  is overwritten (research_worker.py:870);
- a dry run that is written records `pending_browser_certification`, which
  `INCOMPLETE_GATE_STATUSES` lacks: the jurisdiction leaves the worklist and is
  never certified in the browser (state_review_certifier.py:3117,
  state_automation_profiles.py:26). `UnfinishedIsListed` therefore excepts it;
- a gates file torn by an overlapping or dying certifier is read as empty and
  written back, which loses every result (state_review_certifier.py:293);
  `CompletedStays` therefore excepts it;
- a browser run for a jurisdiction whose next gate is `customer_input_schema`
  writes the portal's result to that gate although what is missing are filing
  records (state_review_certifier.py:3203); a rebuilt matrix forgets entry
  certifications (state_automation_matrix.py:194).

Not in a model, but met while reading: a signed-in customer's SSN cannot be
stored, because the account route opens a write transaction and the vault
inserts on a second connection (server.py:1884), where EINQueue has the token
route; reconciliation blocks the event loop for up to 25 seconds per candidate
and its limit is taken before the filter (server.py:10995); a script that raises
ends a certification batch before its manifest is written.

## Fairness

`FilingJob!Fairness`: a pipeline step that is ready is taken, because the event
loop runs a task until it returns and the awaits end or raise. Nothing is
assumed of customers, operators or Stripe; a pipeline may at any time end in an error or
be lost instead. `Payment!Fairness`: an event that
`begin_stripe_webhook_event` lets in is eventually handled to the end, because
Stripe redelivers what was not answered 200; failures are bounded by
`MaxFaults`. No fairness is assumed of a capture or of a customer.
`EINQueue!Fairness`: cron starts queue and ingest worker every fifteen minutes
and each comes to the end of what it selected.
`ResearchQueue!Fairness`: while it is up the daemon repeats (it sleeps between
rounds and ends only by `Crash` or `Raises`); every fetch has a timeout, so a run
comes to its end, by `Finish` or by an exception, whichever; leases and cooldowns
end with time. Nobody has to start the daemon, and runs by hand and edits are
under no fairness either. The other modules are checked for safety only.

## Proofs

Every invariant and every action property of the runs, and the refinement, is
stated by a theorem, for every value of the constants that satisfies the modules'
assumptions. The assumptions are that bounds are naturals, sets of processes or
jobs finite where they are counted, that the stand-ins for "none" (`NoUser`,
`NoPartnerOrder`, `Nobody`, ...) are none of the things they stand for, and, in
ResearchQueue, that jobs are sorted by distinct places. Each invariant was checked
on the run's instance before it was proved.

*FilingProofs.* For the server alone `TypeCorrect`, then `EvidenceOnFile`: the
conjunction `TypeOK /\ EvidenceInvariant /\ OrderEvidence` is inductive. The two
evidence invariants need each other's steps, and the type invariant tells which
statuses there are. The argument goes through `Moves(o)`, what every action does
to one order: evidence grows, and the new status of job and of order is either
backed by the trigger's predicate, or claims nothing, or is the old one. The
aliases no trigger guards are entered from a settled status only
(`UnguardedOnlyFromSettled`), which is where the state machine carries the
invariant alone. With the workers (`SysTypeCorrect`, `SysEvidenceOnFile`): their
commits are moves too, whatever they selected, so nothing depends on `seen`.
`SystemKeepsPromise` is the refinement: initial states map to initial states, a
move of one order maps to `Promise!Step(o)` or a stutter, by what `SysInv` says of
the stage reached.

*PaymentProofs.* `LedgerTheorem` needs `SentAfterCapture`, that
`payment_intent.succeeded`, or the completed event of a direct checkout, exists
only for a captured intent, and that Stripe never undoes a capture
(`CaptureKept`). `CaptureIsFinalTheorem` goes action by action (`QuotesKept`) over
every quote, also one another order holds; the capture endpoint writes a total
over 0 only. `ChargedOncePerQuoteTheorem` assumes `MaxCrashes = 0`, no restart
between Stripe's capture and its commit; its invariant is `Remembered`, that a
quote on which a session was charged says that something was captured, which is
what refuses the next charge and which no binding to an order takes away. The
assumption is needed: with the restart, a second checkout that completes first is
charged on the same quote.

*IntakeProofs.* `OneOrderPerId` is inductive with the types: an external id is
linked only when no order has it, and links stay. `EveryOrderIsBooked` needs
`SessionsNameOrders`: an event follows its checkout, and the orders a checkout
names exist and go on existing. `PaidOrdersStayPaid` follows the intent an order
stands on: it is written with the status, and only the cancellation of that
intent puts the status back. `FeePaidOnce` is an action property: every handler that
writes the application's payment looks whether it is paid.

*AccountsProofs.* `OneSessionPerChallenge` alone is not inductive: nothing in it
says that the challenge of a session is used up. `UsedForSession` adds that, with
the guesses it had left, and `OneEach` that a challenge has at most one session;
the order of the two commits, use before session, is what carries it over a
restart. `OwnersAreFinal` goes action by action.

*AgentAndEINProofs.* `AgentInv` says of attached evidence that its partner order
was placed for this job and counts as assigned (`EvidenceIsOwn`), and of a tracked
order that it is the job's own (`TrackedIsOwn`), which is what a poll starts from.
It rests on `PartnerOrderIsFinal`: no order at the partner changes its job, or
loses its assignment or its document. For the EIN lane, `LetterMove` is what every step may do to one order:
either it tells of no EIN and takes no letter, or it leaves a letter on file.
`ReadyHasSSN` speaks of the file only, and the file is rewritten from what
a worker selected earlier; `SSNBehind` therefore covers all that shows a value in the
vault (`Seen`): the status or reference in the file, the reference the queue
worker carries, the item the IRS worker has loaded. The vault loses nothing.

*OperatorQueueProofs.* `WorkInv` has, beside the types, that an engineering job
names an approved ticket, that each ticket has one job at most, and that a ticket
not yet made has no status (`FreshIsBlank`), without which a new ticket might be
born approved. Every step is one of `TicketMoves` and of `RowsChange`, so approved
stays approved and a job is added only for a ticket without one. The guard
that finds an open ticket makes `OneTicketIsOpen` inductive by type of ticket.

*ResearchQueueProofs.* The type invariant bounds what a run claims by `Limit`; the
proof counts the first candidates by their places, which the sort key orders
(`SortKeyOrders`). The two promises hold while nobody has written around the lock
(`edits = 0`): `HeldIsClaimed` ties what a run works on to a live claim in the
file, `ClaimedIsOpen` keeps claimed jobs out of what is done, and
`ProductizationWaits` extends `ProductizationLast` to productization that is
claimed, because its status is written by a later step than its claim.

*CertificationProofs.* `ScriptsAreSafe` is about the 51 scripts and every page: a
script's own tests never answer "complete", and the classification it falls back
to does so only for a review screen without challenge, login or submit, also
when signs were left out of the page first. With it `SafeInv` follows the
result from visit to file, over concurrent certifiers and torn files.
`UnfinishedStaysListed` needs the types only, which bound the statuses on file.
`CompletedIsKept` rests on `Alone`: as long as nothing was disturbed one certifier
works, the file is torn exactly while it writes, what it loaded is the file, and
the gate it works for was not complete, because the worklist is made from the
same file (`TargetIsIncomplete`).

Only model-checked are the liveness properties: `PipelineEndsVisibly`,
`CaptureIsRecorded`, `PaidIsNoticed`, `CapturedIsPublished` and `EveryJobIsTried`.
Liveness under fairness, ENABLED and induction over recursive definitions are out
of this prover's reach.

## Abstractions

- What a customer typed does not change; of the preflight's checks those that
  can change are kept (payment, status, registered agent). A consent artifact
  counts as an assignment.
- The partner-agent service is switched off for new orders, so orders that have
  it start in the database (`RAOrders`).
- One filing prep per order is in flight; one turn per worker kind and order.
- The listener handles its jobs one at a time. The multi-factor path of the Texas
  worker, which escalates the whole snapshot, is escalation of one job here.
- Of the ledger Payment keeps the rows that are read again: captures, and the
  authorizations that are summed when the order has no authorized quote; the
  reconciliation and `amount_capturable_updated` rows are left out. All quotes
  begin with one estimate. Carts and refunds are left out of Payment; FilingJob
  has their effect on the order, and Intake a cart's way to it. Every cart
  checkout captures at once (server.py:7607), so the handler of an authorized cart
  (server.py:3169) meets no session and is left out.
- FilingJob keeps a capture for good: its submission gate stays open where the
  binding of another quote shuts it in the code (Payment has that step), so it
  allows a submission more often than the code does.
- Amounts are small naturals; SQLite integers do not overflow at cents.
- Rate limits and audit lines are left out of Accounts: the former only delay,
  and restarts forget them.
- In EINQueue the SSN is a vault entry and its reference, never digits; the IRS
  pages are the operator's `Capture`.
- In ResearchQueue a research job's visit is a choice among the statuses the
  code derives from it; URLs, notes and sources do not decide a status.
- In Certification which records and portal URLs a jurisdiction has is a choice,
  made anew with each matrix; runs that do not write,
  and the other jurisdictions of a batch, which a run alone takes one after the
  other and rewrites as it read them, are left out; the matrix file is written
  whole.

## Not modelled

The execution mirror (copies nothing here decides on), the browser session of the
Nevada run, the regulatory batches and record store (one-pass
functions over JSON documents; the store and its status are written in separate
critical sections, research_runner.py:234, and the maintenance commands take no
lock, record_store.py:145), the launch readiness report, compliance dates,
e-mail, document text, licences and DBA filings, the portal scripts in
`state_filing.py` the server does not call, the language model behind
`chat_expert`, `EINFiler`, static pages and DDL. `PROJECT.json` says why of each.

## Plan

1. FilingStates, FilingJob, FilingSystem, FilingEvidence, Payment and their
   proofs (done).
2. EINQueue, OperatorQueue, Intake, Accounts, RegisteredAgent, ResearchQueue,
   Certification, checked (done).
3. Theorems for the new modules: every safety property of their runs (done).
4. Abstract specifications of EINQueue (a letter published once, whoever brings
   it) and of Payment's ledger (an append-only log), and that the two implement
   them.
5. Payment: carts with a shared PaymentIntent and refunds; the formation job of a
   service order's pipeline; the snapshot
   escalation in Texas; the mirror as an abstract log.
