--------------------------- MODULE OperatorQueue ---------------------------
(***************************************************************************)
(* The operators' work: support_tickets and automation_runs.  A row of     *)
(* automation_runs is a filing run (autopilot, adapter operation), an      *)
(* engineering job made from an approved ticket, or the note of a ticket's *)
(* closing.  One filing job stands for the filings tickets are made about. *)
(*                                                                         *)
(* Handlers are single steps, as no adapter really awaits.  The tests and  *)
(* the deploy check of an engineering job run in threads of their own and  *)
(* write, when they end, over the row as they read it.                     *)
(***************************************************************************)
EXTENDS Naturals, FiniteSets

CONSTANTS
  Tickets, Runs,  \* ids; how many rows the instance has room for
  JobSample,      \* the statuses the filing job passes through
  MaxCrashes

\* Filing statuses whose next step is an operator's.
OPERATOR_FILING_TICKET_STATUSES ==
  {"ready_to_file", "annual_report_packet_prepared", "automation_started",
   "operator_required", "received_needs_sosdirect_check",
   "rejected_or_needs_correction", "submitted", "submitted_to_state",
   "pending_government_review", "state_approved", "approved",
   "documents_collected"}

FilingStatuses == OPERATOR_FILING_TICKET_STATUSES \cup {"paid", "complete"}

ASSUME QueueAssumption ==
  /\ JobSample \subseteq FilingStatuses
  /\ MaxCrashes \in Nat

VARIABLES
  job,      \* filing_jobs.status
  ein,      \* orders.ein is set
  ticket,   \* support_tickets: type and status
  run,      \* automation_runs, with what the log says of package and tests
  threads,  \* the threads of an engineering job that are under way
  crashes

vars == <<job, ein, ticket, run, threads, crashes>>

TicketTypes == {"none", "support", "filing_action", "filing_intervention"}
TicketStatuses == {"none", "open", "approved", "closed"}

ENGINEERING_TRANSITIONS ==
  [ approved |-> {"in_progress", "blocked", "stop_requested"},
    in_progress |-> {"tests_failed", "ready_to_deploy", "blocked", "stop_requested"},
    tests_failed |-> {"in_progress", "blocked", "stop_requested"},
    ready_to_deploy |-> {"deployed", "in_progress", "blocked", "stop_requested"},
    blocked |-> {"in_progress", "stop_requested"},
    deployed |-> {},
    stop_requested |-> {} ]

ENGINEERING_JOB_STATUSES == DOMAIN ENGINEERING_TRANSITIONS

AdapterStatuses == {"operator_required", "automation_started"}
RunStatuses ==
  ENGINEERING_JOB_STATUSES \cup AdapterStatuses \cup
    {"none", "running", "waiting_for_intervention", "ready_to_resume",
     "dry_run_complete", "closed"}

NoTicket == "no ticket"
Row(lane, status, t) ==
  [lane |-> lane, status |-> status, ticket |-> t, package |-> FALSE, tests |-> "none"]
NoRow == Row("none", "none", NoTicket)

TypeOK ==
  /\ job \in FilingStatuses
  /\ ein \in BOOLEAN
  /\ ticket \in [Tickets -> [type : TicketTypes, status : TicketStatuses]]
  /\ run \in [Runs -> [lane : {"none", "filing", "engineering", "review"},
                       status : RunStatuses, ticket : Tickets \cup {NoTicket},
                       package : BOOLEAN, tests : {"none", "passed", "failed"}]]
  /\ threads \in [Runs -> SUBSET {"tests", "deploy"}]
  /\ crashes \in 0..MaxCrashes

Init ==
  /\ job = "paid"
  /\ ein = FALSE
  /\ ticket = [t \in Tickets |-> [type |-> "none", status |-> "none"]]
  /\ run = [r \in Runs |-> NoRow]
  /\ threads = [r \in Runs |-> {}]
  /\ crashes = 0

Open(type) == {t \in Tickets : ticket[t] = [type |-> type, status |-> "open"]}
FreshTickets == {t \in Tickets : ticket[t].type = "none"}
FreshRuns == {r \in Runs : run[r] = NoRow}
Engineering(r) == run[r].lane = "engineering"

Opened(t, type) == ticket' = [ticket EXCEPT ![t] = [type |-> type, status |-> "open"]]
SetTicket(t, s) == ticket' = [ticket EXCEPT ![t].status = s]
SetRun(r, row) == run' = [run EXCEPT ![r] = row]
SetStatus(r, s) == run' = [run EXCEPT ![r].status = s]

Dies == crashes < MaxCrashes /\ crashes' = crashes + 1

-----------------------------------------------------------------------------
(* The filing and its customer, outside this module.                         *)

JobMoves(s) ==
  /\ job' = s
  /\ UNCHANGED <<ein, ticket, run, threads, crashes>>

EINReceived ==
  /\ ~ein
  /\ ein' = TRUE
  /\ UNCHANGED <<job, ticket, run, threads, crashes>>

-----------------------------------------------------------------------------
(* Tickets.                                                                  *)

\* A question the chat cannot answer from verified data.
chat_expert(t) ==
  /\ t \in FreshTickets
  /\ Opened(t, "support")
  /\ UNCHANGED <<job, ein, run, threads, crashes>>

operator_filing_job_needs_ticket ==
  /\ job \in OPERATOR_FILING_TICKET_STATUSES
  /\ job \in {"state_approved", "approved", "documents_collected"} => ~ein

\* Faulty: a ticket for the job whether or not one is open.
sync_always_creates ==
  /\ operator_filing_job_needs_ticket
  /\ \E t \in FreshTickets : Opened(t, "filing_action")
  /\ UNCHANGED <<job, ein, run, threads, crashes>>

\* Whenever the tickets are listed: one open ticket for a filing that needs an
\* operator, the others closed, and all of them when none is needed.
sync_operator_filing_action_tickets ==
  /\ LET open == Open("filing_action")
         kept(k) == [t \in Tickets |->
                      IF t \in open \ k THEN [ticket[t] EXCEPT !.status = "closed"]
                      ELSE ticket[t]]
     IN  \/ /\ operator_filing_job_needs_ticket
            /\ open = {}
            /\ \E t \in FreshTickets : Opened(t, "filing_action")
         \/ /\ operator_filing_job_needs_ticket
            /\ \E t \in open : ticket' = kept({t})
         \/ /\ ~operator_filing_job_needs_ticket
            /\ ticket' = kept({})
  /\ UNCHANGED <<job, ein, run, threads, crashes>>

create_or_reuse_intervention_ticket ==
  IF Open("filing_intervention") # {} THEN UNCHANGED ticket
  ELSE \E t \in FreshTickets : Opened(t, "filing_intervention")

EngineeringRow(t) == Row("engineering", "approved", t)

\* Faulty: every approval makes a job, also the second one.
approve_again(t) ==
  /\ ticket[t].status \in {"open", "approved"}
  /\ SetTicket(t, "approved")
  /\ \E r \in FreshRuns : SetRun(r, EngineeringRow(t))
  /\ UNCHANGED <<job, ein, threads, crashes>>

\* From the operator's page or a Slack button, which may be pressed again.
approve_support_ticket(t) ==
  /\ ticket[t].status = "open"
  /\ SetTicket(t, "approved")
  /\ \E r \in FreshRuns : SetRun(r, EngineeringRow(t))
  /\ UNCHANGED <<job, ein, threads, crashes>>

\* The ticket commits before the job is made.
approve_cut_short(t) ==
  /\ ticket[t].status = "open"
  /\ Dies
  /\ SetTicket(t, "approved")
  /\ threads' = [r \in Runs |-> {}]
  /\ UNCHANGED <<job, ein, run>>

\* Faulty: an approved ticket can still be closed.
close_any(t) ==
  /\ ticket[t].status \in {"open", "approved"}
  /\ SetTicket(t, "closed")
  /\ \E r \in FreshRuns : SetRun(r, Row("review", "closed", t))
  /\ UNCHANGED <<job, ein, threads, crashes>>

close_support_ticket(t) ==
  /\ ticket[t].status = "open"
  /\ SetTicket(t, "closed")
  /\ \E r \in FreshRuns : SetRun(r, Row("review", "closed", t))
  /\ UNCHANGED <<job, ein, threads, crashes>>

\* Each approved ticket that no engineering job names gets one.
backfill_approved_engineering_jobs ==
  \E t \in Tickets, r \in FreshRuns :
    /\ ticket[t].status = "approved"
    /\ \A q \in Runs : ~(Engineering(q) /\ run[q].ticket = t)
    /\ SetRun(r, EngineeringRow(t))
    /\ UNCHANGED <<job, ein, ticket, threads, crashes>>

-----------------------------------------------------------------------------
(* Filing runs.                                                              *)

\* A protected checkpoint pauses the run, and the owner may be told.
start_filing_job_autopilot(r) ==
  /\ r \in FreshRuns
  /\ \/ /\ SetRun(r, Row("filing", "waiting_for_intervention", NoTicket))
        /\ job' = "operator_required"
        /\ UNCHANGED ticket \/ create_or_reuse_intervention_ticket
     \/ /\ \E s \in {"blocked", "automation_started"} :
             SetRun(r, Row("filing", s, NoTicket))
        /\ UNCHANGED <<job, ticket>>
  /\ UNCHANGED <<ein, threads, crashes>>

\* The server stops while the portal is probed or after the ticket: the run
\* stays at running.
autopilot_cut_short(r) ==
  /\ r \in FreshRuns
  /\ Dies
  /\ SetRun(r, Row("filing", "running", NoTicket))
  /\ UNCHANGED ticket \/ create_or_reuse_intervention_ticket
  /\ threads' = [q \in Runs |-> {}]
  /\ UNCHANGED <<job, ein>>

\* An operation: live preflights only, everything else is a dry run.
run_filing_job_automation(r) ==
  /\ r \in FreshRuns
  /\ \E s \in AdapterStatuses \cup {"dry_run_complete"} :
       SetRun(r, Row("filing", s, NoTicket))
  /\ UNCHANGED <<job, ein, ticket, threads, crashes>>

\* Faulty: the run takes over the operator's note as its status.
resume_noted(r) ==
  /\ run[r].lane = "filing"
  /\ SetStatus(r, "resumed_by_operator")
  /\ UNCHANGED <<job, ein, ticket, threads, crashes>>

resume_filing_autopilot(r) ==
  /\ run[r].lane = "filing"
  /\ SetStatus(r, "ready_to_resume")
  /\ UNCHANGED <<job, ein, ticket, threads, crashes>>

\* Any row, an engineering job's or a note's as well.
stop_automation_run(r) ==
  /\ run[r] # NoRow
  /\ SetStatus(r, "stop_requested")
  /\ UNCHANGED <<job, ein, ticket, threads, crashes>>

-----------------------------------------------------------------------------
(* Engineering jobs.                                                         *)

transition_engineering_job(r, target) ==
  /\ Engineering(r)
  /\ target \in ENGINEERING_TRANSITIONS[run[r].status]
  /\ SetStatus(r, target)
  /\ UNCHANGED <<job, ein, ticket, threads, crashes>>

\* Plan and work plan are made where they are missing, so the gates that
\* decide come down to the status.
prepare_engineering_execution(r) ==
  /\ Engineering(r)
  /\ SetRun(r, [run[r] EXCEPT
       !.package = TRUE,
       !.status = IF @ \in {"approved", "tests_failed", "blocked"}
                  THEN "in_progress" ELSE @])
  /\ UNCHANGED <<job, ein, ticket, threads, crashes>>

\* The tests' subprocesses run in a thread, the deploy check in another.
Begins(r, what) ==
  /\ what \notin threads[r]
  /\ threads' = [threads EXCEPT ![r] = @ \cup {what}]

Ends(r, what) ==
  /\ what \in threads[r]
  /\ threads' = [threads EXCEPT ![r] = @ \ {what}]

begin_tests(r) ==
  /\ Engineering(r) /\ Begins(r, "tests")
  /\ run[r].status \in {"in_progress", "tests_failed"}
  /\ run[r].package
  /\ UNCHANGED <<job, ein, ticket, run, crashes>>

\* Any one of the declared commands may be all that was asked for.
run_engineering_tests(r, passed) ==
  /\ Ends(r, "tests")
  /\ SetRun(r, [run[r] EXCEPT
       !.status = IF passed THEN "ready_to_deploy" ELSE "tests_failed",
       !.tests = IF passed THEN "passed" ELSE "failed"])
  /\ UNCHANGED <<job, ein, ticket, crashes>>

begin_deploy_check(r) ==
  /\ Engineering(r) /\ Begins(r, "deploy")
  /\ run[r].status = "ready_to_deploy"
  /\ run[r].tests = "passed"
  /\ UNCHANGED <<job, ein, ticket, run, crashes>>

\* The log goes back to what the thread read, its passing tests included.
run_engineering_deploy_check(r, passed) ==
  /\ Ends(r, "deploy")
  /\ SetRun(r, [run[r] EXCEPT
       !.status = IF passed THEN "deployed" ELSE "blocked",
       !.tests = "passed"])
  /\ UNCHANGED <<job, ein, ticket, crashes>>

\* A restart: the threads are gone.
Crash ==
  /\ Dies
  /\ threads' = [r \in Runs |-> {}]
  /\ UNCHANGED <<job, ein, ticket, run>>

-----------------------------------------------------------------------------
TicketStep ==
  \/ \E t \in Tickets :
       \/ chat_expert(t)
       \/ approve_support_ticket(t)
       \/ approve_cut_short(t)
       \/ close_support_ticket(t)
  \/ sync_operator_filing_action_tickets
  \/ backfill_approved_engineering_jobs

RunStep(r) ==
  \/ start_filing_job_autopilot(r)
  \/ autopilot_cut_short(r)
  \/ run_filing_job_automation(r)
  \/ resume_filing_autopilot(r)
  \/ stop_automation_run(r)
  \/ \E s \in ENGINEERING_JOB_STATUSES : transition_engineering_job(r, s)
  \/ prepare_engineering_execution(r)
  \/ begin_tests(r)
  \/ begin_deploy_check(r)

ThreadEnds(r) ==
  \E passed \in BOOLEAN :
    run_engineering_tests(r, passed) \/ run_engineering_deploy_check(r, passed)

Next ==
  \/ \E s \in JobSample : JobMoves(s)
  \/ EINReceived
  \/ TicketStep
  \/ \E r \in Runs : RunStep(r) \/ ThreadEnds(r)
  \/ Crash

Spec == Init /\ [][Next]_vars

-----------------------------------------------------------------------------
(* Properties.                                                               *)

\* However often Slack repeats a click, and with the backfill that mends an
\* approval cut short by a restart, a ticket is built once.
OneJobPerTicket ==
  \A q, r \in Runs :
    Engineering(q) /\ Engineering(r) /\ run[q].ticket = run[r].ticket => q = r

\* What engineering works on stays approved: neither the operator's closing
\* nor the sync's takes the approval away from under the job.
BuiltIsApproved ==
  \A r \in Runs : Engineering(r) => ticket[run[r].ticket].status = "approved"

\* An operator sees one open ticket per filing and purpose, although runs and
\* syncs create them and approvals and closings take them away.
OneOpenTicket ==
  \A type \in {"filing_action", "filing_intervention"} : Cardinality(Open(type)) <= 1

\* "stop_requested": set() in ENGINEERING_TRANSITIONS: a stopped job goes
\* nowhere, whatever was under way when it was stopped.
StopIsFinal ==
  [][\A r \in Runs :
       Engineering(r) /\ run[r].status = "stop_requested" =>
         run'[r].status = "stop_requested"]_vars
=============================================================================
