------------------------- MODULE OperatorQueueProofs -------------------------
(***************************************************************************)
(* Type correctness and the promises of the operators' queue, for every    *)
(* number of tickets, rows and restarts and every course of the filing.    *)
(***************************************************************************)
EXTENDS OperatorQueue, FiniteSetTheorems, TLAPS

\* A ticket nobody has made yet has no status, least of all an approval.
FreshIsBlank == \A t \in Tickets : ticket[t].type = "none" => ticket[t].status = "none"

\* An engineering job is made from a ticket, and the ticket is approved.
BuiltFromApproved ==
  \A r \in Runs : Engineering(r) =>
    run[r].ticket \in Tickets /\ ticket[run[r].ticket].status = "approved"

WorkInv == TypeOK /\ FreshIsBlank /\ BuiltFromApproved /\ OneJobPerTicket

\* Two rows of the same lane and ticket.
SameWork(a, b) == a.lane = b.lane /\ a.ticket = b.ticket

\* No engineering job names the ticket.
Unbuilt(t) == \A q \in Runs : ~(Engineering(q) /\ run[q].ticket = t)

\* What a step may do to a ticket: nothing, open one that was never made, or
\* end an open one.
TicketMoves(t) ==
  \/ ticket'[t] = ticket[t]
  \/ ticket[t].type = "none" /\ ticket'[t].type # "none" /\ ticket'[t].status = "open"
  \/ /\ ticket[t].status = "open"
     /\ ticket'[t].type = ticket[t].type
     /\ ticket'[t].status \in {"approved", "closed"}

\* What a step may do to automation_runs: it leaves every row's lane and ticket
\* alone, or it adds one row, and an engineering job's only for a ticket that
\* is approved and has no job.
RowsChange ==
  \/ \A r \in Runs : SameWork(run'[r], run[r])
  \/ \E r \in FreshRuns, t \in Tickets :
       SetRun(r, EngineeringRow(t)) /\ Unbuilt(t) /\ ticket'[t].status = "approved"
  \/ \E r \in FreshRuns :
       run'[r].lane # "engineering" /\ \A q \in Runs \ {r} : run'[q] = run[q]

-----------------------------------------------------------------------------
\* Statuses a step writes are statuses of a row.
LEMMA StatusFacts ==
  /\ ENGINEERING_JOB_STATUSES \subseteq RunStatuses
  /\ {"approved", "in_progress", "tests_failed", "ready_to_deploy", "blocked",
      "deployed", "stop_requested"} \subseteq RunStatuses
  /\ {"none", "running", "waiting_for_intervention", "ready_to_resume", "closed",
      "dry_run_complete", "operator_required", "automation_started"}
       \subseteq RunStatuses
  /\ {"paid", "operator_required"} \subseteq FilingStatuses
BY DEF RunStatuses, ENGINEERING_JOB_STATUSES, ENGINEERING_TRANSITIONS,
       AdapterStatuses, FilingStatuses, OPERATOR_FILING_TICKET_STATUSES

\* The rows of automation_runs, as TypeOK has them.
RunRows ==
  [lane : {"none", "filing", "engineering", "review"}, status : RunStatuses,
   ticket : Tickets \cup {NoTicket}, package : BOOLEAN, tests : {"none", "passed", "failed"}]

\* A new row is one of them, and so is a row that changes but for its lane and
\* ticket; a change of status is a change of one row.
LEMMA RowFacts ==
  /\ \A lane \in {"none", "filing", "engineering", "review"}, s \in RunStatuses,
        t \in Tickets \cup {NoTicket} : Row(lane, s, t) \in RunRows
  /\ \A row \in RunRows, s \in RunStatuses, p \in BOOLEAN, t \in {"none", "passed", "failed"} :
        /\ [row EXCEPT !.status = s] \in RunRows
        /\ SameWork([row EXCEPT !.status = s], row)
        /\ [row EXCEPT !.package = p, !.status = s] \in RunRows
        /\ SameWork([row EXCEPT !.package = p, !.status = s], row)
        /\ [row EXCEPT !.status = s, !.tests = t] \in RunRows
        /\ SameWork([row EXCEPT !.status = s, !.tests = t], row)
<1>1. \A lane \in {"none", "filing", "engineering", "review"}, s \in RunStatuses,
        t \in Tickets \cup {NoTicket} : Row(lane, s, t) \in RunRows
  BY DEF Row, RunRows
<1>2. ASSUME NEW row \in RunRows, NEW s \in RunStatuses, NEW p \in BOOLEAN,
             NEW t \in {"none", "passed", "failed"}
      PROVE  /\ [row EXCEPT !.status = s] \in RunRows
             /\ SameWork([row EXCEPT !.status = s], row)
             /\ [row EXCEPT !.package = p, !.status = s] \in RunRows
             /\ SameWork([row EXCEPT !.package = p, !.status = s], row)
             /\ [row EXCEPT !.status = s, !.tests = t] \in RunRows
             /\ SameWork([row EXCEPT !.status = s, !.tests = t], row)
  BY <1>2 DEF RunRows, SameWork
<1> QED BY <1>1, <1>2

\* Setting one row to a row keeps them rows, and each other one as it was.
LEMMA SetRunFacts ==
  ASSUME TypeOK, NEW r \in Runs, NEW row \in RunRows, SetRun(r, row)
  PROVE  /\ run' \in [Runs -> RunRows]
         /\ \A q \in Runs : run'[q] = IF q = r THEN row ELSE run[q]
BY DEF TypeOK, SetRun, RunRows

\* What the steps of a row that is there write over it: the same lane and
\* ticket, and values of the row's sets.
LEMMA RowRewritten ==
  ASSUME TypeOK, NEW r \in Runs,
         \/ \E s \in RunStatuses : SetStatus(r, s)
         \/ prepare_engineering_execution(r)
         \/ ThreadEnds(r)
  PROVE  /\ run' \in [Runs -> RunRows]
         /\ \A q \in Runs : SameWork(run'[q], run[q])
<1>1. run \in [Runs -> RunRows] BY DEF TypeOK, RunRows
<1>2. ASSUME NEW row \in RunRows, SetRun(r, row), SameWork(row, run[r])
      PROVE  /\ run' \in [Runs -> RunRows]
             /\ \A q \in Runs : SameWork(run'[q], run[q])
  BY <1>1, <1>2, SetRunFacts DEF SameWork
<1>3. ASSUME NEW s \in RunStatuses, SetStatus(r, s)
      PROVE  \E row \in RunRows : SetRun(r, row) /\ SameWork(row, run[r])
  <2>1. SetRun(r, [run[r] EXCEPT !.status = s]) BY <1>1, <1>3 DEF SetStatus, SetRun
  <2> QED BY <2>1, <1>1, RowFacts
<1>4. CASE prepare_engineering_execution(r)
  <2> DEFINE s == IF run[r].status \in {"approved", "tests_failed", "blocked"}
                  THEN "in_progress" ELSE run[r].status
  <2>1. s \in RunStatuses BY <1>1, StatusFacts DEF RunRows
  <2>2. SetRun(r, [run[r] EXCEPT !.package = TRUE, !.status = s])
    BY <1>4 DEF prepare_engineering_execution
  <2> HIDE DEF s
  <2> QED BY <2>1, <2>2, <1>1, <1>2, RowFacts
<1>5. ASSUME NEW passed \in BOOLEAN,
             run_engineering_tests(r, passed) \/ run_engineering_deploy_check(r, passed)
      PROVE  \E s \in RunStatuses, t \in {"none", "passed", "failed"} :
               SetRun(r, [run[r] EXCEPT !.status = s, !.tests = t])
  <2>1. CASE run_engineering_tests(r, passed)
    BY <2>1, StatusFacts DEF run_engineering_tests
  <2>2. CASE run_engineering_deploy_check(r, passed)
    BY <2>2, StatusFacts DEF run_engineering_deploy_check
  <2> QED BY <1>5, <2>1, <2>2
<1>6. CASE ThreadEnds(r) BY <1>1, <1>2, <1>5, <1>6, RowFacts DEF ThreadEnds
<1> QED BY <1>2, <1>3, <1>4, <1>6

\* The steps of tickets keep to the types.
LEMMA TicketsKeepType == ASSUME TypeOK, TicketStep PROVE TypeOK'
<1> USE StatusFacts, QueueAssumption
    DEF TypeOK, TicketTypes, TicketStatuses, Opened, SetTicket, SetRun, EngineeringRow,
        Row, FreshTickets, FreshRuns, Dies
<1>1. ASSUME NEW t \in Tickets, chat_expert(t) PROVE TypeOK' BY <1>1 DEF chat_expert
<1>2. ASSUME NEW t \in Tickets, approve_support_ticket(t) PROVE TypeOK'
  BY <1>2 DEF approve_support_ticket
<1>3. ASSUME NEW t \in Tickets, approve_cut_short(t) PROVE TypeOK'
  BY <1>3 DEF approve_cut_short
<1>4. ASSUME NEW t \in Tickets, close_support_ticket(t) PROVE TypeOK'
  BY <1>4 DEF close_support_ticket
<1>5. CASE sync_operator_filing_action_tickets
  BY <1>5 DEF sync_operator_filing_action_tickets, Open
<1>6. CASE backfill_approved_engineering_jobs
  BY <1>6 DEF backfill_approved_engineering_jobs
<1> QED BY <1>1, <1>2, <1>3, <1>4, <1>5, <1>6 DEF TicketStep

\* The steps of runs keep to the types.
LEMMA RunsKeepType == ASSUME TypeOK, NEW r \in Runs, RunStep(r) PROVE TypeOK'
<1> USE DEF TypeOK, Dies
<1>1. ASSUME NEW s \in RunStatuses, SetRun(r, Row("filing", s, NoTicket))
      PROVE  run' \in [Runs -> RunRows]
  BY <1>1, RowFacts, SetRunFacts
<1>2. ASSUME create_or_reuse_intervention_ticket
      PROVE  ticket' \in [Tickets -> [type : TicketTypes, status : TicketStatuses]]
  BY <1>2 DEF create_or_reuse_intervention_ticket, Opened, FreshTickets, TicketTypes,
              TicketStatuses
<1>3. CASE start_filing_job_autopilot(r)
  <2>1. run' \in [Runs -> RunRows] BY <1>1, <1>3, StatusFacts DEF start_filing_job_autopilot
  <2> QED BY <1>2, <1>3, <2>1, StatusFacts DEF start_filing_job_autopilot, RunRows
<1>4. CASE autopilot_cut_short(r)
  <2>1. run' \in [Runs -> RunRows] BY <1>1, <1>4, StatusFacts DEF autopilot_cut_short
  <2> QED BY <1>2, <1>4, <2>1, QueueAssumption DEF autopilot_cut_short, RunRows
<1>5. CASE run_filing_job_automation(r)
  <2>1. run' \in [Runs -> RunRows]
    BY <1>1, <1>5, StatusFacts DEF run_filing_job_automation, AdapterStatuses
  <2> QED BY <1>5, <2>1 DEF run_filing_job_automation, RunRows
<1>6. ASSUME \/ \E s \in RunStatuses : SetStatus(r, s)
             \/ prepare_engineering_execution(r),
             UNCHANGED <<job, ein, ticket, threads, crashes>>
      PROVE  TypeOK'
  BY <1>6, RowRewritten DEF RunRows
<1>7. CASE resume_filing_autopilot(r) \/ stop_automation_run(r)
  BY <1>6, <1>7, StatusFacts DEF resume_filing_autopilot, stop_automation_run
<1>8. ASSUME NEW s \in ENGINEERING_JOB_STATUSES, transition_engineering_job(r, s)
      PROVE  TypeOK'
  BY <1>6, <1>8, StatusFacts DEF transition_engineering_job
<1>9. CASE prepare_engineering_execution(r)
  BY <1>6, <1>9 DEF prepare_engineering_execution
<1>10. CASE begin_tests(r) \/ begin_deploy_check(r)
  BY <1>10 DEF begin_tests, begin_deploy_check, Begins
<1> QED BY <1>3, <1>4, <1>5, <1>7, <1>8, <1>9, <1>10 DEF RunStep

\* So do the threads that end.
LEMMA ThreadsKeepType == ASSUME TypeOK, NEW r \in Runs, ThreadEnds(r) PROVE TypeOK'
<1>1. run' \in [Runs -> RunRows] BY RowRewritten
<1>2. /\ threads' \in [Runs -> SUBSET {"tests", "deploy"}]
      /\ UNCHANGED <<job, ein, ticket, crashes>>
  BY DEF ThreadEnds, run_engineering_tests, run_engineering_deploy_check, Ends, TypeOK
<1> QED BY <1>1, <1>2 DEF TypeOK, RunRows

\* Every variable of the queue keeps to its set of values.
THEOREM TypeCorrect == Spec => []TypeOK
<1>1. Init => TypeOK
  <2>1. NoRow \in RunRows BY RowFacts, StatusFacts DEF NoRow
  <2> SUFFICES ASSUME Init PROVE TypeOK
    OBVIOUS
  <2>2. run \in [Runs -> RunRows] BY <2>1 DEF Init
  <2>3. /\ ticket \in [Tickets -> [type : TicketTypes, status : TicketStatuses]]
        /\ threads \in [Runs -> SUBSET {"tests", "deploy"}]
    BY DEF Init, TicketTypes, TicketStatuses
  <2>4. job \in FilingStatuses BY StatusFacts DEF Init
  <2>5. ein \in BOOLEAN BY DEF Init
  <2>6. crashes \in 0..MaxCrashes BY QueueAssumption DEF Init
  <2> QED BY <2>2, <2>3, <2>4, <2>5, <2>6 DEF TypeOK, RunRows
<1>2. TypeOK /\ [Next]_vars => TypeOK'
  <2> SUFFICES ASSUME TypeOK, [Next]_vars PROVE TypeOK'
    OBVIOUS
  <2>1. ASSUME NEW s \in JobSample, JobMoves(s) PROVE TypeOK'
    BY <2>1, QueueAssumption DEF JobMoves, TypeOK
  <2>2. CASE EINReceived BY <2>2 DEF EINReceived, TypeOK
  <2>3. CASE Crash BY <2>3, QueueAssumption DEF Crash, Dies, TypeOK
  <2>4. CASE UNCHANGED vars BY <2>4 DEF vars, TypeOK
  <2> QED
    BY <2>1, <2>2, <2>3, <2>4, TicketsKeepType, RunsKeepType, ThreadsKeepType DEF Next
<1> QED BY <1>1, <1>2, PTL DEF Spec

-----------------------------------------------------------------------------
\* Whichever ticket a step is about, an approved one stays approved and one
\* that was made stays made.
LEMMA TicketsMoveOn ==
  ASSUME TypeOK, [Next]_vars, NEW t \in Tickets
  PROVE  TicketMoves(t)
<1> USE DEF TicketMoves, TypeOK, Opened, SetTicket, FreshTickets
<1>1. CASE UNCHANGED ticket BY <1>1
<1>2. ASSUME NEW u \in FreshTickets, NEW type \in {"support", "filing_action", "filing_intervention"},
             Opened(u, type)
      PROVE  TicketMoves(t)
  BY <1>2
<1>3. ASSUME NEW u \in Tickets, ticket[u].status = "open",
             SetTicket(u, "approved") \/ SetTicket(u, "closed")
      PROVE  TicketMoves(t)
  BY <1>3
<1>4. CASE TicketStep
  <2>1. ASSUME NEW u \in Tickets, chat_expert(u) PROVE TicketMoves(t)
    BY <2>1, <1>2 DEF chat_expert
  <2>2. ASSUME NEW u \in Tickets,
               approve_support_ticket(u) \/ approve_cut_short(u) \/ close_support_ticket(u)
        PROVE  TicketMoves(t)
    BY <2>2, <1>3 DEF approve_support_ticket, approve_cut_short, close_support_ticket
  <2>3. CASE sync_operator_filing_action_tickets
    BY <2>3, <1>2 DEF sync_operator_filing_action_tickets, Open
  <2>4. CASE backfill_approved_engineering_jobs
    BY <2>4, <1>1 DEF backfill_approved_engineering_jobs
  <2> QED BY <1>4, <2>1, <2>2, <2>3, <2>4 DEF TicketStep
<1>5. ASSUME NEW r \in Runs, RunStep(r) PROVE TicketMoves(t)
  <2>1. UNCHANGED ticket \/ \E u \in FreshTickets : Opened(u, "filing_intervention")
    BY <1>5 DEF RunStep, start_filing_job_autopilot, autopilot_cut_short,
                run_filing_job_automation, resume_filing_autopilot, stop_automation_run,
                transition_engineering_job, prepare_engineering_execution, begin_tests,
                begin_deploy_check, create_or_reuse_intervention_ticket
  <2> QED BY <2>1, <1>1, <1>2
<1>6. ASSUME NEW r \in Runs, ThreadEnds(r) PROVE TicketMoves(t)
  BY <1>6, <1>1 DEF ThreadEnds, run_engineering_tests, run_engineering_deploy_check
<1> QED
  BY <1>1, <1>4, <1>5, <1>6 DEF Next, JobMoves, EINReceived, Crash, vars

\* What a step does to the rows: only an approval or the backfill adds an
\* engineering job, and what changes a row later keeps its lane and ticket.
LEMMA RowsMoveOn ==
  ASSUME WorkInv, [Next]_vars
  PROVE  RowsChange
<1> USE DEF RowsChange, SameWork, TypeOK, SetRun, SetStatus
<1>1. CASE UNCHANGED run BY <1>1
<1>2. ASSUME NEW r \in Runs,
             \/ \E s \in RunStatuses : SetStatus(r, s)
             \/ prepare_engineering_execution(r)
             \/ ThreadEnds(r)
      PROVE  RowsChange
  BY <1>2, RowRewritten DEF WorkInv
<1>3. CASE TicketStep
  <2>1. ASSUME NEW t \in Tickets, approve_support_ticket(t) PROVE RowsChange
    <3>1. Unbuilt(t)
      BY <2>1 DEF approve_support_ticket, WorkInv, BuiltFromApproved, Unbuilt
    <3>2. ticket'[t].status = "approved"
      BY <2>1 DEF approve_support_ticket, SetTicket, WorkInv
    <3> QED BY <2>1, <3>1, <3>2 DEF approve_support_ticket
  <2>2. ASSUME NEW t \in Tickets, close_support_ticket(t) PROVE RowsChange
    BY <2>2 DEF close_support_ticket, WorkInv, Row, FreshRuns
  <2>3. CASE backfill_approved_engineering_jobs
    BY <2>3 DEF backfill_approved_engineering_jobs, Unbuilt
  <2>4. ASSUME NEW t \in Tickets, chat_expert(t) \/ approve_cut_short(t) PROVE RowsChange
    BY <2>4, <1>1 DEF chat_expert, approve_cut_short
  <2>5. CASE sync_operator_filing_action_tickets
    BY <2>5, <1>1 DEF sync_operator_filing_action_tickets
  <2> QED BY <1>3, <2>1, <2>2, <2>3, <2>4, <2>5 DEF TicketStep
<1>4. ASSUME NEW r \in Runs, RunStep(r) PROVE RowsChange
  <2>1. CASE start_filing_job_autopilot(r) \/ autopilot_cut_short(r) \/ run_filing_job_automation(r)
    <3>1. r \in FreshRuns /\ \E s \in RunStatuses : SetRun(r, Row("filing", s, NoTicket))
      BY <2>1, StatusFacts
      DEF start_filing_job_autopilot, autopilot_cut_short, run_filing_job_automation,
          AdapterStatuses
    <3> QED BY <3>1 DEF WorkInv, Row
  <2>2. CASE resume_filing_autopilot(r) \/ stop_automation_run(r)
    BY <2>2, <1>2, StatusFacts DEF resume_filing_autopilot, stop_automation_run
  <2>3. ASSUME NEW s \in ENGINEERING_JOB_STATUSES, transition_engineering_job(r, s)
        PROVE  RowsChange
    BY <2>3, <1>2, StatusFacts DEF transition_engineering_job
  <2>4. CASE prepare_engineering_execution(r)
    BY <2>4, <1>2
  <2>5. CASE begin_tests(r) \/ begin_deploy_check(r)
    BY <2>5, <1>1 DEF begin_tests, begin_deploy_check
  <2> QED BY <1>4, <2>1, <2>2, <2>3, <2>4, <2>5 DEF RunStep
<1>5. ASSUME NEW r \in Runs, ThreadEnds(r) PROVE RowsChange
  BY <1>5, <1>2
<1> QED
  BY <1>1, <1>3, <1>4, <1>5 DEF Next, JobMoves, EINReceived, Crash, vars

\* The queue's invariant is kept: an approval outlives its job, and no step
\* makes a second job of a ticket.
LEMMA WorkInvKept ==
  ASSUME WorkInv, [Next]_vars, TypeOK'
  PROVE  WorkInv'
<1>1. FreshIsBlank'
  BY TicketsMoveOn DEF WorkInv, FreshIsBlank, TicketMoves
<1>2. \A t \in Tickets : ticket[t].status = "approved" => ticket'[t].status = "approved"
  BY TicketsMoveOn DEF WorkInv, FreshIsBlank, TicketMoves
<1>3. BuiltFromApproved' /\ OneJobPerTicket'
  <2> USE DEF BuiltFromApproved, OneJobPerTicket, Engineering
  <2>1. CASE \A r \in Runs : SameWork(run'[r], run[r])
    BY <2>1, <1>2 DEF WorkInv, SameWork
  <2>2. ASSUME NEW r \in FreshRuns, NEW t \in Tickets,
               SetRun(r, EngineeringRow(t)), Unbuilt(t), ticket'[t].status = "approved"
        PROVE  BuiltFromApproved' /\ OneJobPerTicket'
    <3>1. \A q \in Runs : run'[q] = IF q = r THEN EngineeringRow(t) ELSE run[q]
      BY <2>2 DEF SetRun, WorkInv, TypeOK
    <3>2. EngineeringRow(t).ticket = t BY DEF EngineeringRow, Row
    <3> QED BY <2>2, <3>1, <3>2, <1>2 DEF WorkInv, Unbuilt
  <2>3. ASSUME NEW r \in FreshRuns, run'[r].lane # "engineering",
               \A q \in Runs \ {r} : run'[q] = run[q]
        PROVE  BuiltFromApproved' /\ OneJobPerTicket'
    BY <2>3, <1>2 DEF WorkInv
  <2> QED BY <2>1, <2>2, <2>3, RowsMoveOn DEF RowsChange
<1> QED BY <1>1, <1>3 DEF WorkInv

\* The queue's invariant holds in every behaviour.
LEMMA WorkCorrect == Spec => []WorkInv
<1>1. Init /\ TypeOK => WorkInv
  BY DEF Init, WorkInv, NoRow, Row, FreshIsBlank, BuiltFromApproved, OneJobPerTicket,
         Engineering
<1>2. WorkInv /\ [Next]_vars /\ TypeOK' => WorkInv' BY WorkInvKept
<1> QED BY <1>1, <1>2, TypeCorrect, PTL DEF Spec

\* A ticket is built once, in every behaviour.
THEOREM TicketBuiltOnce == Spec => []OneJobPerTicket
<1>1. WorkInv => OneJobPerTicket BY DEF WorkInv
<1> QED BY <1>1, WorkCorrect, PTL

\* What engineering works on stays approved, in every behaviour.
THEOREM BuiltStaysApproved == Spec => []BuiltIsApproved
<1>1. WorkInv => BuiltIsApproved BY DEF WorkInv, BuiltFromApproved, BuiltIsApproved
<1> QED BY <1>1, WorkCorrect, PTL

-----------------------------------------------------------------------------
\* At most one open ticket of a type, in terms of the tickets themselves.
OneOpen(type) == \A s, t \in Open(type) : s = t

\* The two types that syncs and runs create.
WorkTypes == {"filing_action", "filing_intervention"}

\* A step that only opens questions, ends tickets or leaves them alone makes
\* no open ticket of the two types.
LEMMA EndingKeepsOneOpen ==
  ASSUME NEW type \in WorkTypes, OneOpen(type),
         \A t \in Tickets : ticket'[t] = [type |-> type, status |-> "open"] =>
                              ticket'[t] = ticket[t]
  PROVE  OneOpen(type)'
BY DEF OneOpen, Open

\* A ticket opened where none was is the only one.
LEMMA OpeningKeepsOneOpen ==
  ASSUME TypeOK, NEW type \in WorkTypes, NEW other \in WorkTypes, OneOpen(type),
         Open(other) = {}, NEW u \in Tickets, Opened(u, other)
  PROVE  OneOpen(type)'
BY DEF OneOpen, Open, Opened, TypeOK, WorkTypes

\* Every step keeps to one open ticket of each type.
LEMMA NextKeepsOneOpen ==
  ASSUME TypeOK, [Next]_vars, NEW type \in WorkTypes, OneOpen(type)
  PROVE  OneOpen(type)'
<1> USE DEF FreshTickets
<1>1. CASE UNCHANGED ticket BY <1>1 DEF OneOpen, Open
<1>2. CASE TicketStep
  <2>1. ASSUME NEW t \in Tickets, chat_expert(t) PROVE OneOpen(type)'
    BY <2>1, EndingKeepsOneOpen DEF chat_expert, Opened, TypeOK, WorkTypes
  <2>2. ASSUME NEW t \in Tickets,
               approve_support_ticket(t) \/ approve_cut_short(t) \/ close_support_ticket(t)
        PROVE  OneOpen(type)'
    <3>1. SetTicket(t, "approved") \/ SetTicket(t, "closed")
      BY <2>2 DEF approve_support_ticket, approve_cut_short, close_support_ticket
    <3>2. ASSUME NEW s \in Tickets, ticket'[s] = [type |-> type, status |-> "open"]
          PROVE  ticket'[s] = ticket[s]
      BY <3>1, <3>2 DEF SetTicket, TypeOK
    <3> QED BY <3>2, EndingKeepsOneOpen
  <2>3. CASE sync_operator_filing_action_tickets
    <3>1. ASSUME Open("filing_action") = {}, NEW t \in FreshTickets, Opened(t, "filing_action")
          PROVE  OneOpen(type)'
      BY <3>1, OpeningKeepsOneOpen DEF WorkTypes
    <3>2. ASSUME NEW k \in SUBSET Tickets,
                 ticket' = [t \in Tickets |->
                   IF t \in Open("filing_action") \ k
                   THEN [ticket[t] EXCEPT !.status = "closed"] ELSE ticket[t]]
          PROVE  OneOpen(type)'
      BY <3>2, EndingKeepsOneOpen DEF TypeOK
    <3>3. \/ /\ Open("filing_action") = {}
             /\ \E t \in FreshTickets : Opened(t, "filing_action")
          \/ \E k \in SUBSET Tickets :
               ticket' = [t \in Tickets |->
                 IF t \in Open("filing_action") \ k
                 THEN [ticket[t] EXCEPT !.status = "closed"] ELSE ticket[t]]
      <4>1. \A t \in Open("filing_action") : {t} \in SUBSET Tickets BY DEF Open
      <4> QED BY <2>3, <4>1, Zenon DEF sync_operator_filing_action_tickets
    <3> QED BY <3>1, <3>2, <3>3
  <2>4. CASE backfill_approved_engineering_jobs
    BY <2>4, <1>1 DEF backfill_approved_engineering_jobs
  <2> QED BY <1>2, <2>1, <2>2, <2>3, <2>4 DEF TicketStep
<1>3. ASSUME NEW r \in Runs, RunStep(r) PROVE OneOpen(type)'
  <2>1. UNCHANGED ticket \/ create_or_reuse_intervention_ticket
    BY <1>3 DEF RunStep, start_filing_job_autopilot, autopilot_cut_short,
                run_filing_job_automation, resume_filing_autopilot, stop_automation_run,
                transition_engineering_job, prepare_engineering_execution, begin_tests,
                begin_deploy_check
  <2> QED
    BY <2>1, <1>1, OpeningKeepsOneOpen DEF create_or_reuse_intervention_ticket, WorkTypes
<1>4. ASSUME NEW r \in Runs, ThreadEnds(r) PROVE OneOpen(type)'
  BY <1>4, <1>1 DEF ThreadEnds, run_engineering_tests, run_engineering_deploy_check
<1> QED
  BY <1>1, <1>2, <1>3, <1>4 DEF Next, JobMoves, EINReceived, Crash, vars

\* An operator sees one open ticket per filing and purpose, in every behaviour.
THEOREM OneTicketIsOpen == Spec => []OneOpenTicket
<1> DEFINE Inv == \A type \in WorkTypes : OneOpen(type)
<1>1. Init => Inv BY DEF Init, OneOpen, Open
<1>2. TypeOK /\ Inv /\ [Next]_vars => Inv'
  <2> SUFFICES ASSUME TypeOK, Inv, [Next]_vars, NEW type \in WorkTypes PROVE OneOpen(type)'
    OBVIOUS
  <2> QED BY NextKeepsOneOpen
<1>3. Inv => OneOpenTicket
  <2> SUFFICES ASSUME Inv, NEW type \in WorkTypes PROVE Cardinality(Open(type)) <= 1
    BY DEF OneOpenTicket, WorkTypes
  <2>1. CASE Open(type) = {} BY <2>1, FS_EmptySet
  <2>2. ASSUME NEW t \in Open(type) PROVE Cardinality(Open(type)) <= 1
    <3>1. Open(type) = {t} BY <2>2 DEF OneOpen
    <3>2. Cardinality({t}) = 1 BY FS_Singleton
    <3> QED BY <3>1, <3>2
  <2> QED BY <2>1, <2>2
<1> HIDE DEF Inv
<1> QED BY <1>1, <1>2, <1>3, TypeCorrect, PTL DEF Spec
=============================================================================
