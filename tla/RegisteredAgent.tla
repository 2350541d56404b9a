--------------------------- MODULE RegisteredAgent ---------------------------
(***************************************************************************)
(* Registered agents through CorpNet: an operator has an order placed with *)
(* the partner, and reconciliation polls the open ones and attaches the    *)
(* assignment a formation has to wait for.  The handlers are synchronous:  *)
(* a batch of polls is one step and one transaction, however long the      *)
(* partner takes to answer.                                                *)
(***************************************************************************)
EXTENDS Naturals, FiniteSets

CONSTANTS
  Jobs,          \* formation jobs whose customer chose SOSFiler's agent
  PartnerOrders  \* orders at CorpNet

VARIABLES
  corpnet,   \* the partner's orders: for which job, how far, with a document
  tracked,   \* the registered_agent_partner_order artifact of a job
  evidence,  \* its registered_agent_assignment artifact and who attached it
  file,      \* whether registered_agent_assignment.json is on the disk
  reported,  \* jobs the log of a completed run says evidence was attached to
  status     \* filing_jobs.status, as far as the agent is concerned

agentVars == <<corpnet, tracked, evidence, file, reported, status>>

NoJob == "no job"
NoPartnerOrder == "no partner order"

\* The two stand-ins are no ids.
ASSUME RegisteredAgentAssumption ==
  /\ NoJob \notin Jobs
  /\ NoPartnerOrder \notin PartnerOrders

NoEvidence == [order |-> NoPartnerOrder, by |-> "nobody"]

\* The raw status of an answer; what is in the first set counts as assigned.
CORPNET_RA_READY_STATUSES ==
  {"active", "assigned", "approved", "complete", "completed", "fulfilled", "ready"}
CorpNetStatuses == {"none", "pending", "active"}

\* What the partner has of an order, which is what it answers.
CorpNetOrders ==
  [job : Jobs \cup {NoJob}, status : CorpNetStatuses, document : BOOLEAN]

AgentTypeOK ==
  /\ corpnet \in [PartnerOrders -> CorpNetOrders]
  /\ tracked \in [Jobs -> PartnerOrders \cup {NoPartnerOrder}]
  /\ evidence \in [Jobs -> [order : PartnerOrders \cup {NoPartnerOrder},
                            by : {"nobody", "fulfill", "reconcile"}]]
  /\ file \in [Jobs -> BOOLEAN]
  /\ reported \subseteq Jobs
  /\ status \in [Jobs -> {"operator_required", "ready_to_file", "submitted_to_state"}]

AgentInit ==
  /\ corpnet = [p \in PartnerOrders |-> [job |-> NoJob, status |-> "none", document |-> FALSE]]
  /\ tracked = [j \in Jobs |-> NoPartnerOrder]
  /\ evidence = [j \in Jobs |-> NoEvidence]
  /\ file = [j \in Jobs |-> FALSE]
  /\ reported = {}
  /\ status = [j \in Jobs |-> "operator_required"]

Attached(j) == evidence[j] # NoEvidence

\* By its status, or else by a link to a document, a consent form or an
\* assignment, whatever the status.
corpnet_assignment_ready(answer) ==
  answer.status \in CORPNET_RA_READY_STATUSES \/ answer.document

\* Evidence for some jobs, by one transaction.
AttachAssignments(orderOf, by) ==
  /\ evidence' = [j \in Jobs |->
       IF j \in DOMAIN orderOf THEN [order |-> orderOf[j], by |-> by] ELSE evidence[j]]
  /\ file' = [j \in Jobs |-> file[j] \/ j \in DOMAIN orderOf]

\* Faulty: the readiness is written in place of a filing status.
refresh_with_readiness(js) ==
  status' = [j \in Jobs |-> IF j \in js THEN "needs_reconciliation" ELSE status[j]]

\* Whatever else blocks a job may be in order or not.  Whether the job has
\* been submitted meanwhile is not asked.
refresh_ready_status_after_ra_assignment(js) ==
  \E unblocked \in SUBSET js :
    status' = [j \in Jobs |-> IF j \in unblocked THEN "ready_to_file" ELSE status[j]]

-----------------------------------------------------------------------------
Placed(j, s, d) == [job |-> j, status |-> s, document |-> d]

create_registered_agent_order(p, answer) ==
  /\ corpnet[p].job = NoJob
  /\ corpnet' = [corpnet EXCEPT ![p] = answer]

\* Faulty: an order that was placed is taken for an assignment.
fulfill_on_placing(j, p) ==
  /\ ~Attached(j)
  /\ create_registered_agent_order(p, Placed(j, "pending", FALSE))
  /\ AttachAssignments([k \in {j} |-> p], "fulfill")
  /\ refresh_ready_status_after_ra_assignment({j})
  /\ UNCHANGED <<tracked, reported>>

\* The partner has the order, and the answer names it.
fulfill_pending(j, p) ==
  /\ ~Attached(j)
  /\ create_registered_agent_order(p, Placed(j, "pending", FALSE))
  /\ tracked' = IF tracked[j] = NoPartnerOrder THEN [tracked EXCEPT ![j] = p] ELSE tracked
  /\ UNCHANGED <<evidence, file, reported, status>>

\* The answer is taken for an assignment already.
fulfill_assigned(j, p) ==
  /\ ~Attached(j)
  /\ \E s \in {"pending", "active"}, d \in BOOLEAN :
       /\ corpnet_assignment_ready(Placed(j, s, d))
       /\ create_registered_agent_order(p, Placed(j, s, d))
  /\ AttachAssignments([k \in {j} |-> p], "fulfill")
  /\ refresh_ready_status_after_ra_assignment({j})
  /\ UNCHANGED <<tracked, reported>>

\* The partner has the order and the answer is lost, or the order is placed by
\* the endpoint that keeps no record.
fulfill_unanswered(j, p) ==
  /\ create_registered_agent_order(p, Placed(j, "pending", FALSE))
  /\ UNCHANGED <<tracked, evidence, file, reported, status>>

CorpNetAssigns(p) ==
  /\ corpnet[p].status = "pending"
  /\ corpnet' = [corpnet EXCEPT ![p].status = "active"]
  /\ UNCHANGED <<tracked, evidence, file, reported, status>>

\* A document is put on an order that may still be pending.
CorpNetLinksDocument(p) ==
  /\ corpnet[p].job # NoJob /\ ~corpnet[p].document
  /\ corpnet' = [corpnet EXCEPT ![p].document = TRUE]
  /\ UNCHANGED <<tracked, evidence, file, reported, status>>

\* The orders an id leads to at the partner: the one on file, or else those
\* placed under our own order id.
Polled(j) ==
  IF tracked[j] # NoPartnerOrder THEN {tracked[j]}
  ELSE {p \in PartnerOrders : corpnet[p].job = j}

\* What a limit, or one order's id, leaves of the sponsored formations.
registered_agent_reconciliation_candidates == (SUBSET Jobs) \ {{}}

Answers(batch) ==
  {j \in batch : ~Attached(j) /\ \E p \in Polled(j) : corpnet_assignment_ready(corpnet[p])}

\* The jobs whose poll succeeds, with what it found.
Found(js) ==
  {f \in [js -> PartnerOrders] :
     \A j \in js : f[j] \in Polled(j) /\ corpnet_assignment_ready(corpnet[f[j]])}

reconcile_registered_agent_assignments(batch) ==
  \E js \in SUBSET Answers(batch) : \E found \in Found(js) :
    /\ js # {}
    /\ AttachAssignments(found, "reconcile")
    /\ refresh_ready_status_after_ra_assignment(js)
    /\ reported' = reported \cup js
    /\ UNCHANGED <<corpnet, tracked>>

\* Faulty: each candidate is committed by itself.
reconcile_commits_each(batch) ==
  \E js \in SUBSET Answers(batch) : \E found \in Found(js) :
    /\ js # {}
    /\ AttachAssignments(found, "reconcile")
    /\ refresh_ready_status_after_ra_assignment(js)
    /\ UNCHANGED <<corpnet, tracked, reported>>

\* A later poll of the batch raises (a timeout while the answer is read, an
\* answer that is no JSON): all rows are rolled back, the files stay.
reconcile_raises(batch) ==
  \E js \in SUBSET Answers(batch) :
    /\ js # batch
    /\ file' = [j \in Jobs |-> file[j] \/ j \in js]
    /\ UNCHANGED <<corpnet, tracked, evidence, reported, status>>

\* What the operator does with the job, in FilingJob.
JobSubmitted(j) ==
  /\ status[j] # "submitted_to_state"
  /\ status' = [status EXCEPT ![j] = "submitted_to_state"]
  /\ UNCHANGED <<corpnet, tracked, evidence, file, reported>>

-----------------------------------------------------------------------------
AgentNext ==
  \/ \E j \in Jobs, p \in PartnerOrders :
       fulfill_pending(j, p) \/ fulfill_assigned(j, p) \/ fulfill_unanswered(j, p)
  \/ \E p \in PartnerOrders : CorpNetAssigns(p) \/ CorpNetLinksDocument(p)
  \/ \E batch \in registered_agent_reconciliation_candidates :
       reconcile_registered_agent_assignments(batch) \/ reconcile_raises(batch)
  \/ \E j \in Jobs : JobSubmitted(j)

AgentSpec == AgentInit /\ [][AgentNext]_agentVars

-----------------------------------------------------------------------------
(* Properties.                                                               *)

\* The evidence a submission waits for is of an order placed for this very
\* formation, which CorpNet calls assigned or has put a document on, whichever
\* orders were placed twice, lost, or polled under an id they share.
EvidenceIsOwn ==
  \A j \in Jobs : Attached(j) =>
    /\ corpnet[evidence[j].order].job = j
    /\ corpnet_assignment_ready(corpnet[evidence[j].order])

\* What a reconciliation attached is in the log of a run that completed: a
\* batch that breaks off half way leaves no evidence nobody has heard of.
EvidenceIsReported ==
  \A j \in Jobs : evidence[j].by = "reconcile" => j \in reported
=============================================================================
