-------------------------- MODULE AgentAndEINProofs --------------------------
(***************************************************************************)
(* What a filing gets from outside, in two parts that share no variable.   *)
(* RegisteredAgent: type correctness and the two promises of the agent's   *)
(* evidence, for every set of formations and of orders at CorpNet.         *)
(* EINQueue: type correctness of the EIN lane, the letter behind every EIN *)
(* and the SSN behind every item that is ready, for every number of orders *)
(* and of processes that die.                                              *)
(***************************************************************************)
EXTENDS RegisteredAgent, EINQueue, TLAPS

(* RegisteredAgent.                                                          *)

\* The order on file was placed for the job it is on file for.
TrackedIsOwn ==
  \A j \in Jobs : tracked[j] # NoPartnerOrder => corpnet[tracked[j]].job = j

\* An order attached as evidence was placed for its job, and answered as ready.
OrderIsReady(j) ==
  /\ evidence[j].order \in PartnerOrders
  /\ corpnet[evidence[j].order].job = j
  /\ corpnet_assignment_ready(corpnet[evidence[j].order])

AgentInv ==
  /\ AgentTypeOK
  /\ TrackedIsOwn
  /\ \A j \in Jobs : Attached(j) => OrderIsReady(j)

-----------------------------------------------------------------------------
\* Attaching for some jobs keeps evidence and files to their types.
LEMMA AttachKeepsType ==
  ASSUME AgentTypeOK, NEW js \in SUBSET Jobs, NEW found \in [js -> PartnerOrders],
         NEW by \in {"fulfill", "reconcile"}, AttachAssignments(found, by)
  PROVE  /\ evidence' \in [Jobs -> [order : PartnerOrders \cup {NoPartnerOrder},
                                    by : {"nobody", "fulfill", "reconcile"}]]
         /\ file' \in [Jobs -> BOOLEAN]
BY DEF AgentTypeOK, AttachAssignments

\* Only what a poll found is attached, so it is the order of a job that a
\* partner answers for: a polled order exists and was placed for the job.
LEMMA PolledIsOwn ==
  ASSUME AgentInv, NEW j \in Jobs, NEW p \in Polled(j)
  PROVE  p \in PartnerOrders /\ corpnet[p].job = j
BY DEF AgentInv, AgentTypeOK, TrackedIsOwn, Polled

\* A readiness refresh writes a filing status.
LEMMA RefreshKeepsType ==
  ASSUME AgentTypeOK, NEW js \in SUBSET Jobs, refresh_ready_status_after_ra_assignment(js)
  PROVE  status' \in [Jobs -> {"operator_required", "ready_to_file", "submitted_to_state"}]
BY DEF AgentTypeOK, refresh_ready_status_after_ra_assignment

\* Every step keeps to the types.
LEMMA AgentNextKeepsType == ASSUME AgentTypeOK, AgentNext PROVE AgentTypeOK'
<1> USE DEF AgentTypeOK, CorpNetStatuses, CorpNetOrders, Placed
<1>1. ASSUME NEW j \in Jobs, NEW p \in PartnerOrders, fulfill_pending(j, p) PROVE AgentTypeOK'
  BY <1>1 DEF fulfill_pending, create_registered_agent_order
<1>2. ASSUME NEW j \in Jobs, NEW p \in PartnerOrders, fulfill_assigned(j, p) PROVE AgentTypeOK'
  <2>1. [k \in {j} |-> p] \in [{j} -> PartnerOrders] OBVIOUS
  <2>2. AttachAssignments([k \in {j} |-> p], "fulfill") BY <1>2 DEF fulfill_assigned
  <2>3. /\ evidence' \in [Jobs -> [order : PartnerOrders \cup {NoPartnerOrder},
                                   by : {"nobody", "fulfill", "reconcile"}]]
        /\ file' \in [Jobs -> BOOLEAN]
    BY <2>1, <2>2, AttachKeepsType
  <2>4. status' \in [Jobs -> {"operator_required", "ready_to_file", "submitted_to_state"}]
    BY <1>2, RefreshKeepsType DEF fulfill_assigned
  <2> QED BY <1>2, <2>3, <2>4 DEF fulfill_assigned, create_registered_agent_order
<1>3. ASSUME NEW j \in Jobs, NEW p \in PartnerOrders, fulfill_unanswered(j, p) PROVE AgentTypeOK'
  BY <1>3 DEF fulfill_unanswered, create_registered_agent_order
<1>4. ASSUME NEW p \in PartnerOrders, CorpNetAssigns(p) PROVE AgentTypeOK'
  BY <1>4 DEF CorpNetAssigns
<1>8. ASSUME NEW p \in PartnerOrders, CorpNetLinksDocument(p) PROVE AgentTypeOK'
  BY <1>8 DEF CorpNetLinksDocument
<1>5. ASSUME NEW batch \in SUBSET Jobs, reconcile_registered_agent_assignments(batch)
      PROVE  AgentTypeOK'
  <2>0. PICK js \in SUBSET Answers(batch) : \E found \in Found(js) :
          /\ AttachAssignments(found, "reconcile")
          /\ refresh_ready_status_after_ra_assignment(js)
          /\ reported' = reported \cup js
          /\ UNCHANGED <<corpnet, tracked>>
    BY <1>5 DEF reconcile_registered_agent_assignments
  <2>1. PICK found \in Found(js) :
          /\ AttachAssignments(found, "reconcile")
          /\ refresh_ready_status_after_ra_assignment(js)
          /\ reported' = reported \cup js
          /\ UNCHANGED <<corpnet, tracked>>
    BY <2>0
  <2>2. js \in SUBSET Jobs /\ found \in [js -> PartnerOrders] BY DEF Answers, Found
  <2>3. /\ evidence' \in [Jobs -> [order : PartnerOrders \cup {NoPartnerOrder},
                                   by : {"nobody", "fulfill", "reconcile"}]]
        /\ file' \in [Jobs -> BOOLEAN]
    BY <2>1, <2>2, AttachKeepsType
  <2>4. status' \in [Jobs -> {"operator_required", "ready_to_file", "submitted_to_state"}]
    BY <2>1, <2>2, RefreshKeepsType
  <2> QED BY <2>1, <2>2, <2>3, <2>4
<1>6. ASSUME NEW batch \in SUBSET Jobs, reconcile_raises(batch) PROVE AgentTypeOK'
  BY <1>6 DEF reconcile_raises
<1>7. ASSUME NEW j \in Jobs, JobSubmitted(j) PROVE AgentTypeOK'
  BY <1>7 DEF JobSubmitted
<1> QED
  BY <1>1, <1>2, <1>3, <1>4, <1>5, <1>6, <1>7, <1>8
  DEF AgentNext, registered_agent_reconciliation_candidates

\* Every variable of the agent's fulfilment keeps to its set of values.
THEOREM AgentTypeCorrect == AgentSpec => []AgentTypeOK
<1>1. AgentInit => AgentTypeOK BY DEF AgentInit, AgentTypeOK, CorpNetStatuses, CorpNetOrders, NoEvidence
<1>2. AgentTypeOK /\ [AgentNext]_agentVars => AgentTypeOK'
  BY AgentNextKeepsType DEF agentVars, AgentTypeOK
<1> QED BY <1>1, <1>2, PTL DEF AgentSpec

-----------------------------------------------------------------------------
\* An order at the partner keeps its job, and once ready stays ready.
LEMMA PartnerOrderIsFinal ==
  ASSUME AgentTypeOK, [AgentNext]_agentVars, NEW p \in PartnerOrders, corpnet[p].job # NoJob
  PROVE  /\ corpnet'[p].job = corpnet[p].job
         /\ corpnet_assignment_ready(corpnet[p]) =>
              corpnet_assignment_ready(corpnet'[p])
<1> USE DEF AgentTypeOK, corpnet_assignment_ready, CORPNET_RA_READY_STATUSES
<1>1. ASSUME NEW q \in PartnerOrders, NEW answer, create_registered_agent_order(q, answer)
      PROVE  corpnet'[p] = corpnet[p]
  BY <1>1 DEF create_registered_agent_order
<1>2. ASSUME NEW j \in Jobs, NEW q \in PartnerOrders,
             fulfill_pending(j, q) \/ fulfill_assigned(j, q) \/ fulfill_unanswered(j, q)
      PROVE  corpnet'[p] = corpnet[p]
  BY <1>1, <1>2 DEF fulfill_pending, fulfill_assigned, fulfill_unanswered, CorpNetStatuses
<1>3. ASSUME NEW q \in PartnerOrders, CorpNetAssigns(q) \/ CorpNetLinksDocument(q)
      PROVE  /\ corpnet'[p].job = corpnet[p].job
             /\ corpnet'[p].status \in {corpnet[p].status, "active"}
             /\ corpnet[p].document => corpnet'[p].document
  <2>1. CASE CorpNetAssigns(q) BY <2>1 DEF CorpNetAssigns, CorpNetOrders
  <2>2. CASE CorpNetLinksDocument(q) BY <2>2 DEF CorpNetLinksDocument, CorpNetOrders
  <2> QED BY <1>3, <2>1, <2>2
<1>4. ASSUME NEW batch \in registered_agent_reconciliation_candidates,
             reconcile_registered_agent_assignments(batch) \/ reconcile_raises(batch)
      PROVE  UNCHANGED corpnet
  BY <1>4 DEF reconcile_registered_agent_assignments, reconcile_raises
<1>5. ASSUME NEW j \in Jobs, JobSubmitted(j) PROVE UNCHANGED corpnet
  BY <1>5 DEF JobSubmitted
<1> QED BY <1>2, <1>3, <1>4, <1>5 DEF AgentNext, agentVars

\* The order on file is the job's own: it is put there as it is placed.
LEMMA TrackedStaysOwn ==
  ASSUME AgentInv, [AgentNext]_agentVars
  PROVE  TrackedIsOwn'
<1>1. CASE UNCHANGED tracked
  BY <1>1, PartnerOrderIsFinal, RegisteredAgentAssumption DEF AgentInv, AgentTypeOK, TrackedIsOwn
<1>2. ASSUME NEW j \in Jobs, NEW p \in PartnerOrders, fulfill_pending(j, p)
      PROVE  TrackedIsOwn'
  <2>1. corpnet'[p].job = j
    BY <1>2 DEF fulfill_pending, create_registered_agent_order, AgentInv, AgentTypeOK, Placed
  <2>2. tracked' = tracked \/ tracked' = [tracked EXCEPT ![j] = p]
    BY <1>2 DEF fulfill_pending
  <2> QED
    BY <2>1, <2>2, PartnerOrderIsFinal, RegisteredAgentAssumption
    DEF AgentInv, AgentTypeOK, TrackedIsOwn
<1>3. ASSUME NEW j \in Jobs, NEW p \in PartnerOrders,
             fulfill_assigned(j, p) \/ fulfill_unanswered(j, p)
      PROVE  UNCHANGED tracked
  BY <1>3 DEF fulfill_assigned, fulfill_unanswered
<1>4. ASSUME NEW p \in PartnerOrders, CorpNetAssigns(p) \/ CorpNetLinksDocument(p) PROVE UNCHANGED tracked
  BY <1>4 DEF CorpNetAssigns, CorpNetLinksDocument
<1>5. ASSUME NEW batch \in registered_agent_reconciliation_candidates,
             reconcile_registered_agent_assignments(batch) \/ reconcile_raises(batch)
      PROVE  UNCHANGED tracked
  BY <1>5 DEF reconcile_registered_agent_assignments, reconcile_raises
<1>6. ASSUME NEW j \in Jobs, JobSubmitted(j) PROVE UNCHANGED tracked
  BY <1>6 DEF JobSubmitted
<1> QED BY <1>1, <1>2, <1>3, <1>4, <1>5, <1>6 DEF AgentNext, agentVars

\* Evidence that stays in place stays good.
LEMMA KeptEvidenceIsGood ==
  ASSUME AgentInv, [AgentNext]_agentVars, NEW j \in Jobs, Attached(j), evidence'[j] = evidence[j]
  PROVE  OrderIsReady(j)'
BY PartnerOrderIsFinal, RegisteredAgentAssumption
DEF AgentInv, AgentTypeOK, OrderIsReady

\* Evidence is attached for an order that is ready at that moment: a direct
\* answer says so, or the poll does.
LEMMA EvidenceStaysGood ==
  ASSUME AgentInv, [AgentNext]_agentVars, AgentTypeOK'
  PROVE  \A j \in Jobs : Attached(j)' => OrderIsReady(j)'
<1> USE DEF Attached
<1>1. CASE UNCHANGED evidence BY <1>1, KeptEvidenceIsGood
<1>2. ASSUME NEW k \in Jobs, NEW p \in PartnerOrders, fulfill_assigned(k, p),
             NEW j \in Jobs, evidence'[j] # NoEvidence
      PROVE  OrderIsReady(j)'
  <2>1. /\ corpnet'[p].job = k /\ corpnet_assignment_ready(corpnet'[p])
        /\ evidence' = [i \in Jobs |->
             IF i = k THEN [order |-> p, by |-> "fulfill"] ELSE evidence[i]]
    BY <1>2 DEF fulfill_assigned, create_registered_agent_order, AttachAssignments,
                AgentInv, AgentTypeOK, Placed
  <2>2. CASE j = k
    BY <2>1, <2>2
    DEF OrderIsReady, corpnet_assignment_ready, CORPNET_RA_READY_STATUSES
  <2>3. CASE j # k BY <1>2, <2>1, <2>3, KeptEvidenceIsGood
  <2> QED BY <2>2, <2>3
<1>3. ASSUME NEW batch \in SUBSET Jobs, reconcile_registered_agent_assignments(batch),
             NEW j \in Jobs, evidence'[j] # NoEvidence
      PROVE  OrderIsReady(j)'
  <2>0. PICK js \in SUBSET Answers(batch) : \E found \in Found(js) :
          AttachAssignments(found, "reconcile") /\ UNCHANGED corpnet
    BY <1>3 DEF reconcile_registered_agent_assignments
  <2>1. PICK found \in Found(js) :
          AttachAssignments(found, "reconcile") /\ UNCHANGED corpnet
    BY <2>0
  <2>2. CASE j \in js
    <3>1. found[j] \in Polled(j) /\ corpnet_assignment_ready(corpnet[found[j]])
      BY <2>2 DEF Found
    <3>2. evidence'[j] = [order |-> found[j], by |-> "reconcile"]
      BY <2>1, <2>2 DEF AttachAssignments, Found
    <3> QED BY <2>1, <3>1, <3>2, PolledIsOwn DEF OrderIsReady
  <2>3. CASE j \notin js
    <3>1. evidence'[j] = evidence[j] BY <2>1, <2>3 DEF AttachAssignments, Found
    <3> QED BY <1>3, <3>1, KeptEvidenceIsGood
  <2> QED BY <2>2, <2>3
<1>4. ASSUME NEW j \in Jobs, NEW p \in PartnerOrders,
             fulfill_pending(j, p) \/ fulfill_unanswered(j, p)
      PROVE  UNCHANGED evidence
  BY <1>4 DEF fulfill_pending, fulfill_unanswered
<1>5. ASSUME NEW p \in PartnerOrders, CorpNetAssigns(p) \/ CorpNetLinksDocument(p) PROVE UNCHANGED evidence
  BY <1>5 DEF CorpNetAssigns, CorpNetLinksDocument
<1>6. ASSUME NEW batch \in SUBSET Jobs, reconcile_raises(batch) PROVE UNCHANGED evidence
  BY <1>6 DEF reconcile_raises
<1>7. ASSUME NEW j \in Jobs, JobSubmitted(j) PROVE UNCHANGED evidence
  BY <1>7 DEF JobSubmitted
<1> QED
  BY <1>1, <1>2, <1>3, <1>4, <1>5, <1>6, <1>7
  DEF AgentNext, agentVars, registered_agent_reconciliation_candidates

\* The evidence a submission waits for is of an order placed for this very
\* formation that CorpNet answers for as ready, in every behaviour.
THEOREM EvidenceIsOfTheFormation == AgentSpec => []EvidenceIsOwn
<1>1. AgentInit => AgentInv
  BY DEF AgentInit, AgentInv, AgentTypeOK, TrackedIsOwn, Attached, NoEvidence,
         CorpNetStatuses, CorpNetOrders
<1>2. AgentInv /\ [AgentNext]_agentVars /\ AgentTypeOK' => AgentInv'
  BY TrackedStaysOwn, EvidenceStaysGood DEF AgentInv
<1>3. AgentInv => EvidenceIsOwn
  BY DEF AgentInv, OrderIsReady, EvidenceIsOwn
<1> QED BY <1>1, <1>2, <1>3, AgentTypeCorrect, PTL DEF AgentSpec

-----------------------------------------------------------------------------
\* What a reconciliation attached is in the log of a run that completed, in
\* every behaviour: the one step that attaches it reports it.
THEOREM AttachedIsReported == AgentSpec => []EvidenceIsReported
<1>1. AgentInit => EvidenceIsReported BY DEF AgentInit, EvidenceIsReported, NoEvidence
<1>2. EvidenceIsReported /\ [AgentNext]_agentVars => EvidenceIsReported'
  <2> SUFFICES ASSUME EvidenceIsReported, [AgentNext]_agentVars PROVE EvidenceIsReported'
    OBVIOUS
  <2> USE DEF EvidenceIsReported, AttachAssignments
  <2>1. ASSUME NEW j \in Jobs, NEW p \in PartnerOrders,
               fulfill_pending(j, p) \/ fulfill_assigned(j, p) \/ fulfill_unanswered(j, p)
        PROVE  EvidenceIsReported'
    <3>1. CASE fulfill_pending(j, p) \/ fulfill_unanswered(j, p)
      BY <3>1 DEF fulfill_pending, fulfill_unanswered
    <3>2. CASE fulfill_assigned(j, p)
      <4>1. reported' = reported /\ AttachAssignments([k \in {j} |-> p], "fulfill")
        BY <3>2 DEF fulfill_assigned
      <4> QED BY <4>1
    <3> QED BY <2>1, <3>1, <3>2
  <2>2. ASSUME NEW p \in PartnerOrders, CorpNetAssigns(p) \/ CorpNetLinksDocument(p)
        PROVE  EvidenceIsReported'
    BY <2>2 DEF CorpNetAssigns, CorpNetLinksDocument
  <2>3. ASSUME NEW batch \in SUBSET Jobs, reconcile_registered_agent_assignments(batch)
        PROVE  EvidenceIsReported'
    BY <2>3 DEF reconcile_registered_agent_assignments, Found
  <2>4. ASSUME NEW batch \in SUBSET Jobs, reconcile_raises(batch) PROVE EvidenceIsReported'
    BY <2>4 DEF reconcile_raises
  <2>5. ASSUME NEW j \in Jobs, JobSubmitted(j) PROVE EvidenceIsReported'
    BY <2>5 DEF JobSubmitted
  <2>6. CASE UNCHANGED agentVars BY <2>6 DEF agentVars
  <2> QED
    BY <2>1, <2>2, <2>3, <2>4, <2>5, <2>6
    DEF AgentNext, registered_agent_reconciliation_candidates
<1> QED BY <1>1, <1>2, PTL DEF AgentSpec

-----------------------------------------------------------------------------
(* EINQueue.                                                                 *)

\* The statuses of an item that is ready for the IRS.
ReadyStatuses == {"ready_for_submission", "ready_for_browser_submission"} \cup PreflightBlocks

\* What shows that there is a value in the vault: the item is ready or refers
\* to it, the queue worker is about to write a reference, or the IRS worker has
\* loaded the item.
Seen(o) ==
  \/ queue[o].status \in ReadyStatuses
  \/ queue[o].ref = "vault"
  \/ queuer[o].ref = "vault"
  \/ irs[o] # NoFile

SSNBehind == \A o \in Orders : Seen(o) => ssn[o] # "none"

-----------------------------------------------------------------------------
\* The statuses of this lane.
LEMMA StatusFacts ==
  /\ LaneStatuses \subseteq OrderStatuses
  /\ {"state_approved", "ein_pending", "ein_received"} \subseteq LaneStatuses
  /\ {"in_filing", "complete"} \subseteq OrderStatuses
  /\ {"absent", "queued", "ready_for_submission", "ready_for_browser_submission",
      "blocked_outside_irs_hours", "ein_received"} \subseteq QueueStatuses
  /\ PreflightBlocks \subseteq QueueStatuses
  /\ ReadyStatuses \subseteq QueueStatuses
BY DEF LaneStatuses, OrderStatuses, QueueStatuses, PreflightBlocks, ReadyStatuses

\* What the helpers write keeps to the types.
LEMMA HelpersKeepType ==
  ASSUME TypeOK, NEW o \in Orders
  PROVE  /\ \A s \in OrderStatuses : SetOrder(o, s) => order' \in [Orders -> OrderStatuses]
         /\ \A s \in TimelineStatuses :
              Tell(o, s) => timeline' \in [Orders -> SUBSET TimelineStatuses]
         /\ \A s \in QueueStatuses, r \in Refs :
              WriteFile(o, File(s, r)) => queue' \in [Orders -> Files]
         /\ \A s \in QueueStatuses : save_ein_queue(o, s) => queue' \in [Orders -> Files]
         /\ SSNFile(o) => queue' \in [Orders -> Files]
<1> USE DEF TypeOK
<1>1. \A s \in OrderStatuses : SetOrder(o, s) => order' \in [Orders -> OrderStatuses]
  BY DEF SetOrder
<1>2. \A s \in TimelineStatuses : Tell(o, s) => timeline' \in [Orders -> SUBSET TimelineStatuses]
  BY DEF Tell
<1>3. \A s \in QueueStatuses, r \in Refs :
        WriteFile(o, File(s, r)) => queue' \in [Orders -> Files]
  BY DEF WriteFile, File, Files
<1>4. \A s \in QueueStatuses : save_ein_queue(o, s) => queue' \in [Orders -> Files]
  BY <1>3 DEF save_ein_queue, Refs
<1>5. SSNFile(o) => queue' \in [Orders -> Files]
  BY <1>3, StatusFacts DEF SSNFile, Refs
<1> QED BY <1>1, <1>2, <1>3, <1>4, <1>5

\* The server's steps keep to the types.
LEMMA ServerKeepsType == ASSUME TypeOK, NEW o \in Orders, ServerStep(o) PROVE TypeOK'
<1> USE StatusFacts, HelpersKeepType, EINAssumption DEF TypeOK, workers, tables, Dies
<1>1. CASE trigger_ein(o) BY <1>1 DEF trigger_ein, TimelineStatuses
<1>2. CASE update_responsible_party_ssn(o)
  BY <1>2 DEF update_responsible_party_ssn, TimelineStatuses
<1>3. CASE update_responsible_party_ssn_lost(o) BY <1>3 DEF update_responsible_party_ssn_lost
<1>4. CASE prepare_outside_irs_hours(o) BY <1>4 DEF prepare_outside_irs_hours
<1>5. CASE prepare_admin_ein_submission(o)
  BY <1>5 DEF prepare_admin_ein_submission, TimelineStatuses
<1>6. CASE prepare_lost(o) BY <1>6 DEF prepare_lost
<1>7. ASSUME NEW l \in Letters, NEW n \in BOOLEAN, complete_admin_ein_queue(o, l, n)
      PROVE  TypeOK'
  BY <1>7 DEF complete_admin_ein_queue, TimelineStatuses
<1>8. CASE complete_lost(o) BY <1>8 DEF complete_lost
<1> QED BY <1>1, <1>2, <1>3, <1>4, <1>5, <1>6, <1>7, <1>8 DEF ServerStep

\* So do the queue worker's, at whichever step its process dies.
LEMMA QueuerKeepsType ==
  ASSUME TypeOK, NEW o \in Orders, QueueWorker(o) \/ queue_lost(o)
  PROVE  TypeOK'
<1> USE StatusFacts, HelpersKeepType, EINAssumption
    DEF TypeOK, tables, QueuerAt, Resting
<1>1. CASE queue_select(o) BY <1>1 DEF queue_select
<1>2. CASE queue_check(o) BY <1>2 DEF queue_check
<1>3. CASE write_ein_queue(o) BY <1>3 DEF write_ein_queue, Refs
<1>4. CASE queue_commit(o) BY <1>4 DEF queue_commit, TimelineStatuses
<1>5. CASE queue_lost(o) BY <1>5 DEF queue_lost, Dies
<1> QED BY <1>1, <1>2, <1>3, <1>4, <1>5 DEF QueueWorker

\* So do the ingest worker's and the IRS worker's.
LEMMA OthersKeepType ==
  ASSUME TypeOK, NEW o \in Orders, IngestWorker(o) \/ IrsWorker(o)
  PROVE  TypeOK'
<1> USE StatusFacts, HelpersKeepType DEF TypeOK, tables
<1>1. CASE ingest_select(o) BY <1>1 DEF ingest_select
<1>2. CASE ingest_order(o) BY <1>2 DEF ingest_order, TimelineStatuses, Letters
<1>3. CASE load_queue(o) BY <1>3 DEF load_queue
<1>4. CASE save_queue(o) BY <1>4 DEF save_queue, Files, NoFile, File, Refs
<1> QED BY <1>1, <1>2, <1>3, <1>4 DEF IngestWorker, IrsWorker

\* So does what happens outside the lane.
LEMMA OutsideKeepsType ==
  ASSUME TypeOK, NEW o \in Orders, Approve(o) \/ Complete(o) \/ Capture(o)
  PROVE  TypeOK'
<1> USE StatusFacts, HelpersKeepType DEF TypeOK, tables, workers
<1>1. CASE Approve(o) BY <1>1 DEF Approve
<1>2. CASE Complete(o) BY <1>2 DEF Complete
<1>3. CASE Capture(o) BY <1>3 DEF Capture
<1> QED BY <1>1, <1>2, <1>3

\* Every variable of the lane keeps to its set of values.
THEOREM TypeCorrect == Spec => []TypeOK
<1>1. Init => TypeOK
  BY StatusFacts, EINAssumption DEF Init, TypeOK, Files, NoFile, File, Refs, Resting
<1>2. TypeOK /\ [Next]_vars => TypeOK'
  <2>1. TypeOK /\ UNCHANGED vars => TypeOK' BY DEF vars, TypeOK
  <2> QED
    BY <2>1, ServerKeepsType, QueuerKeepsType, OthersKeepType, OutsideKeepsType DEF Next
<1> QED BY <1>1, <1>2, PTL DEF Spec

-----------------------------------------------------------------------------
\* A step that tells nobody of an EIN and takes no letter away, or that leaves
\* a letter among the order's documents.
LetterMove(o) ==
  \/ /\ ein'[o] = ein[o]
     /\ order'[o] = "ein_received" => order[o] = "ein_received"
     /\ "ein_received" \in timeline'[o] => "ein_received" \in timeline[o]
     /\ letters[o] \subseteq letters'[o]
  \/ letters'[o] # {}

\* Whichever order it is about, a step of the server tells of an EIN together
\* with its letter only.
LEMMA ServerMovesLetters ==
  ASSUME TypeOK, NEW p \in Orders, ServerStep(p), NEW o \in Orders
  PROVE  LetterMove(o)
<1> USE DEF TypeOK, LetterMove, tables, SetOrder, Tell
<1>1. CASE trigger_ein(p) BY <1>1 DEF trigger_ein
<1>2. CASE update_responsible_party_ssn(p)
  BY <1>2 DEF update_responsible_party_ssn
<1>3. CASE update_responsible_party_ssn_lost(p) BY <1>3 DEF update_responsible_party_ssn_lost
<1>4. CASE prepare_outside_irs_hours(p) BY <1>4 DEF prepare_outside_irs_hours
<1>5. CASE prepare_admin_ein_submission(p) BY <1>5 DEF prepare_admin_ein_submission
<1>6. CASE prepare_lost(p) \/ complete_lost(p)
  BY <1>6 DEF prepare_lost, complete_lost, Dies
<1>7. ASSUME NEW l \in Letters, NEW n \in BOOLEAN, complete_admin_ein_queue(p, l, n)
      PROVE  LetterMove(o)
  BY <1>7 DEF complete_admin_ein_queue
<1> QED BY <1>1, <1>2, <1>3, <1>4, <1>5, <1>6, <1>7 DEF ServerStep

\* So do the three workers and what happens outside the lane.
LEMMA WorkersMoveLetters ==
  ASSUME TypeOK, NEW p \in Orders, NEW o \in Orders,
         \/ QueueWorker(p) \/ queue_lost(p) \/ IngestWorker(p) \/ IrsWorker(p)
         \/ Approve(p) \/ Complete(p) \/ Capture(p)
  PROVE  LetterMove(o)
<1> USE DEF TypeOK, LetterMove, tables, SetOrder, Tell
<1>1. CASE QueueWorker(p) \/ queue_lost(p)
  BY <1>1 DEF QueueWorker, queue_select, queue_check, write_ein_queue, queue_commit,
              queue_lost, Dies
<1>2. CASE ingest_select(p) BY <1>2 DEF ingest_select
<1>3. CASE ingest_order(p)
  <2>1. CASE o = p BY <1>3, <2>1 DEF ingest_order
  <2>2. CASE o # p BY <1>3, <2>2 DEF ingest_order
  <2> QED BY <2>1, <2>2
<1>4. CASE IrsWorker(p) BY <1>4 DEF IrsWorker, load_queue, save_queue
<1>5. CASE Approve(p) \/ Complete(p) \/ Capture(p) BY <1>5 DEF Approve, Complete, Capture
<1> QED BY <1>1, <1>2, <1>3, <1>4, <1>5 DEF IngestWorker

\* Whoever wrote the EIN, the status or the timeline, the letter is among the
\* documents, in every behaviour.
THEOREM LetterBehindEIN == Spec => []ReceivedHasLetter
<1>1. Init => ReceivedHasLetter BY DEF Init, ReceivedHasLetter
<1>2. TypeOK /\ ReceivedHasLetter /\ [Next]_vars => ReceivedHasLetter'
  <2> SUFFICES ASSUME TypeOK, ReceivedHasLetter, [Next]_vars, NEW o \in Orders,
                      ein'[o] \/ order'[o] = "ein_received" \/ "ein_received" \in timeline'[o]
               PROVE  letters'[o] # {}
    BY DEF ReceivedHasLetter
  <2>1. LetterMove(o)
    <3>1. CASE UNCHANGED vars BY <3>1 DEF vars, LetterMove
    <3> QED BY <3>1, ServerMovesLetters, WorkersMoveLetters DEF Next
  <2> QED BY <2>1 DEF LetterMove, ReceivedHasLetter
<1> QED BY <1>1, <1>2, TypeCorrect, PTL DEF Spec

-----------------------------------------------------------------------------
\* What a step may do to one order: the vault keeps what it has, and what shows
\* a value was shown before the step, or the value is there.
WitnessMove(o) ==
  /\ ssn[o] # "none" => ssn'[o] # "none"
  /\ Seen(o)' => Seen(o) \/ ssn[o] # "none" \/ ssn'[o] # "none"

\* The item written by save_ein_queue shows no reference to the vault.
LEMMA SavedIsRedacted ==
  ASSUME TypeOK, NEW p \in Orders, NEW s \in QueueStatuses, save_ein_queue(p, s), NEW o \in Orders
  PROVE  IF o = p THEN queue'[o].status = s /\ queue'[o].ref \in {"missing", "redacted"}
         ELSE queue'[o] = queue[o]
BY DEF TypeOK, save_ein_queue, WriteFile, File

\* The server's steps: what is made ready for the IRS has a reference to the
\* vault, in the file or in the order.
LEMMA ServerSeesSSN ==
  ASSUME TypeOK, NEW p \in Orders, ServerStep(p), NEW o \in Orders
  PROVE  WitnessMove(o)
<1> USE StatusFacts DEF WitnessMove, Seen
<1>1. CASE trigger_ein(p) BY <1>1 DEF trigger_ein, workers
<1>2. CASE update_responsible_party_ssn(p) \/ update_responsible_party_ssn_lost(p)
  <2>1. CASE o = p
    BY <1>2, <2>1 DEF update_responsible_party_ssn, update_responsible_party_ssn_lost, TypeOK
  <2>2. CASE o # p
    BY <1>2, <2>2 DEF update_responsible_party_ssn, update_responsible_party_ssn_lost, TypeOK,
                      SSNFile, WriteFile, workers
  <2> QED BY <2>1, <2>2
<1>3. CASE prepare_outside_irs_hours(p)
  <2>1. "blocked_outside_irs_hours" \notin ReadyStatuses
    BY DEF ReadyStatuses, PreflightBlocks
  <2> QED BY <1>3, <2>1, SavedIsRedacted DEF prepare_outside_irs_hours, tables, workers
<1>4. CASE prepare_admin_ein_submission(p) \/ prepare_lost(p)
  <2>1. VaultId(p) = "vault" /\ save_ein_queue(p, "ready_for_browser_submission")
    BY <1>4 DEF prepare_admin_ein_submission, prepare_lost
  <2>2. ssn' = ssn /\ UNCHANGED workers
    BY <1>4 DEF prepare_admin_ein_submission, prepare_lost, Dies, tables
  <2>3. queue[p].ref = "vault" \/ ssn[p] = "linked" BY <2>1 DEF VaultId
  <2> QED BY <2>1, <2>2, <2>3, SavedIsRedacted DEF workers
<1>5. ASSUME complete_lost(p) \/ \E l \in Letters, n \in BOOLEAN : complete_admin_ein_queue(p, l, n)
      PROVE  WitnessMove(o)
  <2>1. "ein_received" \notin ReadyStatuses BY DEF ReadyStatuses, PreflightBlocks
  <2>2. save_ein_queue(p, "ein_received") /\ ssn' = ssn /\ UNCHANGED workers
    BY <1>5 DEF complete_lost, complete_admin_ein_queue, Dies, tables
  <2> QED BY <2>1, <2>2, SavedIsRedacted DEF workers
<1> QED BY <1>1, <1>2, <1>3, <1>4, <1>5 DEF ServerStep

\* The workers' steps: the reference the queue worker writes is the one it
\* selected, and the item the IRS worker rewrites the one it loaded.
LEMMA WorkersSeeSSN ==
  ASSUME TypeOK, NEW p \in Orders, NEW o \in Orders,
         \/ QueueWorker(p) \/ queue_lost(p) \/ IngestWorker(p) \/ IrsWorker(p)
         \/ Approve(p) \/ Complete(p) \/ Capture(p)
  PROVE  WitnessMove(o)
<1> USE DEF WitnessMove, Seen
<1>1. CASE queue_select(p) BY <1>1 DEF queue_select, QueuerAt, TypeOK, tables
<1>2. CASE queue_check(p) BY <1>2 DEF queue_check, QueuerAt, TypeOK, tables, Resting
<1>3. CASE write_ein_queue(p)
  <2>1. "queued" \notin ReadyStatuses BY DEF ReadyStatuses, PreflightBlocks
  <2> QED BY <1>3, <2>1 DEF write_ein_queue, QueuerAt, WriteFile, File, TypeOK, tables
<1>4. CASE queue_commit(p) \/ queue_lost(p)
  BY <1>4 DEF queue_commit, queue_lost, QueuerAt, Resting, Dies, TypeOK, tables
<1>5. CASE IngestWorker(p) BY <1>5 DEF IngestWorker, ingest_select, ingest_order, tables
<1>6. CASE load_queue(p)
  BY <1>6 DEF load_queue, TypeOK, tables, ReadyStatuses
<1>7. CASE save_queue(p)
  BY <1>7 DEF save_queue, WriteFile, TypeOK, tables
<1>8. CASE Approve(p) \/ Complete(p) \/ Capture(p)
  BY <1>8 DEF Approve, Complete, Capture, workers, tables
<1> QED BY <1>1, <1>2, <1>3, <1>4, <1>5, <1>6, <1>7, <1>8 DEF QueueWorker, IrsWorker

\* An item is ready for the IRS only with a value in the vault, in every
\* behaviour.
THEOREM SSNBehindReady == Spec => []ReadyHasSSN
<1>1. Init => SSNBehind
  BY DEF Init, SSNBehind, Seen, NoFile, File, Resting, ReadyStatuses, PreflightBlocks
<1>2. TypeOK /\ SSNBehind /\ [Next]_vars => SSNBehind'
  <2> SUFFICES ASSUME TypeOK, SSNBehind, [Next]_vars, NEW o \in Orders, Seen(o)'
               PROVE  ssn'[o] # "none"
    BY DEF SSNBehind, Seen
  <2>1. WitnessMove(o)
    <3>1. CASE UNCHANGED vars BY <3>1 DEF vars, WitnessMove, Seen
    <3> QED BY <3>1, ServerSeesSSN, WorkersSeeSSN DEF Next
  <2> QED BY <2>1 DEF WitnessMove, SSNBehind, Seen
<1>3. SSNBehind => ReadyHasSSN BY DEF SSNBehind, Seen, ReadyHasSSN, ReadyStatuses
<1> QED BY <1>1, <1>2, <1>3, TypeCorrect, PTL DEF Spec
=============================================================================
