---------------------------- MODULE ResearchQueue ----------------------------
(***************************************************************************)
(* The queue of state and local filing research, a JSON file that several  *)
(* runs of the worker and the operator's commands share.  A run claims     *)
(* jobs under the file lock, works outside it for as long as the official  *)
(* sites take, and writes its results under the lock again; set-status and *)
(* init read the file and write it back without the lock.                  *)
(***************************************************************************)
EXTENDS Naturals, FiniteSets

CONSTANTS
  Jobs,           \* the jobs build_jobs derives from the research plans
  Productization, \* those that wait for the rest of their state
  StateOf,        \* the state a job is about
  Cooling,        \* the states the shipped controls keep from being tried at first
  Place,          \* a job's place by priority and id
  Runs,           \* processes that run the worker
  Daemon,         \* the one that repeats forever, for every state
  Limit,          \* jobs a run takes
  Factor,         \* candidates a run looks at, per job it may take
  ManualStatuses, \* statuses an operator sets by hand
  MaxEdits,       \* bound: commands that write the file without the lock
  MaxFaults       \* bound: operator's runs that end at work, leases outlived

JOB_STATUSES == {"pending", "in_progress", "blocked", "ready_for_review", "verified"}

Nobody == "nobody"
Past == "a run that is over"   \* every run has a fresh uuid

ASSUME QueueAssumption ==
  /\ IsFiniteSet(Jobs) /\ Productization \subseteq Jobs
  /\ {Nobody, Past} \cap Runs = {}
  /\ MaxEdits \in Nat /\ MaxFaults \in Nat
  /\ Daemon \in Runs /\ ManualStatuses \subseteq JOB_STATUSES
  /\ Cooling \subseteq {StateOf[j] : j \in Jobs}
  /\ Limit \in Nat \ {0} /\ Factor \in Nat \ {0}
  /\ \A j \in Jobs : Place[j] \in Nat
  /\ \A i, j \in Jobs : Place[i] = Place[j] => i = j

VARIABLES
  queue,   \* research_jobs.json: each job's status and claim
  present, \* whether that file is there; the queue is what init makes, till then
  up,      \* whether the daemon's process is there
  held,    \* the jobs a run has claimed and is working on
  working, \* the runs between claiming and writing their results
  slow,    \* those of them whose lease lapsed meanwhile
  cooled,  \* the states research_state_controls.json keeps from being tried
  edit,    \* the file as a command has changed it in memory, if one is running
  edits, faults

vars == <<queue, present, up, held, working, slow, cooled, edit, edits, faults>>

States == {StateOf[j] : j \in Jobs}
AnyState == "any state"
NoClaim == [owner |-> Nobody, live |-> FALSE]
NotEditing == [j \in {} |-> NoClaim]

Owners == Runs \cup {Nobody, Past}
Queues == [Jobs -> [status : JOB_STATUSES, owner : Owners, live : BOOLEAN]]

TypeOK ==
  /\ queue \in Queues
  /\ present \in BOOLEAN /\ up \in BOOLEAN
  /\ held \in [Runs -> SUBSET Jobs]
  /\ \A r \in Runs : Cardinality(held[r]) <= Limit
  /\ slow \subseteq working /\ working \subseteq Runs
  /\ cooled \subseteq Cooling
  /\ edit = NotEditing \/ edit \in Queues
  /\ edits \in 0..MaxEdits /\ faults \in 0..MaxFaults

Job(status, owner, live) == [status |-> status, owner |-> owner, live |-> live]

build_jobs == [j \in Jobs |-> Job("pending", Nobody, FALSE)]

Init ==
  /\ queue = build_jobs
  /\ present \in BOOLEAN /\ up = FALSE
  /\ held = [r \in Runs |-> {}]
  /\ working = {}
  /\ slow = {}
  /\ cooled = Cooling
  /\ edit = NotEditing
  /\ edits = 0 /\ faults = 0

-----------------------------------------------------------------------------
is_claim_active(job) == job.owner # Nobody /\ job.live

clear_expired_claims(q) ==
  [j \in Jobs |-> IF q[j].live THEN q[j] ELSE Job(q[j].status, Nobody, FALSE)]

state_prerequisites_ready(q, s) ==
  LET prerequisites == {j \in Jobs \ Productization : StateOf[j] = s}
  IN /\ prerequisites # {}
     /\ \A j \in prerequisites : q[j].status \in {"ready_for_review", "verified"}

Eligible(q, scope, retry) ==
  {j \in Jobs :
     /\ scope \in {AnyState, StateOf[j]}
     /\ q[j].status \in {"pending", "in_progress"} \cup (IF retry THEN {"blocked"} ELSE {})
     /\ j \in Productization => state_prerequisites_ready(q, StateOf[j])}

StatusRank(status) ==
  IF status = "pending" THEN 0 ELSE IF status = "in_progress" THEN 1 ELSE 2

\* Faulty: priority decides before the status does.
sort_by_priority(q, i, j) == Place[i] < Place[j]

sort_key(q, i, j) ==
  \/ StatusRank(q[i].status) < StatusRank(q[j].status)
  \/ StatusRank(q[i].status) = StatusRank(q[j].status) /\ Place[i] < Place[j]

\* The first n of some jobs.
First(n, js, q) == {j \in js : Cardinality({i \in js : sort_key(q, i, j)}) < n}

select_runnable_jobs(q, scope, retry) ==
  First(Factor * Limit, Eligible(q, scope, retry), q)

\* Faulty: every candidate is taken, claimed by another run or not.
take_any(q, scope, retry) ==
  First(Limit, {j \in select_runnable_jobs(q, scope, retry) : StateOf[j] \notin cooled}, q)

\* The candidates neither cooling down nor claimed, as many as the run takes.
Claimable(q, scope, retry) ==
  LET free == {j \in select_runnable_jobs(q, scope, retry) :
                 StateOf[j] \notin cooled /\ ~is_claim_active(q[j])}
  IN First(Limit, free, q)

Claim(r, scope, retry) ==
  LET standing == clear_expired_claims(queue)
      taken == Claimable(standing, scope, retry)
  IN /\ r \notin working
     /\ present /\ (r = Daemon => up)
     /\ held' = [held EXCEPT ![r] = taken]
     /\ queue' = [j \in Jobs |-> IF j \in taken THEN Job(standing[j].status, r, TRUE)
                                 ELSE standing[j]]
     /\ working' = working \cup {r}
     /\ UNCHANGED <<present, up, slow, cooled, edit, edits, faults>>

\* What a job's official pages turn out to be: none reachable, Nevada's bot
\* wall, pages without much in them, or fees and process named in one of them.
Visits == {"unreachable", "waf_blocked", "reachable", "ready_signal"}

\* Faulty: the reason of a block is written as its status.
block_reason_as_status(j, visit) ==
  CASE j \in Productization \/ visit = "ready_signal" -> "ready_for_review"
    [] visit = "reachable" /\ j \notin Productization -> "in_progress"
    [] OTHER -> visit

\* Productization visits nothing: its turn coming is the result.
next_status(j, visit) ==
  CASE j \in Productization \/ visit = "ready_signal" -> "ready_for_review"
    [] visit = "reachable" /\ j \notin Productization -> "in_progress"
    [] OTHER -> "blocked"

\* A claim of a run that is over is nobody's to write under, wherever it stands;
\* it keeps others off while its lease lasts.
Spent(q, r) ==
  [j \in DOMAIN q |->
    IF q[j].owner # r THEN q[j]
    ELSE Job(q[j].status, IF q[j].live THEN Past ELSE Nobody, q[j].live)]

\* Faulty: what the run worked on is written whoever has the job now.
write_results_anyhow(r, result) ==
  [j \in Jobs |-> IF queue[j].owner = r THEN Job(result[j], Nobody, FALSE)
                  ELSE IF j \in held[r] THEN [queue[j] EXCEPT !.status = result[j]]
                  ELSE queue[j]]

\* Results go to the jobs this run still has, read again under the lock, and
\* every claim of the run is released.
write_results(r, result) ==
  [j \in Jobs |-> IF queue[j].owner # r THEN queue[j]
                  ELSE Job(IF j \in held[r] THEN result[j] ELSE queue[j].status,
                           Nobody, FALSE)]

\* The controls are loaded again too, so the cooldown and the streak of blocks
\* this run has noted are not in what it saves.
Finish(r) ==
  /\ r \in working
  /\ \E visit \in [held[r] -> Visits] :
       queue' = write_results(r, [j \in held[r] |-> next_status(j, visit[j])])
  /\ edit' = Spent(edit, r)
  /\ held' = [held EXCEPT ![r] = {}]
  /\ working' = working \ {r}
  /\ slow' = slow \ {r}
  /\ UNCHANGED <<present, up, cooled, edits, faults>>

-----------------------------------------------------------------------------
Unlocked(q) == edit = NotEditing /\ edits < MaxEdits /\ edit' = q /\ edits' = edits + 1

\* set-status keeps the claims it read.
update_status(js, status) ==
  /\ present
  /\ Unlocked([j \in Jobs |-> IF j \in js THEN [queue[j] EXCEPT !.status = status] ELSE queue[j]])
  /\ UNCHANGED <<queue, present, up, held, working, slow, cooled, faults>>

\* Statuses are kept, claims are not.
merge_existing_jobs(q) == [j \in Jobs |-> Job(q[j].status, Nobody, FALSE)]

\* The command, and what any process does first that finds no file.
init_queue(force) ==
  /\ Unlocked(IF force THEN build_jobs ELSE merge_existing_jobs(queue))
  /\ UNCHANGED <<queue, present, up, held, working, slow, cooled, faults>>

save_queue ==
  /\ edit # NotEditing
  /\ queue' = edit
  /\ edit' = NotEditing
  /\ present' = TRUE
  /\ UNCHANGED <<up, held, working, slow, cooled, edits, faults>>

-----------------------------------------------------------------------------
\* Twenty minutes: the lease of a claim ends, in a copy of the file as in it.
Expired(q, r) ==
  [j \in DOMAIN q |->
    IF q[j].owner # r THEN q[j]
    ELSE Job(q[j].status, IF r = Past THEN Nobody ELSE r, FALSE)]

LeaseLapses(r) ==
  /\ r \in working \ slow
  /\ faults < MaxFaults
  /\ faults' = faults + 1
  /\ slow' = slow \cup {r}
  /\ queue' = Expired(queue, r)
  /\ edit' = Expired(edit, r)
  /\ UNCHANGED <<present, up, held, working, cooled, edits>>

OldLeaseLapses ==
  /\ \E j \in Jobs : queue[j].owner = Past /\ queue[j].live
  /\ queue' = Expired(queue, Past)
  /\ edit' = Expired(edit, Past)
  /\ UNCHANGED <<present, up, held, working, slow, cooled, edits, faults>>

CooldownEnds(s) ==
  /\ s \in cooled
  /\ cooled' = cooled \ {s}
  /\ UNCHANGED <<queue, present, up, held, working, slow, edit, edits, faults>>

\* An operator starts the daemon; nothing else does.
StartDaemon ==
  /\ ~up
  /\ up' = TRUE
  /\ UNCHANGED <<queue, present, held, working, slow, cooled, edit, edits, faults>>

\* A run ends and writes nothing: its claims stay in the file.
Ends(r) ==
  /\ queue' = Spent(queue, r)
  /\ edit' = Spent(edit, r)
  /\ held' = [held EXCEPT ![r] = {}]
  /\ working' = working \ {r}
  /\ slow' = slow \ {r}
  /\ IF r = Daemon THEN up' = FALSE /\ UNCHANGED faults
     ELSE faults < MaxFaults /\ faults' = faults + 1 /\ UNCHANGED up
  /\ UNCHANGED <<present, cooled, edits>>

\* Killed at work, or the daemon between two rounds.
Crash(r) ==
  /\ r \in working \/ (r = Daemon /\ up)
  /\ Ends(r)

\* A fetch raises something else than an OSError, such as an answer that is no
\* HTTP: neither the run nor the daemon catches it.
Raises(r) ==
  /\ r \in working
  /\ held[r] \ Productization # {}
  /\ Ends(r)

Next ==
  \/ \E r \in Runs, scope \in States \cup {AnyState}, retry \in BOOLEAN :
       /\ r = Daemon => scope = AnyState /\ ~retry
       /\ Claim(r, scope, retry)
  \/ \E r \in Runs : Finish(r) \/ LeaseLapses(r) \/ Crash(r) \/ Raises(r)
  \/ StartDaemon
  \/ \E j \in Jobs, status \in ManualStatuses : update_status({j}, status)
  \/ \E force \in BOOLEAN : init_queue(force)
  \/ save_queue
  \/ OldLeaseLapses
  \/ \E s \in States : CooldownEnds(s)

\* While it is up the daemon repeats; every fetch ends, by its timeout or by an
\* exception; and time passes.
Fairness ==
  /\ WF_vars(Claim(Daemon, AnyState, FALSE))
  /\ \A r \in Runs : WF_vars(Finish(r) \/ Raises(r))
  /\ WF_vars(OldLeaseLapses \/ \E s \in States : CooldownEnds(s))

Spec == Init /\ [][Next]_vars /\ Fairness

-----------------------------------------------------------------------------
\* Two runs within their leases never work on one job, as long as nobody wrote
\* the file around the lock.
OneRunPerJob ==
  \A q, r \in working \ slow : q # r /\ edits = 0 => held[q] \cap held[r] = {}

\* A state's productization is ready only while everything before it is: a run
\* that lost its claim takes nothing back.  Commands may set any status.
ProductizationLast ==
  \A p \in Productization :
    queue[p].status = "ready_for_review" /\ edits = 0
      => state_prerequisites_ready(queue, StateOf[p])

\* Every job the plan lists gets its turn as long as the daemon stays up,
\* whatever other runs end with it claimed, however long its state cools down
\* and whatever is written around the lock.
EveryJobIsTried ==
  \A j \in Jobs \ Productization :
    (present /\ queue[j].status = "pending") ~> (queue[j].status # "pending" \/ ~up)
=============================================================================
