------------------------- MODULE ResearchQueueProofs -------------------------
(***************************************************************************)
(* Type correctness of the research queue, one run per job and the order   *)
(* of a state's jobs, for every plan of jobs, every number of runs and     *)
(* every limit.                                                            *)
(***************************************************************************)
EXTENDS ResearchQueue, FiniteSetTheorems, TLAPS

Ready == {"ready_for_review", "verified"}

\* As long as nobody has written the file around the lock: a run within its
\* lease has every job it works on under a live claim of its own, ...
HeldIsClaimed ==
  \A r \in working \ slow : \A j \in held[r] : queue[j].owner = r /\ queue[j].live

\* ... what a run has claimed is not done yet, ...
ClaimedIsOpen == \A j \in Jobs : queue[j].owner \in Runs => queue[j].status \notin Ready

\* ... and productization is claimed or done behind the rest of its state only.
ProductizationWaits ==
  \A p \in Productization :
    queue[p].owner \in Runs \/ queue[p].status = "ready_for_review"
      => state_prerequisites_ready(queue, StateOf[p])

Locked ==
  edits = 0 => edit = NotEditing /\ HeldIsClaimed /\ ClaimedIsOpen /\ ProductizationWaits

QueueInv == TypeOK /\ Locked

-----------------------------------------------------------------------------
(* The operators.                                                            *)

\* The sort key is a strict total order of the jobs.
LEMMA SortKeyOrders ==
  ASSUME NEW q \in Queues, NEW i \in Jobs, NEW j \in Jobs, NEW k \in Jobs
  PROVE  /\ ~sort_key(q, i, i)
         /\ sort_key(q, i, j) /\ sort_key(q, j, k) => sort_key(q, i, k)
         /\ i # j => sort_key(q, i, j) \/ sort_key(q, j, i)
<1>1. \A l \in Jobs : StatusRank(q[l].status) \in Nat BY DEF StatusRank
<1>2. \A l \in Jobs : Place[l] \in Nat BY QueueAssumption
<1>3. i # j => Place[i] # Place[j] BY QueueAssumption
<1> QED BY <1>1, <1>2, <1>3 DEF sort_key

\* The first n of some jobs are n at most: each has fewer than n before it,
\* and no two as many.
LEMMA FirstIsShort ==
  ASSUME NEW n \in Nat, NEW js \in SUBSET Jobs, NEW q \in Queues
  PROVE  Cardinality(First(n, js, q)) <= n
<1> DEFINE Before(j) == {i \in js : sort_key(q, i, j)}
           F == First(n, js, q)
           f == [j \in F |-> Cardinality(Before(j))]
<1>1. ASSUME NEW j \in js PROVE IsFiniteSet(Before(j)) /\ Cardinality(Before(j)) \in Nat
  <2>1. Before(j) \in SUBSET Jobs OBVIOUS
  <2>2. IsFiniteSet(Before(j)) BY <2>1, QueueAssumption, FS_Subset
  <2> QED BY <2>2, FS_CardinalityType
<1>2. ASSUME NEW i \in js, NEW j \in js, sort_key(q, i, j)
      PROVE  Cardinality(Before(i)) # Cardinality(Before(j))
  <2>1. Before(i) \in SUBSET Before(j) BY <1>2, SortKeyOrders
  <2>2. i \in Before(j) /\ i \notin Before(i) BY <1>2, SortKeyOrders
  <2>3. IsFiniteSet(Before(j)) BY <1>1
  <2> HIDE DEF Before
  <2> QED BY <2>1, <2>2, <2>3, FS_Subset
<1>3. F \subseteq js /\ \A j \in F : Cardinality(Before(j)) < n BY DEF First
<1>4. f \in [F -> 0..(n - 1)] BY <1>1, <1>3
<1>5. ASSUME NEW i \in F, NEW j \in F, f[i] = f[j] PROVE i = j
  <2>1. i \in js /\ j \in js /\ i \in Jobs /\ j \in Jobs BY <1>3
  <2>2. Cardinality(Before(i)) = Cardinality(Before(j)) BY <1>5
  <2>3. ~sort_key(q, i, j) /\ ~sort_key(q, j, i) BY <2>1, <2>2, <1>2
  <2> QED BY <2>1, <2>3, SortKeyOrders
<1>6. f \in Injection(F, 0..(n - 1))
  <2> HIDE DEF f, F
  <2> QED BY <1>4, <1>5 DEF Injection, IsInjective
<1>7. IsFiniteSet(0..(n - 1)) /\ Cardinality(0..(n - 1)) = n BY FS_Interval
<1> HIDE DEF f, F
<1>8. Cardinality(F) <= Cardinality(0..(n - 1)) BY <1>6, <1>7, FS_Injection
<1> QED BY <1>7, <1>8 DEF F

\* What a run takes: as many jobs as it may, none of them claimed, and each
\* eligible.
LEMMA ClaimableFacts ==
  ASSUME NEW q \in Queues, NEW scope, NEW retry \in BOOLEAN
  PROVE  /\ Claimable(q, scope, retry) \subseteq Eligible(q, scope, retry)
         /\ \A j \in Claimable(q, scope, retry) : ~is_claim_active(q[j])
         /\ Cardinality(Claimable(q, scope, retry)) <= Limit
<1> DEFINE free == {j \in select_runnable_jobs(q, scope, retry) :
                      StateOf[j] \notin cooled /\ ~is_claim_active(q[j])}
<1>1. select_runnable_jobs(q, scope, retry) \subseteq Eligible(q, scope, retry)
  BY DEF select_runnable_jobs, First
<1>2. free \subseteq Eligible(q, scope, retry) BY <1>1
<1>3. Eligible(q, scope, retry) \subseteq Jobs BY DEF Eligible
<1>4. Claimable(q, scope, retry) = First(Limit, free, q) BY DEF Claimable
<1>5. Cardinality(First(Limit, free, q)) <= Limit
  <2> HIDE DEF free
  <2> QED BY <1>2, <1>3, QueueAssumption, FirstIsShort
<1>6. First(Limit, free, q) \subseteq free BY DEF First
<1> QED BY <1>2, <1>4, <1>5, <1>6

\* Clearing claims, spending or expiring them keeps every status, and the
\* result is a queue.
LEMMA ClearedFacts ==
  ASSUME NEW q \in Queues
  PROVE  /\ clear_expired_claims(q) \in Queues
         /\ \A j \in Jobs : /\ clear_expired_claims(q)[j].status = q[j].status
                            /\ clear_expired_claims(q)[j] = q[j] \/ ~q[j].live
BY DEF clear_expired_claims, Queues, Owners, Job

\* So do the ends of a run's claims: no status changes, and no other run's claim.
LEMMA MarkedFacts ==
  ASSUME NEW q \in Queues, NEW r \in Runs \cup {Past}
  PROVE  /\ Spent(q, r) \in Queues /\ Expired(q, r) \in Queues
         /\ \A j \in Jobs :
              /\ Spent(q, r)[j].status = q[j].status
              /\ Expired(q, r)[j].status = q[j].status
              /\ Spent(q, r)[j].owner \in {q[j].owner, Past, Nobody}
              /\ Expired(q, r)[j].owner \in {q[j].owner, Nobody}
              /\ q[j].owner # r => Spent(q, r)[j] = q[j] /\ Expired(q, r)[j] = q[j]
BY DEF Spent, Expired, Queues, Owners, Job

\* A file nobody edits has no claims to mark.
LEMMA NotEditingMarked ==
  ASSUME NEW r PROVE Spent(NotEditing, r) = NotEditing /\ Expired(NotEditing, r) = NotEditing
BY DEF Spent, Expired, NotEditing

\* Whether a state's productization may go on is a matter of statuses.
LEMMA PrerequisitesByStatus ==
  ASSUME NEW q, NEW p, NEW s, state_prerequisites_ready(q, s),
         \A j \in Jobs : q[j].status \in Ready => p[j].status \in Ready
  PROVE  state_prerequisites_ready(p, s)
BY DEF state_prerequisites_ready, Ready

-----------------------------------------------------------------------------
(* Types.                                                                    *)

\* What a run writes at its end is a queue again.
LEMMA FinishKeepsQueue ==
  ASSUME TypeOK, NEW r \in Runs, NEW visit \in [held[r] -> Visits]
  PROVE  /\ write_results(r, [j \in held[r] |-> next_status(j, visit[j])]) \in Queues
         /\ \A j \in held[r] : next_status(j, visit[j]) \in JOB_STATUSES
<1>1. \A j \in held[r] : next_status(j, visit[j]) \in JOB_STATUSES
  BY DEF next_status, JOB_STATUSES
<1> QED BY <1>1 DEF TypeOK, write_results, Queues, Owners, Job

\* A claim keeps to the types: as many jobs as the run may take.
LEMMA ClaimKeepsType ==
  ASSUME TypeOK, NEW r \in Runs, NEW scope, NEW retry \in BOOLEAN, Claim(r, scope, retry)
  PROVE  TypeOK'
<1> DEFINE standing == clear_expired_claims(queue)
           taken == Claimable(standing, scope, retry)
<1>1. standing \in Queues BY ClearedFacts DEF TypeOK
<1>2. taken \subseteq Jobs /\ Cardinality(taken) <= Limit
  BY <1>1, ClaimableFacts DEF Eligible
<1>3. /\ held' = [held EXCEPT ![r] = taken]
      /\ queue' = [j \in Jobs |-> IF j \in taken THEN Job(standing[j].status, r, TRUE)
                                  ELSE standing[j]]
      /\ working' = working \cup {r}
      /\ UNCHANGED <<present, up, slow, cooled, edit, edits, faults>>
  BY DEF Claim
<1> HIDE DEF standing, taken
<1>4. queue' \in Queues BY <1>1, <1>3 DEF Queues, Owners, Job
<1>5. /\ held' \in [Runs -> SUBSET Jobs]
      /\ \A q \in Runs : Cardinality(held'[q]) <= Limit
  BY <1>2, <1>3 DEF TypeOK
<1> QED BY <1>3, <1>4, <1>5 DEF TypeOK

\* The end of a run, with its results or without, empties its hands.
LEMMA EndKeepsType ==
  ASSUME TypeOK, NEW r \in Runs, Finish(r) \/ Ends(r)
  PROVE  TypeOK'
<1>1. /\ held' = [held EXCEPT ![r] = {}]
      /\ working' = working \ {r}
      /\ slow' = slow \ {r}
      /\ edit' = Spent(edit, r)
      /\ UNCHANGED <<present, cooled, edits>>
  BY DEF Finish, Ends
<1>2. queue' \in Queues
  <2>1. CASE Finish(r) BY <2>1, FinishKeepsQueue DEF Finish
  <2>2. CASE Ends(r) BY <2>2, MarkedFacts DEF Ends, TypeOK
  <2> QED BY <2>1, <2>2
<1>3. edit' = NotEditing \/ edit' \in Queues
  BY <1>1, NotEditingMarked, MarkedFacts DEF TypeOK
<1>4. /\ held' \in [Runs -> SUBSET Jobs]
      /\ \A q \in Runs : Cardinality(held'[q]) <= Limit
  <2>1. Cardinality({}) <= Limit BY FS_EmptySet, QueueAssumption
  <2> QED BY <1>1, <2>1 DEF TypeOK
<1>5. slow' \subseteq working' /\ working' \subseteq Runs BY <1>1 DEF TypeOK
<1>6. faults' \in 0..MaxFaults BY QueueAssumption DEF Finish, Ends, TypeOK
<1>7. up' \in BOOLEAN
  <2>1. CASE Finish(r) BY <2>1, Zenon DEF Finish, TypeOK
  <2>2. CASE Ends(r) BY <2>2 DEF Ends, TypeOK
  <2> QED BY <2>1, <2>2
<1>8. /\ present' \in BOOLEAN /\ cooled' \subseteq Cooling
      /\ edits' \in 0..MaxEdits
  BY <1>1 DEF TypeOK
<1> QED BY <1>2, <1>3, <1>4, <1>5, <1>6, <1>7, <1>8 DEF TypeOK

\* So does the start of the daemon.
LEMMA StartKeepsType == ASSUME TypeOK, StartDaemon PROVE TypeOK'
BY DEF StartDaemon, TypeOK

\* So do a lease that lapses and a cooldown that ends.
LEMMA TimeKeepsType ==
  ASSUME TypeOK,
         \/ \E r \in Runs : LeaseLapses(r)
         \/ OldLeaseLapses
         \/ \E s \in States : CooldownEnds(s)
  PROVE  TypeOK'
<1>1. ASSUME NEW r \in Runs, LeaseLapses(r) PROVE TypeOK'
  <2>1. queue' \in Queues BY <1>1, MarkedFacts DEF LeaseLapses, TypeOK
  <2>2. edit' = NotEditing \/ edit' \in Queues
    BY <1>1, NotEditingMarked, MarkedFacts DEF LeaseLapses, TypeOK
  <2> QED BY <1>1, <2>1, <2>2, QueueAssumption DEF LeaseLapses, TypeOK
<1>2. CASE OldLeaseLapses
  <2>1. queue' \in Queues BY <1>2, MarkedFacts DEF OldLeaseLapses, TypeOK
  <2>2. edit' = NotEditing \/ edit' \in Queues
    BY <1>2, NotEditingMarked, MarkedFacts DEF OldLeaseLapses, TypeOK
  <2> QED BY <1>2, <2>1, <2>2 DEF OldLeaseLapses, TypeOK
<1>3. ASSUME NEW s \in States, CooldownEnds(s) PROVE TypeOK'
  BY <1>3 DEF CooldownEnds, TypeOK
<1> QED BY <1>1, <1>2, <1>3

\* So do the commands that write the file without the lock.
LEMMA CommandKeepsType ==
  ASSUME TypeOK,
         \/ \E j \in Jobs, status \in ManualStatuses : update_status({j}, status)
         \/ \E force \in BOOLEAN : init_queue(force)
         \/ save_queue
  PROVE  TypeOK'
<1>1. ASSUME NEW q \in Queues, Unlocked(q),
             UNCHANGED <<queue, present, up, held, working, slow, cooled, faults>>
      PROVE  TypeOK'
  BY <1>1, QueueAssumption DEF Unlocked, TypeOK
<1>2. ASSUME NEW k \in Jobs, NEW status \in ManualStatuses, update_status({k}, status)
      PROVE  TypeOK'
  <2>1. [j \in Jobs |-> IF j \in {k} THEN [queue[j] EXCEPT !.status = status] ELSE queue[j]]
          \in Queues
    BY QueueAssumption DEF TypeOK, Queues
  <2> QED BY <1>1, <1>2, <2>1 DEF update_status
<1>3. ASSUME NEW force \in BOOLEAN, init_queue(force) PROVE TypeOK'
  <2>1. build_jobs \in Queues BY DEF build_jobs, Queues, Owners, Job, JOB_STATUSES
  <2>2. merge_existing_jobs(queue) \in Queues
    BY DEF merge_existing_jobs, TypeOK, Queues, Owners, Job
  <2> QED BY <1>1, <1>3, <2>1, <2>2 DEF init_queue
<1>4. CASE save_queue BY <1>4 DEF save_queue, TypeOK
<1> QED BY <1>2, <1>3, <1>4

\* Every step keeps to the types.
LEMMA NextKeepsType == ASSUME TypeOK, [Next]_vars PROVE TypeOK'
<1>1. CASE UNCHANGED vars BY <1>1 DEF vars, TypeOK
<1>2. ASSUME NEW r \in Runs, Crash(r) \/ Raises(r) PROVE TypeOK'
  BY <1>2, EndKeepsType DEF Crash, Raises
<1> QED
  BY <1>1, <1>2, ClaimKeepsType, EndKeepsType, StartKeepsType, TimeKeepsType,
     CommandKeepsType
  DEF Next

\* An empty queue keeps to the types.
LEMMA InitType == Init => TypeOK
<1> SUFFICES ASSUME Init PROVE TypeOK
  OBVIOUS
<1>1. queue \in Queues BY DEF Init, build_jobs, Queues, Owners, Job, JOB_STATUSES
<1>2. /\ held \in [Runs -> SUBSET Jobs]
      /\ \A r \in Runs : Cardinality(held[r]) <= Limit
  BY FS_EmptySet, QueueAssumption DEF Init
<1>3. present \in BOOLEAN /\ up \in BOOLEAN BY Zenon DEF Init
<1>4. /\ slow \subseteq working /\ working \subseteq Runs
      /\ cooled \subseteq Cooling /\ edit = NotEditing
  BY Zenon DEF Init
<1>5. edits \in 0..MaxEdits /\ faults \in 0..MaxFaults BY QueueAssumption DEF Init
<1> QED BY <1>1, <1>2, <1>3, <1>4, <1>5, Zenon DEF TypeOK

\* Every variable of the queue keeps to its set of values, and no run works on
\* more jobs than its limit.
THEOREM TypeCorrect == Spec => []TypeOK
BY InitType, NextKeepsType, PTL DEF Spec

-----------------------------------------------------------------------------
(* The queue under its lock.                                                 *)

\* The names of the three parts, together.
Parts == HeldIsClaimed /\ ClaimedIsOpen /\ ProductizationWaits

\* What a job's own steps leave of the parts: a job that is done stays done, a
\* claim of a run within its lease stays, and what becomes claimed or ready is
\* allowed to.
JobMoves(j) ==
  /\ queue[j].status \in Ready => queue'[j].status \in Ready
  /\ queue'[j].owner \in Runs => queue'[j].status \notin Ready
  /\ j \in Productization /\ (queue'[j].owner \in Runs \/ queue'[j].status = "ready_for_review")
       => state_prerequisites_ready(queue, StateOf[j])

\* If every job moves so, the last two parts stay.
LEMMA JobMovesSuffice ==
  ASSUME \A j \in Jobs : JobMoves(j)
  PROVE  ClaimedIsOpen' /\ ProductizationWaits'
<1>1. ClaimedIsOpen' BY DEF ClaimedIsOpen, JobMoves
<1>2. ASSUME NEW p \in Productization,
             queue'[p].owner \in Runs \/ queue'[p].status = "ready_for_review"
      PROVE  state_prerequisites_ready(queue', StateOf[p])
  <2>1. p \in Jobs BY QueueAssumption
  <2>2. state_prerequisites_ready(queue, StateOf[p]) BY <1>2, <2>1 DEF JobMoves
  <2> QED BY <2>2, PrerequisitesByStatus DEF JobMoves
<1> QED BY <1>1, <1>2 DEF ProductizationWaits

\* A run claims jobs that no run within its lease has.
LEMMA ClaimKeepsParts ==
  ASSUME TypeOK, Parts, NEW r \in Runs, NEW scope, NEW retry \in BOOLEAN, Claim(r, scope, retry)
  PROVE  Parts'
<1> DEFINE standing == clear_expired_claims(queue)
           taken == Claimable(standing, scope, retry)
<1>1. standing \in Queues BY ClearedFacts DEF TypeOK
<1>2. /\ taken \subseteq Eligible(standing, scope, retry)
      /\ \A j \in taken : ~is_claim_active(standing[j])
  BY <1>1, ClaimableFacts
<1>3. /\ held' = [held EXCEPT ![r] = taken]
      /\ queue' = [j \in Jobs |-> IF j \in taken THEN Job(standing[j].status, r, TRUE)
                                  ELSE standing[j]]
      /\ working' = working \cup {r} /\ r \notin working
      /\ UNCHANGED slow
  BY DEF Claim
<1>4. \A j \in Jobs : /\ standing[j].status = queue[j].status
                      /\ standing[j] = queue[j] \/ ~queue[j].live
                      /\ standing[j].owner = queue[j].owner \/ standing[j].owner = Nobody
  BY ClearedFacts DEF TypeOK, clear_expired_claims, Job
<1>5. \A j \in taken :
        /\ j \in Jobs /\ queue[j].status \in {"pending", "in_progress", "blocked"}
        /\ j \in Productization => state_prerequisites_ready(standing, StateOf[j])
  <2>1. \A j \in Eligible(standing, scope, retry) :
          /\ j \in Jobs /\ standing[j].status \in {"pending", "in_progress", "blocked"}
          /\ j \in Productization => state_prerequisites_ready(standing, StateOf[j])
    BY DEF Eligible
  <2> QED BY <1>2, <1>4, <2>1
<1>6. \A s : state_prerequisites_ready(standing, s) => state_prerequisites_ready(queue, s)
  BY <1>4, PrerequisitesByStatus
<1> HIDE DEF standing, taken
<1>7. HeldIsClaimed'
  <2> SUFFICES ASSUME NEW q \in working' \ slow', NEW j \in held'[q]
               PROVE  queue'[j].owner = q /\ queue'[j].live
    BY DEF HeldIsClaimed
  <2>1. CASE q = r BY <1>3, <1>5, <2>1 DEF Job, TypeOK
  <2>2. CASE q # r
    <3>1. q \in working \ slow /\ j \in held[q] /\ j \in Jobs /\ q \in Runs
      BY <1>3, <2>2 DEF TypeOK
    <3>2. queue[j].owner = q /\ queue[j].live BY <3>1 DEF Parts, HeldIsClaimed
    <3>3. standing[j] = queue[j] BY <1>4, <3>1, <3>2
    <3>4. j \notin taken
      BY <1>2, <3>1, <3>2, <3>3, QueueAssumption DEF is_claim_active
    <3> QED BY <1>3, <3>1, <3>2, <3>3, <3>4
  <2> QED BY <2>1, <2>2
<1>8. ASSUME NEW j \in Jobs PROVE JobMoves(j)
  <2>1. CASE j \in taken
    <3>1. queue'[j].status = queue[j].status BY <1>3, <1>4, <2>1 DEF Job
    <3> QED BY <1>5, <1>6, <2>1, <3>1 DEF JobMoves, Ready
  <2>2. CASE j \notin taken
    <3>1. queue'[j] = standing[j] BY <1>3, <2>2
    <3>2. Nobody \notin Runs BY QueueAssumption
    <3> QED
      BY <1>4, <3>1, <3>2 DEF JobMoves, Parts, ClaimedIsOpen, ProductizationWaits
  <2> QED BY <2>1, <2>2
<1> QED BY <1>7, <1>8, JobMovesSuffice DEF Parts

\* A run's end changes the jobs only that it still has.
LEMMA FinishKeepsParts ==
  ASSUME TypeOK, Parts, NEW r \in Runs, Finish(r)
  PROVE  Parts'
<1>1. PICK visit \in [held[r] -> Visits] :
        queue' = write_results(r, [j \in held[r] |-> next_status(j, visit[j])])
  BY DEF Finish
<1>2. \A j \in Jobs :
        /\ queue[j].owner # r => queue'[j] = queue[j]
        /\ queue[j].owner = r =>
             /\ queue'[j].owner = Nobody
             /\ queue'[j].status \in {queue[j].status, "ready_for_review", "in_progress", "blocked"}
  BY <1>1 DEF write_results, next_status, Job
<1>3. HeldIsClaimed'
  <2> SUFFICES ASSUME NEW q \in working' \ slow', NEW j \in held'[q]
               PROVE  queue'[j].owner = q /\ queue'[j].live
    BY DEF HeldIsClaimed
  <2>1. q # r /\ q \in working \ slow /\ j \in held[q] /\ j \in Jobs
    BY DEF Finish, TypeOK
  <2> QED BY <1>2, <2>1 DEF Parts, HeldIsClaimed
<1>4. ASSUME NEW j \in Jobs PROVE JobMoves(j)
  <2>1. Nobody \notin Runs BY QueueAssumption
  <2> QED BY <1>2, <2>1 DEF JobMoves, Parts, ClaimedIsOpen, ProductizationWaits
<1> QED BY <1>3, <1>4, JobMovesSuffice DEF Parts

\* What marks claims of one owner - a run that is killed, a lease that ends -
\* leaves those of the other runs, and every status.
LEMMA MarkingKeepsParts ==
  ASSUME TypeOK, Parts, NEW r \in Runs \cup {Past},
         queue' = Spent(queue, r) \/ queue' = Expired(queue, r),
         working' \ slow' \subseteq (working \ slow) \ {r},
         \A q \in working' \ slow' : held'[q] = held[q]
  PROVE  Parts'
<1>1. \A j \in Jobs :
        /\ queue'[j].status = queue[j].status
        /\ queue'[j].owner \in {queue[j].owner, Past, Nobody}
        /\ queue[j].owner # r => queue'[j] = queue[j]
  BY MarkedFacts DEF TypeOK
<1>2. HeldIsClaimed'
  <2> SUFFICES ASSUME NEW q \in working' \ slow', NEW j \in held'[q]
               PROVE  queue'[j].owner = q /\ queue'[j].live
    BY DEF HeldIsClaimed
  <2>1. q # r /\ q \in working \ slow /\ j \in held[q] /\ j \in Jobs BY DEF TypeOK
  <2> QED BY <1>1, <2>1 DEF Parts, HeldIsClaimed
<1>3. ASSUME NEW j \in Jobs PROVE JobMoves(j)
  <2>1. Past \notin Runs /\ Nobody \notin Runs BY QueueAssumption
  <2> QED BY <1>1, <2>1 DEF JobMoves, Parts, ClaimedIsOpen, ProductizationWaits
<1> QED BY <1>2, <1>3, JobMovesSuffice DEF Parts

\* The queue's invariant is kept.
LEMMA NextKeepsLocked ==
  ASSUME QueueInv, [Next]_vars, TypeOK'
  PROVE  QueueInv'
<1> SUFFICES ASSUME edits' = 0 PROVE edit' = NotEditing /\ Parts'
  BY DEF QueueInv, Locked, Parts
<1>1. ASSUME NEW q, Unlocked(q) PROVE FALSE BY <1>1 DEF Unlocked, QueueInv, TypeOK
<1>2. edits = 0
  BY <1>1 DEF Next, vars, Claim, Finish, LeaseLapses, Crash, Raises, Ends, StartDaemon,
              update_status, init_queue, save_queue, OldLeaseLapses, CooldownEnds
<1>3. TypeOK /\ edit = NotEditing /\ Parts BY <1>2 DEF QueueInv, Locked, Parts
<1>4. CASE UNCHANGED vars
  BY <1>3, <1>4
  DEF vars, Parts, HeldIsClaimed, ClaimedIsOpen, ProductizationWaits, state_prerequisites_ready
<1>5. ASSUME NEW r \in Runs, NEW scope \in States \cup {AnyState}, NEW retry \in BOOLEAN,
             Claim(r, scope, retry)
      PROVE  edit' = NotEditing /\ Parts'
  BY <1>3, <1>5, ClaimKeepsParts DEF Claim
<1>6. ASSUME NEW r \in Runs, Finish(r) PROVE edit' = NotEditing /\ Parts'
  BY <1>3, <1>6, FinishKeepsParts, NotEditingMarked DEF Finish
<1>7. ASSUME NEW r \in Runs, LeaseLapses(r) PROVE edit' = NotEditing /\ Parts'
  BY <1>3, <1>7, MarkingKeepsParts, NotEditingMarked DEF LeaseLapses
<1>8. ASSUME NEW r \in Runs, Crash(r) \/ Raises(r) PROVE edit' = NotEditing /\ Parts'
  BY <1>3, <1>8, MarkingKeepsParts, NotEditingMarked DEF Crash, Raises, Ends, TypeOK
<1>9. CASE OldLeaseLapses
  <2>1. Past \notin working BY <1>3, QueueAssumption DEF TypeOK
  <2> QED BY <1>3, <1>9, <2>1, MarkingKeepsParts, NotEditingMarked DEF OldLeaseLapses
<1>10. ASSUME NEW s \in States, CooldownEnds(s) PROVE edit' = NotEditing /\ Parts'
  BY <1>3, <1>10
  DEF CooldownEnds, Parts, HeldIsClaimed, ClaimedIsOpen, ProductizationWaits,
      state_prerequisites_ready
<1>11. ~save_queue BY <1>3 DEF save_queue
<1>12. CASE StartDaemon
  BY <1>3, <1>12
  DEF StartDaemon, Parts, HeldIsClaimed, ClaimedIsOpen, ProductizationWaits,
      state_prerequisites_ready
<1> QED
  BY <1>1, <1>4, <1>5, <1>6, <1>7, <1>8, <1>9, <1>10, <1>11, <1>12 DEF Next, update_status, init_queue

\* The queue's invariant holds in every behaviour.
LEMMA QueueCorrect == Spec => []QueueInv
<1>1. Init /\ TypeOK => QueueInv
  BY QueueAssumption
  DEF Init, QueueInv, Locked, HeldIsClaimed, ClaimedIsOpen, ProductizationWaits,
      build_jobs, Job, Ready
<1>2. QueueInv /\ [Next]_vars /\ TypeOK' => QueueInv' BY NextKeepsLocked
<1> QED BY <1>1, <1>2, TypeCorrect, PTL DEF Spec

\* Two runs within their leases never work on one job, in every behaviour.
THEOREM OneRunEach == Spec => []OneRunPerJob
<1>1. QueueInv => OneRunPerJob
  BY DEF QueueInv, Locked, HeldIsClaimed, OneRunPerJob
<1> QED BY <1>1, QueueCorrect, PTL

\* A state's productization is ready only while everything before it is, in
\* every behaviour.
THEOREM ProductizationComesLast == Spec => []ProductizationLast
<1>1. QueueInv => ProductizationLast
  BY DEF QueueInv, Locked, ProductizationWaits, ProductizationLast
<1> QED BY <1>1, QueueCorrect, PTL
=============================================================================
