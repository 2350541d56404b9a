------------------------------ MODULE EINQueue ------------------------------
(***************************************************************************)
(* From the state's approval to the EIN: the order row, its timeline, the  *)
(* customer's documents and ein_queue.json, a file that the API server and *)
(* two cron workers read, change and rewrite without a lock; a third       *)
(* worker publishes the confirmation letter once somebody captured it.     *)
(*                                                                         *)
(* A file is written at once and the tables later, with the commit, so a   *)
(* process that dies in between leaves the file only (the _lost actions).  *)
(***************************************************************************)
EXTENDS Naturals

CONSTANTS
  Orders,
  MaxCrashes   \* processes that die between a file and their commit

ASSUME EINAssumption == MaxCrashes \in Nat

VARIABLES
  order,     \* orders.status, as far as this lane reads it
  approved,  \* orders.approved_at, with the certificate on file
  ein,       \* orders.ein is set
  ssn,       \* the vaulted SSN: "none", "stored", or "linked" in formation_data
  letters,   \* confirmation letters in documents, each with its filing event
  captured,  \* a letter lies in the order's directory
  timeline,  \* status_updates of this lane
  queue,     \* ein_queue.json
  queuer,    \* the queue worker: its step and the SSN reference it selected
  ingest,    \* the ingest worker: the order status it selected, or "idle"
  irs,       \* the IRS worker: the file it loaded, or NoFile
  crashes

vars == <<order, approved, ein, ssn, letters, captured, timeline, queue,
          queuer, ingest, irs, crashes>>
tables == <<order, approved, ein, ssn, letters, timeline>>
workers == <<queuer, ingest, irs>>

LaneStatuses == {"state_approved", "ein_pending", "ein_queued", "ein_received"}
OrderStatuses == LaneStatuses \cup {"in_filing", "complete"}
Letters == {"captured", "uploaded"}
TimelineStatuses == {"ein_pending", "ein_ready_for_submission", "ein_received"}

\* What keeps the IRS assistant from the worker (irs_preflight).
PreflightBlocks == {"playwright_missing", "blocked_by_access_control", "irs_unavailable"}
QueueStatuses ==
  {"absent", "queued", "ready_for_submission", "ready_for_browser_submission",
   "blocked_outside_irs_hours", "ein_received"} \cup PreflightBlocks

\* The vault reference in the file: "missing" when it has no ss4_data.
Refs == {"missing", "empty", "vault", "redacted"}
File(s, r) == [status |-> s, ref |-> r]
NoFile == File("absent", "missing")
Files == [status : QueueStatuses, ref : Refs]

TypeOK ==
  /\ order \in [Orders -> OrderStatuses]
  /\ approved \in [Orders -> BOOLEAN]
  /\ ein \in [Orders -> BOOLEAN]
  /\ ssn \in [Orders -> {"none", "stored", "linked"}]
  /\ letters \in [Orders -> SUBSET Letters]
  /\ captured \in [Orders -> BOOLEAN]
  /\ timeline \in [Orders -> SUBSET TimelineStatuses]
  /\ queue \in [Orders -> Files]
  /\ queuer \in [Orders -> [step : {"idle", "selected", "checked", "written"},
                            ref : {"empty", "vault"}]]
  /\ ingest \in [Orders -> LaneStatuses \cup {"idle"}]
  /\ irs \in [Orders -> Files]
  /\ crashes \in 0..MaxCrashes

Resting == [step |-> "idle", ref |-> "empty"]

Init ==
  /\ order = [o \in Orders |-> "in_filing"]
  /\ approved = [o \in Orders |-> FALSE]
  /\ ein = [o \in Orders |-> FALSE]
  /\ ssn = [o \in Orders |-> "none"]
  /\ letters = [o \in Orders |-> {}]
  /\ captured = [o \in Orders |-> FALSE]
  /\ timeline = [o \in Orders |-> {}]
  /\ queue = [o \in Orders |-> NoFile]
  /\ queuer = [o \in Orders |-> Resting]
  /\ ingest = [o \in Orders |-> "idle"]
  /\ irs = [o \in Orders |-> NoFile]
  /\ crashes = 0

SetOrder(o, s) == order' = [order EXCEPT ![o] = s]
Tell(o, s) == timeline' = [timeline EXCEPT ![o] = @ \cup {s}]
WriteFile(o, f) == queue' = [queue EXCEPT ![o] = f]
HasFile(o) == queue[o] # NoFile

\* save_ein_queue: redact_sensitive blanks every key with "ssn" in its name,
\* and the vault reference is one.
save_ein_queue(o, status) ==
  WriteFile(o, File(status, IF queue[o].ref = "missing" THEN "missing" ELSE "redacted"))

\* A process dies after its write of the file: no table changes.
Dies ==
  /\ crashes < MaxCrashes
  /\ crashes' = crashes + 1
  /\ UNCHANGED tables

-----------------------------------------------------------------------------
(* What happens outside this lane.                                           *)

\* mark-approved, or a status worker, stores the certificate.
Approve(o) ==
  /\ SetOrder(o, "state_approved")
  /\ approved' = [approved EXCEPT ![o] = TRUE]
  /\ UNCHANGED <<ein, ssn, letters, captured, timeline, queue, workers, crashes>>

\* The operator's transitions after the approval.
Complete(o) ==
  /\ approved[o]
  /\ SetOrder(o, "complete")
  /\ UNCHANGED <<approved, ein, ssn, letters, captured, timeline, queue, workers, crashes>>

\* Somebody saves the IRS's letter to the order's directory.
Capture(o) ==
  /\ ~captured[o]
  /\ captured' = [captured EXCEPT ![o] = TRUE]
  /\ UNCHANGED <<tables, queue, workers, crashes>>

-----------------------------------------------------------------------------
(* The server.                                                               *)

\* The customer asks for the EIN; nothing is asked of the filing.
trigger_ein(o) ==
  /\ ~ein[o]
  /\ Tell(o, "ein_pending")
  /\ SetOrder(o, "ein_pending")
  /\ UNCHANGED <<approved, ein, ssn, letters, captured, queue, workers, crashes>>

SSNFile(o) ==
  IF HasFile(o) THEN WriteFile(o, File("ready_for_submission", "vault"))
  ELSE UNCHANGED queue

update_responsible_party_ssn(o) ==
  /\ SSNFile(o)
  /\ ssn' = [ssn EXCEPT ![o] = "linked"]
  /\ Tell(o, "ein_ready_for_submission")
  /\ SetOrder(o, IF order[o] \in LaneStatuses \ {"ein_received"}
                 THEN "ein_pending" ELSE order[o])
  /\ UNCHANGED <<approved, ein, letters, captured, workers, crashes>>

\* The value is in the vault, which commits on its own, and in the file.
update_responsible_party_ssn_lost(o) ==
  /\ crashes < MaxCrashes
  /\ crashes' = crashes + 1
  /\ SSNFile(o)
  /\ ssn' = [ssn EXCEPT ![o] = IF @ = "none" THEN "stored" ELSE @]
  /\ UNCHANGED <<order, approved, ein, letters, captured, timeline, workers>>

\* The file's reference, redacted or not, goes before the order's.
VaultId(o) ==
  IF queue[o].ref \in {"vault", "redacted"} THEN queue[o].ref
  ELSE IF ssn[o] = "linked" THEN "vault" ELSE "none"

\* Faulty: the reason stored as the item's status.
prepare_outside_raw(o) ==
  /\ VaultId(o) # "none"
  /\ save_ein_queue(o, "outside_irs_hours")
  /\ UNCHANGED <<tables, captured, workers, crashes>>

prepare_outside_irs_hours(o) ==
  /\ VaultId(o) # "none"
  /\ save_ein_queue(o, "blocked_outside_irs_hours")
  /\ UNCHANGED <<tables, captured, workers, crashes>>

prepare_admin_ein_submission(o) ==
  /\ VaultId(o) = "vault"
  /\ save_ein_queue(o, "ready_for_browser_submission")
  /\ Tell(o, "ein_ready_for_submission")
  /\ SetOrder(o, "ein_pending")
  /\ UNCHANGED <<approved, ein, ssn, letters, captured, workers, crashes>>

prepare_lost(o) ==
  /\ VaultId(o) = "vault"
  /\ save_ein_queue(o, "ready_for_browser_submission")
  /\ Dies
  /\ UNCHANGED <<captured, workers>>

\* Faulty: the status told, the letter left for the ingest worker.
complete_without_letter(o, letter, number) ==
  /\ letter = "captured" => captured[o]
  /\ Tell(o, "ein_received")
  /\ SetOrder(o, "ein_received")
  /\ ein' = [ein EXCEPT ![o] = @ \/ number]
  /\ save_ein_queue(o, "ein_received")
  /\ UNCHANGED <<approved, ssn, letters, captured, workers, crashes>>

\* The operator's completion; the EIN itself may be left blank.
complete_admin_ein_queue(o, letter, number) ==
  /\ letter = "captured" => captured[o]
  /\ letters' = [letters EXCEPT ![o] = @ \cup {letter}]
  /\ Tell(o, "ein_received")
  /\ SetOrder(o, "ein_received")
  /\ ein' = [ein EXCEPT ![o] = @ \/ number]
  /\ save_ein_queue(o, "ein_received")
  /\ UNCHANGED <<approved, ssn, captured, workers, crashes>>

complete_lost(o) ==
  /\ save_ein_queue(o, "ein_received")
  /\ Dies
  /\ UNCHANGED <<captured, workers>>

-----------------------------------------------------------------------------
(* The queue worker: select the approved orders, then check and write each.  *)

QueuerAt(o, from, to) ==
  /\ queuer[o].step = from
  /\ queuer' = [queuer EXCEPT ![o] = to]

queue_select(o) ==
  /\ order[o] = "state_approved" /\ approved[o] /\ ~ein[o]
  /\ QueuerAt(o, "idle",
       [step |-> "selected", ref |-> IF ssn[o] = "linked" THEN "vault" ELSE "empty"])
  /\ UNCHANGED <<tables, captured, queue, ingest, irs, crashes>>

already_queued(o) ==
  HasFile(o) \/ timeline[o] \cap {"ein_pending", "ein_received"} # {}

queue_check(o) ==
  /\ QueuerAt(o, "selected",
       IF already_queued(o) THEN Resting ELSE [queuer[o] EXCEPT !.step = "checked"])
  /\ UNCHANGED <<tables, captured, queue, ingest, irs, crashes>>

\* Faulty: an item queued as if its SSN were there.
write_ein_queue_ready(o) ==
  /\ QueuerAt(o, "checked", [queuer[o] EXCEPT !.step = "written"])
  /\ WriteFile(o, File("ready_for_submission", queuer[o].ref))
  /\ UNCHANGED <<tables, captured, ingest, irs, crashes>>

write_ein_queue(o) ==
  /\ QueuerAt(o, "checked", [queuer[o] EXCEPT !.step = "written"])
  /\ WriteFile(o, File("queued", queuer[o].ref))
  /\ UNCHANGED <<tables, captured, ingest, irs, crashes>>

\* The timeline and the event; the order's status stays state_approved.
queue_commit(o) ==
  /\ QueuerAt(o, "written", Resting)
  /\ Tell(o, "ein_pending")
  /\ UNCHANGED <<order, approved, ein, ssn, letters, captured, queue, ingest, irs, crashes>>

queue_lost(o) ==
  /\ QueuerAt(o, "written", Resting)
  /\ Dies
  /\ UNCHANGED <<captured, queue, ingest, irs>>

-----------------------------------------------------------------------------
(* The ingest worker: the letter, the timeline and the order in one commit.  *)

ingest_select(o) ==
  /\ ingest[o] = "idle"
  /\ order[o] \in LaneStatuses /\ approved[o]
  /\ captured[o]
  /\ ingest' = [ingest EXCEPT ![o] = order[o]]
  /\ UNCHANGED <<tables, captured, queue, queuer, irs, crashes>>

\* Faulty: the captured letter is told of but not added to the documents.
ingest_untold(o) ==
  /\ ingest[o] # "idle"
  /\ ingest' = [ingest EXCEPT ![o] = "idle"]
  /\ letters' = letters
  /\ UNCHANGED <<order, approved, ein, ssn, timeline, captured, queue, queuer, irs, crashes>>

\* What it selected is never complete, so a change always sets the status.
ingest_order(o) ==
  /\ ingest[o] # "idle"
  /\ ingest' = [ingest EXCEPT ![o] = "idle"]
  /\ LET changes == "captured" \notin letters[o] \/ "ein_received" \notin timeline[o]
     IN  /\ letters' = [letters EXCEPT ![o] = @ \cup {"captured"}]
         /\ Tell(o, "ein_received")
         /\ SetOrder(o, IF changes THEN "ein_received" ELSE order[o])
  /\ UNCHANGED <<approved, ein, ssn, captured, queue, queuer, irs, crashes>>

-----------------------------------------------------------------------------
(* The IRS worker: one preflight per run, then load and rewrite each file.   *)

load_queue(o) ==
  /\ irs[o] = NoFile
  /\ queue[o].status = "ready_for_submission"
  /\ irs' = [irs EXCEPT ![o] = queue[o]]
  /\ UNCHANGED <<tables, captured, queue, queuer, ingest, crashes>>

\* Available: only times are noted.  Otherwise the item is blocked.
save_queue(o) ==
  /\ irs[o] # NoFile
  /\ irs' = [irs EXCEPT ![o] = NoFile]
  /\ \E s \in PreflightBlocks \cup {irs[o].status} : WriteFile(o, File(s, irs[o].ref))
  /\ UNCHANGED <<tables, captured, queuer, ingest, crashes>>

-----------------------------------------------------------------------------
ServerStep(o) ==
  \/ trigger_ein(o)
  \/ update_responsible_party_ssn(o)
  \/ update_responsible_party_ssn_lost(o)
  \/ prepare_outside_irs_hours(o)
  \/ prepare_admin_ein_submission(o)
  \/ prepare_lost(o)
  \/ \E l \in Letters, n \in BOOLEAN : complete_admin_ein_queue(o, l, n)
  \/ complete_lost(o)

QueueWorker(o) ==
  \/ queue_select(o) \/ queue_check(o) \/ write_ein_queue(o) \/ queue_commit(o)

IngestWorker(o) == ingest_select(o) \/ ingest_order(o)

IrsWorker(o) == load_queue(o) \/ save_queue(o)

Next ==
  \E o \in Orders :
    \/ Approve(o) \/ Complete(o) \/ Capture(o)
    \/ ServerStep(o)
    \/ QueueWorker(o) \/ queue_lost(o)
    \/ IngestWorker(o)
    \/ IrsWorker(o)

Spec == Init /\ [][Next]_vars

\* cron starts both workers every fifteen minutes, and each comes to the end
\* of what it selected.
Fairness == \A o \in Orders : WF_vars(QueueWorker(o)) /\ WF_vars(IngestWorker(o))

FairSpec == Spec /\ Fairness

-----------------------------------------------------------------------------
(* Properties.                                                               *)

\* "Mark ein_received only after the official confirmation document is saved
\* to the customer portal" (docs/ein_automation_program.md): whoever wrote the
\* EIN, the status or the timeline, the letter is among the documents.
ReceivedHasLetter ==
  \A o \in Orders :
    ein[o] \/ order[o] = "ein_received" \/ "ein_received" \in timeline[o]
      => letters[o] # {}

\* "Submit only when full responsible-party SSN/ITIN has been collected": an
\* item is ready for the IRS only with a value in the vault, whichever of the
\* writers of the file came last and whatever a restart rolled back.
ReadyHasSSN ==
  \A o \in Orders :
    queue[o].status \in {"ready_for_submission", "ready_for_browser_submission"}
                          \cup PreflightBlocks
      => ssn[o] # "none"

\* A captured letter reaches the customer as long as the order is in the lane,
\* although the worker acts on orders it selected earlier.
CapturedIsPublished ==
  \A o \in Orders :
    captured[o] /\ approved[o] ~> "captured" \in letters[o] \/ order[o] \notin LaneStatuses

\* "Once a state filing has approval evidence and the order is marked
\* state_approved, queue the EIN application" (docs/cron_jobs.md).
ApprovedIsQueued ==
  \A o \in Orders :
    order[o] = "state_approved" ~> HasFile(o) \/ ein[o] \/ letters[o] # {}
=============================================================================
