----------------------------- MODULE IngestJobs -----------------------------
(***************************************************************************)
(* POST /v1/ingest/jobs and its cancel endpoint over two tables that share *)
(* no transaction: the ingest_jobs row and the queue's row of the same id. *)
(* An ingest job is named by the invocation that inserted it, and its      *)
(* dedupe key "ingest.run_job:{id}" by the id.  Nothing in the repository  *)
(* runs an ingest job; the workers are whoever uses JobQueueProvider.      *)
(***************************************************************************)
EXTENDS JobQueue

CONSTANTS
  IdempotencyKeys,  \* values of the idempotency-key header
  NoId,             \* no header, or no job
  Cancels,          \* POST .../cancel invocations
  MaxFaults         \* bound: failed queue calls and dropped handlers

ASSUME IngestAssumption ==
  /\ DedupeKeys = Jobs
  /\ NoId \notin IdempotencyKeys \cup Jobs
  /\ MaxFaults \in Nat

VARIABLES
  ingest,   \* ingest_jobs.status of each job, or "absent"
  stored,   \* the job stored under each idempotency key
  creator,  \* progress and locals of each create invocation
  cancel,   \* progress and locals of each cancel invocation
  faults    \* faults so far

ingestVars == <<ingest, stored, creator, cancel, faults>>
vars == <<queueVars, ingestVars>>

-----------------------------------------------------------------------------

CreatorStates ==
  [pc : {"idle", "enqueue", "mark", "accepted", "error"}, job : Jobs \cup {NoId}]
CancelStates ==
  [pc : {"idle", "dequeue", "mark", "done"}, job : Jobs \cup {NoId}]

IngestTypeOK ==
  /\ QueueTypeOK
  /\ ingest \in [Jobs -> {"absent", "pending", "failed", "cancelled"}]
  /\ stored \in [IdempotencyKeys -> Jobs \cup {NoId}]
  /\ creator \in [Jobs -> CreatorStates]
  /\ cancel \in [Cancels -> CancelStates]
  /\ faults \in 0 .. MaxFaults

Init ==
  /\ QueueInit
  /\ ingest = [j \in Jobs |-> "absent"]
  /\ stored = [k \in IdempotencyKeys |-> NoId]
  /\ creator = [c \in Jobs |-> [pc |-> "idle", job |-> NoId]]
  /\ cancel = [x \in Cancels |-> [pc |-> "idle", job |-> NoId]]
  /\ faults = 0

Fault == faults < MaxFaults /\ faults' = faults + 1

-----------------------------------------------------------------------------
(* create_ingest_job                                                       *)

Creating(c, pc, j) == creator' = [creator EXCEPT ![c] = [pc |-> pc, job |-> j]]

StoredUnder(k) == IF k \in IdempotencyKeys THEN stored[k] ELSE NoId

\* One transaction: the row, its items, an event and the idempotency row.
InsertIngestJob(c, k) ==
  /\ creator[c].pc = "idle"
  /\ StoredUnder(k) = NoId
  /\ ingest' = [ingest EXCEPT ![c] = "pending"]
  /\ stored' = [i \in IdempotencyKeys |-> IF i = k THEN c ELSE stored[i]]
  /\ Creating(c, "enqueue", c)
  /\ UNCHANGED <<queueVars, cancel, faults>>

\* The stored response is returned by storage; the handler goes on with it.
ReplayIngestJob(c, k) ==
  /\ creator[c].pc = "idle"
  /\ StoredUnder(k) # NoId
  /\ Creating(c, "enqueue", StoredUnder(k))
  /\ UNCHANGED <<queueVars, ingest, stored, cancel, faults>>

\* Variant: the handler answers when the ingest row is stored.
AnswerUnqueued(c) ==
  /\ creator[c].pc = "enqueue"
  /\ Creating(c, "accepted", creator[c].job)
  /\ UNCHANGED <<queueVars, ingest, stored, cancel, faults>>

\* The queue inserts the job, returns the live one, or refuses the id.
EnqueueIngestJob(c) ==
  LET j == creator[c].job
  IN  /\ creator[c].pc = "enqueue"
      /\ \/ EnqueueJob(j, j, TRUE) /\ Creating(c, "accepted", j)
         \/ /\ LiveUnderKey(j) # {}
            /\ Creating(c, "accepted", j)
            /\ UNCHANGED queueVars
         \/ /\ IdTaken(j, j)
            /\ Creating(c, "mark", j)
            /\ UNCHANGED queueVars
      /\ UNCHANGED <<ingest, stored, cancel, faults>>

EnqueueFails(c) ==
  /\ creator[c].pc = "enqueue"
  /\ Fault
  /\ Creating(c, "mark", creator[c].job)
  /\ UNCHANGED <<queueVars, ingest, stored, cancel>>

\* Any error of the queue, a taken id included, marks the ingest job failed,
\* whatever its status is by now; then the handler answers 500.
MarkFailed(c) ==
  /\ creator[c].pc = "mark"
  /\ ingest' = [ingest EXCEPT ![creator[c].job] = "failed"]
  /\ Creating(c, "error", creator[c].job)
  /\ UNCHANGED <<queueVars, stored, cancel, faults>>

DropCreator(c) ==
  /\ creator[c].pc \in {"enqueue", "mark"}
  /\ Fault
  /\ Creating(c, "error", creator[c].job)
  /\ UNCHANGED <<queueVars, ingest, stored, cancel>>

-----------------------------------------------------------------------------
(* cancel_ingest_job                                                       *)

Cancelling(x, pc, j) == cancel' = [cancel EXCEPT ![x] = [pc |-> pc, job |-> j]]

\* A client knows the ids it was answered with.
Known(j) == \E c \in Jobs : creator[c] = [pc |-> "accepted", job |-> j]

\* Read the status; a job that is not pending is left as it is.
ReadForCancel(x, j) ==
  /\ cancel[x].pc = "idle"
  /\ Known(j)
  /\ Cancelling(x, IF ingest[j] = "pending" THEN "dequeue" ELSE "done", j)
  /\ UNCHANGED <<queueVars, ingest, stored, creator, faults>>

\* Variant: the queue is left to find out by itself.
DequeueNothing(x) ==
  /\ cancel[x].pc = "dequeue"
  /\ Cancelling(x, "mark", cancel[x].job)
  /\ UNCHANGED <<queueVars, ingest, stored, creator, faults>>

\* Cancel the queue's row; its result, an error included, is ignored.
Dequeue(x) ==
  LET j == cancel[x].job
  IN  /\ cancel[x].pc = "dequeue"
      /\ \/ CancelJob(j) /\ UNCHANGED faults
         \/ ~IsLive(j) /\ UNCHANGED <<queueVars, faults>>
         \/ Fault /\ UNCHANGED queueVars
      /\ Cancelling(x, "mark", j)
      /\ UNCHANGED <<ingest, stored, creator>>

\* An unconditional update, with the counters read at the start.
MarkCancelled(x) ==
  /\ cancel[x].pc = "mark"
  /\ ingest' = [ingest EXCEPT ![cancel[x].job] = "cancelled"]
  /\ Cancelling(x, "done", cancel[x].job)
  /\ UNCHANGED <<queueVars, stored, creator, faults>>

DropCancel(x) ==
  /\ cancel[x].pc \in {"dequeue", "mark"}
  /\ Fault
  /\ Cancelling(x, "done", cancel[x].job)
  /\ UNCHANGED <<queueVars, ingest, stored, creator>>

-----------------------------------------------------------------------------

Create(c) ==
  \/ \E k \in IdempotencyKeys \cup {NoId} :
       InsertIngestJob(c, k) \/ ReplayIngestJob(c, k)
  \/ EnqueueIngestJob(c) \/ EnqueueFails(c) \/ MarkFailed(c) \/ DropCreator(c)

Cancel(x) ==
  \/ \E j \in Jobs : ReadForCancel(x, j)
  \/ Dequeue(x) \/ MarkCancelled(x) \/ DropCancel(x)

Next ==
  \/ \E c \in Jobs : Create(c)
  \/ \E x \in Cancels : Cancel(x)
  \/ WorkerStep /\ UNCHANGED ingestVars

Spec == Init /\ [][Next]_vars

-----------------------------------------------------------------------------

\* An ingest job that reads "cancelled" is not run any more: no retry of its
\* creation puts it back into the queue (as long as no queue call fails).
CancelledIsNotQueued ==
  faults = 0 => \A j \in Jobs : ingest[j] = "cancelled" => ~IsLive(j)

\* Who is told an ingest job exists can rely on its queue row existing too,
\* whichever of the two tables failed for which of the racing invocations.
AcceptedIsQueued ==
  \A c \in Jobs :
    creator[c].pc = "accepted" => job[creator[c].job].status # "absent"

=============================================================================
