--------------------------- MODULE IngestJobsProofs ---------------------------
(***************************************************************************)
(* Theorems about ingest jobs, for any creates, cancels, workers, attempts *)
(* and faults: what the two tables say of one job agrees, although no      *)
(* transaction covers both.  Every step leaves the queue alone or is one   *)
(* of its own, so the invariant of the queue is here one, too.             *)
(***************************************************************************)
EXTENDS IngestJobs, JobQueueProofs

-----------------------------------------------------------------------------

\* The queue's row is there, and is settled.
Queued(j) == job[j].status # "absent"
Settled(j) == job[j].status \in SettledStates

\* The dedupe key of an ingest job is its own id.
OwnKeys == \A j \in Jobs : Queued(j) => job[j].key = j

\* Handlers that started know a job; what they may rely on is queued.
HandlersKnow ==
  /\ \A c \in Jobs : creator[c].pc # "idle" => creator[c].job \in Jobs
  /\ \A c \in Jobs : creator[c].pc = "accepted" => Queued(creator[c].job)
  /\ \A x \in Cancels : cancel[x].pc # "idle" => cancel[x].job \in Jobs
  /\ \A x \in Cancels : cancel[x].pc \in {"dequeue", "mark"} => Queued(cancel[x].job)

\* Without faults, a job is settled in the queue before it is marked.
CancelSettles ==
  faults = 0 =>
    /\ \A x \in Cancels : cancel[x].pc = "mark" => Settled(cancel[x].job)
    /\ \A j \in Jobs : ingest[j] = "cancelled" => Settled(j)

IngestInv ==
  /\ QInv
  /\ IngestTypeOK
  /\ OwnKeys
  /\ HandlersKnow
  /\ CancelSettles

-----------------------------------------------------------------------------
(* Steps                                                                   *)

\* Every step is one of the queue, or leaves it alone.
LEMMA QueueSteps == HandlersKnow /\ [Next]_vars => [QueueNext]_queueVars
<1> SUFFICES ASSUME HandlersKnow, [Next]_vars PROVE QueueNext \/ UNCHANGED queueVars
  OBVIOUS
<1>1. ASSUME NEW c \in Jobs, Create(c) PROVE QueueNext \/ UNCHANGED queueVars
  <2>1. CASE EnqueueIngestJob(c)
    <3>1. creator[c].job \in Jobs
      BY <2>1 DEF EnqueueIngestJob, HandlersKnow
    <3>2. CASE EnqueueJob(creator[c].job, creator[c].job, TRUE)
      BY <3>1, <3>2, IngestAssumption DEF QueueNext, Enqueue
    <3> QED BY <2>1, <3>2 DEF EnqueueIngestJob
  <2>2. CASE \E k \in IdempotencyKeys \cup {NoId} :
               InsertIngestJob(c, k) \/ ReplayIngestJob(c, k)
    BY <2>2 DEF InsertIngestJob, ReplayIngestJob, queueVars
  <2>3. CASE EnqueueFails(c) \/ MarkFailed(c) \/ DropCreator(c)
    BY <2>3 DEF EnqueueFails, MarkFailed, DropCreator, queueVars
  <2> QED BY <1>1, <2>1, <2>2, <2>3 DEF Create
<1>2. ASSUME NEW x \in Cancels, Cancel(x) PROVE QueueNext \/ UNCHANGED queueVars
  <2>1. CASE Dequeue(x)
    <3>1. cancel[x].job \in Jobs
      BY <2>1 DEF Dequeue, HandlersKnow
    <3>2. CASE CancelJob(cancel[x].job)
      BY <3>1, <3>2 DEF QueueNext
    <3> QED BY <2>1, <3>2 DEF Dequeue, queueVars
  <2>2. CASE (\E j \in Jobs : ReadForCancel(x, j)) \/ MarkCancelled(x) \/ DropCancel(x)
    BY <2>2 DEF ReadForCancel, MarkCancelled, DropCancel, queueVars
  <2> QED BY <1>2, <2>1, <2>2 DEF Cancel
<1>3. CASE WorkerStep
  BY <1>3 DEF QueueNext
<1>4. CASE UNCHANGED vars
  BY <1>4 DEF vars
<1> QED BY <1>1, <1>2, <1>3, <1>4 DEF Next

\* A row that is there stays, under its key, and a settled one is final.
LEMMA QueuedStays ==
  ASSUME QInv, [QueueNext]_queueVars, NEW j \in Jobs
  PROVE  /\ Queued(j) => Queued(j)' /\ job'[j].key = job[j].key
         /\ Settled(j) => Settled(j)'
<1>1. job[j] \in JobRows /\ QueueTypeOK
  BY DEF QInv, QueueTypeOK
<1>2. CASE Settled(j)
  <2>1. ~Inserted(j) /\ ~MadeDue(j) /\ ~Leased(j) /\ ~Ended(j) /\ ~Failed(j)
    BY <1>2 DEF Settled, Inserted, MadeDue, Leased, Ended, Failed, IsLive, LiveStates,
                SettledStates
  <2> QED BY <1>1, <1>2, <2>1, StepOfJob DEF Untouched, Settled, Queued
<1>3. CASE Queued(j) /\ ~Settled(j)
  <2>1. ~Inserted(j)
    BY <1>3 DEF Inserted, Queued
  <2>2. CASE Untouched(j)
    BY <1>3, <2>2 DEF Untouched, Queued, Settled
  <2>3. CASE MadeDue(j)
    BY <1>1, <1>3, <2>3 DEF MadeDue, Queued, Settled, JobRows
  <2>4. CASE Leased(j)
    BY <1>1, <1>3, <2>4 DEF Leased, Queued, Settled, JobRows
  <2>5. CASE Ended(j)
    BY <1>1, <1>3, <2>5 DEF Ended, Queued, Settled, JobRows
  <2>6. CASE Failed(j)
    BY <1>1, <1>3, <2>6 DEF Failed, Queued, Settled, JobRows
  <2> QED BY <1>1, <2>1, <2>2, <2>3, <2>4, <2>5, <2>6, StepOfJob
<1>4. CASE ~Queued(j)
  BY <1>4 DEF Queued, Settled, SettledStates
<1> QED BY <1>2, <1>3, <1>4

\* Only an enqueue makes a row appear.
LEMMA NothingAppears ==
  ASSUME QueueTypeOK, NEW j \in Jobs, job[j].status = "absent",
         WorkerStep \/ (\E i \in Jobs : CancelJob(i)) \/ UNCHANGED queueVars
  PROVE  ~Queued(j)'
<1>1. ASSUME NEW i \in Jobs, BecomeDue(i) PROVE ~Queued(j)'
  BY <1>1 DEF BecomeDue, Queued, QueueTypeOK
<1>2. ASSUME NEW w \in Workers, NEW asked \in Filters, LeaseJobs(w, asked) PROVE ~Queued(j)'
  BY <1>2 DEF LeaseJobs, Batch, Ready, Queued, QueueTypeOK
<1>3. ASSUME NEW w \in Workers, NEW t \in tickets[w], AckJob(w, t) PROVE ~Queued(j)'
  BY <1>3 DEF AckJob, Current, Queued, QueueTypeOK
<1>4. ASSUME NEW w \in Workers, NEW t \in tickets[w], NEW due \in BOOLEAN, FailJob(w, t, due)
      PROVE  ~Queued(j)'
  <2>1. t.job # j
    BY <1>4 DEF FailJob, Current
  <2> QED BY <1>4, <2>1 DEF FailJob, Queued, QueueTypeOK
<1>5. ASSUME NEW w \in Workers, CrashWorker(w) PROVE ~Queued(j)'
  BY <1>5 DEF CrashWorker, Queued
<1>6. ASSUME NEW i \in Jobs, CancelJob(i) PROVE ~Queued(j)'
  BY <1>6 DEF CancelJob, IsLive, LiveStates, Queued, QueueTypeOK
<1>7. CASE UNCHANGED queueVars
  BY <1>7 DEF queueVars, Queued
<1> QED BY <1>1, <1>2, <1>3, <1>4, <1>5, <1>6, <1>7 DEF WorkerStep, Lease, Settle

\* A live row under an own key is the row of that id.
LEMMA LiveIsOwn ==
  ASSUME OwnKeys, NEW j \in Jobs, LiveUnderKey(j) # {}
  PROVE  Queued(j)
BY DEF LiveUnderKey, OwnKeys, IsLive, LiveStates, Queued

-----------------------------------------------------------------------------
(* The invariant                                                           *)

\* A create invocation goes to its next place with its job.
LEMMA CreatingFields ==
  ASSUME creator \in [Jobs -> CreatorStates], NEW c \in Jobs, NEW j \in Jobs,
         NEW pc \in {"enqueue", "mark", "accepted", "error"}, Creating(c, pc, j)
  PROVE  /\ creator' \in [Jobs -> CreatorStates]
         /\ creator'[c] = [pc |-> pc, job |-> j]
         /\ \A d \in Jobs \ {c} : creator'[d] = creator[d]
BY DEF Creating, CreatorStates

\* And so does a cancel invocation.
LEMMA CancellingFields ==
  ASSUME cancel \in [Cancels -> CancelStates], NEW x \in Cancels, NEW j \in Jobs,
         NEW pc \in {"dequeue", "mark", "done"}, Cancelling(x, pc, j)
  PROVE  /\ cancel' \in [Cancels -> CancelStates]
         /\ cancel'[x] = [pc |-> pc, job |-> j]
         /\ \A y \in Cancels \ {x} : cancel'[y] = cancel[y]
BY DEF Cancelling, CancelStates

\* Every step keeps the invariant.
LEMMA IngestStays == IngestInv /\ [Next]_vars => IngestInv'
<1> SUFFICES ASSUME IngestInv, [Next]_vars PROVE IngestInv'
  OBVIOUS
<1>0. /\ QInv' /\ QueueTypeOK /\ QueueTypeOK' /\ OwnKeys /\ CancelSettles
      /\ ingest \in [Jobs -> {"absent", "pending", "failed", "cancelled"}]
      /\ stored \in [IdempotencyKeys -> Jobs \cup {NoId}]
      /\ creator \in [Jobs -> CreatorStates]
      /\ cancel \in [Cancels -> CancelStates]
      /\ faults \in 0 .. MaxFaults
  <2>1. QInv /\ HandlersKnow /\ IngestTypeOK /\ OwnKeys /\ CancelSettles
    BY DEF IngestInv
  <2>2. [QueueNext]_queueVars
    BY <2>1, QueueSteps
  <2>3. QInv'
    BY <2>1, <2>2, TypeStays, AbsentStays, EpochsStay, FailuresStay DEF QInv
  <2> QED BY <2>1, <2>3 DEF QInv, IngestTypeOK
<1>1. /\ \A c \in Jobs : creator[c].pc # "idle" => creator[c].job \in Jobs
      /\ \A c \in Jobs : creator[c].pc = "accepted" => Queued(creator[c].job)
      /\ \A x \in Cancels : cancel[x].pc # "idle" => cancel[x].job \in Jobs
      /\ \A x \in Cancels : cancel[x].pc \in {"dequeue", "mark"} => Queued(cancel[x].job)
  BY DEF IngestInv, HandlersKnow
<1>2. \A j \in Jobs : /\ Queued(j) => Queued(j)' /\ job'[j].key = job[j].key
                      /\ Settled(j) => Settled(j)'
  BY QueueSteps, QueuedStays DEF IngestInv
\* Rows do not appear, and faults are counted.
<1>3. ASSUME WorkerStep \/ (\E i \in Jobs : CancelJob(i)) \/ UNCHANGED queueVars
      PROVE  OwnKeys'
  BY <1>0, <1>2, <1>3, NothingAppears DEF OwnKeys, Queued
<1>4. ASSUME Fault PROVE faults' \in 0 .. MaxFaults /\ faults' # 0
  BY <1>0, <1>4, IngestAssumption DEF Fault
\* A step of one create invocation.
<1>5. ASSUME NEW c \in Jobs, NEW j \in Jobs,
             NEW pc \in {"enqueue", "mark", "accepted", "error"}, Creating(c, pc, j),
             pc = "accepted" => Queued(j)', OwnKeys',
             stored' \in [IdempotencyKeys -> Jobs \cup {NoId}],
             faults' = faults \/ (faults' \in 0 .. MaxFaults /\ faults' # 0),
             ingest' \in [Jobs -> {"absent", "pending", "failed", "cancelled"}],
             \A i \in Jobs : ingest'[i] = "cancelled" => ingest[i] = "cancelled",
             cancel' = cancel
      PROVE  IngestInv'
  <2>1. /\ creator' \in [Jobs -> CreatorStates]
        /\ creator'[c] = [pc |-> pc, job |-> j]
        /\ \A d \in Jobs \ {c} : creator'[d] = creator[d]
    BY <1>0, <1>5, CreatingFields
  <2>2. IngestTypeOK'
    BY <1>0, <1>5, <2>1 DEF IngestTypeOK
  <2>3. \A d \in Jobs : creator'[d].pc # "idle" => creator'[d].job \in Jobs
    BY <1>1, <2>1
  <2>4. HandlersKnow'
    <3>1. ASSUME NEW d \in Jobs, creator'[d].pc = "accepted"
          PROVE  job'[creator'[d].job].status # "absent"
      <4>1. CASE d = c
        BY <1>5, <2>1, <3>1, <4>1 DEF Queued
      <4>2. CASE d # c
        BY <1>1, <1>2, <2>1, <3>1, <4>2 DEF Queued
      <4> QED BY <4>1, <4>2
    <3>2. ASSUME NEW x \in Cancels, cancel'[x].pc \in {"dequeue", "mark"}
          PROVE  job'[cancel'[x].job].status # "absent"
      BY <1>1, <1>2, <1>5, <3>2 DEF Queued
    <3> QED BY <1>1, <1>5, <2>3, <3>1, <3>2 DEF HandlersKnow, Queued
  <2>5. CancelSettles'
    <3>1. ASSUME faults' = 0, NEW x \in Cancels, cancel'[x].pc = "mark"
          PROVE  job'[cancel'[x].job].status \in SettledStates
      BY <1>0, <1>1, <1>2, <1>5, <3>1 DEF CancelSettles, Settled
    <3>2. ASSUME faults' = 0, NEW i \in Jobs, ingest'[i] = "cancelled"
          PROVE  Settled(i)'
      BY <1>0, <1>2, <1>5, <3>2 DEF CancelSettles
    <3> QED BY <3>1, <3>2 DEF CancelSettles, Settled
  <2> QED BY <1>0, <1>5, <2>2, <2>4, <2>5 DEF IngestInv
\* A step of one cancel invocation.
<1>6. ASSUME NEW x \in Cancels, NEW j \in Jobs, NEW pc \in {"dequeue", "mark", "done"},
             Cancelling(x, pc, j), Queued(j), OwnKeys',
             faults' = faults \/ (faults' \in 0 .. MaxFaults /\ faults' # 0),
             pc = "mark" /\ faults' = 0 => Settled(j)',
             ingest' \in [Jobs -> {"absent", "pending", "failed", "cancelled"}],
             \A i \in Jobs : ingest'[i] = "cancelled" =>
               ingest[i] = "cancelled" \/ (faults' = 0 => Settled(i)'),
             UNCHANGED <<stored, creator>>
      PROVE  IngestInv'
  <2>1. /\ cancel' \in [Cancels -> CancelStates]
        /\ cancel'[x] = [pc |-> pc, job |-> j]
        /\ \A y \in Cancels \ {x} : cancel'[y] = cancel[y]
    BY <1>0, <1>6, CancellingFields
  <2>2. IngestTypeOK'
    BY <1>0, <1>6, <2>1 DEF IngestTypeOK
  <2>3. HandlersKnow'
    <3>1. ASSUME NEW c \in Jobs, creator'[c].pc = "accepted"
          PROVE  job'[creator'[c].job].status # "absent"
      BY <1>1, <1>2, <1>6, <3>1 DEF Queued
    <3>2. ASSUME NEW y \in Cancels, cancel'[y].pc \in {"dequeue", "mark"}
          PROVE  job'[cancel'[y].job].status # "absent"
      <4>1. CASE y = x
        BY <1>2, <1>6, <2>1, <3>2, <4>1 DEF Queued
      <4>2. CASE y # x
        BY <1>1, <1>2, <2>1, <3>2, <4>2 DEF Queued
      <4> QED BY <4>1, <4>2
    <3> QED BY <1>1, <1>6, <2>1, <3>1, <3>2 DEF HandlersKnow, Queued
  <2>4. CancelSettles'
    <3>1. ASSUME faults' = 0, NEW y \in Cancels, cancel'[y].pc = "mark"
          PROVE  job'[cancel'[y].job].status \in SettledStates
      <4>1. CASE y = x
        BY <1>6, <2>1, <3>1, <4>1 DEF Settled
      <4>2. CASE y # x
        BY <1>0, <1>1, <1>2, <1>6, <2>1, <3>1, <4>2 DEF CancelSettles, Settled
      <4> QED BY <4>1, <4>2
    <3>2. ASSUME faults' = 0, NEW i \in Jobs, ingest'[i] = "cancelled"
          PROVE  Settled(i)'
      BY <1>0, <1>2, <1>6, <3>2 DEF CancelSettles
    <3> QED BY <3>1, <3>2 DEF CancelSettles, Settled
  <2> QED BY <1>0, <1>6, <2>2, <2>3, <2>4 DEF IngestInv
<1>7. ASSUME NEW c \in Jobs, NEW k \in IdempotencyKeys \cup {NoId}, InsertIngestJob(c, k)
      PROVE  IngestInv'
  <2>1. /\ stored' \in [IdempotencyKeys -> Jobs \cup {NoId}]
        /\ ingest' \in [Jobs -> {"absent", "pending", "failed", "cancelled"}]
        /\ \A i \in Jobs : ingest'[i] = "cancelled" => ingest[i] = "cancelled"
    BY <1>0, <1>7 DEF InsertIngestJob
  <2> QED BY <1>3, <1>5, <1>7, <2>1 DEF InsertIngestJob
<1>8. ASSUME NEW c \in Jobs, NEW k \in IdempotencyKeys \cup {NoId}, ReplayIngestJob(c, k)
      PROVE  IngestInv'
  <2>1. StoredUnder(k) \in Jobs
    BY <1>0, <1>8 DEF ReplayIngestJob, StoredUnder
  <2> QED BY <1>0, <1>3, <1>5, <1>8, <2>1 DEF ReplayIngestJob
<1>9. ASSUME NEW c \in Jobs, EnqueueIngestJob(c) PROVE IngestInv'
  <2>1. PICK j \in Jobs : j = creator[c].job
    BY <1>1, <1>9 DEF EnqueueIngestJob
  <2>2. UNCHANGED <<ingest, stored, cancel, faults>>
    BY <1>9 DEF EnqueueIngestJob
  <2>3. CASE EnqueueJob(j, j, TRUE) /\ Creating(c, "accepted", j)
    <3>1. /\ job'[j].status = "pending" /\ job'[j].key = j
          /\ \A i \in Jobs \ {j} : job'[i] = job[i]
      BY <1>0, <2>3 DEF EnqueueJob, InsertJob, NoJob, QueueTypeOK
    <3>2. Queued(j)' /\ OwnKeys'
      BY <1>0, <3>1 DEF Queued, OwnKeys
    <3> QED BY <1>0, <1>5, <2>2, <2>3, <3>2
  <2>4. CASE LiveUnderKey(j) # {} /\ Creating(c, "accepted", j) /\ UNCHANGED queueVars
    <3>1. Queued(j)' /\ OwnKeys'
      BY <1>0, <1>2, <1>3, <2>4, LiveIsOwn
    <3> QED BY <1>0, <1>5, <2>2, <2>4, <3>1
  <2>5. CASE Creating(c, "mark", j) /\ UNCHANGED queueVars
    BY <1>0, <1>3, <1>5, <2>2, <2>5
  <2> QED BY <1>9, <2>1, <2>3, <2>4, <2>5 DEF EnqueueIngestJob
<1>10. ASSUME NEW c \in Jobs, EnqueueFails(c) \/ DropCreator(c) PROVE IngestInv'
  <2>1. PICK j \in Jobs, pc \in {"mark", "error"} : Creating(c, pc, j)
    BY <1>1, <1>10 DEF EnqueueFails, DropCreator
  <2>2. Fault /\ UNCHANGED <<queueVars, ingest, stored, cancel>>
    BY <1>10 DEF EnqueueFails, DropCreator
  <2> QED BY <1>0, <1>3, <1>4, <1>5, <2>1, <2>2
<1>11. ASSUME NEW c \in Jobs, MarkFailed(c) PROVE IngestInv'
  <2>1. creator[c].job \in Jobs
    BY <1>1, <1>11 DEF MarkFailed
  <2>2. PICK j \in Jobs : j = creator[c].job
    BY <2>1
  <2>3. /\ ingest' = [ingest EXCEPT ![j] = "failed"] /\ Creating(c, "error", j)
        /\ UNCHANGED <<queueVars, stored, cancel, faults>>
    BY <1>11, <2>2 DEF MarkFailed
  <2>4. /\ ingest' \in [Jobs -> {"absent", "pending", "failed", "cancelled"}]
        /\ \A i \in Jobs : ingest'[i] = "cancelled" => ingest[i] = "cancelled"
    BY <1>0, <2>3
  <2> QED BY <1>0, <1>3, <1>5, <2>3, <2>4
<1>12. ASSUME NEW x \in Cancels, NEW j \in Jobs, ReadForCancel(x, j) PROVE IngestInv'
  <2>1. Queued(j)
    BY <1>1, <1>12 DEF ReadForCancel, Known
  <2>2. PICK pc \in {"dequeue", "done"} : Cancelling(x, pc, j)
    BY <1>12 DEF ReadForCancel
  <2>3. UNCHANGED <<queueVars, ingest, stored, creator, faults>>
    BY <1>12 DEF ReadForCancel
  <2> QED BY <1>0, <1>3, <1>6, <2>1, <2>2, <2>3
<1>13. ASSUME NEW x \in Cancels, Dequeue(x) PROVE IngestInv'
  <2>1. PICK j \in Jobs : j = cancel[x].job
    BY <1>1, <1>13 DEF Dequeue
  <2>2. Queued(j) /\ Cancelling(x, "mark", j) /\ UNCHANGED <<ingest, stored, creator>>
    BY <1>1, <1>13, <2>1 DEF Dequeue
  <2>3. CASE CancelJob(j) /\ UNCHANGED faults
    <3>1. Settled(j)'
      BY <1>0, <2>3 DEF CancelJob, QueueTypeOK, JobRows, Settled, SettledStates
    <3> QED BY <1>0, <1>3, <1>6, <2>2, <2>3, <3>1
  <2>4. CASE ~IsLive(j) /\ UNCHANGED <<queueVars, faults>>
    <3>1. Settled(j)
      BY <1>0, <2>2, <2>4 DEF QueueTypeOK, JobRows, IsLive, Queued, Settled
    <3> QED BY <1>0, <1>2, <1>3, <1>6, <2>2, <2>4, <3>1
  <2>5. CASE Fault /\ UNCHANGED queueVars
    BY <1>0, <1>3, <1>4, <1>6, <2>2, <2>5
  <2> QED BY <1>13, <2>1, <2>3, <2>4, <2>5 DEF Dequeue
<1>14. ASSUME NEW x \in Cancels, MarkCancelled(x) PROVE IngestInv'
  <2>1. PICK j \in Jobs : j = cancel[x].job
    BY <1>1, <1>14 DEF MarkCancelled
  <2>2. /\ Queued(j) /\ Cancelling(x, "done", j) /\ cancel[x].pc = "mark"
        /\ ingest' = [ingest EXCEPT ![j] = "cancelled"]
        /\ UNCHANGED <<queueVars, stored, creator, faults>>
    BY <1>1, <1>14, <2>1 DEF MarkCancelled
  <2>3. faults' = 0 => Settled(j)'
    BY <1>0, <1>2, <2>1, <2>2 DEF CancelSettles
  <2>4. /\ ingest' \in [Jobs -> {"absent", "pending", "failed", "cancelled"}]
        /\ \A i \in Jobs : ingest'[i] = "cancelled" =>
             ingest[i] = "cancelled" \/ (faults' = 0 => Settled(i)')
    BY <1>0, <2>2, <2>3
  <2> QED BY <1>0, <1>3, <1>6, <2>2, <2>3, <2>4
<1>15. ASSUME NEW x \in Cancels, DropCancel(x) PROVE IngestInv'
  <2>1. PICK j \in Jobs : j = cancel[x].job
    BY <1>1, <1>15 DEF DropCancel
  <2>2. /\ Queued(j) /\ Cancelling(x, "done", j) /\ Fault
        /\ UNCHANGED <<queueVars, ingest, stored, creator>>
    BY <1>1, <1>15, <2>1 DEF DropCancel
  <2> QED BY <1>0, <1>3, <1>4, <1>6, <2>2
\* The workers, and steps that change nothing, touch no handler.
<1>16. ASSUME WorkerStep \/ UNCHANGED queueVars, UNCHANGED ingestVars PROVE IngestInv'
  <2>1. UNCHANGED <<ingest, stored, creator, cancel, faults>> /\ OwnKeys'
    BY <1>3, <1>16 DEF ingestVars
  <2>2. IngestTypeOK'
    BY <1>0, <2>1 DEF IngestTypeOK
  <2>3. HandlersKnow'
    BY <1>1, <1>2, <2>1 DEF HandlersKnow, Queued
  <2>4. CancelSettles'
    BY <1>0, <1>1, <1>2, <2>1 DEF CancelSettles, Settled
  <2> QED BY <1>0, <2>1, <2>2, <2>3, <2>4 DEF IngestInv
<1>17. CASE UNCHANGED vars
  BY <1>16, <1>17 DEF vars
<1> QED
  BY <1>7, <1>8, <1>9, <1>10, <1>11, <1>12, <1>13, <1>14, <1>15, <1>16, <1>17
  DEF Next, Create, Cancel

\* Nothing has been created yet.
LEMMA InitIngest == Init => IngestInv
<1> SUFFICES ASSUME Init PROVE IngestInv
  OBVIOUS
<1>1. QInv /\ QueueTypeOK
  BY InitQInv DEF Init, QInv
<1>2. 0 \in 0 .. MaxFaults
  BY IngestAssumption
<1>3. IngestTypeOK
  BY <1>1, <1>2 DEF Init, IngestTypeOK, CreatorStates, CancelStates
<1>4. OwnKeys
  BY DEF Init, QueueInit, NoJob, OwnKeys, Queued
<1>5. HandlersKnow /\ CancelSettles
  BY DEF Init, HandlersKnow, CancelSettles
<1> QED BY <1>1, <1>3, <1>4, <1>5 DEF IngestInv

\* The two tables and the handlers agree in every reachable state.
LEMMA IngestInvariance == Spec => []IngestInv
BY InitIngest, IngestStays, PTL DEF Spec

-----------------------------------------------------------------------------

\* Rows of both tables, handlers and counters keep their types.
THEOREM IngestTypeCorrect == Spec => []IngestTypeOK
<1>1. IngestInv => IngestTypeOK
  BY DEF IngestInv
<1> QED BY <1>1, IngestInvariance, PTL

\* Who is told that an ingest job exists finds its row in the queue, whichever
\* invocation inserted which row (create_ingest_job, enqueue_job).
THEOREM AcceptedAlwaysQueued == Spec => []AcceptedIsQueued
<1>1. IngestInv => AcceptedIsQueued
  BY DEF IngestInv, HandlersKnow, AcceptedIsQueued, Queued
<1> QED BY <1>1, IngestInvariance, PTL

\* As long as no queue call fails, a cancelled ingest job is not run again:
\* the queue's row was settled first, and no retry of the creation inserts its
\* id again (cancel_ingest_job, enqueue_job).
THEOREM CancelledNeverQueued == Spec => []CancelledIsNotQueued
<1>1. IngestInv => CancelledIsNotQueued
  BY DEF IngestInv, CancelSettles, CancelledIsNotQueued, Settled, SettledStates, IsLive,
         LiveStates
<1> QED BY <1>1, IngestInvariance, PTL

=============================================================================
