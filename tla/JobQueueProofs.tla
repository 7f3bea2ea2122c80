---------------------------- MODULE JobQueueProofs ----------------------------
(***************************************************************************)
(* Theorems about the job queue, for any jobs, keys, workers and limits.   *)
(* One inductive invariant, QInv, carries them: a lease takes the epoch    *)
(* one ahead of the attempts, and its failure takes the attempts along.    *)
(***************************************************************************)
EXTENDS JobQueue, FiniteSetTheorems, TLAPS

-----------------------------------------------------------------------------

\* A row that is not there was never leased.
AbsentIsBare == \A j \in Jobs : job[j].status = "absent" => job[j] = NoJob

\* The epoch counts the attempts, and the lease that is in force or was the
\* last; a job that may not be tried again is buried.
EpochsFollowAttempts ==
  \A j \in Jobs :
    /\ job[j].epoch \in {job[j].attempts, job[j].attempts + 1}
    /\ job[j].status \in {"pending", "dead_lettered"} => job[j].epoch = job[j].attempts
    /\ job[j].status = "leased" => job[j].epoch = job[j].attempts + 1
    /\ job[j].status = "dead_lettered" <=> job[j].attempts = MaxAttempts

QInv ==
  /\ QueueTypeOK
  /\ AbsentIsBare
  /\ EpochsFollowAttempts
  /\ FailuresCountOnce

-----------------------------------------------------------------------------

\* A reported lease is a lease of a job, and in force.
LEMMA TicketOfJob ==
  ASSUME QueueTypeOK, NEW w \in Workers, NEW t \in tickets[w]
  PROVE  t.job \in Jobs /\ t.epoch \in Nat
BY DEF QueueTypeOK, Tickets

\* The last attempt, and no other, is the one that reaches the maximum.
LEMMA AttemptsStayBounded ==
  ASSUME QueueTypeOK, EpochsFollowAttempts, NEW j \in Jobs, job[j].status = "leased"
  PROVE  /\ job[j].attempts \in Nat
         /\ job[j].attempts + 1 \in 0 .. MaxAttempts
         /\ job[j].attempts + 1 >= MaxAttempts <=> job[j].attempts + 1 = MaxAttempts
<1>1. job[j].attempts \in 0 .. MaxAttempts /\ job[j].attempts # MaxAttempts
  BY DEF QueueTypeOK, JobRows, EpochsFollowAttempts
<1> QED BY <1>1, QueueAssumption

\* Every step keeps the types.
LEMMA TypeStays == QInv /\ [QueueNext]_queueVars => QueueTypeOK'
<1> SUFFICES ASSUME QInv, [QueueNext]_queueVars PROVE QueueTypeOK'
  OBVIOUS
<1> USE DEF QInv, QueueTypeOK
<1>1. ASSUME NEW j \in Jobs, NEW k \in DedupeKeys \cup {NoKey}, NEW due \in BOOLEAN,
             EnqueueJob(j, k, due)
      PROVE QueueTypeOK'
  <2>1. [NoJob EXCEPT !.status = "pending", !.key = k, !.created = enqueued + 1,
                      !.due = due] \in JobRows
    <3>1. 0 \in 0 .. MaxAttempts /\ enqueued + 1 \in Nat
      BY QueueAssumption
    <3> QED BY <3>1 DEF NoJob, JobRows, LiveStates
  <2> QED BY <1>1, <2>1 DEF EnqueueJob, InsertJob
<1>2. ASSUME NEW j \in Jobs, BecomeDue(j) PROVE QueueTypeOK'
  BY <1>2 DEF BecomeDue, JobRows
<1>3. ASSUME NEW w \in Workers, NEW asked \in Filters, LeaseJobs(w, asked)
      PROVE QueueTypeOK'
  <2>1. ASSUME NEW j \in Jobs
        PROVE  /\ job[j] \in JobRows /\ job[j].epoch + 1 \in Nat
               /\ [job[j] EXCEPT !.status = "leased", !.owner = w,
                                 !.epoch = job[j].epoch + 1] \in JobRows
    <3>1. job[j] \in JobRows
      OBVIOUS
    <3>2. job[j].epoch + 1 \in Nat
      BY <3>1 DEF JobRows
    <3> DEFINE r == [job[j] EXCEPT !.status = "leased", !.owner = w,
                                   !.epoch = job[j].epoch + 1]
    <3>3. r \in JobRows
      BY <3>1, <3>2 DEF JobRows, LiveStates
    <3> QED BY <3>1, <3>2, <3>3
  <2>2. job' \in [Jobs -> JobRows]
    BY <1>3, <2>1 DEF LeaseJobs
  <2>3. Batch(asked) \subseteq Jobs
    BY QueueAssumption DEF Batch, Ready, Filters
  <2>4. {[job |-> j, epoch |-> job[j].epoch + 1] : j \in Batch(asked)} \subseteq Tickets
    <3>1. ASSUME NEW j \in Batch(asked)
          PROVE [job |-> j, epoch |-> job[j].epoch + 1] \in [job : Jobs, epoch : Nat]
      BY <2>1, <2>3
    <3> QED BY <3>1 DEF Tickets
  <2>5. tickets' \in [Workers -> SUBSET Tickets]
    BY <1>3, <2>4 DEF LeaseJobs
  <2> QED BY <1>3, <2>2, <2>5 DEF LeaseJobs
<1>4. ASSUME NEW w \in Workers, NEW t \in tickets[w], AckJob(w, t) PROVE QueueTypeOK'
  BY <1>4, TicketOfJob DEF AckJob, JobRows, SettledStates
<1>5. ASSUME NEW w \in Workers, NEW t \in tickets[w], NEW due \in BOOLEAN,
             FailJob(w, t, due)
      PROVE QueueTypeOK'
  <2>1. t.job \in Jobs /\ t.epoch \in Nat
    BY TicketOfJob
  <2>2. job[t.job].attempts + 1 \in 0 .. MaxAttempts
    BY <1>5, <2>1, AttemptsStayBounded DEF FailJob, Current
  <2>3. job' \in [Jobs -> JobRows]
    BY <1>5, <2>1, <2>2 DEF FailJob, JobRows, LiveStates, SettledStates
  <2>4. failures' \in [Jobs -> SUBSET Nat]
    BY <1>5, <2>1 DEF FailJob
  <2> QED BY <1>5, <2>3, <2>4 DEF FailJob
<1>6. ASSUME NEW w \in Workers, CrashWorker(w) PROVE QueueTypeOK'
  BY <1>6, QueueAssumption DEF CrashWorker
<1>7. ASSUME NEW j \in Jobs, CancelJob(j) PROVE QueueTypeOK'
  BY <1>7 DEF CancelJob, JobRows, SettledStates
<1>8. CASE UNCHANGED queueVars
  BY <1>8 DEF queueVars
<1> QED
  BY <1>1, <1>2, <1>3, <1>4, <1>5, <1>6, <1>7, <1>8
  DEF QueueNext, Enqueue, WorkerStep, Lease, Settle

(* What a step makes of one row and of its failures                        *)

Untouched(j) == job'[j] = job[j] /\ failures'[j] = failures[j]

Inserted(j) ==
  \E k \in DedupeKeys \cup {NoKey}, due \in BOOLEAN :
    /\ job[j].status = "absent"
    /\ LiveUnderKey(k) = {}
    /\ job'[j] = [NoJob EXCEPT !.status = "pending", !.key = k,
                               !.created = enqueued + 1, !.due = due]
    /\ \A i \in Jobs \ {j} : job'[i] = job[i]
    /\ failures' = failures

MadeDue(j) ==
  /\ job[j].status = "pending"
  /\ job'[j] = [job[j] EXCEPT !.due = TRUE]
  /\ failures' = failures

Leased(j) ==
  /\ job[j].status = "pending"
  /\ \E w \in Workers :
       job'[j] = [job[j] EXCEPT !.status = "leased", !.owner = w,
                                !.epoch = job[j].epoch + 1]
  /\ failures' = failures

\* Acknowledged or cancelled.
Ended(j) ==
  /\ IsLive(j)
  /\ \E status \in {"completed", "cancelled"} :
       /\ status = "completed" => job[j].status = "leased"
       /\ job'[j] = [job[j] EXCEPT !.status = status, !.owner = NoWorker]
  /\ failures' = failures

Failed(j) ==
  /\ job[j].status = "leased"
  /\ \E due \in BOOLEAN :
       job'[j] = [job[j] EXCEPT
         !.status = IF job[j].attempts + 1 >= MaxAttempts THEN "dead_lettered"
                    ELSE "pending",
         !.owner = NoWorker, !.attempts = job[j].attempts + 1, !.due = due]
  /\ failures'[j] = failures[j] \cup {job[j].epoch}

\* There is no other step.
LEMMA StepOfJob ==
  ASSUME QueueTypeOK, [QueueNext]_queueVars, NEW j \in Jobs
  PROVE  \/ Untouched(j) \/ Inserted(j) \/ MadeDue(j) \/ Leased(j)
         \/ Ended(j) \/ Failed(j)
<1> USE DEF QueueTypeOK
<1>1. ASSUME NEW i \in Jobs, NEW k \in DedupeKeys \cup {NoKey}, NEW due \in BOOLEAN,
             EnqueueJob(i, k, due)
      PROVE Untouched(j) \/ Inserted(j)
  BY <1>1 DEF EnqueueJob, InsertJob, Insertable, Untouched, Inserted
<1>2. ASSUME NEW i \in Jobs, BecomeDue(i) PROVE Untouched(j) \/ MadeDue(j)
  BY <1>2 DEF BecomeDue, Untouched, MadeDue
<1>3. ASSUME NEW w \in Workers, NEW asked \in Filters, LeaseJobs(w, asked)
      PROVE Untouched(j) \/ Leased(j)
  BY <1>3 DEF LeaseJobs, Batch, Ready, Untouched, Leased
<1>4. ASSUME NEW w \in Workers, NEW t \in tickets[w], AckJob(w, t)
      PROVE Untouched(j) \/ Ended(j)
  BY <1>4, TicketOfJob DEF AckJob, Current, IsLive, LiveStates, Untouched, Ended
<1>5. ASSUME NEW w \in Workers, NEW t \in tickets[w], NEW due \in BOOLEAN,
             FailJob(w, t, due)
      PROVE Untouched(j) \/ Failed(j)
  <2>1. t.job \in Jobs
    BY TicketOfJob
  <2>2. CASE t.job = j
    BY <1>5, <2>2 DEF FailJob, Current, Failed, JobRows
  <2>3. CASE t.job # j
    BY <1>5, <2>1, <2>3 DEF FailJob, Untouched
  <2> QED BY <2>2, <2>3
<1>6. ASSUME NEW w \in Workers, CrashWorker(w) PROVE Untouched(j)
  BY <1>6 DEF CrashWorker, Untouched
<1>7. ASSUME NEW i \in Jobs, CancelJob(i) PROVE Untouched(j) \/ Ended(j)
  BY <1>7 DEF CancelJob, Untouched, Ended
<1>8. CASE UNCHANGED queueVars
  BY <1>8 DEF queueVars, Untouched
<1> QED
  BY <1>1, <1>2, <1>3, <1>4, <1>5, <1>6, <1>7, <1>8
  DEF QueueNext, Enqueue, WorkerStep, Lease, Settle

-----------------------------------------------------------------------------
(* The invariant                                                           *)

\* A row that is there is never taken away.
LEMMA AbsentStays == QInv /\ [QueueNext]_queueVars => AbsentIsBare'
<1> SUFFICES ASSUME QInv, [QueueNext]_queueVars, NEW j \in Jobs,
                    job'[j].status = "absent"
             PROVE job'[j] = NoJob
  BY DEF AbsentIsBare
<1> USE DEF QInv
<1>1. job[j] \in JobRows
  BY DEF QueueTypeOK
<1>2. ~Inserted(j) /\ ~Leased(j) /\ ~Ended(j) /\ ~Failed(j)
  BY <1>1 DEF Inserted, Leased, Ended, Failed, NoJob, JobRows
<1>3. ~MadeDue(j)
  BY <1>1 DEF MadeDue, JobRows
<1> QED BY <1>2, <1>3, StepOfJob DEF Untouched, AbsentIsBare

\* A lease takes the epoch ahead, its failure takes the attempts along, and the
\* attempt that reaches the maximum buries the job.
LEMMA EpochsStay == QInv /\ [QueueNext]_queueVars => EpochsFollowAttempts'
<1> SUFFICES ASSUME QInv, [QueueNext]_queueVars, NEW j \in Jobs
             PROVE  /\ job'[j].epoch \in {job'[j].attempts, job'[j].attempts + 1}
                    /\ job'[j].status \in {"pending", "dead_lettered"}
                         => job'[j].epoch = job'[j].attempts
                    /\ job'[j].status = "leased" => job'[j].epoch = job'[j].attempts + 1
                    /\ job'[j].status = "dead_lettered" <=> job'[j].attempts = MaxAttempts
  BY DEF EpochsFollowAttempts
<1> USE DEF QInv
<1>1. /\ job[j] \in JobRows
      /\ job[j].attempts \in Nat /\ job[j].epoch \in Nat
      /\ MaxAttempts \in Nat /\ MaxAttempts # 0
  BY QueueAssumption DEF QueueTypeOK, JobRows
<1>2. /\ job[j].epoch \in {job[j].attempts, job[j].attempts + 1}
      /\ job[j].status \in {"pending", "dead_lettered"} => job[j].epoch = job[j].attempts
      /\ job[j].status = "leased" => job[j].epoch = job[j].attempts + 1
      /\ job[j].status = "dead_lettered" <=> job[j].attempts = MaxAttempts
  BY DEF EpochsFollowAttempts
<1>3. CASE Untouched(j)
  BY <1>2, <1>3 DEF Untouched
<1>4. CASE Inserted(j)
  BY <1>1, <1>4 DEF Inserted, NoJob
<1>5. CASE MadeDue(j)
  BY <1>1, <1>2, <1>5 DEF MadeDue, JobRows
<1>6. CASE Leased(j)
  BY <1>1, <1>2, <1>6 DEF Leased, JobRows
<1>7. CASE Ended(j)
  <2>1. job[j].status # "dead_lettered"
    BY <1>7 DEF Ended, IsLive, LiveStates
  <2>2. /\ job'[j].status \in {"completed", "cancelled"}
        /\ job'[j].attempts = job[j].attempts /\ job'[j].epoch = job[j].epoch
    BY <1>1, <1>7 DEF Ended, JobRows
  <2> QED BY <1>2, <2>1, <2>2
<1>8. CASE Failed(j)
  <2>1. job[j].attempts + 1 >= MaxAttempts <=> job[j].attempts + 1 = MaxAttempts
    BY <1>8, AttemptsStayBounded DEF Failed
  <2>2. /\ job'[j].attempts = job[j].attempts + 1 /\ job'[j].epoch = job[j].epoch
        /\ job'[j].status = IF job[j].attempts + 1 >= MaxAttempts THEN "dead_lettered"
                            ELSE "pending"
    BY <1>1, <1>8 DEF Failed, JobRows
  <2>3. job[j].epoch = job[j].attempts + 1
    BY <1>2, <1>8 DEF Failed
  <2> QED BY <1>1, <2>1, <2>2, <2>3
<1> QED BY <1>3, <1>4, <1>5, <1>6, <1>7, <1>8, StepOfJob

\* What FailuresCountOnce says of one job.
FailuresMatch(j) ==
  /\ job[j].attempts = Cardinality(failures[j])
  /\ failures[j] \subseteq 1 .. job[j].epoch
  /\ job[j].status = "leased" => job[j].epoch \notin failures[j]

\* A failure that is counted is one of the lease in force, which is a new one.
LEMMA FailuresStay == QInv /\ [QueueNext]_queueVars => FailuresCountOnce'
<1> SUFFICES ASSUME QInv, [QueueNext]_queueVars, NEW j \in Jobs PROVE FailuresMatch(j)'
  BY DEF FailuresCountOnce, FailuresMatch
<1> USE DEF QInv
<1>1. /\ job[j] \in JobRows /\ job[j].attempts \in Nat /\ job[j].epoch \in Nat
      /\ job \in [Jobs -> JobRows] /\ failures \in [Jobs -> SUBSET Nat]
  BY DEF QueueTypeOK, JobRows
<1>2. FailuresMatch(j)
  BY DEF FailuresCountOnce, FailuresMatch
<1>3. IsFiniteSet(failures[j])
  <2>1. IsFiniteSet(1 .. job[j].epoch)
    BY <1>1, FS_Interval
  <2> QED BY <1>2, <2>1, FS_Subset DEF FailuresMatch
<1>4. CASE Untouched(j)
  BY <1>2, <1>4 DEF Untouched, FailuresMatch
<1>5. CASE Inserted(j)
  <2>1. job[j] = NoJob
    BY <1>5 DEF Inserted, AbsentIsBare
  <2>2. failures[j] = {}
    BY <1>2, <2>1 DEF FailuresMatch, NoJob
  <2> QED BY <1>5, <2>2, FS_EmptySet DEF Inserted, NoJob, FailuresMatch
<1>6. CASE MadeDue(j)
  BY <1>1, <1>2, <1>6 DEF MadeDue, JobRows, FailuresMatch
<1>7. CASE Leased(j)
  <2>1. /\ job'[j].attempts = job[j].attempts /\ job'[j].epoch = job[j].epoch + 1
        /\ failures'[j] = failures[j]
    BY <1>1, <1>7 DEF Leased, JobRows
  <2> QED BY <1>1, <1>2, <2>1 DEF FailuresMatch
<1>8. CASE Ended(j)
  BY <1>1, <1>2, <1>8 DEF Ended, JobRows, FailuresMatch
<1>9. CASE Failed(j)
  <2>1. /\ job'[j].attempts = job[j].attempts + 1 /\ job'[j].epoch = job[j].epoch
        /\ job'[j].status # "leased"
        /\ failures'[j] = failures[j] \cup {job[j].epoch}
    BY <1>1, <1>9 DEF Failed, JobRows
  <2>2. job[j].epoch \notin failures[j] /\ job[j].epoch \in 1 .. job[j].epoch
    BY <1>1, <1>2, <1>9 DEF Failed, FailuresMatch, EpochsFollowAttempts
  <2>3. Cardinality(failures'[j]) = Cardinality(failures[j]) + 1
    BY <1>3, <2>1, <2>2, FS_AddElement
  <2> QED BY <1>2, <2>1, <2>2, <2>3 DEF FailuresMatch
<1> QED BY <1>4, <1>5, <1>6, <1>7, <1>8, <1>9, StepOfJob

\* Nothing is enqueued yet.
LEMMA InitQInv == QueueInit => QInv
<1> SUFFICES ASSUME QueueInit PROVE QInv
  OBVIOUS
<1>1. 0 \in 0 .. MaxAttempts /\ 0 \in 0 .. MaxCrashes /\ MaxAttempts # 0
  BY QueueAssumption
<1>2. NoJob \in JobRows
  BY <1>1 DEF NoJob, JobRows, LiveStates
<1>3. QueueTypeOK
  BY <1>1, <1>2 DEF QueueInit, QueueTypeOK
<1>4. AbsentIsBare /\ EpochsFollowAttempts
  BY <1>1 DEF QueueInit, NoJob, AbsentIsBare, EpochsFollowAttempts
<1>5. FailuresCountOnce
  BY FS_EmptySet DEF QueueInit, NoJob, FailuresCountOnce
<1> QED BY <1>3, <1>4, <1>5 DEF QInv

\* The invariant of the queue: rows, epochs, attempts and counted failures.
THEOREM QueueInvariance == QueueSpec => []QInv
<1>1. QueueInit => QInv
  BY InitQInv
<1>2. QInv /\ [QueueNext]_queueVars => QInv'
  BY TypeStays, AbsentStays, EpochsStay, FailuresStay DEF QInv
<1> QED BY <1>1, <1>2, PTL DEF QueueSpec

-----------------------------------------------------------------------------

\* A late or repeated report of a failure is never counted, however many
\* workers, leases and retries there are (fail_job).
THEOREM FailuresAlwaysCountOnce == QueueSpec => []FailuresCountOnce
<1>1. QInv => FailuresCountOnce
  BY DEF QInv
<1> QED BY <1>1, QueueInvariance, PTL

\* No job is handed out more often than max_attempts, and it is buried at
\* exactly the last attempt (lease_jobs, fail_job).
THEOREM LeasesAlwaysBounded == QueueSpec => []LeasesAreBounded
<1>1. QInv => LeasesAreBounded
  <2> SUFFICES ASSUME QInv, NEW j \in Jobs
               PROVE  /\ job[j].epoch <= MaxAttempts
                      /\ job[j].status = "dead_lettered" <=> job[j].attempts = MaxAttempts
    BY DEF LeasesAreBounded
  <2>1. /\ job[j].attempts \in 0 .. MaxAttempts /\ job[j].epoch \in Nat
        /\ MaxAttempts \in Nat
    BY QueueAssumption DEF QInv, QueueTypeOK, JobRows
  <2>2. /\ job[j].epoch \in {job[j].attempts, job[j].attempts + 1}
        /\ job[j].status = "dead_lettered" => job[j].epoch = job[j].attempts
        /\ job[j].status = "dead_lettered" <=> job[j].attempts = MaxAttempts
    BY DEF QInv, EpochsFollowAttempts
  <2> QED BY <2>1, <2>2
<1> QED BY <1>1, QueueInvariance, PTL

\* The check for a live job of the key and the insertion are one transaction,
\* so no key ever has two (enqueue_job).
THEOREM OneLiveJobAlways == QueueSpec => []OneLiveJobPerKey
<1>1. QueueInit => OneLiveJobPerKey
  BY DEF QueueInit, OneLiveJobPerKey, IsLive, LiveStates, NoJob
<1>2. QInv /\ OneLiveJobPerKey /\ [QueueNext]_queueVars => OneLiveJobPerKey'
  <2> SUFFICES ASSUME QInv, OneLiveJobPerKey, [QueueNext]_queueVars,
                      NEW i \in Jobs, NEW j \in Jobs, i # j,
                      IsLive(i)', IsLive(j)', job'[i].key = job'[j].key, job'[i].key # NoKey
               PROVE FALSE
    BY DEF OneLiveJobPerKey
  <2>1. \A l \in Jobs : job[l] \in JobRows
    BY DEF QInv, QueueTypeOK
  <2>2. ASSUME NEW l \in Jobs, IsLive(l)', ~Inserted(l)
        PROVE  IsLive(l) /\ job[l].key = job'[l].key
    <3>1. Untouched(l) \/ MadeDue(l) \/ Leased(l) \/ Ended(l) \/ Failed(l)
      BY <2>2, StepOfJob DEF QInv
    <3>2. job[l] \in JobRows
      BY <2>1
    <3> QED BY <2>2, <3>1, <3>2
      DEF Untouched, MadeDue, Leased, Ended, Failed, IsLive, LiveStates, JobRows
  <2>3. ASSUME NEW l \in Jobs, NEW m \in Jobs, l # m, Inserted(l), IsLive(m)',
               job'[l].key = job'[m].key, job'[l].key # NoKey
        PROVE  FALSE
    <3>1. PICK k \in DedupeKeys \cup {NoKey}, due \in BOOLEAN :
            /\ LiveUnderKey(k) = {}
            /\ job'[l] = [NoJob EXCEPT !.status = "pending", !.key = k,
                                       !.created = enqueued + 1, !.due = due]
            /\ \A n \in Jobs \ {l} : job'[n] = job[n]
      BY <2>3 DEF Inserted
    <3>2. job'[l].key = k /\ job'[m] = job[m]
      BY <2>3, <3>1 DEF NoJob
    <3>3. m \in LiveUnderKey(k)
      BY <2>3, <3>2 DEF LiveUnderKey, IsLive
    <3> QED BY <3>1, <3>3
  <2>4. CASE Inserted(i) \/ Inserted(j)
    BY <2>3, <2>4
  <2>5. CASE ~Inserted(i) /\ ~Inserted(j)
    BY <2>2, <2>5 DEF OneLiveJobPerKey
  <2> QED BY <2>4, <2>5
<1> QED BY <1>1, <1>2, QueueInvariance, PTL DEF QueueSpec

\* Late acks, failures, cancels and leases change no field of a settled job
\* (ack_job, fail_job, cancel_job, lease_jobs).
THEOREM SettledStaysFinal == QueueSpec => SettledIsFinal
<1>1. QInv /\ [QueueNext]_queueVars
        => [\A j \in Jobs : job[j].status \in SettledStates => job'[j] = job[j]]_queueVars
  <2> SUFFICES ASSUME QInv, [QueueNext]_queueVars, NEW j \in Jobs,
                      job[j].status \in SettledStates
               PROVE  job'[j] = job[j]
    OBVIOUS
  <2>1. ~Inserted(j) /\ ~MadeDue(j) /\ ~Leased(j) /\ ~Ended(j) /\ ~Failed(j)
    BY DEF Inserted, MadeDue, Leased, Ended, Failed, IsLive, LiveStates, SettledStates
  <2> QED BY <2>1, StepOfJob DEF QInv, Untouched
<1> QED BY <1>1, QueueInvariance, PTL DEF QueueSpec, SettledIsFinal

===============================================================================
