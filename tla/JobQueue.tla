------------------------------ MODULE JobQueue ------------------------------
(***************************************************************************)
(* The jobs table behind JobQueueProvider: enqueue, lease, ack, fail and   *)
(* cancel, each one SQLite transaction.  A worker may present any lease it *)
(* was ever handed, late and more than once (it retries a call whose       *)
(* answer was lost), or forget all of them when it is restarted.           *)
(* leased_until is stored and never read, so it is not part of the state.  *)
(***************************************************************************)
EXTENDS Naturals, FiniteSets

CONSTANTS
  Jobs,         \* job ids
  JobTypes,     \* the job ids of each job_type
  DedupeKeys,   \* values of dedupe_key
  Workers,      \* worker ids
  NoWorker,     \* lease_owner is NULL
  NoKey,        \* dedupe_key is NULL
  MaxAttempts,  \* max_attempts of every job
  BatchLimit,   \* limit of every lease call
  MaxCrashes    \* bound: workers that lose their leases

ASSUME QueueAssumption ==
  /\ JobTypes \subseteq SUBSET Jobs
  /\ NoWorker \notin Workers
  /\ NoKey \notin DedupeKeys
  /\ MaxAttempts \in Nat \ {0}
  /\ BatchLimit \in Nat \ {0}
  /\ MaxCrashes \in Nat

VARIABLES
  job,       \* rows of jobs
  enqueued,  \* history: rows inserted so far, the order of created_at
  tickets,   \* leases each worker was handed and remembers
  failures,  \* history: lease epochs whose failure was accepted
  crashes    \* workers restarted so far

queueVars == <<job, enqueued, tickets, failures, crashes>>

-----------------------------------------------------------------------------

LiveStates == {"pending", "leased"}
SettledStates == {"completed", "dead_lettered", "cancelled"}

JobRows ==
  [status : {"absent"} \cup LiveStates \cup SettledStates,
   owner : Workers \cup {NoWorker},
   epoch : Nat,
   attempts : 0 .. MaxAttempts,
   key : DedupeKeys \cup {NoKey},
   created : Nat,
   due : BOOLEAN]
NoJob ==
  [status |-> "absent", owner |-> NoWorker, epoch |-> 0, attempts |-> 0,
   key |-> NoKey, created |-> 0, due |-> TRUE]

Tickets == [job : Jobs, epoch : Nat]

QueueTypeOK ==
  /\ job \in [Jobs -> JobRows]
  /\ enqueued \in Nat
  /\ tickets \in [Workers -> SUBSET Tickets]
  /\ failures \in [Jobs -> SUBSET Nat]
  /\ crashes \in 0 .. MaxCrashes

QueueInit ==
  /\ job = [j \in Jobs |-> NoJob]
  /\ enqueued = 0
  /\ tickets = [w \in Workers |-> {}]
  /\ failures = [j \in Jobs |-> {}]
  /\ crashes = 0

-----------------------------------------------------------------------------

IsLive(j) == job[j].status \in LiveStates

\* Variant: a leased job does not count.
PendingUnderKey(k) ==
  {j \in Jobs : job[j].status = "pending" /\ job[j].key = k /\ k # NoKey}
\* The rows an enqueue with this key would return instead of inserting.
LiveUnderKey(k) == {j \in Jobs : IsLive(j) /\ job[j].key = k /\ k # NoKey}

\* The call inserts a row: no live row has the key and the id is free.
Insertable(j, k) == LiveUnderKey(k) = {} /\ job[j].status = "absent"

\* The call fails on the primary key.  (Otherwise it returns a live row.)
IdTaken(j, k) == LiveUnderKey(k) = {} /\ job[j].status # "absent"

InsertJob(j, k, due) ==
  /\ job' = [job EXCEPT ![j] =
       [NoJob EXCEPT !.status = "pending", !.key = k,
                     !.created = enqueued + 1, !.due = due]]
  /\ enqueued' = enqueued + 1
  /\ UNCHANGED <<tickets, failures, crashes>>

EnqueueJob(j, k, due) == Insertable(j, k) /\ InsertJob(j, k, due)

\* run_after of a waiting job passes.
BecomeDue(j) ==
  /\ job[j].status = "pending"
  /\ ~job[j].due
  /\ job' = [job EXCEPT ![j].due = TRUE]
  /\ UNCHANGED <<enqueued, tickets, failures, crashes>>

\* Variant: only jobs that never failed.
ReadyFirstTry(asked) ==
  {j \in asked : job[j].status = "pending" /\ job[j].due /\ job[j].attempts = 0}
Ready(asked) == {j \in asked : job[j].status = "pending" /\ job[j].due}

\* The oldest ready jobs, as many as one call takes.
Batch(asked) ==
  {j \in Ready(asked) :
     Cardinality({i \in Ready(asked) : job[i].created < job[j].created}) < BatchLimit}

\* Without a filter a worker asks for any job, with one for those of a type.
Filters == {Jobs} \cup JobTypes

LeaseJobs(w, asked) ==
  /\ Batch(asked) # {}
  /\ job' = [j \in Jobs |->
       IF j \in Batch(asked)
         THEN [job[j] EXCEPT !.status = "leased", !.owner = w, !.epoch = @ + 1]
         ELSE job[j]]
  /\ tickets' = [tickets EXCEPT ![w] =
       @ \cup {[job |-> j, epoch |-> job[j].epoch + 1] : j \in Batch(asked)}]
  /\ UNCHANGED <<enqueued, failures, crashes>>

\* Variant: the epoch is not compared.
OwnerOnly(w, t) ==
  job[t.job].status = "leased" /\ job[t.job].owner = w /\ t.epoch \in Nat
\* The compare-and-set condition of ack and fail; otherwise a Conflict.
Current(w, t) ==
  /\ job[t.job].status = "leased"
  /\ job[t.job].owner = w
  /\ job[t.job].epoch = t.epoch

AckJob(w, t) ==
  /\ t \in tickets[w]
  /\ Current(w, t)
  /\ job' = [job EXCEPT ![t.job].status = "completed", ![t.job].owner = NoWorker]
  /\ UNCHANGED <<enqueued, tickets, failures, crashes>>

\* Variant: the last attempt is not counted.
FailOnceMore(w, t, due) ==
  LET attempts == job[t.job].attempts + 1
      last == attempts > MaxAttempts
  IN  /\ t \in tickets[w]
      /\ Current(w, t)
      /\ job' = [job EXCEPT
           ![t.job].status = IF last THEN "dead_lettered" ELSE "pending",
           ![t.job].owner = NoWorker,
           ![t.job].attempts = attempts,
           ![t.job].due = last \/ due]
      /\ failures' = [failures EXCEPT ![t.job] = @ \cup {t.epoch}]
      /\ UNCHANGED <<enqueued, tickets, crashes>>

\* Put the job back, after an explicit or exponential delay, or bury it.
FailJob(w, t, due) ==
  LET attempts == job[t.job].attempts + 1
      last == attempts >= MaxAttempts
  IN  /\ t \in tickets[w]
      /\ Current(w, t)
      /\ job' = [job EXCEPT
           ![t.job].status = IF last THEN "dead_lettered" ELSE "pending",
           ![t.job].owner = NoWorker,
           ![t.job].attempts = attempts,
           ![t.job].due = last \/ due]
      /\ failures' = [failures EXCEPT ![t.job] = @ \cup {t.epoch}]
      /\ UNCHANGED <<enqueued, tickets, crashes>>

\* Variant: any existing row is cancelled.
CancelAny(j) ==
  /\ job[j].status # "absent"
  /\ job' = [job EXCEPT ![j].status = "cancelled", ![j].owner = NoWorker]
  /\ UNCHANGED <<enqueued, tickets, failures, crashes>>

\* A settled job is returned as it is.
CancelJob(j) ==
  /\ IsLive(j)
  /\ job' = [job EXCEPT ![j].status = "cancelled", ![j].owner = NoWorker]
  /\ UNCHANGED <<enqueued, tickets, failures, crashes>>

\* A worker is restarted; nothing in the table changes.
CrashWorker(w) ==
  /\ tickets[w] # {}
  /\ crashes < MaxCrashes
  /\ crashes' = crashes + 1
  /\ tickets' = [tickets EXCEPT ![w] = {}]
  /\ UNCHANGED <<job, enqueued, failures>>

-----------------------------------------------------------------------------

Lease(w) == \E asked \in Filters : LeaseJobs(w, asked)

Settle(w) ==
  \E t \in tickets[w] :
    AckJob(w, t) \/ \E due \in BOOLEAN : FailJob(w, t, due)

Enqueue ==
  \E j \in Jobs, k \in DedupeKeys \cup {NoKey}, due \in BOOLEAN :
    EnqueueJob(j, k, due)

\* Time and the workers.
WorkerStep ==
  \/ \E j \in Jobs : BecomeDue(j)
  \/ \E w \in Workers : Lease(w) \/ Settle(w) \/ CrashWorker(w)

QueueNext ==
  \/ Enqueue
  \/ WorkerStep
  \/ \E j \in Jobs : CancelJob(j)

QueueSpec == QueueInit /\ [][QueueNext]_queueVars

\* Time passes, some worker asks for jobs that wait, and every worker that remembers a
\* valid lease reports on it.
FairQueueSpec ==
  /\ QueueSpec
  /\ \A j \in Jobs : WF_queueVars(BecomeDue(j))
  /\ WF_queueVars(\E w \in Workers : Lease(w))
  /\ \A w \in Workers : WF_queueVars(Settle(w))

-----------------------------------------------------------------------------

\* No two live jobs have one dedupe key, through leases, retries that put a
\* job back, cancellations and enqueues of the key after it was settled.
OneLiveJobPerKey ==
  \A i, j \in Jobs :
    IsLive(i) /\ IsLive(j) /\ job[i].key = job[j].key /\ job[i].key # NoKey
    => i = j

\* Every accepted failure is one of a lease of its own: a report that is
\* repeated, or that arrives after the job was leased again, is not counted.
FailuresCountOnce ==
  \A j \in Jobs :
    /\ job[j].attempts = Cardinality(failures[j])
    /\ failures[j] \subseteq 1 .. job[j].epoch
    /\ job[j].status = "leased" => job[j].epoch \notin failures[j]

\* No job is handed out more often than it may be tried, and it is buried at
\* exactly the last attempt.
LeasesAreBounded ==
  \A j \in Jobs :
    /\ job[j].epoch <= MaxAttempts
    /\ job[j].status = "dead_lettered" <=> job[j].attempts = MaxAttempts

\* A settled job stays settled: late acks, failures, cancels and leases
\* change none of its fields.
SettledIsFinal ==
  [][\A j \in Jobs :
       job[j].status \in SettledStates => job'[j] = job[j]]_queueVars

\* A leased job whose worker has lost the lease.
Orphaned(j) ==
  /\ job[j].status = "leased"
  /\ [job |-> j, epoch |-> job[j].epoch] \notin tickets[job[j].owner]

\* An enqueued job is settled at last, through failures, delays and workers
\* that are restarted, unless the worker that holds it is one of those.
LiveIsSettledUnlessOrphaned ==
  \A j \in Jobs : IsLive(j) ~> ~IsLive(j) \/ Orphaned(j)

\* What storage_semantics_txn.md 10 asks for, restarts included: every job is
\* delivered until it is settled.
LiveIsSettled == \A j \in Jobs : IsLive(j) ~> ~IsLive(j)

=============================================================================
