-------------------------- MODULE ApprovalExecution --------------------------
(***************************************************************************)
(* From the owner's decision to the side effect: the decide-approval       *)
(* handler consumes the approval in one transaction and then runs the      *)
(* permitted syscall under an operation lease; a recovery worker that      *)
(* wakes every 500 ms does the same for syscalls nobody ran.  A connection *)
(* may drop, storage may fail and the process may end between any two      *)
(* steps; a lease may run out; the tool may act and lose the answer.       *)
(*                                                                         *)
(* A syscall is named by the approval that permitted it (its table has a   *)
(* unique key on the approval), and an operation has one approval          *)
(* (RequestIntake!OneApprovalPerOperation), so every list of syscalls in   *)
(* this code has at most one element.                                      *)
(***************************************************************************)
EXTENDS OperationStore

CONSTANTS
  Decisions,      \* POST /v1/approvals/{id} invocations
  Recovery,       \* the recovery worker
  Keys,           \* values of the idempotency-key header
  NoKey,          \* no header
  RetryAttempts,  \* AppConfig.syscall_retry_attempts, at least 1
  MaxFaults,      \* bound: storage errors, dropped connections and crashes
  MaxOverruns     \* bound: runs that outlive their lease of EXECUTION_LEASE_MS

ASSUME ExecutionAssumption ==
  /\ Recovery \notin Decisions
  /\ NoRow \notin Decisions \cup {Recovery}
  /\ NoKey \notin Keys
  /\ RetryAttempts \in Nat \ {0}
  /\ MaxFaults \in Nat
  /\ MaxOverruns \in Nat

Runners == Decisions \cup {Recovery}

VARIABLES
  syscall,   \* status of the syscall each approval permitted
  decided,   \* decisions stored per approval and idempotency key
  lease,     \* operation_leases
  runner,    \* progress and locals of each runner
  worklist,  \* syscalls the current recovery tick still has to visit
  calls,     \* external: how often the tool acted for each syscall
  faults     \* history: faults and overruns so far

execVars == <<syscall, decided, lease, runner, worklist, calls, faults>>
vars == <<storeVars, execVars>>

-----------------------------------------------------------------------------

SyscallStates == {"absent", "permitted", "executing", "executed", "failed"}
Choices == {"approve", "deny"}

Leases == [owner : Runners \cup {NoRow}, epoch : Nat, live : BOOLEAN]
NoLease == [owner |-> NoRow, epoch |-> 0, live |-> FALSE]

\* Steps a runner takes while it holds, or believes it holds, the lease.
UnderLease == {"read", "claim", "call", "settle", "fail", "fail_op", "tail",
               "complete", "release"}

RunnerStates ==
  [pc : {"idle", "acquire", "done"} \cup UnderLease,
   op : Requests \cup {NoRow},
   todo : Requests \cup {NoRow},
   epoch : Nat,
   tries : 0 .. RetryAttempts]
IdleRunner ==
  [pc |-> "idle", op |-> NoRow, todo |-> NoRow, epoch |-> 0, tries |-> 0]
DoneRunner == [IdleRunner EXCEPT !.pc = "done"]

ExecutionTypeOK ==
  /\ StoreTypeOK
  /\ syscall \in [Requests -> SyscallStates]
  /\ decided \in [Requests -> [Keys -> Choices \cup {NoRow}]]
  /\ lease \in [Requests -> Leases]
  /\ runner \in [Runners -> RunnerStates]
  /\ worklist \subseteq Requests
  /\ calls \in [Requests -> Nat]
  /\ faults \in [errors : 0 .. MaxFaults, overruns : 0 .. MaxOverruns]

ExecInit ==
  /\ syscall = [a \in Requests |-> "absent"]
  /\ decided = [a \in Requests |-> [k \in Keys |-> NoRow]]
  /\ lease = [o \in Requests |-> NoLease]
  /\ runner = [x \in Runners |-> IdleRunner]
  /\ worklist = {}
  /\ calls = [a \in Requests |-> 0]
  /\ faults = [errors |-> 0, overruns |-> 0]

\* Every operation has been through intake and waits for the owner.
Init ==
  /\ operation = [o \in Requests |-> "awaiting_approval"]
  /\ transitions = [o \in Requests |->
       {<<"absent", "created">>, <<"created", "awaiting_approval">>}]
  /\ anchors = [o \in Requests |-> Anchors]
  /\ approval = [a \in Requests |-> [op |-> a, status |-> "pending"]]
  /\ ExecInit

-----------------------------------------------------------------------------
(* The decide-approval handler, up to its transaction.                     *)

Goto(x, pc) == runner' = [runner EXCEPT ![x].pc = pc]

StoredChoice(a, k) == IF k \in Keys THEN decided[a][k] ELSE NoRow
StoreChoice(a, k, c) ==
  decided' = [decided EXCEPT ![a] =
                [j \in Keys |-> IF j = k THEN c ELSE @[j]]]

\* Continue with the syscalls of the (new or stored) response: one after an
\* approval, none after a denial.
StartRun(d, a, c) ==
  runner' = [runner EXCEPT ![d] =
    [IdleRunner EXCEPT !.pc = "acquire", !.op = approval[a].op,
                       !.todo = IF c = "approve" THEN a ELSE NoRow]]

\* A stored response is returned, and then its syscalls are visited again.
ReplayDecision(d, a, k) ==
  /\ runner[d].pc = "idle"
  /\ StoredChoice(a, k) # NoRow
  /\ StartRun(d, a, StoredChoice(a, k))
  /\ UNCHANGED <<storeVars, syscall, decided, lease, worklist, calls, faults>>

\* The approval is undecided and its operation still waits for it.
Decidable(a) ==
  /\ approval[a].status = "pending"
  /\ operation[approval[a].op] = "awaiting_approval"

\* consume_approval_atomic, approve: syscall, approval, operation, transition
\* and idempotency row in one transaction.  Any refusal changes no row.
Approve(d, a, k) ==
  /\ runner[d].pc = "idle"
  /\ StoredChoice(a, k) = NoRow
  /\ Decidable(a)
  /\ syscall[a] = "absent"
  /\ syscall' = [syscall EXCEPT ![a] = "permitted"]
  /\ approval' = [approval EXCEPT ![a].status = "consumed"]
  /\ RecordState(approval[a].op, "running")
  /\ StoreChoice(a, k, "approve")
  /\ StartRun(d, a, "approve")
  /\ UNCHANGED <<anchors, lease, worklist, calls, faults>>

\* Variant: the syscalls are inserted before the decision is looked at.
DenyInserts(d, a, k) ==
  /\ runner[d].pc = "idle"
  /\ StoredChoice(a, k) = NoRow
  /\ Decidable(a)
  /\ syscall' = [syscall EXCEPT ![a] = "permitted"]
  /\ approval' = [approval EXCEPT ![a].status = "denied"]
  /\ RecordState(approval[a].op, "blocked")
  /\ StoreChoice(a, k, "deny")
  /\ StartRun(d, a, "deny")
  /\ UNCHANGED <<anchors, lease, worklist, calls, faults>>

\* consume_approval_atomic, deny.
Deny(d, a, k) ==
  /\ runner[d].pc = "idle"
  /\ StoredChoice(a, k) = NoRow
  /\ Decidable(a)
  /\ approval' = [approval EXCEPT ![a].status = "denied"]
  /\ RecordState(approval[a].op, "blocked")
  /\ StoreChoice(a, k, "deny")
  /\ StartRun(d, a, "deny")
  /\ UNCHANGED <<anchors, syscall, lease, worklist, calls, faults>>

Decide(d, a, k) == ReplayDecision(d, a, k) \/ Approve(d, a, k) \/ Deny(d, a, k)

-----------------------------------------------------------------------------
(* The recovery worker.                                                    *)

Recoverable ==
  {a \in Requests : /\ syscall[a] = "permitted"
                    /\ operation[approval[a].op] = "running"}

\* One tick reads the list once and then works through it.
ListRecoverable ==
  /\ runner[Recovery].pc = "idle"
  /\ worklist = {}
  /\ worklist' = Recoverable
  /\ worklist' # {}
  /\ UNCHANGED <<storeVars, syscall, decided, lease, runner, calls, faults>>

PickRecoverable ==
  /\ runner[Recovery].pc = "idle"
  /\ \E a \in worklist :
       /\ worklist' = worklist \ {a}
       /\ StartRun(Recovery, a, "approve")
  /\ UNCHANGED <<storeVars, syscall, decided, lease, calls, faults>>

-----------------------------------------------------------------------------
(* execute_permitted_syscalls, for either kind of runner.                  *)

\* An error of recovery ends its whole tick: nothing else of its list is visited,
\* also if the lease has to be released first.
EndTick(x) == worklist' = IF x = Recovery THEN {} ELSE worklist

\* A runner that finished: a decision answers, recovery takes its next item.
Leave(x, ok) ==
  /\ runner' = [runner EXCEPT ![x] =
       IF x = Recovery THEN IdleRunner ELSE DoneRunner]
  /\ IF ok THEN UNCHANGED worklist ELSE EndTick(x)

\* Variant: a live lease of another runner does not stop this one.
IgnoresHolder(x, o) == lease[o].owner \in Runners \cup {NoRow}
\* Variant: leased_until is not compared with the clock.
NeverExpires(x, o) == lease[o].owner \in {NoRow, x}
\* No row, the runner's own row, or a row that ran out.
Acquirable(x, o) == lease[o].owner \in {NoRow, x} \/ ~lease[o].live

NextEpoch(x, o) ==
  IF lease[o].owner = x THEN lease[o].epoch ELSE lease[o].epoch + 1

AcquireLease(x) ==
  LET o == runner[x].op
  IN  /\ runner[x].pc = "acquire"
      /\ Acquirable(x, o)
      /\ lease' = [lease EXCEPT ![o] =
           [owner |-> x, epoch |-> NextEpoch(x, o), live |-> TRUE]]
      /\ runner' = [runner EXCEPT
           ![x].pc = IF runner[x].todo = NoRow THEN "tail" ELSE "read",
           ![x].epoch = NextEpoch(x, o)]
      /\ UNCHANGED <<storeVars, syscall, decided, worklist, calls, faults>>

\* Somebody else runs this operation: answer as if it had been run.
LeaseRefused(x) ==
  /\ runner[x].pc = "acquire"
  /\ ~Acquirable(x, runner[x].op)
  /\ Leave(x, TRUE)
  /\ UNCHANGED <<storeVars, syscall, decided, lease, calls, faults>>

\* Variant: whatever has not finished is run again.
ReadUnfinished(x) ==
  /\ runner[x].pc = "read"
  /\ Goto(x, IF syscall[runner[x].todo] \in {"permitted", "executing"}
               THEN "claim" ELSE "tail")
  /\ UNCHANGED <<storeVars, syscall, decided, lease, worklist, calls, faults>>

\* Only a permitted syscall is run.
ReadSyscall(x) ==
  /\ runner[x].pc = "read"
  /\ Goto(x, IF syscall[runner[x].todo] = "permitted" THEN "claim" ELSE "tail")
  /\ UNCHANGED <<storeVars, syscall, decided, lease, worklist, calls, faults>>

\* update_syscall_status accepts any new status from these two.
Writable(a) == syscall[a] \in {"permitted", "executing"}

\* update_syscall_status, and where its answer leads; a conflict is an error
\* of the whole run.
WriteStatus(x, status, next) ==
  LET a == runner[x].todo
  IN  /\ IF Writable(a)
           THEN /\ syscall' = [syscall EXCEPT ![a] = status]
                /\ Goto(x, next)
                /\ UNCHANGED worklist
           ELSE Goto(x, "release") /\ EndTick(x) /\ UNCHANGED syscall
      /\ UNCHANGED <<storeVars, decided, lease, calls, faults>>

ClaimSyscall(x) == runner[x].pc = "claim" /\ WriteStatus(x, "executing", "call")

\* Variant: one attempt too many.
CallToolOnceMore(x) ==
  /\ runner[x].pc = "call"
  /\ \E acts, answers \in BOOLEAN :
       /\ answers => acts
       /\ calls' = IF acts THEN [calls EXCEPT ![runner[x].todo] = @ + 1] ELSE calls
       /\ runner' = [runner EXCEPT
            ![x].tries = @ + 1,
            ![x].pc = IF answers THEN "settle"
                      ELSE IF runner[x].tries < RetryAttempts THEN "call"
                      ELSE "fail"]
  /\ UNCHANGED <<storeVars, syscall, decided, lease, worklist, faults>>

\* One attempt: the tool acts and says so, acts and the answer is lost, or
\* fails.  Every error is tried again until the attempts are used up.
CallTool(x) ==
  /\ runner[x].pc = "call"
  /\ \E acts, answers \in BOOLEAN :
       /\ answers => acts
       /\ calls' = IF acts THEN [calls EXCEPT ![runner[x].todo] = @ + 1] ELSE calls
       /\ runner' = [runner EXCEPT
            ![x].tries = @ + 1,
            ![x].pc = IF answers THEN "settle"
                      ELSE IF runner[x].tries + 1 < RetryAttempts THEN "call"
                      ELSE "fail"]
  /\ UNCHANGED <<storeVars, syscall, decided, lease, worklist, faults>>

\* Store the result event, then the final status.
SettleSyscall(x) == runner[x].pc = "settle" /\ WriteStatus(x, "executed", "tail")

\* Variant: a failed syscall is offered to the recovery worker again.
FailForRetry(x) == runner[x].pc = "fail" /\ WriteStatus(x, "permitted", "release")

FailSyscall(x) == runner[x].pc = "fail" /\ WriteStatus(x, "failed", "fail_op")

FailOperation(x) ==
  /\ runner[x].pc = "fail_op"
  /\ UpdateOperationState(runner[x].op, "failed")
  /\ Goto(x, "tail")
  /\ UNCHANGED <<anchors, approval, syscall, decided, lease, worklist,
                 calls, faults>>

SyscallsOf(o) == {a \in ApprovalsOf(o) : syscall[a] # "absent"}

\* Variant: any result of the syscalls completes the operation.
AllFinished(o) ==
  SyscallsOf(o) # {} /\ \A a \in SyscallsOf(o) : syscall[a] # "permitted"
AllExecuted(o) ==
  SyscallsOf(o) # {} /\ \A a \in SyscallsOf(o) : syscall[a] = "executed"

\* Variant: the operation is read before the decision's transaction.
InspectBeforeRunning(x) ==
  LET o == runner[x].op
  IN  /\ runner[x].pc = "tail"
      /\ Goto(x, IF operation[o] = "awaiting_approval" /\ AllExecuted(o)
                   THEN "complete" ELSE "release")
      /\ UNCHANGED <<storeVars, syscall, decided, lease, worklist, calls, faults>>

\* Read the operation and its syscalls; the update is a later transaction.
InspectOperation(x) ==
  LET o == runner[x].op
  IN  /\ runner[x].pc = "tail"
      /\ Goto(x, IF operation[o] = "running" /\ AllExecuted(o)
                   THEN "complete" ELSE "release")
      /\ UNCHANGED <<storeVars, syscall, decided, lease, worklist, calls, faults>>

CompleteOperation(x) ==
  /\ runner[x].pc = "complete"
  /\ UpdateOperationState(runner[x].op, "completed")
  /\ Goto(x, "release")
  /\ UNCHANGED <<anchors, approval, syscall, decided, lease, worklist,
                 calls, faults>>

\* Delete the row if it is still this runner's; otherwise report a conflict.
ReleaseLease(x) ==
  LET o == runner[x].op
      mine == lease[o].owner = x /\ lease[o].epoch = runner[x].epoch
  IN  /\ runner[x].pc = "release"
      /\ lease' = IF mine THEN [lease EXCEPT ![o] = NoLease] ELSE lease
      /\ Leave(x, mine)
      /\ UNCHANGED <<storeVars, syscall, decided, calls, faults>>

-----------------------------------------------------------------------------
(* What goes wrong around the runners.                                     *)

Fault ==
  /\ faults.errors < MaxFaults
  /\ faults' = [faults EXCEPT !.errors = @ + 1]

\* A storage call fails, or the tool's result does not match its schema: under
\* the lease the run ends with its release, outside it (or in the release
\* itself) the runner just ends.
StorageError(x) ==
  /\ Fault
  /\ \/ /\ runner[x].pc \in UnderLease \ {"call", "release"}
        /\ Goto(x, "release")
        /\ EndTick(x)
     \/ /\ runner[x].pc \in {"acquire", "release"}
        /\ Leave(x, FALSE)
  /\ UNCHANGED <<storeVars, syscall, decided, lease, calls>>

\* The client goes away and the server drops the handler where it stands.
DropConnection(d) ==
  /\ Fault
  /\ runner[d].pc \notin {"idle", "done"}
  /\ runner' = [runner EXCEPT ![d] = DoneRunner]
  /\ UNCHANGED <<storeVars, syscall, decided, lease, worklist, calls>>

\* The process ends and is started again: the rows stay.
Crash ==
  /\ Fault
  /\ runner' = [x \in Runners |->
       IF x = Recovery THEN IdleRunner
       ELSE IF runner[x].pc = "idle" THEN runner[x]
       ELSE DoneRunner]
  /\ worklist' = {}
  /\ UNCHANGED <<storeVars, syscall, decided, lease, calls>>

Holds(x, o) ==
  /\ runner[x].pc \in UnderLease
  /\ runner[x].op = o
  /\ lease[o].owner = x
  /\ lease[o].epoch = runner[x].epoch

\* leased_until passes.  No heartbeat renews it.
ExpireLease(o) ==
  /\ lease[o].live
  /\ lease' = [lease EXCEPT ![o].live = FALSE]
  /\ IF \E x \in Runners : Holds(x, o)
       THEN /\ faults.overruns < MaxOverruns
            /\ faults' = [faults EXCEPT !.overruns = @ + 1]
       ELSE UNCHANGED faults
  /\ UNCHANGED <<storeVars, syscall, decided, runner, worklist, calls>>

Cancel(o) == CancelOperation(o) /\ UNCHANGED execVars

-----------------------------------------------------------------------------

Run(x) ==
  \/ AcquireLease(x) \/ LeaseRefused(x) \/ ReadSyscall(x) \/ ClaimSyscall(x)
  \/ CallTool(x) \/ SettleSyscall(x) \/ FailSyscall(x) \/ FailOperation(x)
  \/ InspectOperation(x) \/ CompleteOperation(x) \/ ReleaseLease(x)

Recover == ListRecoverable \/ PickRecoverable

Next ==
  \/ \E d \in Decisions, a \in Requests, k \in Keys \cup {NoKey} : Decide(d, a, k)
  \/ Recover
  \/ \E x \in Runners : Run(x) \/ StorageError(x)
  \/ \E d \in Decisions : DropConnection(d)
  \/ Crash
  \/ \E o \in Requests : ExpireLease(o) \/ Cancel(o)

Spec == Init /\ [][Next]_vars

\* The runtime polls every runner, the worker ticks, and time passes.
FairSpec ==
  /\ Spec
  /\ \A x \in Runners : WF_vars(Run(x))
  /\ WF_vars(Recover)
  /\ \A o \in Requests : WF_vars(ExpireLease(o))

-----------------------------------------------------------------------------

\* The tool acts only for a syscall whose permission, approval and transition
\* to "running" are on record (storage_semantics_txn.md 6.1, rules A and B):
\* no replay, recovery, retry or crash gets ahead of the records.
SendsAreRecorded ==
  \A a \in Requests :
    calls[a] > 0 =>
      /\ approval[a].status = "consumed"
      /\ <<"awaiting_approval", "running">> \in transitions[approval[a].op]
      /\ syscall[a] \in {"executing", "executed", "failed"}

\* A syscall exists exactly for a consumed approval; a denial leaves none that
\* any runner could find.
PermittedIffConsumed ==
  \A a \in Requests : syscall[a] # "absent" <=> approval[a].status = "consumed"

\* The operation's outcome is the one of its syscall: completed only when it
\* is executed and the tool has acted, failed only when it is failed.
OutcomeMatchesSyscall ==
  \A o \in Requests :
    /\ operation[o] = "completed" => AllExecuted(o) /\ \A a \in SyscallsOf(o) : calls[a] > 0
    /\ operation[o] = "failed" => \E a \in SyscallsOf(o) : syscall[a] = "failed"

\* Steps at which a runner works on the operation rather than looks at it.
Working(x, o) ==
  /\ runner[x].op = o
  /\ runner[x].pc \in {"claim", "call", "settle", "fail", "fail_op"}

\* Only one runner at a time works on an operation (storage_semantics_txn.md
\* 5.3), among decision handlers, their replays and the recovery worker, as
\* long as every run ends within its lease.
OneRunnerPerOperation ==
  faults.overruns = 0 =>
    \A o \in Requests, x, y \in Runners : Working(x, o) /\ Working(y, o) => x = y

\* The tool never acts more often than one run may try, whatever is replayed,
\* recovered or restarted: an interrupted run is not begun again.  Each run
\* that outlives its lease lets in one more.
CallsAreBounded ==
  \A a \in Requests : calls[a] <= RetryAttempts * (1 + faults.overruns)

\* The recorded phase of each approved action, for the abstract specification.
Phase ==
  [a \in Requests |->
     CASE approval[a].status = "denied" -> "denied"
       [] syscall[a] = "permitted" -> "approved"
       [] syscall[a] = "executing" -> "attempted"
       [] syscall[a] = "executed" -> "succeeded"
       [] syscall[a] = "failed" -> "failed"
       [] OTHER -> "undecided"]

Abstract == INSTANCE ApprovedAction
              WITH Actions <- Requests, MaxCalls <- RetryAttempts, phase <- Phase

\* Every step of the handlers, the worker and the faults is a step of the
\* abstract action or changes nothing it shows (where no run outlives its
\* lease).
ImplementsApprovedAction == Abstract!Spec

\* A permitted syscall of a running operation does not wait for ever: the
\* recovery worker gets to it past dropped handlers, crashes, storage errors
\* and leases nobody releases.
PermittedIsClaimed ==
  \A a \in Requests : a \in Recoverable ~> a \notin Recoverable

\* A running operation reaches another state unless something fails: no
\* interleaving of decisions, replays, recovery and cancellation strands it.
RunningIsLeftUnlessFault ==
  \A o \in Requests :
    operation[o] = "running" ~> operation[o] # "running" \/ faults.errors > 0

\* What storage_semantics_txn.md 6.2 asks for, crashes included: a running
\* operation is resumed or failed at last.
RunningIsLeft ==
  \A o \in Requests : operation[o] = "running" ~> operation[o] # "running"

=============================================================================
