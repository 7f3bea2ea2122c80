-------------------------- MODULE OperationLifecycle --------------------------
(***************************************************************************)
(* Intake and execution over the same rows: what a client may see of one   *)
(* request from its first POST to the side effect, with submit handlers,   *)
(* decisions, the recovery worker and cancellations all interleaved.       *)
(***************************************************************************)
EXTENDS OperationStore

CONSTANTS
  Keys, NoKey, RequestIds, MaxAborts,
  Decisions, Recovery, RetryAttempts, MaxFaults, MaxOverruns

\* What the two halves assume of their constants.
ASSUME LifecycleAssumption ==
  /\ NoKey \notin Keys
  /\ NoRow \notin RequestIds \cup Decisions \cup {Recovery}
  /\ Recovery \notin Decisions
  /\ RetryAttempts \in Nat \ {0}
  /\ MaxAborts \in Nat /\ MaxFaults \in Nat /\ MaxOverruns \in Nat

VARIABLES
  requestEvents, idempotency, submit, aborts,
  syscall, decided, lease, runner, worklist, calls, faults

Intake == INSTANCE RequestIntake
Execution == INSTANCE ApprovalExecution

intakeVars == <<requestEvents, idempotency, submit, aborts>>
execVars == <<syscall, decided, lease, runner, worklist, calls, faults>>
vars == <<storeVars, intakeVars, execVars>>

Init == Intake!Init /\ Execution!ExecInit

\* The two halves share one process and one database, and nothing else.
IntakeStep == Intake!Next /\ UNCHANGED execVars
ExecutionStep == Execution!Next /\ UNCHANGED intakeVars

Next == IntakeStep \/ ExecutionStep

Spec == Init /\ [][Next]_vars

\* The runtime polls every handler and runner, the recovery worker ticks, and
\* time passes.
FairSpec ==
  /\ Spec
  /\ \A r \in Requests : WF_vars(Intake!Advance(r) /\ UNCHANGED execVars)
  /\ \A x \in Execution!Runners :
       WF_vars(Execution!Run(x) /\ UNCHANGED intakeVars)
  /\ WF_vars(Execution!Recover /\ UNCHANGED intakeVars)
  /\ \A o \in Requests : WF_vars(Execution!ExpireLease(o) /\ UNCHANGED intakeVars)

-----------------------------------------------------------------------------

\* Syscalls that go back to one request id, through any operation, approval
\* item, submit retry or decision.
SyscallsOfRequest(q) ==
  {a \in Requests : /\ syscall[a] # "absent"
                    /\ submit[approval[a].op].id = q}

\* One request id leads to at most one permitted side effect, however often
\* the request and the decision are posted and whatever is cancelled between.
OneSideEffectPerRequest ==
  \A q \in RequestIds : Cardinality(SyscallsOfRequest(q)) <= 1

\* The tool acts only once the permission, the approval and the transition to
\* "running" are on record, and only for operations whose gate decision,
\* compiled slice and reasoning output are stored: the trace can explain every
\* side effect.
SendsAreAnchored ==
  /\ Execution!SendsAreRecorded
  /\ \A a \in Requests : calls[a] > 0 => anchors[approval[a].op] = Anchors

\* An operation that waits for approval still has an item to decide after
\* decisions, late submit handlers and cancellations have met.
WaitingIsDecidable == Intake!AwaitingHasItem

\* An operation gets out of "created" and out of "running" in the whole system
\* as it does in its halves, cancellations and late submit handlers included.
CreatedIsLeft == Intake!CreatedIsLeft
RunningIsLeftUnlessFault == Execution!RunningIsLeftUnlessFault

\* A permitted syscall is claimed, past faults.
PermittedIsClaimed == Execution!PermittedIsClaimed

\* The promise of each approved side effect holds for the whole life cycle.
ImplementsApprovedAction == Execution!ImplementsApprovedAction

=============================================================================
