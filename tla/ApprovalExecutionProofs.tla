----------------------- MODULE ApprovalExecutionProofs -----------------------
(***************************************************************************)
(* Theorems about decisions, leases, runs and recovery, for any number of  *)
(* operations, decisions, attempts and faults.  Their invariants are       *)
(* layered: the rows and what a runner carries; the results that lead to   *)
(* an outcome; the lease behind every run; and, for runs within their      *)
(* lease, the single course of each syscall, which is what ApprovedAction  *)
(* promises.  Where runs do outlive their lease, a count of them and of    *)
(* the attempts still open bounds what the tool may do.                    *)
(***************************************************************************)
EXTENDS ApprovalExecution, FiniteSetTheorems, TLAPS

-----------------------------------------------------------------------------
(* Steps of one runner                                                     *)

Rests(x) == runner[x].pc \in {"idle", "done"}
AtWork(x) == runner[x].pc \in {"acquire"} \cup UnderLease

\* Steps at which a runner has a syscall to run.
WithSyscall == {"read", "claim", "call", "settle", "fail", "fail_op"}

OthersStay(x) == \A y \in Runners \ {x} : runner'[y] = runner[y]

\* A change of place leaves the locals alone.
LEMMA GotoFields ==
  ASSUME runner \in [Runners -> RunnerStates], NEW x \in Runners,
         NEW pc \in {"idle", "acquire", "done"} \cup UnderLease, Goto(x, pc)
  PROVE  /\ runner' \in [Runners -> RunnerStates]
         /\ runner'[x].pc = pc
         /\ runner'[x].op = runner[x].op /\ runner'[x].todo = runner[x].todo
         /\ runner'[x].epoch = runner[x].epoch /\ runner'[x].tries = runner[x].tries
         /\ OthersStay(x)
BY DEF Goto, RunnerStates, OthersStay

\* The resting runners.
LEMMA RestingRunners ==
  /\ IdleRunner \in RunnerStates /\ IdleRunner.pc = "idle"
  /\ DoneRunner \in RunnerStates /\ DoneRunner.pc = "done"
<1>1. 0 \in 0 .. RetryAttempts
  BY ExecutionAssumption
<1> QED BY <1>1 DEF IdleRunner, DoneRunner, RunnerStates

\* A run starts with its approval's operation and nothing tried.
LEMMA StartFields ==
  ASSUME runner \in [Runners -> RunnerStates], NEW d \in Runners, NEW a \in Requests,
         NEW c \in Choices, approval[a].op = a, StartRun(d, a, c)
  PROVE  /\ runner' \in [Runners -> RunnerStates]
         /\ runner'[d].pc = "acquire" /\ runner'[d].op = a
         /\ runner'[d].todo \in {NoRow, a} /\ runner'[d].tries = 0
         /\ OthersStay(d)
<1>1. 0 \in 0 .. RetryAttempts
  BY ExecutionAssumption
<1> DEFINE r == [IdleRunner EXCEPT !.pc = "acquire", !.op = approval[a].op,
                                   !.todo = IF c = "approve" THEN a ELSE NoRow]
<1>2. /\ r \in RunnerStates /\ r.pc = "acquire" /\ r.op = a
      /\ r.todo \in {NoRow, a} /\ r.tries = 0
  BY <1>1 DEF IdleRunner, RunnerStates
<1>3. runner' = [runner EXCEPT ![d] = r]
  BY DEF StartRun
<1> HIDE DEF r
<1> QED BY <1>2, <1>3 DEF OthersStay

\* A runner that leaves rests.
LEMMA LeaveFields ==
  ASSUME runner \in [Runners -> RunnerStates], NEW x \in Runners,
         NEW ok \in BOOLEAN, Leave(x, ok)
  PROVE  /\ runner' \in [Runners -> RunnerStates]
         /\ Rests(x)' /\ OthersStay(x)
         /\ worklist' \in {worklist, {}}
BY RestingRunners DEF Leave, EndTick, Rests, OthersStay

-----------------------------------------------------------------------------
(* The rows, and what a runner carries                                     *)

\* An approval item belongs to the operation of the same submit invocation.
OwnApproval == \A a \in Requests : approval[a].op = a

\* A runner at work has an operation, and no other syscall than that of its
\* operation; it counts its attempts from the claim on.
RunnersKnow ==
  \A x \in Runners :
    /\ AtWork(x) => runner[x].op \in Requests /\ runner[x].todo \in {NoRow, runner[x].op}
    /\ runner[x].pc \in WithSyscall => runner[x].todo # NoRow
    /\ runner[x].pc \in {"acquire", "read", "claim"} => runner[x].tries = 0
    /\ runner[x].pc = "call" => runner[x].tries < RetryAttempts

RowInv == ExecutionTypeOK /\ OwnApproval /\ RunnersKnow /\ PermittedIffConsumed

\* A runner with a syscall has that of its operation.
LEMMA SyscallOfRunner ==
  ASSUME RowInv, NEW x \in Runners, runner[x].pc \in WithSyscall
  PROVE  /\ runner[x].todo = runner[x].op /\ runner[x].op \in Requests
         /\ syscall[runner[x].op] \in SyscallStates
BY DEF RowInv, RunnersKnow, AtWork, WithSyscall, UnderLease, ExecutionTypeOK

\* The storage transaction of a decision keeps the types of its rows.
LEMMA RecordStateType ==
  ASSUME StoreTypeOK, NEW o \in Requests, NEW s \in OperationStates, RecordState(o, s)
  PROVE  /\ operation' \in [Requests -> OperationStates]
         /\ transitions' \in [Requests -> SUBSET (OperationStates \X OperationStates)]
BY DEF RecordState, StoreTypeOK

\* Storing a choice, or not storing it without a key.
LEMMA StoreChoiceType ==
  ASSUME decided \in [Requests -> [Keys -> Choices \cup {NoRow}]],
         NEW a \in Requests, NEW k, NEW c \in Choices, StoreChoice(a, k, c)
  PROVE  decided' \in [Requests -> [Keys -> Choices \cup {NoRow}]]
<1> DEFINE f == [j \in Keys |-> IF j = k THEN c ELSE decided[a][j]]
<1>1. decided[a] \in [Keys -> Choices \cup {NoRow}]
  OBVIOUS
<1>2. f \in [Keys -> Choices \cup {NoRow}]
  BY <1>1
<1>3. decided' = [decided EXCEPT ![a] = f]
  BY DEF StoreChoice
<1> HIDE DEF f
<1> QED BY <1>2, <1>3

\* What is stored under a key is a choice.
LEMMA StoredChoiceType ==
  ASSUME decided \in [Requests -> [Keys -> Choices \cup {NoRow}]],
         NEW a \in Requests, NEW k, StoredChoice(a, k) # NoRow
  PROVE  StoredChoice(a, k) \in Choices
BY DEF StoredChoice

\* A status is only ever written over permitted or executing.
LEMMA WriteFields ==
  ASSUME RowInv, NEW x \in Runners, runner[x].pc \in WithSyscall,
         NEW status \in SyscallStates, NEW next \in UnderLease,
         WriteStatus(x, status, next)
  PROVE  /\ runner' \in [Runners -> RunnerStates] /\ OthersStay(x)
         /\ runner'[x].op = runner[x].op /\ runner'[x].todo = runner[x].todo
         /\ runner'[x].epoch = runner[x].epoch /\ runner'[x].tries = runner[x].tries
         /\ syscall' \in [Requests -> SyscallStates]
         /\ \A a \in Requests \ {runner[x].op} : syscall'[a] = syscall[a]
         /\ \/ /\ Writable(runner[x].op)
               /\ syscall'[runner[x].op] = status /\ runner'[x].pc = next
            \/ /\ ~Writable(runner[x].op)
               /\ syscall' = syscall /\ runner'[x].pc = "release"
         /\ worklist' \in {worklist, {}}
         /\ UNCHANGED <<storeVars, decided, lease, calls, faults>>
<1>1. runner[x].todo = runner[x].op /\ runner[x].op \in Requests
  BY SyscallOfRunner
<1>2. runner \in [Runners -> RunnerStates] /\ syscall \in [Requests -> SyscallStates]
  BY DEF RowInv, ExecutionTypeOK
<1>3. "release" \in UnderLease
  BY DEF UnderLease
<1>4. CASE Writable(runner[x].todo)
  <2>1. Goto(x, next) /\ syscall' = [syscall EXCEPT ![runner[x].todo] = status]
    BY <1>4 DEF WriteStatus
  <2> QED BY <1>1, <1>2, <1>4, <2>1, GotoFields DEF WriteStatus
<1>5. CASE ~Writable(runner[x].todo)
  <2>1. Goto(x, "release") /\ syscall' = syscall
    BY <1>5 DEF WriteStatus
  <2> QED BY <1>1, <1>2, <1>3, <1>5, <2>1, GotoFields DEF WriteStatus, EndTick
<1> QED BY <1>4, <1>5

\* Where RunnersKnow holds of one runner.
Knows(x) ==
  /\ AtWork(x) => runner[x].op \in Requests /\ runner[x].todo \in {NoRow, runner[x].op}
  /\ runner[x].pc \in WithSyscall => runner[x].todo # NoRow
  /\ runner[x].pc \in {"acquire", "read", "claim"} => runner[x].tries = 0
  /\ runner[x].pc = "call" => runner[x].tries < RetryAttempts

\* A step of one runner can only disturb what that runner carries.
LEMMA KnowledgeStays ==
  ASSUME RunnersKnow, NEW x \in Runners, OthersStay(x), Knows(x)'
  PROVE  RunnersKnow'
<1>1. \A y \in Runners : Knows(y)
  BY DEF RunnersKnow, Knows
<1>2. \A y \in Runners \ {x} : Knows(y)'
  BY <1>1 DEF OthersStay, Knows, AtWork
<1>3. \A y \in Runners : Knows(y)'
  BY <1>2
<1> QED BY <1>3 DEF RunnersKnow, Knows

\* A runner that rests carries nothing.
LEMMA RestingKnows ==
  ASSUME NEW x \in Runners, Rests(x)'
  PROVE  Knows(x)'
BY DEF Rests, Knows, AtWork, UnderLease, WithSyscall

\* A place under the lease without a syscall to run.
LEMMA MovedOnKnows ==
  ASSUME RowInv, NEW x \in Runners, runner[x].pc \in UnderLease,
         NEW pc \in {"tail", "complete", "release"}, Goto(x, pc)
  PROVE  runner' \in [Runners -> RunnerStates] /\ OthersStay(x) /\ Knows(x)'
<1>1. pc \in {"idle", "acquire", "done"} \cup UnderLease
  BY DEF UnderLease
<1>2. runner \in [Runners -> RunnerStates] /\ Knows(x)
  BY DEF RowInv, ExecutionTypeOK, RunnersKnow, Knows
<1> QED BY <1>1, <1>2, GotoFields DEF Knows, AtWork, UnderLease, WithSyscall

\* Only permitted or executing is overwritten, and not by nothing.
LEMMA WriteKeepsRows ==
  ASSUME RowInv, NEW x \in Runners, runner[x].pc \in WithSyscall,
         NEW status \in SyscallStates \ {"absent"}, NEW next \in UnderLease,
         WriteStatus(x, status, next), Knows(x)'
  PROVE  RowInv'
<1>1. /\ runner' \in [Runners -> RunnerStates] /\ OthersStay(x)
      /\ syscall' \in [Requests -> SyscallStates]
      /\ worklist' \in {worklist, {}}
      /\ UNCHANGED <<storeVars, decided, lease, calls, faults>>
  BY WriteFields
<1>2. \A a \in Requests : syscall'[a] # "absent" <=> syscall[a] # "absent"
  <2> TAKE a \in Requests
  <2>1. CASE a = runner[x].op
    BY <2>1, WriteFields DEF Writable
  <2>2. CASE a # runner[x].op
    BY <2>2, WriteFields
  <2> QED BY <2>1, <2>2
<1>3. ExecutionTypeOK'
  BY <1>1 DEF RowInv, ExecutionTypeOK, StoreTypeOK, storeVars
<1>4. OwnApproval' /\ PermittedIffConsumed'
  BY <1>1, <1>2 DEF RowInv, OwnApproval, PermittedIffConsumed, storeVars
<1>5. RunnersKnow'
  BY <1>1, KnowledgeStays DEF RowInv
<1> QED BY <1>3, <1>4, <1>5 DEF RowInv

\* Every step keeps the rows and what runners carry.
LEMMA RowsStay == RowInv /\ [Next]_vars => RowInv'
<1> SUFFICES ASSUME RowInv, [Next]_vars PROVE RowInv'
  OBVIOUS
<1>0. /\ runner \in [Runners -> RunnerStates] /\ syscall \in [Requests -> SyscallStates]
      /\ decided \in [Requests -> [Keys -> Choices \cup {NoRow}]]
      /\ StoreTypeOK /\ RunnersKnow
      /\ \A x \in Runners : Knows(x)
      /\ "approve" \in Choices /\ "deny" \in Choices
  BY DEF RowInv, ExecutionTypeOK, RunnersKnow, Knows, Choices
<1>1. ASSUME NEW d \in Runners, NEW a \in Requests, NEW c \in Choices, StartRun(d, a, c)
      PROVE  runner' \in [Runners -> RunnerStates] /\ OthersStay(d) /\ Knows(d)'
  <2>1. approval[a].op = a
    BY DEF RowInv, OwnApproval
  <2> QED BY <1>0, <1>1, <2>1, StartFields DEF Knows, AtWork, UnderLease, WithSyscall
<1>2. ASSUME NEW d \in Decisions, NEW a \in Requests, NEW k \in Keys \cup {NoKey},
             ReplayDecision(d, a, k)
      PROVE RowInv'
  <2>1. d \in Runners /\ StoredChoice(a, k) \in Choices
    BY <1>0, <1>2, StoredChoiceType DEF Runners, ReplayDecision
  <2>2. runner' \in [Runners -> RunnerStates] /\ OthersStay(d) /\ Knows(d)'
    BY <1>1, <1>2, <2>1 DEF ReplayDecision
  <2>3. RunnersKnow'
    BY <1>0, <2>1, <2>2, KnowledgeStays
  <2> QED BY <1>2, <2>2, <2>3
    DEF ReplayDecision, RowInv, ExecutionTypeOK, StoreTypeOK, storeVars, OwnApproval,
        PermittedIffConsumed
<1>3. ASSUME NEW d \in Decisions, NEW a \in Requests, NEW k \in Keys \cup {NoKey},
             Approve(d, a, k)
      PROVE RowInv'
  <2>1. d \in Runners /\ approval[a].op = a
    BY DEF Runners, RowInv, OwnApproval
  <2>2. runner' \in [Runners -> RunnerStates] /\ OthersStay(d) /\ Knows(d)'
    BY <1>0, <1>1, <1>3, <2>1 DEF Approve
  <2>3. RunnersKnow'
    BY <1>0, <2>1, <2>2, KnowledgeStays
  <2>4. /\ operation' \in [Requests -> OperationStates]
        /\ transitions' \in [Requests -> SUBSET (OperationStates \X OperationStates)]
    BY <1>0, <1>3, <2>1, RecordStateType DEF Approve, OperationStates
  <2>5. decided' \in [Requests -> [Keys -> Choices \cup {NoRow}]]
    BY <1>0, <1>3, StoreChoiceType DEF Approve
  <2>6. approval' \in [Requests -> ApprovalRows] /\ syscall' \in [Requests -> SyscallStates]
    BY <1>0, <1>3 DEF Approve, StoreTypeOK, ApprovalRows, SyscallStates
  <2>7. ExecutionTypeOK'
    BY <1>3, <2>2, <2>4, <2>5, <2>6
    DEF Approve, RowInv, ExecutionTypeOK, StoreTypeOK
  <2>8. OwnApproval' /\ PermittedIffConsumed'
    BY <1>0, <1>3
    DEF Approve, RowInv, OwnApproval, PermittedIffConsumed, StoreTypeOK, ApprovalRows
  <2> QED BY <2>3, <2>7, <2>8 DEF RowInv
<1>4. ASSUME NEW d \in Decisions, NEW a \in Requests, NEW k \in Keys \cup {NoKey},
             Deny(d, a, k)
      PROVE RowInv'
  <2>1. d \in Runners /\ approval[a].op = a
    BY DEF Runners, RowInv, OwnApproval
  <2>2. runner' \in [Runners -> RunnerStates] /\ OthersStay(d) /\ Knows(d)'
    BY <1>0, <1>1, <1>4, <2>1 DEF Deny
  <2>3. RunnersKnow'
    BY <1>0, <2>1, <2>2, KnowledgeStays
  <2>4. /\ operation' \in [Requests -> OperationStates]
        /\ transitions' \in [Requests -> SUBSET (OperationStates \X OperationStates)]
    BY <1>0, <1>4, <2>1, RecordStateType DEF Deny, OperationStates, TerminalStates
  <2>5. decided' \in [Requests -> [Keys -> Choices \cup {NoRow}]]
    BY <1>0, <1>4, StoreChoiceType DEF Deny
  <2>6. approval' \in [Requests -> ApprovalRows]
    BY <1>0, <1>4 DEF Deny, StoreTypeOK, ApprovalRows
  <2>7. ExecutionTypeOK'
    BY <1>4, <2>2, <2>4, <2>5, <2>6
    DEF Deny, RowInv, ExecutionTypeOK, StoreTypeOK
  <2>8. OwnApproval' /\ PermittedIffConsumed'
    BY <1>0, <1>4
    DEF Deny, Decidable, RowInv, OwnApproval, PermittedIffConsumed, StoreTypeOK,
        ApprovalRows
  <2> QED BY <2>3, <2>7, <2>8 DEF RowInv
<1>5. CASE ListRecoverable
  BY <1>5
  DEF ListRecoverable, Recoverable, RowInv, ExecutionTypeOK, StoreTypeOK, storeVars,
      OwnApproval, PermittedIffConsumed, RunnersKnow, AtWork
<1>6. CASE PickRecoverable
  <2>1. PICK a \in worklist : worklist' = worklist \ {a} /\ StartRun(Recovery, a, "approve")
    BY <1>6 DEF PickRecoverable
  <2>2. Recovery \in Runners /\ a \in Requests
    BY DEF Runners, RowInv, ExecutionTypeOK
  <2>3. runner' \in [Runners -> RunnerStates] /\ OthersStay(Recovery) /\ Knows(Recovery)'
    BY <1>0, <1>1, <2>1, <2>2
  <2>4. RunnersKnow'
    BY <1>0, <2>2, <2>3, KnowledgeStays
  <2> QED BY <1>6, <2>1, <2>3, <2>4
    DEF PickRecoverable, RowInv, ExecutionTypeOK, StoreTypeOK, storeVars, OwnApproval,
        PermittedIffConsumed
<1>7. ASSUME NEW x \in Runners, NEW ok \in BOOLEAN, Leave(x, ok),
             UNCHANGED <<storeVars, syscall, decided, calls>>,
             lease' \in [Requests -> Leases],
             faults' \in [errors : 0 .. MaxFaults, overruns : 0 .. MaxOverruns]
      PROVE  RowInv'
  <2>1. runner' \in [Runners -> RunnerStates] /\ Rests(x)' /\ OthersStay(x)
        /\ worklist' \in {worklist, {}}
    BY <1>0, <1>7, LeaveFields
  <2>2. RunnersKnow'
    BY <1>0, <2>1, KnowledgeStays, RestingKnows
  <2> QED BY <1>7, <2>1, <2>2
    DEF RowInv, ExecutionTypeOK, StoreTypeOK, storeVars, OwnApproval, PermittedIffConsumed
<1>8. ASSUME NEW x \in Runners, OthersStay(x), Knows(x)',
             runner' \in [Runners -> RunnerStates], lease' \in [Requests -> Leases],
             calls' \in [Requests -> Nat], worklist' \in {worklist, {}},
             faults' \in [errors : 0 .. MaxFaults, overruns : 0 .. MaxOverruns],
             UNCHANGED <<storeVars, syscall, decided>>
      PROVE  RowInv'
  <2>1. RunnersKnow'
    BY <1>0, <1>8, KnowledgeStays
  <2> QED BY <1>8, <2>1
    DEF RowInv, ExecutionTypeOK, StoreTypeOK, storeVars, OwnApproval, PermittedIffConsumed
<1>9. ASSUME NEW x \in Runners, AcquireLease(x) PROVE RowInv'
  <2>1. /\ runner[x].op \in Requests /\ runner[x].todo \in {NoRow, runner[x].op}
        /\ runner[x].tries = 0 /\ runner[x] \in RunnerStates
    BY <1>0, <1>9 DEF AcquireLease, Knows, AtWork
  <2>2. lease[runner[x].op].epoch \in Nat
    BY <2>1 DEF RowInv, ExecutionTypeOK, Leases
  <2>3. NextEpoch(x, runner[x].op) \in Nat
    BY <2>2 DEF NextEpoch
  <2>4. lease' \in [Requests -> Leases]
    BY <1>9, <2>1, <2>3 DEF AcquireLease, RowInv, ExecutionTypeOK, Leases
  <2>5. /\ runner' \in [Runners -> RunnerStates] /\ OthersStay(x)
        /\ runner'[x].op = runner[x].op /\ runner'[x].todo = runner[x].todo
        /\ runner'[x].tries = 0
        /\ runner'[x].pc = IF runner[x].todo = NoRow THEN "tail" ELSE "read"
    BY <1>0, <1>9, <2>1, <2>3 DEF AcquireLease, RunnerStates, UnderLease, OthersStay
  <2>6. Knows(x)'
    BY <2>1, <2>5 DEF Knows, AtWork, UnderLease, WithSyscall
  <2> QED BY <1>8, <1>9, <2>4, <2>5, <2>6 DEF AcquireLease, RowInv, ExecutionTypeOK
<1>10. ASSUME NEW x \in Runners, LeaseRefused(x) PROVE RowInv'
  BY <1>7, <1>10 DEF LeaseRefused, RowInv, ExecutionTypeOK
<1>11. ASSUME NEW x \in Runners, ReadSyscall(x) PROVE RowInv'
  <2>1. runner[x].pc = "read" /\ runner[x].pc \in WithSyscall /\ runner[x].pc \in UnderLease
    BY <1>11 DEF ReadSyscall, WithSyscall, UnderLease
  <2>2. runner' \in [Runners -> RunnerStates] /\ OthersStay(x) /\ Knows(x)'
    <3>1. CASE syscall[runner[x].todo] = "permitted"
      <4>1. Goto(x, "claim") /\ "claim" \in UnderLease
        BY <1>11, <3>1 DEF ReadSyscall, UnderLease
      <4> QED BY <1>0, <2>1, <4>1, GotoFields DEF Knows, AtWork, WithSyscall
    <3>2. CASE syscall[runner[x].todo] # "permitted"
      <4>1. Goto(x, "tail")
        BY <1>11, <3>2 DEF ReadSyscall
      <4> QED BY <2>1, <4>1, MovedOnKnows
    <3> QED BY <3>1, <3>2
  <2> QED BY <1>8, <1>11, <2>2 DEF ReadSyscall, RowInv, ExecutionTypeOK
<1>12. ASSUME NEW x \in Runners, ClaimSyscall(x) PROVE RowInv'
  <2>1. /\ runner[x].pc = "claim" /\ WriteStatus(x, "executing", "call")
        /\ runner[x].pc \in WithSyscall
    BY <1>12 DEF ClaimSyscall, WithSyscall
  <2>2. "executing" \in SyscallStates \ {"absent"} /\ "call" \in UnderLease
    BY DEF SyscallStates, UnderLease
  <2>3. /\ runner'[x].op = runner[x].op /\ runner'[x].todo = runner[x].todo
        /\ runner'[x].tries = runner[x].tries
        /\ runner'[x].pc \in {"call", "release"}
    BY <2>1, <2>2, WriteFields
  <2>4. Knows(x)'
    BY <1>0, <2>1, <2>3, ExecutionAssumption
    DEF Knows, AtWork, UnderLease, WithSyscall
  <2> QED BY <2>1, <2>2, <2>4, WriteKeepsRows
<1>13. ASSUME NEW x \in Runners, CallTool(x) PROVE RowInv'
  <2>1. PICK acts \in BOOLEAN, answers \in BOOLEAN :
          /\ calls' = IF acts THEN [calls EXCEPT ![runner[x].todo] = @ + 1] ELSE calls
          /\ runner' = [runner EXCEPT
               ![x].tries = @ + 1,
               ![x].pc = IF answers THEN "settle"
                         ELSE IF runner[x].tries + 1 < RetryAttempts THEN "call"
                         ELSE "fail"]
    BY <1>13 DEF CallTool
  <2>2. /\ runner[x].pc = "call" /\ runner[x] \in RunnerStates
        /\ runner[x].tries < RetryAttempts /\ runner[x].tries \in Nat
        /\ runner[x].tries + 1 \in 0 .. RetryAttempts
    BY <1>0, <1>13, ExecutionAssumption DEF CallTool, Knows, RunnerStates
  <2>3. /\ runner' \in [Runners -> RunnerStates] /\ OthersStay(x)
        /\ runner'[x].op = runner[x].op /\ runner'[x].todo = runner[x].todo
        /\ runner'[x].tries = runner[x].tries + 1
        /\ runner'[x].pc = IF answers THEN "settle"
                           ELSE IF runner[x].tries + 1 < RetryAttempts THEN "call"
                           ELSE "fail"
    BY <1>0, <2>1, <2>2 DEF RunnerStates, UnderLease, OthersStay
  <2>4. Knows(x)'
    BY <1>0, <2>2, <2>3 DEF Knows, AtWork, UnderLease, WithSyscall
  <2>5. calls' \in [Requests -> Nat]
    <3>1. calls \in [Requests -> Nat]
      BY DEF RowInv, ExecutionTypeOK
    <3>2. runner[x].todo \in Requests
      BY <2>2, SyscallOfRunner DEF WithSyscall
    <3>3. calls[runner[x].todo] + 1 \in Nat
      BY <3>1, <3>2
    <3> QED BY <2>1, <3>1, <3>2, <3>3
  <2> QED BY <1>8, <1>13, <2>3, <2>4, <2>5 DEF CallTool, RowInv, ExecutionTypeOK
<1>14. ASSUME NEW x \in Runners, SettleSyscall(x) PROVE RowInv'
  <2>1. /\ runner[x].pc = "settle" /\ WriteStatus(x, "executed", "tail")
        /\ runner[x].pc \in WithSyscall
    BY <1>14 DEF SettleSyscall, WithSyscall
  <2>2. "executed" \in SyscallStates \ {"absent"} /\ "tail" \in UnderLease
    BY DEF SyscallStates, UnderLease
  <2>3. /\ runner'[x].op = runner[x].op /\ runner'[x].todo = runner[x].todo
        /\ runner'[x].pc \in {"tail", "release"}
    BY <2>1, <2>2, WriteFields
  <2>4. Knows(x)'
    BY <1>0, <2>1, <2>3 DEF Knows, AtWork, UnderLease, WithSyscall
  <2> QED BY <2>1, <2>2, <2>4, WriteKeepsRows
<1>15. ASSUME NEW x \in Runners, FailSyscall(x) PROVE RowInv'
  <2>1. /\ runner[x].pc = "fail" /\ WriteStatus(x, "failed", "fail_op")
        /\ runner[x].pc \in WithSyscall
    BY <1>15 DEF FailSyscall, WithSyscall
  <2>2. "failed" \in SyscallStates \ {"absent"} /\ "fail_op" \in UnderLease
    BY DEF SyscallStates, UnderLease
  <2>3. /\ runner'[x].op = runner[x].op /\ runner'[x].todo = runner[x].todo
        /\ runner'[x].pc \in {"fail_op", "release"}
    BY <2>1, <2>2, WriteFields
  <2>4. Knows(x)'
    BY <1>0, <2>1, <2>3 DEF Knows, AtWork, UnderLease, WithSyscall
  <2> QED BY <2>1, <2>2, <2>4, WriteKeepsRows
<1>16. ASSUME NEW x \in Runners, NEW s \in OperationStates,
              NEW pc \in {"tail", "release"}, runner[x].pc \in UnderLease,
              UpdateOperationState(runner[x].op, s), Goto(x, pc),
              UNCHANGED <<anchors, approval, syscall, decided, lease, worklist,
                          calls, faults>>
       PROVE RowInv'
  <2>1. runner' \in [Runners -> RunnerStates] /\ OthersStay(x) /\ Knows(x)'
    BY <1>16, MovedOnKnows
  <2>2. RunnersKnow'
    BY <1>0, <2>1, KnowledgeStays
  <2>3. runner[x].op \in Requests
    BY <1>0, <1>16 DEF Knows, AtWork
  <2>4. /\ operation' \in [Requests -> OperationStates]
        /\ transitions' \in [Requests -> SUBSET (OperationStates \X OperationStates)]
    BY <1>0, <1>16, <2>3, RecordStateType DEF UpdateOperationState
  <2> QED BY <1>16, <2>1, <2>2, <2>4
    DEF RowInv, ExecutionTypeOK, StoreTypeOK, OwnApproval, PermittedIffConsumed
<1>17. ASSUME NEW x \in Runners, FailOperation(x) PROVE RowInv'
  BY <1>16, <1>17 DEF FailOperation, UnderLease, OperationStates, TerminalStates
<1>18. ASSUME NEW x \in Runners, InspectOperation(x) PROVE RowInv'
  <2>1. PICK pc \in {"complete", "release"} : Goto(x, pc)
    BY <1>18 DEF InspectOperation
  <2>2. runner' \in [Runners -> RunnerStates] /\ OthersStay(x) /\ Knows(x)'
    BY <1>18, <2>1, MovedOnKnows DEF InspectOperation, UnderLease
  <2> QED BY <1>8, <1>18, <2>2 DEF InspectOperation, RowInv, ExecutionTypeOK
<1>19. ASSUME NEW x \in Runners, CompleteOperation(x) PROVE RowInv'
  BY <1>16, <1>19 DEF CompleteOperation, UnderLease, OperationStates, TerminalStates
<1>20. ASSUME NEW x \in Runners, ReleaseLease(x) PROVE RowInv'
  <2>1. lease' \in [Requests -> Leases]
    BY <1>20 DEF ReleaseLease, RowInv, ExecutionTypeOK, Leases, NoLease
  <2>2. PICK ok \in BOOLEAN : Leave(x, ok)
    BY <1>20 DEF ReleaseLease
  <2> QED BY <1>7, <1>20, <2>1, <2>2 DEF ReleaseLease, RowInv, ExecutionTypeOK
<1>21. ASSUME Fault PROVE faults' \in [errors : 0 .. MaxFaults, overruns : 0 .. MaxOverruns]
  <2>1. faults \in [errors : 0 .. MaxFaults, overruns : 0 .. MaxOverruns]
    BY DEF RowInv, ExecutionTypeOK
  <2>2. faults.errors + 1 \in 0 .. MaxFaults
    BY <1>21, <2>1, ExecutionAssumption DEF Fault
  <2> QED BY <1>21, <2>1, <2>2 DEF Fault
<1>22. ASSUME NEW x \in Runners, StorageError(x) PROVE RowInv'
  <2>1. faults' \in [errors : 0 .. MaxFaults, overruns : 0 .. MaxOverruns]
    BY <1>21, <1>22 DEF StorageError
  <2>2. CASE /\ runner[x].pc \in UnderLease \ {"call", "release"}
             /\ Goto(x, "release") /\ EndTick(x)
    <3>1. runner' \in [Runners -> RunnerStates] /\ OthersStay(x) /\ Knows(x)'
      BY <2>2, MovedOnKnows
    <3>2. worklist' \in {worklist, {}}
      BY <2>2 DEF EndTick
    <3> QED BY <1>8, <1>22, <2>1, <2>2, <3>1, <3>2 DEF StorageError, RowInv, ExecutionTypeOK
  <2>3. CASE Leave(x, FALSE)
    BY <1>7, <1>22, <2>1, <2>3 DEF StorageError, RowInv, ExecutionTypeOK
  <2> QED BY <1>22, <2>2, <2>3 DEF StorageError
<1>23. ASSUME NEW d \in Decisions, DropConnection(d) PROVE RowInv'
  <2>1. d \in Runners
    BY DEF Runners
  <2>2. runner' \in [Runners -> RunnerStates] /\ OthersStay(d) /\ Rests(d)'
    BY <1>0, <1>23, <2>1, RestingRunners DEF DropConnection, OthersStay, Rests
  <2> QED BY <1>8, <1>21, <1>23, <2>1, <2>2, RestingKnows
    DEF DropConnection, RowInv, ExecutionTypeOK
<1>24. CASE Crash
  <2>1. runner' \in [Runners -> RunnerStates] /\ \A x \in Runners : Rests(x)'
    BY <1>0, <1>24, RestingRunners DEF Crash, Rests
  <2>2. RunnersKnow'
    BY <2>1, RestingKnows DEF RunnersKnow, Knows
  <2> QED BY <1>21, <1>24, <2>1, <2>2
    DEF Crash, RowInv, ExecutionTypeOK, StoreTypeOK, storeVars, OwnApproval,
        PermittedIffConsumed
<1>25. ASSUME NEW o \in Requests, ExpireLease(o) PROVE RowInv'
  <2>1. lease' \in [Requests -> Leases]
    BY <1>25 DEF ExpireLease, RowInv, ExecutionTypeOK, Leases
  <2>2. faults \in [errors : 0 .. MaxFaults, overruns : 0 .. MaxOverruns]
    BY DEF RowInv, ExecutionTypeOK
  <2>3. faults' \in [errors : 0 .. MaxFaults, overruns : 0 .. MaxOverruns]
    <3>1. CASE UNCHANGED faults
      BY <2>2, <3>1
    <3>2. CASE /\ faults.overruns < MaxOverruns
               /\ faults' = [faults EXCEPT !.overruns = @ + 1]
      <4>1. faults.overruns + 1 \in 0 .. MaxOverruns
        BY <2>2, <3>2, ExecutionAssumption
      <4> QED BY <2>2, <3>2, <4>1
    <3> QED BY <1>25, <3>1, <3>2 DEF ExpireLease
  <2> QED BY <1>25, <2>1, <2>3
    DEF ExpireLease, RowInv, ExecutionTypeOK, StoreTypeOK, storeVars, OwnApproval,
        PermittedIffConsumed, RunnersKnow, AtWork
<1>26. ASSUME NEW o \in Requests, Cancel(o) PROVE RowInv'
  <2>1. /\ operation' \in [Requests -> OperationStates]
        /\ transitions' \in [Requests -> SUBSET (OperationStates \X OperationStates)]
    BY <1>0, <1>26, RecordStateType DEF Cancel, CancelOperation, OperationStates, TerminalStates
  <2> QED BY <1>26, <2>1
    DEF Cancel, CancelOperation, execVars, RowInv, ExecutionTypeOK, StoreTypeOK, OwnApproval,
        PermittedIffConsumed, RunnersKnow, AtWork
<1>27. CASE UNCHANGED vars
  BY <1>27
  DEF vars, execVars, storeVars, RowInv, ExecutionTypeOK, StoreTypeOK, OwnApproval,
      PermittedIffConsumed, RunnersKnow, AtWork
<1> QED
  BY <1>2, <1>3, <1>4, <1>5, <1>6, <1>9, <1>10, <1>11, <1>12, <1>13, <1>14, <1>15,
     <1>17, <1>18, <1>19, <1>20, <1>22, <1>23, <1>24, <1>25, <1>26, <1>27
  DEF Next, Decide, Recover, Run

\* Before the first decision.
LEMMA InitRows == Init => RowInv
<1> SUFFICES ASSUME Init PROVE RowInv
  OBVIOUS
<1>1. 0 \in 0 .. MaxFaults /\ 0 \in 0 .. MaxOverruns
  BY ExecutionAssumption
<1>2. faults \in [errors : 0 .. MaxFaults, overruns : 0 .. MaxOverruns]
  BY <1>1 DEF Init, ExecInit
<1>3. StoreTypeOK
  BY DEF Init, StoreTypeOK, OperationStates, TerminalStates, Anchors, ApprovalRows
<1>4. ExecutionTypeOK
  BY <1>2, <1>3, RestingRunners
  DEF Init, ExecInit, ExecutionTypeOK, SyscallStates, Leases, NoLease
<1>5. OwnApproval /\ RunnersKnow /\ PermittedIffConsumed
  BY RestingRunners
  DEF Init, ExecInit, OwnApproval, RunnersKnow, PermittedIffConsumed, AtWork, UnderLease,
      WithSyscall, IdleRunner
<1> QED BY <1>4, <1>5 DEF RowInv

\* The rows and the runners' locals in every reachable state.
LEMMA RowInvariance == Spec => []RowInv
BY InitRows, RowsStay, PTL DEF Spec

\* Every variable keeps its type: the counters of faults, attempts and epochs
\* among them.
THEOREM ExecutionTypeCorrect == Spec => []ExecutionTypeOK
<1>1. RowInv => ExecutionTypeOK
  BY DEF RowInv
<1> QED BY <1>1, RowInvariance, PTL

\* A syscall exists exactly for a consumed approval, whatever handlers,
\* recovery and faults do (consume_approval_atomic).
THEOREM PermissionNeedsConsumption == Spec => []PermittedIffConsumed
<1>1. RowInv => PermittedIffConsumed
  BY DEF RowInv
<1> QED BY <1>1, RowInvariance, PTL

-----------------------------------------------------------------------------
(* The results on record                                                   *)

\* The syscall was claimed at some time.
Begun(a) == syscall[a] \in {"executing", "executed", "failed"}

\* What a runner is about to record has happened.
Shows(x) ==
  /\ runner[x].pc \in {"call", "settle", "fail"} => Begun(runner[x].op)
  /\ runner[x].pc = "settle" => calls[runner[x].op] > 0
  /\ runner[x].pc = "fail_op" => syscall[runner[x].op] = "failed"
  /\ runner[x].pc = "complete" => syscall[runner[x].op] = "executed"

\* The rows of an operation agree about what has happened.
Honest(a) ==
  /\ approval[a].status = "consumed" =>
       <<"awaiting_approval", "running">> \in transitions[a]
  /\ calls[a] > 0 => Begun(a)
  /\ syscall[a] = "executed" => calls[a] > 0
  /\ operation[a] = "completed" => syscall[a] = "executed"
  /\ operation[a] = "failed" => syscall[a] = "failed"

ResultInv == (\A x \in Runners : Shows(x)) /\ (\A a \in Requests : Honest(a))

\* No step takes a result back.
Advance ==
  \A a \in Requests :
    /\ calls[a] > 0 => calls'[a] > 0
    /\ Begun(a) => Begun(a)'
    /\ syscall[a] = "executed" => syscall'[a] = "executed"
    /\ syscall[a] = "failed" => syscall'[a] = "failed"

\* A storage error or the tool's failure is written over the claim only: a
\* settled syscall keeps its status.
LEMMA WriteAdvances ==
  ASSUME RowInv, NEW x \in Runners, runner[x].pc \in WithSyscall,
         NEW status \in {"executing", "executed", "failed"}, NEW next \in UnderLease,
         WriteStatus(x, status, next)
  PROVE  Advance
<1>1. /\ calls' = calls
      /\ \A a \in Requests \ {runner[x].op} : syscall'[a] = syscall[a]
      /\ \/ Writable(runner[x].op) /\ syscall'[runner[x].op] = status
         \/ syscall' = syscall
  BY WriteFields DEF SyscallStates
<1>2. SUFFICES ASSUME NEW a \in Requests
      PROVE  /\ calls[a] > 0 => calls'[a] > 0
             /\ Begun(a) => Begun(a)'
             /\ syscall[a] = "executed" => syscall'[a] = "executed"
             /\ syscall[a] = "failed" => syscall'[a] = "failed"
  BY DEF Advance
<1>3. CASE a = runner[x].op /\ Writable(a) /\ syscall'[a] = status
  BY <1>1, <1>3 DEF Writable, Begun
<1>4. CASE syscall'[a] = syscall[a]
  BY <1>1, <1>4 DEF Begun
<1> QED BY <1>1, <1>3, <1>4

\* The tool's acts are counted.
LEMMA CallFields ==
  ASSUME RowInv, NEW x \in Runners, CallTool(x)
  PROVE  /\ runner' \in [Runners -> RunnerStates] /\ OthersStay(x)
         /\ runner[x].pc = "call" /\ runner[x].op \in Requests
         /\ runner[x].tries \in Nat /\ runner[x].tries < RetryAttempts
         /\ runner'[x].op = runner[x].op /\ runner'[x].todo = runner[x].todo
         /\ runner'[x].epoch = runner[x].epoch
         /\ runner'[x].tries = runner[x].tries + 1
         /\ runner'[x].pc \in {"call", "settle", "fail"}
         /\ runner'[x].pc = "call" => runner[x].tries + 1 < RetryAttempts
         /\ calls' \in [Requests -> Nat]
         /\ \A a \in Requests \ {runner[x].op} : calls'[a] = calls[a]
         /\ \/ calls'[runner[x].op] = calls[runner[x].op] + 1
            \/ calls' = calls /\ runner'[x].pc # "settle"
         /\ UNCHANGED <<storeVars, syscall, decided, lease, worklist, faults>>
<1>1. PICK acts \in BOOLEAN, answers \in BOOLEAN :
        /\ answers => acts
        /\ calls' = IF acts THEN [calls EXCEPT ![runner[x].todo] = @ + 1] ELSE calls
        /\ runner' = [runner EXCEPT
             ![x].tries = @ + 1,
             ![x].pc = IF answers THEN "settle"
                       ELSE IF runner[x].tries + 1 < RetryAttempts THEN "call"
                       ELSE "fail"]
  BY DEF CallTool
<1>2. /\ runner \in [Runners -> RunnerStates] /\ runner[x] \in RunnerStates
      /\ runner[x].pc = "call" /\ runner[x].tries \in Nat
      /\ runner[x].tries < RetryAttempts
      /\ runner[x].tries + 1 \in 0 .. RetryAttempts
      /\ calls \in [Requests -> Nat]
  BY ExecutionAssumption
  DEF CallTool, RowInv, ExecutionTypeOK, RunnersKnow, RunnerStates
<1>3. runner[x].todo = runner[x].op /\ runner[x].op \in Requests
  BY <1>2, SyscallOfRunner DEF WithSyscall
<1>4. calls[runner[x].op] + 1 \in Nat
  BY <1>2, <1>3
<1>5. /\ runner' \in [Runners -> RunnerStates] /\ OthersStay(x)
      /\ runner'[x].op = runner[x].op /\ runner'[x].todo = runner[x].todo
      /\ runner'[x].epoch = runner[x].epoch
      /\ runner'[x].tries = runner[x].tries + 1
      /\ runner'[x].pc = IF answers THEN "settle"
                         ELSE IF runner[x].tries + 1 < RetryAttempts THEN "call"
                         ELSE "fail"
  BY <1>1, <1>2 DEF RunnerStates, UnderLease, OthersStay
<1>6. /\ calls' \in [Requests -> Nat]
      /\ \A a \in Requests \ {runner[x].op} : calls'[a] = calls[a]
      /\ IF acts THEN calls'[runner[x].op] = calls[runner[x].op] + 1 ELSE calls' = calls
  BY <1>1, <1>2, <1>3, <1>4
<1> QED BY <1>1, <1>2, <1>3, <1>5, <1>6 DEF CallTool

\* The results of a step are those of the step before, or more.
LEMMA ResultsAdvance == RowInv /\ [Next]_vars => Advance
<1> SUFFICES ASSUME RowInv, [Next]_vars PROVE Advance
  OBVIOUS
<1>1. CASE UNCHANGED <<syscall, calls>>
  BY <1>1 DEF Advance, Begun
<1>2. ASSUME NEW d \in Decisions, NEW a \in Requests, NEW k \in Keys \cup {NoKey},
             Approve(d, a, k)
      PROVE Advance
  BY <1>2 DEF Approve, Advance, Begun, RowInv, ExecutionTypeOK
<1>3. ASSUME NEW x \in Runners, ClaimSyscall(x) PROVE Advance
  BY <1>3, WriteAdvances DEF ClaimSyscall, WithSyscall, UnderLease
<1>4. ASSUME NEW x \in Runners, SettleSyscall(x) PROVE Advance
  BY <1>4, WriteAdvances DEF SettleSyscall, WithSyscall, UnderLease
<1>5. ASSUME NEW x \in Runners, FailSyscall(x) PROVE Advance
  BY <1>5, WriteAdvances DEF FailSyscall, WithSyscall, UnderLease
<1>6. ASSUME NEW x \in Runners, CallTool(x) PROVE Advance
  <2>1. \A a \in Requests : calls[a] \in Nat /\ calls'[a] \in Nat /\ calls'[a] >= calls[a]
    BY <1>6, CallFields DEF RowInv, ExecutionTypeOK
  <2> QED BY <1>6, <2>1, CallFields DEF Advance, Begun
<1>7. ASSUME NEW x \in Runners,
             \/ AcquireLease(x) \/ LeaseRefused(x) \/ ReadSyscall(x) \/ FailOperation(x)
             \/ InspectOperation(x) \/ CompleteOperation(x) \/ ReleaseLease(x)
             \/ StorageError(x)
      PROVE UNCHANGED <<syscall, calls>>
  BY <1>7
  DEF AcquireLease, LeaseRefused, ReadSyscall, FailOperation, InspectOperation,
      CompleteOperation, ReleaseLease, StorageError
<1>8. ASSUME NEW d \in Decisions, NEW a \in Requests, NEW k \in Keys \cup {NoKey},
             ReplayDecision(d, a, k) \/ Deny(d, a, k)
      PROVE UNCHANGED <<syscall, calls>>
  BY <1>8 DEF ReplayDecision, Deny
<1>9. ASSUME Recover \/ Crash PROVE UNCHANGED <<syscall, calls>>
  BY <1>9 DEF Recover, ListRecoverable, PickRecoverable, Crash
<1>10. ASSUME NEW o \in Requests, ExpireLease(o) \/ Cancel(o)
       PROVE UNCHANGED <<syscall, calls>>
  BY <1>10 DEF ExpireLease, Cancel, execVars
<1>11. ASSUME NEW d \in Decisions, DropConnection(d) PROVE UNCHANGED <<syscall, calls>>
  BY <1>11 DEF DropConnection
<1>12. CASE UNCHANGED vars
  BY <1>1, <1>12 DEF vars, execVars
<1> QED
  BY <1>1, <1>2, <1>3, <1>4, <1>5, <1>6, <1>7, <1>8, <1>9, <1>10, <1>11, <1>12
  DEF Next, Decide, Run

\* Steps of one runner leave the results of the others.
LEMMA ResultsStay ==
  ASSUME RowInv, ResultInv, Advance, NEW x \in Runners, OthersStay(x), Shows(x)',
         \A a \in Requests : Honest(a)'
  PROVE  ResultInv'
<1>1. ASSUME NEW y \in Runners \ {x} PROVE Shows(y)'
  <2>1. runner'[y] = runner[y] /\ Shows(y)
    BY DEF OthersStay, ResultInv
  <2>2. runner[y].pc \in {"call", "settle", "fail", "fail_op", "complete"} =>
          runner[y].op \in Requests
    BY DEF RowInv, RunnersKnow, AtWork, UnderLease
  <2> QED BY <2>1, <2>2 DEF Shows, Advance
<1>2. \A y \in Runners : Shows(y)'
  BY <1>1
<1> QED BY <1>2 DEF ResultInv

\* At most other places there is nothing to show.
LEMMA NothingToShow ==
  ASSUME NEW x \in Runners,
         runner[x].pc \notin {"call", "settle", "fail", "fail_op", "complete"}
  PROVE  Shows(x)
BY DEF Shows

\* A status that keeps the rows of its operation honest.
LEMMA WriteStaysHonest ==
  ASSUME RowInv, ResultInv, NEW x \in Runners, runner[x].pc \in WithSyscall,
         NEW status \in {"executing", "executed", "failed"}, NEW next \in UnderLease,
         status = "executed" => calls[runner[x].op] > 0,
         WriteStatus(x, status, next)
  PROVE  \A a \in Requests : Honest(a)'
<1>1. /\ storeVars' = storeVars /\ calls' = calls
      /\ \A a \in Requests \ {runner[x].op} : syscall'[a] = syscall[a]
      /\ \/ Writable(runner[x].op) /\ syscall'[runner[x].op] = status
         \/ syscall' = syscall
  BY WriteFields DEF SyscallStates
<1>2. SUFFICES ASSUME NEW a \in Requests PROVE Honest(a)'
  OBVIOUS
<1>3. Honest(a) /\ operation' = operation /\ transitions' = transitions
      /\ approval' = approval
  BY <1>1 DEF ResultInv, storeVars
<1>4. CASE a = runner[x].op /\ Writable(a) /\ syscall'[a] = status
  BY <1>1, <1>3, <1>4 DEF Writable, Begun, Honest
<1>5. CASE syscall'[a] = syscall[a]
  BY <1>1, <1>3, <1>5 DEF Begun, Honest
<1> QED BY <1>1, <1>4, <1>5

\* Every step keeps the results.
LEMMA ResultsKept == RowInv /\ ResultInv /\ [Next]_vars => ResultInv'
<1> SUFFICES ASSUME RowInv, ResultInv, [Next]_vars PROVE ResultInv'
  OBVIOUS
<1>0. /\ Advance /\ RowInv' /\ runner \in [Runners -> RunnerStates]
      /\ syscall \in [Requests -> SyscallStates]
      /\ \A x \in Runners : Shows(x)
      /\ \A a \in Requests : Honest(a)
      /\ "approve" \in Choices /\ "deny" \in Choices
      /\ \A a \in Requests : approval[a].op = a
  BY ResultsAdvance, RowsStay
  DEF RowInv, ExecutionTypeOK, ResultInv, Choices, OwnApproval
\* Nothing but the runner's place, a lease or the faults changes.
<1>1. ASSUME NEW x \in Runners, OthersStay(x), Shows(x)',
             UNCHANGED <<storeVars, syscall, calls>>
      PROVE  ResultInv'
  <2>1. \A a \in Requests : Honest(a)'
    BY <1>0, <1>1 DEF storeVars, Honest, Begun
  <2> QED BY <1>0, <1>1, <2>1, ResultsStay
<1>2. ASSUME NEW d \in Runners, NEW a \in Requests, NEW c \in Choices, StartRun(d, a, c)
      PROVE  OthersStay(d) /\ Shows(d)'
  <2>1. OthersStay(d) /\ runner'[d].pc = "acquire"
    BY <1>0, <1>2, StartFields
  <2> QED BY <2>1 DEF Shows
<1>3. ASSUME NEW x \in Runners, NEW ok \in BOOLEAN, Leave(x, ok)
      PROVE  OthersStay(x) /\ Shows(x)'
  <2>1. OthersStay(x) /\ Rests(x)'
    BY <1>0, <1>3, LeaveFields
  <2> QED BY <2>1 DEF Rests, Shows
<1>4. ASSUME NEW x \in Runners, Goto(x, "release") \/ Goto(x, "tail") \/ Goto(x, "claim")
      PROVE  OthersStay(x) /\ Shows(x)'
  <2>1. OthersStay(x) /\ runner'[x].pc \in {"release", "tail", "claim"}
    BY <1>0, <1>4, GotoFields DEF UnderLease
  <2> QED BY <2>1 DEF Shows
<1>5. ASSUME NEW d \in Decisions, NEW a \in Requests, NEW k \in Keys \cup {NoKey},
             ReplayDecision(d, a, k)
      PROVE ResultInv'
  <2>1. d \in Runners /\ StoredChoice(a, k) \in Choices
    BY <1>5, StoredChoiceType DEF Runners, ReplayDecision, RowInv, ExecutionTypeOK
  <2> QED BY <1>1, <1>2, <1>5, <2>1 DEF ReplayDecision
<1>6. ASSUME NEW d \in Decisions, NEW a \in Requests, NEW k \in Keys \cup {NoKey},
             Approve(d, a, k)
      PROVE ResultInv'
  <2>1. d \in Runners /\ OthersStay(d) /\ Shows(d)'
    BY <1>0, <1>2, <1>6 DEF Runners, Approve
  <2>2. /\ operation \in [Requests -> OperationStates] /\ approval \in [Requests -> ApprovalRows]
        /\ transitions \in [Requests -> SUBSET (OperationStates \X OperationStates)]
    BY DEF RowInv, ExecutionTypeOK, StoreTypeOK
  <2>3. /\ operation' = [operation EXCEPT ![a] = "running"]
        /\ transitions' = [transitions EXCEPT ![a] =
             transitions[a] \cup {<<"awaiting_approval", "running">>}]
        /\ approval' = [approval EXCEPT ![a].status = "consumed"]
        /\ syscall' = [syscall EXCEPT ![a] = "permitted"]
        /\ syscall[a] = "absent" /\ calls' = calls
    BY <1>0, <1>6 DEF Approve, Decidable, RecordState
  <2>4. ASSUME NEW b \in Requests PROVE Honest(b)'
    <3>1. CASE b = a
      BY <1>0, <2>2, <2>3, <3>1 DEF Honest, Begun
    <3>2. CASE b # a
      BY <1>0, <2>2, <2>3, <3>2 DEF Honest, Begun
    <3> QED BY <3>1, <3>2
  <2> QED BY <1>0, <2>1, <2>4, ResultsStay
<1>7. ASSUME NEW d \in Decisions, NEW a \in Requests, NEW k \in Keys \cup {NoKey},
             Deny(d, a, k)
      PROVE ResultInv'
  <2>1. d \in Runners /\ OthersStay(d) /\ Shows(d)'
    BY <1>0, <1>2, <1>7 DEF Runners, Deny
  <2>2. /\ operation \in [Requests -> OperationStates] /\ approval \in [Requests -> ApprovalRows]
        /\ transitions \in [Requests -> SUBSET (OperationStates \X OperationStates)]
    BY DEF RowInv, ExecutionTypeOK, StoreTypeOK
  <2>3. /\ operation' = [operation EXCEPT ![a] = "blocked"]
        /\ transitions' = [transitions EXCEPT ![a] =
             transitions[a] \cup {<<operation[a], "blocked">>}]
        /\ approval' = [approval EXCEPT ![a].status = "denied"]
        /\ syscall' = syscall /\ calls' = calls
    BY <1>0, <1>7 DEF Deny, RecordState
  <2>4. ASSUME NEW b \in Requests PROVE Honest(b)'
    <3>1. CASE b = a
      BY <1>0, <2>2, <2>3, <3>1 DEF Honest, Begun
    <3>2. CASE b # a
      BY <1>0, <2>2, <2>3, <3>2 DEF Honest, Begun
    <3> QED BY <3>1, <3>2
  <2> QED BY <1>0, <2>1, <2>4, ResultsStay
<1>8. CASE ListRecoverable
  BY <1>0, <1>8 DEF ListRecoverable, storeVars, ResultInv, Shows, Honest, Begun
<1>9. CASE PickRecoverable
  <2>1. PICK a \in worklist : StartRun(Recovery, a, "approve")
    BY <1>9 DEF PickRecoverable
  <2>2. Recovery \in Runners /\ a \in Requests
    BY DEF Runners, RowInv, ExecutionTypeOK
  <2> QED BY <1>0, <1>1, <1>2, <1>9, <2>1, <2>2 DEF PickRecoverable
<1>10. ASSUME NEW x \in Runners, AcquireLease(x) PROVE ResultInv'
  <2>1. OthersStay(x) /\ runner'[x].pc \in {"tail", "read"}
    BY <1>0, <1>10 DEF AcquireLease, OthersStay, RunnerStates
  <2> QED BY <1>1, <1>10, <2>1 DEF AcquireLease, Shows
<1>11. ASSUME NEW x \in Runners, LeaseRefused(x) PROVE ResultInv'
  BY <1>1, <1>3, <1>11 DEF LeaseRefused
<1>12. ASSUME NEW x \in Runners, ReadSyscall(x) PROVE ResultInv'
  BY <1>1, <1>4, <1>12 DEF ReadSyscall
<1>13. ASSUME NEW x \in Runners, NEW status \in {"executing", "executed", "failed"},
              NEW next \in UnderLease, runner[x].pc \in WithSyscall,
              status = "executed" => calls[runner[x].op] > 0,
              WriteStatus(x, status, next),
              \/ next = "call" /\ status = "executing"
              \/ next = "fail_op" /\ status = "failed"
              \/ next = "tail"
       PROVE  ResultInv'
  <2>1. \A a \in Requests : Honest(a)'
    BY <1>13, WriteStaysHonest
  <2>2. /\ OthersStay(x) /\ runner'[x].op = runner[x].op
        /\ \/ runner'[x].pc = next /\ syscall'[runner[x].op] = status
           \/ runner'[x].pc = "release"
    BY <1>13, WriteFields DEF SyscallStates
  <2>3. Shows(x)'
    BY <1>13, <2>2 DEF Shows, Begun
  <2> QED BY <1>0, <2>1, <2>2, <2>3, ResultsStay
<1>14. ASSUME NEW x \in Runners, ClaimSyscall(x) PROVE ResultInv'
  BY <1>13, <1>14 DEF ClaimSyscall, WithSyscall, UnderLease
<1>15. ASSUME NEW x \in Runners, SettleSyscall(x) PROVE ResultInv'
  BY <1>0, <1>13, <1>15 DEF SettleSyscall, WithSyscall, UnderLease, Shows
<1>16. ASSUME NEW x \in Runners, FailSyscall(x) PROVE ResultInv'
  BY <1>13, <1>16 DEF FailSyscall, WithSyscall, UnderLease
<1>17. ASSUME NEW x \in Runners, CallTool(x) PROVE ResultInv'
  <2>1. Begun(runner[x].op) /\ runner[x].op \in Requests
    BY <1>0, <1>17, CallFields DEF Shows
  <2>2. \A a \in Requests : calls[a] \in Nat
    BY DEF RowInv, ExecutionTypeOK
  <2>3. ASSUME NEW a \in Requests PROVE Honest(a)'
    BY <1>0, <1>17, <2>1, <2>2, CallFields DEF storeVars, Honest, Begun, Advance
  <2>4. Shows(x)'
    BY <1>17, <2>1, <2>2, CallFields DEF Shows, Begun
  <2> QED BY <1>0, <1>17, <2>3, <2>4, CallFields, ResultsStay
<1>18. ASSUME NEW x \in Runners, NEW s \in {"completed", "failed"}, runner[x].op \in Requests,
              s = "completed" => syscall[runner[x].op] = "executed",
              s = "failed" => syscall[runner[x].op] = "failed",
              UpdateOperationState(runner[x].op, s), OthersStay(x), Shows(x)',
              UNCHANGED <<approval, syscall, calls>>
       PROVE  ResultInv'
  <2>1. /\ operation \in [Requests -> OperationStates]
        /\ transitions \in [Requests -> SUBSET (OperationStates \X OperationStates)]
    BY DEF RowInv, ExecutionTypeOK, StoreTypeOK
  <2>2. ASSUME NEW a \in Requests PROVE Honest(a)'
    BY <1>0, <1>18, <2>1 DEF UpdateOperationState, RecordState, Honest, Begun
  <2> QED BY <1>0, <1>18, <2>2, ResultsStay
<1>19. ASSUME NEW x \in Runners, FailOperation(x) PROVE ResultInv'
  <2>1. runner[x].op \in Requests /\ syscall[runner[x].op] = "failed"
    BY <1>0, <1>19, SyscallOfRunner DEF FailOperation, WithSyscall, Shows
  <2> QED BY <1>4, <1>18, <1>19, <2>1 DEF FailOperation
<1>20. ASSUME NEW x \in Runners, InspectOperation(x) PROVE ResultInv'
  <2>1. runner[x].op \in Requests
    BY <1>20 DEF InspectOperation, RowInv, RunnersKnow, AtWork, UnderLease
  <2>2. CASE Goto(x, "release")
    BY <1>1, <1>4, <1>20, <2>2 DEF InspectOperation
  <2>3. CASE Goto(x, "complete") /\ AllExecuted(runner[x].op)
    <3>1. syscall[runner[x].op] = "executed"
      BY <1>0, <2>1, <2>3 DEF AllExecuted, SyscallsOf, ApprovalsOf
    <3>2. OthersStay(x) /\ runner'[x].pc = "complete" /\ runner'[x].op = runner[x].op
      BY <1>0, <2>3, GotoFields DEF UnderLease
    <3>3. Shows(x)'
      BY <1>20, <3>1, <3>2 DEF InspectOperation, Shows
    <3> QED BY <1>1, <1>20, <3>2, <3>3 DEF InspectOperation
  <2> QED BY <1>20, <2>2, <2>3 DEF InspectOperation
<1>21. ASSUME NEW x \in Runners, CompleteOperation(x) PROVE ResultInv'
  <2>1. runner[x].op \in Requests /\ syscall[runner[x].op] = "executed"
    BY <1>0, <1>21
    DEF CompleteOperation, RowInv, RunnersKnow, AtWork, UnderLease, Shows
  <2> QED BY <1>4, <1>18, <1>21, <2>1 DEF CompleteOperation
<1>22. ASSUME NEW x \in Runners, ReleaseLease(x) PROVE ResultInv'
  <2>1. PICK ok \in BOOLEAN : Leave(x, ok)
    BY <1>22 DEF ReleaseLease
  <2> QED BY <1>1, <1>3, <1>22, <2>1 DEF ReleaseLease
<1>23. ASSUME NEW x \in Runners, StorageError(x) PROVE ResultInv'
  <2>1. OthersStay(x) /\ Shows(x)'
    BY <1>3, <1>4, <1>23 DEF StorageError
  <2> QED BY <1>1, <1>23, <2>1 DEF StorageError
<1>24. ASSUME NEW d \in Decisions, DropConnection(d) PROVE ResultInv'
  <2>1. d \in Runners
    BY DEF Runners
  <2>2. OthersStay(d) /\ runner'[d].pc = "done"
    BY <1>0, <1>24, <2>1, RestingRunners DEF DropConnection, OthersStay
  <2> QED BY <1>1, <1>24, <2>1, <2>2 DEF DropConnection, Shows
<1>25. CASE Crash
  <2>1. \A x \in Runners : Shows(x)'
    BY <1>25, RestingRunners DEF Crash, Shows
  <2>2. \A a \in Requests : Honest(a)'
    BY <1>0, <1>25 DEF Crash, storeVars, Honest, Begun
  <2> QED BY <2>1, <2>2 DEF ResultInv
<1>26. ASSUME NEW o \in Requests, ExpireLease(o) PROVE ResultInv'
  BY <1>0, <1>26 DEF ExpireLease, storeVars, ResultInv, Shows, Honest, Begun
<1>27. ASSUME NEW o \in Requests, Cancel(o) PROVE ResultInv'
  <2>1. /\ operation \in [Requests -> OperationStates]
        /\ transitions \in [Requests -> SUBSET (OperationStates \X OperationStates)]
    BY DEF RowInv, ExecutionTypeOK, StoreTypeOK
  <2>2. UNCHANGED <<approval, syscall, calls, runner>> /\ RecordState(o, "cancelled")
    BY <1>27 DEF Cancel, CancelOperation, execVars
  <2>3. ASSUME NEW a \in Requests PROVE Honest(a)'
    BY <1>0, <2>1, <2>2 DEF RecordState, Honest, Begun
  <2>4. \A x \in Runners : Shows(x)'
    BY <1>0, <2>2 DEF Shows, Begun
  <2> QED BY <2>3, <2>4 DEF ResultInv
<1>28. CASE UNCHANGED vars
  BY <1>0, <1>28 DEF vars, execVars, storeVars, ResultInv, Shows, Honest, Begun
<1> QED
  BY <1>5, <1>6, <1>7, <1>8, <1>9, <1>10, <1>11, <1>12, <1>14, <1>15, <1>16, <1>17,
     <1>19, <1>20, <1>21, <1>22, <1>23, <1>24, <1>25, <1>26, <1>27, <1>28
  DEF Next, Decide, Recover, Run

\* Nothing has happened at first.
LEMMA InitResults == Init => ResultInv
BY RestingRunners DEF Init, ExecInit, ResultInv, Shows, Honest, Begun

\* Rows and results in every reachable state.
LEMMA ResultInvariance == Spec => [](RowInv /\ ResultInv)
BY InitRows, InitResults, RowsStay, ResultsKept, PTL DEF Spec

\* An operation has at most the one syscall that its approval permitted.
LEMMA OwnSyscall ==
  ASSUME RowInv, NEW o \in Requests
  PROVE  SyscallsOf(o) = IF syscall[o] = "absent" THEN {} ELSE {o}
BY DEF RowInv, OwnApproval, SyscallsOf, ApprovalsOf

\* An operation is completed only when its syscall is executed and the tool
\* has acted, and failed only when the syscall failed: no replay, second
\* runner, crash or cancellation reports an outcome that was not reached.
THEOREM OutcomeIsHonest == Spec => []OutcomeMatchesSyscall
<1>1. ASSUME RowInv, ResultInv PROVE OutcomeMatchesSyscall
  <2>1. SUFFICES ASSUME NEW o \in Requests
        PROVE  /\ operation[o] = "completed" =>
                    AllExecuted(o) /\ \A a \in SyscallsOf(o) : calls[a] > 0
               /\ operation[o] = "failed" => \E a \in SyscallsOf(o) : syscall[a] = "failed"
    BY DEF OutcomeMatchesSyscall
  <2>2. Honest(o) /\ SyscallsOf(o) = IF syscall[o] = "absent" THEN {} ELSE {o}
    BY <1>1, OwnSyscall DEF ResultInv
  <2> QED BY <2>2 DEF Honest, AllExecuted
<1> QED BY <1>1, ResultInvariance, PTL

\* The tool acts only after permission, approval and transition are on record
\* (storage_semantics_txn.md 6.1), however often it is retried or recovered.
THEOREM SendsFollowRecords == Spec => []SendsAreRecorded
<1>1. ASSUME RowInv, ResultInv PROVE SendsAreRecorded
  BY <1>1
  DEF SendsAreRecorded, RowInv, OwnApproval, PermittedIffConsumed, ResultInv, Honest, Begun
<1> QED BY <1>1, ResultInvariance, PTL

-----------------------------------------------------------------------------
(* The lease behind every run                                              *)

\* The runner's lease is on record, and has not run out.
HoldsLive(x) ==
  runner[x].pc \in UnderLease =>
    /\ lease[runner[x].op].owner = x
    /\ lease[runner[x].op].epoch = runner[x].epoch
    /\ lease[runner[x].op].live

\* As long as no run outlived its lease.
LeaseInv == faults.overruns = 0 => \A x \in Runners : HoldsLive(x)

\* The number of overruns in one state and the next.
Overran ==
  /\ faults.overruns \in Nat /\ faults'.overruns \in Nat
  /\ faults.overruns <= faults'.overruns

\* An overrun is never forgotten.
LEMMA OverrunsStay == RowInv /\ [Next]_vars => Overran
<1> SUFFICES ASSUME RowInv, [Next]_vars PROVE Overran
  OBVIOUS
<1>0. /\ faults \in [errors : 0 .. MaxFaults, overruns : 0 .. MaxOverruns]
      /\ faults.overruns \in Nat
  BY ExecutionAssumption DEF RowInv, ExecutionTypeOK
<1>1. CASE faults' = faults
  BY <1>0, <1>1 DEF Overran
<1>2. ASSUME Fault PROVE Overran
  BY <1>0, <1>2 DEF Fault, Overran
<1>3. ASSUME NEW o \in Requests, ExpireLease(o) PROVE Overran
  <2>1. CASE faults' = [faults EXCEPT !.overruns = @ + 1]
    <3>1. faults'.overruns = faults.overruns + 1
      BY <1>0, <2>1
    <3> QED BY <1>0, <3>1 DEF Overran
  <2> QED BY <1>1, <1>3, <2>1 DEF ExpireLease
<1>4. ASSUME NEW x \in Runners,
             \/ AcquireLease(x) \/ LeaseRefused(x) \/ ReadSyscall(x) \/ ClaimSyscall(x)
             \/ CallTool(x) \/ SettleSyscall(x) \/ FailSyscall(x) \/ FailOperation(x)
             \/ InspectOperation(x) \/ CompleteOperation(x) \/ ReleaseLease(x)
      PROVE  faults' = faults
  BY <1>4
  DEF AcquireLease, LeaseRefused, ReadSyscall, ClaimSyscall, CallTool, SettleSyscall,
      FailSyscall, WriteStatus, FailOperation, InspectOperation, CompleteOperation,
      ReleaseLease
<1>5. ASSUME NEW d \in Decisions, NEW a \in Requests, NEW k \in Keys \cup {NoKey},
             Decide(d, a, k)
      PROVE  faults' = faults
  BY <1>5 DEF Decide, ReplayDecision, Approve, Deny
<1>6. ASSUME Recover PROVE faults' = faults
  BY <1>6 DEF Recover, ListRecoverable, PickRecoverable
<1>7. ASSUME NEW o \in Requests, Cancel(o) PROVE faults' = faults
  BY <1>7 DEF Cancel, execVars
<1>8. CASE UNCHANGED vars
  BY <1>1, <1>8 DEF vars, execVars
<1>9. ASSUME NEW x \in Runners, StorageError(x) PROVE Fault
  BY <1>9 DEF StorageError
<1>10. ASSUME NEW d \in Decisions, DropConnection(d) PROVE Fault
  BY <1>10 DEF DropConnection
<1>11. ASSUME Crash PROVE Fault
  BY <1>11 DEF Crash
<1> QED
  BY <1>1, <1>2, <1>3, <1>4, <1>5, <1>6, <1>7, <1>8, <1>9, <1>10, <1>11 DEF Next, Run

\* What a step of the handler under its lease does to the runner's place.
LEMMA UnderLeaseFields ==
  ASSUME RowInv, NEW x \in Runners,
         \/ ReadSyscall(x) \/ ClaimSyscall(x) \/ CallTool(x) \/ SettleSyscall(x)
         \/ FailSyscall(x) \/ FailOperation(x) \/ InspectOperation(x)
         \/ CompleteOperation(x)
  PROVE  /\ runner[x].pc \in UnderLease /\ OthersStay(x) /\ lease' = lease
         /\ runner'[x].op = runner[x].op /\ runner'[x].epoch = runner[x].epoch
         /\ faults' = faults
<1>0. runner \in [Runners -> RunnerStates]
  BY DEF RowInv, ExecutionTypeOK
<1>1. ASSUME NEW pc \in UnderLease, Goto(x, pc)
      PROVE  OthersStay(x) /\ runner'[x].op = runner[x].op
             /\ runner'[x].epoch = runner[x].epoch
  BY <1>0, <1>1, GotoFields
<1>2. /\ "claim" \in UnderLease /\ "tail" \in UnderLease /\ "complete" \in UnderLease
      /\ "release" \in UnderLease /\ "call" \in UnderLease /\ "fail_op" \in UnderLease
      /\ "read" \in UnderLease /\ "settle" \in UnderLease /\ "fail" \in UnderLease
  BY DEF UnderLease
<1>3. CASE ReadSyscall(x)
  BY <1>1, <1>2, <1>3 DEF ReadSyscall
<1>4. CASE ClaimSyscall(x)
  BY <1>2, <1>4, WriteFields DEF ClaimSyscall, SyscallStates, WithSyscall
<1>5. CASE CallTool(x)
  BY <1>2, <1>5, CallFields
<1>6. CASE SettleSyscall(x)
  BY <1>2, <1>6, WriteFields DEF SettleSyscall, SyscallStates, WithSyscall
<1>7. CASE FailSyscall(x)
  BY <1>2, <1>7, WriteFields DEF FailSyscall, SyscallStates, WithSyscall
<1>8. CASE FailOperation(x)
  BY <1>1, <1>2, <1>8 DEF FailOperation
<1>9. CASE InspectOperation(x)
  BY <1>1, <1>2, <1>9 DEF InspectOperation
<1>10. CASE CompleteOperation(x)
  BY <1>1, <1>2, <1>10 DEF CompleteOperation
<1> QED BY <1>3, <1>4, <1>5, <1>6, <1>7, <1>8, <1>9, <1>10

\* Every step keeps the leases behind the runs.
LEMMA LeasesKept == RowInv /\ LeaseInv /\ [Next]_vars => LeaseInv'
<1> SUFFICES ASSUME RowInv, LeaseInv, [Next]_vars, faults'.overruns = 0
    PROVE  \A x \in Runners : HoldsLive(x)'
  BY DEF LeaseInv
<1>0. /\ runner \in [Runners -> RunnerStates] /\ lease \in [Requests -> Leases]
      /\ faults.overruns = 0
      /\ \A x \in Runners : HoldsLive(x)
      /\ \A x \in Runners : AtWork(x) => runner[x].op \in Requests
      /\ \A a \in Requests : approval[a].op = a
      /\ "approve" \in Choices /\ "deny" \in Choices
      /\ NoRow \notin Runners
  BY OverrunsStay, ExecutionAssumption
  DEF RowInv, ExecutionTypeOK, LeaseInv, RunnersKnow, Choices, OwnApproval, Runners, Overran
\* A step of a runner that leaves the leases alone and takes none.
<1>1. ASSUME NEW x \in Runners, OthersStay(x), HoldsLive(x)', lease' = lease
      PROVE  \A y \in Runners : HoldsLive(y)'
  <2>1. ASSUME NEW y \in Runners, y # x PROVE HoldsLive(y)'
    BY <1>0, <1>1, <2>1 DEF OthersStay, HoldsLive
  <2> QED BY <1>1, <2>1
<1>2. ASSUME NEW x \in Runners, OthersStay(x), runner'[x].pc \notin UnderLease, lease' = lease
      PROVE  \A y \in Runners : HoldsLive(y)'
  BY <1>1, <1>2 DEF HoldsLive
<1>3. ASSUME NEW d \in Runners, NEW a \in Requests, NEW c \in Choices, StartRun(d, a, c)
      PROVE  OthersStay(d) /\ runner'[d].pc \notin UnderLease
  BY <1>0, <1>3, StartFields DEF UnderLease
<1>4. ASSUME NEW x \in Runners, NEW ok \in BOOLEAN, Leave(x, ok)
      PROVE  OthersStay(x) /\ runner'[x].pc \notin UnderLease
  BY <1>0, <1>4, LeaveFields DEF Rests, UnderLease
<1>5. ASSUME NEW d \in Decisions, NEW a \in Requests, NEW k \in Keys \cup {NoKey},
             Decide(d, a, k)
      PROVE  \A y \in Runners : HoldsLive(y)'
  <2>1. d \in Runners
    BY DEF Runners
  <2>2. CASE ReplayDecision(d, a, k)
    <3>1. StoredChoice(a, k) \in Choices
      BY <2>2, StoredChoiceType DEF ReplayDecision, RowInv, ExecutionTypeOK
    <3> QED BY <1>2, <1>3, <2>1, <2>2, <3>1 DEF ReplayDecision
  <2>3. CASE Approve(d, a, k)
    BY <1>0, <1>2, <1>3, <2>1, <2>3 DEF Approve
  <2>4. CASE Deny(d, a, k)
    BY <1>0, <1>2, <1>3, <2>1, <2>4 DEF Deny
  <2> QED BY <1>5, <2>2, <2>3, <2>4 DEF Decide
<1>6. CASE ListRecoverable
  BY <1>0, <1>6 DEF ListRecoverable, HoldsLive
<1>7. CASE PickRecoverable
  <2>1. PICK a \in worklist : StartRun(Recovery, a, "approve")
    BY <1>7 DEF PickRecoverable
  <2>2. Recovery \in Runners /\ a \in Requests
    BY DEF Runners, RowInv, ExecutionTypeOK
  <2> QED BY <1>0, <1>2, <1>3, <1>7, <2>1, <2>2 DEF PickRecoverable
<1>8. ASSUME NEW x \in Runners, AcquireLease(x)
      PROVE  \A y \in Runners : HoldsLive(y)'
  <2> DEFINE o == runner[x].op
             row == [owner |-> x, epoch |-> NextEpoch(x, o), live |-> TRUE]
  <2>1. /\ o \in Requests /\ lease' = [lease EXCEPT ![o] = row]
        /\ lease[o].owner \in {NoRow, x} \/ ~lease[o].live
    BY <1>0, <1>8 DEF AcquireLease, AtWork, Acquirable
  <2>2. /\ OthersStay(x) /\ runner'[x].op = o /\ runner'[x].epoch = NextEpoch(x, o)
    BY <1>0, <1>8 DEF AcquireLease, OthersStay, RunnerStates
  <2>3. HoldsLive(x)'
    BY <1>0, <2>1, <2>2 DEF HoldsLive
  <2>4. ASSUME NEW y \in Runners, y # x PROVE HoldsLive(y)'
    <3>1. runner'[y] = runner[y] /\ HoldsLive(y)
      BY <1>0, <2>2, <2>4 DEF OthersStay
    <3>2. runner[y].pc \in UnderLease => runner[y].op # o
      BY <1>0, <2>1, <2>4, <3>1 DEF HoldsLive
    <3>3. runner[y].pc \in UnderLease => lease'[runner[y].op] = lease[runner[y].op]
      BY <1>0, <2>1, <3>2 DEF AtWork
    <3> QED BY <3>1, <3>3 DEF HoldsLive
  <2> QED BY <2>3, <2>4
<1>9. ASSUME NEW x \in Runners, LeaseRefused(x)
      PROVE  \A y \in Runners : HoldsLive(y)'
  BY <1>2, <1>4, <1>9 DEF LeaseRefused
<1>10. ASSUME NEW x \in Runners,
              \/ ReadSyscall(x) \/ ClaimSyscall(x) \/ CallTool(x) \/ SettleSyscall(x)
              \/ FailSyscall(x) \/ FailOperation(x) \/ InspectOperation(x)
              \/ CompleteOperation(x)
       PROVE  \A y \in Runners : HoldsLive(y)'
  <2>1. /\ runner[x].pc \in UnderLease /\ OthersStay(x) /\ lease' = lease
        /\ runner'[x].op = runner[x].op /\ runner'[x].epoch = runner[x].epoch
    BY <1>10, UnderLeaseFields
  <2>2. HoldsLive(x)'
    BY <1>0, <2>1 DEF HoldsLive
  <2> QED BY <1>1, <2>1, <2>2
<1>11. ASSUME NEW x \in Runners, ReleaseLease(x)
       PROVE  \A y \in Runners : HoldsLive(y)'
  <2>1. PICK ok \in BOOLEAN : Leave(x, ok)
    BY <1>11 DEF ReleaseLease
  <2>2. OthersStay(x) /\ runner'[x].pc \notin UnderLease
    BY <1>4, <2>1
  <2>3. /\ runner[x].op \in Requests
        /\ \/ lease' = lease
           \/ lease[runner[x].op].owner = x /\ lease' = [lease EXCEPT ![runner[x].op] = NoLease]
    BY <1>0, <1>11 DEF ReleaseLease, AtWork, UnderLease
  <2>4. ASSUME NEW y \in Runners, y # x PROVE HoldsLive(y)'
    <3>1. runner'[y] = runner[y] /\ HoldsLive(y)
      BY <1>0, <2>2, <2>4 DEF OthersStay
    <3>2. runner[y].pc \in UnderLease => lease'[runner[y].op] = lease[runner[y].op]
      BY <1>0, <2>3, <2>4, <3>1 DEF HoldsLive, AtWork
    <3> QED BY <3>1, <3>2 DEF HoldsLive
  <2>5. HoldsLive(x)'
    BY <2>2 DEF HoldsLive
  <2> QED BY <2>4, <2>5
<1>12. ASSUME NEW x \in Runners, StorageError(x)
       PROVE  \A y \in Runners : HoldsLive(y)'
  <2>1. lease' = lease
    BY <1>12 DEF StorageError
  <2>2. CASE runner[x].pc \in UnderLease /\ Goto(x, "release")
    <3>1. /\ OthersStay(x) /\ runner'[x].op = runner[x].op
          /\ runner'[x].epoch = runner[x].epoch
      BY <1>0, <2>2, GotoFields DEF UnderLease
    <3>2. HoldsLive(x)'
      BY <1>0, <2>1, <2>2, <3>1 DEF HoldsLive
    <3> QED BY <1>1, <2>1, <3>1, <3>2
  <2>3. CASE Leave(x, FALSE)
    BY <1>2, <1>4, <2>1, <2>3
  <2> QED BY <1>12, <2>2, <2>3 DEF StorageError
<1>13. ASSUME NEW d \in Decisions, DropConnection(d)
       PROVE  \A y \in Runners : HoldsLive(y)'
  <2>1. d \in Runners
    BY DEF Runners
  <2>2. OthersStay(d) /\ runner'[d].pc \notin UnderLease
    BY <1>0, <1>13, <2>1, RestingRunners DEF DropConnection, OthersStay, UnderLease
  <2> QED BY <1>2, <1>13, <2>1, <2>2 DEF DropConnection
<1>14. CASE Crash
  BY <1>14, RestingRunners DEF Crash, HoldsLive, UnderLease
<1>15. ASSUME NEW o \in Requests, ExpireLease(o)
       PROVE  \A y \in Runners : HoldsLive(y)'
  <2>1. faults \in [errors : 0 .. MaxFaults, overruns : 0 .. MaxOverruns]
    BY DEF RowInv, ExecutionTypeOK
  <2>2. ~\E x \in Runners : Holds(x, o)
    <3>1. SUFFICES ASSUME \E x \in Runners : Holds(x, o) PROVE FALSE
      OBVIOUS
    <3>2. faults' = [faults EXCEPT !.overruns = @ + 1]
      BY <1>15, <3>1 DEF ExpireLease
    <3>3. faults'.overruns = 0 + 1
      BY <1>0, <2>1, <3>2
    <3> QED BY <3>3
  <2>3. /\ lease' = [lease EXCEPT ![o].live = FALSE] /\ runner' = runner
    BY <1>15 DEF ExpireLease
  <2>4. ASSUME NEW y \in Runners PROVE HoldsLive(y)'
    <3>1. runner[y].pc \in UnderLease => runner[y].op # o
      BY <1>0, <2>2 DEF HoldsLive, Holds
    <3>2. runner[y].pc \in UnderLease => lease'[runner[y].op] = lease[runner[y].op]
      BY <1>0, <2>3, <3>1 DEF AtWork
    <3>3. HoldsLive(y) /\ runner'[y] = runner[y]
      BY <1>0, <2>3
    <3> QED BY <3>2, <3>3 DEF HoldsLive
  <2> QED BY <2>4
<1>16. ASSUME NEW o \in Requests, Cancel(o)
       PROVE  \A y \in Runners : HoldsLive(y)'
  BY <1>0, <1>16 DEF Cancel, execVars, HoldsLive
<1>17. CASE UNCHANGED vars
  BY <1>0, <1>17 DEF vars, execVars, HoldsLive
<1> QED
  BY <1>5, <1>6, <1>7, <1>8, <1>9, <1>10, <1>11, <1>12, <1>13, <1>14, <1>15, <1>16, <1>17
  DEF Next, Recover, Run

\* Nobody runs at first.
LEMMA InitLeases == Init => LeaseInv
BY RestingRunners DEF Init, ExecInit, LeaseInv, HoldsLive, UnderLease

\* Rows, results and leases in every reachable state.
LEMMA LeaseInvariance == Spec => [](RowInv /\ ResultInv /\ LeaseInv)
BY InitRows, InitResults, InitLeases, RowsStay, ResultsKept, LeasesKept, PTL DEF Spec

\* Two runners that work on one operation would both be the owner of its
\* lease (storage_semantics_txn.md 5.3).
THEOREM OneRunnerAtATime == Spec => []OneRunnerPerOperation
<1>1. LeaseInv => OneRunnerPerOperation
  BY DEF LeaseInv, HoldsLive, OneRunnerPerOperation, Working, UnderLease
<1> QED BY <1>1, LeaseInvariance, PTL

-----------------------------------------------------------------------------
(* The single course of each syscall                                       *)

\* A runner that works on a syscall finds it where it left it, and counts
\* every act of the tool.
Follows(x) ==
  /\ runner[x].pc = "claim" => syscall[runner[x].op] = "permitted"
  /\ runner[x].pc \in {"call", "settle", "fail"} => syscall[runner[x].op] = "executing"
  /\ runner[x].pc = "call" => calls[runner[x].op] <= runner[x].tries

\* As long as no run outlived its lease.
CourseInv == faults.overruns = 0 => \A x \in Runners : Follows(x)

\* Every step keeps the courses.
LEMMA CoursesKept ==
  RowInv /\ ResultInv /\ LeaseInv /\ CourseInv /\ [Next]_vars => CourseInv'
<1> SUFFICES ASSUME RowInv, ResultInv, LeaseInv, CourseInv, [Next]_vars,
                    faults'.overruns = 0
    PROVE  \A x \in Runners : Follows(x)'
  BY DEF CourseInv
<1>0. /\ runner \in [Runners -> RunnerStates] /\ syscall \in [Requests -> SyscallStates]
      /\ calls \in [Requests -> Nat]
      /\ \A x \in Runners : Follows(x) /\ HoldsLive(x) /\ Shows(x)
      /\ \A x \in Runners : AtWork(x) => runner[x].op \in Requests
      /\ \A a \in Requests : approval[a].op = a
      /\ "approve" \in Choices /\ "deny" \in Choices
  BY OverrunsStay
  DEF RowInv, ExecutionTypeOK, ResultInv, LeaseInv, CourseInv, RunnersKnow, OwnApproval,
      Choices, Overran
<1>1. ASSUME NEW x \in Runners, OthersStay(x), Follows(x)', UNCHANGED <<syscall, calls>>
      PROVE  \A y \in Runners : Follows(y)'
  <2>1. ASSUME NEW y \in Runners, y # x PROVE Follows(y)'
    <3>1. runner'[y] = runner[y] /\ Follows(y)
      BY <1>0, <1>1, <2>1 DEF OthersStay
    <3> QED BY <1>1, <3>1 DEF Follows
  <2> QED BY <1>1, <2>1
\* What a runner writes under its lease concerns no other runner at work.
<1>2. ASSUME NEW x \in Runners, runner[x].pc \in UnderLease, OthersStay(x), Follows(x)',
             \A a \in Requests \ {runner[x].op} : syscall'[a] = syscall[a] /\ calls'[a] = calls[a]
      PROVE  \A y \in Runners : Follows(y)'
  <2>1. ASSUME NEW y \in Runners, y # x PROVE Follows(y)'
    <3>1. runner'[y] = runner[y] /\ Follows(y)
      BY <1>0, <1>2, <2>1 DEF OthersStay
    <3>2. runner[y].pc \in {"claim", "call", "settle", "fail"} =>
            runner[y].op \in Requests \ {runner[x].op}
      BY <1>0, <1>2, <2>1 DEF HoldsLive, AtWork, UnderLease
    <3> QED BY <1>2, <3>1, <3>2 DEF Follows
  <2> QED BY <1>2, <2>1
<1>3. ASSUME NEW x \in Runners,
             runner'[x].pc \notin {"claim", "call", "settle", "fail"}
      PROVE  Follows(x)'
  BY <1>3 DEF Follows
<1>4. ASSUME NEW d \in Runners, NEW a \in Requests, NEW c \in Choices, StartRun(d, a, c)
      PROVE  OthersStay(d) /\ Follows(d)'
  BY <1>0, <1>3, <1>4, StartFields
<1>5. ASSUME NEW x \in Runners, NEW ok \in BOOLEAN, Leave(x, ok)
      PROVE  OthersStay(x) /\ Follows(x)'
  BY <1>0, <1>3, <1>5, LeaveFields DEF Rests
<1>6. ASSUME NEW x \in Runners, NEW pc \in {"tail", "complete", "release"}, Goto(x, pc)
      PROVE  OthersStay(x) /\ Follows(x)'
  BY <1>0, <1>3, <1>6, GotoFields DEF UnderLease
<1>7. ASSUME NEW d \in Decisions, NEW a \in Requests, NEW k \in Keys \cup {NoKey},
             Decide(d, a, k)
      PROVE  \A y \in Runners : Follows(y)'
  <2>1. d \in Runners
    BY DEF Runners
  <2>2. CASE ReplayDecision(d, a, k)
    <3>1. StoredChoice(a, k) \in Choices
      BY <2>2, StoredChoiceType DEF ReplayDecision, RowInv, ExecutionTypeOK
    <3> QED BY <1>1, <1>4, <2>1, <2>2, <3>1 DEF ReplayDecision
  <2>3. CASE Approve(d, a, k)
    <3>1. OthersStay(d) /\ Follows(d)'
      BY <1>0, <1>4, <2>1, <2>3 DEF Approve
    <3>2. /\ syscall[a] = "absent" /\ calls' = calls
          /\ \A b \in Requests \ {a} : syscall'[b] = syscall[b]
      BY <1>0, <2>3 DEF Approve
    <3>3. ASSUME NEW y \in Runners, y # d PROVE Follows(y)'
      <4>1. runner'[y] = runner[y] /\ Follows(y)
        BY <1>0, <3>1, <3>3 DEF OthersStay
      <4>2. runner[y].pc \in {"claim", "call", "settle", "fail"} =>
              runner[y].op \in Requests \ {a}
        BY <1>0, <3>2, <4>1 DEF Follows, AtWork, UnderLease
      <4> QED BY <3>2, <4>1, <4>2 DEF Follows
    <3> QED BY <3>1, <3>3
  <2>4. CASE Deny(d, a, k)
    BY <1>0, <1>1, <1>4, <2>1, <2>4 DEF Deny
  <2> QED BY <1>7, <2>2, <2>3, <2>4 DEF Decide
<1>8. CASE ListRecoverable
  BY <1>0, <1>8 DEF ListRecoverable, Follows
<1>9. CASE PickRecoverable
  <2>1. PICK a \in worklist : StartRun(Recovery, a, "approve")
    BY <1>9 DEF PickRecoverable
  <2>2. Recovery \in Runners /\ a \in Requests
    BY DEF Runners, RowInv, ExecutionTypeOK
  <2> QED BY <1>0, <1>1, <1>4, <1>9, <2>1, <2>2 DEF PickRecoverable
<1>10. ASSUME NEW x \in Runners, AcquireLease(x)
       PROVE  \A y \in Runners : Follows(y)'
  <2>1. OthersStay(x) /\ runner'[x].pc \in {"tail", "read"}
    BY <1>0, <1>10 DEF AcquireLease, OthersStay, RunnerStates
  <2> QED BY <1>1, <1>3, <1>10, <2>1 DEF AcquireLease
<1>11. ASSUME NEW x \in Runners, LeaseRefused(x)
       PROVE  \A y \in Runners : Follows(y)'
  BY <1>1, <1>5, <1>11 DEF LeaseRefused
<1>12. ASSUME NEW x \in Runners, ReadSyscall(x)
       PROVE  \A y \in Runners : Follows(y)'
  <2>1. CASE syscall[runner[x].todo] = "permitted" /\ Goto(x, "claim")
    <3>1. runner[x].todo = runner[x].op
      BY <1>12, SyscallOfRunner DEF ReadSyscall, WithSyscall
    <3>2. OthersStay(x) /\ runner'[x].pc = "claim" /\ runner'[x].op = runner[x].op
      BY <1>0, <2>1, GotoFields DEF UnderLease
    <3>3. Follows(x)'
      BY <1>12, <2>1, <3>1, <3>2 DEF ReadSyscall, Follows
    <3> QED BY <1>1, <1>12, <3>2, <3>3 DEF ReadSyscall
  <2>2. CASE Goto(x, "tail")
    BY <1>1, <1>6, <1>12, <2>2 DEF ReadSyscall
  <2> QED BY <1>12, <2>1, <2>2 DEF ReadSyscall
<1>13. ASSUME NEW x \in Runners, ClaimSyscall(x)
       PROVE  \A y \in Runners : Follows(y)'
  <2>1. /\ runner[x].pc = "claim" /\ runner[x].pc \in WithSyscall \cap UnderLease
        /\ WriteStatus(x, "executing", "call") /\ "executing" \in SyscallStates
        /\ "call" \in UnderLease
    BY <1>13 DEF ClaimSyscall, WithSyscall, UnderLease, SyscallStates
  <2>2. /\ OthersStay(x) /\ runner'[x].op = runner[x].op /\ calls' = calls
        /\ runner'[x].tries = runner[x].tries
        /\ \A a \in Requests \ {runner[x].op} : syscall'[a] = syscall[a]
        /\ \/ syscall'[runner[x].op] = "executing" /\ runner'[x].pc = "call"
           \/ runner'[x].pc = "release"
    BY <2>1, WriteFields
  <2>3. runner[x].op \in Requests /\ runner[x].tries = 0 /\ syscall[runner[x].op] = "permitted"
    BY <1>0, <2>1, SyscallOfRunner DEF RowInv, RunnersKnow, Follows
  <2>4. calls[runner[x].op] = 0
    BY <1>0, <2>3 DEF ResultInv, Honest, Begun
  <2>5. Follows(x)'
    BY <2>2, <2>3, <2>4 DEF Follows
  <2> QED BY <1>2, <2>1, <2>2, <2>5
<1>14. ASSUME NEW x \in Runners, CallTool(x)
       PROVE  \A y \in Runners : Follows(y)'
  <2>1. syscall[runner[x].op] = "executing" /\ calls[runner[x].op] <= runner[x].tries
        /\ calls[runner[x].op] \in Nat /\ runner[x].tries \in Nat
    BY <1>0, <1>14, CallFields DEF Follows
  <2>2. /\ runner'[x].op = runner[x].op /\ syscall' = syscall
        /\ runner'[x].tries = runner[x].tries + 1
        /\ runner'[x].pc \in {"call", "settle", "fail"}
        /\ calls'[runner[x].op] <= runner[x].tries + 1
    BY <1>14, <2>1, CallFields
  <2>3. Follows(x)'
    BY <2>1, <2>2 DEF Follows
  <2> QED BY <1>2, <1>14, <2>2, <2>3, CallFields DEF UnderLease
<1>15. ASSUME NEW x \in Runners, NEW status \in SyscallStates,
              NEW next \in UnderLease \ {"claim", "call", "settle", "fail"},
              runner[x].pc \in WithSyscall \cap UnderLease, WriteStatus(x, status, next)
       PROVE  \A y \in Runners : Follows(y)'
  <2>1. /\ OthersStay(x) /\ calls' = calls /\ runner'[x].pc \in {next, "release"}
        /\ \A a \in Requests \ {runner[x].op} : syscall'[a] = syscall[a]
    BY <1>15, WriteFields
  <2>2. Follows(x)'
    BY <1>3, <1>15, <2>1
  <2> QED BY <1>2, <1>15, <2>1, <2>2
<1>16. ASSUME NEW x \in Runners, SettleSyscall(x)
       PROVE  \A y \in Runners : Follows(y)'
  BY <1>15, <1>16 DEF SettleSyscall, WithSyscall, UnderLease, SyscallStates
<1>17. ASSUME NEW x \in Runners, FailSyscall(x)
       PROVE  \A y \in Runners : Follows(y)'
  BY <1>15, <1>17 DEF FailSyscall, WithSyscall, UnderLease, SyscallStates
<1>18. ASSUME NEW x \in Runners,
              FailOperation(x) \/ InspectOperation(x) \/ CompleteOperation(x)
       PROVE  \A y \in Runners : Follows(y)'
  BY <1>1, <1>6, <1>18 DEF FailOperation, InspectOperation, CompleteOperation
<1>19. ASSUME NEW x \in Runners, ReleaseLease(x)
       PROVE  \A y \in Runners : Follows(y)'
  <2>1. PICK ok \in BOOLEAN : Leave(x, ok)
    BY <1>19 DEF ReleaseLease
  <2> QED BY <1>1, <1>5, <1>19, <2>1 DEF ReleaseLease
<1>20. ASSUME NEW x \in Runners, StorageError(x)
       PROVE  \A y \in Runners : Follows(y)'
  <2>1. OthersStay(x) /\ Follows(x)'
    BY <1>5, <1>6, <1>20 DEF StorageError
  <2> QED BY <1>1, <1>20, <2>1 DEF StorageError
<1>21. ASSUME NEW d \in Decisions, DropConnection(d)
       PROVE  \A y \in Runners : Follows(y)'
  <2>1. d \in Runners
    BY DEF Runners
  <2>2. OthersStay(d) /\ runner'[d].pc = "done"
    BY <1>0, <1>21, <2>1, RestingRunners DEF DropConnection, OthersStay
  <2> QED BY <1>1, <1>3, <1>21, <2>1, <2>2 DEF DropConnection
<1>22. CASE Crash
  BY <1>22, RestingRunners DEF Crash, Follows
<1>23. ASSUME NEW o \in Requests, ExpireLease(o) \/ Cancel(o)
       PROVE  \A y \in Runners : Follows(y)'
  <2>1. UNCHANGED <<runner, syscall, calls>>
    BY <1>23 DEF ExpireLease, Cancel, execVars
  <2> QED BY <1>0, <2>1 DEF Follows
<1>24. CASE UNCHANGED vars
  BY <1>0, <1>24 DEF vars, execVars, Follows
<1> QED
  BY <1>7, <1>8, <1>9, <1>10, <1>11, <1>12, <1>13, <1>14, <1>16, <1>17, <1>18, <1>19,
     <1>20, <1>21, <1>22, <1>23, <1>24
  DEF Next, Recover, Run

\* Nobody works at first.
LEMMA InitCourses == Init => CourseInv
BY RestingRunners DEF Init, ExecInit, CourseInv, Follows

\* The whole invariant.
ExecutionInv == RowInv /\ ResultInv /\ LeaseInv /\ CourseInv

\* It holds in every reachable state.
LEMMA ExecutionInvariance == Spec => []ExecutionInv
<1>1. Init => ExecutionInv
  BY InitRows, InitResults, InitLeases, InitCourses DEF ExecutionInv
<1>2. ExecutionInv /\ [Next]_vars => ExecutionInv'
  BY RowsStay, ResultsKept, LeasesKept, CoursesKept DEF ExecutionInv
<1> QED BY <1>1, <1>2, PTL DEF Spec

-----------------------------------------------------------------------------
(* What ApprovedAction promises                                            *)

\* The phase an action shows.
PhaseOf(a) ==
  CASE approval[a].status = "denied" -> "denied"
    [] syscall[a] = "permitted" -> "approved"
    [] syscall[a] = "executing" -> "attempted"
    [] syscall[a] = "executed" -> "succeeded"
    [] syscall[a] = "failed" -> "failed"
    [] OTHER -> "undecided"

\* A step that changes the phase of one action alone is a move of it.
LEMMA OneMove ==
  ASSUME NEW a \in Requests, NEW from, NEW to, PhaseOf(a) = from, PhaseOf(a)' = to,
         \A b \in Requests \ {a} :
           approval'[b].status = approval[b].status /\ syscall'[b] = syscall[b],
         calls' = calls
  PROVE  Abstract!Move(a, from, to)
<1>1. \A b \in Requests \ {a} : PhaseOf(b)' = PhaseOf(b)
  BY DEF PhaseOf
<1>2. Phase = [b \in Requests |-> PhaseOf(b)] /\ Phase' = [b \in Requests |-> PhaseOf(b)']
  BY DEF Phase, PhaseOf
<1>3. Phase[a] = from /\ Phase' = [Phase EXCEPT ![a] = to]
  BY <1>1, <1>2
<1> QED BY <1>3 DEF Abstract!Move

\* Nothing that shows changes.
LEMMA NothingShows ==
  ASSUME UNCHANGED <<approval, syscall, calls>>
  PROVE  UNCHANGED Abstract!vars
BY DEF Abstract!vars, Phase

\* The phase a written status shows.
PhaseAfter(status) ==
  CASE status = "executing" -> "attempted"
    [] status = "executed" -> "succeeded"
    [] status = "failed" -> "failed"

\* A status written over a permitted or executing one.
LEMMA WriteMoves ==
  ASSUME RowInv, NEW x \in Runners, runner[x].pc \in WithSyscall,
         NEW status \in {"executing", "executed", "failed"}, NEW next \in UnderLease,
         WriteStatus(x, status, next), NEW o \in Requests, o = runner[x].op
  PROVE  \/ UNCHANGED Abstract!vars
         \/ approval[o].status = "consumed" /\ Abstract!Move(o, PhaseOf(o), PhaseAfter(status))
<1>1. /\ storeVars' = storeVars /\ calls' = calls
      /\ \A b \in Requests \ {o} : syscall'[b] = syscall[b]
      /\ \/ Writable(o) /\ syscall'[o] = status
         \/ syscall' = syscall
  BY WriteFields DEF SyscallStates
<1>2. approval' = approval
  BY <1>1 DEF storeVars
<1>3. CASE syscall' = syscall
  BY <1>1, <1>2, <1>3, NothingShows
<1>4. CASE Writable(o) /\ syscall'[o] = status
  <2>1. approval[o].status = "consumed"
    BY <1>4 DEF RowInv, PermittedIffConsumed, Writable
  <2>2. PhaseOf(o)' = PhaseAfter(status)
    BY <1>2, <1>4, <2>1 DEF PhaseOf, PhaseAfter
  <2>3. Abstract!Move(o, PhaseOf(o), PhaseAfter(status))
    BY <1>1, <1>2, <2>2, OneMove
  <2> QED BY <2>1, <2>3
<1> QED BY <1>1, <1>3, <1>4

\* A step of the handlers, the worker or the faults is a step of an action or
\* a stutter, while no run has outlived its lease.
LEMMA StepsAreAbstract ==
  ExecutionInv /\ faults.overruns = 0 /\ [Next]_vars => [Abstract!Next]_(Abstract!vars)
<1> SUFFICES ASSUME ExecutionInv, faults.overruns = 0, [Next]_vars
    PROVE  Abstract!Next \/ UNCHANGED Abstract!vars
  OBVIOUS
<1>0. /\ RowInv /\ ResultInv
      /\ syscall \in [Requests -> SyscallStates] /\ calls \in [Requests -> Nat]
      /\ approval \in [Requests -> ApprovalRows]
      /\ \A x \in Runners : Follows(x) /\ Shows(x)
      /\ \A a \in Requests : syscall[a] # "absent" <=> approval[a].status = "consumed"
  BY DEF ExecutionInv, RowInv, ExecutionTypeOK, StoreTypeOK, ResultInv, CourseInv,
         PermittedIffConsumed
<1>1. ASSUME NEW d \in Decisions, NEW a \in Requests, NEW k \in Keys \cup {NoKey},
             Approve(d, a, k)
      PROVE  Abstract!Next
  <2>1. /\ approval[a].status = "pending" /\ syscall[a] = "absent"
        /\ approval' = [approval EXCEPT ![a].status = "consumed"]
        /\ syscall' = [syscall EXCEPT ![a] = "permitted"] /\ calls' = calls
    BY <1>1 DEF Approve, Decidable
  <2>2. /\ approval'[a].status = "consumed" /\ syscall'[a] = "permitted"
        /\ \A b \in Requests \ {a} :
             approval'[b].status = approval[b].status /\ syscall'[b] = syscall[b]
    BY <1>0, <2>1 DEF ApprovalRows
  <2>3. PhaseOf(a) = "undecided" /\ PhaseOf(a)' = "approved"
    BY <2>1, <2>2 DEF PhaseOf
  <2>4. Abstract!Move(a, "undecided", "approved")
    BY <2>1, <2>2, <2>3, OneMove
  <2> QED BY <2>4 DEF Abstract!Next, Abstract!Decide
<1>2. ASSUME NEW d \in Decisions, NEW a \in Requests, NEW k \in Keys \cup {NoKey},
             Deny(d, a, k)
      PROVE  Abstract!Next
  <2>1. /\ approval[a].status = "pending" /\ syscall' = syscall /\ calls' = calls
        /\ approval' = [approval EXCEPT ![a].status = "denied"]
    BY <1>2 DEF Deny, Decidable
  <2>2. /\ approval'[a].status = "denied" /\ syscall[a] = "absent"
        /\ \A b \in Requests \ {a} :
             approval'[b].status = approval[b].status /\ syscall'[b] = syscall[b]
    BY <1>0, <2>1 DEF ApprovalRows
  <2>3. PhaseOf(a) = "undecided" /\ PhaseOf(a)' = "denied"
    BY <2>1, <2>2 DEF PhaseOf
  <2>4. Abstract!Move(a, "undecided", "denied")
    BY <2>1, <2>2, <2>3, OneMove
  <2> QED BY <2>4 DEF Abstract!Next, Abstract!Decide
<1>3. ASSUME NEW x \in Runners, ClaimSyscall(x)
      PROVE  Abstract!Next \/ UNCHANGED Abstract!vars
  <2>1. /\ runner[x].pc = "claim" /\ WriteStatus(x, "executing", "call")
        /\ runner[x].pc \in WithSyscall /\ "call" \in UnderLease
    BY <1>3 DEF ClaimSyscall, WithSyscall, UnderLease
  <2>2. PICK o \in Requests : o = runner[x].op
    BY <1>0, <2>1, SyscallOfRunner
  <2>3. CASE /\ approval[o].status = "consumed"
             /\ Abstract!Move(o, PhaseOf(o), PhaseAfter("executing"))
    <3>1. PhaseOf(o) = "approved" /\ PhaseAfter("executing") = "attempted"
      BY <1>0, <2>1, <2>2, <2>3 DEF Follows, Shows, PhaseOf, PhaseAfter
    <3> QED BY <2>3, <3>1 DEF Abstract!Next, Abstract!Start
  <2> QED BY <1>0, <2>1, <2>2, <2>3, WriteMoves
<1>4. ASSUME NEW x \in Runners, SettleSyscall(x)
      PROVE  Abstract!Next \/ UNCHANGED Abstract!vars
  <2>1. /\ runner[x].pc = "settle" /\ WriteStatus(x, "executed", "tail")
        /\ runner[x].pc \in WithSyscall /\ "tail" \in UnderLease
    BY <1>4 DEF SettleSyscall, WithSyscall, UnderLease
  <2>2. PICK o \in Requests : o = runner[x].op
    BY <1>0, <2>1, SyscallOfRunner
  <2>3. CASE approval[o].status = "consumed" /\ Abstract!Move(o, PhaseOf(o), PhaseAfter("executed"))
    <3>1. PhaseOf(o) = "attempted" /\ PhaseAfter("executed") = "succeeded" /\ calls[o] > 0
      BY <1>0, <2>1, <2>2, <2>3 DEF Follows, Shows, PhaseOf, PhaseAfter
    <3> QED BY <2>3, <3>1 DEF Abstract!Next, Abstract!Finish
  <2> QED BY <1>0, <2>1, <2>2, <2>3, WriteMoves
<1>5. ASSUME NEW x \in Runners, FailSyscall(x)
      PROVE  Abstract!Next \/ UNCHANGED Abstract!vars
  <2>1. /\ runner[x].pc = "fail" /\ WriteStatus(x, "failed", "fail_op")
        /\ runner[x].pc \in WithSyscall /\ "fail_op" \in UnderLease
    BY <1>5 DEF FailSyscall, WithSyscall, UnderLease
  <2>2. PICK o \in Requests : o = runner[x].op
    BY <1>0, <2>1, SyscallOfRunner
  <2>3. CASE approval[o].status = "consumed" /\ Abstract!Move(o, PhaseOf(o), PhaseAfter("failed"))
    <3>1. PhaseOf(o) = "attempted" /\ PhaseAfter("failed") = "failed"
      BY <1>0, <2>1, <2>2, <2>3 DEF Follows, Shows, PhaseOf, PhaseAfter
    <3> QED BY <2>3, <3>1 DEF Abstract!Next, Abstract!Finish
  <2> QED BY <1>0, <2>1, <2>2, <2>3, WriteMoves
<1>6. ASSUME NEW x \in Runners, CallTool(x)
      PROVE  Abstract!Next \/ UNCHANGED Abstract!vars
  <2>0. PICK o \in Requests : o = runner[x].op
    BY <1>0, <1>6, CallFields
  <2>1. /\ o \in Requests /\ runner[x].pc = "call" /\ syscall' = syscall /\ approval' = approval
        /\ runner[x].tries \in Nat /\ runner[x].tries < RetryAttempts
        /\ calls' \in [Requests -> Nat]
        /\ \A b \in Requests \ {o} : calls'[b] = calls[b]
        /\ calls'[o] = calls[o] + 1 \/ calls' = calls
    BY <1>0, <1>6, <2>0, CallFields DEF storeVars
  <2>2. CASE calls' = calls
    BY <2>1, <2>2, NothingShows
  <2>3. CASE calls'[o] = calls[o] + 1
    <3>1. syscall[o] = "executing" /\ calls[o] <= runner[x].tries
          /\ approval[o].status = "consumed"
      BY <1>0, <2>0, <2>1 DEF Follows
    <3>2. calls[o] < RetryAttempts
      BY <1>0, <2>1, <3>1, ExecutionAssumption
    <3>3. Phase[o] = "attempted" /\ Phase' = Phase
      BY <2>1, <3>1 DEF Phase
    <3>4. calls' = [calls EXCEPT ![o] = calls[o] + 1]
      BY <1>0, <2>1, <2>3
    <3> QED BY <2>1, <3>2, <3>3, <3>4 DEF Abstract!Next, Abstract!Act
  <2> QED BY <2>1, <2>2, <2>3
<1>7. ASSUME NEW x \in Runners,
             \/ AcquireLease(x) \/ LeaseRefused(x) \/ ReadSyscall(x) \/ FailOperation(x)
             \/ InspectOperation(x) \/ CompleteOperation(x) \/ ReleaseLease(x)
             \/ StorageError(x)
      PROVE  UNCHANGED Abstract!vars
  <2>1. UNCHANGED <<approval, syscall, calls>>
    BY <1>7
    DEF AcquireLease, LeaseRefused, ReadSyscall, FailOperation, InspectOperation,
        CompleteOperation, ReleaseLease, StorageError, storeVars
  <2> QED BY <2>1, NothingShows
<1>8. ASSUME NEW d \in Decisions, NEW a \in Requests, NEW k \in Keys \cup {NoKey},
             ReplayDecision(d, a, k)
      PROVE  UNCHANGED Abstract!vars
  BY <1>8, NothingShows DEF ReplayDecision, storeVars
<1>9. ASSUME NEW d \in Decisions, DropConnection(d)
      PROVE  UNCHANGED Abstract!vars
  BY <1>9, NothingShows DEF DropConnection, storeVars
<1>10. ASSUME Recover \/ Crash PROVE UNCHANGED Abstract!vars
  BY <1>10, NothingShows DEF Recover, ListRecoverable, PickRecoverable, Crash, storeVars
<1>11. ASSUME NEW o \in Requests, ExpireLease(o) \/ Cancel(o)
       PROVE  UNCHANGED Abstract!vars
  BY <1>11, NothingShows DEF ExpireLease, Cancel, CancelOperation, execVars, storeVars
<1>12. CASE UNCHANGED vars
  BY <1>12, NothingShows DEF vars, execVars, storeVars
<1> QED
  BY <1>1, <1>2, <1>3, <1>4, <1>5, <1>6, <1>7, <1>8, <1>9, <1>10, <1>11, <1>12
  DEF Next, Decide, Run

\* As long as no run outlives its lease, handlers, replays, recovery, crashes
\* and lost answers together show what ApprovedAction shows: a side effect
\* only after an approval, one period of at most RetryAttempts attempts, and a
\* final, honest result.
THEOREM ExecutionRefinesApprovedAction ==
  Spec /\ [](faults.overruns = 0) => ImplementsApprovedAction
<1>1. Init => Abstract!Init
  BY DEF Init, ExecInit, Abstract!Init, Phase
<1>2. ExecutionInv /\ faults.overruns = 0 /\ [Next]_vars => [Abstract!Next]_(Abstract!vars)
  BY StepsAreAbstract
<1> QED
  BY <1>1, <1>2, ExecutionInvariance, PTL DEF Spec, ImplementsApprovedAction, Abstract!Spec

-----------------------------------------------------------------------------
(* The budget of calls                                                     *)

\* A runner that goes on under a lease that is no longer its own, or ran out.
Outlives(x, o) ==
  /\ runner[x].pc \in UnderLease /\ runner[x].op = o
  /\ ~(/\ lease[o].owner = x
       /\ lease[o].epoch = runner[x].epoch
       /\ lease[o].live)
Outlived(o) == {x \in Runners : Outlives(x, o)}

\* The attempts that runners at work on a syscall may still make.
Spare(a) ==
  {p \in Runners \X (1 .. RetryAttempts) :
     /\ runner[p[1]].op = a
     /\ runner[p[1]].pc \in {"claim", "call"}
     /\ runner[p[1]].tries < p[2]}

\* Every run that outlived its lease was counted when the lease ran out.
OverrunsCounted ==
  \A o \in Requests :
    /\ IsFiniteSet(Outlived(o))
    /\ Cardinality(Outlived(o)) <= faults.overruns

\* What was called and what may still be called, together, is bounded.
WithinBudget ==
  \A a \in Requests :
    /\ IsFiniteSet(Spare(a))
    /\ calls[a] + Cardinality(Spare(a)) <= RetryAttempts * (1 + faults.overruns)

\* A step that only one runner takes, and that changes no lease.
LEMMA OthersOutlive ==
  ASSUME NEW x \in Runners, OthersStay(x), lease' = lease,
         \A o \in Requests : Outlives(x, o)' => Outlives(x, o)
  PROVE  \A o \in Requests : Outlived(o)' \subseteq Outlived(o)
<1>1. ASSUME NEW o \in Requests, NEW y \in Runners, Outlives(y, o)' PROVE Outlives(y, o)
  <2>1. CASE y = x
    BY <1>1, <2>1
  <2>2. CASE y # x
    BY <1>1, <2>2 DEF OthersStay, Outlives
  <2> QED BY <2>1, <2>2
<1> QED BY <1>1 DEF Outlived

\* A runner that is not under a lease outlives none.
LEMMA RestingOutlives ==
  ASSUME NEW x \in Runners, OthersStay(x), lease' = lease,
         runner'[x].pc \notin UnderLease
  PROVE  \A o \in Requests : Outlived(o)' \subseteq Outlived(o)
BY OthersOutlive DEF Outlives

\* A runner that takes a lease over takes it from nobody who still holds it.
LEMMA TakeoverOutlives ==
  ASSUME RowInv, NEW x \in Runners, AcquireLease(x)
  PROVE  \A o \in Requests : Outlived(o)' \subseteq Outlived(o)
<1> DEFINE q == runner[x].op
           row == [owner |-> x, epoch |-> NextEpoch(x, q), live |-> TRUE]
<1>0. /\ runner \in [Runners -> RunnerStates] /\ lease \in [Requests -> Leases]
      /\ NoRow \notin Runners
  BY ExecutionAssumption DEF RowInv, ExecutionTypeOK, Runners
<1>1. /\ q \in Requests /\ lease' = [lease EXCEPT ![q] = row]
      /\ lease[q].owner \in {NoRow, x} \/ ~lease[q].live
  BY <1>0 DEF AcquireLease, RowInv, RunnersKnow, AtWork, Acquirable
<1>2. OthersStay(x) /\ runner'[x].op = q /\ runner'[x].epoch = NextEpoch(x, q)
  BY <1>0 DEF AcquireLease, OthersStay, RunnerStates
<1>3. ASSUME NEW o \in Requests, NEW y \in Runners, Outlives(y, o)' PROVE Outlives(y, o)
  <2>1. CASE y = x
    <3>1. o = q
      BY <1>2, <1>3, <2>1 DEF Outlives
    <3>2. lease'[o] = row
      BY <1>0, <1>1, <3>1
    <3>3. ~Outlives(x, o)'
      BY <1>2, <3>1, <3>2 DEF Outlives
    <3> QED BY <1>3, <2>1, <3>3
  <2>2. CASE y # x /\ o # q
    <3>1. runner'[y] = runner[y] /\ lease'[o] = lease[o]
      BY <1>0, <1>1, <1>2, <2>2 DEF OthersStay
    <3> QED BY <1>3, <3>1 DEF Outlives
  <2>3. CASE y # x /\ o = q
    <3>1. runner'[y] = runner[y]
      BY <1>2, <2>3 DEF OthersStay
    <3>2. ~(lease[q].owner = y /\ lease[q].live)
      BY <1>0, <1>1, <2>3
    <3> QED BY <1>3, <2>3, <3>1, <3>2 DEF Outlives
  <2> QED BY <2>1, <2>2, <2>3
<1> QED BY <1>3 DEF Outlived

\* A runner that releases takes no lease from another one.
LEMMA ReleaseOutlives ==
  ASSUME RowInv, NEW x \in Runners, ReleaseLease(x)
  PROVE  \A o \in Requests : Outlived(o)' \subseteq Outlived(o)
<1>0. /\ runner \in [Runners -> RunnerStates] /\ lease \in [Requests -> Leases]
  BY DEF RowInv, ExecutionTypeOK
<1>1. PICK ok \in BOOLEAN : Leave(x, ok)
  BY DEF ReleaseLease
<1>2. OthersStay(x) /\ runner'[x].pc \notin UnderLease
  BY <1>0, <1>1, LeaveFields DEF Rests, UnderLease
<1>3. \/ lease' = lease
      \/ lease[runner[x].op].owner = x /\ lease' = [lease EXCEPT ![runner[x].op] = NoLease]
  BY DEF ReleaseLease
<1>4. ASSUME NEW o \in Requests, NEW y \in Runners, Outlives(y, o)' PROVE Outlives(y, o)
  <2>1. y # x /\ runner'[y] = runner[y]
    BY <1>2, <1>4 DEF OthersStay, Outlives
  <2>2. lease'[o] = lease[o] \/ lease[o].owner = x
    BY <1>0, <1>3
  <2> QED BY <1>4, <2>1, <2>2 DEF Outlives
<1> QED BY <1>4 DEF Outlived

\* A lease that runs out under its holder is counted, and has one holder.
LEMMA ExpiryOutlives ==
  ASSUME RowInv, NEW q \in Requests, ExpireLease(q)
  PROVE  \A o \in Requests :
           \/ Outlived(o)' \subseteq Outlived(o)
           \/ \E x \in Runners : /\ Outlived(o)' \subseteq Outlived(o) \cup {x}
                                 /\ faults'.overruns = faults.overruns + 1
<1>0. /\ lease \in [Requests -> Leases] /\ runner' = runner
      /\ lease' = [lease EXCEPT ![q].live = FALSE]
      /\ faults \in [errors : 0 .. MaxFaults, overruns : 0 .. MaxOverruns]
  BY DEF RowInv, ExecutionTypeOK, ExpireLease
<1>1. TAKE o \in Requests
<1>2. CASE o # q
  BY <1>0, <1>2 DEF Outlived, Outlives
<1>3. CASE o = q /\ ~\E x \in Runners : Holds(x, q)
  BY <1>0, <1>3 DEF Outlived, Outlives, Holds
<1>4. CASE o = q /\ \E x \in Runners : Holds(x, q)
  <2>1. PICK x \in Runners : Holds(x, q)
    BY <1>4
  <2>2. faults' = [faults EXCEPT !.overruns = @ + 1]
    BY <1>4 DEF ExpireLease
  <2>3. faults'.overruns = faults.overruns + 1
    BY <1>0, <2>2
  <2>4. ASSUME NEW y \in Runners, y # x, Outlives(y, q)' PROVE Outlives(y, q)
    BY <1>0, <2>1, <2>4 DEF Holds, Outlives
  <2>5. Outlived(o)' \subseteq Outlived(o) \cup {x}
    BY <1>4, <2>4 DEF Outlived
  <2> QED BY <2>3, <2>5
<1> QED BY <1>2, <1>3, <1>4

\* No step but that adds to the runs that outlive their lease.
LEMMA OutlivedSteps ==
  ASSUME RowInv, [Next]_vars
  PROVE  \A o \in Requests :
           \/ Outlived(o)' \subseteq Outlived(o)
           \/ \E x \in Runners : /\ Outlived(o)' \subseteq Outlived(o) \cup {x}
                                 /\ faults'.overruns = faults.overruns + 1
<1> DEFINE Stay == \A o \in Requests : Outlived(o)' \subseteq Outlived(o)
<1>0. /\ runner \in [Runners -> RunnerStates]
      /\ \A a \in Requests : approval[a].op = a
      /\ "approve" \in Choices /\ "deny" \in Choices
  BY DEF RowInv, ExecutionTypeOK, Choices, OwnApproval
<1>3. ASSUME NEW d \in Runners, NEW a \in Requests, NEW c \in Choices, StartRun(d, a, c)
      PROVE  OthersStay(d) /\ runner'[d].pc \notin UnderLease
  BY <1>0, <1>3, StartFields DEF UnderLease
<1>4. ASSUME NEW x \in Runners, NEW ok \in BOOLEAN, Leave(x, ok)
      PROVE  OthersStay(x) /\ runner'[x].pc \notin UnderLease
  BY <1>0, <1>4, LeaveFields DEF Rests, UnderLease
<1>5. ASSUME NEW d \in Decisions, NEW a \in Requests, NEW k \in Keys \cup {NoKey},
             Decide(d, a, k)
      PROVE  Stay
  <2>1. d \in Runners
    BY DEF Runners
  <2>2. PICK c \in Choices : StartRun(d, a, c) /\ lease' = lease
    <3>1. CASE ReplayDecision(d, a, k)
      <4>1. StoredChoice(a, k) \in Choices
        BY <3>1, StoredChoiceType DEF ReplayDecision, RowInv, ExecutionTypeOK
      <4> QED BY <3>1, <4>1 DEF ReplayDecision
    <3>2. CASE Approve(d, a, k)
      BY <1>0, <3>2 DEF Approve
    <3>3. CASE Deny(d, a, k)
      BY <1>0, <3>3 DEF Deny
    <3> QED BY <1>5, <3>1, <3>2, <3>3 DEF Decide
  <2> QED BY <1>3, <2>1, <2>2, RestingOutlives
<1>6. CASE ListRecoverable \/ \E o \in Requests : Cancel(o)
  BY <1>6 DEF ListRecoverable, Cancel, execVars, Outlived, Outlives
<1>7. CASE PickRecoverable
  <2>1. PICK a \in worklist : StartRun(Recovery, a, "approve")
    BY <1>7 DEF PickRecoverable
  <2>2. Recovery \in Runners /\ a \in Requests /\ lease' = lease
    BY <1>7 DEF Runners, RowInv, ExecutionTypeOK, PickRecoverable
  <2> QED BY <1>0, <1>3, <2>1, <2>2, RestingOutlives
<1>8. ASSUME NEW x \in Runners, LeaseRefused(x) PROVE Stay
  BY <1>4, <1>8, RestingOutlives DEF LeaseRefused
<1>9. ASSUME NEW x \in Runners,
              \/ ReadSyscall(x) \/ ClaimSyscall(x) \/ CallTool(x) \/ SettleSyscall(x)
              \/ FailSyscall(x) \/ FailOperation(x) \/ InspectOperation(x)
              \/ CompleteOperation(x)
      PROVE  Stay
  <2>1. /\ runner[x].pc \in UnderLease /\ OthersStay(x) /\ lease' = lease
        /\ runner'[x].op = runner[x].op /\ runner'[x].epoch = runner[x].epoch
    BY <1>9, UnderLeaseFields
  <2>2. \A o \in Requests : Outlives(x, o)' => Outlives(x, o)
    BY <2>1 DEF Outlives
  <2> QED BY <2>1, <2>2, OthersOutlive
<1>10. ASSUME NEW x \in Runners, StorageError(x) PROVE Stay
  <2>1. lease' = lease
    BY <1>10 DEF StorageError
  <2>2. CASE runner[x].pc \in UnderLease /\ Goto(x, "release")
    <3>1. /\ OthersStay(x) /\ runner'[x].op = runner[x].op
          /\ runner'[x].epoch = runner[x].epoch
      BY <1>0, <2>2, GotoFields DEF UnderLease
    <3>2. \A o \in Requests : Outlives(x, o)' => Outlives(x, o)
      BY <2>1, <2>2, <3>1 DEF Outlives
    <3> QED BY <2>1, <3>1, <3>2, OthersOutlive
  <2>3. CASE Leave(x, FALSE)
    BY <1>4, <2>1, <2>3, RestingOutlives
  <2> QED BY <1>10, <2>2, <2>3 DEF StorageError
<1>11. ASSUME NEW d \in Decisions, DropConnection(d) PROVE Stay
  <2>1. d \in Runners
    BY DEF Runners
  <2>2. OthersStay(d) /\ runner'[d].pc \notin UnderLease /\ lease' = lease
    BY <1>0, <1>11, <2>1, RestingRunners DEF DropConnection, OthersStay, UnderLease
  <2> QED BY <2>1, <2>2, RestingOutlives
<1>12. CASE Crash
  BY <1>12, RestingRunners DEF Crash, Outlived, Outlives, UnderLease
<1>13. CASE UNCHANGED vars
  BY <1>13 DEF vars, execVars, Outlived, Outlives
<1> QED
  BY <1>5, <1>6, <1>7, <1>8, <1>9, <1>10, <1>11, <1>12, <1>13, TakeoverOutlives,
     ReleaseOutlives, ExpiryOutlives
  DEF Next, Recover, Run

\* One element more.
LEMMA AddedAtMostOne ==
  ASSUME NEW S, NEW x, IsFiniteSet(S)
  PROVE  /\ IsFiniteSet(S \cup {x})
         /\ Cardinality(S) \in Nat /\ Cardinality(S \cup {x}) \in Nat
         /\ Cardinality(S \cup {x}) <= Cardinality(S) + 1
<1>1. /\ IsFiniteSet(S \cup {x})
      /\ Cardinality(S \cup {x}) = IF x \in S THEN Cardinality(S) ELSE Cardinality(S) + 1
  BY FS_AddElement
<1>2. Cardinality(S) \in Nat
  BY FS_CardinalityType
<1>3. Cardinality(S \cup {x}) \in Nat
  BY <1>1, <1>2
<1>4. Cardinality(S \cup {x}) <= Cardinality(S) + 1
  BY <1>1, <1>2
<1> QED BY <1>1, <1>2, <1>3, <1>4

\* The overruns stay counted.
LEMMA OverrunsAreCounted ==
  RowInv /\ OverrunsCounted /\ [Next]_vars => OverrunsCounted'
<1> SUFFICES ASSUME RowInv, OverrunsCounted, [Next]_vars, NEW o \in Requests
    PROVE  IsFiniteSet(Outlived(o)') /\ Cardinality(Outlived(o)') <= faults'.overruns
  BY DEF OverrunsCounted
<1> DEFINE S == Outlived(o)
           T == Outlived(o)'
<1>1. IsFiniteSet(S) /\ Cardinality(S) \in Nat /\ Cardinality(S) <= faults.overruns
  BY FS_CardinalityType DEF OverrunsCounted
<1>2. Overran
  BY OverrunsStay
<1>3. \/ T \subseteq S
      \/ \E x \in Runners : T \subseteq S \cup {x} /\ faults'.overruns = faults.overruns + 1
  BY OutlivedSteps
<1> HIDE DEF S, T
<1>4. CASE T \subseteq S
  <2>1. IsFiniteSet(T) /\ Cardinality(T) <= Cardinality(S) /\ Cardinality(T) \in Nat
    BY <1>1, <1>4, FS_Subset, FS_CardinalityType
  <2>2. IsFiniteSet(T) /\ Cardinality(T) <= faults'.overruns
    BY <1>1, <1>2, <2>1 DEF Overran
  <2> QED BY <2>2 DEF T
<1>5. CASE \E x \in Runners : T \subseteq S \cup {x}
                              /\ faults'.overruns = faults.overruns + 1
  <2>1. PICK x \in Runners : /\ T \subseteq S \cup {x}
                             /\ faults'.overruns = faults.overruns + 1
    BY <1>5
  <2>2. /\ IsFiniteSet(S \cup {x}) /\ Cardinality(S \cup {x}) \in Nat
        /\ Cardinality(S \cup {x}) <= Cardinality(S) + 1
    BY <1>1, AddedAtMostOne
  <2>3. /\ IsFiniteSet(T) /\ Cardinality(T) <= Cardinality(S \cup {x})
        /\ Cardinality(T) \in Nat
    BY <2>1, <2>2, FS_Subset, FS_CardinalityType
  <2>4. IsFiniteSet(T) /\ Cardinality(T) <= faults'.overruns
    BY <1>1, <1>2, <2>1, <2>2, <2>3 DEF Overran
  <2> QED BY <2>4 DEF T
<1> QED BY <1>3, <1>4, <1>5

\* More overruns leave more to spend.
LEMMA BudgetGrows ==
  ASSUME NEW m \in Nat, NEW n \in Nat, m <= n
  PROVE  /\ RetryAttempts * (1 + m) \in Nat
         /\ RetryAttempts * (1 + m) <= RetryAttempts * (1 + n)
<1>1. RetryAttempts \in Nat
  BY ExecutionAssumption
<1>2. PICK k \in Nat : n = m + k
  <2>1. n - m \in Nat /\ n = m + (n - m)
    OBVIOUS
  <2> QED BY <2>1
<1>3. /\ RetryAttempts * (1 + m) \in Nat /\ RetryAttempts * k \in Nat
      /\ RetryAttempts * (1 + n) = RetryAttempts * (1 + m) + RetryAttempts * k
  BY <1>1, <1>2
<1> QED BY <1>3

\* No more attempts are open than the overruns so far account for.
FewMayClaim ==
  \A a \in Requests :
    /\ IsFiniteSet(Spare(a))
    /\ Cardinality(Spare(a)) <= RetryAttempts * (1 + faults.overruns)

\* Before a syscall is claimed, whoever may claim it holds the lease or
\* outlived it: one run, and one more for each overrun.
LEMMA UnclaimedBudget == RowInv /\ OverrunsCounted => FewMayClaim
<1> SUFFICES ASSUME RowInv, OverrunsCounted, NEW a \in Requests
    PROVE  /\ IsFiniteSet(Spare(a))
           /\ Cardinality(Spare(a)) <= RetryAttempts * (1 + faults.overruns)
  BY DEF FewMayClaim
<1> DEFINE W == Outlived(a) \cup {lease[a].owner}
           I == 1 .. RetryAttempts
<1>1. ASSUME NEW x \in Runners, runner[x].op = a, runner[x].pc \in {"claim", "call"}
      PROVE  x \in W
  BY <1>1 DEF Outlived, Outlives, UnderLease
<1>2. Spare(a) \subseteq W \X I
  BY <1>1 DEF Spare
<1>3. /\ IsFiniteSet(Outlived(a)) /\ Cardinality(Outlived(a)) <= faults.overruns
      /\ Cardinality(Outlived(a)) \in Nat /\ faults.overruns \in Nat
  BY FS_CardinalityType, ExecutionAssumption DEF OverrunsCounted, RowInv, ExecutionTypeOK
<1>4. /\ IsFiniteSet(W) /\ Cardinality(W) \in Nat
      /\ Cardinality(W) <= 1 + faults.overruns
  <2>1. /\ IsFiniteSet(W) /\ Cardinality(W) \in Nat
        /\ Cardinality(W) <= Cardinality(Outlived(a)) + 1
    BY <1>3, AddedAtMostOne
  <2> HIDE DEF W
  <2> QED BY <1>3, <2>1
<1>5. IsFiniteSet(I) /\ Cardinality(I) = RetryAttempts /\ RetryAttempts \in Nat
  BY FS_Interval, ExecutionAssumption
<1> HIDE DEF W, I
<1>6. IsFiniteSet(W \X I) /\ Cardinality(W \X I) = Cardinality(W) * RetryAttempts
  BY <1>4, <1>5, FS_Product
<1>7. /\ IsFiniteSet(Spare(a)) /\ Cardinality(Spare(a)) \in Nat
      /\ Cardinality(Spare(a)) <= Cardinality(W) * RetryAttempts
  BY <1>2, <1>6, FS_Subset, FS_CardinalityType
<1>8. Cardinality(W) * RetryAttempts <= RetryAttempts * (1 + faults.overruns)
  <2>1. PICK k \in Nat : 1 + faults.overruns = Cardinality(W) + k
    <3>1. /\ (1 + faults.overruns) - Cardinality(W) \in Nat
          /\ 1 + faults.overruns = Cardinality(W) + ((1 + faults.overruns) - Cardinality(W))
      BY <1>3, <1>4
    <3> QED BY <3>1
  <2>2. /\ RetryAttempts * k \in Nat /\ Cardinality(W) * RetryAttempts \in Nat
        /\ RetryAttempts * (1 + faults.overruns)
             = Cardinality(W) * RetryAttempts + RetryAttempts * k
    BY <1>4, <1>5, <2>1
  <2> QED BY <2>2
<1>9. RetryAttempts * (1 + faults.overruns) \in Nat /\ Cardinality(W) * RetryAttempts \in Nat
  BY <1>3, <1>4, <1>5
<1> QED BY <1>7, <1>8, <1>9

\* A step of one runner that neither takes up a syscall nor starts to count.
LEMMA OthersSpend ==
  ASSUME NEW x \in Runners, OthersStay(x),
         \/ runner'[x].pc \notin {"claim", "call"}
         \/ /\ runner[x].pc \in {"claim", "call"}
            /\ runner'[x].op = runner[x].op /\ runner'[x].tries = runner[x].tries
  PROVE  \A a \in Requests : Spare(a)' \subseteq Spare(a)
<1>1. ASSUME NEW a \in Requests, NEW p \in Runners \X (1 .. RetryAttempts),
             runner'[p[1]].op = a, runner'[p[1]].pc \in {"claim", "call"},
             runner'[p[1]].tries < p[2]
      PROVE  /\ runner[p[1]].op = a /\ runner[p[1]].pc \in {"claim", "call"}
             /\ runner[p[1]].tries < p[2]
  <2>1. CASE p[1] = x
    BY <1>1, <2>1
  <2>2. CASE p[1] # x
    BY <1>1, <2>2 DEF OthersStay
  <2> QED BY <2>1, <2>2
<1> QED BY <1>1 DEF Spare

\* An attempt is spent before its answer is known, whether the tool acted or not.
LEMMA CallSpends ==
  ASSUME RowInv, NEW x \in Runners, CallTool(x), NEW a \in Requests
  PROVE  \/ Spare(a)' \subseteq Spare(a) /\ calls'[a] = calls[a]
         \/ \E p \in Spare(a) : /\ Spare(a)' \subseteq Spare(a) \ {p}
                                /\ calls'[a] <= calls[a] + 1
<1>0. /\ OthersStay(x) /\ runner[x].pc = "call" /\ runner[x].op \in Requests
      /\ runner[x].tries \in Nat /\ runner[x].tries < RetryAttempts
      /\ runner'[x].op = runner[x].op /\ runner'[x].tries = runner[x].tries + 1
      /\ \A b \in Requests \ {runner[x].op} : calls'[b] = calls[b]
      /\ calls'[runner[x].op] = calls[runner[x].op] + 1 \/ calls' = calls
      /\ calls \in [Requests -> Nat]
  BY CallFields DEF RowInv, ExecutionTypeOK
<1>1. ASSUME NEW p \in Spare(a)' PROVE p \in Spare(a)
  <2>1. /\ p \in Runners \X (1 .. RetryAttempts) /\ runner'[p[1]].op = a
        /\ runner'[p[1]].pc \in {"claim", "call"} /\ runner'[p[1]].tries < p[2]
    BY DEF Spare
  <2>2. CASE p[1] = x
    <3>1. runner[x].tries < p[2] /\ p[2] \in Nat
      BY <1>0, <2>1, <2>2, ExecutionAssumption
    <3> QED BY <1>0, <2>1, <2>2, <3>1 DEF Spare
  <2>3. CASE p[1] # x
    BY <1>0, <2>1, <2>3 DEF Spare, OthersStay
  <2> QED BY <2>2, <2>3
<1>2. CASE a # runner[x].op
  BY <1>0, <1>1, <1>2
<1>3. CASE a = runner[x].op
  <2> DEFINE t == <<x, runner[x].tries + 1>>
  <2>1. t \in Spare(a)
    <3>1. runner[x].tries + 1 \in 1 .. RetryAttempts /\ runner[x].tries < runner[x].tries + 1
      BY <1>0, ExecutionAssumption
    <3> QED BY <1>0, <1>3, <3>1 DEF Spare
  <2>2. PICK p \in Spare(a) : p = t
    BY <2>1
  <2>3. p \notin Spare(a)'
    <3>1. p[1] = x /\ p[2] = runner'[x].tries
      BY <1>0, <2>2
    <3>2. ~(runner'[x].tries < runner'[x].tries)
      BY <1>0
    <3> QED BY <3>1, <3>2 DEF Spare
  <2>4. calls'[a] <= calls[a] + 1
    BY <1>0, <1>3
  <2> QED BY <1>1, <2>3, <2>4
<1> QED BY <1>2, <1>3

\* Whoever takes up a syscall finds it permitted.
LEMMA SpareSteps ==
  ASSUME RowInv, [Next]_vars
  PROVE  \A a \in Requests :
           \/ Spare(a)' \subseteq Spare(a) /\ calls'[a] = calls[a]
           \/ \E p \in Spare(a) : /\ Spare(a)' \subseteq Spare(a) \ {p}
                                  /\ calls'[a] <= calls[a] + 1
           \/ syscall'[a] = "permitted"
<1> DEFINE Stay == \A a \in Requests : Spare(a)' \subseteq Spare(a) /\ calls'[a] = calls[a]
<1>0. /\ runner \in [Runners -> RunnerStates]
      /\ \A a \in Requests : approval[a].op = a
      /\ "approve" \in Choices /\ "deny" \in Choices
      /\ "claim" \in UnderLease /\ "tail" \in UnderLease /\ "complete" \in UnderLease
      /\ "release" \in UnderLease /\ "call" \in UnderLease /\ "fail_op" \in UnderLease
  BY DEF RowInv, ExecutionTypeOK, Choices, OwnApproval, UnderLease
<1>1. ASSUME NEW x \in Runners, NEW pc \in UnderLease \ {"claim", "call"}, Goto(x, pc),
             calls' = calls
      PROVE  Stay
  <2>1. OthersStay(x) /\ runner'[x].pc = pc
    BY <1>0, <1>1, GotoFields
  <2> QED BY <1>1, <2>1, OthersSpend
<1>2. ASSUME NEW x \in Runners, OthersStay(x), runner'[x].pc \notin UnderLease, calls' = calls
      PROVE  Stay
  <2>1. runner'[x].pc \notin {"claim", "call"}
    BY <1>0, <1>2
  <2> QED BY <1>2, <2>1, OthersSpend
<1>3. ASSUME NEW d \in Runners, NEW a \in Requests, NEW c \in Choices, StartRun(d, a, c)
      PROVE  OthersStay(d) /\ runner'[d].pc \notin UnderLease
  BY <1>0, <1>3, StartFields DEF UnderLease
<1>4. ASSUME NEW x \in Runners, NEW ok \in BOOLEAN, Leave(x, ok)
      PROVE  OthersStay(x) /\ runner'[x].pc \notin UnderLease
  BY <1>0, <1>4, LeaveFields DEF Rests, UnderLease
<1>5. ASSUME NEW d \in Decisions, NEW a \in Requests, NEW k \in Keys \cup {NoKey},
             Decide(d, a, k)
      PROVE  Stay
  <2>1. d \in Runners
    BY DEF Runners
  <2>2. PICK c \in Choices : StartRun(d, a, c) /\ calls' = calls
    <3>1. CASE ReplayDecision(d, a, k)
      <4>1. StoredChoice(a, k) \in Choices
        BY <3>1, StoredChoiceType DEF ReplayDecision, RowInv, ExecutionTypeOK
      <4> QED BY <3>1, <4>1 DEF ReplayDecision
    <3>2. CASE Approve(d, a, k)
      BY <1>0, <3>2 DEF Approve
    <3>3. CASE Deny(d, a, k)
      BY <1>0, <3>3 DEF Deny
    <3> QED BY <1>5, <3>1, <3>2, <3>3 DEF Decide
  <2> QED BY <1>2, <1>3, <2>1, <2>2
<1>6. CASE ListRecoverable \/ \E o \in Requests : Cancel(o) \/ ExpireLease(o)
  BY <1>6 DEF ListRecoverable, Cancel, ExpireLease, execVars, Spare
<1>7. CASE PickRecoverable
  <2>1. PICK a \in worklist : StartRun(Recovery, a, "approve")
    BY <1>7 DEF PickRecoverable
  <2>2. Recovery \in Runners /\ a \in Requests /\ calls' = calls
    BY <1>7 DEF Runners, RowInv, ExecutionTypeOK, PickRecoverable
  <2> QED BY <1>0, <1>2, <1>3, <2>1, <2>2
<1>8. ASSUME NEW x \in Runners, LeaseRefused(x) \/ ReleaseLease(x) PROVE Stay
  <2>1. PICK ok \in BOOLEAN : Leave(x, ok)
    BY <1>8 DEF LeaseRefused, ReleaseLease
  <2>2. calls' = calls
    BY <1>8 DEF LeaseRefused, ReleaseLease
  <2> QED BY <1>2, <1>4, <2>1, <2>2
<1>9. ASSUME NEW x \in Runners, AcquireLease(x) PROVE Stay
  <2>1. /\ OthersStay(x) /\ runner'[x].pc \in {"tail", "read"} /\ calls' = calls
    BY <1>0, <1>9 DEF AcquireLease, OthersStay, RunnerStates
  <2>2. runner'[x].pc \notin {"claim", "call"}
    BY <2>1
  <2> QED BY <2>1, <2>2, OthersSpend
<1>10. ASSUME NEW x \in Runners, ReadSyscall(x), NEW a \in Requests
       PROVE  \/ Spare(a)' \subseteq Spare(a) /\ calls'[a] = calls[a]
              \/ syscall'[a] = "permitted"
  <2>0. calls' = calls /\ syscall' = syscall
    BY <1>10 DEF ReadSyscall
  <2>1. CASE syscall[runner[x].todo] # "permitted"
    <3>1. Goto(x, "tail")
      BY <1>10, <2>1 DEF ReadSyscall
    <3>2. "tail" \in UnderLease \ {"claim", "call"}
      BY <1>0
    <3> QED BY <1>1, <2>0, <3>1, <3>2
  <2>2. CASE syscall[runner[x].todo] = "permitted" /\ a # runner[x].op
    <3>1. /\ OthersStay(x) /\ runner'[x].op = runner[x].op
      BY <1>0, <1>10, <2>2, GotoFields DEF ReadSyscall
    <3>2. ASSUME NEW p \in Spare(a)' PROVE p \in Spare(a)
      <4>1. p[1] # x
        BY <2>2, <3>1, <3>2 DEF Spare
      <4> QED BY <3>1, <3>2, <4>1 DEF Spare, OthersStay
    <3> QED BY <2>0, <3>2
  <2>3. CASE syscall[runner[x].todo] = "permitted" /\ a = runner[x].op
    <3>1. runner[x].todo = a
      BY <1>10, <2>3, SyscallOfRunner DEF ReadSyscall, WithSyscall
    <3> QED BY <2>0, <2>3, <3>1
  <2> QED BY <2>1, <2>2, <2>3
<1>11. ASSUME NEW x \in Runners, ClaimSyscall(x) PROVE Stay
  <2>1. /\ runner[x].pc = "claim" /\ OthersStay(x) /\ calls' = calls
        /\ runner'[x].op = runner[x].op /\ runner'[x].tries = runner[x].tries
    BY <1>0, <1>11, WriteFields DEF ClaimSyscall, SyscallStates, WithSyscall
  <2> QED BY <2>1, OthersSpend
<1>12. ASSUME NEW x \in Runners, SettleSyscall(x) \/ FailSyscall(x) PROVE Stay
  <2>1. /\ OthersStay(x) /\ calls' = calls /\ runner'[x].pc \in {"tail", "fail_op", "release"}
    BY <1>0, <1>12, WriteFields DEF SettleSyscall, FailSyscall, SyscallStates, WithSyscall
  <2>2. runner'[x].pc \notin {"claim", "call"}
    BY <2>1
  <2> QED BY <2>1, <2>2, OthersSpend
<1>13. ASSUME NEW x \in Runners,
              FailOperation(x) \/ InspectOperation(x) \/ CompleteOperation(x)
       PROVE  Stay
  <2>1. calls' = calls /\ (Goto(x, "tail") \/ Goto(x, "complete") \/ Goto(x, "release"))
    BY <1>13 DEF FailOperation, InspectOperation, CompleteOperation
  <2>2. {"tail", "complete", "release"} \subseteq UnderLease \ {"claim", "call"}
    BY <1>0
  <2> QED BY <1>1, <2>1, <2>2
<1>14. ASSUME NEW x \in Runners, StorageError(x) PROVE Stay
  <2>1. calls' = calls /\ "release" \in UnderLease \ {"claim", "call"}
    BY <1>0, <1>14 DEF StorageError
  <2>2. CASE Goto(x, "release")
    BY <1>1, <2>1, <2>2
  <2>3. CASE Leave(x, FALSE)
    BY <1>2, <1>4, <2>1, <2>3
  <2> QED BY <1>14, <2>2, <2>3 DEF StorageError
<1>15. ASSUME NEW d \in Decisions, DropConnection(d) PROVE Stay
  <2>1. d \in Runners /\ calls' = calls
    BY <1>15 DEF Runners, DropConnection
  <2>2. OthersStay(d) /\ runner'[d].pc \notin UnderLease
    BY <1>0, <1>15, <2>1, RestingRunners DEF DropConnection, OthersStay, UnderLease
  <2> QED BY <1>2, <2>1, <2>2
<1>16. CASE Crash
  BY <1>16, RestingRunners DEF Crash, Spare
<1>17. CASE UNCHANGED vars
  BY <1>17 DEF vars, execVars, Spare
<1>18. ASSUME NEW x \in Runners, NEW a \in Requests, CallTool(x)
       PROVE  \/ Spare(a)' \subseteq Spare(a) /\ calls'[a] = calls[a]
              \/ \E p \in Spare(a) : /\ Spare(a)' \subseteq Spare(a) \ {p}
                                     /\ calls'[a] <= calls[a] + 1
  BY <1>18, CallSpends
<1> QED
  BY <1>5, <1>6, <1>7, <1>8, <1>9, <1>10, <1>11, <1>12, <1>13, <1>14, <1>15, <1>16, <1>17,
     <1>18
  DEF Next, Recover, Run

\* Every step keeps to the budget.
LEMMA BudgetKept ==
  RowInv /\ ResultInv /\ OverrunsCounted /\ WithinBudget /\ [Next]_vars => WithinBudget'
<1> SUFFICES ASSUME RowInv, ResultInv, OverrunsCounted, WithinBudget, [Next]_vars,
                    NEW a \in Requests
    PROVE  /\ IsFiniteSet(Spare(a)')
           /\ calls'[a] + Cardinality(Spare(a)') <= RetryAttempts * (1 + faults'.overruns)
  BY DEF WithinBudget
<1> DEFINE S == Spare(a)
           T == Spare(a)'
           b == RetryAttempts * (1 + faults.overruns)
           c == RetryAttempts * (1 + faults'.overruns)
<1>0. RowInv' /\ ResultInv' /\ OverrunsCounted' /\ Overran
  BY RowsStay, ResultsKept, OverrunsAreCounted, OverrunsStay
<1>1. /\ IsFiniteSet(S) /\ Cardinality(S) \in Nat /\ calls[a] \in Nat /\ calls'[a] \in Nat
      /\ calls[a] + Cardinality(S) <= b
  BY <1>0, FS_CardinalityType DEF WithinBudget, RowInv, ExecutionTypeOK
<1>2. b \in Nat /\ c \in Nat /\ b <= c
  BY <1>0, BudgetGrows DEF Overran
<1>3. CASE syscall'[a] = "permitted"
  <2>1. calls'[a] = 0
    BY <1>0, <1>1, <1>3 DEF ResultInv, Honest, Begun
  <2>2. FewMayClaim'
    BY <1>0, UnclaimedBudget, PTL
  <2>3. IsFiniteSet(T) /\ Cardinality(T) <= c /\ Cardinality(T) \in Nat
    BY <2>2, FS_CardinalityType DEF FewMayClaim
  <2> HIDE DEF S, T, b, c
  <2>4. calls'[a] + Cardinality(T) <= c
    BY <1>2, <2>1, <2>3
  <2> QED BY <2>3, <2>4 DEF T, c
<1>4. CASE T \subseteq S /\ calls'[a] = calls[a]
  <2> HIDE DEF S, T, b, c
  <2>1. IsFiniteSet(T) /\ Cardinality(T) \in Nat /\ Cardinality(T) <= Cardinality(S)
    BY <1>1, <1>4, FS_Subset, FS_CardinalityType
  <2>2. calls'[a] + Cardinality(T) <= c
    BY <1>1, <1>2, <1>4, <2>1
  <2> QED BY <2>1, <2>2 DEF T, c
<1>5. CASE \E p \in S : T \subseteq S \ {p} /\ calls'[a] <= calls[a] + 1
  <2>1. PICK p \in S : T \subseteq S \ {p} /\ calls'[a] <= calls[a] + 1
    BY <1>5
  <2> HIDE DEF S, T, b, c
  <2>2. IsFiniteSet(S \ {p}) /\ Cardinality(S \ {p}) = Cardinality(S) - 1
    BY <1>1, FS_RemoveElement
  <2>3. IsFiniteSet(T) /\ Cardinality(T) \in Nat /\ Cardinality(T) <= Cardinality(S \ {p})
    BY <2>1, <2>2, FS_Subset, FS_CardinalityType
  <2>4. calls'[a] + Cardinality(T) <= c
    BY <1>1, <1>2, <2>1, <2>2, <2>3
  <2> QED BY <2>3, <2>4 DEF T, c
<1> QED BY <1>3, <1>4, <1>5, SpareSteps

\* No lease is out, and nobody has called, at first.
LEMMA InitBudget == Init => OverrunsCounted /\ WithinBudget
<1> SUFFICES ASSUME Init PROVE OverrunsCounted /\ WithinBudget
  OBVIOUS
<1>1. \A o \in Requests : Outlived(o) = {} /\ Spare(o) = {} /\ calls[o] = 0
  BY RestingRunners DEF Init, ExecInit, Outlived, Outlives, Spare, UnderLease
<1>2. faults.overruns = 0
  BY DEF Init, ExecInit
<1> QED BY <1>1, <1>2, FS_EmptySet, ExecutionAssumption DEF OverrunsCounted, WithinBudget

\* One run may try RetryAttempts times, and each run that outlives its lease
\* lets in one more: whatever else fails, is replayed, recovered or restarted,
\* the tool acts no more often than that.
THEOREM CallsStayBounded == Spec => []CallsAreBounded
<1>1. Init => RowInv /\ ResultInv /\ OverrunsCounted /\ WithinBudget
  BY InitRows, InitResults, InitBudget
<1>2. RowInv /\ ResultInv /\ OverrunsCounted /\ WithinBudget /\ [Next]_vars
        => (RowInv /\ ResultInv /\ OverrunsCounted /\ WithinBudget)'
  BY RowsStay, ResultsKept, OverrunsAreCounted, BudgetKept
<1>3. RowInv /\ WithinBudget => CallsAreBounded
  <2> SUFFICES ASSUME RowInv, WithinBudget, NEW a \in Requests
      PROVE  calls[a] <= RetryAttempts * (1 + faults.overruns)
    BY DEF CallsAreBounded
  <2>1. /\ calls[a] \in Nat /\ Cardinality(Spare(a)) \in Nat
        /\ calls[a] + Cardinality(Spare(a)) <= RetryAttempts * (1 + faults.overruns)
    BY FS_CardinalityType DEF WithinBudget, RowInv, ExecutionTypeOK
  <2>2. RetryAttempts * (1 + faults.overruns) \in Nat
    <3>1. RetryAttempts \in Nat /\ faults.overruns \in Nat
      BY ExecutionAssumption DEF RowInv, ExecutionTypeOK
    <3> QED BY <3>1
  <2> QED BY <2>1, <2>2
<1> QED BY <1>1, <1>2, <1>3, PTL DEF Spec

=============================================================================
