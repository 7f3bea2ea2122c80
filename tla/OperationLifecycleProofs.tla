---------------------- MODULE OperationLifecycleProofs ----------------------
(***************************************************************************)
(* For every set of requests, invocations and decisions: what intake       *)
(* proves of itself survives the decisions and the runners that work on    *)
(* the same rows, and with what these know it gives the safety of a whole  *)
(* life cycle.  One request leads to one side effect at most, each send is *)
(* explained by the records, who waits for a decision can be decided, and  *)
(* within the lease the whole life cycle implements ApprovedAction.        *)
(*                                                                         *)
(* The step lemmas of intake are taken over from its own proofs, as the    *)
(* instance Part; the first lemmas say that it is the intake of the        *)
(* composition.                                                            *)
(***************************************************************************)
EXTENDS OperationLifecycle, FiniteSetTheorems, TLAPS

Part == INSTANCE RequestIntakeProofs

\* What the instance assumes holds here.
LEMMA PartAssumptions ==
  /\ NoRow \notin Requests
  /\ NoKey \notin Keys /\ NoRow \notin RequestIds /\ MaxAborts \in Nat
BY LifecycleAssumption, NoRowAssumption

\* A step of the intake of the composition is a step of the intake proved about.
LEMMA SameStep == Intake!Next => Part!Next
BY Zenon
DEF Intake!Next, Part!Next, Intake!Submit, Part!Submit, Intake!ReplaySubmit,
    Part!ReplaySubmit, Intake!AcceptSubmit, Part!AcceptSubmit,
    Intake!RejectSubmit, Part!RejectSubmit, Intake!Stored, Part!Stored,
    Intake!FreshId, Part!FreshId, Intake!StoreResponse, Part!StoreResponse,
    Intake!NotSubmitted, Part!NotSubmitted, Intake!Goto, Part!Goto,
    Intake!RecordState, Part!RecordState, Intake!UpdateOperationState,
    Part!UpdateOperationState, Intake!storeVars, Part!storeVars, Intake!Advance,
    Part!Advance, Intake!LoadOperation, Part!LoadOperation,
    Intake!PutGateDecision, Part!PutGateDecision, Intake!PutCompiledSlice,
    Part!PutCompiledSlice, Intake!PutAnchor, Part!PutAnchor, Intake!AnchorFree,
    Part!AnchorFree, Intake!PutReasoningOutput, Part!PutReasoningOutput,
    Intake!FinishOperation, Part!FinishOperation, Intake!CreateApprovalItem,
    Part!CreateApprovalItem, Intake!PromoteOperation, Part!PromoteOperation,
    Intake!AbortSubmit, Part!AbortSubmit, Intake!Cancel, Part!Cancel,
    Intake!CancelOperation, Part!CancelOperation, Intake!MayCancel,
    Part!MayCancel, Intake!TerminalStates, Part!TerminalStates,
    Intake!intakeVars, Part!intakeVars, Intake!Outcomes, Part!Outcomes,
    Intake!Active, Part!Active, Intake!AfterGate, Part!AfterGate

\* Its initial states are the same, too.
LEMMA SameInit == Intake!Init => Part!Init
BY Zenon
DEF Intake!Init, Part!Init, Intake!NotSubmitted, Part!NotSubmitted,
    Intake!NoApproval, Part!NoApproval

-----------------------------------------------------------------------------
(* What is known about the rows                                            *)

Runners == Execution!Runners

\* Every reference names an operation that exists; every item belongs to one
\* whose trace is complete.
RowsExist ==
  /\ \A k \in Keys : idempotency[k] # NoRow => operation[idempotency[k]] # "absent"
  /\ \A r \in Requests : submit[r].op # NoRow => operation[submit[r].op] # "absent"
  /\ \A a \in Requests :
       /\ approval[a].status = "absent" <=> approval[a].op = NoRow
       /\ approval[a].op # NoRow =>
            operation[approval[a].op] # "absent" /\ anchors[approval[a].op] = Anchors

\* Who is past the gate works on an operation that does not wait yet, and
\* promotes it with its own item pending.
WaitingInv ==
  /\ \A o \in Requests :
       operation[o] = "awaiting_approval" =>
         \E a \in Requests : approval[a].op = o /\ approval[a].status = "pending"
  /\ \A r \in Requests :
       /\ submit[r].pc \in Part!AfterGate => operation[submit[r].op] # "awaiting_approval"
       /\ submit[r].pc = "promote" =>
            approval[r].op = submit[r].op /\ approval[r].status = "pending"

\* Intake, as far as it depends on nothing else.
GateInv ==
  /\ Part!IntakeTypeOK
  /\ Part!GateAdmitsOne
  /\ Part!OneApprovalPerOperation
  /\ Part!IdsInv
  /\ Part!TraceIsStored
  /\ Part!OutcomeIsAnchored

IntakeInv == GateInv /\ RowsExist /\ WaitingInv

\* What a decision or a runner may do to the rows it shares with intake.
StoreMoves ==
  /\ UNCHANGED <<intakeVars, anchors>>
  /\ operation' \in [Requests -> OperationStates]
  /\ transitions' \in [Requests -> SUBSET (OperationStates \X OperationStates)]
  /\ approval' \in [Requests -> ApprovalRows]
  /\ \A o \in Requests :
       /\ operation'[o] = "absent" <=> operation[o] = "absent"
       /\ transitions[o] \subseteq transitions'[o]
       /\ operation'[o] = "awaiting_approval" => operation[o] = "awaiting_approval"
       /\ operation'[o] \in Intake!Outcomes =>
            operation'[o] = operation[o] \/ anchors[o] = Anchors
  /\ \A a \in Requests :
       /\ approval'[a].op = approval[a].op
       /\ approval'[a].status = "absent" <=> approval[a].status = "absent"
       /\ approval[a].status = "consumed" => approval'[a].status = "consumed"
       /\ approval'[a] # approval[a] =>
            /\ approval[a].op # NoRow
            /\ operation[approval[a].op] = "awaiting_approval"
            /\ operation'[approval[a].op] # "awaiting_approval"

\* What intake may do to the rows execution relies on.
RowsGrow ==
  /\ \A o \in Requests :
       /\ transitions[o] \subseteq transitions'[o]
       /\ anchors[o] = Anchors => anchors'[o] = Anchors
  /\ \A a \in Requests : approval[a].op # NoRow => approval'[a] = approval[a]

\* The types of intake, row by row.
LEMMA IntakeTypes ==
  ASSUME Part!IntakeTypeOK
  PROVE  /\ operation \in [Requests -> OperationStates]
         /\ transitions \in [Requests -> SUBSET (OperationStates \X OperationStates)]
         /\ anchors \in [Requests -> SUBSET Anchors]
         /\ approval \in [Requests -> ApprovalRows]
         /\ idempotency \in [Keys -> Requests \cup {NoRow}]
         /\ submit \in [Requests -> Part!SubmitStates]
         /\ \A r \in Requests :
              /\ submit[r].op \in Requests \cup {NoRow}
              /\ approval[r].op \in Requests \cup {NoRow}
BY DEF Part!IntakeTypeOK, Part!StoreTypeOK, Part!OperationStates, OperationStates,
       Part!TerminalStates, TerminalStates, Part!Anchors, Anchors, Part!ApprovalRows,
       ApprovalRows, Part!SubmitStates

\* What the gate gives to who is past it, and to the items.
LEMMA GateFacts ==
  ASSUME GateInv
  PROVE  /\ \A r \in Requests : submit[r].pc \in Part!Active => submit[r].op \in Requests
         /\ \A r, s \in Requests :
              /\ submit[r].pc \in Part!AfterGate
              /\ submit[s].pc \in Part!AfterGate /\ submit[s].op = submit[r].op
              => s = r
         /\ \A a \in Requests : approval[a].op # NoRow =>
              /\ "gate" \in anchors[approval[a].op]
              /\ submit[a].pc \in {"promote", "accepted", "aborted"}
              /\ \A s \in Requests :
                   submit[s].pc \in Part!AfterGate /\ submit[s].op = approval[a].op
                   => s = a
BY DEF GateInv, Part!GateAdmitsOne

\* Intake's own part does not notice what the others do to its rows.
LEMMA GateUnderMoves == GateInv /\ StoreMoves => GateInv'
<1> SUFFICES ASSUME GateInv, StoreMoves PROVE GateInv'
  OBVIOUS
<1>1. /\ UNCHANGED <<requestEvents, idempotency, submit, aborts, anchors>>
      /\ \A a \in Requests : approval'[a].op = approval[a].op
  BY DEF StoreMoves, intakeVars
<1>2. Part!IntakeTypeOK'
  BY <1>1
  DEF GateInv, StoreMoves, Part!IntakeTypeOK, Part!StoreTypeOK, Part!OperationStates,
      OperationStates, Part!TerminalStates, TerminalStates, Part!ApprovalRows, ApprovalRows,
      Part!Anchors
<1>3. Part!GateAdmitsOne' /\ Part!OneApprovalPerOperation' /\ Part!TraceIsStored'
  <2>1. Part!GateAdmitsOne'
    BY <1>1 DEF GateInv, Part!GateAdmitsOne
  <2>2. Part!OneApprovalPerOperation'
    BY <1>1 DEF GateInv, Part!OneApprovalPerOperation
  <2>3. Part!TraceIsStored'
    BY <1>1 DEF GateInv, Part!TraceIsStored
  <2> QED BY <2>1, <2>2, <2>3
<1>4. Part!IdsInv'
  BY <1>1
  DEF GateInv, StoreMoves, Part!IdsInv, Part!RowsUseUpIds, Part!OneOperationPerRequestId
<1>5. Part!OutcomeIsAnchored'
  BY <1>1
  DEF GateInv, StoreMoves, Part!OutcomeIsAnchored, Part!Outcomes, Intake!Outcomes,
      Part!Anchors, Anchors
<1> QED BY <1>2, <1>3, <1>4, <1>5 DEF GateInv

\* A decision takes an operation out of waiting together with its item.
LEMMA RowsUnderMoves == IntakeInv /\ StoreMoves => RowsExist' /\ WaitingInv'
<1> SUFFICES ASSUME IntakeInv, StoreMoves PROVE RowsExist' /\ WaitingInv'
  OBVIOUS
<1>1. /\ UNCHANGED <<requestEvents, idempotency, submit, aborts, anchors>>
      /\ \A r \in Requests :
           /\ submit[r].op \in Requests \cup {NoRow}
           /\ approval[r].op \in Requests \cup {NoRow}
      /\ \A k \in Keys : idempotency[k] \in Requests \cup {NoRow}
  BY IntakeTypes DEF StoreMoves, intakeVars, IntakeInv, GateInv
<1>2. RowsExist'
  BY <1>1 DEF RowsExist, StoreMoves, IntakeInv
<1>3. \A r \in Requests : submit[r].pc \in Part!AfterGate => submit[r].op \in Requests
  BY GateFacts DEF IntakeInv, Part!Active
<1>4. ASSUME NEW o \in Requests, operation'[o] = "awaiting_approval"
      PROVE  \E a \in Requests : approval'[a].op = o /\ approval'[a].status = "pending"
  <2>1. PICK a \in Requests : approval[a].op = o /\ approval[a].status = "pending"
    BY <1>4 DEF StoreMoves, IntakeInv, WaitingInv
  <2>2. approval'[a] = approval[a]
    BY <1>4, <2>1 DEF StoreMoves
  <2> QED BY <2>1, <2>2
<1>5. ASSUME NEW r \in Requests, submit[r].pc \in Part!AfterGate
      PROVE  operation'[submit[r].op] # "awaiting_approval"
  BY <1>3, <1>5 DEF StoreMoves, IntakeInv, WaitingInv
<1>6. ASSUME NEW r \in Requests, submit[r].pc = "promote"
      PROVE  approval'[r].op = submit[r].op /\ approval'[r].status = "pending"
  <2>1. submit[r].pc \in Part!AfterGate
    BY <1>6 DEF Part!AfterGate
  <2>2. approval[r].op = submit[r].op /\ approval[r].status = "pending"
        /\ operation[submit[r].op] # "awaiting_approval"
    BY <1>6, <2>1 DEF IntakeInv, WaitingInv
  <2> QED BY <2>2 DEF StoreMoves
<1> QED BY <1>1, <1>2, <1>4, <1>5, <1>6 DEF WaitingInv

-----------------------------------------------------------------------------
(* What is known about the runners                                         *)

\* The types of the rows and locals of execution; the bounds of attempts and
\* faults do not matter here.
Carried ==
  [pc : {"idle", "acquire", "done"} \cup Execution!UnderLease,
   op : Requests \cup {NoRow},
   todo : Requests \cup {NoRow},
   epoch : Nat,
   tries : Nat]

ExecTypes ==
  /\ syscall \in [Requests -> Execution!SyscallStates]
  /\ decided \in [Requests -> [Keys -> Execution!Choices \cup {NoRow}]]
  /\ lease \in [Requests -> Execution!Leases]
  /\ runner \in [Runners -> Carried]
  /\ calls \in [Requests -> Nat]

Permitted(a) == syscall[a] # "absent"
Begun(a) == syscall[a] \in {"executing", "executed", "failed"}

\* A syscall is there only with the records that permit it, and the tool has
\* acted only for one that was claimed.
RecordsInv ==
  \A a \in Requests :
    /\ Permitted(a) =>
         /\ approval[a].op # NoRow /\ approval[a].status = "consumed"
         /\ <<"awaiting_approval", "running">> \in transitions[approval[a].op]
    /\ calls[a] > 0 => Begun(a)
    /\ \A k \in Keys :
         decided[a][k] # NoRow =>
           /\ approval[a].op # NoRow
           /\ decided[a][k] = "approve" => Permitted(a)

\* A runner at work has an operation whose trace is complete, and a syscall
\* that is permitted and, from the call on, claimed.
Knows(x) ==
  /\ runner[x].pc \notin {"idle", "done"} =>
       runner[x].op \in Requests /\ anchors[runner[x].op] = Anchors
  /\ runner[x].todo # NoRow => Permitted(runner[x].todo)
  /\ runner[x].pc \in {"read", "claim", "call", "settle", "fail"} =>
       runner[x].todo # NoRow
  /\ runner[x].pc \in {"call", "settle", "fail"} => Begun(runner[x].todo)

RunnersKnow ==
  /\ \A x \in Runners : Knows(x)
  /\ worklist \subseteq {a \in Requests : Permitted(a)}

ExecInv == ExecTypes /\ RecordsInv /\ RunnersKnow

\* Syscalls are never taken back.
Later ==
  \A a \in Requests :
    /\ Permitted(a) => Permitted(a)'
    /\ Begun(a) => Begun(a)'

OthersStay(x) == \A y \in Runners \ {x} : runner'[y] = runner[y]

\* One runner's step leaves what the others know.
LEMMA KnowledgeStays ==
  ASSUME ExecTypes, RunnersKnow, Later, NEW x \in Runners, OthersStay(x), Knows(x)',
         \A o \in Requests : anchors[o] = Anchors => anchors'[o] = Anchors
  PROVE  \A y \in Runners : Knows(y)'
<1> SUFFICES ASSUME NEW y \in Runners \ {x} PROVE Knows(y)'
  OBVIOUS
<1>1. runner'[y] = runner[y] /\ Knows(y) /\ runner[y] \in Carried
  BY DEF OthersStay, RunnersKnow, ExecTypes
<1>2. runner[y].todo \in Requests \cup {NoRow}
  BY <1>1 DEF Carried
<1> QED BY <1>1, <1>2 DEF Knows, Later

\* A runner that only moves on.
LEMMA GotoFields ==
  ASSUME ExecTypes, NEW x \in Runners,
         NEW pc \in {"idle", "acquire", "done"} \cup Execution!UnderLease,
         Execution!Goto(x, pc)
  PROVE  /\ runner' \in [Runners -> Carried] /\ OthersStay(x)
         /\ runner'[x].pc = pc
         /\ runner'[x].op = runner[x].op /\ runner'[x].todo = runner[x].todo
BY DEF ExecTypes, Carried, Execution!Goto, OthersStay

\* A runner that starts on an approval.
LEMMA StartFields ==
  ASSUME ExecTypes, IntakeInv, NEW d \in Runners, NEW a \in Requests, NEW c,
         Execution!StartRun(d, a, c)
  PROVE  /\ runner' \in [Runners -> Carried] /\ OthersStay(d)
         /\ runner'[d].pc = "acquire" /\ runner'[d].op = approval[a].op
         /\ runner'[d].todo = IF c = "approve" THEN a ELSE NoRow
<1> DEFINE row == [Execution!IdleRunner EXCEPT
                     !.pc = "acquire", !.op = approval[a].op,
                     !.todo = IF c = "approve" THEN a ELSE NoRow]
<1>1. approval[a].op \in Requests \cup {NoRow}
  BY IntakeTypes DEF IntakeInv, GateInv
<1>2. /\ row.pc = "acquire" /\ row.op = approval[a].op
      /\ row.todo = IF c = "approve" THEN a ELSE NoRow
  BY DEF Execution!IdleRunner
<1>3. row \in Carried
  BY <1>1 DEF Carried, Execution!IdleRunner
<1>4. runner' = [runner EXCEPT ![d] = row]
  BY DEF Execution!StartRun
<1> HIDE DEF row
<1> QED BY <1>2, <1>3, <1>4 DEF ExecTypes, OthersStay

\* A runner that leaves.
LEMMA LeaveFields ==
  ASSUME ExecTypes, NEW x \in Runners, NEW ok \in BOOLEAN, Execution!Leave(x, ok)
  PROVE  /\ runner' \in [Runners -> Carried] /\ OthersStay(x)
         /\ runner'[x].pc \in {"idle", "done"} /\ runner'[x].todo = NoRow
         /\ worklist' \in {worklist, {}}
<1> DEFINE row == IF x = Recovery THEN Execution!IdleRunner ELSE Execution!DoneRunner
<1>1. row \in Carried /\ row.pc \in {"idle", "done"} /\ row.todo = NoRow
  <2>1. Execution!IdleRunner \in Carried /\ Execution!DoneRunner \in Carried
    BY DEF Carried, Execution!IdleRunner, Execution!DoneRunner
  <2>2. /\ Execution!IdleRunner.pc = "idle" /\ Execution!DoneRunner.pc = "done"
        /\ Execution!IdleRunner.todo = NoRow /\ Execution!DoneRunner.todo = NoRow
    BY DEF Execution!IdleRunner, Execution!DoneRunner
  <2> QED BY <2>1, <2>2
<1>2. runner' = [runner EXCEPT ![x] = row]
  BY DEF Execution!Leave
<1>3. worklist' \in {worklist, {}}
  BY DEF Execution!Leave, Execution!EndTick
<1> HIDE DEF row
<1> QED BY <1>1, <1>2, <1>3 DEF ExecTypes, OthersStay

\* A runner that left knows nothing.
LEMMA RestingKnows ==
  ASSUME NEW x \in Runners, runner'[x].pc \in {"idle", "done"}, runner'[x].todo = NoRow
  PROVE  Knows(x)'
BY DEF Knows

-----------------------------------------------------------------------------
(* Steps of execution                                                      *)

LifecycleInv == IntakeInv /\ ExecInv

\* A step that leaves all rows shared with intake alone.
LEMMA NothingMoves ==
  ASSUME IntakeInv, UNCHANGED <<storeVars, intakeVars>>
  PROVE  StoreMoves
BY IntakeTypes DEF StoreMoves, storeVars, intakeVars, IntakeInv, GateInv

\* What is on record about syscalls stays true while the shared rows move.
LEMMA RecordsStay ==
  ASSUME LifecycleInv, StoreMoves, UNCHANGED <<syscall, decided, calls>>
  PROVE  RecordsInv'
<1>1. \A a \in Requests : approval[a].op \in Requests \cup {NoRow}
  BY IntakeTypes DEF LifecycleInv, IntakeInv, GateInv
<1> SUFFICES ASSUME NEW a \in Requests PROVE RecordsInv!(a)'
  BY DEF RecordsInv
<1>2. RecordsInv!(a)
  BY DEF LifecycleInv, ExecInv, RecordsInv
<1> QED BY <1>1, <1>2 DEF StoreMoves, Permitted, Begun

\* One runner moves, perhaps the tool acts for a claimed syscall; all else of
\* execution but leases stays.
LEMMA RunnerMoves ==
  ASSUME LifecycleInv, UNCHANGED <<storeVars, intakeVars, syscall, decided>>,
         NEW x \in Runners, OthersStay(x), Knows(x)', runner' \in [Runners -> Carried],
         lease' \in [Requests -> Execution!Leases], calls' \in [Requests -> Nat],
         \A a \in Requests : calls'[a] > 0 => calls[a] > 0 \/ Begun(a),
         worklist' \subseteq worklist
  PROVE  StoreMoves /\ ExecInv'
<1>1. StoreMoves
  BY NothingMoves DEF LifecycleInv
<1>2. ExecTypes'
  BY DEF LifecycleInv, ExecInv, ExecTypes
<1>3. RecordsInv'
  BY DEF LifecycleInv, ExecInv, RecordsInv, storeVars, Permitted, Begun
<1>4. \A y \in Runners : Knows(y)'
  <2>1. Later /\ anchors' = anchors
    BY DEF Later, Permitted, Begun, storeVars
  <2> QED BY <2>1, KnowledgeStays DEF LifecycleInv, ExecInv
<1>5. RunnersKnow'
  BY <1>4 DEF RunnersKnow, LifecycleInv, ExecInv, Permitted
<1> QED BY <1>1, <1>2, <1>3, <1>5 DEF ExecInv

\* A runner under the lease goes to a place where it needs to know no more.
LEMMA MovedOn ==
  ASSUME LifecycleInv, UNCHANGED <<storeVars, intakeVars, syscall, decided>>,
         UNCHANGED <<lease, calls>>, worklist' \in {worklist, {}}, NEW x \in Runners,
         runner[x].pc \notin {"idle", "done"},
         NEW pc \in {"tail", "complete", "release"}, Execution!Goto(x, pc)
  PROVE  StoreMoves /\ ExecInv'
<1>1. pc \in {"idle", "acquire", "done"} \cup Execution!UnderLease
  BY DEF Execution!UnderLease
<1>2. /\ runner' \in [Runners -> Carried] /\ OthersStay(x)
      /\ runner'[x].pc = pc
      /\ runner'[x].op = runner[x].op /\ runner'[x].todo = runner[x].todo
  BY <1>1, GotoFields DEF LifecycleInv, ExecInv
<1>3. Knows(x)'
  BY <1>2 DEF LifecycleInv, ExecInv, RunnersKnow, Knows, storeVars, Permitted
<1> QED BY <1>2, <1>3, RunnerMoves DEF LifecycleInv, ExecInv, ExecTypes

\* A runner leaves.
LEMMA Left ==
  ASSUME LifecycleInv, UNCHANGED <<storeVars, intakeVars, syscall, decided, calls>>,
         lease' \in [Requests -> Execution!Leases],
         NEW x \in Runners, NEW ok \in BOOLEAN, Execution!Leave(x, ok)
  PROVE  StoreMoves /\ ExecInv'
<1>1. /\ runner' \in [Runners -> Carried] /\ OthersStay(x)
      /\ runner'[x].pc \in {"idle", "done"} /\ runner'[x].todo = NoRow
      /\ worklist' \in {worklist, {}}
  BY LeaveFields DEF LifecycleInv, ExecInv
<1>2. Knows(x)'
  BY <1>1, RestingKnows
<1> QED BY <1>1, <1>2, RunnerMoves DEF LifecycleInv, ExecInv, ExecTypes

\* A runner starts on an item that was inserted, with a syscall only if there
\* is one.
LEMMA StartKnows ==
  ASSUME LifecycleInv, NEW d \in Runners, NEW a \in Requests, NEW c,
         Execution!StartRun(d, a, c), anchors' = anchors,
         approval[a].op # NoRow, c = "approve" => Permitted(a)'
  PROVE  runner' \in [Runners -> Carried] /\ OthersStay(d) /\ Knows(d)'
<1>1. /\ runner' \in [Runners -> Carried] /\ OthersStay(d)
      /\ runner'[d].pc = "acquire" /\ runner'[d].op = approval[a].op
      /\ runner'[d].todo = IF c = "approve" THEN a ELSE NoRow
  BY StartFields DEF LifecycleInv, ExecInv
<1>2. approval[a].op \in Requests /\ anchors[approval[a].op] = Anchors
  BY IntakeTypes DEF LifecycleInv, IntakeInv, GateInv, RowsExist
<1>3. runner'[d].todo # NoRow => Permitted(runner[d].todo)'
  BY <1>1 DEF Permitted
<1> QED BY <1>1, <1>2, <1>3 DEF Knows

\* A stored response is visited again.
LEMMA ReplayStep ==
  ASSUME LifecycleInv, NEW d \in Decisions, NEW a \in Requests,
         NEW k \in Keys \cup {NoKey}, Execution!ReplayDecision(d, a, k),
         UNCHANGED intakeVars
  PROVE  StoreMoves /\ ExecInv'
<1>1. d \in Runners
  BY DEF Runners, Execution!Runners
<1>2. k \in Keys /\ decided[a][k] # NoRow /\ Execution!StartRun(d, a, decided[a][k])
  BY DEF Execution!ReplayDecision, Execution!StoredChoice
<1>3. /\ approval[a].op # NoRow
      /\ decided[a][k] = "approve" => Permitted(a)
  BY <1>2 DEF LifecycleInv, ExecInv, RecordsInv
<1>4. /\ UNCHANGED <<storeVars, syscall, decided, lease, worklist, calls>>
      /\ anchors' = anchors /\ (Permitted(a)' <=> Permitted(a))
  BY DEF Execution!ReplayDecision, Execution!storeVars, storeVars, Permitted
<1>5. runner' \in [Runners -> Carried] /\ OthersStay(d) /\ Knows(d)'
  BY <1>1, <1>2, <1>3, <1>4, StartKnows
<1> QED BY <1>1, <1>4, <1>5, RunnerMoves DEF LifecycleInv, ExecInv, ExecTypes

\* The transaction of a decision, up to its syscall.
LEMMA DecisionRows ==
  ASSUME LifecycleInv, NEW d \in Decisions, NEW a \in Requests,
         NEW k \in Keys \cup {NoKey}, NEW c \in {"approve", "deny"},
         NEW status \in {"consumed", "denied"}, NEW s \in {"running", "blocked"},
         Execution!StoredChoice(a, k) = NoRow, Execution!Decidable(a),
         approval' = [approval EXCEPT ![a].status = status],
         Execution!RecordState(approval[a].op, s), Execution!StoreChoice(a, k, c),
         anchors' = anchors, UNCHANGED intakeVars
  PROVE  /\ StoreMoves
         /\ approval[a].op \in Requests
         /\ approval[a].status = "pending" /\ approval'[a].status = status
         /\ \A b \in Requests \ {a} : approval'[b] = approval[b]
         /\ <<"awaiting_approval", s>> \in transitions'[approval[a].op]
         /\ decided' \in [Requests -> [Keys -> Execution!Choices \cup {NoRow}]]
         /\ \A j \in Keys : decided'[a][j] \in {decided[a][j], c}
         /\ \A b \in Requests \ {a} : decided'[b] = decided[b]
<1>1. /\ approval[a].status = "pending"
      /\ operation[approval[a].op] = "awaiting_approval"
  BY DEF Execution!Decidable
<1>2. /\ operation \in [Requests -> OperationStates]
      /\ transitions \in [Requests -> SUBSET (OperationStates \X OperationStates)]
      /\ approval \in [Requests -> ApprovalRows]
      /\ \A b \in Requests : approval[b].op \in Requests \cup {NoRow}
  BY IntakeTypes DEF LifecycleInv, IntakeInv, GateInv
<1>3. approval[a].op \in Requests /\ anchors[approval[a].op] = Anchors
  BY <1>1, <1>2 DEF LifecycleInv, IntakeInv, RowsExist
<1>4. /\ approval' \in [Requests -> ApprovalRows]
      /\ approval'[a].op = approval[a].op /\ approval'[a].status = status
      /\ \A b \in Requests \ {a} : approval'[b] = approval[b]
  BY <1>2 DEF ApprovalRows
<1>5. s \in OperationStates /\ "awaiting_approval" \in OperationStates
  BY DEF OperationStates, TerminalStates
<1>6. /\ operation' \in [Requests -> OperationStates]
      /\ operation'[approval[a].op] = s
      /\ \A o \in Requests \ {approval[a].op} : operation'[o] = operation[o]
  BY <1>2, <1>3, <1>5 DEF Execution!RecordState
<1>7. /\ transitions' \in [Requests -> SUBSET (OperationStates \X OperationStates)]
      /\ <<"awaiting_approval", s>> \in transitions'[approval[a].op]
      /\ \A o \in Requests : transitions[o] \subseteq transitions'[o]
  <2>1. transitions' = [transitions EXCEPT ![approval[a].op] =
                          @ \cup {<<"awaiting_approval", s>>}]
    BY <1>1 DEF Execution!RecordState
  <2>2. transitions[approval[a].op] \cup {<<"awaiting_approval", s>>}
          \in SUBSET (OperationStates \X OperationStates)
    BY <1>2, <1>3, <1>5
  <2> QED BY <1>2, <1>3, <2>1, <2>2
<1>8. StoreMoves
  <2>1. ASSUME NEW o \in Requests
        PROVE  /\ operation'[o] = "absent" <=> operation[o] = "absent"
               /\ operation'[o] = "awaiting_approval" => operation[o] = "awaiting_approval"
               /\ operation'[o] \in Intake!Outcomes =>
                    operation'[o] = operation[o] \/ anchors[o] = Anchors
    BY <1>1, <1>3, <1>6
  <2>2. ASSUME NEW b \in Requests
        PROVE  /\ approval'[b].op = approval[b].op
               /\ approval'[b].status = "absent" <=> approval[b].status = "absent"
               /\ approval[b].status = "consumed" => approval'[b].status = "consumed"
               /\ approval'[b] # approval[b] => b = a
    BY <1>1, <1>4
  <2>3. /\ approval[a].op # NoRow
        /\ operation'[approval[a].op] # "awaiting_approval"
    BY <1>3, <1>6, NoRowAssumption
  <2> QED BY <1>1, <1>4, <1>6, <1>7, <2>1, <2>2, <2>3 DEF StoreMoves
<1>9. /\ decided' \in [Requests -> [Keys -> Execution!Choices \cup {NoRow}]]
      /\ \A j \in Keys : decided'[a][j] \in {decided[a][j], c}
      /\ \A b \in Requests \ {a} : decided'[b] = decided[b]
  <2> DEFINE f == [j \in Keys |-> IF j = k THEN c ELSE decided[a][j]]
  <2>1. decided \in [Requests -> [Keys -> Execution!Choices \cup {NoRow}]]
    BY DEF LifecycleInv, ExecInv, ExecTypes
  <2>2. /\ f \in [Keys -> Execution!Choices \cup {NoRow}]
        /\ \A j \in Keys : f[j] \in {decided[a][j], c}
    BY <2>1 DEF Execution!Choices
  <2>3. decided' = [decided EXCEPT ![a] = f]
    BY DEF Execution!StoreChoice
  <2> HIDE DEF f
  <2> QED BY <2>1, <2>2, <2>3
<1> QED BY <1>1, <1>3, <1>4, <1>7, <1>8, <1>9

\* Approve: the syscall, its approval and the transition appear together.
LEMMA ApproveStep ==
  ASSUME LifecycleInv, NEW d \in Decisions, NEW a \in Requests,
         NEW k \in Keys \cup {NoKey}, Execution!Approve(d, a, k), UNCHANGED intakeVars
  PROVE  StoreMoves /\ ExecInv'
<1>1. d \in Runners
  BY DEF Runners, Execution!Runners
<1>2. /\ StoreMoves
      /\ approval[a].op \in Requests
      /\ approval[a].status = "pending" /\ approval'[a].status = "consumed"
      /\ \A b \in Requests \ {a} : approval'[b] = approval[b]
      /\ <<"awaiting_approval", "running">> \in transitions'[approval[a].op]
      /\ decided' \in [Requests -> [Keys -> Execution!Choices \cup {NoRow}]]
      /\ \A j \in Keys : decided'[a][j] \in {decided[a][j], "approve"}
      /\ \A b \in Requests \ {a} : decided'[b] = decided[b]
  BY DecisionRows DEF Execution!Approve
<1>3. /\ syscall' \in [Requests -> Execution!SyscallStates]
      /\ syscall'[a] = "permitted" /\ syscall[a] = "absent"
      /\ \A b \in Requests \ {a} : syscall'[b] = syscall[b]
  BY DEF Execution!Approve, LifecycleInv, ExecInv, ExecTypes, Execution!SyscallStates
<1>4. Later /\ Permitted(a)' /\ anchors' = anchors
  BY <1>3 DEF Later, Permitted, Begun, Execution!Approve
<1>5. approval[a].op # NoRow
  BY <1>2, NoRowAssumption
<1>6. runner' \in [Runners -> Carried] /\ OthersStay(d) /\ Knows(d)'
  BY <1>1, <1>4, <1>5, StartKnows DEF Execution!Approve
<1>7. ExecTypes'
  BY <1>2, <1>3, <1>6 DEF Execution!Approve, LifecycleInv, ExecInv, ExecTypes
<1>8. RecordsInv'
  <2> SUFFICES ASSUME NEW b \in Requests PROVE RecordsInv!(b)'
    BY DEF RecordsInv
  <2>1. RecordsInv!(b) /\ calls' = calls
    BY DEF LifecycleInv, ExecInv, RecordsInv, Execution!Approve
  <2>2. approval'[a].op = approval[a].op
    BY <1>2 DEF StoreMoves
  <2>3. CASE b = a
    BY <1>2, <1>3, <1>4, <1>5, <2>1, <2>2, <2>3 DEF Permitted, Begun
  <2>4. CASE b # a
    <3>1. /\ approval'[b] = approval[b] /\ decided'[b] = decided[b]
          /\ syscall'[b] = syscall[b]
      BY <1>2, <1>3, <2>4
    <3>2. approval[b].op \in Requests \cup {NoRow}
      BY IntakeTypes DEF LifecycleInv, IntakeInv, GateInv
    <3>3. \A o \in Requests : transitions[o] \subseteq transitions'[o]
      BY <1>2 DEF StoreMoves
    <3> QED BY <2>1, <3>1, <3>2, <3>3 DEF Permitted, Begun
  <2> QED BY <2>3, <2>4
<1>9. RunnersKnow'
  <2>1. \A y \in Runners : Knows(y)'
    BY <1>1, <1>4, <1>6, KnowledgeStays DEF LifecycleInv, ExecInv
  <2>2. worklist' = worklist
    BY DEF Execution!Approve
  <2> QED BY <1>4, <2>1, <2>2 DEF RunnersKnow, LifecycleInv, ExecInv, Later
<1> QED BY <1>2, <1>7, <1>8, <1>9 DEF ExecInv

\* Deny: no syscall appears, and the stored choice leads to none.
LEMMA DenyStep ==
  ASSUME LifecycleInv, NEW d \in Decisions, NEW a \in Requests,
         NEW k \in Keys \cup {NoKey}, Execution!Deny(d, a, k), UNCHANGED intakeVars
  PROVE  StoreMoves /\ ExecInv'
<1>1. d \in Runners
  BY DEF Runners, Execution!Runners
<1>2. /\ StoreMoves
      /\ approval[a].op \in Requests
      /\ approval[a].status = "pending" /\ approval'[a].status = "denied"
      /\ \A b \in Requests \ {a} : approval'[b] = approval[b]
      /\ decided' \in [Requests -> [Keys -> Execution!Choices \cup {NoRow}]]
      /\ \A j \in Keys : decided'[a][j] \in {decided[a][j], "deny"}
      /\ \A b \in Requests \ {a} : decided'[b] = decided[b]
  BY DecisionRows DEF Execution!Deny
<1>3. /\ UNCHANGED <<syscall, lease, worklist, calls>> /\ anchors' = anchors
  BY DEF Execution!Deny
<1>4. approval[a].op # NoRow /\ ~Permitted(a)
  BY <1>2, NoRowAssumption DEF LifecycleInv, ExecInv, RecordsInv
<1>5. runner' \in [Runners -> Carried] /\ OthersStay(d) /\ Knows(d)'
  <2>1. Execution!StartRun(d, a, "deny")
    BY DEF Execution!Deny
  <2> QED BY <1>1, <1>3, <1>4, <2>1, StartKnows
<1>6. ExecTypes'
  BY <1>2, <1>3, <1>5 DEF LifecycleInv, ExecInv, ExecTypes
<1>7. RecordsInv'
  <2> SUFFICES ASSUME NEW b \in Requests PROVE RecordsInv!(b)'
    BY DEF RecordsInv
  <2>1. RecordsInv!(b)
    BY DEF LifecycleInv, ExecInv, RecordsInv
  <2>2. approval'[a].op = approval[a].op
    BY <1>2 DEF StoreMoves
  <2>3. CASE b = a
    BY <1>2, <1>3, <1>4, <2>1, <2>2, <2>3 DEF Permitted, Begun
  <2>4. CASE b # a
    <3>1. approval'[b] = approval[b] /\ decided'[b] = decided[b]
      BY <1>2, <2>4
    <3>2. approval[b].op \in Requests \cup {NoRow}
      BY IntakeTypes DEF LifecycleInv, IntakeInv, GateInv
    <3>3. \A o \in Requests : transitions[o] \subseteq transitions'[o]
      BY <1>2 DEF StoreMoves
    <3> QED BY <1>3, <2>1, <3>1, <3>2, <3>3 DEF Permitted, Begun
  <2> QED BY <2>3, <2>4
<1>8. RunnersKnow'
  <2>1. Later
    BY <1>3 DEF Later, Permitted, Begun
  <2>2. \A y \in Runners : Knows(y)'
    BY <1>1, <1>3, <1>5, <2>1, KnowledgeStays DEF LifecycleInv, ExecInv
  <2> QED BY <1>3, <2>1, <2>2 DEF RunnersKnow, LifecycleInv, ExecInv, Permitted
<1> QED BY <1>2, <1>6, <1>7, <1>8 DEF ExecInv

\* The recovery worker only finds syscalls that are there.
LEMMA RecoverStep ==
  ASSUME LifecycleInv, Execution!Recover, UNCHANGED intakeVars
  PROVE  StoreMoves /\ ExecInv'
<1>1. CASE Execution!ListRecoverable
  <2>1. /\ UNCHANGED <<storeVars, syscall, decided, lease, runner, calls>>
        /\ worklist' = Execution!Recoverable
    BY <1>1 DEF Execution!ListRecoverable, Execution!storeVars, storeVars
  <2>2. StoreMoves
    BY <2>1, NothingMoves DEF LifecycleInv
  <2>3. ExecTypes' /\ RecordsInv'
    BY <2>1, <2>2, RecordsStay DEF LifecycleInv, ExecInv, ExecTypes
  <2>4. RunnersKnow'
    BY <2>1
    DEF LifecycleInv, ExecInv, RunnersKnow, Knows, Permitted, Begun, storeVars,
        Execution!Recoverable
  <2> QED BY <2>2, <2>3, <2>4 DEF ExecInv
<1>2. CASE Execution!PickRecoverable
  <2>1. PICK a \in worklist :
          worklist' = worklist \ {a} /\ Execution!StartRun(Recovery, a, "approve")
    BY <1>2 DEF Execution!PickRecoverable
  <2>2. /\ UNCHANGED <<storeVars, syscall, decided, lease, calls>> /\ anchors' = anchors
    BY <1>2 DEF Execution!PickRecoverable, Execution!storeVars, storeVars
  <2>3. a \in Requests /\ Permitted(a) /\ approval[a].op # NoRow
    BY DEF LifecycleInv, ExecInv, RunnersKnow, RecordsInv
  <2>4. Recovery \in Runners /\ Permitted(a)'
    BY <2>2, <2>3 DEF Runners, Execution!Runners, Permitted
  <2>5. runner' \in [Runners -> Carried] /\ OthersStay(Recovery) /\ Knows(Recovery)'
    BY <2>1, <2>2, <2>3, <2>4, StartKnows
  <2> QED BY <2>1, <2>2, <2>4, <2>5, RunnerMoves DEF LifecycleInv, ExecInv, ExecTypes
<1> QED BY <1>1, <1>2 DEF Execution!Recover

\* A status is written over the claim only.
LEMMA WriteStep ==
  ASSUME LifecycleInv, UNCHANGED intakeVars, NEW x \in Runners,
         runner[x].pc \in {"claim", "settle", "fail"},
         NEW status \in {"executing", "executed", "failed"},
         NEW next \in {"call", "tail", "fail_op"},
         Execution!WriteStatus(x, status, next)
  PROVE  StoreMoves /\ ExecInv'
<1>1. /\ UNCHANGED <<storeVars, decided, lease, calls>> /\ anchors' = anchors
      /\ worklist' \in {worklist, {}}
  BY DEF Execution!WriteStatus, Execution!EndTick, Execution!storeVars, storeVars
<1>2. PICK a \in Requests : a = runner[x].todo
  BY DEF LifecycleInv, ExecInv, RunnersKnow, Knows, ExecTypes, Carried
<1>3. CASE Execution!Writable(a)
  <2>1. /\ syscall' = [syscall EXCEPT ![a] = status] /\ Execution!Goto(x, next)
    BY <1>2, <1>3 DEF Execution!WriteStatus
  <2>2. /\ syscall' \in [Requests -> Execution!SyscallStates]
        /\ syscall'[a] = status /\ syscall[a] \in {"permitted", "executing"}
        /\ \A b \in Requests \ {a} : syscall'[b] = syscall[b]
    BY <1>2, <1>3, <2>1
    DEF LifecycleInv, ExecInv, ExecTypes, Execution!SyscallStates, Execution!Writable
  <2>3. Later /\ Begun(a)' /\ Permitted(a)'
        /\ \A b \in Requests : Permitted(b)' <=> Permitted(b)
    BY <2>2 DEF Later, Permitted, Begun
  <2>4. next \in {"idle", "acquire", "done"} \cup Execution!UnderLease
    BY DEF Execution!UnderLease
  <2>5. /\ runner' \in [Runners -> Carried] /\ OthersStay(x)
        /\ runner'[x].pc = next
        /\ runner'[x].op = runner[x].op /\ runner'[x].todo = a
    BY <1>2, <2>1, <2>4, GotoFields DEF LifecycleInv, ExecInv
  <2>6. runner'[x].todo # NoRow => Permitted(runner[x].todo)' /\ Begun(runner[x].todo)'
    BY <2>3, <2>5 DEF Permitted, Begun
  <2>7. Knows(x)'
    BY <1>1, <1>2, <2>5, <2>6, NoRowAssumption
    DEF LifecycleInv, ExecInv, RunnersKnow, Knows
  <2>8. StoreMoves
    BY <1>1, NothingMoves DEF LifecycleInv
  <2>9. RecordsInv'
    <3> SUFFICES ASSUME NEW b \in Requests PROVE RecordsInv!(b)'
      BY DEF RecordsInv
    <3>1. RecordsInv!(b)
      BY DEF LifecycleInv, ExecInv, RecordsInv
    <3>2. (Permitted(b)' <=> Permitted(b)) /\ (Begun(b) => Begun(b)')
      BY <2>3 DEF Later
    <3> QED BY <1>1, <3>1, <3>2 DEF storeVars, Permitted, Begun
  <2>10. RunnersKnow'
    <3>1. \A y \in Runners : Knows(y)'
      BY <1>1, <2>3, <2>5, <2>7, KnowledgeStays DEF LifecycleInv, ExecInv
    <3> QED BY <1>1, <2>3, <3>1 DEF RunnersKnow, LifecycleInv, ExecInv
  <2>11. ExecTypes'
    BY <1>1, <2>2, <2>5 DEF LifecycleInv, ExecInv, ExecTypes
  <2> QED BY <2>8, <2>9, <2>10, <2>11 DEF ExecInv
<1>4. CASE ~Execution!Writable(a)
  <2>1. syscall' = syscall /\ Execution!Goto(x, "release")
    BY <1>2, <1>4 DEF Execution!WriteStatus
  <2> QED BY <1>1, <2>1, MovedOn
<1> QED BY <1>3, <1>4

\* One attempt of the tool, for a syscall that is claimed.
LEMMA CallStep ==
  ASSUME LifecycleInv, UNCHANGED intakeVars, NEW x \in Runners, Execution!CallTool(x)
  PROVE  StoreMoves /\ ExecInv'
<1>1. PICK acts \in BOOLEAN, answers \in BOOLEAN :
        /\ calls' = IF acts THEN [calls EXCEPT ![runner[x].todo] = @ + 1] ELSE calls
        /\ runner' = [runner EXCEPT
             ![x].tries = @ + 1,
             ![x].pc = IF answers THEN "settle"
                       ELSE IF runner[x].tries + 1 < RetryAttempts THEN "call"
                       ELSE "fail"]
  BY DEF Execution!CallTool
<1>2. /\ UNCHANGED <<storeVars, syscall, decided, lease, worklist>> /\ anchors' = anchors
      /\ runner[x].pc = "call"
  BY DEF Execution!CallTool, Execution!storeVars, storeVars
<1>3. /\ runner \in [Runners -> Carried] /\ calls \in [Requests -> Nat]
      /\ runner[x].tries \in Nat /\ runner[x].todo \in Requests \cup {NoRow}
  BY DEF LifecycleInv, ExecInv, ExecTypes, Carried
<1>4. /\ runner[x].todo \in Requests /\ Begun(runner[x].todo) /\ Permitted(runner[x].todo)
      /\ runner[x].op \in Requests /\ anchors[runner[x].op] = Anchors
  BY <1>2, <1>3 DEF LifecycleInv, ExecInv, RunnersKnow, Knows
<1>5. /\ runner' \in [Runners -> Carried] /\ OthersStay(x)
      /\ runner'[x].op = runner[x].op /\ runner'[x].todo = runner[x].todo
      /\ runner'[x].pc \in {"call", "settle", "fail"}
  <2>1. PICK pc \in {"call", "settle", "fail"} :
          runner' = [runner EXCEPT ![x].tries = @ + 1, ![x].pc = pc]
    BY <1>1
  <2>2. runner[x].tries + 1 \in Nat
    BY <1>3
  <2> DEFINE row == [runner[x] EXCEPT !.tries = @ + 1, !.pc = pc]
  <2>3. runner' = [runner EXCEPT ![x] = row]
    BY <1>3, <2>1
  <2>4. row \in Carried /\ row.op = runner[x].op /\ row.todo = runner[x].todo /\ row.pc = pc
    BY <1>3, <2>2 DEF Carried, Execution!UnderLease
  <2> HIDE DEF row
  <2> QED BY <1>3, <2>3, <2>4 DEF OthersStay
<1>6. /\ calls' \in [Requests -> Nat]
      /\ \A a \in Requests : calls'[a] > 0 => calls[a] > 0 \/ Begun(a)
  <2>1. CASE acts
    <3>1. calls' = [calls EXCEPT ![runner[x].todo] = @ + 1]
      BY <1>1, <2>1
    <3> QED BY <1>3, <1>4, <3>1
  <2>2. CASE ~acts
    BY <1>1, <1>3, <2>2
  <2> QED BY <2>1, <2>2
<1>7. Knows(x)'
  <2>1. Permitted(runner[x].todo)' /\ Begun(runner[x].todo)'
    BY <1>2, <1>4, <1>5 DEF Permitted, Begun
  <2> QED BY <1>2, <1>4, <1>5, <2>1, NoRowAssumption DEF Knows
<1> QED BY <1>2, <1>5, <1>6, <1>7, RunnerMoves DEF LifecycleInv, ExecInv, ExecTypes

\* Steps of one runner that only look, or that take or give back the lease.
LEMMA LookingSteps ==
  ASSUME LifecycleInv, UNCHANGED intakeVars, NEW x \in Runners,
         \/ Execution!AcquireLease(x) \/ Execution!LeaseRefused(x)
         \/ Execution!ReadSyscall(x) \/ Execution!InspectOperation(x)
         \/ Execution!ReleaseLease(x) \/ Execution!StorageError(x)
  PROVE  StoreMoves /\ ExecInv'
<1>1. /\ UNCHANGED <<storeVars, syscall, decided, calls>> /\ anchors' = anchors
  BY DEF Execution!AcquireLease, Execution!LeaseRefused, Execution!ReadSyscall,
         Execution!InspectOperation, Execution!ReleaseLease, Execution!StorageError,
         Execution!storeVars, storeVars
<1>2. /\ runner \in [Runners -> Carried] /\ lease \in [Requests -> Execution!Leases]
      /\ calls \in [Requests -> Nat] /\ runner[x] \in Carried /\ Knows(x)
  BY DEF LifecycleInv, ExecInv, ExecTypes, RunnersKnow
<1>3. CASE Execution!AcquireLease(x)
  <2> DEFINE o == runner[x].op
             e == Execution!NextEpoch(x, o)
             pc == IF runner[x].todo = NoRow THEN "tail" ELSE "read"
  <2>1. /\ lease' = [lease EXCEPT ![o] = [owner |-> x, epoch |-> e, live |-> TRUE]]
        /\ runner' = [runner EXCEPT ![x].pc = pc, ![x].epoch = e]
        /\ worklist' = worklist /\ runner[x].pc = "acquire"
    BY <1>3 DEF Execution!AcquireLease
  <2>2. o \in Requests /\ anchors[o] = Anchors
    BY <1>2, <2>1 DEF Knows
  <2>3. e \in Nat
    BY <1>2, <2>2 DEF Execution!NextEpoch, Execution!Leases
  <2> HIDE DEF e
  <2>4. lease' \in [Requests -> Execution!Leases]
    BY <1>2, <2>1, <2>3 DEF Execution!Leases, Runners
  <2>5. /\ runner' \in [Runners -> Carried] /\ OthersStay(x)
        /\ runner'[x].op = runner[x].op /\ runner'[x].todo = runner[x].todo
        /\ runner'[x].pc = pc
    BY <1>2, <2>1, <2>3 DEF Carried, OthersStay, Execution!UnderLease
  <2>6. Knows(x)'
    BY <1>1, <1>2, <2>1, <2>2, <2>5 DEF Knows, Permitted
  <2> QED BY <1>1, <1>2, <2>1, <2>4, <2>5, <2>6, RunnerMoves
<1>4. CASE Execution!LeaseRefused(x)
  <2>1. Execution!Leave(x, TRUE) /\ lease' = lease
    BY <1>4 DEF Execution!LeaseRefused
  <2> QED BY <1>1, <1>2, <2>1, Left
<1>5. CASE Execution!ReadSyscall(x)
  <2>1. /\ UNCHANGED <<lease, worklist>> /\ runner[x].pc = "read"
        /\ Execution!Goto(x, "claim") \/ Execution!Goto(x, "tail")
    BY <1>5 DEF Execution!ReadSyscall
  <2>2. CASE Execution!Goto(x, "tail")
    BY <1>1, <2>1, <2>2, MovedOn
  <2>3. CASE Execution!Goto(x, "claim")
    <3>1. /\ runner' \in [Runners -> Carried] /\ OthersStay(x)
          /\ runner'[x].pc = "claim"
          /\ runner'[x].op = runner[x].op /\ runner'[x].todo = runner[x].todo
      BY <2>3, GotoFields DEF Execution!UnderLease, LifecycleInv, ExecInv
    <3>2. Knows(x)'
      BY <1>1, <1>2, <2>1, <3>1 DEF Knows, Permitted
    <3> QED BY <1>1, <1>2, <2>1, <3>1, <3>2, RunnerMoves
  <2> QED BY <2>1, <2>2, <2>3
<1>6. CASE Execution!InspectOperation(x)
  <2>1. /\ UNCHANGED <<lease, worklist>> /\ runner[x].pc = "tail"
        /\ Execution!Goto(x, "complete") \/ Execution!Goto(x, "release")
    BY <1>6 DEF Execution!InspectOperation
  <2> QED BY <1>1, <2>1, MovedOn
<1>7. CASE Execution!ReleaseLease(x)
  <2>1. PICK ok \in BOOLEAN : Execution!Leave(x, ok)
    BY <1>7 DEF Execution!ReleaseLease
  <2>2. Execution!NoLease \in Execution!Leases
    BY DEF Execution!NoLease, Execution!Leases
  <2>3. lease' \in [Requests -> Execution!Leases]
    BY <1>2, <1>7, <2>2 DEF Execution!ReleaseLease
  <2> QED BY <1>1, <2>1, <2>3, Left
<1>8. CASE Execution!StorageError(x)
  <2>1. lease' = lease
    BY <1>8 DEF Execution!StorageError
  <2>2. \/ /\ runner[x].pc \in Execution!UnderLease
           /\ Execution!Goto(x, "release") /\ worklist' \in {worklist, {}}
        \/ Execution!Leave(x, FALSE)
    BY <1>8 DEF Execution!StorageError, Execution!EndTick
  <2>3. runner[x].pc \in Execution!UnderLease => runner[x].pc \notin {"idle", "done"}
    BY DEF Execution!UnderLease
  <2> QED BY <1>1, <1>2, <2>1, <2>2, <2>3, MovedOn, Left
<1> QED BY <1>3, <1>4, <1>5, <1>6, <1>7, <1>8

\* The operation ends as failed or completed: its trace is complete.
LEMMA EndingSteps ==
  ASSUME LifecycleInv, UNCHANGED intakeVars, NEW x \in Runners,
         Execution!FailOperation(x) \/ Execution!CompleteOperation(x)
  PROVE  StoreMoves /\ ExecInv'
<1>1. PICK s \in {"failed", "completed"}, pc \in {"tail", "release"} :
        /\ Execution!UpdateOperationState(runner[x].op, s) /\ Execution!Goto(x, pc)
        /\ runner[x].pc \in {"fail_op", "complete"}
        /\ UNCHANGED <<anchors, approval, syscall, decided, lease, worklist, calls>>
  BY DEF Execution!FailOperation, Execution!CompleteOperation
<1>2. PICK o \in Requests : o = runner[x].op /\ anchors[o] = Anchors
  BY <1>1 DEF LifecycleInv, ExecInv, RunnersKnow, Knows
<1>3. /\ operation \in [Requests -> OperationStates]
      /\ transitions \in [Requests -> SUBSET (OperationStates \X OperationStates)]
      /\ approval \in [Requests -> ApprovalRows]
  BY IntakeTypes DEF LifecycleInv, IntakeInv, GateInv
<1>4. s \in OperationStates /\ s \notin {"absent", "awaiting_approval"}
  BY DEF OperationStates, TerminalStates
<1>5. /\ operation[o] # "absent"
      /\ operation' = [operation EXCEPT ![o] = s]
      /\ transitions' = [transitions EXCEPT ![o] = @ \cup {<<operation[o], s>>}]
  BY <1>1, <1>2 DEF Execution!UpdateOperationState, Execution!RecordState
<1>6. /\ transitions' \in [Requests -> SUBSET (OperationStates \X OperationStates)]
      /\ \A p \in Requests : transitions[p] \subseteq transitions'[p]
  <2>1. transitions[o] \cup {<<operation[o], s>>} \in SUBSET (OperationStates \X OperationStates)
    BY <1>2, <1>3, <1>4
  <2> QED BY <1>2, <1>3, <1>5, <2>1
<1>7. /\ operation' \in [Requests -> OperationStates]
      /\ operation'[o] = s
      /\ \A p \in Requests \ {o} : operation'[p] = operation[p]
  BY <1>2, <1>3, <1>4, <1>5
<1>8. StoreMoves
  BY <1>1, <1>2, <1>3, <1>4, <1>5, <1>6, <1>7 DEF StoreMoves
<1>9. RecordsInv'
  BY <1>1, <1>8, RecordsStay
<1>10. /\ runner' \in [Runners -> Carried] /\ OthersStay(x)
       /\ runner'[x].pc = pc
       /\ runner'[x].op = runner[x].op /\ runner'[x].todo = runner[x].todo
  BY <1>1, GotoFields DEF Execution!UnderLease, LifecycleInv, ExecInv
<1>11. Knows(x)'
  BY <1>1, <1>2, <1>10 DEF LifecycleInv, ExecInv, RunnersKnow, Knows, Permitted
<1>12. ExecTypes' /\ Later
  BY <1>1, <1>10 DEF LifecycleInv, ExecInv, ExecTypes, Later, Permitted, Begun
<1>13. RunnersKnow'
  <2>1. \A y \in Runners : Knows(y)'
    BY <1>1, <1>10, <1>11, <1>12, KnowledgeStays DEF LifecycleInv, ExecInv
  <2> QED BY <1>1, <2>1 DEF RunnersKnow, LifecycleInv, ExecInv, Permitted
<1> QED BY <1>8, <1>9, <1>12, <1>13 DEF ExecInv

\* What happens around the runners.
LEMMA SurroundingSteps ==
  ASSUME LifecycleInv, UNCHANGED intakeVars,
         \/ \E d \in Decisions : Execution!DropConnection(d)
         \/ Execution!Crash
         \/ \E o \in Requests : Execution!ExpireLease(o) \/ Execution!Cancel(o)
  PROVE  StoreMoves /\ ExecInv'
<1>0. /\ runner \in [Runners -> Carried] /\ lease \in [Requests -> Execution!Leases]
      /\ calls \in [Requests -> Nat] /\ \A x \in Runners : Knows(x)
  BY DEF LifecycleInv, ExecInv, ExecTypes, RunnersKnow
<1>1. /\ Execution!IdleRunner \in Carried /\ Execution!IdleRunner.pc = "idle"
      /\ Execution!IdleRunner.todo = NoRow
      /\ Execution!DoneRunner \in Carried /\ Execution!DoneRunner.pc = "done"
      /\ Execution!DoneRunner.todo = NoRow
  BY DEF Carried, Execution!IdleRunner, Execution!DoneRunner
<1>2. ASSUME NEW d \in Decisions, Execution!DropConnection(d)
      PROVE  StoreMoves /\ ExecInv'
  <2>1. d \in Runners
    BY DEF Runners, Execution!Runners
  <2>2. /\ runner' = [runner EXCEPT ![d] = Execution!DoneRunner]
        /\ UNCHANGED <<storeVars, syscall, decided, lease, worklist, calls>>
    BY <1>2 DEF Execution!DropConnection, Execution!storeVars, storeVars
  <2>3. runner' \in [Runners -> Carried] /\ OthersStay(d)
        /\ runner'[d] = Execution!DoneRunner
    BY <1>0, <1>1, <2>1, <2>2 DEF OthersStay
  <2>4. Knows(d)'
    BY <1>1, <2>1, <2>3, RestingKnows
  <2> QED BY <1>0, <2>1, <2>2, <2>3, <2>4, RunnerMoves
<1>3. CASE Execution!Crash
  <2>1. /\ UNCHANGED <<storeVars, syscall, decided, lease, calls>> /\ worklist' = {}
        /\ runner' = [x \in Runners |->
             IF x = Recovery THEN Execution!IdleRunner
             ELSE IF runner[x].pc = "idle" THEN runner[x]
             ELSE Execution!DoneRunner]
    BY <1>3 DEF Execution!Crash, Execution!storeVars, storeVars, Runners
  <2>2. \A x \in Runners : runner'[x] \in {Execution!IdleRunner, runner[x], Execution!DoneRunner}
    BY <2>1
  <2>3. runner' \in [Runners -> Carried]
    BY <1>0, <1>1, <2>1, <2>2
  <2>4. ASSUME NEW x \in Runners PROVE Knows(x)'
    <3>1. CASE runner'[x] \in {Execution!IdleRunner, Execution!DoneRunner}
      BY <1>1, <3>1, RestingKnows
    <3>2. CASE runner'[x] = runner[x]
      BY <1>0, <2>1, <3>2 DEF Knows, Permitted, Begun, storeVars
    <3> QED BY <2>2, <3>1, <3>2
  <2>5. StoreMoves
    BY <2>1, NothingMoves DEF LifecycleInv
  <2>6. ExecTypes' /\ RecordsInv'
    BY <2>1, <2>3, <2>5, RecordsStay DEF LifecycleInv, ExecInv, ExecTypes
  <2>7. RunnersKnow'
    BY <2>1, <2>4 DEF RunnersKnow
  <2> QED BY <2>5, <2>6, <2>7 DEF ExecInv
<1>4. ASSUME NEW o \in Requests, Execution!ExpireLease(o)
      PROVE  StoreMoves /\ ExecInv'
  <2>1. /\ lease' = [lease EXCEPT ![o].live = FALSE]
        /\ UNCHANGED <<storeVars, syscall, decided, runner, worklist, calls>>
    BY <1>4 DEF Execution!ExpireLease, Execution!storeVars, storeVars
  <2>2. lease' \in [Requests -> Execution!Leases]
    BY <1>0, <2>1 DEF Execution!Leases
  <2>3. StoreMoves
    BY <2>1, NothingMoves DEF LifecycleInv
  <2>4. ExecTypes' /\ RecordsInv'
    BY <2>1, <2>2, <2>3, RecordsStay DEF LifecycleInv, ExecInv, ExecTypes
  <2>5. RunnersKnow'
    BY <2>1 DEF LifecycleInv, ExecInv, RunnersKnow, Knows, Permitted, Begun, storeVars
  <2> QED BY <2>3, <2>4, <2>5 DEF ExecInv
<1>5. ASSUME NEW o \in Requests, Execution!Cancel(o)
      PROVE  StoreMoves /\ ExecInv'
  <2>1. /\ UNCHANGED <<anchors, approval, syscall, decided, lease, runner, worklist, calls>>
        /\ operation[o] # "absent"
        /\ operation' = [operation EXCEPT ![o] = "cancelled"]
        /\ transitions' = [transitions EXCEPT ![o] = @ \cup {<<operation[o], "cancelled">>}]
    BY <1>5
    DEF Execution!Cancel, Execution!CancelOperation, Execution!MayCancel,
        Execution!RecordState, Execution!execVars
  <2>2. /\ operation \in [Requests -> OperationStates]
        /\ transitions \in [Requests -> SUBSET (OperationStates \X OperationStates)]
        /\ approval \in [Requests -> ApprovalRows]
        /\ "cancelled" \in OperationStates
    BY IntakeTypes DEF LifecycleInv, IntakeInv, GateInv, OperationStates, TerminalStates
  <2>3. /\ transitions' \in [Requests -> SUBSET (OperationStates \X OperationStates)]
        /\ \A p \in Requests : transitions[p] \subseteq transitions'[p]
    <3>1. transitions[o] \cup {<<operation[o], "cancelled">>}
            \in SUBSET (OperationStates \X OperationStates)
      BY <2>2
    <3> QED BY <2>1, <2>2, <3>1
  <2>4. StoreMoves
    BY <2>1, <2>2, <2>3 DEF StoreMoves, Intake!Outcomes
  <2>5. ExecTypes' /\ RecordsInv'
    BY <2>1, <2>4, RecordsStay DEF LifecycleInv, ExecInv, ExecTypes
  <2>6. RunnersKnow'
    BY <2>1 DEF LifecycleInv, ExecInv, RunnersKnow, Knows, Permitted, Begun
  <2> QED BY <2>4, <2>5, <2>6 DEF ExecInv
<1> QED BY <1>2, <1>3, <1>4, <1>5

\* Every step of a decision, a runner or recovery.
LEMMA ExecutionKept == LifecycleInv /\ ExecutionStep => LifecycleInv'
<1> SUFFICES ASSUME LifecycleInv, ExecutionStep PROVE LifecycleInv'
  OBVIOUS
<1>1. UNCHANGED intakeVars
  BY DEF ExecutionStep
<1>2. StoreMoves /\ ExecInv'
  <2>1. ASSUME NEW x \in Runners, Execution!Run(x) PROVE StoreMoves /\ ExecInv'
    <3>1. CASE Execution!ClaimSyscall(x)
      BY <1>1, <3>1, WriteStep DEF Execution!ClaimSyscall
    <3>2. CASE Execution!SettleSyscall(x)
      BY <1>1, <3>2, WriteStep DEF Execution!SettleSyscall
    <3>3. CASE Execution!FailSyscall(x)
      BY <1>1, <3>3, WriteStep DEF Execution!FailSyscall
    <3> QED BY <1>1, <2>1, <3>1, <3>2, <3>3, CallStep, LookingSteps, EndingSteps
            DEF Execution!Run
  <2>2. ASSUME NEW x \in Runners, Execution!StorageError(x) PROVE StoreMoves /\ ExecInv'
    BY <1>1, <2>2, LookingSteps
  <2>3. ASSUME NEW d \in Decisions, NEW a \in Requests, NEW k \in Keys \cup {NoKey},
               Execution!Decide(d, a, k)
        PROVE  StoreMoves /\ ExecInv'
    BY <1>1, <2>3, ReplayStep, ApproveStep, DenyStep DEF Execution!Decide
  <2>4. CASE Execution!Recover
    BY <1>1, <2>4, RecoverStep
  <2>5. CASE \/ \E d \in Decisions : Execution!DropConnection(d)
             \/ Execution!Crash
             \/ \E o \in Requests : Execution!ExpireLease(o) \/ Execution!Cancel(o)
    BY <1>1, <2>5, SurroundingSteps
  <2> QED BY <2>1, <2>2, <2>3, <2>4, <2>5 DEF ExecutionStep, Execution!Next, Runners
<1>3. IntakeInv'
  BY <1>2, GateUnderMoves, RowsUnderMoves DEF LifecycleInv, IntakeInv
<1> QED BY <1>2, <1>3 DEF LifecycleInv

-----------------------------------------------------------------------------
(* Steps of intake                                                         *)

\* The rows of intake after a step, and what execution still finds in them.
RowsKept == RowsExist' /\ WaitingInv' /\ RowsGrow

\* One handler moves, perhaps with an anchor; the other rows stay.
LEMMA HandlerMoves ==
  ASSUME IntakeInv, NEW r \in Requests,
         \A s \in Requests \ {r} : submit'[s] = submit[s],
         UNCHANGED <<operation, transitions, approval, idempotency>>,
         \A o \in Requests : anchors[o] = Anchors => anchors'[o] = Anchors,
         submit'[r].op # NoRow => operation[submit'[r].op] # "absent",
         submit'[r].pc \in Part!AfterGate =>
           operation[submit'[r].op] # "awaiting_approval",
         submit'[r].pc # "promote"
  PROVE  RowsKept
<1>1. \A a \in Requests : approval[a].op \in Requests \cup {NoRow}
  BY IntakeTypes DEF IntakeInv, GateInv
<1>2. RowsExist'
  BY <1>1 DEF IntakeInv, RowsExist
<1>3. WaitingInv'
  BY DEF IntakeInv, WaitingInv
<1>4. RowsGrow
  BY DEF RowsGrow
<1> QED BY <1>2, <1>3, <1>4 DEF RowsKept

\* An operation that exists is written.
LEMMA OperationMoves ==
  ASSUME IntakeInv, NEW o \in Requests, NEW s \in OperationStates \ {"absent"},
         operation[o] # "absent", Part!RecordState(o, s),
         UNCHANGED <<anchors, approval, idempotency>>
  PROVE  /\ \A p \in Requests \ {o} : operation'[p] = operation[p]
         /\ operation'[o] = s
         /\ \A p \in Requests : operation[p] # "absent" => operation'[p] # "absent"
         /\ RowsGrow
<1>1. /\ operation \in [Requests -> OperationStates]
      /\ transitions \in [Requests -> SUBSET (OperationStates \X OperationStates)]
  BY IntakeTypes DEF IntakeInv, GateInv
<1>2. /\ \A p \in Requests \ {o} : operation'[p] = operation[p]
      /\ operation'[o] = s
  BY <1>1 DEF Part!RecordState
<1>3. \A p \in Requests : transitions[p] \subseteq transitions'[p]
  BY <1>1 DEF Part!RecordState
<1> QED BY <1>2, <1>3 DEF RowsGrow

\* An existing operation leaves or stays out of waiting, with handlers where
\* they were or gone.
LEMMA OperationLeaves ==
  ASSUME IntakeInv, NEW o \in Requests,
         NEW s \in OperationStates \ {"absent", "awaiting_approval"},
         operation[o] # "absent", Part!RecordState(o, s),
         UNCHANGED <<anchors, approval, idempotency>>,
         \A r \in Requests :
           /\ submit'[r].op = submit[r].op
           /\ submit'[r].pc \in {submit[r].pc, "accepted"}
  PROVE  RowsKept
<1>1. /\ \A p \in Requests \ {o} : operation'[p] = operation[p]
      /\ operation'[o] = s
      /\ \A p \in Requests : operation[p] # "absent" => operation'[p] # "absent"
      /\ RowsGrow
  BY OperationMoves
<1>2. /\ \A r \in Requests :
           /\ submit[r].op \in Requests \cup {NoRow}
           /\ approval[r].op \in Requests \cup {NoRow}
           /\ submit[r].pc \in Part!AfterGate => submit[r].op \in Requests
      /\ \A k \in Keys : idempotency[k] \in Requests \cup {NoRow}
  BY IntakeTypes, GateFacts DEF IntakeInv, GateInv, Part!Active
<1>3. RowsExist'
  BY <1>1, <1>2 DEF IntakeInv, RowsExist
<1>4. "accepted" \notin Part!AfterGate /\ "accepted" # "promote"
  BY DEF Part!AfterGate
<1>5. WaitingInv'
  <2>1. ASSUME NEW p \in Requests, operation'[p] = "awaiting_approval"
        PROVE  \E a \in Requests : approval'[a].op = p /\ approval'[a].status = "pending"
    BY <1>1, <2>1 DEF IntakeInv, WaitingInv
  <2>2. ASSUME NEW r \in Requests
        PROVE  /\ submit'[r].pc \in Part!AfterGate =>
                    operation'[submit'[r].op] # "awaiting_approval"
               /\ submit'[r].pc = "promote" =>
                    approval'[r].op = submit'[r].op /\ approval'[r].status = "pending"
    BY <1>1, <1>2, <1>4 DEF IntakeInv, WaitingInv
  <2> QED BY <2>1, <2>2 DEF WaitingInv
<1> QED BY <1>1, <1>3, <1>5 DEF RowsKept

\* The start of a handler.
LEMMA SubmitKept ==
  ASSUME IntakeInv, NEW r \in Requests, NEW k \in Keys \cup {NoKey},
         NEW q \in RequestIds, Part!Submit(r, k, q)
  PROVE  RowsKept
<1>0. /\ submit \in [Requests -> Part!SubmitStates]
      /\ operation \in [Requests -> OperationStates]
      /\ transitions \in [Requests -> SUBSET (OperationStates \X OperationStates)]
      /\ \A s \in Requests :
           /\ submit[s].op \in Requests \cup {NoRow}
           /\ approval[s].op \in Requests \cup {NoRow}
           /\ submit[s].pc \in Part!AfterGate => submit[s].op \in Requests
      /\ \A j \in Keys : idempotency[j] \in Requests \cup {NoRow}
  BY IntakeTypes, GateFacts DEF IntakeInv, GateInv, Part!Active
<1>1. "load" \notin Part!AfterGate /\ "rejected" \notin Part!AfterGate
  BY DEF Part!AfterGate
<1>2. CASE Part!ReplaySubmit(r, k, q)
  <2>1. /\ \A s \in Requests \ {r} : submit'[s] = submit[s]
        /\ submit'[r].op = Part!Stored(k) /\ submit'[r].pc = "load"
        /\ UNCHANGED <<operation, transitions, anchors, approval, idempotency>>
        /\ Part!Stored(k) # NoRow
    BY <1>0, <1>2 DEF Part!ReplaySubmit, Part!NotSubmitted, Part!storeVars
  <2>2. operation[Part!Stored(k)] # "absent"
    BY <2>1 DEF Part!Stored, IntakeInv, RowsExist
  <2> QED BY <1>1, <2>1, <2>2, HandlerMoves
<1>3. CASE Part!RejectSubmit(r, k, q)
  <2>1. /\ \A s \in Requests \ {r} : submit'[s] = submit[s]
        /\ submit'[r].op = NoRow /\ submit'[r].pc = "rejected"
        /\ UNCHANGED <<operation, transitions, anchors, approval, idempotency>>
    BY <1>0, <1>3 DEF Part!RejectSubmit, Part!NotSubmitted, Part!storeVars
  <2> QED BY <1>1, <2>1, HandlerMoves
<1>4. CASE Part!AcceptSubmit(r, k, q)
  <2>1. /\ \A s \in Requests \ {r} : submit'[s] = submit[s]
        /\ submit'[r].op = r /\ submit'[r].pc = "load"
        /\ UNCHANGED <<anchors, approval>>
        /\ \A j \in Keys : idempotency'[j] \in {idempotency[j], r}
    BY <1>0, <1>4 DEF Part!AcceptSubmit, Part!NotSubmitted, Part!StoreResponse
  <2>2. operation[r] = "absent"
    BY <1>4 DEF Part!AcceptSubmit, IntakeInv, GateInv, Part!IdsInv, Part!RowsUseUpIds
  <2>3. /\ operation'[r] = "created"
        /\ \A o \in Requests \ {r} : operation'[o] = operation[o]
        /\ \A o \in Requests : transitions[o] \subseteq transitions'[o]
    BY <1>0, <1>4 DEF Part!AcceptSubmit, Part!RecordState
  <2>4. RowsGrow
    BY <2>1, <2>3 DEF RowsGrow
  <2>5. RowsExist'
    <3>1. ASSUME NEW j \in Keys, idempotency'[j] # NoRow
          PROVE  operation'[idempotency'[j]] # "absent"
      BY <1>0, <2>1, <2>3, <3>1 DEF IntakeInv, RowsExist
    <3>2. ASSUME NEW s \in Requests, submit'[s].op # NoRow
          PROVE  operation'[submit'[s].op] # "absent"
      BY <1>0, <2>1, <2>3, <3>2 DEF IntakeInv, RowsExist
    <3>3. ASSUME NEW a \in Requests
          PROVE  /\ approval'[a].status = "absent" <=> approval'[a].op = NoRow
                 /\ approval'[a].op # NoRow =>
                      /\ operation'[approval'[a].op] # "absent"
                      /\ anchors'[approval'[a].op] = Anchors
      BY <1>0, <2>1, <2>3 DEF IntakeInv, RowsExist
    <3> QED BY <3>1, <3>2, <3>3 DEF RowsExist
  <2>6. WaitingInv'
    <3>1. ASSUME NEW p \in Requests, operation'[p] = "awaiting_approval"
          PROVE  \E a \in Requests : approval'[a].op = p /\ approval'[a].status = "pending"
      BY <2>1, <2>3, <3>1 DEF IntakeInv, WaitingInv
    <3>2. ASSUME NEW s \in Requests
          PROVE  /\ submit'[s].pc \in Part!AfterGate =>
                      operation'[submit'[s].op] # "awaiting_approval"
                 /\ submit'[s].pc = "promote" =>
                      approval'[s].op = submit'[s].op /\ approval'[s].status = "pending"
      BY <1>0, <1>1, <2>1, <2>3 DEF IntakeInv, WaitingInv
    <3> QED BY <3>1, <3>2 DEF WaitingInv
  <2> QED BY <2>4, <2>5, <2>6 DEF RowsKept
<1> QED BY <1>2, <1>3, <1>4 DEF Part!Submit

\* The steps behind it.
LEMMA AdvanceKept ==
  ASSUME IntakeInv, GateInv', NEW r \in Requests, Part!Advance(r) \/ Part!AbortSubmit(r),
         \A o \in Requests : anchors[o] \subseteq anchors'[o]
  PROVE  RowsKept
<1>0. /\ submit \in [Requests -> Part!SubmitStates]
      /\ approval \in [Requests -> ApprovalRows]
      /\ \A s \in Requests :
           /\ submit[s].op \in Requests \cup {NoRow}
           /\ approval[s].op \in Requests \cup {NoRow}
           /\ submit[s].pc \in Part!Active => submit[s].op \in Requests
      /\ submit[r].op # NoRow => operation[submit[r].op] # "absent"
  BY IntakeTypes, GateFacts DEF IntakeInv, GateInv, RowsExist
<1>1. \A o \in Requests : anchors[o] = Anchors => anchors'[o] = Anchors
  <2>1. anchors' \in [Requests -> SUBSET Anchors]
    BY DEF GateInv, Part!IntakeTypeOK, Part!StoreTypeOK, Part!Anchors, Anchors
  <2> QED BY <2>1
<1>2. /\ \A s \in Requests \ {r} : submit'[s] = submit[s]
      /\ submit'[r].op = submit[r].op /\ idempotency' = idempotency
  BY <1>0
  DEF Part!Advance, Part!AbortSubmit, Part!LoadOperation, Part!PutGateDecision,
      Part!PutCompiledSlice, Part!PutAnchor, Part!PutReasoningOutput,
      Part!FinishOperation, Part!CreateApprovalItem, Part!PromoteOperation, Part!Goto,
      Part!SubmitStates
\* Places behind the gate that are reached from behind the gate, or by it.
<1>3. ASSUME UNCHANGED <<operation, transitions, approval>>,
             submit'[r].pc \notin {"promote"} \cup Part!AfterGate
      PROVE  RowsKept
  BY <1>0, <1>1, <1>2, <1>3, HandlerMoves
<1>4. ASSUME UNCHANGED <<operation, transitions, approval>>,
             submit[r].pc \in Part!AfterGate, submit'[r].pc # "promote"
      PROVE  RowsKept
  <2>1. operation[submit[r].op] # "awaiting_approval"
    BY <1>4 DEF IntakeInv, WaitingInv
  <2> QED BY <1>0, <1>1, <1>2, <1>4, <2>1, HandlerMoves
<1>5. CASE Part!LoadOperation(r) \/ Part!AbortSubmit(r)
  <2>1. /\ UNCHANGED <<operation, transitions, approval>>
        /\ submit'[r].pc \in {"accepted", "gate", "aborted"}
    BY <1>0, <1>5
    DEF Part!LoadOperation, Part!AbortSubmit, Part!Goto, Part!storeVars, Part!SubmitStates
  <2> QED BY <1>3, <2>1 DEF Part!AfterGate
<1>6. CASE Part!PutGateDecision(r)
  <2>1. /\ UNCHANGED <<operation, transitions, approval>>
        /\ submit[r].pc = "gate" /\ submit'[r].pc \in {"slice", "conflict"}
        /\ submit'[r].pc = "slice" => "gate" \notin anchors[submit[r].op]
    BY <1>0, <1>6
    DEF Part!PutGateDecision, Part!PutAnchor, Part!AnchorFree, Part!Goto, Part!SubmitStates
  <2>2. submit[r].op \in Requests
    BY <1>0, <2>1 DEF Part!Active
  <2>3. submit'[r].pc = "slice" => operation[submit[r].op] # "awaiting_approval"
    <3> SUFFICES ASSUME submit'[r].pc = "slice",
                        operation[submit[r].op] = "awaiting_approval"
                 PROVE  FALSE
      OBVIOUS
    <3>1. PICK a \in Requests : approval[a].op = submit[r].op
      BY <2>2 DEF IntakeInv, WaitingInv
    <3>2. "gate" \in anchors[submit[r].op]
      BY <2>2, <3>1, GateFacts, NoRowAssumption DEF IntakeInv
    <3> QED BY <2>1, <3>2
  <2> QED BY <1>0, <1>1, <1>2, <2>1, <2>3, HandlerMoves DEF Part!AfterGate
<1>7. CASE Part!PutCompiledSlice(r) \/ Part!PutReasoningOutput(r)
  <2>1. /\ UNCHANGED <<operation, transitions, approval>>
        /\ submit[r].pc \in {"slice", "generate"}
        /\ submit'[r].pc \in {"generate", "finish", "conflict"}
    BY <1>0, <1>7
    DEF Part!PutCompiledSlice, Part!PutReasoningOutput, Part!PutAnchor, Part!Goto,
        Part!SubmitStates
  <2> QED BY <1>4, <2>1 DEF Part!AfterGate
<1>8. CASE Part!FinishOperation(r)
  <2>1. PICK s \in {"completed", "blocked"} :
          Part!RecordState(submit[r].op, s) /\ operation[submit[r].op] # "absent"
    BY <1>8 DEF Part!FinishOperation, Part!UpdateOperationState
  <2>2. /\ UNCHANGED <<anchors, approval>>
        /\ submit[r].pc = "finish" /\ submit'[r].pc = "accepted"
    BY <1>0, <1>8 DEF Part!FinishOperation, Part!Goto, Part!SubmitStates
  <2>3. s \in OperationStates \ {"absent", "awaiting_approval"}
    BY DEF OperationStates, TerminalStates
  <2>4. submit[r].op \in Requests
    BY <1>0, <2>2 DEF Part!Active, Part!AfterGate
  <2>5. \A x \in Requests :
          /\ submit'[x].op = submit[x].op
          /\ submit'[x].pc \in {submit[x].pc, "accepted"}
    BY <1>2, <2>2
  <2> QED BY <1>2, <2>1, <2>2, <2>3, <2>4, <2>5, OperationLeaves
<1>9. CASE Part!CreateApprovalItem(r)
  <2>1. /\ UNCHANGED <<operation, transitions, anchors>>
        /\ submit[r].pc = "finish" /\ submit'[r].pc = "promote"
        /\ approval' = [approval EXCEPT ![r] = [op |-> submit[r].op, status |-> "pending"]]
    BY <1>0, <1>9 DEF Part!CreateApprovalItem, Part!Goto, Part!SubmitStates
  <2>2. /\ submit[r].pc \in Part!AfterGate /\ submit[r].op \in Requests
        /\ operation[submit[r].op] \notin {"absent", "awaiting_approval"}
    BY <1>0, <2>1, NoRowAssumption DEF Part!Active, Part!AfterGate, IntakeInv, WaitingInv
  <2>3. approval[r].op = NoRow
    BY <2>1, GateFacts DEF IntakeInv
  <2>4. anchors[submit[r].op] = Anchors
    BY <2>1, <2>2
    DEF IntakeInv, GateInv, Part!TraceIsStored, Part!GateAdmitsOne, Anchors,
        Part!IntakeTypeOK, Part!StoreTypeOK, Part!Anchors
  <2>5. /\ \A a \in Requests \ {r} : approval'[a] = approval[a]
        /\ approval'[r].op = submit[r].op /\ approval'[r].status = "pending"
    BY <1>0, <2>1
  <2>6. RowsGrow
    BY <2>1, <2>3, <2>5 DEF RowsGrow
  <2>7. RowsExist'
    <3>1. \A a \in Requests :
            /\ approval'[a].status = "absent" <=> approval'[a].op = NoRow
            /\ approval'[a].op # NoRow =>
                 operation[approval'[a].op] # "absent" /\ anchors[approval'[a].op] = Anchors
      BY <2>2, <2>4, <2>5, NoRowAssumption DEF IntakeInv, RowsExist
    <3> QED BY <1>2, <2>1, <3>1 DEF IntakeInv, RowsExist
  <2>8. WaitingInv'
    <3>1. ASSUME NEW p \in Requests, operation'[p] = "awaiting_approval"
          PROVE  \E a \in Requests : approval'[a].op = p /\ approval'[a].status = "pending"
      <4>1. PICK a \in Requests : approval[a].op = p /\ approval[a].status = "pending"
        BY <2>1, <3>1 DEF IntakeInv, WaitingInv
      <4>2. a # r
        BY <2>3, <4>1, NoRowAssumption
      <4> QED BY <2>5, <4>1, <4>2
    <3>2. ASSUME NEW s \in Requests
          PROVE  /\ submit'[s].pc \in Part!AfterGate =>
                      operation'[submit'[s].op] # "awaiting_approval"
                 /\ submit'[s].pc = "promote" =>
                      approval'[s].op = submit'[s].op /\ approval'[s].status = "pending"
      BY <1>2, <2>1, <2>2, <2>5 DEF IntakeInv, WaitingInv
    <3> QED BY <3>1, <3>2 DEF WaitingInv
  <2> QED BY <2>6, <2>7, <2>8 DEF RowsKept
<1>10. CASE Part!PromoteOperation(r)
  <2> DEFINE o == submit[r].op
  <2>1. /\ Part!RecordState(o, "awaiting_approval") /\ operation[o] # "absent"
        /\ UNCHANGED <<anchors, approval>>
        /\ submit[r].pc = "promote" /\ submit'[r].pc = "accepted"
    BY <1>0, <1>10
    DEF Part!PromoteOperation, Part!UpdateOperationState, Part!Goto, Part!SubmitStates
  <2>2. /\ submit[r].pc \in Part!AfterGate /\ o \in Requests
        /\ approval[r].op = o /\ approval[r].status = "pending"
    BY <1>0, <2>1 DEF Part!Active, Part!AfterGate, IntakeInv, WaitingInv
  <2>3. "awaiting_approval" \in OperationStates \ {"absent"} /\ "accepted" \notin Part!AfterGate
    BY DEF OperationStates, Part!AfterGate
  <2>4. /\ \A p \in Requests \ {o} : operation'[p] = operation[p]
        /\ operation'[o] = "awaiting_approval"
        /\ \A p \in Requests : operation[p] # "absent" => operation'[p] # "absent"
        /\ RowsGrow
    BY <1>2, <2>1, <2>2, <2>3, OperationMoves
  <2>5. RowsExist'
    <3>1. \A k \in Keys : idempotency[k] \in Requests \cup {NoRow}
      BY IntakeTypes DEF IntakeInv, GateInv
    <3>2. \A s \in Requests : submit'[s].op = submit[s].op
      BY <1>2
    <3> QED BY <1>0, <1>2, <2>1, <2>4, <3>1, <3>2 DEF IntakeInv, RowsExist
  <2>6. WaitingInv'
    <3>1. ASSUME NEW p \in Requests, operation'[p] = "awaiting_approval"
          PROVE  \E a \in Requests : approval'[a].op = p /\ approval'[a].status = "pending"
      BY <2>1, <2>2, <2>4, <3>1 DEF IntakeInv, WaitingInv
    <3>2. ASSUME NEW s \in Requests
          PROVE  /\ submit'[s].pc \in Part!AfterGate =>
                      operation'[submit'[s].op] # "awaiting_approval"
                 /\ submit'[s].pc = "promote" =>
                      approval'[s].op = submit'[s].op /\ approval'[s].status = "pending"
      <4>1. CASE s = r
        BY <2>1, <2>3, <4>1
      <4>2. CASE s # r
        <5>1. submit'[s] = submit[s]
          BY <1>2, <4>2
        <5>2. submit[s].pc \in Part!AfterGate => submit[s].op \in Requests \ {o}
          BY <1>0, <2>2, <4>2, GateFacts DEF IntakeInv, Part!Active
        <5> QED BY <2>1, <2>4, <5>1, <5>2 DEF IntakeInv, WaitingInv
      <4> QED BY <4>1, <4>2
    <3> QED BY <3>1, <3>2 DEF WaitingInv
  <2> QED BY <2>4, <2>5, <2>6 DEF RowsKept
<1> QED BY <1>5, <1>6, <1>7, <1>8, <1>9, <1>10 DEF Part!Advance

\* What execution knows survives a step of intake.
LEMMA ExecUnderIntake ==
  ASSUME LifecycleInv, RowsGrow, UNCHANGED execVars
  PROVE  ExecInv'
<1>1. UNCHANGED <<syscall, decided, lease, runner, worklist, calls>>
  BY DEF execVars
<1>2. \A a \in Requests : approval[a].op \in Requests \cup {NoRow}
  BY IntakeTypes DEF LifecycleInv, IntakeInv, GateInv
<1>3. ExecTypes'
  BY <1>1 DEF LifecycleInv, ExecInv, ExecTypes
<1>4. RecordsInv'
  <2> SUFFICES ASSUME NEW a \in Requests PROVE RecordsInv!(a)'
    BY DEF RecordsInv
  <2>1. RecordsInv!(a)
    BY DEF LifecycleInv, ExecInv, RecordsInv
  <2>2. approval[a].op # NoRow => approval'[a] = approval[a]
    BY DEF RowsGrow
  <2>3. \A o \in Requests : transitions[o] \subseteq transitions'[o]
    BY DEF RowsGrow
  <2> QED BY <1>1, <1>2, <2>1, <2>2, <2>3 DEF Permitted, Begun
<1>5. RunnersKnow'
  <2>1. \A x \in Runners : Knows(x)'
    <3> TAKE x \in Runners
    <3>1. Knows(x)
      BY DEF LifecycleInv, ExecInv, RunnersKnow
    <3> QED BY <1>1, <3>1 DEF Knows, RowsGrow, Permitted, Begun
  <2> QED BY <1>1, <2>1 DEF RunnersKnow, LifecycleInv, ExecInv, Permitted
<1> QED BY <1>3, <1>4, <1>5 DEF ExecInv

\* Every step of a submit handler, and every cancellation.
LEMMA IntakeMoves == LifecycleInv /\ IntakeStep => GateInv' /\ RowsKept
<1> SUFFICES ASSUME LifecycleInv, IntakeStep PROVE GateInv' /\ RowsKept
  OBVIOUS
<1>1. Part!Next /\ UNCHANGED execVars
  BY SameStep DEF IntakeStep
<1>2. GateInv'
  <2>0. [Part!Next]_(Part!vars)
    BY <1>1
  <2>1. /\ Part!IntakeTypeOK /\ Part!GateAdmitsOne /\ Part!OneApprovalPerOperation
        /\ Part!IdsInv /\ Part!TraceIsStored /\ Part!OutcomeIsAnchored
    BY DEF LifecycleInv, IntakeInv, GateInv
  <2>2. Part!IntakeTypeOK'
    BY <2>0, <2>1, Part!TypesStay, PartAssumptions
  <2>3. Part!GateAdmitsOne'
    BY <2>0, <2>1, Part!GateStays, PartAssumptions
  <2>4. Part!OneApprovalPerOperation'
    BY <2>0, <2>1, Part!ItemsStaySingle, PartAssumptions
  <2>5. Part!IdsInv'
    BY <2>0, <2>1, Part!IdsStay, PartAssumptions
  <2>6. Part!TraceIsStored' /\ Part!OutcomeIsAnchored'
    BY <2>0, <2>1, <2>2, Part!TraceStays, PartAssumptions
  <2> QED BY <2>2, <2>3, <2>4, <2>5, <2>6 DEF GateInv
<1>3. \A o \in Requests : anchors[o] \subseteq anchors'[o]
  <2>1. [Part!Next]_(Part!vars) /\ Part!IntakeTypeOK
    BY <1>1 DEF LifecycleInv, IntakeInv, GateInv
  <2> QED BY <2>1, Part!AnchorsGrow, PartAssumptions
<1>4. RowsKept
  <2>1. ASSUME NEW r \in Requests, NEW k \in Keys \cup {NoKey}, NEW q \in RequestIds,
               Part!Submit(r, k, q)
        PROVE  RowsKept
    BY <2>1, SubmitKept DEF LifecycleInv
  <2>2. ASSUME NEW r \in Requests, Part!Advance(r) \/ Part!AbortSubmit(r)
        PROVE  RowsKept
    BY <1>2, <1>3, <2>2, AdvanceKept DEF LifecycleInv
  <2>3. ASSUME NEW o \in Requests, Part!Cancel(o)
        PROVE  RowsKept
    <3>1. /\ operation[o] # "absent" /\ Part!RecordState(o, "cancelled")
          /\ UNCHANGED <<anchors, approval, idempotency, submit>>
      BY <2>3
      DEF Part!Cancel, Part!CancelOperation, Part!MayCancel, Part!intakeVars
    <3>2. "cancelled" \in OperationStates \ {"absent", "awaiting_approval"}
      BY DEF OperationStates, TerminalStates
    <3> QED BY <3>1, <3>2, OperationLeaves DEF LifecycleInv
  <2> QED BY <1>1, <2>1, <2>2, <2>3 DEF Part!Next
<1> QED BY <1>2, <1>4

\* They keep what is known of both halves.
LEMMA IntakeKept == LifecycleInv /\ IntakeStep => LifecycleInv'
BY IntakeMoves, ExecUnderIntake DEF LifecycleInv, IntakeInv, IntakeStep, RowsKept

-----------------------------------------------------------------------------
(* The invariant and what it gives                                         *)

\* Before the first request nothing is known and nothing is there.
LEMMA InitLifecycle == Init => LifecycleInv
<1> SUFFICES ASSUME Init PROVE LifecycleInv
  OBVIOUS
<1>1. Part!Init
  BY SameInit DEF Init
<1>2. /\ operation = [r \in Requests |-> "absent"]
      /\ transitions = [r \in Requests |-> {}]
      /\ anchors = [r \in Requests |-> {}]
      /\ approval = [r \in Requests |-> Part!NoApproval]
      /\ requestEvents = {}
      /\ idempotency = [k \in Keys |-> NoRow]
      /\ submit = [r \in Requests |-> Part!NotSubmitted]
      /\ aborts = 0
  BY <1>1 DEF Part!Init
<1>3. /\ \A r \in Requests : submit[r].pc = "idle" /\ submit[r].op = NoRow
      /\ \A a \in Requests : approval[a].op = NoRow /\ approval[a].status = "absent"
  BY <1>2 DEF Part!NotSubmitted, Part!NoApproval
<1>4. GateInv
  <2>1. Part!NotSubmitted \in Part!SubmitStates /\ Part!NoApproval \in Part!ApprovalRows
    BY DEF Part!NotSubmitted, Part!SubmitStates, Part!NoApproval, Part!ApprovalRows
  <2>2. Part!IntakeTypeOK
    BY <1>2, <2>1, PartAssumptions
    DEF Part!IntakeTypeOK, Part!StoreTypeOK, Part!OperationStates
  <2>3. Part!GateAdmitsOne /\ Part!OneApprovalPerOperation
    BY <1>3
    DEF Part!GateAdmitsOne, Part!OneApprovalPerOperation, Part!Active, Part!AfterGate
  <2>4. Part!IdsInv
    BY <1>2, <1>3 DEF Part!IdsInv, Part!RowsUseUpIds, Part!OneOperationPerRequestId
  <2>5. Part!TraceIsStored /\ Part!OutcomeIsAnchored
    BY <1>2, <1>3 DEF Part!TraceIsStored, Part!OutcomeIsAnchored, Part!Outcomes
  <2> QED BY <2>2, <2>3, <2>4, <2>5 DEF GateInv
<1>5. RowsExist /\ WaitingInv
  BY <1>2, <1>3 DEF RowsExist, WaitingInv, Part!AfterGate
<1>6. /\ syscall = [a \in Requests |-> "absent"]
      /\ decided = [a \in Requests |-> [k \in Keys |-> NoRow]]
      /\ lease = [o \in Requests |-> Execution!NoLease]
      /\ runner = [x \in Runners |-> Execution!IdleRunner]
      /\ worklist = {}
      /\ calls = [a \in Requests |-> 0]
  BY DEF Init, Execution!ExecInit, Runners
<1>7. ExecTypes
  <2>1. Execution!NoLease \in Execution!Leases
    BY DEF Execution!NoLease, Execution!Leases
  <2>2. Execution!IdleRunner \in Carried
    BY DEF Execution!IdleRunner, Carried
  <2> QED BY <1>6, <2>1, <2>2 DEF ExecTypes, Execution!SyscallStates
<1>8. RecordsInv
  BY <1>6 DEF RecordsInv, Permitted
<1>9. RunnersKnow
  BY <1>6 DEF RunnersKnow, Knows, Permitted, Execution!IdleRunner
<1> QED BY <1>4, <1>5, <1>7, <1>8, <1>9 DEF LifecycleInv, IntakeInv, ExecInv

\* A step in which neither half does anything.
LEMMA StutterKept == LifecycleInv /\ UNCHANGED vars => LifecycleInv'
<1> SUFFICES ASSUME LifecycleInv, UNCHANGED vars PROVE LifecycleInv'
  OBVIOUS
<1>1. UNCHANGED <<storeVars, intakeVars, execVars>>
  BY DEF vars
<1>2. StoreMoves
  BY <1>1, NothingMoves DEF LifecycleInv
<1>3. IntakeInv'
  BY <1>2, GateUnderMoves, RowsUnderMoves DEF LifecycleInv, IntakeInv
<1>4. RowsGrow
  BY <1>1, IntakeTypes DEF RowsGrow, storeVars, LifecycleInv, IntakeInv, GateInv
<1>5. ExecInv'
  BY <1>1, <1>4, ExecUnderIntake
<1> QED BY <1>3, <1>5 DEF LifecycleInv

\* What intake knows of its rows and the runners know of theirs holds together,
\* whatever interleaves.
THEOREM LifecycleCorrect == Spec => []LifecycleInv
<1>1. LifecycleInv /\ [Next]_vars => LifecycleInv'
  BY IntakeKept, ExecutionKept, StutterKept DEF Next
<1> QED BY <1>1, InitLifecycle, PTL DEF Spec

\* One request id leads to at most one permitted side effect: its syscalls
\* belong to items of one operation, and an operation has one item.
THEOREM OneSideEffect == Spec => []OneSideEffectPerRequest
<1>1. LifecycleInv => OneSideEffectPerRequest
  <2> SUFFICES ASSUME LifecycleInv, NEW q \in RequestIds
               PROVE  Cardinality(SyscallsOfRequest(q)) <= 1
    BY DEF OneSideEffectPerRequest
  <2>1. ASSUME NEW a \in SyscallsOfRequest(q), NEW b \in SyscallsOfRequest(q)
        PROVE  a = b
    <3>1. /\ a \in Requests /\ b \in Requests
          /\ approval[a].op \in Requests /\ approval[b].op \in Requests
          /\ operation[approval[a].op] # "absent"
          /\ operation[approval[b].op] # "absent"
          /\ submit[approval[a].op].id = q /\ submit[approval[b].op].id = q
      BY <2>1, IntakeTypes
      DEF SyscallsOfRequest, LifecycleInv, ExecInv, RecordsInv, Permitted, IntakeInv,
          GateInv, RowsExist
    <3>2. approval[a].op = approval[b].op
      BY <3>1
      DEF LifecycleInv, IntakeInv, GateInv, Part!IdsInv, Part!OneOperationPerRequestId
    <3> QED BY <3>1, <3>2, PartAssumptions
        DEF LifecycleInv, IntakeInv, GateInv, Part!OneApprovalPerOperation
  <2>2. CASE SyscallsOfRequest(q) = {}
    BY <2>2, FS_EmptySet
  <2>3. CASE SyscallsOfRequest(q) # {}
    <3>1. PICK a : SyscallsOfRequest(q) = {a}
      BY <2>1, <2>3
    <3>2. Cardinality({a}) = 1
      BY FS_Singleton
    <3> QED BY <3>1, <3>2
  <2> QED BY <2>2, <2>3
<1> QED BY <1>1, LifecycleCorrect, PTL

\* Whatever the tool did is permitted, claimed and recorded, and was decided
\* for an operation whose trace is complete.
THEOREM SendsAlwaysAnchored == Spec => []SendsAreAnchored
<1>1. LifecycleInv => SendsAreAnchored
  <2> SUFFICES ASSUME LifecycleInv, NEW a \in Requests, calls[a] > 0
               PROVE  /\ approval[a].status = "consumed"
                      /\ <<"awaiting_approval", "running">> \in transitions[approval[a].op]
                      /\ syscall[a] \in {"executing", "executed", "failed"}
                      /\ anchors[approval[a].op] = Anchors
    BY DEF SendsAreAnchored, Execution!SendsAreRecorded
  <2>1. Begun(a) /\ Permitted(a)
    BY DEF LifecycleInv, ExecInv, RecordsInv, Begun, Permitted
  <2> QED BY <2>1
      DEF LifecycleInv, ExecInv, RecordsInv, Begun, IntakeInv, RowsExist
<1> QED BY <1>1, LifecycleCorrect, PTL

\* Whoever waits for a decision has an item that can be decided.
THEOREM WaitingAlwaysDecidable == Spec => []WaitingIsDecidable
<1>1. LifecycleInv => WaitingIsDecidable
  BY DEF LifecycleInv, IntakeInv, WaitingInv, WaitingIsDecidable, Intake!AwaitingHasItem,
         Intake!ApprovalsOf
<1> QED BY <1>1, LifecycleCorrect, PTL

-----------------------------------------------------------------------------
(* The course of each syscall                                              *)

UnderLease == Execution!UnderLease

\* A runner works on the syscall of its operation, counts its attempts from the
\* claim on, and settles what the tool has done.
Carries(x) ==
  /\ runner[x].todo # NoRow => approval[runner[x].todo].op = runner[x].op
  /\ runner[x].pc \in {"acquire", "read", "claim"} => runner[x].tries = 0
  /\ runner[x].pc = "call" => runner[x].tries < RetryAttempts
  /\ runner[x].pc = "settle" => calls[runner[x].todo] > 0

\* The runner's lease is on record, and has not run out.
HoldsLive(x) ==
  runner[x].pc \in UnderLease =>
    /\ lease[runner[x].op].owner = x
    /\ lease[runner[x].op].epoch = runner[x].epoch
    /\ lease[runner[x].op].live

\* A runner that works on a syscall finds it where it left it, and counts every
\* act of the tool.
Follows(x) ==
  /\ runner[x].pc = "claim" => syscall[runner[x].todo] = "permitted"
  /\ runner[x].pc \in {"call", "settle", "fail"} => syscall[runner[x].todo] = "executing"
  /\ runner[x].pc = "call" => calls[runner[x].todo] <= runner[x].tries

FaultCounts == [errors : Nat, overruns : Nat]

CourseInv ==
  /\ faults \in FaultCounts
  /\ \A x \in Runners : Carries(x)
  /\ faults.overruns = 0 => \A x \in Runners : HoldsLive(x) /\ Follows(x)

\* What is known of a runner.
LEMMA RunnerFacts ==
  ASSUME LifecycleInv, NEW x \in Runners
  PROVE  /\ runner \in [Runners -> Carried] /\ runner[x] \in Carried
         /\ runner[x].pc \in {"acquire"} \cup UnderLease => runner[x].op \in Requests
         /\ runner[x].todo \in Requests \cup {NoRow}
         /\ runner[x].todo # NoRow =>
              Permitted(runner[x].todo) /\ approval[runner[x].todo].op # NoRow
         /\ runner[x].pc \in {"read", "claim", "call", "settle", "fail"} =>
              runner[x].todo \in Requests
         /\ runner[x].tries \in Nat /\ runner[x].epoch \in Nat
<1>1. /\ runner \in [Runners -> Carried] /\ Knows(x) /\ RecordsInv
  BY DEF LifecycleInv, ExecInv, ExecTypes, RunnersKnow
<1>2. runner[x] \in Carried
  BY <1>1
<1>3. runner[x].todo \in Requests \cup {NoRow}
  BY <1>2 DEF Carried
<1>4. runner[x].pc \in {"acquire"} \cup UnderLease => runner[x].op \in Requests
  BY <1>1 DEF Knows, UnderLease, Execution!UnderLease
<1>5. runner[x].todo # NoRow =>
        Permitted(runner[x].todo) /\ approval[runner[x].todo].op # NoRow
  BY <1>1, <1>3 DEF Knows, RecordsInv
<1>6. runner[x].pc \in {"read", "claim", "call", "settle", "fail"} =>
        runner[x].todo \in Requests
  BY <1>1, <1>3 DEF Knows
<1> QED BY <1>1, <1>2, <1>3, <1>4, <1>5, <1>6 DEF Carried

\* Runs within their lease are on different operations, so on different syscalls.
LEMMA RunsAreApart ==
  ASSUME LifecycleInv, CourseInv, faults.overruns = 0, NEW x \in Runners, NEW y \in Runners,
         x # y, runner[x].pc \in UnderLease, runner[y].pc \in UnderLease
  PROVE  /\ runner[x].op # runner[y].op
         /\ runner[x].todo # NoRow => runner[x].todo # runner[y].todo
<1>1. runner[x].op # runner[y].op
  BY DEF CourseInv, HoldsLive
<1>2. Carries(x) /\ Carries(y)
  BY DEF CourseInv
<1> QED BY <1>1, <1>2 DEF Carries

\* One runner moves; what it does to the rows does not concern the others at
\* work.
LEMMA CourseMoves ==
  ASSUME LifecycleInv, CourseInv, NEW x \in Runners, OthersStay(x), Carries(x)',
         faults' \in FaultCounts, faults'.overruns = faults.overruns,
         \A a \in Requests :
           /\ approval[a].op # NoRow => approval'[a].op = approval[a].op
           /\ calls[a] > 0 => calls'[a] > 0,
         faults.overruns = 0 => HoldsLive(x)' /\ Follows(x)',
         \A y \in Runners \ {x} :
           faults.overruns = 0 /\ runner[y].pc \in UnderLease =>
             /\ lease'[runner[y].op] = lease[runner[y].op]
             /\ runner[y].todo # NoRow =>
                  /\ syscall'[runner[y].todo] = syscall[runner[y].todo]
                  /\ calls'[runner[y].todo] = calls[runner[y].todo]
  PROVE  CourseInv'
<1>1. ASSUME NEW y \in Runners, y # x PROVE Carries(y)'
  <2>1. runner'[y] = runner[y] /\ Carries(y)
    BY <1>1 DEF OthersStay, CourseInv
  <2>2. /\ runner[y].todo \in Requests \cup {NoRow}
        /\ runner[y].todo # NoRow => approval[runner[y].todo].op # NoRow
        /\ runner[y].pc = "settle" => runner[y].todo \in Requests
    BY RunnerFacts
  <2> QED BY <2>1, <2>2 DEF Carries
<1>2. ASSUME NEW y \in Runners, y # x, faults.overruns = 0
      PROVE  HoldsLive(y)' /\ Follows(y)'
  <2>1. runner'[y] = runner[y] /\ HoldsLive(y) /\ Follows(y)
    BY <1>2 DEF OthersStay, CourseInv
  <2>2. runner[y].pc \in {"claim", "call", "settle", "fail"} =>
          runner[y].todo \in Requests /\ runner[y].pc \in UnderLease
    BY RunnerFacts DEF UnderLease, Execution!UnderLease
  <2>3. runner[y].pc \in {"claim", "call", "settle", "fail"} => runner[y].todo # NoRow
    BY <2>2, NoRowAssumption
  <2>4. HoldsLive(y)'
    BY <1>2, <2>1 DEF HoldsLive
  <2>5. Follows(y)'
    BY <1>2, <2>1, <2>2, <2>3 DEF Follows
  <2> QED BY <2>4, <2>5
<1> QED BY <1>1, <1>2 DEF CourseInv

\* One runner moves, and no row that a course depends on.
LEMMA MoverKeepsCourses ==
  ASSUME LifecycleInv, CourseInv, NEW x \in Runners, OthersStay(x), Carries(x)',
         UNCHANGED <<approval, syscall, calls, lease>>,
         faults' \in FaultCounts, faults'.overruns = faults.overruns,
         faults.overruns = 0 => HoldsLive(x)' /\ Follows(x)'
  PROVE  CourseInv'
BY CourseMoves

\* A runner goes where it needs to know no more.
LEMMA GoingOn ==
  ASSUME LifecycleInv, CourseInv, NEW x \in Runners, runner[x].pc \in UnderLease,
         NEW pc \in {"tail", "complete", "release", "fail_op"}, Execution!Goto(x, pc)
  PROVE  /\ OthersStay(x) /\ runner'[x].op = runner[x].op
         /\ (approval' = approval => Carries(x)')
         /\ faults.overruns = 0 /\ lease' = lease => HoldsLive(x)' /\ Follows(x)'
<1>1. /\ runner \in [Runners -> Carried] /\ Carries(x)
      /\ faults.overruns = 0 => HoldsLive(x)
  BY RunnerFacts DEF CourseInv
<1>2. /\ OthersStay(x) /\ runner'[x].pc = pc
      /\ runner'[x].op = runner[x].op /\ runner'[x].todo = runner[x].todo
      /\ runner'[x].epoch = runner[x].epoch
  BY <1>1 DEF Execution!Goto, OthersStay, Carried
<1> QED BY <1>1, <1>2 DEF Carries, HoldsLive, Follows, UnderLease

\* A runner leaves.
LEMMA Resting ==
  ASSUME NEW x \in Runners, runner'[x].pc \in {"idle", "done"}, runner'[x].todo = NoRow
  PROVE  Carries(x)' /\ HoldsLive(x)' /\ Follows(x)'
BY DEF Carries, HoldsLive, Follows, UnderLease, Execution!UnderLease

\* A run starts with its item's operation and nothing tried.
LEMMA Starting ==
  ASSUME LifecycleInv, NEW d \in Runners, NEW a \in Requests, NEW c,
         Execution!StartRun(d, a, c), approval'[a].op = approval[a].op
  PROVE  OthersStay(d) /\ Carries(d)' /\ HoldsLive(d)' /\ Follows(d)'
<1>1. /\ OthersStay(d)
      /\ runner'[d].pc = "acquire" /\ runner'[d].op = approval[a].op
      /\ runner'[d].todo = IF c = "approve" THEN a ELSE NoRow
  BY StartFields DEF LifecycleInv, ExecInv
<1>2. runner'[d].tries = 0
  <2>1. runner \in [Runners -> Carried]
    BY RunnerFacts
  <2> QED BY <2>1 DEF Execution!StartRun, Execution!IdleRunner
<1> QED BY <1>1, <1>2 DEF Carries, HoldsLive, Follows, UnderLease, Execution!UnderLease

\* A decision, taken or replayed: nobody runs its syscall yet.
LEMMA DecisionCourse ==
  ASSUME LifecycleInv, CourseInv, NEW d \in Decisions, NEW a \in Requests,
         NEW k \in Keys \cup {NoKey}, Execution!Decide(d, a, k)
  PROVE  CourseInv'
<1>0. /\ d \in Runners /\ approval \in [Requests -> ApprovalRows]
      /\ syscall \in [Requests -> Execution!SyscallStates] /\ faults \in FaultCounts
  BY IntakeTypes
  DEF Runners, Execution!Runners, LifecycleInv, IntakeInv, GateInv, ExecInv, ExecTypes,
      CourseInv
<1>1. ASSUME NEW c, Execution!StartRun(d, a, c), UNCHANGED <<lease, calls, faults>>,
             \A b \in Requests :
               approval'[b].op = approval[b].op /\ (Permitted(b) => syscall'[b] = syscall[b])
      PROVE  CourseInv'
  <2>1. OthersStay(d) /\ Carries(d)' /\ HoldsLive(d)' /\ Follows(d)'
    BY <1>0, <1>1, Starting
  <2>2. ASSUME NEW y \in Runners, runner[y].todo # NoRow
        PROVE  syscall'[runner[y].todo] = syscall[runner[y].todo]
    BY <1>1, <2>2, RunnerFacts
  <2> QED BY <1>0, <1>1, <2>1, <2>2, CourseMoves
<1>2. CASE Execution!ReplayDecision(d, a, k)
  <2>1. Execution!StartRun(d, a, Execution!StoredChoice(a, k))
        /\ UNCHANGED <<storeVars, syscall, lease, calls, faults>>
    BY <1>2 DEF Execution!ReplayDecision, Execution!storeVars, storeVars
  <2> QED BY <1>1, <2>1 DEF storeVars
<1>3. CASE Execution!Approve(d, a, k)
  <2>1. /\ Execution!StartRun(d, a, "approve") /\ UNCHANGED <<lease, calls, faults>>
        /\ syscall[a] = "absent" /\ syscall' = [syscall EXCEPT ![a] = "permitted"]
        /\ approval' = [approval EXCEPT ![a].status = "consumed"]
    BY <1>3 DEF Execution!Approve
  <2>2. \A b \in Requests :
          approval'[b].op = approval[b].op /\ (Permitted(b) => syscall'[b] = syscall[b])
    BY <1>0, <2>1 DEF ApprovalRows, Permitted
  <2> QED BY <1>1, <2>1, <2>2
<1>4. CASE Execution!Deny(d, a, k)
  <2>1. /\ Execution!StartRun(d, a, "deny") /\ UNCHANGED <<syscall, lease, calls, faults>>
        /\ approval' = [approval EXCEPT ![a].status = "denied"]
    BY <1>4 DEF Execution!Deny
  <2>2. \A b \in Requests : approval'[b].op = approval[b].op
    BY <1>0, <2>1 DEF ApprovalRows
  <2> QED BY <1>1, <2>1, <2>2
<1> QED BY <1>2, <1>3, <1>4 DEF Execution!Decide

\* The recovery worker lists, or starts with an item of its list.
LEMMA RecoverCourse ==
  ASSUME LifecycleInv, CourseInv, Execution!Recover
  PROVE  CourseInv'
<1>1. CASE Execution!ListRecoverable
  <2>1. UNCHANGED <<storeVars, syscall, lease, runner, calls, faults>>
    BY <1>1 DEF Execution!ListRecoverable, Execution!storeVars, storeVars
  <2> QED BY <2>1 DEF CourseInv, Carries, HoldsLive, Follows, storeVars
<1>2. CASE Execution!PickRecoverable
  <2>1. PICK a \in worklist : Execution!StartRun(Recovery, a, "approve")
    BY <1>2 DEF Execution!PickRecoverable
  <2>2. UNCHANGED <<storeVars, syscall, lease, calls, faults>>
    BY <1>2 DEF Execution!PickRecoverable, Execution!storeVars, storeVars
  <2>3. a \in Requests /\ Recovery \in Runners /\ approval' = approval
    BY <2>2 DEF LifecycleInv, ExecInv, RunnersKnow, Runners, Execution!Runners, storeVars
  <2>4. OthersStay(Recovery) /\ Carries(Recovery)' /\ HoldsLive(Recovery)'
        /\ Follows(Recovery)'
    BY <2>1, <2>3, Starting
  <2> QED BY <2>2, <2>3, <2>4, MoverKeepsCourses DEF CourseInv
<1> QED BY <1>1, <1>2 DEF Execution!Recover

\* Who takes a lease finds nobody under it, or an old row of its own.
LEMMA AcquireCourse ==
  ASSUME LifecycleInv, CourseInv, NEW x \in Runners, Execution!AcquireLease(x)
  PROVE  CourseInv'
<1> DEFINE o == runner[x].op
           e == Execution!NextEpoch(x, o)
           pc == IF runner[x].todo = NoRow THEN "tail" ELSE "read"
<1>1. /\ lease' = [lease EXCEPT ![o] = [owner |-> x, epoch |-> e, live |-> TRUE]]
      /\ runner' = [runner EXCEPT ![x].pc = pc, ![x].epoch = e]
      /\ UNCHANGED <<storeVars, syscall, calls, faults>>
      /\ runner[x].pc = "acquire"
      /\ lease[o].owner \in {NoRow, x} \/ ~lease[o].live
  BY DEF Execution!AcquireLease, Execution!Acquirable, Execution!storeVars, storeVars
<1>2. /\ runner \in [Runners -> Carried] /\ o \in Requests /\ Carries(x)
      /\ lease \in [Requests -> Execution!Leases]
  BY <1>1, RunnerFacts DEF CourseInv, LifecycleInv, ExecInv, ExecTypes
<1> HIDE DEF e
<1>3. /\ OthersStay(x) /\ runner'[x].pc = pc /\ runner'[x].op = o /\ runner'[x].epoch = e
      /\ runner'[x].todo = runner[x].todo /\ runner'[x].tries = runner[x].tries
  BY <1>1, <1>2 DEF Carried, OthersStay
<1>4. Carries(x)' /\ HoldsLive(x)' /\ Follows(x)'
  BY <1>1, <1>2, <1>3 DEF Carries, HoldsLive, Follows, storeVars
<1>5. ASSUME NEW y \in Runners \ {x}, faults.overruns = 0, runner[y].pc \in UnderLease
      PROVE  lease'[runner[y].op] = lease[runner[y].op]
  <2>1. HoldsLive(y) /\ runner[y].op \in Requests
    BY <1>5, RunnerFacts DEF CourseInv
  <2>2. NoRow \notin Runners
    BY LifecycleAssumption DEF Runners, Execution!Runners
  <2>3. runner[y].op # o
    BY <1>1, <1>5, <2>1, <2>2 DEF HoldsLive
  <2> QED BY <1>1, <1>2, <2>1, <2>3
<1> QED BY <1>1, <1>3, <1>4, <1>5, CourseMoves DEF CourseInv, storeVars

\* A status is written over the claim of the runner's own syscall.
LEMMA WriteCourse ==
  ASSUME LifecycleInv, CourseInv, NEW x \in Runners,
         \/ /\ runner[x].pc = "claim"
            /\ Execution!WriteStatus(x, "executing", "call")
         \/ /\ runner[x].pc \in {"settle", "fail"}
            /\ \E status \in {"executed", "failed"}, next \in {"tail", "fail_op"} :
                 Execution!WriteStatus(x, status, next)
  PROVE  CourseInv'
<1>1. PICK status \in {"executing", "executed", "failed"}, next \in {"call", "tail", "fail_op"} :
        /\ Execution!WriteStatus(x, status, next)
        /\ next = "call" => runner[x].pc = "claim" /\ status = "executing"
        /\ runner[x].pc \in {"claim", "settle", "fail"}
  OBVIOUS
<1>2. UNCHANGED <<storeVars, lease, calls, faults>> /\ approval' = approval
  BY <1>1 DEF Execution!WriteStatus, Execution!storeVars, storeVars
<1>3. PICK a \in Requests : a = runner[x].todo /\ a # NoRow
  BY <1>1, RunnerFacts, NoRowAssumption
<1>4. /\ runner[x].pc \in UnderLease /\ runner \in [Runners -> Carried]
      /\ syscall \in [Requests -> Execution!SyscallStates] /\ calls \in [Requests -> Nat]
      /\ faults \in FaultCounts /\ Carries(x)
      /\ faults.overruns = 0 => HoldsLive(x) /\ Follows(x)
  BY <1>1, RunnerFacts
  DEF UnderLease, Execution!UnderLease, LifecycleInv, ExecInv, ExecTypes, CourseInv
<1>5. CASE Execution!Writable(a)
  <2>1. syscall' = [syscall EXCEPT ![a] = status] /\ Execution!Goto(x, next)
    BY <1>1, <1>3, <1>5 DEF Execution!WriteStatus
  <2>2. /\ OthersStay(x) /\ runner'[x].pc = next
        /\ runner'[x].op = runner[x].op /\ runner'[x].todo = a
        /\ runner'[x].epoch = runner[x].epoch /\ runner'[x].tries = runner[x].tries
    BY <1>3, <1>4, <2>1 DEF Execution!Goto, OthersStay, Carried
  <2>3. Carries(x)'
    BY <1>1, <1>2, <1>3, <1>4, <2>2, LifecycleAssumption DEF Carries
  <2>4. faults.overruns = 0 => HoldsLive(x)' /\ Follows(x)'
    <3>1. SUFFICES ASSUME faults.overruns = 0 PROVE HoldsLive(x)' /\ Follows(x)'
      OBVIOUS
    <3>2. HoldsLive(x)'
      BY <1>2, <1>4, <2>2, <3>1 DEF HoldsLive
    <3>3. CASE next = "call"
      <4>1. syscall[a] = "permitted" /\ runner[x].tries = 0 /\ syscall'[a] = "executing"
        BY <1>1, <1>3, <1>4, <2>1, <3>1, <3>3 DEF Follows, Carries
      <4>2. calls[a] = 0
        BY <1>4, <4>1 DEF LifecycleInv, ExecInv, RecordsInv, Begun
      <4> QED BY <1>2, <2>2, <3>2, <3>3, <4>1, <4>2 DEF Follows
    <3>4. CASE next # "call"
      BY <2>2, <3>2, <3>4 DEF Follows
    <3> QED BY <3>3, <3>4
  <2>5. ASSUME NEW y \in Runners \ {x}, faults.overruns = 0, runner[y].pc \in UnderLease,
               runner[y].todo # NoRow
        PROVE  syscall'[runner[y].todo] = syscall[runner[y].todo]
    <3>1. runner[y].todo # a /\ runner[y].todo \in Requests
      BY <1>3, <1>4, <2>5, RunsAreApart, RunnerFacts
    <3> QED BY <1>4, <2>1, <3>1
  <2> QED BY <1>2, <1>4, <2>2, <2>3, <2>4, <2>5, CourseMoves
<1>6. CASE ~Execution!Writable(a)
  <2>1. syscall' = syscall /\ Execution!Goto(x, "release")
    BY <1>1, <1>3, <1>6 DEF Execution!WriteStatus
  <2> QED BY <1>2, <1>4, <2>1, GoingOn, MoverKeepsCourses
<1> QED BY <1>5, <1>6

\* What an attempt of the tool changes.
LEMMA CallEffects ==
  ASSUME LifecycleInv, CourseInv, NEW x \in Runners, Execution!CallTool(x)
  PROVE  /\ runner[x].pc = "call" /\ runner[x].todo \in Requests
         /\ UNCHANGED <<approval, syscall, lease, faults>>
         /\ OthersStay(x) /\ runner'[x].op = runner[x].op
         /\ runner'[x].todo = runner[x].todo /\ runner'[x].epoch = runner[x].epoch
         /\ runner'[x].tries = runner[x].tries + 1
         /\ runner'[x].pc \in {"call", "settle", "fail"}
         /\ runner'[x].pc = "call" => runner[x].tries + 1 < RetryAttempts
         /\ runner'[x].pc = "settle" => calls'[runner[x].todo] > 0
         /\ \/ calls' = calls
            \/ calls' = [calls EXCEPT ![runner[x].todo] = calls[runner[x].todo] + 1]
<1>1. PICK acts \in BOOLEAN, answers \in BOOLEAN :
        /\ answers => acts
        /\ calls' = IF acts THEN [calls EXCEPT ![runner[x].todo] = @ + 1] ELSE calls
        /\ runner' = [runner EXCEPT
             ![x].tries = @ + 1,
             ![x].pc = IF answers THEN "settle"
                       ELSE IF runner[x].tries + 1 < RetryAttempts THEN "call"
                       ELSE "fail"]
  BY DEF Execution!CallTool
<1>2. /\ UNCHANGED <<storeVars, syscall, lease, faults>> /\ approval' = approval
      /\ runner[x].pc = "call"
  BY DEF Execution!CallTool, Execution!storeVars, storeVars
<1>3. /\ runner \in [Runners -> Carried] /\ calls \in [Requests -> Nat]
      /\ runner[x].tries \in Nat /\ runner[x].todo \in Requests
  BY <1>2, RunnerFacts DEF LifecycleInv, ExecInv, ExecTypes
<1>4. PICK pc \in {"call", "settle", "fail"} :
        /\ runner' = [runner EXCEPT ![x].tries = @ + 1, ![x].pc = pc]
        /\ pc = "call" => runner[x].tries + 1 < RetryAttempts
        /\ pc = "settle" => acts
  BY <1>1
<1>5. /\ OthersStay(x) /\ runner'[x].op = runner[x].op
      /\ runner'[x].todo = runner[x].todo /\ runner'[x].epoch = runner[x].epoch
      /\ runner'[x].tries = runner[x].tries + 1 /\ runner'[x].pc = pc
  BY <1>3, <1>4 DEF OthersStay, Carried
<1>6. acts => calls'[runner[x].todo] > 0
  BY <1>1, <1>3
<1> QED BY <1>1, <1>2, <1>3, <1>4, <1>5, <1>6

\* One attempt: its act, if any, is counted with it.
LEMMA CallCourse ==
  ASSUME LifecycleInv, CourseInv, NEW x \in Runners, Execution!CallTool(x)
  PROVE  CourseInv'
<1>1. PICK a \in Requests : a = runner[x].todo /\ a # NoRow
  BY CallEffects, NoRowAssumption
<1>2. /\ calls \in [Requests -> Nat] /\ runner[x].tries \in Nat
      /\ faults \in FaultCounts /\ Carries(x) /\ runner[x].pc \in UnderLease
      /\ faults.overruns = 0 => HoldsLive(x) /\ Follows(x)
  BY CallEffects, RunnerFacts
  DEF LifecycleInv, ExecInv, ExecTypes, CourseInv, UnderLease, Execution!UnderLease
<1>3. /\ calls'[a] \in {calls[a], calls[a] + 1} /\ calls'[a] <= calls[a] + 1
      /\ \A b \in Requests : calls[b] > 0 => calls'[b] > 0
      /\ \A b \in Requests \ {a} : calls'[b] = calls[b]
  <2>1. CASE calls' = calls
    BY <1>2, <2>1
  <2>2. CASE calls' = [calls EXCEPT ![a] = calls[a] + 1]
    BY <1>2, <2>2
  <2> QED BY <1>1, <2>1, <2>2, CallEffects
<1>4. Carries(x)'
  BY <1>1, <1>2, CallEffects DEF Carries
<1>5. faults.overruns = 0 => HoldsLive(x)' /\ Follows(x)'
  <2>1. SUFFICES ASSUME faults.overruns = 0 PROVE HoldsLive(x)' /\ Follows(x)'
    OBVIOUS
  <2>2. HoldsLive(x)'
    BY <1>2, <2>1, CallEffects DEF HoldsLive
  <2>3. /\ runner[x].pc = "call" /\ runner'[x].todo = a /\ syscall' = syscall
        /\ runner'[x].tries = runner[x].tries + 1
        /\ runner'[x].pc \in {"call", "settle", "fail"}
    BY <1>1, CallEffects
  <2>4. syscall[a] = "executing" /\ calls[a] <= runner[x].tries /\ calls[a] \in Nat
    BY <1>1, <1>2, <2>1, <2>3 DEF Follows
  <2>5. calls'[a] <= runner[x].tries + 1
    BY <1>2, <1>3, <2>4
  <2> QED BY <2>2, <2>3, <2>4, <2>5 DEF Follows
<1>6. ASSUME NEW y \in Runners \ {x}, faults.overruns = 0, runner[y].pc \in UnderLease,
             runner[y].todo # NoRow
      PROVE  calls'[runner[y].todo] = calls[runner[y].todo]
  <2>1. runner[y].todo # a /\ runner[y].todo \in Requests
    BY <1>1, <1>2, <1>6, RunsAreApart, RunnerFacts
  <2> QED BY <1>3, <2>1
<1>7. /\ OthersStay(x) /\ UNCHANGED <<approval, syscall, lease, faults>>
  BY CallEffects
<1> QED BY <1>2, <1>3, <1>4, <1>5, <1>6, <1>7, CourseMoves

\* A runner looks, ends the operation, or gives its lease back.
LEMMA OtherCourses ==
  ASSUME LifecycleInv, CourseInv, NEW x \in Runners,
         \/ Execution!LeaseRefused(x) \/ Execution!ReadSyscall(x)
         \/ Execution!FailOperation(x) \/ Execution!InspectOperation(x)
         \/ Execution!CompleteOperation(x) \/ Execution!ReleaseLease(x)
         \/ Execution!StorageError(x)
  PROVE  CourseInv'
<1>0. /\ runner \in [Runners -> Carried] /\ faults \in FaultCounts /\ Carries(x)
      /\ faults.overruns = 0 => HoldsLive(x) /\ Follows(x)
  BY RunnerFacts DEF CourseInv
<1>1. /\ UNCHANGED <<approval, syscall, calls>>
      /\ faults' = faults \/ faults' = [faults EXCEPT !.errors = @ + 1]
  BY DEF Execution!LeaseRefused, Execution!ReadSyscall, Execution!FailOperation,
         Execution!InspectOperation, Execution!CompleteOperation, Execution!ReleaseLease,
         Execution!StorageError, Execution!Fault, Execution!storeVars
<1>2. faults' \in FaultCounts /\ faults'.overruns = faults.overruns
  BY <1>0, <1>1 DEF FaultCounts
<1>3. ASSUME runner[x].pc \in UnderLease, lease' = lease,
             NEW pc \in {"tail", "complete", "release"}, Execution!Goto(x, pc)
      PROVE  CourseInv'
  BY <1>1, <1>2, <1>3, GoingOn, MoverKeepsCourses
<1>4. ASSUME NEW ok \in BOOLEAN, Execution!Leave(x, ok)
      PROVE  OthersStay(x) /\ Carries(x)' /\ HoldsLive(x)' /\ Follows(x)'
  BY <1>4, LeaveFields, Resting DEF LifecycleInv, ExecInv
<1>5. CASE Execution!LeaseRefused(x)
  <2>1. Execution!Leave(x, TRUE) /\ lease' = lease
    BY <1>5 DEF Execution!LeaseRefused
  <2> QED BY <1>1, <1>2, <1>4, <2>1, MoverKeepsCourses
<1>6. CASE Execution!ReadSyscall(x)
  <2>1. /\ lease' = lease /\ runner[x].pc = "read" /\ runner[x].pc \in UnderLease
    BY <1>6 DEF Execution!ReadSyscall, UnderLease, Execution!UnderLease
  <2>2. CASE syscall[runner[x].todo] = "permitted" /\ Execution!Goto(x, "claim")
    <3>1. /\ OthersStay(x) /\ runner'[x].pc = "claim"
          /\ runner'[x].op = runner[x].op /\ runner'[x].todo = runner[x].todo
          /\ runner'[x].epoch = runner[x].epoch /\ runner'[x].tries = runner[x].tries
      BY <1>0, <2>2 DEF Execution!Goto, OthersStay, Carried
    <3>2. Carries(x)'
      BY <1>0, <1>1, <2>1, <3>1 DEF Carries
    <3>3. faults.overruns = 0 => HoldsLive(x)' /\ Follows(x)'
      BY <1>0, <1>1, <2>1, <2>2, <3>1 DEF HoldsLive, Follows
    <3> QED BY <1>1, <1>2, <2>1, <3>1, <3>2, <3>3, MoverKeepsCourses
  <2>3. CASE Execution!Goto(x, "tail")
    BY <1>3, <2>1, <2>3
  <2> QED BY <1>6, <2>2, <2>3 DEF Execution!ReadSyscall
<1>7. CASE \/ Execution!FailOperation(x) \/ Execution!InspectOperation(x)
           \/ Execution!CompleteOperation(x)
  <2>1. PICK pc \in {"tail", "complete", "release"} : Execution!Goto(x, pc)
    BY <1>7
    DEF Execution!FailOperation, Execution!InspectOperation, Execution!CompleteOperation
  <2>2. runner[x].pc \in UnderLease /\ lease' = lease
    BY <1>7
    DEF Execution!FailOperation, Execution!InspectOperation, Execution!CompleteOperation,
        UnderLease, Execution!UnderLease
  <2> QED BY <1>3, <2>1, <2>2
<1>8. CASE Execution!ReleaseLease(x)
  <2>1. /\ runner[x].pc \in UnderLease
        /\ \E ok \in BOOLEAN : Execution!Leave(x, ok)
        /\ \/ lease' = lease
           \/ lease' = [lease EXCEPT ![runner[x].op] = Execution!NoLease]
    BY <1>8 DEF Execution!ReleaseLease, UnderLease, Execution!UnderLease
  <2>2. lease \in [Requests -> Execution!Leases]
    BY DEF LifecycleInv, ExecInv, ExecTypes
  <2>3. ASSUME NEW y \in Runners \ {x}, faults.overruns = 0, runner[y].pc \in UnderLease
        PROVE  lease'[runner[y].op] = lease[runner[y].op]
    <3>1. runner[y].op # runner[x].op /\ runner[y].op \in Requests
      BY <2>1, <2>3, RunsAreApart, RunnerFacts
    <3> QED BY <2>1, <2>2, <3>1
  <2> QED BY <1>1, <1>2, <1>4, <2>1, <2>3, CourseMoves
<1>9. CASE Execution!StorageError(x)
  <2>1. lease' = lease
    BY <1>9 DEF Execution!StorageError
  <2>2. CASE runner[x].pc \in UnderLease /\ Execution!Goto(x, "release")
    BY <1>3, <2>1, <2>2
  <2>3. CASE Execution!Leave(x, FALSE)
    BY <1>1, <1>2, <1>4, <2>1, <2>3, MoverKeepsCourses
  <2> QED BY <1>9, <2>2, <2>3 DEF Execution!StorageError, UnderLease
<1> QED BY <1>5, <1>6, <1>7, <1>8, <1>9

\* What happens around the runners; a run that outlives its lease is counted.
LEMMA SurroundingCourses ==
  ASSUME LifecycleInv, CourseInv,
         \/ \E d \in Decisions : Execution!DropConnection(d)
         \/ Execution!Crash
         \/ \E o \in Requests : Execution!ExpireLease(o) \/ Execution!Cancel(o)
  PROVE  CourseInv'
<1>0. /\ runner \in [Runners -> Carried] /\ faults \in FaultCounts
      /\ \A x \in Runners : Carries(x)
      /\ faults.overruns = 0 => \A x \in Runners : HoldsLive(x) /\ Follows(x)
      /\ lease \in [Requests -> Execution!Leases]
  BY DEF CourseInv, LifecycleInv, ExecInv, ExecTypes
<1>1. /\ Execution!IdleRunner.pc = "idle" /\ Execution!IdleRunner.todo = NoRow
      /\ Execution!DoneRunner.pc = "done" /\ Execution!DoneRunner.todo = NoRow
  BY DEF Execution!IdleRunner, Execution!DoneRunner
<1>2. Execution!Fault => faults' \in FaultCounts /\ faults'.overruns = faults.overruns
  BY <1>0 DEF Execution!Fault, FaultCounts
<1>3. ASSUME NEW d \in Decisions, Execution!DropConnection(d)
      PROVE  CourseInv'
  <2>1. /\ runner' = [runner EXCEPT ![d] = Execution!DoneRunner] /\ Execution!Fault
        /\ UNCHANGED <<approval, syscall, lease, calls>> /\ d \in Runners
    BY <1>3
    DEF Execution!DropConnection, Execution!storeVars, Runners, Execution!Runners
  <2>2. OthersStay(d) /\ runner'[d] = Execution!DoneRunner
    BY <1>0, <2>1 DEF OthersStay
  <2>3. Carries(d)' /\ HoldsLive(d)' /\ Follows(d)'
    BY <1>1, <2>1, <2>2, Resting
  <2> QED BY <1>2, <2>1, <2>2, <2>3, MoverKeepsCourses
<1>4. CASE Execution!Crash
  <2>1. /\ UNCHANGED <<approval, syscall, lease, calls>> /\ Execution!Fault
        /\ runner' = [x \in Runners |->
             IF x = Recovery THEN Execution!IdleRunner
             ELSE IF runner[x].pc = "idle" THEN runner[x]
             ELSE Execution!DoneRunner]
    BY <1>4 DEF Execution!Crash, Execution!storeVars, Runners
  <2>2. ASSUME NEW x \in Runners
        PROVE  Carries(x)' /\ (faults.overruns = 0 => HoldsLive(x)' /\ Follows(x)')
    <3>1. runner'[x] \in {Execution!IdleRunner, runner[x], Execution!DoneRunner}
      BY <2>1
    <3>2. CASE runner'[x] \in {Execution!IdleRunner, Execution!DoneRunner}
      BY <1>1, <3>2, Resting
    <3>3. CASE runner'[x] = runner[x]
      BY <1>0, <2>1, <3>3 DEF Carries, HoldsLive, Follows
    <3> QED BY <3>1, <3>2, <3>3
  <2> QED BY <1>2, <2>1, <2>2 DEF CourseInv
<1>5. ASSUME NEW o \in Requests, Execution!ExpireLease(o)
      PROVE  CourseInv'
  <2>1. /\ lease' = [lease EXCEPT ![o].live = FALSE]
        /\ UNCHANGED <<approval, syscall, runner, calls>>
    BY <1>5 DEF Execution!ExpireLease, Execution!storeVars
  <2>2. \A x \in Runners : Carries(x)'
    BY <1>0, <2>1 DEF Carries
  <2>3. CASE \E x \in Runners : Execution!Holds(x, o)
    <3>1. faults' = [faults EXCEPT !.overruns = @ + 1]
      BY <1>5, <2>3 DEF Execution!ExpireLease, Runners
    <3>2. faults' \in FaultCounts /\ faults'.overruns = faults.overruns + 1
          /\ faults.overruns \in Nat
      BY <1>0, <3>1 DEF FaultCounts
    <3>3. faults'.overruns # 0
      BY <3>2
    <3> QED BY <2>2, <3>2, <3>3 DEF CourseInv
  <2>4. CASE ~\E x \in Runners : Execution!Holds(x, o)
    <3>1. faults' = faults
      BY <1>5, <2>4 DEF Execution!ExpireLease, Runners
    <3>2. ASSUME NEW y \in Runners, faults.overruns = 0 PROVE HoldsLive(y)' /\ Follows(y)'
      <4>1. runner[y].pc \in UnderLease => runner[y].op # o /\ runner[y].op \in Requests
        BY <1>0, <2>4, <3>2, RunnerFacts DEF HoldsLive, Execution!Holds, UnderLease
      <4>2. runner[y].pc \in UnderLease => lease'[runner[y].op] = lease[runner[y].op]
        BY <1>0, <2>1, <4>1
      <4>3. HoldsLive(y) /\ Follows(y)
        BY <1>0, <3>2
      <4>4. HoldsLive(y)'
        BY <2>1, <4>2, <4>3 DEF HoldsLive
      <4>5. Follows(y)'
        BY <2>1, <4>3 DEF Follows
      <4> QED BY <4>4, <4>5
    <3> QED BY <1>0, <2>2, <3>1, <3>2 DEF CourseInv
  <2> QED BY <2>3, <2>4
<1>6. ASSUME NEW o \in Requests, Execution!Cancel(o)
      PROVE  CourseInv'
  <2>1. UNCHANGED <<approval, syscall, runner, lease, calls, faults>>
    BY <1>6 DEF Execution!Cancel, Execution!CancelOperation, Execution!execVars
  <2> QED BY <1>0, <2>1 DEF CourseInv, Carries, HoldsLive, Follows
<1> QED BY <1>3, <1>4, <1>5, <1>6

\* Intake inserts pending items and touches no other.
LEMMA IntakeItems ==
  ASSUME LifecycleInv, IntakeStep
  PROVE  \A a \in Requests :
           /\ approval[a].op # NoRow => approval'[a] = approval[a]
           /\ approval'[a] = approval[a] \/ approval'[a].status = "pending"
<1>1. Part!Next /\ approval \in [Requests -> ApprovalRows]
  BY SameStep, IntakeTypes DEF IntakeStep, LifecycleInv, IntakeInv, GateInv
<1>2. ASSUME NEW r \in Requests, Part!CreateApprovalItem(r), NEW a \in Requests
      PROVE  approval'[a] = approval[a] \/ approval'[a].status = "pending"
  BY <1>1, <1>2 DEF Part!CreateApprovalItem
<1>3. ASSUME NEW r \in Requests, Part!Advance(r) \/ Part!AbortSubmit(r)
      PROVE  Part!CreateApprovalItem(r) \/ approval' = approval
  BY <1>3
  DEF Part!Advance, Part!AbortSubmit, Part!LoadOperation, Part!PutGateDecision,
      Part!PutCompiledSlice, Part!PutAnchor, Part!PutReasoningOutput,
      Part!FinishOperation, Part!PromoteOperation, Part!storeVars
<1>4. ASSUME NEW r \in Requests, NEW k \in Keys \cup {NoKey}, NEW q \in RequestIds,
             Part!Submit(r, k, q)
      PROVE  approval' = approval
  BY <1>4
  DEF Part!Submit, Part!ReplaySubmit, Part!AcceptSubmit, Part!RejectSubmit, Part!storeVars
<1>5. ASSUME NEW o \in Requests, Part!Cancel(o) PROVE approval' = approval
  BY <1>5 DEF Part!Cancel, Part!CancelOperation
<1>6. \A a \in Requests : approval'[a] = approval[a] \/ approval'[a].status = "pending"
  BY <1>1, <1>2, <1>3, <1>4, <1>5 DEF Part!Next
<1> QED BY <1>6, IntakeMoves DEF RowsKept, RowsGrow

\* Courses go on while requests come in.
LEMMA IntakeCourse ==
  ASSUME LifecycleInv, CourseInv, IntakeStep
  PROVE  CourseInv'
<1>1. UNCHANGED <<syscall, lease, runner, calls, faults>>
  BY DEF IntakeStep, execVars
<1>2. ASSUME NEW x \in Runners PROVE Carries(x)'
  <2>1. Carries(x) /\ (runner[x].todo # NoRow => approval[runner[x].todo].op # NoRow)
    BY RunnerFacts DEF CourseInv
  <2>2. runner[x].todo # NoRow =>
          approval'[runner[x].todo].op = approval[runner[x].todo].op
    BY <2>1, RunnerFacts, IntakeItems
  <2> QED BY <1>1, <2>1, <2>2 DEF Carries
<1>3. ASSUME NEW x \in Runners, faults.overruns = 0 PROVE HoldsLive(x)' /\ Follows(x)'
  <2>1. HoldsLive(x) /\ Follows(x)
    BY <1>3 DEF CourseInv
  <2> QED BY <1>1, <2>1 DEF HoldsLive, Follows
<1> QED BY <1>1, <1>2, <1>3 DEF CourseInv

\* Every step keeps the courses.
LEMMA CoursesKept == LifecycleInv /\ CourseInv /\ [Next]_vars => CourseInv'
<1> SUFFICES ASSUME LifecycleInv, CourseInv, [Next]_vars PROVE CourseInv'
  OBVIOUS
<1>1. CASE IntakeStep
  BY <1>1, IntakeCourse
<1>2. ASSUME NEW x \in Runners, Execution!Run(x) PROVE CourseInv'
  <2>1. CASE Execution!ClaimSyscall(x) \/ Execution!SettleSyscall(x) \/ Execution!FailSyscall(x)
    BY <2>1, WriteCourse
    DEF Execution!ClaimSyscall, Execution!SettleSyscall, Execution!FailSyscall
  <2> QED BY <1>2, <2>1, AcquireCourse, CallCourse, OtherCourses DEF Execution!Run
<1>3. ASSUME NEW x \in Runners, Execution!StorageError(x) PROVE CourseInv'
  BY <1>3, OtherCourses
<1>4. ASSUME NEW d \in Decisions, NEW a \in Requests, NEW k \in Keys \cup {NoKey},
             Execution!Decide(d, a, k)
      PROVE  CourseInv'
  BY <1>4, DecisionCourse
<1>5. CASE Execution!Recover
  BY <1>5, RecoverCourse
<1>6. CASE \/ \E d \in Decisions : Execution!DropConnection(d)
           \/ Execution!Crash
           \/ \E o \in Requests : Execution!ExpireLease(o) \/ Execution!Cancel(o)
  BY <1>6, SurroundingCourses
<1>7. CASE UNCHANGED vars
  <2>1. UNCHANGED <<approval, syscall, lease, runner, calls, faults>>
    BY <1>7 DEF vars, storeVars, execVars
  <2> QED BY <2>1 DEF CourseInv, Carries, HoldsLive, Follows
<1> QED BY <1>1, <1>2, <1>3, <1>4, <1>5, <1>6, <1>7
        DEF Next, ExecutionStep, Execution!Next, Runners

\* Nobody runs at first.
LEMMA InitCourses == Init => CourseInv
<1> SUFFICES ASSUME Init PROVE CourseInv
  OBVIOUS
<1>1. /\ faults = [errors |-> 0, overruns |-> 0]
      /\ runner = [x \in Runners |-> Execution!IdleRunner]
  BY DEF Init, Execution!ExecInit, Runners
<1>2. Execution!IdleRunner.pc = "idle" /\ Execution!IdleRunner.todo = NoRow
  BY DEF Execution!IdleRunner
<1> QED BY <1>1, <1>2
        DEF CourseInv, FaultCounts, Carries, HoldsLive, Follows, UnderLease,
            Execution!UnderLease

\* Rows, runners and courses in every reachable state.
LEMMA CourseInvariance == Spec => [](LifecycleInv /\ CourseInv)
<1>1. LifecycleInv /\ CourseInv /\ [Next]_vars => LifecycleInv' /\ CourseInv'
  BY IntakeKept, ExecutionKept, StutterKept, CoursesKept DEF Next
<1> QED BY <1>1, InitLifecycle, InitCourses, PTL DEF Spec

-----------------------------------------------------------------------------
(* What ApprovedAction promises                                            *)

\* The phase an action shows.
PhaseOf(a) ==
  CASE approval[a].status = "denied" -> "denied"
    [] syscall[a] = "permitted" -> "approved"
    [] syscall[a] = "executing" -> "attempted"
    [] syscall[a] = "executed" -> "succeeded"
    [] syscall[a] = "failed" -> "failed"
    [] OTHER -> "undecided"

\* A step that changes the phase of one action alone is a move of it.
LEMMA OneMove ==
  ASSUME NEW a \in Requests, NEW from, NEW to, PhaseOf(a) = from, PhaseOf(a)' = to,
         \A b \in Requests \ {a} :
           approval'[b].status = approval[b].status /\ syscall'[b] = syscall[b],
         calls' = calls
  PROVE  Execution!Abstract!Move(a, from, to)
<1>1. \A b \in Requests \ {a} : PhaseOf(b)' = PhaseOf(b)
  BY DEF PhaseOf
<1>2. /\ Execution!Phase = [b \in Requests |-> PhaseOf(b)]
      /\ Execution!Phase' = [b \in Requests |-> PhaseOf(b)']
  BY DEF Execution!Phase, PhaseOf
<1>3. /\ Execution!Phase[a] = from
      /\ Execution!Phase' = [Execution!Phase EXCEPT ![a] = to]
  BY <1>1, <1>2
<1> QED BY <1>3 DEF Execution!Abstract!Move

\* Nothing that shows changes.
LEMMA NothingShows ==
  ASSUME UNCHANGED <<approval, syscall, calls>>
  PROVE  UNCHANGED Execution!Abstract!vars
BY DEF Execution!Abstract!vars, Execution!Phase

\* An item that is inserted shows nothing before it is decided.
LEMMA IntakeShowsNothing ==
  ASSUME LifecycleInv, IntakeStep
  PROVE  UNCHANGED Execution!Abstract!vars
<1>1. UNCHANGED <<syscall, calls>>
  BY DEF IntakeStep, execVars
<1>2. ASSUME NEW a \in Requests PROVE PhaseOf(a)' = PhaseOf(a)
  <2>1. CASE approval'[a] = approval[a]
    BY <1>1, <2>1 DEF PhaseOf
  <2>2. CASE approval'[a] # approval[a]
    <3>1. approval[a].op = NoRow /\ approval'[a].status = "pending"
      BY <2>2, IntakeItems
    <3>2. approval[a].status = "absent"
      BY <3>1 DEF LifecycleInv, IntakeInv, RowsExist
    <3> QED BY <1>1, <3>1, <3>2 DEF PhaseOf
  <2> QED BY <2>1, <2>2
<1>3. /\ Execution!Phase = [b \in Requests |-> PhaseOf(b)]
      /\ Execution!Phase' = [b \in Requests |-> PhaseOf(b)']
  BY DEF Execution!Phase, PhaseOf
<1> QED BY <1>1, <1>2, <1>3 DEF Execution!Abstract!vars

\* A status written over the claim, of a syscall in a phase.
LEMMA WriteMoves ==
  ASSUME LifecycleInv, NEW x \in Runners, NEW a \in Requests, a = runner[x].todo,
         NEW before, NEW status \in {"executing", "executed", "failed"}, NEW next,
         NEW from, NEW to,
         syscall[a] = before,
         <<before, from>> \in {<<"permitted", "approved">>, <<"executing", "attempted">>},
         <<status, to>> \in {<<"executing", "attempted">>, <<"executed", "succeeded">>,
                             <<"failed", "failed">>},
         Execution!WriteStatus(x, status, next)
  PROVE  Execution!Abstract!Move(a, from, to)
<1>1. UNCHANGED <<approval, calls>> /\ syscall' = [syscall EXCEPT ![a] = status]
  BY DEF Execution!WriteStatus, Execution!Writable, Execution!storeVars
<1>2. syscall \in [Requests -> Execution!SyscallStates] /\ approval[a].status = "consumed"
  BY DEF LifecycleInv, ExecInv, ExecTypes, RecordsInv, Permitted
<1>3. syscall'[a] = status /\ \A b \in Requests \ {a} : syscall'[b] = syscall[b]
  BY <1>1, <1>2
<1>4. PhaseOf(a) = from
  BY <1>2 DEF PhaseOf
<1>5. PhaseOf(a)' = to
  BY <1>1, <1>2, <1>3 DEF PhaseOf
<1> QED BY <1>1, <1>3, <1>4, <1>5, OneMove

\* A decision is one.
LEMMA DecisionIsAbstract ==
  ASSUME LifecycleInv, NEW d \in Decisions, NEW a \in Requests,
         NEW k \in Keys \cup {NoKey}, Execution!Decide(d, a, k)
  PROVE  Execution!Abstract!Decide(a) \/ UNCHANGED Execution!Abstract!vars
<1>0. /\ approval \in [Requests -> ApprovalRows]
      /\ syscall \in [Requests -> Execution!SyscallStates] /\ RecordsInv
  BY IntakeTypes DEF LifecycleInv, IntakeInv, GateInv, ExecInv, ExecTypes
<1>1. CASE Execution!ReplayDecision(d, a, k)
  BY <1>1, NothingShows DEF Execution!ReplayDecision, Execution!storeVars
<1>2. CASE Execution!Approve(d, a, k)
  <2>1. /\ approval[a].status = "pending" /\ syscall[a] = "absent"
        /\ approval' = [approval EXCEPT ![a].status = "consumed"]
        /\ syscall' = [syscall EXCEPT ![a] = "permitted"] /\ calls' = calls
    BY <1>2 DEF Execution!Approve, Execution!Decidable
  <2>2. /\ approval'[a].status = "consumed" /\ syscall'[a] = "permitted"
        /\ \A b \in Requests \ {a} :
             approval'[b].status = approval[b].status /\ syscall'[b] = syscall[b]
    BY <1>0, <2>1 DEF ApprovalRows
  <2>3. PhaseOf(a) = "undecided" /\ PhaseOf(a)' = "approved"
    BY <2>1, <2>2 DEF PhaseOf
  <2>4. Execution!Abstract!Move(a, "undecided", "approved")
    BY <2>1, <2>2, <2>3, OneMove
  <2> QED BY <2>4 DEF Execution!Abstract!Decide
<1>3. CASE Execution!Deny(d, a, k)
  <2>1. /\ approval[a].status = "pending" /\ syscall' = syscall /\ calls' = calls
        /\ approval' = [approval EXCEPT ![a].status = "denied"]
    BY <1>3 DEF Execution!Deny, Execution!Decidable
  <2>2. /\ approval'[a].status = "denied" /\ syscall[a] = "absent"
        /\ \A b \in Requests \ {a} :
             approval'[b].status = approval[b].status /\ syscall'[b] = syscall[b]
    BY <1>0, <2>1 DEF ApprovalRows, RecordsInv, Permitted
  <2>3. PhaseOf(a) = "undecided" /\ PhaseOf(a)' = "denied"
    BY <2>1, <2>2 DEF PhaseOf
  <2>4. Execution!Abstract!Move(a, "undecided", "denied")
    BY <2>1, <2>2, <2>3, OneMove
  <2> QED BY <2>4 DEF Execution!Abstract!Decide
<1> QED BY <1>1, <1>2, <1>3 DEF Execution!Decide

\* So is a run of the syscall, while no run has outlived its lease.
LEMMA RunIsAbstract ==
  ASSUME LifecycleInv, CourseInv, faults.overruns = 0, NEW x \in Runners,
         Execution!Run(x)
  PROVE  Execution!Abstract!Next \/ UNCHANGED Execution!Abstract!vars
<1>0. /\ Carries(x) /\ Follows(x)
      /\ syscall \in [Requests -> Execution!SyscallStates] /\ calls \in [Requests -> Nat]
  BY DEF CourseInv, LifecycleInv, ExecInv, ExecTypes
<1>1. CASE Execution!ClaimSyscall(x)
  <2>1. PICK a \in Requests : a = runner[x].todo
    BY <1>1, RunnerFacts DEF Execution!ClaimSyscall
  <2>2. syscall[a] = "permitted" /\ Execution!WriteStatus(x, "executing", "call")
    BY <1>0, <1>1, <2>1 DEF Execution!ClaimSyscall, Follows
  <2>3. Execution!Abstract!Move(a, "approved", "attempted")
    BY <2>1, <2>2, WriteMoves
  <2> QED BY <2>3 DEF Execution!Abstract!Next, Execution!Abstract!Start
<1>2. CASE Execution!SettleSyscall(x)
  <2>1. PICK a \in Requests : a = runner[x].todo
    BY <1>2, RunnerFacts DEF Execution!SettleSyscall
  <2>2. /\ syscall[a] = "executing" /\ Execution!WriteStatus(x, "executed", "tail")
        /\ calls[a] > 0
    BY <1>0, <1>2, <2>1 DEF Execution!SettleSyscall, Follows, Carries
  <2>3. Execution!Abstract!Move(a, "attempted", "succeeded")
    BY <2>1, <2>2, WriteMoves
  <2> QED BY <2>2, <2>3 DEF Execution!Abstract!Next, Execution!Abstract!Finish
<1>3. CASE Execution!FailSyscall(x)
  <2>1. PICK a \in Requests : a = runner[x].todo
    BY <1>3, RunnerFacts DEF Execution!FailSyscall
  <2>2. syscall[a] = "executing" /\ Execution!WriteStatus(x, "failed", "fail_op")
    BY <1>0, <1>3, <2>1 DEF Execution!FailSyscall, Follows
  <2>3. Execution!Abstract!Move(a, "attempted", "failed")
    BY <2>1, <2>2, WriteMoves
  <2> QED BY <2>3 DEF Execution!Abstract!Next, Execution!Abstract!Finish
<1>4. CASE Execution!CallTool(x)
  <2>1. PICK a \in Requests : a = runner[x].todo
    BY <1>4, CallEffects
  <2>2. /\ runner[x].pc = "call" /\ UNCHANGED <<approval, syscall>>
        /\ calls' = calls \/ calls' = [calls EXCEPT ![a] = calls[a] + 1]
    BY <1>4, <2>1, CallEffects
  <2>3. /\ syscall[a] = "executing" /\ calls[a] < RetryAttempts
        /\ approval[a].status = "consumed"
    <3>1. /\ syscall[a] = "executing" /\ calls[a] <= runner[x].tries
          /\ runner[x].tries < RetryAttempts
      BY <1>0, <2>1, <2>2 DEF Follows, Carries
    <3>2. calls[a] \in Nat /\ runner[x].tries \in Nat /\ RetryAttempts \in Nat
      BY <1>0, RunnerFacts, LifecycleAssumption
    <3>3. approval[a].status = "consumed"
      BY <3>1 DEF LifecycleInv, ExecInv, RecordsInv, Permitted
    <3> QED BY <3>1, <3>2, <3>3
  <2>4. CASE calls' = calls
    BY <2>2, <2>4, NothingShows
  <2>5. CASE calls' = [calls EXCEPT ![a] = calls[a] + 1]
    <3>1. Execution!Phase[a] = "attempted"
      <4>1. PhaseOf(a) = "attempted"
        BY <2>3 DEF PhaseOf
      <4> QED BY <4>1 DEF Execution!Phase, PhaseOf
    <3>2. Execution!Phase' = Execution!Phase
      BY <2>2 DEF Execution!Phase
    <3>3. Execution!Abstract!Act(a)
      BY <2>3, <2>5, <3>1, <3>2 DEF Execution!Abstract!Act
    <3> QED BY <3>3 DEF Execution!Abstract!Next
  <2> QED BY <2>2, <2>4, <2>5
<1>5. CASE \/ Execution!AcquireLease(x) \/ Execution!LeaseRefused(x)
           \/ Execution!ReadSyscall(x) \/ Execution!FailOperation(x)
           \/ Execution!InspectOperation(x) \/ Execution!CompleteOperation(x)
           \/ Execution!ReleaseLease(x)
  <2>1. UNCHANGED <<approval, syscall, calls>>
    BY <1>5
    DEF Execution!AcquireLease, Execution!LeaseRefused, Execution!ReadSyscall,
        Execution!FailOperation, Execution!InspectOperation,
        Execution!CompleteOperation, Execution!ReleaseLease, Execution!storeVars
  <2> QED BY <2>1, NothingShows
<1> QED BY <1>1, <1>2, <1>3, <1>4, <1>5 DEF Execution!Run

\* Every step of the whole system is a step of an action or a stutter.
LEMMA StepsAreAbstract ==
  LifecycleInv /\ CourseInv /\ faults.overruns = 0 /\ [Next]_vars
    => [Execution!Abstract!Next]_(Execution!Abstract!vars)
<1> SUFFICES ASSUME LifecycleInv, CourseInv, faults.overruns = 0, [Next]_vars
    PROVE  Execution!Abstract!Next \/ UNCHANGED Execution!Abstract!vars
  OBVIOUS
<1>1. CASE IntakeStep
  BY <1>1, IntakeShowsNothing
<1>2. ASSUME NEW x \in Runners, Execution!Run(x)
      PROVE  Execution!Abstract!Next \/ UNCHANGED Execution!Abstract!vars
  BY <1>2, RunIsAbstract
<1>3. ASSUME NEW d \in Decisions, NEW a \in Requests, NEW k \in Keys \cup {NoKey},
             Execution!Decide(d, a, k)
      PROVE  Execution!Abstract!Next \/ UNCHANGED Execution!Abstract!vars
  BY <1>3, DecisionIsAbstract DEF Execution!Abstract!Next
<1>4. CASE \/ Execution!Recover
           \/ \E x \in Runners : Execution!StorageError(x)
           \/ \E d \in Decisions : Execution!DropConnection(d)
           \/ Execution!Crash
           \/ \E o \in Requests : Execution!ExpireLease(o) \/ Execution!Cancel(o)
  <2>1. UNCHANGED <<approval, syscall, calls>>
    BY <1>4
    DEF Execution!Recover, Execution!ListRecoverable, Execution!PickRecoverable,
        Execution!StorageError, Execution!DropConnection, Execution!Crash,
        Execution!ExpireLease, Execution!Cancel, Execution!CancelOperation,
        Execution!execVars, Execution!storeVars
  <2> QED BY <2>1, NothingShows
<1>5. CASE UNCHANGED vars
  <2>1. UNCHANGED <<approval, syscall, calls>>
    BY <1>5 DEF vars, storeVars, execVars
  <2> QED BY <2>1, NothingShows
<1> QED BY <1>1, <1>2, <1>3, <1>4, <1>5
        DEF Next, ExecutionStep, Execution!Next, Runners

\* No item is there at first.
LEMMA InitIsAbstract == Init => Execution!Abstract!Init
BY DEF Init, Execution!ExecInit, Execution!Abstract!Init, Execution!Phase, Intake!Init,
       Intake!NoApproval

\* From the first POST to the recorded result, with retried requests, decisions,
\* cancellations, recovery and crashes interleaved: as long as no run outlives
\* its lease, each side effect shows what ApprovedAction promises.
THEOREM LifecycleRefinesApprovedAction ==
  Spec /\ [](faults.overruns = 0) => ImplementsApprovedAction
BY CourseInvariance, InitIsAbstract, StepsAreAbstract, PTL
DEF Spec, ImplementsApprovedAction, Execution!ImplementsApprovedAction,
    Execution!Abstract!Spec

=============================================================================
