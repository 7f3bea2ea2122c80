------------------------- MODULE RequestIntakeProofs -------------------------
(***************************************************************************)
(* For every set of invocations, keys and request ids: the types, one      *)
(* approval item per operation, one operation per request id, one answer   *)
(* per key, and no outcome without its trace.  What a step keeps is stated *)
(* as lemmas of their own, for the proofs about the life cycle.            *)
(***************************************************************************)
EXTENDS RequestIntake, TLAPS

\* One transaction that moves an operation keeps the types of the rows.
LEMMA RecordStateType ==
  ASSUME StoreTypeOK, NEW o, NEW s \in OperationStates, RecordState(o, s),
         UNCHANGED <<anchors, approval>>
  PROVE  StoreTypeOK'
<1>1. o \in Requests => operation[o] \in OperationStates
  BY DEF StoreTypeOK
<1>2. operation' \in [Requests -> OperationStates]
  BY DEF StoreTypeOK, RecordState
<1>3. transitions' \in [Requests -> SUBSET (OperationStates \X OperationStates)]
  <2>1. o \in Requests =>
          transitions[o] \cup {<<operation[o], s>>}
            \in SUBSET (OperationStates \X OperationStates)
    BY <1>1 DEF StoreTypeOK
  <2> QED BY <2>1, Zenon DEF StoreTypeOK, RecordState
<1> QED BY <1>2, <1>3 DEF StoreTypeOK

\* A handler that only moves on keeps the types.
LEMMA GotoType ==
  ASSUME submit \in [Requests -> SubmitStates], NEW r \in Requests,
         NEW pc \in {"idle"} \cup Active \cup Answered, Goto(r, pc)
  PROVE  submit' \in [Requests -> SubmitStates]
BY DEF SubmitStates, Goto

\* A handler that starts on an operation keeps the types.
LEMMA StartType ==
  ASSUME submit \in [Requests -> SubmitStates], NEW r \in Requests,
         NEW o \in Requests \cup {NoRow}, NEW k \in Keys \cup {NoKey},
         NEW q \in RequestIds, NEW pc \in {"load", "rejected"},
         submit' = [submit EXCEPT ![r] =
           [NotSubmitted EXCEPT !.pc = pc, !.op = o, !.key = k, !.id = q]]
  PROVE  submit' \in [Requests -> SubmitStates]
BY DEF SubmitStates, NotSubmitted, Active, Answered

\* Whatever an invocation does, the rows, handlers and counters keep their types.
LEMMA TypesStay == IntakeTypeOK /\ [Next]_vars => IntakeTypeOK'
<1> SUFFICES ASSUME IntakeTypeOK, [Next]_vars PROVE IntakeTypeOK'
  OBVIOUS
<1> USE DEF IntakeTypeOK
<1>1. ASSUME NEW r \in Requests, NEW k \in Keys \cup {NoKey},
             NEW q \in RequestIds, ReplaySubmit(r, k, q)
      PROVE  IntakeTypeOK'
  <2>1. Stored(k) \in Requests \cup {NoRow}
    BY DEF Stored
  <2>2. submit' \in [Requests -> SubmitStates]
    BY <1>1, <2>1, StartType DEF ReplaySubmit
  <2> QED BY <1>1, <2>2 DEF ReplaySubmit, StoreTypeOK, storeVars
<1>2. ASSUME NEW r \in Requests, NEW k \in Keys \cup {NoKey},
             NEW q \in RequestIds, AcceptSubmit(r, k, q)
      PROVE  IntakeTypeOK'
  <2>1. submit' \in [Requests -> SubmitStates]
    BY <1>2, StartType DEF AcceptSubmit
  <2>2. StoreTypeOK'
    BY <1>2, RecordStateType DEF AcceptSubmit, OperationStates
  <2>3. idempotency' \in [Keys -> Requests \cup {NoRow}]
    BY <1>2 DEF AcceptSubmit, StoreResponse
  <2> QED BY <1>2, <2>1, <2>2, <2>3 DEF AcceptSubmit
<1>3. ASSUME NEW r \in Requests, NEW k \in Keys \cup {NoKey},
             NEW q \in RequestIds, RejectSubmit(r, k, q)
      PROVE  IntakeTypeOK'
  <2>1. submit' \in [Requests -> SubmitStates]
    BY <1>3 DEF RejectSubmit, SubmitStates, NotSubmitted, Answered
  <2> QED BY <1>3, <2>1 DEF RejectSubmit, StoreTypeOK, storeVars
<1>4. ASSUME NEW r \in Requests, LoadOperation(r) PROVE IntakeTypeOK'
  <2>1. submit' \in [Requests -> SubmitStates]
    BY <1>4 DEF LoadOperation, Goto, SubmitStates, Active, Answered
  <2> QED BY <1>4, <2>1 DEF LoadOperation, StoreTypeOK, storeVars
<1>5. ASSUME NEW r \in Requests, NEW a \in Anchors,
             NEW next \in AfterGate, PutAnchor(r, a, next)
      PROVE  IntakeTypeOK'
  <2>1. submit' \in [Requests -> SubmitStates]
    BY <1>5, GotoType DEF PutAnchor, Active, Answered
  <2>2. anchors' \in [Requests -> SUBSET Anchors]
    BY <1>5 DEF PutAnchor, StoreTypeOK
  <2> QED BY <1>5, <2>1, <2>2 DEF PutAnchor, StoreTypeOK
<1>6. ASSUME NEW r \in Requests, PutReasoningOutput(r) PROVE IntakeTypeOK'
  <2>1. submit' \in [Requests -> SubmitStates]
    BY <1>6, GotoType DEF PutReasoningOutput, Active, AfterGate
  <2>2. anchors' \in [Requests -> SUBSET Anchors]
    BY <1>6 DEF PutReasoningOutput, StoreTypeOK, Anchors
  <2> QED BY <1>6, <2>1, <2>2 DEF PutReasoningOutput, StoreTypeOK
<1>7. ASSUME NEW r \in Requests, FinishOperation(r) PROVE IntakeTypeOK'
  <2>1. submit' \in [Requests -> SubmitStates]
    BY <1>7, GotoType DEF FinishOperation, Answered
  <2>2. StoreTypeOK'
    BY <1>7, RecordStateType
    DEF FinishOperation, UpdateOperationState, OperationStates, TerminalStates
  <2> QED BY <1>7, <2>1, <2>2 DEF FinishOperation
<1>8. ASSUME NEW r \in Requests, CreateApprovalItem(r) PROVE IntakeTypeOK'
  <2>1. submit' \in [Requests -> SubmitStates]
    BY <1>8, GotoType DEF CreateApprovalItem, Active, AfterGate
  <2>2. submit[r].op \in Requests \cup {NoRow}
    BY DEF SubmitStates
  <2>3. approval' \in [Requests -> ApprovalRows]
    BY <1>8, <2>2 DEF CreateApprovalItem, StoreTypeOK, ApprovalRows
  <2> QED BY <1>8, <2>1, <2>3 DEF CreateApprovalItem, StoreTypeOK
<1>9. ASSUME NEW r \in Requests, PromoteOperation(r) PROVE IntakeTypeOK'
  <2>1. submit' \in [Requests -> SubmitStates]
    BY <1>9, GotoType DEF PromoteOperation, Answered
  <2>2. StoreTypeOK'
    BY <1>9, RecordStateType
    DEF PromoteOperation, UpdateOperationState, OperationStates
  <2> QED BY <1>9, <2>1, <2>2 DEF PromoteOperation
<1>10. ASSUME NEW r \in Requests, AbortSubmit(r) PROVE IntakeTypeOK'
  <2>1. submit' \in [Requests -> SubmitStates]
    BY <1>10, GotoType DEF AbortSubmit, Answered
  <2>2. aborts' \in 0 .. MaxAborts
    BY <1>10, IntakeAssumption DEF AbortSubmit
  <2> QED BY <1>10, <2>1, <2>2 DEF AbortSubmit, StoreTypeOK, storeVars
<1>11. ASSUME NEW r \in Requests, Cancel(r) PROVE IntakeTypeOK'
  <2>1. StoreTypeOK'
    BY <1>11, RecordStateType
    DEF Cancel, CancelOperation, OperationStates, TerminalStates
  <2> QED BY <1>11, <2>1 DEF Cancel, intakeVars
<1>12. CASE UNCHANGED vars
  BY <1>12 DEF vars, storeVars, intakeVars, StoreTypeOK
<1> QED
  <2> USE DEF AfterGate, Anchors
  <2> QED
    BY <1>1, <1>2, <1>3, <1>4, <1>5, <1>6, <1>7, <1>8, <1>9, <1>10, <1>11, <1>12
    DEF Next, Submit, Advance, PutGateDecision, PutCompiledSlice

\* The rows, handlers and counters keep their types.
THEOREM TypeCorrect == Spec => []IntakeTypeOK
<1>1. Init => IntakeTypeOK
  BY IntakeAssumption
  DEF Init, IntakeTypeOK, StoreTypeOK, ApprovalRows, NoApproval, SubmitStates,
      NotSubmitted, OperationStates
<1> QED BY <1>1, TypesStay, PTL DEF Spec

-----------------------------------------------------------------------------

\* A step that takes one handler out of the way, or to a point before the
\* gate, and writes neither an anchor nor an item.
LEMMA SteppingBack ==
  ASSUME IntakeTypeOK, GateAdmitsOne, NEW r \in Requests,
         \A s \in Requests \ {r} : submit'[s] = submit[s],
         submit'[r].pc \in {"load", "gate", "rejected", "accepted", "conflict",
                           "aborted"},
         submit'[r].pc \in Active => submit'[r].op \in Requests,
         approval[r].op # NoRow => submit'[r].pc \in {"accepted", "aborted"},
         UNCHANGED <<anchors, approval>>
  PROVE  GateAdmitsOne'
<1> SUFFICES ASSUME NEW s \in Requests PROVE GateAdmitsOne!(s)'
  BY DEF GateAdmitsOne
<1>1. CASE s = r
  BY <1>1 DEF GateAdmitsOne, AfterGate
<1>2. CASE s # r
  BY <1>2 DEF GateAdmitsOne, AfterGate
<1> QED BY <1>1, <1>2

\* A handler past the gate goes to its next step there; anchors only grow.
LEMMA SteppingOn ==
  ASSUME IntakeTypeOK, GateAdmitsOne, NEW r \in Requests,
         NEW next \in AfterGate, Goto(r, next),
         submit[r].pc \in AfterGate \ {"promote"},
         \A o \in Requests : anchors[o] \subseteq anchors'[o],
         UNCHANGED approval
  PROVE  GateAdmitsOne'
<1>1. \A s \in Requests : submit'[s].op = submit[s].op
  BY DEF Goto, IntakeTypeOK, SubmitStates
<1>2. \A s \in Requests \ {r} : submit'[s] = submit[s]
  BY DEF Goto, IntakeTypeOK
<1>3. submit'[r].pc = next /\ submit[r].pc \in Active
  BY DEF Goto, IntakeTypeOK, SubmitStates, Active
<1>4. \A s \in Requests : submit'[s].pc \in AfterGate <=> submit[s].pc \in AfterGate
  BY <1>2, <1>3
<1>5. approval[r].op = NoRow
  BY DEF GateAdmitsOne, AfterGate
<1>6. \A s \in Requests : approval[s].op \in Requests \cup {NoRow}
  BY DEF IntakeTypeOK, StoreTypeOK, ApprovalRows
<1>7. \A s \in Requests : submit[s].pc \in AfterGate => submit[s].op \in Requests
  BY DEF GateAdmitsOne, Active
<1> SUFFICES ASSUME NEW s \in Requests PROVE GateAdmitsOne!(s)'
  BY DEF GateAdmitsOne
<1>8. (submit[s].pc \in Active => submit[s].op \in Requests)'
  BY <1>1, <1>2, <1>3 DEF GateAdmitsOne
<1>9. submit'[s].pc \in AfterGate =>
        /\ "gate" \in anchors'[submit'[s].op]
        /\ \A t \in Requests :
             submit'[t].pc \in AfterGate /\ submit'[t].op = submit'[s].op => t = s
  BY <1>1, <1>4, <1>7 DEF GateAdmitsOne
<1>10. approval'[s].op # NoRow =>
        /\ "gate" \in anchors'[approval'[s].op]
        /\ submit'[s].pc \in {"promote", "accepted", "aborted"}
        /\ \A t \in Requests :
             submit'[t].pc \in AfterGate /\ submit'[t].op = approval'[s].op => t = s
  BY <1>1, <1>2, <1>4, <1>5, <1>6 DEF GateAdmitsOne
<1> QED BY <1>8, <1>9, <1>10

\* Each step keeps the gate: who is past it is alone there with its operation.
LEMMA GateStays == IntakeTypeOK /\ GateAdmitsOne /\ [Next]_vars => GateAdmitsOne'
<1> SUFFICES ASSUME IntakeTypeOK, GateAdmitsOne, [Next]_vars
             PROVE  GateAdmitsOne'
  OBVIOUS
<1>1. ASSUME NEW r \in Requests, NEW k \in Keys \cup {NoKey},
             NEW q \in RequestIds, Submit(r, k, q)
      PROVE  GateAdmitsOne'
  <2>1. submit[r].pc = "idle" /\ approval[r].op = NoRow
    BY <1>1 DEF Submit, ReplaySubmit, AcceptSubmit, RejectSubmit, GateAdmitsOne
  <2>2. Stored(k) \in Requests \cup {NoRow}
    BY DEF Stored, IntakeTypeOK
  <2>3. \A s \in Requests \ {r} : submit'[s] = submit[s]
    BY <1>1 DEF Submit, ReplaySubmit, AcceptSubmit, RejectSubmit, IntakeTypeOK
  <2>4. submit'[r].pc \in {"load", "rejected"}
    BY <1>1
    DEF Submit, ReplaySubmit, AcceptSubmit, RejectSubmit, IntakeTypeOK, NotSubmitted
  <2>5. submit'[r].pc \in Active => submit'[r].op \in Requests
    BY <1>1, <2>2
    DEF Submit, ReplaySubmit, AcceptSubmit, RejectSubmit, IntakeTypeOK,
        NotSubmitted, Active, AfterGate
  <2>6. UNCHANGED <<anchors, approval>>
    BY <1>1 DEF Submit, ReplaySubmit, AcceptSubmit, RejectSubmit, storeVars
  <2> QED BY <2>1, <2>3, <2>4, <2>5, <2>6, SteppingBack
<1>2. ASSUME NEW r \in Requests, LoadOperation(r) PROVE GateAdmitsOne'
  <2>1. approval[r].op = NoRow /\ submit[r].op \in Requests
    BY <1>2 DEF LoadOperation, GateAdmitsOne, Active
  <2>2. submit'[r].pc \in {"accepted", "gate"} /\ submit'[r].op = submit[r].op
    BY <1>2 DEF LoadOperation, Goto, IntakeTypeOK, SubmitStates
  <2>3. \A s \in Requests \ {r} : submit'[s] = submit[s]
    BY <1>2 DEF LoadOperation, Goto, IntakeTypeOK
  <2> QED BY <1>2, <2>1, <2>2, <2>3, SteppingBack DEF LoadOperation, storeVars
<1>3. ASSUME NEW r \in Requests, PutGateDecision(r) PROVE GateAdmitsOne'
  <2> DEFINE o == submit[r].op
  <2>1. o \in Requests /\ approval[r].op = NoRow /\ submit[r].pc = "gate"
    BY <1>3 DEF PutGateDecision, GateAdmitsOne, Active
  <2>2. \A s \in Requests \ {r} : submit'[s] = submit[s]
    BY <1>3 DEF PutGateDecision, PutAnchor, Goto, IntakeTypeOK
  <2>3. CASE AnchorFree(o, "gate")
    <3>1. /\ submit'[r].pc = "slice" /\ submit'[r].op = o
          /\ anchors' = [anchors EXCEPT ![o] = @ \cup {"gate"}]
          /\ UNCHANGED approval
      BY <1>3, <2>3
      DEF PutGateDecision, PutAnchor, Goto, IntakeTypeOK, SubmitStates
    <3>2. anchors'[o] = anchors[o] \cup {"gate"}
          /\ \A p \in Requests \ {o} : anchors'[p] = anchors[p]
      BY <2>1, <3>1 DEF IntakeTypeOK, StoreTypeOK
    <3>3. \A s \in Requests :
            /\ submit[s].pc \in AfterGate => submit[s].op # o
            /\ approval[s].op # o
      BY <2>1, <2>3, NoRowAssumption DEF AnchorFree, GateAdmitsOne
    <3>4. \A s \in Requests : approval[s].op \in Requests \cup {NoRow}
      BY DEF IntakeTypeOK, StoreTypeOK, ApprovalRows
    <3>5. \A s \in Requests : submit[s].pc \in AfterGate => submit[s].op \in Requests
      BY DEF GateAdmitsOne, Active
    <3>6. "slice" \in AfterGate /\ "gate" \notin AfterGate
      BY DEF AfterGate
    <3> SUFFICES ASSUME NEW s \in Requests PROVE GateAdmitsOne!(s)'
      BY DEF GateAdmitsOne
    <3>7. CASE s = r
      BY <3>7, <2>1, <2>2, <3>1, <3>2, <3>3, <3>6
    <3>8. CASE s # r
      <4>1. (submit[s].pc \in Active => submit[s].op \in Requests)'
        BY <3>8, <2>2 DEF GateAdmitsOne
      <4>2. submit'[s].pc \in AfterGate =>
              /\ "gate" \in anchors'[submit'[s].op]
              /\ \A t \in Requests :
                   submit'[t].pc \in AfterGate /\ submit'[t].op = submit'[s].op
                   => t = s
        BY <3>8, <2>2, <3>1, <3>2, <3>3, <3>5 DEF GateAdmitsOne
      <4>3. approval'[s].op # NoRow =>
              /\ "gate" \in anchors'[approval'[s].op]
              /\ submit'[s].pc \in {"promote", "accepted", "aborted"}
              /\ \A t \in Requests :
                   submit'[t].pc \in AfterGate /\ submit'[t].op = approval'[s].op
                   => t = s
        BY <3>8, <2>2, <3>1, <3>2, <3>3, <3>4 DEF GateAdmitsOne
      <4> QED BY <4>1, <4>2, <4>3
    <3> QED BY <3>7, <3>8
  <2>4. CASE ~AnchorFree(o, "gate")
    <3>1. /\ submit'[r].pc = "conflict" /\ UNCHANGED <<anchors, approval>>
      BY <1>3, <2>4 DEF PutGateDecision, PutAnchor, Goto, IntakeTypeOK, SubmitStates
    <3> QED BY <2>1, <2>2, <3>1, SteppingBack DEF Active, AfterGate
  <2> QED BY <2>3, <2>4
<1>4. ASSUME NEW r \in Requests, PutCompiledSlice(r) PROVE GateAdmitsOne'
  <2>1. approval[r].op = NoRow /\ submit[r].op \in Requests
    BY <1>4 DEF PutCompiledSlice, GateAdmitsOne, Active, AfterGate
  <2>2. CASE AnchorFree(submit[r].op, "slice")
    <3>1. \A o \in Requests : anchors[o] \subseteq anchors'[o]
      BY <1>4, <2>2 DEF PutCompiledSlice, PutAnchor, IntakeTypeOK, StoreTypeOK
    <3> QED BY <1>4, <2>2, <3>1, SteppingOn DEF PutCompiledSlice, PutAnchor, AfterGate
  <2>3. CASE ~AnchorFree(submit[r].op, "slice")
    <3>1. /\ submit'[r].pc = "conflict" /\ UNCHANGED <<anchors, approval>>
          /\ \A s \in Requests \ {r} : submit'[s] = submit[s]
      BY <1>4, <2>3 DEF PutCompiledSlice, PutAnchor, Goto, IntakeTypeOK, SubmitStates
    <3> QED BY <2>1, <3>1, SteppingBack DEF Active, AfterGate
  <2> QED BY <2>2, <2>3
<1>5. ASSUME NEW r \in Requests, PutReasoningOutput(r) PROVE GateAdmitsOne'
  <2>1. \A o \in Requests : anchors[o] \subseteq anchors'[o]
    BY <1>5 DEF PutReasoningOutput, IntakeTypeOK, StoreTypeOK
  <2> QED BY <1>5, <2>1, SteppingOn DEF PutReasoningOutput, AfterGate
<1>6. ASSUME NEW r \in Requests,
             FinishOperation(r) \/ PromoteOperation(r) \/ AbortSubmit(r)
      PROVE  GateAdmitsOne'
  <2>1. submit'[r].pc \in {"accepted", "aborted"}
    BY <1>6
    DEF FinishOperation, PromoteOperation, AbortSubmit, Goto, IntakeTypeOK, SubmitStates
  <2>2. \A s \in Requests \ {r} : submit'[s] = submit[s]
    BY <1>6
    DEF FinishOperation, PromoteOperation, AbortSubmit, Goto, IntakeTypeOK
  <2>3. UNCHANGED <<anchors, approval>>
    BY <1>6 DEF FinishOperation, PromoteOperation, AbortSubmit, storeVars
  <2> QED BY <2>1, <2>2, <2>3, SteppingBack DEF Active, AfterGate
<1>7. ASSUME NEW r \in Requests, CreateApprovalItem(r) PROVE GateAdmitsOne'
  <2> DEFINE o == submit[r].op
  <2>1. /\ submit[r].pc \in AfterGate /\ o \in Requests /\ "gate" \in anchors[o]
        /\ approval[r].op = NoRow /\ o # NoRow
    BY <1>7, NoRowAssumption DEF CreateApprovalItem, GateAdmitsOne, Active, AfterGate
  <2>2. /\ submit'[r].pc = "promote" /\ submit'[r].op = o
        /\ \A s \in Requests \ {r} : submit'[s] = submit[s]
    BY <1>7 DEF CreateApprovalItem, Goto, IntakeTypeOK, SubmitStates
  <2>3. /\ approval'[r].op = o /\ UNCHANGED anchors
        /\ \A s \in Requests \ {r} : approval'[s] = approval[s]
    BY <1>7 DEF CreateApprovalItem, IntakeTypeOK, StoreTypeOK, ApprovalRows
  <2>4. \A s \in Requests :
          submit[s].pc \in AfterGate /\ submit[s].op = o => s = r
    BY <2>1 DEF GateAdmitsOne
  <2>5. "promote" \in AfterGate
    BY DEF AfterGate
  <2> SUFFICES ASSUME NEW s \in Requests PROVE GateAdmitsOne!(s)'
    BY DEF GateAdmitsOne
  <2>6. CASE s = r
    BY <2>6, <2>1, <2>2, <2>3, <2>4, <2>5
  <2>7. CASE s # r
    <3>1. (submit[s].pc \in Active => submit[s].op \in Requests)'
      BY <2>7, <2>2 DEF GateAdmitsOne
    <3>2. submit'[s].pc \in AfterGate =>
            /\ "gate" \in anchors'[submit'[s].op]
            /\ \A t \in Requests :
                 submit'[t].pc \in AfterGate /\ submit'[t].op = submit'[s].op
                 => t = s
      BY <2>7, <2>1, <2>2, <2>3, <2>4 DEF GateAdmitsOne
    <3>3. approval'[s].op # NoRow =>
            /\ "gate" \in anchors'[approval'[s].op]
            /\ submit'[s].pc \in {"promote", "accepted", "aborted"}
            /\ \A t \in Requests :
                 submit'[t].pc \in AfterGate /\ submit'[t].op = approval'[s].op
                 => t = s
      BY <2>7, <2>1, <2>2, <2>3 DEF GateAdmitsOne
    <3> QED BY <3>1, <3>2, <3>3
  <2> QED BY <2>6, <2>7
<1>8. ASSUME UNCHANGED <<submit, anchors, approval>> PROVE GateAdmitsOne'
  BY <1>8 DEF GateAdmitsOne
<1>9. ASSUME NEW r \in Requests, Cancel(r) PROVE GateAdmitsOne'
  BY <1>9, <1>8 DEF Cancel, CancelOperation, intakeVars
<1>10. CASE UNCHANGED vars
  BY <1>10, <1>8 DEF vars, storeVars, intakeVars
<1> QED
  BY <1>1, <1>2, <1>3, <1>4, <1>5, <1>6, <1>7, <1>9, <1>10 DEF Next, Advance

\* The UNIQUE gate row admits one invocation per operation, at every step of
\* every interleaving (GateAdmitsOne is its own inductive strengthening).
THEOREM GateCorrect == Spec => []GateAdmitsOne
<1>1. Init => GateAdmitsOne
  BY DEF Init, GateAdmitsOne, NotSubmitted, NoApproval, Active, AfterGate
<1> QED BY <1>1, GateStays, TypeCorrect, PTL DEF Spec

\* Who inserts an item is past the gate, so no earlier item is there.
LEMMA ItemsStaySingle ==
  IntakeTypeOK /\ GateAdmitsOne /\ OneApprovalPerOperation /\ [Next]_vars
  => OneApprovalPerOperation'
<1> SUFFICES ASSUME IntakeTypeOK, GateAdmitsOne, OneApprovalPerOperation,
                    [Next]_vars
             PROVE  OneApprovalPerOperation'
  OBVIOUS
<1>1. ASSUME NEW r \in Requests, CreateApprovalItem(r)
      PROVE  OneApprovalPerOperation'
  <2>1. /\ approval'[r].op = submit[r].op
        /\ \A s \in Requests \ {r} : approval'[s] = approval[s]
    BY <1>1 DEF CreateApprovalItem, IntakeTypeOK, StoreTypeOK, ApprovalRows
  <2>2. submit[r].pc = "finish" /\ submit[r].pc \in AfterGate
    BY <1>1 DEF CreateApprovalItem, AfterGate
  <2>3. \A s \in Requests \ {r} :
          approval[s].op # NoRow => approval[s].op # submit[r].op
    BY <2>2 DEF GateAdmitsOne
  <2> QED BY <2>1, <2>3 DEF OneApprovalPerOperation
<1>2. ASSUME UNCHANGED approval PROVE OneApprovalPerOperation'
  BY <1>2 DEF OneApprovalPerOperation
<1>3. CASE UNCHANGED vars
  BY <1>3, <1>2 DEF vars, storeVars
<1>4. CASE Next
  <2>1. UNCHANGED approval \/ \E r \in Requests : CreateApprovalItem(r)
    BY <1>4
    DEF Next, Submit, ReplaySubmit, AcceptSubmit, RejectSubmit, Advance,
        LoadOperation, PutGateDecision, PutCompiledSlice, PutAnchor,
        PutReasoningOutput, FinishOperation, PromoteOperation, AbortSubmit,
        Cancel, CancelOperation, storeVars
  <2> QED BY <2>1, <1>1, <1>2
<1> QED BY <1>3, <1>4

\* At most one approval item is ever inserted for an operation: the handler
\* that inserts one is past the gate, so no earlier item is there.
THEOREM OneApproval == Spec => []OneApprovalPerOperation
<1>1. Init => OneApprovalPerOperation
  BY DEF Init, OneApprovalPerOperation, NoApproval
<1> QED BY <1>1, ItemsStaySingle, TypeCorrect, GateCorrect, PTL DEF Spec

\* What requires an operation row: the handler that inserted it stored its
\* request id, and the id is used up.
RowsUseUpIds ==
  \A o \in Requests :
    operation[o] # "absent" =>
      submit[o].pc # "idle" /\ submit[o].id \in requestEvents

\* What makes request ids single, as an inductive invariant.
IdsInv == RowsUseUpIds /\ OneOperationPerRequestId

\* A new row takes an id that no row has.
LEMMA IdsStay == IntakeTypeOK /\ IdsInv /\ [Next]_vars => IdsInv'
<1> SUFFICES ASSUME IntakeTypeOK, IdsInv, [Next]_vars PROVE IdsInv'
  OBVIOUS
\* All steps but AcceptSubmit: no row appears, no started handler loses its id.
<1>1. ASSUME \A o \in Requests :
               /\ operation'[o] # "absent" => operation[o] # "absent"
               /\ submit[o].pc # "idle" =>
                    submit'[o].pc # "idle" /\ submit'[o].id = submit[o].id,
             requestEvents' = requestEvents
      PROVE  IdsInv'
  BY <1>1 DEF IdsInv, RowsUseUpIds, OneOperationPerRequestId
<1>2. ASSUME NEW r \in Requests, NEW k \in Keys \cup {NoKey},
             NEW q \in RequestIds, AcceptSubmit(r, k, q)
      PROVE  IdsInv'
  <2>1. /\ submit'[r].pc = "load" /\ submit'[r].id = q
        /\ \A s \in Requests \ {r} : submit'[s] = submit[s]
        /\ \A s \in Requests \ {r} : operation'[s] = operation[s]
        /\ requestEvents' = requestEvents \cup {q}
    BY <1>2
    DEF AcceptSubmit, RecordState, NotSubmitted, IntakeTypeOK, StoreTypeOK
  <2>2. q \notin requestEvents
    BY <1>2 DEF AcceptSubmit, FreshId
  <2>3. \A s \in Requests \ {r} : operation[s] # "absent" => submit[s].id # q
    BY <2>2 DEF IdsInv, RowsUseUpIds
  <2>4. RowsUseUpIds'
    BY <2>1 DEF IdsInv, RowsUseUpIds
  <2>5. OneOperationPerRequestId'
    BY <2>1, <2>3 DEF IdsInv, OneOperationPerRequestId
  <2> QED BY <2>4, <2>5 DEF IdsInv
<1>3. ASSUME NEW r \in Requests, NEW k \in Keys \cup {NoKey},
             NEW q \in RequestIds, ReplaySubmit(r, k, q) \/ RejectSubmit(r, k, q)
      PROVE  IdsInv'
  <2>1. submit[r].pc = "idle" /\ UNCHANGED <<operation, requestEvents>>
    BY <1>3 DEF ReplaySubmit, RejectSubmit, storeVars
  <2>2. \A s \in Requests \ {r} : submit'[s] = submit[s]
    BY <1>3 DEF ReplaySubmit, RejectSubmit, IntakeTypeOK
  <2> QED BY <2>1, <2>2, <1>1
<1>4. ASSUME NEW o, NEW s, UpdateOperationState(o, s)
      PROVE  \A p \in Requests : operation'[p] # "absent" => operation[p] # "absent"
  BY <1>4 DEF UpdateOperationState, RecordState, IntakeTypeOK, StoreTypeOK
<1>5. ASSUME NEW r \in Requests, Advance(r) \/ AbortSubmit(r) PROVE IdsInv'
  <2>1. submit'[r].pc # "idle" /\ submit'[r].id = submit[r].id
    BY <1>5
    DEF Advance, AbortSubmit, LoadOperation, PutGateDecision, PutCompiledSlice,
        PutAnchor, PutReasoningOutput, FinishOperation, CreateApprovalItem,
        PromoteOperation, Goto, IntakeTypeOK, SubmitStates
  <2>2. \A s \in Requests \ {r} : submit'[s] = submit[s]
    BY <1>5
    DEF Advance, AbortSubmit, LoadOperation, PutGateDecision, PutCompiledSlice,
        PutAnchor, PutReasoningOutput, FinishOperation, CreateApprovalItem,
        PromoteOperation, Goto, IntakeTypeOK
  <2>3. /\ requestEvents' = requestEvents
        /\ \/ operation' = operation
           \/ \E s \in OperationStates : UpdateOperationState(submit[r].op, s)
    BY <1>5
    DEF Advance, AbortSubmit, LoadOperation, PutGateDecision, PutCompiledSlice,
        PutAnchor, PutReasoningOutput, FinishOperation, CreateApprovalItem,
        PromoteOperation, storeVars, OperationStates, TerminalStates
  <2> QED BY <2>1, <2>2, <2>3, <1>1, <1>4
<1>6. ASSUME NEW o \in Requests, Cancel(o) PROVE IdsInv'
  <2>1. \A p \in Requests : operation'[p] # "absent" => operation[p] # "absent"
    BY <1>6
    DEF Cancel, CancelOperation, MayCancel, RecordState, IntakeTypeOK, StoreTypeOK
  <2> QED BY <1>6, <2>1, <1>1 DEF Cancel, intakeVars
<1>7. CASE UNCHANGED vars
  BY <1>7, <1>1 DEF vars, storeVars, intakeVars
<1> QED BY <1>2, <1>3, <1>5, <1>6, <1>7 DEF Next, Submit

\* No two operations exist for one request id.
THEOREM OneOperation == Spec => []OneOperationPerRequestId
<1>1. Init => IdsInv
  BY DEF Init, IdsInv, RowsUseUpIds, OneOperationPerRequestId
<1>2. IdsInv => OneOperationPerRequestId
  BY DEF IdsInv
<1> QED BY <1>1, <1>2, IdsStay, TypeCorrect, PTL DEF Spec

\* A handler under a key works on the operation stored under that key.
HandlersFollowKeys ==
  \A r \in Requests :
    submit[r].pc \notin {"idle", "rejected"} /\ submit[r].key # NoKey =>
      submit[r].op # NoRow /\ submit[r].op = idempotency[submit[r].key]

\* Invocations answered under one key were told the same operation.
THEOREM OneAnswer == Spec => []OneAnswerPerKey
<1>1. Init => HandlersFollowKeys
  BY DEF Init, HandlersFollowKeys, NotSubmitted
<1>2. IntakeTypeOK /\ HandlersFollowKeys /\ [Next]_vars => HandlersFollowKeys'
  <2> SUFFICES ASSUME IntakeTypeOK, HandlersFollowKeys, [Next]_vars
               PROVE  HandlersFollowKeys'
    OBVIOUS
  <2>1. ASSUME NEW r \in Requests, NEW k \in Keys \cup {NoKey},
               NEW q \in RequestIds, AcceptSubmit(r, k, q)
        PROVE  HandlersFollowKeys'
    <3>1. /\ submit'[r].key = k /\ submit'[r].op = r
          /\ \A s \in Requests \ {r} : submit'[s] = submit[s]
      BY <2>1 DEF AcceptSubmit, NotSubmitted, IntakeTypeOK
    <3>2. /\ \A j \in Keys \ {k} : idempotency'[j] = idempotency[j]
          /\ k \in Keys => idempotency'[k] = r /\ idempotency[k] = NoRow
      BY <2>1 DEF AcceptSubmit, StoreResponse, Stored
    <3>3. r # NoRow /\ NoKey \notin Keys
      BY NoRowAssumption, IntakeAssumption
    <3> SUFFICES ASSUME NEW s \in Requests PROVE HandlersFollowKeys!(s)'
      BY DEF HandlersFollowKeys
    <3>4. CASE s = r
      BY <3>4, <3>1, <3>2, <3>3
    <3>5. CASE s # r
      <4>1. submit[s].key \in Keys \cup {NoKey}
        BY DEF IntakeTypeOK, SubmitStates
      <4> QED BY <4>1, <3>5, <3>1, <3>2 DEF HandlersFollowKeys
    <3> QED BY <3>4, <3>5
  <2>2. ASSUME NEW r \in Requests, NEW k \in Keys \cup {NoKey},
               NEW q \in RequestIds, ReplaySubmit(r, k, q)
        PROVE  HandlersFollowKeys'
    <3>1. /\ submit'[r].key = k /\ submit'[r].op = Stored(k)
          /\ \A s \in Requests \ {r} : submit'[s] = submit[s]
          /\ Stored(k) # NoRow /\ idempotency' = idempotency
      BY <2>2 DEF ReplaySubmit, NotSubmitted, IntakeTypeOK
    <3>2. k \in Keys /\ Stored(k) = idempotency[k]
      BY <3>1 DEF Stored
    <3> QED BY <3>1, <3>2 DEF HandlersFollowKeys
  <2>3. ASSUME NEW r \in Requests, NEW k \in Keys \cup {NoKey},
               NEW q \in RequestIds, RejectSubmit(r, k, q)
        PROVE  HandlersFollowKeys'
    <3>1. /\ submit'[r].pc = "rejected" /\ idempotency' = idempotency
          /\ \A s \in Requests \ {r} : submit'[s] = submit[s]
      BY <2>3 DEF RejectSubmit, NotSubmitted, IntakeTypeOK
    <3> QED BY <3>1 DEF HandlersFollowKeys
  <2>4. ASSUME NEW r \in Requests, Advance(r) \/ AbortSubmit(r)
        PROVE  HandlersFollowKeys'
    <3>1. /\ submit[r].pc \notin {"idle", "rejected"}
          /\ submit'[r].op = submit[r].op /\ submit'[r].key = submit[r].key
          /\ idempotency' = idempotency
      BY <2>4
      DEF Advance, AbortSubmit, LoadOperation, PutGateDecision, PutCompiledSlice,
          PutAnchor, PutReasoningOutput, FinishOperation, CreateApprovalItem,
          PromoteOperation, Goto, IntakeTypeOK, SubmitStates, Active, AfterGate
    <3>2. \A s \in Requests \ {r} : submit'[s] = submit[s]
      BY <2>4
      DEF Advance, AbortSubmit, LoadOperation, PutGateDecision, PutCompiledSlice,
          PutAnchor, PutReasoningOutput, FinishOperation, CreateApprovalItem,
          PromoteOperation, Goto, IntakeTypeOK
    <3> QED BY <3>1, <3>2 DEF HandlersFollowKeys
  <2>5. ASSUME UNCHANGED intakeVars PROVE HandlersFollowKeys'
    BY <2>5 DEF intakeVars, HandlersFollowKeys
  <2> QED BY <2>1, <2>2, <2>3, <2>4, <2>5 DEF Next, Submit, Cancel, vars
<1>3. HandlersFollowKeys => OneAnswerPerKey
  BY DEF HandlersFollowKeys, OneAnswerPerKey
<1> QED BY <1>1, <1>2, <1>3, TypeCorrect, PTL DEF Spec

-----------------------------------------------------------------------------

\* A handler that has come this far has stored the rows before it.
TraceIsStored ==
  \A r \in Requests :
    /\ submit[r].pc \in {"generate", "finish", "promote"} => "slice" \in anchors[submit[r].op]
    /\ submit[r].pc \in {"finish", "promote"} => "reasoning" \in anchors[submit[r].op]

\* No row of the trace is ever taken back.
LEMMA AnchorsGrow ==
  IntakeTypeOK /\ [Next]_vars => \A o \in Requests : anchors[o] \subseteq anchors'[o]
<1> SUFFICES ASSUME IntakeTypeOK, [Next]_vars
    PROVE  \A o \in Requests : anchors[o] \subseteq anchors'[o]
  OBVIOUS
<1>0. anchors \in [Requests -> SUBSET Anchors]
  BY DEF IntakeTypeOK, StoreTypeOK
<1>1. CASE anchors' = anchors
  BY <1>1
<1>2. ASSUME NEW r \in Requests, NEW a \in Anchors, NEW next, PutAnchor(r, a, next)
      PROVE  \A o \in Requests : anchors[o] \subseteq anchors'[o]
  BY <1>0, <1>2 DEF PutAnchor
<1>3. ASSUME NEW r \in Requests, PutReasoningOutput(r)
      PROVE  \A o \in Requests : anchors[o] \subseteq anchors'[o]
  BY <1>0, <1>3 DEF PutReasoningOutput
<1>4. ASSUME NEW r \in Requests, Advance(r)
      PROVE  \A o \in Requests : anchors[o] \subseteq anchors'[o]
  BY <1>1, <1>2, <1>3, <1>4
  DEF Advance, LoadOperation, PutGateDecision, PutCompiledSlice, FinishOperation,
      CreateApprovalItem, PromoteOperation, storeVars, Anchors
<1>5. ASSUME NEW r \in Requests, NEW k \in Keys \cup {NoKey}, NEW q \in RequestIds,
             Submit(r, k, q)
      PROVE  anchors' = anchors
  BY <1>5 DEF Submit, ReplaySubmit, AcceptSubmit, RejectSubmit, storeVars
<1>6. ASSUME NEW r \in Requests, AbortSubmit(r) \/ Cancel(r) PROVE anchors' = anchors
  BY <1>6 DEF AbortSubmit, Cancel, CancelOperation, storeVars
<1>7. CASE UNCHANGED vars
  BY <1>1, <1>7 DEF vars, storeVars
<1> QED BY <1>1, <1>4, <1>5, <1>6, <1>7 DEF Next

\* Each step leaves a trace behind it before it writes an outcome.
LEMMA TraceStays ==
  /\ IntakeTypeOK /\ IntakeTypeOK'
  /\ GateAdmitsOne /\ TraceIsStored /\ OutcomeIsAnchored
  /\ [Next]_vars
  => TraceIsStored' /\ OutcomeIsAnchored'
<1> SUFFICES ASSUME IntakeTypeOK, IntakeTypeOK', GateAdmitsOne, TraceIsStored,
                    OutcomeIsAnchored, [Next]_vars
             PROVE  TraceIsStored' /\ OutcomeIsAnchored'
  OBVIOUS
<1>0. /\ submit \in [Requests -> SubmitStates]
      /\ operation \in [Requests -> OperationStates]
      /\ anchors \in [Requests -> SUBSET Anchors]
      /\ anchors' \in [Requests -> SUBSET Anchors]
      /\ \A o \in Requests : anchors[o] \subseteq anchors'[o]
  BY AnchorsGrow DEF IntakeTypeOK, StoreTypeOK
<1>01. \A r \in Requests : submit[r].pc \in AfterGate =>
         submit[r].op \in Requests /\ "gate" \in anchors[submit[r].op]
  BY DEF GateAdmitsOne, Active
<1>02. \A r \in Requests :
         /\ submit[r].pc = "promote" => submit[r].op \in Requests
         /\ submit[r].pc \in {"finish", "promote"} => anchors[submit[r].op] = Anchors
  BY <1>0, <1>01 DEF TraceIsStored, Anchors, AfterGate
\* What an invocation that writes no outcome has to show.
<1>1. ASSUME NEW r \in Requests, NEW row,
             submit' = [submit EXCEPT ![r] = row],
             row.pc \in {"generate", "finish", "promote"} => "slice" \in anchors'[row.op],
             row.pc \in {"finish", "promote"} => "reasoning" \in anchors'[row.op]
      PROVE  TraceIsStored'
  <2>1. submit'[r] = row /\ \A s \in Requests : s # r => submit'[s] = submit[s]
    BY <1>0, <1>1
  <2>2. \A s \in Requests :
          submit[s].pc \in {"generate", "finish", "promote"} => submit[s].op \in Requests
    BY <1>01 DEF AfterGate
  <2> QED BY <1>0, <1>1, <2>1, <2>2 DEF TraceIsStored
<1>2. ASSUME NEW r \in Requests, NEW pc, Goto(r, pc),
             pc \in {"generate", "finish", "promote"} => "slice" \in anchors'[submit[r].op],
             pc \in {"finish", "promote"} => "reasoning" \in anchors'[submit[r].op]
      PROVE  TraceIsStored'
  <2> DEFINE row == [submit[r] EXCEPT !.pc = pc]
  <2>1. submit' = [submit EXCEPT ![r] = row]
    BY <1>2 DEF Goto
  <2>2. row.pc = pc /\ row.op = submit[r].op
    BY <1>0 DEF SubmitStates
  <2> HIDE DEF row
  <2> QED BY <1>1, <1>2, <2>1, <2>2
<1>3. ASSUME \A o \in Requests : operation'[o] \in Outcomes =>
               operation'[o] = operation[o] \/ anchors[o] = Anchors
      PROVE  OutcomeIsAnchored'
  <2>1. \A o \in Requests : anchors[o] = Anchors => anchors'[o] = Anchors
    BY <1>0
  <2> SUFFICES ASSUME NEW o \in Requests, operation'[o] \in Outcomes
               PROVE  anchors'[o] = Anchors
    BY DEF OutcomeIsAnchored, Outcomes, Anchors
  <2>2. anchors[o] = Anchors
    BY <1>3 DEF OutcomeIsAnchored
  <2> QED BY <2>1, <2>2
<1>4. ASSUME operation' = operation PROVE OutcomeIsAnchored'
  BY <1>3, <1>4
<1>5. ASSUME NEW o \in Requests, NEW s, RecordState(o, s),
             s \in Outcomes => anchors[o] = Anchors
      PROVE  OutcomeIsAnchored'
  BY <1>0, <1>3, <1>5 DEF RecordState
<1>6. ASSUME NEW r \in Requests, NEW k \in Keys \cup {NoKey}, NEW q \in RequestIds,
             Submit(r, k, q)
      PROVE  TraceIsStored' /\ OutcomeIsAnchored'
  <2>1. CASE ReplaySubmit(r, k, q)
    <3>1. TraceIsStored'
      BY <1>1, <2>1 DEF ReplaySubmit, NotSubmitted
    <3> QED BY <1>4, <2>1, <3>1 DEF ReplaySubmit, storeVars
  <2>2. CASE AcceptSubmit(r, k, q)
    <3>1. TraceIsStored'
      BY <1>1, <2>2 DEF AcceptSubmit, NotSubmitted
    <3> QED BY <1>5, <2>2, <3>1 DEF AcceptSubmit, Outcomes
  <2>3. CASE RejectSubmit(r, k, q)
    <3>1. TraceIsStored'
      BY <1>1, <2>3 DEF RejectSubmit, NotSubmitted
    <3> QED BY <1>4, <2>3, <3>1 DEF RejectSubmit, storeVars
  <2> QED BY <1>6, <2>1, <2>2, <2>3 DEF Submit
<1>7. ASSUME NEW r \in Requests, LoadOperation(r)
      PROVE  TraceIsStored' /\ OutcomeIsAnchored'
  <2>1. OutcomeIsAnchored'
    BY <1>4, <1>7 DEF LoadOperation, storeVars
  <2>2. CASE Goto(r, "accepted")
    BY <1>2, <2>1, <2>2
  <2>3. ASSUME NEW outcome \in Outcomes,
               submit' = [submit EXCEPT ![r].pc = "gate", ![r].outcome = outcome]
        PROVE  TraceIsStored'
    <3> DEFINE row == [submit[r] EXCEPT !.pc = "gate", !.outcome = outcome]
    <3>1. submit' = [submit EXCEPT ![r] = row]
      BY <1>0, <2>3
    <3>2. row.pc = "gate"
      BY <1>0 DEF SubmitStates
    <3> HIDE DEF row
    <3> QED BY <1>1, <3>1, <3>2
  <2> QED BY <1>7, <2>1, <2>2, <2>3 DEF LoadOperation
<1>8. ASSUME NEW r \in Requests, PutGateDecision(r)
      PROVE  TraceIsStored' /\ OutcomeIsAnchored'
  <2>1. Goto(r, "slice") \/ Goto(r, "conflict")
    BY <1>8 DEF PutGateDecision, PutAnchor
  <2>2. TraceIsStored'
    BY <1>2, <2>1
  <2> QED BY <1>4, <1>8, <2>2 DEF PutGateDecision, PutAnchor
<1>9. ASSUME NEW r \in Requests, PutCompiledSlice(r)
      PROVE  TraceIsStored' /\ OutcomeIsAnchored'
  <2>1. submit[r].op \in Requests
    BY <1>01, <1>9 DEF PutCompiledSlice, AfterGate
  <2>2. CASE Goto(r, "conflict")
    BY <1>2, <1>4, <1>9, <2>2 DEF PutCompiledSlice, PutAnchor
  <2>3. CASE Goto(r, "generate") /\ "slice" \in anchors'[submit[r].op]
    BY <1>2, <1>4, <1>9, <2>3 DEF PutCompiledSlice, PutAnchor
  <2> QED BY <1>0, <1>9, <2>1, <2>2, <2>3 DEF PutCompiledSlice, PutAnchor
<1>10. ASSUME NEW r \in Requests, PutReasoningOutput(r)
       PROVE  TraceIsStored' /\ OutcomeIsAnchored'
  <2>1. submit[r].op \in Requests /\ "slice" \in anchors[submit[r].op]
    BY <1>01, <1>10 DEF PutReasoningOutput, AfterGate, TraceIsStored
  <2>2. "slice" \in anchors'[submit[r].op] /\ "reasoning" \in anchors'[submit[r].op]
    BY <1>0, <1>10, <2>1 DEF PutReasoningOutput
  <2>3. TraceIsStored'
    BY <1>2, <1>10, <2>2 DEF PutReasoningOutput
  <2> QED BY <1>4, <1>10, <2>3 DEF PutReasoningOutput
<1>11. ASSUME NEW r \in Requests, FinishOperation(r)
       PROVE  TraceIsStored' /\ OutcomeIsAnchored'
  <2>1. submit[r].op \in Requests /\ anchors[submit[r].op] = Anchors
    BY <1>01, <1>02, <1>11 DEF FinishOperation, AfterGate
  <2>2. TraceIsStored'
    BY <1>2, <1>11 DEF FinishOperation
  <2> QED BY <1>5, <1>11, <2>1, <2>2 DEF FinishOperation, UpdateOperationState
<1>12. ASSUME NEW r \in Requests, CreateApprovalItem(r)
       PROVE  TraceIsStored' /\ OutcomeIsAnchored'
  <2>1. anchors'[submit[r].op] = Anchors
    BY <1>02, <1>12 DEF CreateApprovalItem
  <2>2. TraceIsStored'
    BY <1>2, <1>12, <2>1 DEF CreateApprovalItem, Anchors
  <2> QED BY <1>4, <1>12, <2>2 DEF CreateApprovalItem
<1>13. ASSUME NEW r \in Requests, PromoteOperation(r)
       PROVE  TraceIsStored' /\ OutcomeIsAnchored'
  <2>1. submit[r].op \in Requests /\ anchors[submit[r].op] = Anchors
    BY <1>02, <1>13 DEF PromoteOperation
  <2>2. TraceIsStored'
    BY <1>2, <1>13 DEF PromoteOperation
  <2> QED BY <1>5, <1>13, <2>1, <2>2 DEF PromoteOperation, UpdateOperationState
<1>14. ASSUME NEW r \in Requests, AbortSubmit(r)
       PROVE  TraceIsStored' /\ OutcomeIsAnchored'
  <2>1. TraceIsStored'
    BY <1>2, <1>14 DEF AbortSubmit
  <2> QED BY <1>4, <1>14, <2>1 DEF AbortSubmit, storeVars
<1>15. ASSUME NEW o \in Requests, Cancel(o)
       PROVE  TraceIsStored' /\ OutcomeIsAnchored'
  <2>1. TraceIsStored'
    BY <1>15 DEF Cancel, CancelOperation, intakeVars, TraceIsStored
  <2> QED BY <1>5, <1>15, <2>1 DEF Cancel, CancelOperation, Outcomes
<1>16. CASE UNCHANGED vars
  BY <1>16 DEF vars, storeVars, intakeVars, TraceIsStored, OutcomeIsAnchored
<1> QED BY <1>6, <1>7, <1>8, <1>9, <1>10, <1>11, <1>12, <1>13, <1>14, <1>15, <1>16
        DEF Next, Advance

\* A client sees an outcome only when the gate decision, the slice and the
\* reasoning output are stored (submit_request; storage_semantics_txn.md 5.1),
\* whichever of several handlers stored them and whichever wrote the state.
THEOREM OutcomeAnchored == Spec => []OutcomeIsAnchored
<1>1. Init => TraceIsStored /\ OutcomeIsAnchored
  BY DEF Init, TraceIsStored, OutcomeIsAnchored, Outcomes, NotSubmitted
<1> QED BY <1>1, TraceStays, TypeCorrect, GateCorrect, PTL DEF Spec

=============================================================================
