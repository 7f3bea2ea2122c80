------------------------ MODULE CompositionLayerProofs ------------------------
(***************************************************************************)
(* For any number of schemas, snapshots, review items, operations,         *)
(* workflows and interfaces: what is pinned was reviewed and resolves, an  *)
(* approval can be consumed as long as it waits, and what is shown or      *)
(* replayed agrees with what it was made from.                             *)
(***************************************************************************)
EXTENDS CompositionLayer, TLAPS

-----------------------------------------------------------------------------
(* The inductive invariant                                                 *)

\* What is current can be pinned.
CurrentInv == current \in minted /\ Reviewed(current)

\* An operation that is not there has no pin; one that is, was pinned to a
\* minted and reviewed snapshot.  Anchors are those of a request, and an
\* operation waits with both anchors and the descriptor its snapshot has.
OperationInv(o) ==
  /\ ~Exists(o) => operation[o].pinned = NoVersion /\ operation[o].anchors = {}
  /\ Exists(o) => operation[o].pinned \in minted /\ Reviewed(operation[o].pinned)
  /\ operation[o].anchors # {} \/ operation[o].state = "created" =>
       operation[o].request \in Requests
  /\ operation[o].state = "awaiting_approval" =>
       /\ operation[o].anchors = {"gate", "slice"}
       /\ operation[o].request.send
       /\ operation[o].diff = Descriptor(o) /\ operation[o].diff # NoSchema

OperationsInv == \A o \in Operations : OperationInv(o)

WorkflowsInv ==
  \A w \in Workflows :
    /\ ~Created(w) => workflow[w].trail = <<>>
    /\ Created(w) => Reviewed(workflow[w].pinned)
    /\ Created(w) /\ workflow[w].parent # NoParent => Exists(workflow[w].parent)

\* What an interface is bound to is there.
InterfacesInv ==
  \A i \in Interfaces :
    interface[i] # NoInterface =>
      /\ interface[i].workflow = NoParent => interface[i].operation \in Operations
      /\ interface[i].workflow # NoParent =>
           /\ Created(interface[i].workflow)
           /\ workflow[interface[i].workflow].parent \in Operations

IInv ==
  /\ CompositionTypeOK
  /\ ReferencesResolve
  /\ CurrentInv
  /\ OperationsInv
  /\ WorkflowsInv
  /\ WorkflowsEndOnce
  /\ ReplaysStayDry
  /\ InterfacesInv
  /\ InterfacesAgree

-----------------------------------------------------------------------------
(* What no step takes back                                                 *)

\* The rows an operation and a workflow are stored with.
SameOperation(o) ==
  /\ Exists(o)' /\ operation'[o].pinned = operation[o].pinned
  /\ operation'[o].request = operation[o].request
  /\ Anchored(o) => Anchored(o)'
  /\ source'[o] = source[o]

SameWorkflow(w) ==
  /\ Created(w)' /\ workflow'[w].pinned = workflow[w].pinned
  /\ workflow'[w].parent = workflow[w].parent

\* A stored schema stays stored.
LEMMA SchemasStay ==
  ASSUME CompositionTypeOK, [Next]_vars, NEW s \in Schemas, Stored(s)
  PROVE  Stored(s)'
<1>1. CASE \E t \in Schemas, n \in Names : RegisterSchema(t, n)
  BY <1>1, RegistryAssumption
  DEF CompositionTypeOK, RegistryTypeOK, RegisterSchema, Insertable, Stored
<1>2. CASE UNCHANGED entry
  BY <1>2 DEF Stored
<1> QED
  BY <1>1, <1>2
  DEF Next, vars, registryVars, compositionVars, RegistryNext, Registry, Review, Operate,
      MintSnapshot, CreateReviewItem, ApplyReviewItem, RejectReviewItem, Resolve,
      PinVersion, PutAnchor, FinishCompile, ConsumeApproval, DenyApproval,
      RegisterSpec, Workflow, CreateWorkflow, CancelWorkflow, Show, ShowOperation,
      ShowWorkflow, CreateReplay

\* A minted snapshot stays minted.
LEMMA SnapshotsStay ==
  ASSUME [Next]_vars
  PROVE  minted \subseteq minted'
BY DEF Next, vars, registryVars, compositionVars, RegistryNext, Registry, Review, Operate,
      RegisterSchema, MintSnapshot, CreateReviewItem, ApplyReviewItem, RejectReviewItem,
      Resolve, PinVersion, PutAnchor, FinishCompile, ConsumeApproval, DenyApproval,
      RegisterSpec, Workflow, CreateWorkflow, CancelWorkflow, Show, ShowOperation,
      ShowWorkflow, CreateReplay

\* What was reviewed stays reviewed: a resolved item is not touched again.
LEMMA ReviewsStay ==
  ASSUME CompositionTypeOK, [Next]_vars, NEW v, Reviewed(v)
  PROVE  Reviewed(v)'
<1>1. ASSUME NEW i \in Items, item[i].status = "resolved"
      PROVE  item'[i] = item[i]
  BY <1>1
  DEF CompositionTypeOK, RegistryTypeOK, Next, vars, registryVars, compositionVars,
      RegistryNext, Registry, Review, Operate, RegisterSchema, MintSnapshot,
      CreateReviewItem, Propose, ApplyReviewItem, RejectReviewItem, Resolve, PinVersion,
      PutAnchor, FinishCompile, ConsumeApproval, DenyApproval, RegisterSpec, Workflow,
      CreateWorkflow, CancelWorkflow, Show, ShowOperation, ShowWorkflow, CreateReplay
<1> QED BY <1>1 DEF Reviewed

\* A step on an operation that is there leaves it under its pins and request.
LEMMA OperationsStay ==
  ASSUME CompositionTypeOK, [Next]_vars, NEW o \in Operations, Exists(o)
  PROVE  SameOperation(o)
<1> USE DEF CompositionTypeOK, RegistryTypeOK, OperationRows, SameOperation, Exists, Anchored
<1>1. ASSUME NEW p \in Operations, NEW r \in Requests, PinVersion(p, r),
             UNCHANGED compositionVars
      PROVE  SameOperation(o)
  BY <1>1 DEF PinVersion, compositionVars
<1>2. ASSUME NEW p \in Operations, PutAnchor(p), UNCHANGED compositionVars
      PROVE  SameOperation(o)
  BY <1>2 DEF PutAnchor, compositionVars
<1>3. ASSUME NEW p \in Operations, FinishCompile(p), UNCHANGED compositionVars
      PROVE  SameOperation(o)
  BY <1>3 DEF FinishCompile, compositionVars
<1>4. ASSUME NEW p \in Operations, ConsumeApproval(p) \/ DenyApproval(p),
             UNCHANGED compositionVars
      PROVE  SameOperation(o)
  BY <1>4 DEF ConsumeApproval, DenyApproval, compositionVars
<1>5. ASSUME NEW p \in Operations, NEW q \in Operations, CreateReplay(p, q)
      PROVE  SameOperation(o)
  BY <1>5 DEF CreateReplay
<1>6. CASE UNCHANGED <<operation, source>>
  BY <1>6
<1> QED
  BY <1>1, <1>2, <1>3, <1>4, <1>5, <1>6
  DEF Next, vars, registryVars, compositionVars, RegistryNext, Registry, Review, Operate,
      RegisterSchema, MintSnapshot, CreateReviewItem, ApplyReviewItem, RejectReviewItem,
      Resolve, RegisterSpec, Workflow, CreateWorkflow, CancelWorkflow, Show,
      ShowOperation, ShowWorkflow

\* A workflow keeps its pins and its parent.
LEMMA WorkflowsStay ==
  ASSUME CompositionTypeOK, [Next]_vars, NEW w \in Workflows, Created(w)
  PROVE  SameWorkflow(w)
<1>1. ASSUME NEW v \in Workflows, CancelWorkflow(v)
      PROVE  SameWorkflow(w)
  <2>1. workflow[v] \in WorkflowRows /\ workflow[w] \in WorkflowRows
    BY DEF CompositionTypeOK
  <2> HIDE DEF WorkflowRows
  <2>2. v # w => workflow'[w] = workflow[w]
    BY <1>1 DEF CompositionTypeOK, CancelWorkflow
  <2>3. v = w => /\ workflow'[w].pinned = workflow[w].pinned
                 /\ workflow'[w].parent = workflow[w].parent
                 /\ workflow'[w].state = "cancelled"
    BY <1>1, <2>1 DEF CompositionTypeOK, CancelWorkflow, WorkflowRows
  <2> QED BY <2>2, <2>3 DEF SameWorkflow, Created
<1>3. ASSUME NEW v \in Workflows, NEW s \in WorkflowSpecs,
             NEW parent \in Operations \cup {NoParent}, CreateWorkflow(v, s, parent)
      PROVE  SameWorkflow(w)
  BY <1>3 DEF CompositionTypeOK, CreateWorkflow, SameWorkflow, Created
<1>2. CASE UNCHANGED workflow
  BY <1>2 DEF SameWorkflow, Created
<1> QED
  BY <1>1, <1>2, <1>3
  DEF Next, vars, compositionVars, Workflow, RegisterSpec, Show, ShowOperation, ShowWorkflow,
      CreateReplay

-----------------------------------------------------------------------------
(* Types                                                                   *)

\* The rows of the registry keep their types.
LEMMA RegistryType ==
  ASSUME RegistryTypeOK, RegistryNext
  PROVE  RegistryTypeOK'
<1> USE RegistryAssumption DEF RegistryTypeOK
<1>1. ASSUME NEW s \in Schemas, NEW n \in Names, RegisterSchema(s, n)
      PROVE  RegistryTypeOK'
  BY <1>1 DEF RegisterSchema
<1>2. ASSUME NEW v \in Versions, MintSnapshot(v)
      PROVE  RegistryTypeOK'
  BY <1>2 DEF MintSnapshot
<1>3. ASSUME NEW i \in Items, NEW v \in Versions, CreateReviewItem(i, v)
      PROVE  RegistryTypeOK'
  BY <1>3 DEF CreateReviewItem, Propose, ItemRows
<1>4. ASSUME NEW i \in Items, NEW v \in Versions, ApplyReviewItem(i, v)
      PROVE  RegistryTypeOK'
  BY <1>4 DEF ApplyReviewItem, Resolve, ItemRows
<1>5. ASSUME NEW i \in Items, RejectReviewItem(i)
      PROVE  RegistryTypeOK'
  BY <1>5 DEF RejectReviewItem, Resolve, ItemRows
<1>6. ASSUME NEW o \in Operations, NEW r \in Requests, PinVersion(o, r)
      PROVE  RegistryTypeOK'
  BY <1>6 DEF PinVersion, NoOperation, OperationRows, OperationStates
<1>7. ASSUME NEW o \in Operations, PutAnchor(o)
      PROVE  RegistryTypeOK'
  BY <1>7 DEF PutAnchor, OperationRows
<1>8. ASSUME NEW o \in Operations, FinishCompile(o)
      PROVE  RegistryTypeOK'
  <2>1. operation[o] \in OperationRows /\ o \in Operations
    OBVIOUS
  <2>2. operation[o].request.send /\ ~Refused(o) => Descriptor(o) \in Schemas
    <3>1. operation[o].pinned \in Versions \cup {NoVersion}
      BY <2>1 DEF OperationRows
    <3>2. operation[o].request.send /\ ~Refused(o) =>
            Descriptor(o) # NoSchema /\ operation[o].pinned \in DiffSupported
      BY DEF Refused, CannotSend
    <3> QED BY <3>1, <3>2 DEF Descriptor
  <2>3. PICK s \in OperationStates, d \in Schemas \cup {NoSchema} :
          operation' = [operation EXCEPT ![o] = [@ EXCEPT !.state = s, !.diff = d]]
    BY <1>8, <2>2 DEF FinishCompile, OperationStates
  <2>4. [operation[o] EXCEPT !.state = s, !.diff = d] \in OperationRows
    BY <2>1, <2>3 DEF OperationRows
  <2> QED BY <1>8, <2>3, <2>4 DEF FinishCompile
<1>9. ASSUME NEW o \in Operations, ConsumeApproval(o) \/ DenyApproval(o)
      PROVE  RegistryTypeOK'
  BY <1>9 DEF ConsumeApproval, DenyApproval, OperationRows, OperationStates
<1> QED
  BY <1>1, <1>2, <1>3, <1>4, <1>5, <1>6, <1>7, <1>8, <1>9
  DEF RegistryNext, Registry, Review, Operate

\* The row of a replay has the type of any operation's.
LEMMA ReplayType ==
  ASSUME CompositionTypeOK, NEW o \in Operations, NEW p \in Operations, CreateReplay(o, p)
  PROVE  RegistryTypeOK'
BY RegistryAssumption
DEF CompositionTypeOK, RegistryTypeOK, CreateReplay, ReplayRow, NoOperation, OperationRows,
    OperationStates

\* All rows keep their types.
LEMMA CompositionType ==
  ASSUME CompositionTypeOK, OperationsInv, [Next]_vars
  PROVE  CompositionTypeOK'
<1>1. CASE RegistryNext /\ UNCHANGED compositionVars
  BY <1>1, RegistryType DEF CompositionTypeOK, compositionVars
<1>2. ASSUME NEW s \in WorkflowSpecs \cup InterfaceSpecs, RegisterSpec(s)
      PROVE  CompositionTypeOK'
  BY <1>2 DEF RegisterSpec, CompositionTypeOK, RegistryTypeOK, registryVars
<1>3. ASSUME NEW w \in Workflows, NEW s \in WorkflowSpecs,
             NEW parent \in Operations \cup {NoParent}, CreateWorkflow(w, s, parent)
      PROVE  CompositionTypeOK'
  BY <1>3
  DEF CreateWorkflow, CompositionTypeOK, RegistryTypeOK, registryVars, WorkflowRows
<1>4. ASSUME NEW w \in Workflows, CancelWorkflow(w)
      PROVE  CompositionTypeOK'
  <2>1. workflow[w] \in WorkflowRows
    BY DEF CompositionTypeOK
  <2>2. Append(workflow[w].trail, "cancelled") \in Seq({"created", "cancelled"})
    BY <2>1 DEF WorkflowRows
  <2>3. [workflow[w] EXCEPT !.state = "cancelled",
                            !.trail = Append(workflow[w].trail, "cancelled")]
          \in WorkflowRows
    BY <2>1, <2>2 DEF WorkflowRows
  <2>4. workflow' \in [Workflows -> WorkflowRows]
    BY <1>4, <2>3 DEF CancelWorkflow, CompositionTypeOK
  <2> QED
    BY <1>4, <2>4 DEF CancelWorkflow, CompositionTypeOK, RegistryTypeOK, registryVars
<1>5. ASSUME NEW i \in Interfaces, NEW s \in InterfaceSpecs, NEW o \in Operations,
             ShowOperation(i, s, o)
      PROVE  CompositionTypeOK'
  <2>1. operation[o] \in OperationRows
    BY DEF CompositionTypeOK, RegistryTypeOK
  <2>2. GateRow(operation[o].request) \in Gates
    BY <1>5 DEF Gates, ShowOperation, Anchored, OperationsInv, OperationInv
  <2>3. [spec |-> s, operation |-> o, workflow |-> NoParent,
         pinned |-> operation[o].pinned, gate |-> GateRow(operation[o].request)]
          \in InterfaceRows
    BY <2>1, <2>2 DEF InterfaceRows, OperationRows
  <2> QED
    BY <1>5, <2>3 DEF ShowOperation, CompositionTypeOK, RegistryTypeOK, registryVars
<1>6. ASSUME NEW i \in Interfaces, NEW s \in InterfaceSpecs, NEW w \in Workflows,
             ShowWorkflow(i, s, w)
      PROVE  CompositionTypeOK'
  <2>1. workflow[w] \in WorkflowRows
    BY DEF CompositionTypeOK
  <2>2. workflow[w].parent \in Operations
    BY <1>6, <2>1 DEF ShowWorkflow, WorkflowRows
  <2>3. GateRow(operation[workflow[w].parent].request) \in Gates
    BY <1>6, <2>2 DEF Gates, ShowWorkflow, Anchored, OperationsInv, OperationInv
  <2>4. [spec |-> s, operation |-> NoParent, workflow |-> w, pinned |-> WorkflowPins(w),
         gate |-> GateRow(operation[workflow[w].parent].request)] \in InterfaceRows
    BY <2>1, <2>3 DEF InterfaceRows, WorkflowRows, WorkflowPins
  <2> QED
    BY <1>6, <2>4 DEF ShowWorkflow, CompositionTypeOK, RegistryTypeOK, registryVars
<1>7. ASSUME NEW o \in Operations, NEW p \in Operations, CreateReplay(o, p)
      PROVE  CompositionTypeOK'
  BY <1>7, ReplayType DEF CreateReplay, CompositionTypeOK
<1>8. CASE UNCHANGED vars
  BY <1>8 DEF vars, registryVars, compositionVars, CompositionTypeOK, RegistryTypeOK
<1> QED
  BY <1>1, <1>2, <1>3, <1>4, <1>5, <1>6, <1>7, <1>8 DEF Next, Workflow, Show

-----------------------------------------------------------------------------
(* Each part of the invariant                                              *)

\* A snapshot is minted only when its schema is stored, and stored it stays.
LEMMA ReferencesStay ==
  ASSUME CompositionTypeOK, ReferencesResolve, [Next]_vars
  PROVE  ReferencesResolve'
<1> SUFFICES ASSUME NEW v \in minted', SendSchema[v] # NoSchema
             PROVE  Stored(SendSchema[v])'
  BY DEF ReferencesResolve
<1>1. CASE v \in minted
  <2>1. v \in Versions /\ Stored(SendSchema[v])
    BY <1>1 DEF ReferencesResolve, CompositionTypeOK, RegistryTypeOK
  <2>2. SendSchema[v] \in Schemas
    BY <2>1, RegistryAssumption
  <2> QED BY <2>1, <2>2, SchemasStay
<1>2. CASE v \notin minted
  <2>1. \E u \in Versions : MintSnapshot(u)
    BY <1>2
    DEF Next, vars, registryVars, compositionVars, RegistryNext, Registry, Review, Operate,
        RegisterSchema, CreateReviewItem, ApplyReviewItem, RejectReviewItem, Resolve,
        PinVersion, PutAnchor, FinishCompile, ConsumeApproval, DenyApproval, RegisterSpec,
        Workflow, CreateWorkflow, CancelWorkflow, Show, ShowOperation, ShowWorkflow,
        CreateReplay
  <2> QED BY <1>2, <2>1 DEF MintSnapshot, ReferencesStored, Stored
<1> QED BY <1>1, <1>2

\* The pointer moves to a snapshot the owner applied.
LEMMA CurrentStays ==
  ASSUME CompositionTypeOK, CurrentInv, [Next]_vars
  PROVE  CurrentInv'
<1>1. ASSUME NEW i \in Items, NEW v \in Versions, ApplyReviewItem(i, v)
      PROVE  CurrentInv'
  <2>1. item'[i].status = "resolved" /\ item'[i].applied = v
    BY <1>1 DEF ApplyReviewItem, Resolve, CompositionTypeOK, RegistryTypeOK, ItemRows
  <2> QED BY <1>1, <2>1 DEF ApplyReviewItem, Resolve, CurrentInv, Reviewed
<1>2. CASE UNCHANGED current
  <2>1. Reviewed(current)'
    BY <1>2, ReviewsStay DEF CurrentInv, Reviewed
  <2> QED BY <1>2, <2>1, SnapshotsStay DEF CurrentInv
<1> QED
  BY <1>1, <1>2
  DEF Next, vars, registryVars, compositionVars, RegistryNext, Registry, Review, Operate,
      RegisterSchema, MintSnapshot, CreateReviewItem, RejectReviewItem, Resolve,
      PinVersion, PutAnchor, FinishCompile, ConsumeApproval, DenyApproval, RegisterSpec,
      Workflow, CreateWorkflow, CancelWorkflow, Show, ShowOperation, ShowWorkflow,
      CreateReplay

\* An operation keeps its part in a step that leaves its pin alone, or pins it
\* to the current version, if the rest of the part is kept.
LEMMA PinStays ==
  ASSUME CompositionTypeOK, CurrentInv, OperationsInv, [Next]_vars, NEW o \in Operations,
         operation'[o].pinned = operation[o].pinned \/ operation'[o].pinned = current,
         Exists(o) \/ operation'[o].pinned = current
  PROVE  operation'[o].pinned \in minted' /\ Reviewed(operation[o].pinned)'
<1> DEFINE v == operation'[o].pinned
<1>1. v \in minted /\ Reviewed(v)
  BY DEF CurrentInv, OperationsInv, OperationInv
<1>2. Reviewed(operation[o].pinned)' <=> \/ v = Bootstrap
                                        \/ \E i \in Items : /\ item'[i].status = "resolved"
                                                            /\ item'[i].applied = v
  BY DEF Reviewed
<1>3. \A u : Reviewed(u) => u = Bootstrap \/ \E i \in Items : /\ item'[i].status = "resolved"
                                                                /\ item'[i].applied = u
  BY ReviewsStay DEF Reviewed
<1> QED BY <1>1, <1>2, <1>3, SnapshotsStay

\* A step leaves the part of an operation it does not touch.
LEMMA UntouchedOperation ==
  ASSUME CompositionTypeOK, CurrentInv, OperationsInv, [Next]_vars, NEW o \in Operations,
         operation'[o] = operation[o]
  PROVE  OperationInv(o)'
<1>1. Exists(o) => operation[o].pinned \in minted' /\ Reviewed(operation[o].pinned)'
  BY PinStays
<1> QED BY <1>1 DEF OperationsInv, OperationInv, Exists, Descriptor

\* A step leaves an operation alone, or is a step of it.
LEMMA StepOfOperation ==
  ASSUME CompositionTypeOK, [Next]_vars, NEW o \in Operations
  PROVE  \/ operation'[o] = operation[o] /\ source'[o] = source[o]
         \/ \E r \in Requests : PinVersion(o, r) /\ UNCHANGED source
         \/ PutAnchor(o) /\ UNCHANGED source
         \/ FinishCompile(o) /\ UNCHANGED source
         \/ (ConsumeApproval(o) \/ DenyApproval(o)) /\ UNCHANGED source
         \/ \E p \in Operations : CreateReplay(p, o)
<1> USE DEF CompositionTypeOK, RegistryTypeOK
<1> DEFINE Same == operation'[o] = operation[o] /\ source'[o] = source[o]
<1>1. ASSUME NEW p \in Operations, NEW r \in Requests, PinVersion(p, r),
             UNCHANGED compositionVars
      PROVE  p = o \/ Same
  BY <1>1 DEF PinVersion, compositionVars
<1>2. ASSUME NEW p \in Operations, PutAnchor(p), UNCHANGED compositionVars
      PROVE  p = o \/ Same
  BY <1>2 DEF PutAnchor, compositionVars
<1>3. ASSUME NEW p \in Operations, FinishCompile(p), UNCHANGED compositionVars
      PROVE  p = o \/ Same
  BY <1>3 DEF FinishCompile, compositionVars
<1>4. ASSUME NEW p \in Operations, ConsumeApproval(p) \/ DenyApproval(p),
             UNCHANGED compositionVars
      PROVE  p = o \/ Same
  BY <1>4 DEF ConsumeApproval, DenyApproval, compositionVars
<1>5. ASSUME NEW p \in Operations, NEW q \in Operations, CreateReplay(p, q)
      PROVE  q = o \/ Same
  BY <1>5 DEF CreateReplay
<1>6. CASE UNCHANGED <<operation, source>>
  BY <1>6
<1>7. \/ UNCHANGED <<operation, source>>
      \/ /\ UNCHANGED compositionVars
         /\ \E p \in Operations :
              \/ \E r \in Requests : PinVersion(p, r)
              \/ PutAnchor(p) \/ FinishCompile(p) \/ ConsumeApproval(p) \/ DenyApproval(p)
      \/ \E p, q \in Operations : CreateReplay(p, q)
  BY DEF Next, vars, registryVars, compositionVars, RegistryNext, Registry, Review, Operate,
      RegisterSchema, MintSnapshot, CreateReviewItem, ApplyReviewItem, RejectReviewItem,
      Resolve, RegisterSpec, Workflow, CreateWorkflow, CancelWorkflow, Show,
      ShowOperation, ShowWorkflow
<1> HIDE DEF CompositionTypeOK, RegistryTypeOK, Same
<1>8. UNCHANGED compositionVars => UNCHANGED source
  BY DEF compositionVars
<1>9. UNCHANGED <<operation, source>> => Same
  BY DEF Same
<1> QED BY <1>1, <1>2, <1>3, <1>4, <1>5, <1>7, <1>8, <1>9 DEF Same

\* Every operation keeps its part.
LEMMA OperationsInvStays ==
  ASSUME CompositionTypeOK, CurrentInv, OperationsInv, [Next]_vars
  PROVE  OperationsInv'
<1> SUFFICES ASSUME NEW o \in Operations PROVE OperationInv(o)'
  BY DEF OperationsInv
<1>0. OperationInv(o) /\ operation[o] \in OperationRows
  BY DEF OperationsInv, CompositionTypeOK, RegistryTypeOK
<1>1. ASSUME NEW r \in Requests, PinVersion(o, r)
      PROVE  OperationInv(o)'
  <2>1. operation'[o] = [NoOperation EXCEPT !.state = "created", !.request = r,
                                            !.pinned = current]
    BY <1>1 DEF PinVersion, CompositionTypeOK, RegistryTypeOK
  <2>2. operation'[o].pinned \in minted' /\ Reviewed(operation[o].pinned)'
    BY <2>1, PinStays DEF NoOperation
  <2> QED BY <2>1, <2>2 DEF NoOperation, OperationInv, Exists
<1>2. CASE PutAnchor(o)
  <2>1. operation'[o] = [operation[o] EXCEPT !.anchors =
                           IF @ = {} THEN {"gate"} ELSE {"gate", "slice"}]
    BY <1>2 DEF PutAnchor, CompositionTypeOK, RegistryTypeOK
  <2>2. operation'[o].pinned \in minted' /\ Reviewed(operation[o].pinned)'
    BY <1>0, <1>2, <2>1, PinStays DEF PutAnchor, OperationRows, Exists
  <2> QED BY <1>0, <1>2, <2>1, <2>2 DEF PutAnchor, OperationRows, OperationInv, Exists
<1>3. CASE FinishCompile(o)
  <2> DEFINE waits == operation[o].request.send /\ ~Refused(o)
  <2>1. operation'[o] =
          [operation[o] EXCEPT !.state = IF Refused(o) THEN "blocked"
                                         ELSE IF waits THEN "awaiting_approval"
                                         ELSE "completed",
                               !.diff = IF waits THEN Descriptor(o) ELSE NoSchema]
    BY <1>3 DEF FinishCompile, CompositionTypeOK, RegistryTypeOK
  <2>2. operation'[o].pinned \in minted' /\ Reviewed(operation[o].pinned)'
    BY <1>0, <1>3, <2>1, PinStays DEF FinishCompile, OperationRows, Exists
  <2>3. waits => Descriptor(o) # NoSchema
    BY DEF Refused, CannotSend
  <2>4. Descriptor(o)' = Descriptor(o)
    BY <1>0, <2>1 DEF Descriptor, OperationRows
  <2>5. operation'[o].state = "awaiting_approval" =>
          waits /\ operation'[o].diff = Descriptor(o)
    BY <1>0, <2>1 DEF OperationRows
  <2>6. operation'[o].request = operation[o].request /\ operation'[o].anchors = {"gate", "slice"}
    BY <1>0, <1>3, <2>1 DEF FinishCompile, OperationRows
  <2>7. operation[o].request \in Requests
    BY <1>0, <1>3 DEF FinishCompile, OperationInv
  <2>8. Exists(o)'
    BY <1>0, <2>1 DEF Exists, OperationRows
  <2> QED BY <2>2, <2>3, <2>4, <2>5, <2>6, <2>7, <2>8 DEF OperationInv
<1>4. CASE ConsumeApproval(o) \/ DenyApproval(o)
  <2>1. PICK s \in {"running", "blocked"} : operation'[o] = [operation[o] EXCEPT !.state = s]
    BY <1>4 DEF ConsumeApproval, DenyApproval, CompositionTypeOK, RegistryTypeOK
  <2>2. operation'[o].pinned \in minted' /\ Reviewed(operation[o].pinned)'
    BY <1>0, <1>4, <2>1, PinStays
    DEF ConsumeApproval, DenyApproval, OperationRows, Exists
  <2> QED
    BY <1>0, <1>4, <2>1, <2>2
    DEF ConsumeApproval, DenyApproval, OperationRows, OperationInv, Exists
<1>5. ASSUME NEW p \in Operations, CreateReplay(p, o)
      PROVE  OperationInv(o)'
  <2>1. operation'[o] = ReplayRow(p)
    BY <1>5 DEF CreateReplay, CompositionTypeOK, RegistryTypeOK
  <2>2. operation[p].pinned \in minted /\ Reviewed(operation[p].pinned)
    BY <1>5 DEF CreateReplay, Anchored, OperationsInv, OperationInv
  <2>3. item' = item /\ minted' = minted
    BY <1>5 DEF CreateReplay
  <2>4. operation'[o].pinned = operation[p].pinned
    BY <2>1 DEF ReplayRow, NoOperation
  <2>5. operation'[o].pinned \in minted' /\ Reviewed(operation[o].pinned)'
    BY <2>2, <2>3, <2>4 DEF Reviewed
  <2> QED BY <2>1, <2>5 DEF ReplayRow, NoOperation, OperationInv, Exists
<1>6. CASE operation'[o] = operation[o]
  BY <1>6, UntouchedOperation
<1> QED BY <1>1, <1>2, <1>3, <1>4, <1>5, <1>6, StepOfOperation

\* A step leaves a workflow alone, stores it, or cancels it.
LEMMA StepOfWorkflow ==
  ASSUME CompositionTypeOK, [Next]_vars, NEW w \in Workflows
  PROVE  \/ workflow'[w] = workflow[w]
         \/ \E s \in WorkflowSpecs, parent \in Operations \cup {NoParent} :
              CreateWorkflow(w, s, parent)
         \/ CancelWorkflow(w)
<1>1. ASSUME NEW v \in Workflows, NEW s \in WorkflowSpecs,
             NEW parent \in Operations \cup {NoParent}, CreateWorkflow(v, s, parent)
      PROVE  v = w \/ workflow'[w] = workflow[w]
  BY <1>1 DEF CreateWorkflow, CompositionTypeOK
<1>2. ASSUME NEW v \in Workflows, CancelWorkflow(v)
      PROVE  v = w \/ workflow'[w] = workflow[w]
  BY <1>2 DEF CancelWorkflow, CompositionTypeOK
<1>3. workflow' = workflow \/ Workflow
  BY DEF Next, vars, compositionVars, RegisterSpec, Show, ShowOperation, ShowWorkflow,
      CreateReplay
<1> QED BY <1>1, <1>2, <1>3 DEF Workflow

\* One entry and one more are two entries.
LEMMA AppendToOne ==
  ASSUME NEW S, NEW s \in Seq(S), NEW e \in S, NEW t \in Seq(S),
         Len(s) = 1, Len(t) = 2, t[1] = s[1], t[2] = e
  PROVE  Append(s, e) = t
OBVIOUS

\* The state a cancelled workflow ends in leaves its trail at two entries: a
\* cancellation needs a state that is as expected and not terminal.
LEMMA WorkflowsStayEnded ==
  ASSUME CompositionTypeOK, WorkflowsInv, WorkflowsEndOnce, [Next]_vars
  PROVE  WorkflowsEndOnce'
<1> SUFFICES ASSUME NEW w \in Workflows, Created(w)'
             PROVE  (workflow[w].trail)' = IF workflow'[w].state = "created"
                                           THEN <<"created">>
                                           ELSE <<"created", "cancelled">>
  BY DEF WorkflowsEndOnce
<1>1. CASE workflow'[w] = workflow[w]
  BY <1>1 DEF WorkflowsEndOnce, Created
<1>2. ASSUME NEW s \in WorkflowSpecs, NEW parent \in Operations \cup {NoParent},
             CreateWorkflow(w, s, parent)
      PROVE  workflow'[w].state = "created" /\ workflow'[w].trail = <<"created">>
  BY <1>2 DEF CreateWorkflow, CompositionTypeOK
<1>3. CASE CancelWorkflow(w)
  <2>1. workflow[w] \in WorkflowRows
    BY DEF CompositionTypeOK
  <2>2. PICK n \in DOMAIN workflow[w].trail : MayMove(w, workflow[w].trail[n])
    BY <1>3 DEF CancelWorkflow
  <2>3. workflow[w].state # "cancelled"
    BY <2>2 DEF MayMove
  <2>4. workflow[w].trail # <<>>
    BY <2>2
  <2>5. Created(w)
    BY <2>4 DEF WorkflowsInv
  <2>6. workflow[w].state = "created"
    BY <2>1, <2>3, <2>5 DEF WorkflowRows, Created
  <2>7. workflow[w].trail = <<"created">>
    BY <2>5, <2>6 DEF WorkflowsEndOnce
  <2>8. Append(<<"created">>, "cancelled") = <<"created", "cancelled">>
    <3> DEFINE S == {"created", "cancelled"}
               one == <<"created">>
               two == <<"created", "cancelled">>
    <3>1. one \in Seq(S) /\ Len(one) = 1 /\ one[1] = "created" /\ "cancelled" \in S
      OBVIOUS
    <3>2. two \in Seq(S) /\ Len(two) = 2 /\ two[1] = "created" /\ two[2] = "cancelled"
      OBVIOUS
    <3> SUFFICES Append(one, "cancelled") = two
      OBVIOUS
    <3> HIDE DEF S, one, two
    <3> QED BY <3>1, <3>2, AppendToOne
  <2>9. workflow'[w].state = "cancelled" /\ workflow'[w].trail = <<"created", "cancelled">>
    BY <1>3, <2>1, <2>7, <2>8 DEF CancelWorkflow, CompositionTypeOK, WorkflowRows
  <2> QED BY <2>9
<1> QED BY <1>1, <1>2, <1>3, StepOfWorkflow

\* A workflow keeps a reviewed pin, and its parent stays.
LEMMA WorkflowsInvStays ==
  ASSUME CompositionTypeOK, CurrentInv, WorkflowsInv, [Next]_vars
  PROVE  WorkflowsInv'
<1> SUFFICES ASSUME NEW w \in Workflows
             PROVE  /\ ~Created(w)' => workflow'[w].trail = <<>>
                    /\ Created(w)' => Reviewed(workflow[w].pinned)'
                    /\ Created(w)' /\ workflow'[w].parent # NoParent =>
                         Exists(workflow[w].parent)'
  BY DEF WorkflowsInv
<1>1. \A v : Reviewed(v) => \/ v = Bootstrap
                           \/ \E i \in Items : /\ item'[i].status = "resolved"
                                               /\ item'[i].applied = v
  BY ReviewsStay DEF Reviewed
<1>2. CASE Created(w)
  <2>1. /\ workflow'[w].pinned = workflow[w].pinned
        /\ workflow'[w].parent = workflow[w].parent /\ Created(w)'
    BY <1>2, WorkflowsStay DEF SameWorkflow
  <2>2. Reviewed(workflow[w].pinned)'
    BY <1>1, <1>2, <2>1 DEF WorkflowsInv, Reviewed
  <2>3. ASSUME workflow[w].parent # NoParent
        PROVE  Exists(workflow[w].parent)'
    <3>1. workflow[w].parent \in Operations
      BY <2>3 DEF CompositionTypeOK, WorkflowRows
    <3>2. Exists(workflow[w].parent)
      BY <1>2, <2>3 DEF WorkflowsInv
    <3>3. PICK o \in Operations : o = workflow[w].parent /\ o = workflow'[w].parent
      BY <2>1, <3>1
    <3>4. SameOperation(o)
      BY <3>2, <3>3, OperationsStay
    <3> QED BY <3>3, <3>4 DEF SameOperation, Exists
  <2> QED BY <2>1, <2>2, <2>3
<1>3. ASSUME ~Created(w), NEW s \in WorkflowSpecs, NEW parent \in Operations \cup {NoParent},
             CreateWorkflow(w, s, parent)
      PROVE  /\ Created(w)' /\ Reviewed(workflow[w].pinned)'
             /\ workflow'[w].parent # NoParent => Exists(workflow[w].parent)'
  <2>1. workflow'[w] = [spec |-> s, parent |-> parent, pinned |-> current,
                        state |-> "created", trail |-> <<"created">>]
    BY <1>3 DEF CreateWorkflow, CompositionTypeOK
  <2>2. Reviewed(workflow[w].pinned)'
    BY <1>1, <2>1 DEF CurrentInv, Reviewed
  <2>3. parent # NoParent => operation'[parent].state # "absent"
    BY <1>3 DEF CreateWorkflow, registryVars, Exists
  <2> QED BY <2>1, <2>2, <2>3 DEF Created, Exists
<1>4. ASSUME ~Created(w), workflow'[w] = workflow[w]
      PROVE  ~Created(w)' /\ workflow'[w].trail = <<>>
  BY <1>4 DEF Created, WorkflowsInv
<1>5. ASSUME ~Created(w), CancelWorkflow(w)
      PROVE  FALSE
  BY <1>5 DEF CancelWorkflow, WorkflowsInv
<1> QED BY <1>2, <1>3, <1>4, <1>5, StepOfWorkflow

\* A replay is never stepped again: it is over and has no anchors, so it is no
\* source of a replay either.
LEMMA ReplaysStay ==
  ASSUME CompositionTypeOK, OperationsInv, ReplaysStayDry, [Next]_vars
  PROVE  ReplaysStayDry'
<1> SUFFICES ASSUME NEW p \in Operations, source'[p] # NoParent
             PROVE  /\ operation'[p].state = "completed" /\ operation'[p].anchors = {}
                    /\ Anchored(source[p])' /\ (source[source[p]])' = NoParent
                    /\ operation'[p].pinned = (operation[source[p]].pinned)'
  BY DEF ReplaysStayDry
<1>1. ASSUME source[p] # NoParent
      PROVE  /\ operation'[p] = operation[p] /\ source'[p] = source[p]
  <2>1. operation[p].state = "completed"
    BY <1>1 DEF ReplaysStayDry
  <2>2. \A o \in Operations : ~CreateReplay(o, p)
    BY <2>1 DEF CreateReplay, Exists
  <2> QED
    BY <2>1, <2>2, StepOfOperation
    DEF PinVersion, PutAnchor, FinishCompile, ConsumeApproval, DenyApproval
<1>2. CASE source[p] # NoParent
  <2>1. PICK o \in Operations : o = source[p]
    BY <1>2 DEF CompositionTypeOK
  <2>2. Anchored(o) /\ source[o] = NoParent /\ operation[p].pinned = operation[o].pinned
    BY <1>2, <2>1 DEF ReplaysStayDry
  <2>3. SameOperation(o)
    BY <2>2, OperationsStay DEF Anchored
  <2>4. source'[p] = o
    BY <1>1, <1>2, <2>1
  <2>5. Anchored(source[p])'
    BY <2>2, <2>3, <2>4 DEF SameOperation, Anchored, Exists
  <2> QED
    BY <1>1, <1>2, <2>2, <2>3, <2>4, <2>5 DEF SameOperation, ReplaysStayDry
<1>3. ASSUME source[p] = NoParent
      PROVE  \E o \in Operations : CreateReplay(o, p)
  BY <1>3, StepOfOperation
<1>4. ASSUME NEW o \in Operations, CreateReplay(o, p), source[p] = NoParent
      PROVE  /\ operation'[p].state = "completed" /\ operation'[p].anchors = {}
             /\ Anchored(source[p])' /\ (source[source[p]])' = NoParent
             /\ operation'[p].pinned = (operation[source[p]].pinned)'
  <2>1. operation'[p] = ReplayRow(o) /\ source'[p] = o
    BY <1>4 DEF CreateReplay, CompositionTypeOK, RegistryTypeOK
  <2>2. Anchored(o)
    BY <1>4 DEF CreateReplay
  <2>3. source[o] = NoParent
    BY <2>2 DEF ReplaysStayDry, Anchored
  <2>4. SameOperation(o)
    BY <2>2, OperationsStay DEF Anchored
  <2>5. Anchored(source[p])'
    BY <2>1, <2>2, <2>4 DEF SameOperation, Anchored, Exists
  <2> QED
    BY <2>1, <2>3, <2>4, <2>5 DEF ReplayRow, NoOperation, SameOperation
<1> QED BY <1>2, <1>3, <1>4

\* What an interface shows does not change: neither it nor its subject does.
LEMMA InterfacesStay ==
  ASSUME IInv, [Next]_vars
  PROVE  InterfacesInv' /\ InterfacesAgree'
<1> DEFINE Part(i) ==
      interface[i] # NoInterface =>
        /\ interface[i].workflow = NoParent => interface[i].operation \in Operations
        /\ interface[i].workflow # NoParent =>
             /\ Created(interface[i].workflow)
             /\ workflow[interface[i].workflow].parent \in Operations
        /\ (interface[i].operation = NoParent) # (interface[i].workflow = NoParent)
        /\ LET w == interface[i].workflow
               o == IF w = NoParent THEN interface[i].operation ELSE workflow[w].parent
           IN /\ Anchored(o) /\ source[o] = NoParent
              /\ interface[i].gate = GateRow(operation[o].request)
              /\ interface[i].pinned = IF w = NoParent THEN operation[o].pinned
                                       ELSE workflow[w].pinned
<1>0. IInv => \A i \in Interfaces : Part(i)
  BY DEF IInv, InterfacesInv, InterfacesAgree
<1> SUFFICES ASSUME NEW i \in Interfaces PROVE Part(i)'
  BY DEF InterfacesInv, InterfacesAgree
<1> USE CompositionAssumption
<1>1. ASSUME interface'[i] = interface[i], interface[i] # NoInterface,
             interface[i].workflow = NoParent
      PROVE  Part(i)'
  <2>1. PICK o \in Operations : o = interface[i].operation
    BY <1>0, <1>1
  <2>2. Anchored(o) /\ source[o] = NoParent /\ o # NoParent
        /\ interface[i].gate = GateRow(operation[o].request)
        /\ interface[i].pinned = operation[o].pinned
    BY <1>0, <1>1, <2>1
  <2>3. SameOperation(o)
    BY <2>2, OperationsStay DEF Anchored, IInv
  <2>4. interface'[i].operation = o /\ interface'[i].workflow = NoParent
    BY <1>1, <2>1
  <2>5. Anchored(interface[i].operation)'
    BY <2>2, <2>3, <2>4 DEF SameOperation, Anchored, Exists
  <2>6. /\ source'[o] = NoParent
        /\ interface'[i].gate = GateRow(operation'[o].request)
        /\ interface'[i].pinned = operation'[o].pinned
    BY <1>1, <2>2, <2>3 DEF SameOperation
  <2>7. GateRow(operation[o].request)' = GateRow(operation'[o].request)
    BY DEF GateRow
  <2> QED BY <2>2, <2>4, <2>5, <2>6, <2>7 DEF GateRow
<1>2. ASSUME interface'[i] = interface[i], interface[i] # NoInterface,
             interface[i].workflow # NoParent
      PROVE  Part(i)'
  <2>1. PICK w \in Workflows : w = interface[i].workflow
    BY <1>2 DEF IInv, CompositionTypeOK, InterfaceRows
  <2>2. PICK o \in Operations : o = workflow[w].parent
    BY <1>0, <1>2, <2>1
  <2>3. /\ Created(w) /\ Anchored(o) /\ source[o] = NoParent
        /\ interface[i].operation = NoParent
        /\ interface[i].gate = GateRow(operation[o].request)
        /\ interface[i].pinned = workflow[w].pinned
    BY <1>0, <1>2, <2>1, <2>2
  <2>4. SameOperation(o) /\ SameWorkflow(w)
    BY <2>3, OperationsStay, WorkflowsStay DEF Anchored, IInv
  <2>5. /\ interface'[i].workflow = w /\ w # NoParent
        /\ interface'[i].operation = NoParent
        /\ workflow'[w].parent = o
    BY <1>2, <2>1, <2>2, <2>3, <2>4 DEF SameWorkflow
  <2>6. Anchored(workflow[interface[i].workflow].parent)'
    BY <2>3, <2>4, <2>5 DEF SameOperation, Anchored, Exists
  <2>7. Created(interface[i].workflow)'
    BY <2>4, <2>5 DEF SameWorkflow, Created
  <2>8. /\ source'[o] = NoParent
        /\ interface'[i].gate = GateRow(operation'[o].request)
        /\ interface'[i].pinned = workflow'[w].pinned
    BY <1>2, <2>3, <2>4 DEF SameOperation, SameWorkflow
  <2> QED BY <2>5, <2>6, <2>7, <2>8 DEF GateRow
<1>3. ASSUME NEW s \in InterfaceSpecs, NEW o \in Operations, ShowOperation(i, s, o)
      PROVE  Part(i)'
  <2>1. interface'[i] = [spec |-> s, operation |-> o, workflow |-> NoParent,
                         pinned |-> operation[o].pinned,
                         gate |-> GateRow(operation[o].request)]
    BY <1>3 DEF ShowOperation, IInv, CompositionTypeOK
  <2>2. UNCHANGED <<operation, workflow, source>> /\ Anchored(o)
    BY <1>3 DEF ShowOperation, registryVars
  <2>3. source[o] = NoParent
    BY <2>2 DEF IInv, ReplaysStayDry, Anchored
  <2>4. Anchored(interface[i].operation)'
    BY <2>1, <2>2 DEF Anchored, Exists
  <2> QED BY <2>1, <2>2, <2>3, <2>4 DEF GateRow
<1>4. ASSUME NEW s \in InterfaceSpecs, NEW w \in Workflows, ShowWorkflow(i, s, w)
      PROVE  Part(i)'
  <2>1. interface'[i] = [spec |-> s, operation |-> NoParent, workflow |-> w,
                         pinned |-> WorkflowPins(w),
                         gate |-> GateRow(operation[workflow[w].parent].request)]
    BY <1>4 DEF ShowWorkflow, IInv, CompositionTypeOK
  <2>2. PICK o \in Operations : o = workflow[w].parent
    BY <1>4 DEF ShowWorkflow, IInv, CompositionTypeOK, WorkflowRows
  <2>3. UNCHANGED <<operation, workflow, source>> /\ Anchored(o) /\ Created(w)
    BY <1>4, <2>2 DEF ShowWorkflow, registryVars
  <2>4. source[o] = NoParent
    BY <2>3 DEF IInv, ReplaysStayDry, Anchored
  <2>5. Anchored(workflow[interface[i].workflow].parent)'
    BY <2>1, <2>2, <2>3 DEF Anchored, Exists
  <2>6. Created(interface[i].workflow)'
    BY <2>1, <2>3 DEF Created
  <2> QED BY <2>1, <2>2, <2>3, <2>4, <2>5, <2>6 DEF GateRow, WorkflowPins
<1>5. \/ interface'[i] = interface[i]
      \/ \E s \in InterfaceSpecs : \/ \E o \in Operations : ShowOperation(i, s, o)
                                   \/ \E w \in Workflows : ShowWorkflow(i, s, w)
  <2>1. ASSUME NEW j \in Interfaces, NEW s \in InterfaceSpecs, NEW o \in Operations,
               ShowOperation(j, s, o)
        PROVE  i = j \/ interface'[i] = interface[i]
    BY <2>1 DEF ShowOperation, IInv, CompositionTypeOK
  <2>2. ASSUME NEW j \in Interfaces, NEW s \in InterfaceSpecs, NEW w \in Workflows,
               ShowWorkflow(j, s, w)
        PROVE  i = j \/ interface'[i] = interface[i]
    BY <2>2 DEF ShowWorkflow, IInv, CompositionTypeOK
  <2>3. interface' = interface \/ Show
    BY DEF Next, vars, compositionVars, RegisterSpec, Workflow, CreateWorkflow,
        CancelWorkflow, CreateReplay
  <2> QED BY <2>1, <2>2, <2>3 DEF Show
<1>6. ASSUME interface'[i] = interface[i], interface[i] = NoInterface
      PROVE  Part(i)'
  BY <1>6 DEF NoInterface
<1> HIDE DEF Part
<1> QED BY <1>1, <1>2, <1>3, <1>4, <1>5, <1>6

-----------------------------------------------------------------------------
(* Theorems                                                                *)

\* At the start everything that is current is stored, and nothing is composed.
LEMMA InitIInv == Init => IInv
<1> SUFFICES ASSUME Init PROVE IInv
  OBVIOUS
<1> USE RegistryAssumption, CompositionAssumption DEF Init, RegistryInit
<1>1. RegistryTypeOK
  BY DEF RegistryTypeOK, NoItem, ItemRows, NoOperation, OperationRows, OperationStates
<1>2. NoWorkflow \in WorkflowRows
  <2>1. <<>> \in Seq({"created", "cancelled"})
    OBVIOUS
  <2> QED BY <2>1 DEF NoWorkflow, WorkflowRows
<1>3. NoInterface \in InterfaceRows
  BY DEF NoInterface, InterfaceRows
<1>4. CompositionTypeOK
  BY <1>1, <1>2, <1>3 DEF CompositionTypeOK
<1>5. ReferencesResolve /\ CurrentInv
  BY DEF ReferencesResolve, CurrentInv, Reviewed, Stored
<1>6. OperationsInv
  BY DEF OperationsInv, OperationInv, NoOperation, Exists
<1>7. WorkflowsInv /\ WorkflowsEndOnce
  BY DEF WorkflowsInv, WorkflowsEndOnce, Created, NoWorkflow
<1>8. ReplaysStayDry /\ InterfacesInv /\ InterfacesAgree
  BY DEF ReplaysStayDry, InterfacesInv, InterfacesAgree
<1> QED BY <1>4, <1>5, <1>6, <1>7, <1>8 DEF IInv

\* Every step keeps every part.
LEMMA NextIInv == IInv /\ [Next]_vars => IInv'
<1> SUFFICES ASSUME IInv, [Next]_vars PROVE IInv'
  OBVIOUS
<1>1. CompositionTypeOK'
  BY CompositionType DEF IInv
<1>2. ReferencesResolve' /\ CurrentInv' /\ OperationsInv'
  BY ReferencesStay, CurrentStays, OperationsInvStays DEF IInv
<1>3. WorkflowsInv' /\ WorkflowsEndOnce'
  BY WorkflowsInvStays, WorkflowsStayEnded DEF IInv
<1>4. ReplaysStayDry'
  BY ReplaysStay DEF IInv
<1>5. InterfacesInv' /\ InterfacesAgree'
  BY InterfacesStay
<1> QED BY <1>1, <1>2, <1>3, <1>4, <1>5 DEF IInv

\* The invariant holds in every state of every behaviour.
THEOREM Invariance == Spec => []IInv
BY InitIInv, NextIInv, PTL DEF Spec

\* The rows of the registry, workflows, interfaces and replays keep their types.
THEOREM CompositionTypeCorrect == Spec => []CompositionTypeOK
<1>1. IInv => CompositionTypeOK
  BY DEF IInv
<1> QED BY <1>1, Invariance, PTL

\* Every schema a minted snapshot refers to can be read, for ever.
THEOREM ReferencesAlwaysResolve == Spec => []ReferencesResolve
<1>1. IInv => ReferencesResolve
  BY DEF IInv
<1> QED BY <1>1, Invariance, PTL

\* No registration, activation or rejection makes a waiting approval fail on its
\* own diff or schema: its snapshot is minted, so its schema resolves.
THEOREM ApprovalsAlwaysConsumable == Spec => []ApprovalsStayConsumable
<1>1. IInv => ApprovalsStayConsumable
  <2> SUFFICES ASSUME IInv, NEW o \in Operations, operation[o].state = "awaiting_approval"
               PROVE  /\ Consumable(o)
                      /\ operation[o].anchors = {"gate", "slice"}
                      /\ GateRow(operation[o].request).mode = "diff"
    BY DEF ApprovalsStayConsumable
  <2>1. /\ operation[o].anchors = {"gate", "slice"} /\ operation[o].request.send
        /\ operation[o].diff = Descriptor(o) /\ operation[o].diff # NoSchema
        /\ operation[o].pinned \in minted
    BY DEF IInv, OperationsInv, OperationInv, Exists
  <2>2. Stored(operation[o].diff)
    BY <2>1 DEF IInv, ReferencesResolve, Descriptor
  <2> QED BY <2>1, <2>2 DEF Consumable, GateRow
<1> QED BY <1>1, Invariance, PTL

\* Operations, workflows and interfaces never run under, nor show, a snapshot
\* that was not reviewed.
THEOREM PinsAlwaysReviewed == Spec => []PinsAreReviewed
<1>1. IInv => PinsAreReviewed
  <2> SUFFICES ASSUME IInv PROVE PinsAreReviewed
    OBVIOUS
  <2>1. PinnedIsReviewed
    BY DEF IInv, OperationsInv, OperationInv, PinnedIsReviewed
  <2>2. \A w \in Workflows : Created(w) => Reviewed(workflow[w].pinned)
    BY DEF IInv, WorkflowsInv
  <2>3. ASSUME NEW i \in Interfaces, interface[i] # NoInterface
        PROVE  Reviewed(interface[i].pinned)
    <3>1. CASE interface[i].workflow = NoParent
      <4>1. PICK o \in Operations : o = interface[i].operation
        BY <2>3, <3>1 DEF IInv, InterfacesInv
      <4>2. Exists(o) /\ interface[i].pinned = operation[o].pinned
        BY <2>3, <3>1, <4>1 DEF IInv, InterfacesAgree, Anchored
      <4> QED BY <4>2 DEF IInv, OperationsInv, OperationInv
    <3>2. CASE interface[i].workflow # NoParent
      <4>1. PICK w \in Workflows : w = interface[i].workflow
        BY <3>2 DEF IInv, CompositionTypeOK, InterfaceRows
      <4>2. Created(w) /\ interface[i].pinned = workflow[w].pinned
        BY <2>3, <3>2, <4>1 DEF IInv, InterfacesInv, InterfacesAgree
      <4> QED BY <2>2, <4>2
    <3> QED BY <3>1, <3>2
  <2> QED BY <2>1, <2>2, <2>3 DEF PinsAreReviewed
<1> QED BY <1>1, Invariance, PTL

\* A workflow instance leaves its state once, however cancellations overlap.
THEOREM WorkflowsAlwaysEndOnce == Spec => []WorkflowsEndOnce
<1>1. IInv => WorkflowsEndOnce
  BY DEF IInv
<1> QED BY <1>1, Invariance, PTL

\* An interface agrees with its subject for ever.
THEOREM InterfacesAlwaysAgree == Spec => []InterfacesAgree
<1>1. IInv => InterfacesAgree
  BY DEF IInv
<1> QED BY <1>1, Invariance, PTL

\* A replay stays over, dry and under its source's pins.
THEOREM ReplaysAlwaysStayDry == Spec => []ReplaysStayDry
<1>1. IInv => ReplaysStayDry
  BY DEF IInv
<1> QED BY <1>1, Invariance, PTL

===============================================================================
