---------------------------- MODULE RequestIntake ----------------------------
(***************************************************************************)
(* POST /v1/requests: the submit handler, run by any number of concurrent  *)
(* invocations, some of them retries under one idempotency key.  The       *)
(* handler is a sequence of separate storage transactions with model and   *)
(* network calls between them; other invocations, the cancel endpoint, a   *)
(* storage error, a dropped connection or the end of the process can come  *)
(* between any two.                                                        *)
(***************************************************************************)
EXTENDS OperationStore

CONSTANTS
  Keys,        \* values of the idempotency-key header
  NoKey,       \* no header
  RequestIds,  \* values of RequestEnvelope.request_id
  MaxAborts    \* bound: handlers that stop half-way

ASSUME IntakeAssumption ==
  /\ NoKey \notin Keys
  /\ NoRow \notin RequestIds
  /\ MaxAborts \in Nat

VARIABLES
  requestEvents,  \* request ids with an "event:request:{id}" row
  idempotency,    \* primary_operation_id stored under each key
  submit,         \* progress and locals of each submit invocation
  aborts          \* handlers stopped half-way so far

intakeVars == <<requestEvents, idempotency, submit, aborts>>
vars == <<storeVars, intakeVars>>

-----------------------------------------------------------------------------

\* What compile_and_verify_stub may decide, named by the state it leads to.
Outcomes == {"completed", "awaiting_approval", "blocked"}

\* Steps an invocation may be about to take.  From "slice" on it has inserted
\* the gate decision of its operation.
AfterGate == {"slice", "generate", "finish", "promote"}
Active == {"load", "gate"} \cup AfterGate
Answered == {"accepted", "rejected", "conflict", "aborted"}

SubmitStates ==
  [pc : {"idle"} \cup Active \cup Answered,
   op : Requests \cup {NoRow},
   key : Keys \cup {NoKey},
   id : RequestIds \cup {NoRow},
   outcome : Outcomes \cup {NoRow}]

NotSubmitted ==
  [pc |-> "idle", op |-> NoRow, key |-> NoKey, id |-> NoRow, outcome |-> NoRow]

IntakeTypeOK ==
  /\ StoreTypeOK
  /\ requestEvents \subseteq RequestIds
  /\ idempotency \in [Keys -> Requests \cup {NoRow}]
  /\ submit \in [Requests -> SubmitStates]
  /\ aborts \in 0 .. MaxAborts

Init ==
  /\ operation = [r \in Requests |-> "absent"]
  /\ transitions = [r \in Requests |-> {}]
  /\ anchors = [r \in Requests |-> {}]
  /\ approval = [r \in Requests |-> NoApproval]
  /\ requestEvents = {}
  /\ idempotency = [k \in Keys |-> NoRow]
  /\ submit = [r \in Requests |-> NotSubmitted]
  /\ aborts = 0

-----------------------------------------------------------------------------

Goto(r, pc) == submit' = [submit EXCEPT ![r].pc = pc]

\* The row create_operation_bundle finds under the key, if any.
Stored(k) == IF k \in Keys THEN idempotency[k] ELSE NoRow

\* A retry: the stored response is returned and nothing is written.
ReplaySubmit(r, k, q) ==
  /\ submit[r].pc = "idle"
  /\ Stored(k) # NoRow
  /\ submit' = [submit EXCEPT ![r] =
       [NotSubmitted EXCEPT !.pc = "load", !.op = Stored(k), !.key = k, !.id = q]]
  /\ UNCHANGED <<storeVars, requestEvents, idempotency, aborts>>

\* Variant: the request event has a random key.
FreshIdUnchecked(q) == q \in RequestIds
\* The primary key of the request event is free.
FreshId(q) == q \notin requestEvents

\* Variant: the idempotency row is forgotten.
StoreNoResponse(r, k) == UNCHANGED idempotency
StoreResponse(r, k) ==
  idempotency' = [j \in Keys |-> IF j = k THEN r ELSE idempotency[j]]

\* One transaction: request event, operation row, first transition, audit
\* trace and idempotency row.  The event's primary key is derived from the
\* request id, so a second bundle for one request id is refused.
AcceptSubmit(r, k, q) ==
  /\ submit[r].pc = "idle"
  /\ Stored(k) = NoRow
  /\ FreshId(q)
  /\ RecordState(r, "created")
  /\ requestEvents' = requestEvents \cup {q}
  /\ StoreResponse(r, k)
  /\ submit' = [submit EXCEPT ![r] =
       [NotSubmitted EXCEPT !.pc = "load", !.op = r, !.key = k, !.id = q]]
  /\ UNCHANGED <<anchors, approval, aborts>>

RejectSubmit(r, k, q) ==
  /\ submit[r].pc = "idle"
  /\ Stored(k) = NoRow
  /\ ~FreshId(q)
  /\ submit' = [submit EXCEPT ![r] =
       [NotSubmitted EXCEPT !.pc = "rejected", !.key = k, !.id = q]]
  /\ UNCHANGED <<storeVars, requestEvents, idempotency, aborts>>

\* Only an operation still in "created" is worked on; otherwise the stored
\* response is the answer.  Compilation is pure: its outcome is chosen here.
LoadOperation(r) ==
  /\ submit[r].pc = "load"
  /\ IF operation[submit[r].op] # "created"
       THEN Goto(r, "accepted")
       ELSE \E outcome \in Outcomes :
              submit' = [submit EXCEPT ![r].pc = "gate", ![r].outcome = outcome]
  /\ UNCHANGED <<storeVars, requestEvents, idempotency, aborts>>

\* Variant: the tables have no unique key.
AnchorAlwaysFree(o, a) == a \in Anchors
\* gate_decisions.operation_id and compiled_slices.operation_id are UNIQUE.
AnchorFree(o, a) == a \notin anchors[o]

\* Insert an anchor row; a unique-key failure ends the handler with a 500.
PutAnchor(r, a, next) ==
  LET o == submit[r].op
  IN  /\ IF AnchorFree(o, a)
           THEN /\ anchors' = [anchors EXCEPT ![o] = @ \cup {a}]
                /\ Goto(r, next)
           ELSE /\ Goto(r, "conflict")
                /\ UNCHANGED anchors
      /\ UNCHANGED <<operation, transitions, approval,
                     requestEvents, idempotency, aborts>>

PutGateDecision(r) == submit[r].pc = "gate" /\ PutAnchor(r, "gate", "slice")
PutCompiledSlice(r) == submit[r].pc = "slice" /\ PutAnchor(r, "slice", "generate")

\* Variant: the model's output is streamed but not stored.
StreamOnly(r) ==
  /\ submit[r].pc = "generate"
  /\ Goto(r, "finish")
  /\ UNCHANGED <<storeVars, requestEvents, idempotency, aborts>>

\* Call the model and store its output; the event has a fresh reference.
PutReasoningOutput(r) ==
  /\ submit[r].pc = "generate"
  /\ anchors' = [anchors EXCEPT ![submit[r].op] = @ \cup {"reasoning"}]
  /\ Goto(r, "finish")
  /\ UNCHANGED <<operation, transitions, approval,
                 requestEvents, idempotency, aborts>>

\* Variant: the answer is sent and the state is not written.
AnswerOnly(r) ==
  /\ submit[r].pc = "finish"
  /\ submit[r].outcome \in {"completed", "blocked"}
  /\ Goto(r, "accepted")
  /\ UNCHANGED <<storeVars, requestEvents, idempotency, aborts>>

\* CompletedDraft and Blocked: one unconditional state update ends the work.
FinishOperation(r) ==
  /\ submit[r].pc = "finish"
  /\ submit[r].outcome \in {"completed", "blocked"}
  /\ UpdateOperationState(submit[r].op, submit[r].outcome)
  /\ Goto(r, "accepted")
  /\ UNCHANGED <<anchors, approval, requestEvents, idempotency, aborts>>

\* Variant: the state is written before the item.
PromoteEarly(r) ==
  /\ submit[r].pc = "finish"
  /\ submit[r].outcome = "awaiting_approval"
  /\ UpdateOperationState(submit[r].op, "awaiting_approval")
  /\ Goto(r, "promote")
  /\ UNCHANGED <<anchors, approval, requestEvents, idempotency, aborts>>

\* AwaitingApproval: the approval item first ...
CreateApprovalItem(r) ==
  /\ submit[r].pc = "finish"
  /\ submit[r].outcome = "awaiting_approval"
  /\ approval' = [approval EXCEPT ![r] =
                    [op |-> submit[r].op, status |-> "pending"]]
  /\ Goto(r, "promote")
  /\ UNCHANGED <<operation, transitions, anchors,
                 requestEvents, idempotency, aborts>>

\* ... then the operation becomes visible as awaiting approval.
PromoteOperation(r) ==
  /\ submit[r].pc = "promote"
  /\ UpdateOperationState(submit[r].op, "awaiting_approval")
  /\ Goto(r, "accepted")
  /\ UNCHANGED <<anchors, approval, requestEvents, idempotency, aborts>>

\* A storage or model error, a dropped connection or the end of the process
\* stops the handler between two transactions; nothing undoes the earlier ones.
AbortSubmit(r) ==
  /\ submit[r].pc \in Active
  /\ aborts < MaxAborts
  /\ aborts' = aborts + 1
  /\ Goto(r, "aborted")
  /\ UNCHANGED <<storeVars, requestEvents, idempotency>>

Cancel(o) == CancelOperation(o) /\ UNCHANGED intakeVars

-----------------------------------------------------------------------------

Advance(r) ==
  \/ LoadOperation(r)
  \/ PutGateDecision(r)
  \/ PutCompiledSlice(r)
  \/ PutReasoningOutput(r)
  \/ FinishOperation(r)
  \/ CreateApprovalItem(r)
  \/ PromoteOperation(r)

Submit(r, k, q) ==
  \/ ReplaySubmit(r, k, q)
  \/ AcceptSubmit(r, k, q)
  \/ RejectSubmit(r, k, q)

Next ==
  \E r \in Requests :
    \/ \E k \in Keys \cup {NoKey}, q \in RequestIds : Submit(r, k, q)
    \/ Advance(r)
    \/ AbortSubmit(r)
    \/ Cancel(r)

Spec == Init /\ [][Next]_vars

\* The runtime polls every handler that is not dropped.
FairSpec == Spec /\ \A r \in Requests : WF_vars(Advance(r))

-----------------------------------------------------------------------------

\* At most one approval item is ever inserted for an operation, however many
\* invocations run the submit handler for it at once: the UNIQUE gate row
\* admits one of them.  A second item would let one request be sent twice.
OneApprovalPerOperation ==
  \A a, b \in Requests :
    approval[a].op # NoRow /\ approval[a].op = approval[b].op => a = b

\* Why that is so.  The gate row lets one invocation pass for each operation,
\* nobody passes before it is stored, and who inserted an item has moved on
\* while everybody else working on that operation is held before the gate.
GateAdmitsOne ==
  \A r \in Requests :
    /\ submit[r].pc \in Active => submit[r].op \in Requests
    /\ submit[r].pc \in AfterGate =>
         /\ "gate" \in anchors[submit[r].op]
         /\ \A s \in Requests :
              submit[s].pc \in AfterGate /\ submit[s].op = submit[r].op => s = r
    /\ approval[r].op # NoRow =>
         /\ "gate" \in anchors[approval[r].op]
         /\ submit[r].pc \in {"promote", "accepted", "aborted"}
         /\ \A s \in Requests :
              submit[s].pc \in AfterGate /\ submit[s].op = approval[r].op => s = r

\* An operation shows an outcome of the kernel only when the gate decision,
\* the compiled slice and the reasoning output that explain it are stored.
OutcomeIsAnchored ==
  \A o \in Requests :
    operation[o] \in Outcomes => anchors[o] = Anchors

\* An operation that waits for approval has an item the owner can decide.
\* (It could wait for ever if the item were inserted after the state.)
AwaitingHasItem ==
  \A o \in Requests :
    operation[o] = "awaiting_approval" =>
      \E a \in ApprovalsOf(o) : approval[a].status = "pending"

\* Invocations answered under one key were told the same operation.
OneAnswerPerKey ==
  \A r, s \in Requests :
    /\ submit[r].pc = "accepted" /\ submit[s].pc = "accepted"
    /\ submit[r].key = submit[s].key /\ submit[r].key # NoKey
    => submit[r].op = submit[s].op

\* A request id never has two operations, with or without keys.
OneOperationPerRequestId ==
  \A o, p \in Requests :
    /\ operation[o] # "absent" /\ operation[p] # "absent"
    /\ submit[o].id = submit[p].id
    => o = p

\* No operation stays in "created", whichever invocations race for it, except
\* behind a handler that was stopped while it worked on this operation.
CreatedIsLeft ==
  \A o \in Requests :
    operation[o] = "created" ~>
      \/ operation[o] # "created"
      \/ \E r \in Requests : submit[r].pc = "aborted" /\ submit[r].op = o

\* What storage_semantics_txn.md 4.3 and 13 ask of a repeated POST under a
\* key that has a stored response: it is answered with that response.
ReplayIsAnswered ==
  \A r \in Requests :
    submit[r].pc = "conflict" => submit[r].op = r \/ submit[r].key = NoKey

=============================================================================
