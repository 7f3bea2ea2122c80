--------------------------- MODULE OperationStore ---------------------------
(***************************************************************************)
(* The durable rows of one governed operation and the storage transactions *)
(* that more than one handler of the daemon runs on them.  Every method of *)
(* SqliteStorage modelled here is one SQLite transaction, so it is one     *)
(* atomic step.                                                            *)
(*                                                                         *)
(* The code names rows with fresh v4 uuids.  Here an operation is named by *)
(* the POST /v1/requests invocation that inserted it, and an approval item *)
(* by the invocation that inserted it: an invocation inserts at most one   *)
(* of each.                                                                *)
(***************************************************************************)
EXTENDS Naturals, FiniteSets

CONSTANTS
  Requests,   \* the POST /v1/requests invocations the daemon ever serves
  NoRow       \* the value of a reference that names no row

ASSUME NoRowAssumption == NoRow \notin Requests

VARIABLES
  operation,    \* operations.state of each operation, or "absent"
  transitions,  \* the (from, to) pairs of operation_transitions
  anchors,      \* the audit anchors stored for each operation
  approval      \* the approval_items row each invocation inserted

storeVars == <<operation, transitions, anchors, approval>>

-----------------------------------------------------------------------------

TerminalStates == {"completed", "failed", "blocked", "cancelled"}
OperationStates ==
  {"absent", "created", "awaiting_approval", "running"} \cup TerminalStates

\* Both unique per operation, and written in this order by the submit handler.
Anchors == {"gate", "slice", "reasoning"}

ApprovalRows ==
  [op : Requests \cup {NoRow},
   status : {"absent", "pending", "consumed", "denied"}]
NoApproval == [op |-> NoRow, status |-> "absent"]

StoreTypeOK ==
  /\ operation \in [Requests -> OperationStates]
  /\ transitions \in [Requests -> SUBSET (OperationStates \X OperationStates)]
  /\ anchors \in [Requests -> SUBSET Anchors]
  /\ approval \in [Requests -> ApprovalRows]

ApprovalsOf(o) == {a \in Requests : approval[a].op = o}

-----------------------------------------------------------------------------

\* Write the current row and append the transition record in one transaction.
RecordState(o, s) ==
  /\ operation' = [operation EXCEPT ![o] = s]
  /\ transitions' = [transitions EXCEPT ![o] = @ \cup {<<operation[o], s>>}]

\* Whatever the current state is, the new one is written: the method has no
\* condition on the state it leaves.
UpdateOperationState(o, s) ==
  /\ operation[o] # "absent"
  /\ RecordState(o, s)

MayCancel(o) == operation[o] \notin TerminalStates \cup {"absent"}

\* POST /v1/operations/{id}/cancel.  A replay under a stored idempotency key
\* and a refusal (not found, already terminal) change no row.
CancelOperation(o) ==
  /\ MayCancel(o)
  /\ RecordState(o, "cancelled")
  /\ UNCHANGED <<anchors, approval>>

=============================================================================
