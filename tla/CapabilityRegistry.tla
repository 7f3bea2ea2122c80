-------------------------- MODULE CapabilityRegistry --------------------------
(***************************************************************************)
(* Schemas, capability snapshots and the review queue that activates a     *)
(* snapshot, with the operations that pin one: the rows an approval needs  *)
(* to find again when it is decided, long after it was compiled by the     *)
(* kernel for the pinned snapshot.  Every method is one SQLite             *)
(* transaction.  A replay under a stored idempotency key and a refused     *)
(* call change no row.                                                     *)
(*                                                                         *)
(* A schema payload stands for its schema_ref and a snapshot payload for   *)
(* its version: both are named by a hash of their content.  Of a snapshot  *)
(* only the schema of its email/send action matters here; it stands for    *)
(* the args and result schemas of every action.  Of a request only the     *)
(* words and attachments the kernel looks for matter.                      *)
(***************************************************************************)
EXTENDS Naturals

CONSTANTS
  Schemas,     \* schema payloads
  Names,       \* pairs of name and semver
  NoName,      \* not stored
  BootSchema,  \* the schema stored at start ...
  BootName,    \* ... and its name
  NoSchema,    \* a snapshot without the action
  Versions,    \* capability snapshots
  Bootstrap,   \* the snapshot stored and current at start
  NoVersion,   \* no snapshot
  SendSchema,  \* the schema each snapshot refers to
  DiffSupported,  \* the snapshots whose send action supports a diff
  Requests,    \* what an operation may be asked for
  NoRequest,   \* nothing: the operation is not there, or is a replay
  Items,       \* review items ever inserted
  Operations   \* operations ever created

ASSUME RegistryAssumption ==
  /\ BootSchema \in Schemas /\ NoSchema \notin Schemas
  /\ BootName \in Names /\ NoName \notin Names
  /\ Bootstrap \in Versions /\ NoVersion \notin Versions
  /\ SendSchema \in [Versions -> Schemas \cup {NoSchema}]
  /\ SendSchema[Bootstrap] = BootSchema
  /\ DiffSupported \subseteq Versions
  /\ Requests \subseteq [send : BOOLEAN, launder : BOOLEAN, public : BOOLEAN,
                        stakes : BOOLEAN, evidence : BOOLEAN, unknown : BOOLEAN,
                        sensitivity : 0 .. 4]
  /\ NoRequest \notin Requests

VARIABLES
  entry,      \* name under which each schema is stored
  minted,     \* capability_snapshots
  current,    \* current_versions, kind "capability_snapshot"
  item,       \* review_queue_items
  operation   \* state, request, pinned version, gate decision and compiled
              \* slice (anchors) and approval diff of each operation

registryVars == <<entry, minted, current, item, operation>>

-----------------------------------------------------------------------------

ItemRows ==
  [status : {"absent", "pending", "resolved"},
   target : Versions \cup {NoVersion},
   base : Versions \cup {NoVersion},
   applied : Versions \cup {NoVersion}]
NoItem == [status |-> "absent", target |-> NoVersion,
           base |-> NoVersion, applied |-> NoVersion]

OperationStates ==
  {"absent", "created", "blocked", "completed", "awaiting_approval", "running"}
OperationRows ==
  [state : OperationStates,
   request : Requests \cup {NoRequest},
   pinned : Versions \cup {NoVersion},
   anchors : SUBSET {"gate", "slice"},
   diff : Schemas \cup {NoSchema}]
NoOperation ==
  [state |-> "absent", request |-> NoRequest, pinned |-> NoVersion,
   anchors |-> {}, diff |-> NoSchema]

RegistryTypeOK ==
  /\ entry \in [Schemas -> Names \cup {NoName}]
  /\ minted \subseteq Versions
  /\ current \in Versions
  /\ item \in [Items -> ItemRows]
  /\ operation \in [Operations -> OperationRows]

\* The migration and the two ensure_bootstrap steps of every start.
RegistryInit ==
  /\ entry = [s \in Schemas |-> IF s = BootSchema THEN BootName ELSE NoName]
  /\ minted = {Bootstrap}
  /\ current = Bootstrap
  /\ item = [i \in Items |-> NoItem]
  /\ operation = [o \in Operations |-> NoOperation]

-----------------------------------------------------------------------------

Stored(s) == entry[s] # NoName

\* What INSERT OR IGNORE ignores: a taken schema_ref, or a taken name/semver.
Insertable(s, n) == ~Stored(s) /\ \A t \in Schemas : entry[t] # n

\* Either way the caller is answered with the schema_ref of its payload, so an
\* answer does not mean that the payload is stored.
RegisterSchema(s, n) ==
  /\ entry' = IF Insertable(s, n) THEN [entry EXCEPT ![s] = n] ELSE entry
  /\ UNCHANGED <<minted, current, item, operation>>

\* Variant: references are taken on trust.
AnyReference(v) == v \in Versions
\* Every schema the snapshot refers to is stored.
ReferencesStored(v) == SendSchema[v] # NoSchema => Stored(SendSchema[v])

MintSnapshot(v) ==
  /\ ReferencesStored(v)
  /\ minted' = minted \cup {v}
  /\ UNCHANGED <<entry, current, item, operation>>

\* A minted version that is not current yet.
Activatable(v) == v \in minted /\ v # current

Propose(i, v) ==
  item' = [item EXCEPT ![i] =
    [status |-> "pending", target |-> v, base |-> current, applied |-> NoVersion]]

\* Variant: the pointer moves when the review is asked for.
ActivateAtOnce(i, v) ==
  /\ item[i].status = "absent"
  /\ Activatable(v)
  /\ Propose(i, v)
  /\ current' = v
  /\ UNCHANGED <<entry, minted, operation>>

\* Ask for a review; the version current now is noted as its base.
CreateReviewItem(i, v) ==
  /\ item[i].status = "absent"
  /\ Activatable(v)
  /\ Propose(i, v)
  /\ UNCHANGED <<entry, minted, current, operation>>

Resolve(i, applied) ==
  /\ item[i].status = "pending"
  /\ item' = [item EXCEPT ![i] =
       [@ EXCEPT !.status = "resolved", !.applied = applied]]
  /\ UNCHANGED <<entry, minted, operation>>

\* Approve or edit: the payload of the decision, if it has one, replaces the
\* proposal.  The noted base is not looked at.
ApplyReviewItem(i, v) ==
  /\ v \in minted
  /\ Resolve(i, v)
  /\ current' = v

\* Variant: a rejection applies the nothing it decided.
RejectApplies(i) == Resolve(i, NoVersion) /\ current' = NoVersion
RejectReviewItem(i) == Resolve(i, NoVersion) /\ UNCHANGED current

-----------------------------------------------------------------------------

\* create_operation_bundle pins the current version.
PinVersion(o, r) ==
  /\ operation[o].state = "absent"
  /\ operation' = [operation EXCEPT ![o] =
       [NoOperation EXCEPT !.state = "created", !.request = r, !.pinned = current]]
  /\ UNCHANGED <<entry, minted, current, item>>

\* Variant: the action is looked up in the current snapshot.
DescriptorNow(o) == SendSchema[current]
\* The action's descriptor in the pinned snapshot.
Descriptor(o) == SendSchema[operation[o].pinned]

\* compile_and_verify_stub
GateRow(r) ==
  LET risk == IF r.send THEN 3 ELSE 1
  IN [risk |-> risk, sensitivity |-> r.sensitivity,
      max |-> IF risk > r.sensitivity THEN risk ELSE r.sensitivity,
      mode |-> IF r.send THEN "diff" ELSE "none"]

CannotSend(o) ==
  /\ operation[o].request.send
  /\ Descriptor(o) = NoSchema \/ operation[o].pinned \notin DiffSupported
Refused(o) ==
  LET r == operation[o].request
  IN \/ r.launder \/ (r.sensitivity >= 3 /\ r.public)
     \/ CannotSend(o)
     \/ r.stakes /\ ~r.evidence
     \/ r.unknown

\* put_gate_decision, then put_compiled_slice: a second row is refused.
PutAnchor(o) ==
  /\ operation[o].state = "created"
  /\ operation[o].anchors # {"gate", "slice"}
  /\ operation' = [operation EXCEPT ![o].anchors =
       IF @ = {} THEN {"gate"} ELSE {"gate", "slice"}]
  /\ UNCHANGED <<entry, minted, current, item>>

\* The outcome of the submit handler; the descriptor's schema becomes part of
\* the approval's diff.
FinishCompile(o) ==
  LET waits == operation[o].request.send /\ ~Refused(o)
  IN /\ operation[o].state = "created"
     /\ operation[o].anchors = {"gate", "slice"}
     /\ operation' = [operation EXCEPT ![o] =
          [@ EXCEPT !.state = IF Refused(o) THEN "blocked"
                              ELSE IF waits THEN "awaiting_approval" ELSE "completed",
                    !.diff = IF waits THEN Descriptor(o) ELSE NoSchema]]
     /\ UNCHANGED <<entry, minted, current, item>>

\* consume_approval_atomic can go on: the diff agrees with the descriptor and
\* the schema the arguments are validated against is there.
Consumable(o) ==
  /\ operation[o].diff = Descriptor(o)
  /\ operation[o].diff # NoSchema
  /\ Stored(operation[o].diff)

ConsumeApproval(o) ==
  /\ operation[o].state = "awaiting_approval"
  /\ Consumable(o)
  /\ operation' = [operation EXCEPT ![o].state = "running"]
  /\ UNCHANGED <<entry, minted, current, item>>

DenyApproval(o) ==
  /\ operation[o].state = "awaiting_approval"
  /\ operation' = [operation EXCEPT ![o].state = "blocked"]
  /\ UNCHANGED <<entry, minted, current, item>>

-----------------------------------------------------------------------------

Registry ==
  \/ \E s \in Schemas, n \in Names : RegisterSchema(s, n)
  \/ \E v \in Versions : MintSnapshot(v)

Review ==
  \E i \in Items :
    \/ \E v \in Versions : CreateReviewItem(i, v) \/ ApplyReviewItem(i, v)
    \/ RejectReviewItem(i)

Operate ==
  \E o \in Operations :
    \/ \E r \in Requests : PinVersion(o, r)
    \/ PutAnchor(o) \/ FinishCompile(o) \/ ConsumeApproval(o) \/ DenyApproval(o)

RegistryNext == Registry \/ Review \/ Operate

-----------------------------------------------------------------------------

\* Every schema a minted snapshot refers to can be read, for ever: no later
\* registration, under whatever name, takes it away again
\* (storage_semantics_txn.md 1.2).
ReferencesResolve ==
  \A v \in minted : SendSchema[v] # NoSchema => Stored(SendSchema[v])

\* Nothing that is registered, minted, activated or rejected while an approval
\* waits makes its decision fail on its own diff or schema, and none waits
\* without both anchors or under a gate decision that asks for no diff.
ApprovalsStayConsumable ==
  \A o \in Operations :
    operation[o].state = "awaiting_approval" =>
      /\ Consumable(o)
      /\ operation[o].anchors = {"gate", "slice"}
      /\ GateRow(operation[o].request).mode = "diff"

\* The bootstrap snapshot, or one the owner applied.
Reviewed(v) ==
  v = Bootstrap \/ \E i \in Items : item[i].status = "resolved" /\ item[i].applied = v

\* An operation runs under a reviewed snapshot.
PinnedIsReviewed ==
  \A o \in Operations :
    operation[o].pinned # NoVersion => Reviewed(operation[o].pinned)

=============================================================================
