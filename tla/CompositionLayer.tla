--------------------------- MODULE CompositionLayer ---------------------------
(***************************************************************************)
(* What is composed from operations over the capability registry: workflow *)
(* instances, the interface instances that show an operation or a          *)
(* workflow, and replay dry runs.  Each of them pins a snapshot or copies  *)
(* pins, while the owner moves the current version underneath.             *)
(*                                                                         *)
(* A spec stands for its reference: both are named by the hash of the      *)
(* payload.  Every storage method is one transaction; a replay under a     *)
(* stored idempotency key changes no row.  The handler of an interface     *)
(* reads an operation, its gate decision and its slice one after the       *)
(* other, but none of the three changes once it is there, so reading and   *)
(* storing is one action.  The steps of a workflow are stored as pending   *)
(* with the instance and nothing in the code moves them on.                *)
(***************************************************************************)
EXTENDS CapabilityRegistry, Sequences

CONSTANTS
  WorkflowSpecs,   \* workflow spec payloads
  InterfaceSpecs,  \* interface spec payloads
  Workflows,       \* workflow instances ever created
  Interfaces,      \* interface instances ever created
  NoSpec,          \* no instance
  NoParent         \* no operation, no workflow

ASSUME CompositionAssumption ==
  /\ NoSpec \notin WorkflowSpecs \cup InterfaceSpecs
  /\ NoParent \notin Operations \cup Workflows

VARIABLES
  registered,  \* workflow_specs and interface_specs
  workflow,    \* workflow_instances, with workflow_instance_transitions as trail
  interface,   \* interface_instances
  source       \* history: the operation of which each operation is a replay

compositionVars == <<registered, workflow, interface, source>>
vars == <<registryVars, compositionVars>>

-----------------------------------------------------------------------------

WorkflowRows ==
  [spec : WorkflowSpecs \cup {NoSpec},
   parent : Operations \cup {NoParent},
   pinned : Versions \cup {NoVersion},
   state : {"absent", "created", "cancelled"},
   trail : Seq({"created", "cancelled"})]
NoWorkflow ==
  [spec |-> NoSpec, parent |-> NoParent, pinned |-> NoVersion,
   state |-> "absent", trail |-> <<>>]

Gates == {GateRow(r) : r \in Requests}
NoGate == [risk |-> 0, sensitivity |-> 0, max |-> 0, mode |-> "none"]

InterfaceRows ==
  [spec : InterfaceSpecs \cup {NoSpec},
   operation : Operations \cup {NoParent},
   workflow : Workflows \cup {NoParent},
   pinned : Versions \cup {NoVersion},
   gate : Gates \cup {NoGate}]
NoInterface ==
  [spec |-> NoSpec, operation |-> NoParent, workflow |-> NoParent,
   pinned |-> NoVersion, gate |-> NoGate]

CompositionTypeOK ==
  /\ RegistryTypeOK
  /\ registered \subseteq WorkflowSpecs \cup InterfaceSpecs
  /\ workflow \in [Workflows -> WorkflowRows]
  /\ interface \in [Interfaces -> InterfaceRows]
  /\ source \in [Operations -> Operations \cup {NoParent}]

\* Nothing is composed yet.
Init ==
  /\ RegistryInit
  /\ registered = {}
  /\ workflow = [w \in Workflows |-> NoWorkflow]
  /\ interface = [i \in Interfaces |-> NoInterface]
  /\ source = [o \in Operations |-> NoParent]

-----------------------------------------------------------------------------
(* Specs and workflow instances                                            *)

\* register_workflow_spec, register_interface_spec: a spec that is there stays.
RegisterSpec(s) ==
  /\ registered' = registered \cup {s}
  /\ UNCHANGED <<registryVars, workflow, interface, source>>

Created(w) == workflow[w].state # "absent"
Exists(o) == operation[o].state # "absent"

\* The spec must be registered, and the parent, if there is one, be stored: the
\* foreign key.  The parent's pins are not looked at.
CreateWorkflow(w, s, parent) ==
  /\ ~Created(w)
  /\ s \in registered
  /\ parent # NoParent => Exists(parent)
  /\ workflow' = [workflow EXCEPT ![w] =
       [spec |-> s, parent |-> parent, pinned |-> current,
        state |-> "created", trail |-> <<"created">>]]
  /\ UNCHANGED <<registryVars, registered, interface, source>>

\* Variant: compares with the expected state only.
AsExpected(w, expected) == workflow[w].state = expected
\* update_workflow_instance_state: the state is as the caller expects and is
\* not terminal.
MayMove(w, expected) ==
  /\ workflow[w].state = expected
  /\ expected # "cancelled"

\* The handler read the state in an earlier transaction: any of the trail.
CancelWorkflow(w) ==
  /\ \E n \in DOMAIN workflow[w].trail : MayMove(w, workflow[w].trail[n])
  /\ workflow' = [workflow EXCEPT ![w] =
       [@ EXCEPT !.state = "cancelled",
                 !.trail = Append(workflow[w].trail, "cancelled")]]
  /\ UNCHANGED <<registryVars, registered, interface, source>>

-----------------------------------------------------------------------------
(* Interface instances                                                     *)

Anchored(o) == Exists(o) /\ operation[o].anchors = {"gate", "slice"}

\* What create_interface_instance shows of an operation.  The workflow id of a
\* request that names both is dropped.
ShowOperation(i, s, o) ==
  /\ interface[i] = NoInterface
  /\ s \in registered
  /\ Anchored(o)
  /\ interface' = [interface EXCEPT ![i] =
       [spec |-> s, operation |-> o, workflow |-> NoParent,
        pinned |-> operation[o].pinned, gate |-> GateRow(operation[o].request)]]
  /\ UNCHANGED <<registryVars, registered, workflow, source>>

\* Variant: the pins of the parent operation.
ParentPins(w) == operation[workflow[w].parent].pinned
WorkflowPins(w) == workflow[w].pinned

\* What it shows of a workflow: its own pins, and the gate of its parent, which
\* it must have.
ShowWorkflow(i, s, w) ==
  /\ interface[i] = NoInterface
  /\ s \in registered
  /\ Created(w) /\ workflow[w].parent # NoParent
  /\ Anchored(workflow[w].parent)
  /\ interface' = [interface EXCEPT ![i] =
       [spec |-> s, operation |-> NoParent, workflow |-> w,
        pinned |-> WorkflowPins(w),
        gate |-> GateRow(operation[workflow[w].parent].request)]]
  /\ UNCHANGED <<registryVars, registered, workflow, source>>

-----------------------------------------------------------------------------
(* Replay dry runs                                                         *)

\* Variant: the whole row of the source, its state included.
WholeRow(o) == [operation[o] EXCEPT !.anchors = {}, !.diff = NoSchema]
\* The row of a replay: over from the start, under the pins of its source.
ReplayRow(o) ==
  [NoOperation EXCEPT !.state = "completed", !.pinned = operation[o].pinned]

\* create_replay_dry_run: the source has both anchors; its state, and whether
\* it has an outcome yet, are not looked at.
CreateReplay(o, p) ==
  /\ Anchored(o)
  /\ ~Exists(p)
  /\ operation' = [operation EXCEPT ![p] = ReplayRow(o)]
  /\ source' = [source EXCEPT ![p] = o]
  /\ UNCHANGED <<entry, minted, current, item, registered, workflow, interface>>

-----------------------------------------------------------------------------

Workflow ==
  \E w \in Workflows :
    \/ \E s \in WorkflowSpecs, parent \in Operations \cup {NoParent} :
         CreateWorkflow(w, s, parent)
    \/ CancelWorkflow(w)

Show ==
  \E i \in Interfaces, s \in InterfaceSpecs :
    \/ \E o \in Operations : ShowOperation(i, s, o)
    \/ \E w \in Workflows : ShowWorkflow(i, s, w)

Next ==
  \/ RegistryNext /\ UNCHANGED compositionVars
  \/ \E s \in WorkflowSpecs \cup InterfaceSpecs : RegisterSpec(s)
  \/ Workflow
  \/ Show
  \/ \E o, p \in Operations : CreateReplay(o, p)

Spec == Init /\ [][Next]_vars

-----------------------------------------------------------------------------

\* Workflows, like operations, run under a reviewed snapshot, and an interface
\* shows none that was not reviewed, whatever is proposed, applied or rejected
\* in between.
PinsAreReviewed ==
  /\ PinnedIsReviewed
  /\ \A w \in Workflows : Created(w) => Reviewed(workflow[w].pinned)
  /\ \A i \in Interfaces : interface[i] # NoInterface => Reviewed(interface[i].pinned)

\* However cancellations with an outdated view overlap, an instance leaves its
\* state once, and its trail ends in the state it shows
\* (storage_provider_port_contract.md 21.6).
WorkflowsEndOnce ==
  \A w \in Workflows :
    Created(w) =>
      workflow[w].trail = IF workflow[w].state = "created" THEN <<"created">>
                          ELSE <<"created", "cancelled">>

\* What an interface shows stays what its subject was stored with: the pins of
\* the operation or the workflow it is bound to, exactly one of them, and the
\* gate decision of an operation that was asked for something and is anchored
\* (storage_provider_port_contract.md 21.11).
InterfacesAgree ==
  \A i \in Interfaces :
    interface[i] # NoInterface =>
      /\ (interface[i].operation = NoParent) # (interface[i].workflow = NoParent)
      /\ LET w == interface[i].workflow
             o == IF w = NoParent THEN interface[i].operation ELSE workflow[w].parent
         IN /\ Anchored(o) /\ source[o] = NoParent
            /\ interface[i].gate = GateRow(operation[o].request)
            /\ interface[i].pinned = IF w = NoParent THEN operation[o].pinned
                                     ELSE workflow[w].pinned

\* A replay stays over, under the pins of an anchored original: it never gets a
\* gate decision, waits for an approval or acts
\* (storage_semantics_txn.md:398-407).
ReplaysStayDry ==
  \A p \in Operations :
    source[p] # NoParent =>
      /\ operation[p].state = "completed" /\ operation[p].anchors = {}
      /\ Anchored(source[p]) /\ source[source[p]] = NoParent
      /\ operation[p].pinned = operation[source[p]].pinned

=============================================================================
