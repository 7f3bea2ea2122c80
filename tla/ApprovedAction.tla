--------------------------- MODULE ApprovedAction ---------------------------
(***************************************************************************)
(* What the approval and execution code promises of each side effect, with *)
(* no handler, lease or crash in sight: it happens only after the owner    *)
(* approved it, in one period of attempts of bounded number, and its       *)
(* recorded result is final and honest.  ApprovalExecution implements this *)
(* module.                                                                 *)
(***************************************************************************)
EXTENDS Naturals

CONSTANTS
  Actions,   \* the side effects somebody asks for
  MaxCalls   \* attempts an approval allows

VARIABLES
  phase,     \* what is recorded of each action
  calls      \* how often the outside world saw it

vars == <<phase, calls>>

Phases == {"undecided", "denied", "approved", "attempted", "succeeded", "failed"}

Init ==
  /\ phase = [a \in Actions |-> "undecided"]
  /\ calls = [a \in Actions |-> 0]

Move(a, from, to) ==
  /\ phase[a] = from
  /\ phase' = [phase EXCEPT ![a] = to]
  /\ UNCHANGED calls

Decide(a) == Move(a, "undecided", "denied") \/ Move(a, "undecided", "approved")

Start(a) == Move(a, "approved", "attempted")

Act(a) ==
  /\ phase[a] = "attempted"
  /\ calls[a] < MaxCalls
  /\ calls' = [calls EXCEPT ![a] = @ + 1]
  /\ UNCHANGED phase

Finish(a) ==
  \/ calls[a] > 0 /\ Move(a, "attempted", "succeeded")
  \/ Move(a, "attempted", "failed")

Next == \E a \in Actions : Decide(a) \/ Start(a) \/ Act(a) \/ Finish(a)

Spec == Init /\ [][Next]_vars

=============================================================================
