------------------------ MODULE MCOperationLifecycle ------------------------
(* Instances of OperationLifecycle for TLC.                                 *)
EXTENDS OperationLifecycle, TLC

CONSTANTS r1, r2, d1, d2, k1, q1

MCRequests == {r1, r2}
MCOneDecision == {d1}
MCDecisions == {d1, d2}
MCKeys == {k1}
MCOneId == {q1}

Symmetric == Permutations(MCDecisions) \cup Permutations(MCRequests)
=============================================================================
