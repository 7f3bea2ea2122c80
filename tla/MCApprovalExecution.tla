------------------------- MODULE MCApprovalExecution -------------------------
(* Instances of ApprovalExecution for TLC.                                 *)
EXTENDS ApprovalExecution, TLC

CONSTANTS r1, r2, d1, d2, d3, k1

MCOneOperation == {r1}
MCOneDecision == {d1}
MCDecisions == {d1, d2}
MCThreeDecisions == {d1, d2, d3}
MCKeys == {k1}

Symmetric == Permutations(MCThreeDecisions)
=============================================================================
