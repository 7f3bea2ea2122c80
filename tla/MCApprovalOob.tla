---------------------------- MODULE MCApprovalOob ----------------------------
(* Instance of ApprovalOob for TLC.                                        *)
EXTENDS ApprovalOob, TLC

CONSTANTS a1, a2, a3, c1, c2, c3

MCApprovals == {a1, a2, a3}
MCOobRequired == {a1, a2}
MCChallenges == {c1, c2, c3}

Symmetric == Permutations(MCOobRequired) \cup Permutations(MCChallenges)
=============================================================================
