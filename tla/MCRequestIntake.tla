--------------------------- MODULE MCRequestIntake ---------------------------
(* Instance of RequestIntake for TLC.                                      *)
EXTENDS RequestIntake, TLC

CONSTANTS r1, r2, r3, k1, q1, q2

MCRequests == {r1, r2, r3}
MCKeys == {k1}
MCRequestIds == {q1, q2}

Symmetric == Permutations(MCRequests) \cup Permutations(MCRequestIds)
=============================================================================
