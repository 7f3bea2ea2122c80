----------------------------- MODULE MCJobQueue -----------------------------
(* Instances of JobQueue for TLC.                                          *)
EXTENDS JobQueue, TLC

CONSTANTS j1, j2, w1, w2, k1

MCOneJob == {j1}
MCJobs == {j1, j2}
MCOneType == {{j1}}
MCTwoTypes == {{j1}, {j2}}
MCWorkers == {w1, w2}
MCKeys == {k1}

Symmetric == Permutations(MCJobs) \cup Permutations(MCWorkers)
=============================================================================
