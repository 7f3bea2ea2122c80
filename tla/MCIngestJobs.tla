---------------------------- MODULE MCIngestJobs ----------------------------
(* Instances of IngestJobs for TLC.                                        *)
EXTENDS IngestJobs, TLC

CONSTANTS j1, j2, j3, w1, k1, x1, x2

MCJobs == {j1, j2, j3}
MCTypes == {MCJobs}
MCTwoJobs == {j1, j2}
MCWorkers == {w1}
MCKeys == {k1}
MCCancels == {x1, x2}

Symmetric == Permutations(MCJobs) \cup Permutations(MCCancels)
=============================================================================
