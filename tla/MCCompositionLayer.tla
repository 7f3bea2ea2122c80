------------------------- MODULE MCCompositionLayer -------------------------
(* Instances of CompositionLayer for TLC.                                  *)
EXTENDS CompositionLayer, TLC

CONSTANTS s0, s1, n0, n1, v0, v1, v2, i1, i2, o1, o2, w1, f1, ws, fs

MCSchemas == {s0, s1}
MCNames == {n0, n1}
MCVersions == {v0, v1, v2}
MCItems == {i1, i2}
MCOperations == {o1, o2}

\* v2 has no send action.
MCSendSchema ==
  [v \in MCVersions |->
     CASE v = v0 -> s0 [] v = v1 -> s1 [] v = v2 -> NoSchema]

Draft ==
  [send |-> FALSE, launder |-> FALSE, public |-> FALSE, stakes |-> FALSE,
   evidence |-> FALSE, unknown |-> FALSE, sensitivity |-> 0]
\* A draft, a send, a send of public matter with a sensitive attachment.
MCRequests ==
  {Draft,
   [Draft EXCEPT !.send = TRUE],
   [Draft EXCEPT !.send = TRUE, !.public = TRUE, !.evidence = TRUE, !.sensitivity = 3]}

Symmetric == Permutations(MCItems) \cup Permutations(MCOperations)
=============================================================================
