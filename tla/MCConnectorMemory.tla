-------------------------- MODULE MCConnectorMemory --------------------------
(* Instances of ConnectorMemory for TLC.                                   *)
EXTENDS ConnectorMemory

CONSTANTS x, y, w1, w2, t1, p, q, n, o, pull, doc

MCStorers == {x, y}
MCWorkspaces == {w1, w2}
MCTaskScopes == {t1}
MCStatements == {p, q, n, o}
MCArtifactRefs == {pull, doc, TraceRef}
MCStrongRefs == {doc}
\* "doc:" comes before "event:", and that before "pull:" and "trace:".
MCTextOrder ==
  ({doc} \X ((1 .. 3) \cup {pull, TraceRef})) \cup ((1 .. 3) \X {pull, TraceRef})
    \cup {<<pull, TraceRef>>}

\* p and q ask for what n rejects.
MCPolarity ==
  [s \in MCStatements |->
     CASE s \in {p, q} -> "positive" [] s = n -> "negative" [] s = o -> "neutral"]
MCOverlapPairs == {{p, n}}
MCCommonPairs == {{q, n}}
MCAlikePairs == {{<<"start", o>>, <<"keep", n>>}}

Nothing ==
  [workspace |-> w1, task |-> t1, artifacts |-> {}, incident |-> FALSE,
   decisions |-> <<>>, unresolved |-> <<>>, preferences |-> <<>>, risks |-> <<>>,
   sentences |-> <<>>, failing |-> <<>>, resolved |-> {}]

PreferP == [Nothing EXCEPT !.preferences = <<p>>, !.artifacts = {pull}]
\* In the other workspace the summary sounds as if p were preferred.
PreferPElsewhere ==
  [Nothing EXCEPT !.workspace = w2,
     !.sentences = <<[statement |-> p, looks |-> {"preference"}]>>]
\* Strong enough to withstand n.
PreferQ == [Nothing EXCEPT !.preferences = <<q>>, !.artifacts = {doc}]
\* Contradicts p and q.
PreferN == [Nothing EXCEPT !.preferences = <<n>>, !.artifacts = {pull}]
\* A test in the other workspace fails with o, in the same task.
FailO ==
  [Nothing EXCEPT !.workspace = w2, !.failing = <<[statement |-> o, looks |-> {"risk"}]>>]
\* Settles o; the summary sounds like n.
SettleO ==
  [Nothing EXCEPT !.resolved = {o},
     !.sentences = <<[statement |-> n, looks |-> {"decision"}]>>]

MCRequests == {PreferP, PreferPElsewhere, PreferQ, PreferN, FailO, SettleO}

\* A plain report, and reports of how a direction fared.
Report(r) ==
  [kind |-> "TaskEnd", request |-> r, context |-> "none", direction |-> NoRef,
   response |-> "accepted"]
Fared(r, c, response) ==
  [Report(r) EXCEPT !.context = c, !.direction = "direction", !.response = response]

MCEvents ==
  {Report(PreferPElsewhere), Report(PreferQ), Report(PreferN), Report(FailO),
   Fared(PreferP, "given", "accepted"),
   Fared(SettleO, "stale", "other")}

Symmetric == Permutations(MCStorers)
=============================================================================
