---------------------------- MODULE ConnectorMemory ----------------------------
(***************************************************************************)
(* Connector events over the claim memory: a task start answers with       *)
(* guidance and stores what was surfaced, a checkpoint or task end stores  *)
(* an episode and then how the surfaced direction fared.  A connector may  *)
(* repeat an event.                                                        *)
(*                                                                         *)
(* The id of an intervention context is a hash of its content; here the    *)
(* workspace, the directions with their evidence and the counts of past    *)
(* outcomes stand for both.  Claims are ranked by a score made of words,   *)
(* files, dates and past outcomes: any order.  One relation, Overlap,      *)
(* stands for the three measures of words two claims have in common.       *)
(***************************************************************************)
EXTENDS ClaimMemory

CONSTANTS
  Events,       \* checkpoints and task ends that may be reported
  MaxStarts,    \* bound: task starts
  MaxEvents,    \* bound: task starts and episodes together
  MaxGuidance,  \* MAX_GUIDANCE_ITEMS
  AlikePairs,   \* sets of two directions with too many words in common
  TraceRef,     \* the artifact ref of every event with a context or direction
  StaleContext  \* a context id that was never stored

ASSUME ConnectorAssumption ==
  /\ \A ev \in Events :
       ev.request \in WorkRequests /\ ev.context \in {"given", "stale", "none"}
  /\ TraceRef \in ArtifactRefs \ StrongRefs
  /\ MaxStarts \in Nat /\ MaxEvents \in Nat /\ MaxGuidance \in Nat

VARIABLES
  host,     \* progress and locals of the task start at work, and the last
            \* context id it was given
  call,     \* the event each storer reports, while it is at work
  context,  \* intervention_context
  outcome   \* intervention_outcomes, by idempotency key

connectorVars == <<host, call, context, outcome>>
vars == <<memoryVars, connectorVars>>

-----------------------------------------------------------------------------

NoGuidance == [t \in Types |-> <<>>]
NoCall == [pc |-> "none"]
Responses == {"accepted", "ignored", "modified"}
NothingLearned == [r \in Responses |-> 0]

ConnectorTypeOK ==
  /\ MemoryTypeOK
  /\ host.pc \in {"idle", "listing", "counting", "answered"} /\ host.starts \in 0 .. MaxStarts
  /\ \A p \in Storers : call[p].pc \in {"none", "storing", "linked"}
  /\ \A c \in context : c.workspace \in Workspaces
  /\ \A k \in DOMAIN outcome :
       outcome[k].response \in Responses

Init ==
  /\ MemoryInit
  /\ host = [pc |-> "idle", starts |-> 0, workspace |-> NoRef, listings |-> <<>>,
             claims |-> {}, contexts |-> {}, guidance |-> NoGuidance,
             learned |-> NothingLearned, given |-> NoRef]
  /\ call = [p \in Storers |-> NoCall]
  /\ context = {}
  /\ outcome = <<>>

-----------------------------------------------------------------------------
(* prepare_task_context                                                    *)

\* The tasks of the episodes of a workspace.
TasksOf(w) ==
  TaskScopes \cap {episode[e].task : e \in {d \in DOMAIN episode : episode[d].workspace = w}}

\* The listings of claims, one call each, in their order: of the workspace, of
\* everywhere and of the tasks; everywhere comes last for candidates.
Listings(w, tasks) ==
  LET Of(status, scopes) ==
        [n \in DOMAIN scopes |-> [status |-> status, scope |-> scopes[n]]]
  IN Of("accepted", <<w, Global>> \o tasks) \o Of("candidate", <<w>> \o tasks \o <<Global>>)

ClaimsIn(listing) ==
  {claim[n] @@ [refs |-> evidence[claim[n].id]] : n \in {m \in DOMAIN claim :
     claim[m].scope = listing.scope /\ claim[m].status = listing.status}}

Redundant(a, b) ==
  \/ Conflict(a.statement, b.statement)
  \/ a.type = b.type /\ Overlap(a.statement, b.statement)

\* claim_is_suppressed
Suppressed(selected, c, withheld) ==
  \/ \E s \in withheld : Overlap(s, c.statement) \/ Conflict(s, c.statement)
  \/ \E n \in DOMAIN selected : Redundant(selected[n], c)

\* Variant: candidates are filled in unchecked.
FillUnchecked(selected, c, withheld) ==
  IF \/ Len(selected) >= MaxGuidance
     \/ c.status = "accepted" /\ Suppressed(selected, c, withheld)
  THEN selected ELSE Append(selected, c)
\* One round of select_ranked_claims, or of fill_with_candidate_claims.
Consider(selected, c, withheld) ==
  IF Len(selected) >= MaxGuidance \/ Suppressed(selected, c, withheld)
  THEN selected ELSE Append(selected, c)

\* The claims of one type, considered in their order.
Select(type, ranked, withheld) ==
  LET picked[n \in 0 .. Len(ranked)] ==
        IF n = 0 THEN <<>>
        ELSE IF ranked[n].type # type THEN picked[n - 1]
        ELSE Consider(picked[n - 1], ranked[n], withheld)
  IN picked[Len(ranked)]

\* prune_redundant_risks
Pruned(risks, loops) ==
  SelectSeq(risks, LAMBDA c :
    ~\E n \in DOMAIN loops : /\ c.status = "candidate"
                             /\ Overlap(loops[n].statement, c.statement)
                             /\ loops[n].refs \cap c.refs # {})

StatementsOf(list) == {list[n].statement : n \in DOMAIN list}

\* The answer for claims ranked in this order, accepted ones before candidates:
\* preferences give way to decisions.
Guide(ranked) ==
  LET decisions == Select("decision", ranked, {})
      loops == Select("open_loop", ranked, {})
  IN [decision |-> decisions,
      preference |-> Select("preference", ranked, StatementsOf(decisions)),
      open_loop |-> loops,
      risk |-> Pruned(Select("risk", ranked, {}), loops)]

\* The learnable outcomes of a context with one response.
LearnedFrom(c, r) ==
  Cardinality({k \in DOMAIN outcome :
    outcome[k].learn /\ outcome[k].context = c /\ outcome[k].response = r})

WithinEvents == host.starts + Len(episode) < MaxEvents

AnyReporting == \E p \in Storers : call[p].pc # "none"

\* Recent episodes are read: the task the prompt is about, if any, and those
\* their ranking picks are related to it, up to a limit.
StartTask(w) ==
  /\ host.pc = "idle" /\ host.starts < MaxStarts /\ WithinEvents
  /\ \E own \in {{}} \cup {{t} : t \in TaskScopes}, picked \in SUBSET TasksOf(w) :
       \E related \in SetToSeqs(own \cup picked) :
         /\ Len(related) <= MaxGuidance
         /\ host' = [host EXCEPT !.pc = "listing", !.starts = @ + 1, !.workspace = w,
                                 !.listings = Listings(w, related)]
  /\ Enter(AnyReporting)
  /\ UNCHANGED <<episode, claim, evidence, indexed, storer, call, context, outcome>>

ListClaims ==
  /\ host.pc = "listing" /\ host.listings # <<>>
  /\ host' = [host EXCEPT !.listings = Tail(@),
                          !.claims = @ \cup ClaimsIn(Head(host.listings))]
  /\ UNCHANGED <<memoryVars, call, context, outcome>>

\* collect_workspace_outcome_profile: find the contexts of the workspace, then
\* count the outcomes of each.
FindContexts ==
  /\ host.pc = "listing" /\ host.listings = <<>>
  /\ host' = [host EXCEPT !.pc = "counting",
                          !.contexts = {c \in context : c.workspace = host.workspace}]
  /\ UNCHANGED <<memoryVars, call, context, outcome>>

CountOutcomes(c) ==
  /\ host.pc = "counting" /\ c \in host.contexts
  /\ host' = [host EXCEPT !.contexts = @ \ {c},
                          !.learned = [r \in Responses |-> @[r] + LearnedFrom(c, r)]]
  /\ UNCHANGED <<memoryVars, call, context, outcome>>

\* The answer is put together from what was read.
AnswerTask ==
  /\ host.pc = "counting" /\ host.contexts = {}
  /\ \E accepted \in SetToSeqs({c \in host.claims : c.status = "accepted"}),
        candidates \in SetToSeqs({c \in host.claims : c.status = "candidate"}) :
       host' = [host EXCEPT !.pc = "answered", !.claims = {},
                            !.guidance = Guide(accepted \o candidates)]
  /\ UNCHANGED <<memoryVars, call, context, outcome>>

\* A direction about the n-th item of a list, if there is one.
Direction(lead, list, n) ==
  IF n \in DOMAIN list
  THEN <<[lead |-> lead, statement |-> list[n].statement, refs |-> list[n].refs]>>
  ELSE <<>>

\* dedupe_next_directions compares whole sentences.
Alike(a, b) == {<<a.lead, a.statement>>, <<b.lead, b.statement>>} \in AlikePairs
WithoutAlike(list) ==
  FoldLeft(LAMBDA kept, d : IF \E n \in DOMAIN kept : Alike(kept[n], d) THEN kept
                            ELSE Append(kept, d), <<>>, list)

\* build_next_directions: the first open loop or, where the prompt asks for
\* risks or there is no loop, the first risk; then the first decision or
\* preference; then the second loop.
Directions(g, riskFirst) ==
  WithoutAlike(
    (IF (riskFirst /\ g.risk # <<>>) \/ g.open_loop = <<>>
     THEN Direction("close", g.risk, 1) ELSE Direction("start", g.open_loop, 1))
      \o (IF g.decision # <<>> THEN Direction("keep", g.decision, 1)
          ELSE Direction("maintain", g.preference, 1))
      \o Direction("follow up", g.open_loop, 2))

Surfaced(directions) ==
  [workspace |-> host.workspace, directions |-> directions, learned |-> host.learned]

FinishStart(given) ==
  host' = [host EXCEPT !.pc = "idle", !.guidance = NoGuidance,
                       !.learned = NothingLearned, !.given = given]

\* What was surfaced is stored and its id returned; storing the same content
\* again changes nothing.  Without a direction nothing is stored.
StoreContext ==
  /\ host.pc = "answered"
  /\ \E riskFirst \in BOOLEAN :
       LET directions == Directions(host.guidance, riskFirst)
           surfaced == Surfaced(directions)
       IN IF directions = <<>> THEN FinishStart(NoRef) /\ UNCHANGED context
          ELSE FinishStart(surfaced) /\ context' = context \cup {surfaced}
  /\ UNCHANGED <<memoryVars, call, outcome>>

\* A failure to store it is only a warning.
ContextNotStored ==
  /\ host.pc = "answered"
  /\ FinishStart(NoRef)
  /\ UNCHANGED <<memoryVars, call, context, outcome>>

-----------------------------------------------------------------------------
(* Checkpoints and task ends                                               *)

\* The context id in an event: the one given last, an unknown one, or none.
ContextOf(ev) ==
  CASE ev.context = "given" -> host.given
    [] ev.context = "stale" -> StaleContext
    [] ev.context = "none" -> NoRef

\* Variant: any word is a response.
AsReported(ev) == ev.response
ResponseOf(ev) == IF ev.response \in Responses THEN ev.response ELSE "ignored"

\* append_supervisory_trace_refs: what an event says of a context or a direction
\* is an artifact of its episode; one ref stands for all of them.
Traced(ev) ==
  [ev.request EXCEPT !.artifacts =
     @ \cup {a \in {TraceRef} : ev.context # "none" \/ ev.direction # NoRef}]

ReportEvent(p, ev) ==
  /\ call[p].pc = "none" /\ WithinEvents
  /\ StoreEpisode(p, Traced(ev), AnyReporting \/ host.pc # "idle")
  /\ call' = [call EXCEPT ![p] =
       [pc |-> "storing", kind |-> ev.kind, context |-> ContextOf(ev),
        direction |-> ev.direction, linked |-> FALSE, episode |-> Len(episode'),
        response |-> ResponseOf(ev)]]
  /\ UNCHANGED <<host, context, outcome>>

\* store_work_episode has returned: look the context up.  A lookup that fails is
\* taken for an unknown context.
LinkContext(p) ==
  /\ ~Busy(p) /\ call[p].pc = "storing"
  /\ \E answered \in BOOLEAN :
       call' = [call EXCEPT ![p] =
         IF call[p].direction = NoRef THEN NoCall
         ELSE [@ EXCEPT !.pc = "linked",
                        !.linked = /\ answered
                                   /\ call[p].context # NoRef
                                   /\ call[p].context \in context]]
  /\ UNCHANGED <<memoryVars, host, context, outcome>>

\* Variant: keyed by the episode.
KeyedByEpisode(c) == <<c.episode, c.context, c.direction, c.response>>
\* The idempotency key: of the event if it has a context id, known or not, and
\* of the stored episode otherwise.
OutcomeKey(c) ==
  IF c.context = NoRef THEN <<c.episode, c.direction, c.response>>
  ELSE <<c.context, c.direction, c.response, c.kind>>

\* Only an outcome that is linked to a stored context is learned from.
OutcomeRow(c) ==
  [context |-> IF c.linked THEN c.context ELSE NoRef, direction |-> c.direction,
   response |-> c.response, learn |-> c.linked, episode |-> c.episode]

\* A row that is there already under the key stays.
StoreOutcome(p) ==
  /\ call[p].pc = "linked"
  /\ outcome' = Inserted(outcome, OutcomeKey(call[p]), OutcomeRow(call[p]))
  /\ call' = [call EXCEPT ![p] = NoCall]
  /\ UNCHANGED <<memoryVars, host, context>>

\* A failure to store it is only a warning.
OutcomeNotStored(p) ==
  /\ call[p].pc = "linked"
  /\ call' = [call EXCEPT ![p] = NoCall]
  /\ UNCHANGED <<memoryVars, host, context, outcome>>

StopReporting(p) ==
  /\ StopStoring(p)
  /\ call' = [call EXCEPT ![p] = NoCall]
  /\ UNCHANGED <<host, context, outcome>>

-----------------------------------------------------------------------------

Next ==
  \/ \E w \in Workspaces : StartTask(w)
  \/ ListClaims \/ FindContexts \/ (\E c \in context : CountOutcomes(c)) \/ AnswerTask
  \/ StoreContext \/ ContextNotStored
  \/ \E p \in Storers :
       \/ \E ev \in Events : ReportEvent(p, ev)
       \/ Store(p) /\ UNCHANGED connectorVars
       \/ LinkContext(p) \/ StoreOutcome(p) \/ OutcomeNotStored(p) \/ StopReporting(p)

Spec == Init /\ [][Next]_vars

-----------------------------------------------------------------------------

\* No answer holds two decisions or preferences that contradict each other,
\* whatever storers do between its listings or left undone before them
\* (cognitive_proof.rs:831).
GuidanceIsConsistent ==
  LET said == host.guidance.decision \o host.guidance.preference
  IN \A m, n \in DOMAIN said : ~Conflict(said[m].statement, said[n].statement)

\* However often an event is repeated, and whichever episode it stores each
\* time, what was surfaced is learned from once; an outcome with an unknown
\* context is kept and never learned from (IMPLEMENTATION_PLAN.md:91-101).
LearnedOnce ==
  \A k \in DOMAIN outcome :
    outcome[k].learn =>
      /\ outcome[k].context \in context
      /\ \A l \in DOMAIN outcome \ {k} :
           outcome[l].learn =>
             <<outcome[l].context, outcome[l].direction, outcome[l].response, l[4]>>
               # <<outcome[k].context, outcome[k].direction, outcome[k].response, k[4]>>

=============================================================================
