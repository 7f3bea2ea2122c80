------------------------------ MODULE ClaimMemory ------------------------------
(***************************************************************************)
(* store_work_episode: an episode of work is stored in one transaction,    *)
(* then every statement in it is merged into the claims of its scope, one  *)
(* storage call after the other and without a transaction.  Each host (MCP *)
(* server, wrapper, connector, command line) is a process of its own on    *)
(* the same database file: a storer.  It may stop, or be refused by the    *)
(* database, between any two calls, and others work in between.            *)
(*                                                                         *)
(* The evidence of a claim is a set of refs: of the events that stated it  *)
(* (an event is the position of its episode) and of their artifacts, which *)
(* several events may share.  A listing reads at once what the code reads  *)
(* claim by claim; no listing reaches its limit (100, and 500 for all      *)
(* workspaces) in the instances.  The words of a statement matter only for *)
(* its polarity and for which statements overlap.                          *)
(***************************************************************************)
EXTENDS Integers, FiniteSets, SequencesExt

CONSTANTS
  Storers,       \* processes that store episodes
  Workspaces,    \* scope keys of workspaces
  Global,        \* the scope key "user:root_owner"
  Statements,    \* normalised statements
  Polarity,      \* "positive", "negative" or "neutral" for each statement
  OverlapPairs,  \* sets of two statements that materially overlap
  CommonPairs,   \* ... or have at least three words in common
  TaskScopes,    \* scope keys of tasks, for open loops and risks; an episode
                 \* without a task keeps them in its workspace
  ArtifactRefs,  \* artifact refs of episodes
  TextOrder,     \* pairs of refs that are in the order of their text
  StrongRefs,    \* those that start with doc:, issue:, test: or diff:
  Requests,      \* work episodes that may be reported
  MaxEpisodes,   \* bound: episodes ever stored
  MaxDisturbances,  \* bound: calls that overlap another or stop half-way
  NoRef          \* not superseded

Types == {"decision", "preference", "open_loop", "risk"}

Sentences == [statement : Statements, looks : SUBSET Types]

\* A work episode as it is reported.
WorkRequests ==
  [workspace : Workspaces, task : Workspaces \cup TaskScopes,
   artifacts : SUBSET ArtifactRefs, incident : BOOLEAN,
   decisions : Seq(Statements), unresolved : Seq(Statements),
   preferences : Seq(Statements), risks : Seq(Statements),
   sentences : Seq(Sentences), failing : Seq(Sentences),
   resolved : SUBSET Statements]

ASSUME MemoryAssumption ==
  /\ Global \notin Workspaces \cup TaskScopes
  /\ Polarity \in [Statements -> {"positive", "negative", "neutral"}]
  /\ OverlapPairs \cup CommonPairs \subseteq SUBSET Statements
  /\ StrongRefs \subseteq ArtifactRefs
  /\ TextOrder \subseteq (Nat \cup ArtifactRefs) \X (Nat \cup ArtifactRefs)
  /\ ArtifactRefs \cap Nat = {}
  /\ Requests \subseteq WorkRequests
  /\ NoRef \notin Nat \X Nat
  /\ MaxEpisodes \in Nat /\ MaxDisturbances \in Nat

VARIABLES
  episode,   \* episodes and experience_events, in the order of commit, each
             \* with the work it asks for
  claim,     \* claims, the latest update first
  evidence,  \* claim_evidence of each claim
  indexed,   \* claims with a row in search_documents
  storer,    \* progress and locals of each storer
  disturbed  \* history: calls that overlapped another or stopped half-way

memoryVars == <<episode, claim, evidence, indexed, storer, disturbed>>

-----------------------------------------------------------------------------
(* Statements                                                              *)

Overlap(a, b) == a = b \/ {a, b} \in OverlapPairs

Conflict(a, b) ==
  /\ {Polarity[a], Polarity[b]} = {"positive", "negative"}
  /\ Overlap(a, b) \/ {a, b} \in CommonPairs

-----------------------------------------------------------------------------
(* The work an episode asks for: signals, one resolve step, and a promote  *)
(* step after each explicit preference.                                    *)

Task(kind, type, scope, statement, explicit, refs) ==
  [kind |-> kind, type |-> type, scope |-> scope, statement |-> statement,
   explicit |-> explicit, refs |-> refs]

\* What an episode is evidence with: its event and its artifacts.
RefsOf(r, e) == {e} \cup r.artifacts

\* One signal per statement of a list.
Signals(type, scope, list, explicit, refs) ==
  [n \in DOMAIN list |-> Task("signal", type, scope, list[n], explicit, refs)]

\* Each observed preference is followed by an attempt to promote it.
PreferenceTasks(r, e) ==
  FlattenSeq([n \in DOMAIN r.preferences |->
    <<Task("signal", "preference", r.workspace, r.preferences[n], TRUE, RefsOf(r, e)),
      Task("promote", "preference", Global, r.preferences[n], TRUE, {})>>])

Restates(list, s) == \E n \in DOMAIN list : Overlap(list[n], s)

\* What a summary sentence can be taken for, in the order of the tests.
InferredAs == <<"decision", "open_loop", "preference">>

\* A sentence that restates an explicit item of a type is passed over for that
\* type and those after it.
Inferred(r, sentence) ==
  {k \in DOMAIN InferredAs :
     /\ InferredAs[k] \in sentence.looks
     /\ \A j \in 1 .. k :
          ~Restates(<<r.decisions, r.unresolved, r.preferences>>[j], sentence.statement)}

InferredSignal(r, type, sentence, e) ==
  Task("signal", type, IF type \in {"open_loop", "risk"} THEN r.task ELSE r.workspace,
       sentence.statement, FALSE, RefsOf(r, e))

When(condition, task) == IF condition THEN <<task>> ELSE <<>>

FromSentence(r, s, e) ==
  FlattenSeq([k \in DOMAIN InferredAs |->
    When(k \in Inferred(r, s), InferredSignal(r, InferredAs[k], s, e))])

FromTest(r, t, e) ==
  <<InferredSignal(r, "open_loop", t, e)>>
    \o When(r.risks = <<>> /\ (r.incident \/ "risk" \in t.looks),
            InferredSignal(r, "risk", t, e))

FromIncident(r, s, e) ==
  When(r.risks = <<>> /\ r.incident /\ "risk" \in s.looks,
       InferredSignal(r, "risk", s, e))

\* extract_candidate_memories: the summary, the failing tests, then the
\* summary again for risks when an artifact names an incident.
InferredTasks(r, e) ==
  FlattenSeq([n \in DOMAIN r.sentences |-> FromSentence(r, r.sentences[n], e)]
             \o [n \in DOMAIN r.failing |-> FromTest(r, r.failing[n], e)]
             \o [n \in DOMAIN r.sentences |-> FromIncident(r, r.sentences[n], e)])

Work(r, e) ==
  Signals("decision", r.workspace, r.decisions, TRUE, RefsOf(r, e))
    \o <<Task("resolve", "open_loop", r.task, NoRef, TRUE, {})>>
    \o Signals("open_loop", r.task, r.unresolved, TRUE, RefsOf(r, e))
    \o PreferenceTasks(r, e)
    \o Signals("risk", r.task, r.risks, TRUE, RefsOf(r, e))
    \o InferredTasks(r, e)

EpisodeRow(r, e) ==
  [workspace |-> r.workspace, artifacts |-> r.artifacts, task |-> r.task,
   unresolved |-> r.unresolved, resolved |-> r.resolved, work |-> Work(r, e)]

-----------------------------------------------------------------------------

\* A claim is named by the episode that first stated it and the tasks it then
\* had left; with none left the name is that of the event.
EventRef(e) == <<e, 0>>

Claims ==
  [id : (1 .. MaxEpisodes) \X Nat,
   type : Types,
   scope : Workspaces \cup TaskScopes \cup {Global},
   statement : Statements,
   status : {"candidate", "accepted", "superseded"},
   signals : Nat \ {0},
   explicit : BOOLEAN,
   supporting : BOOLEAN,
   deterministic : BOOLEAN,
   pending : BOOLEAN,
   by : ((1 .. MaxEpisodes) \X Nat) \cup {NoRef}]

StorerStates == {"idle", "next", "count", "row", "clear", "insert", "index"}

MemoryTypeOK ==
  /\ Len(episode) <= MaxEpisodes
  /\ \A e \in DOMAIN episode :
       episode[e].workspace \in Workspaces /\ episode[e].artifacts \subseteq ArtifactRefs
  /\ claim \in Seq(Claims)
  /\ DOMAIN evidence = {claim[n].id : n \in DOMAIN claim}
  /\ \A c \in DOMAIN evidence : evidence[c] \subseteq DOMAIN episode \cup ArtifactRefs
  /\ indexed \subseteq DOMAIN evidence
  /\ \A p \in Storers : storer[p].pc \in StorerStates
  /\ disturbed \in 0 .. MaxDisturbances

Idle ==
  [pc |-> "idle", event |-> NoRef, todo |-> <<>>, plans |-> <<>>, writes |-> <<>>,
   id |-> NoRef]

MemoryInit ==
  /\ episode = <<>>
  /\ claim = <<>>
  /\ evidence = <<>>
  /\ indexed = {}
  /\ storer = [p \in Storers |-> Idle]
  /\ disturbed = 0

-----------------------------------------------------------------------------
(* What one signal makes of the claims it finds                            *)

\* list_memory_claims for one scope and type, every status, by position.
Listed(type, scope) ==
  {n \in DOMAIN claim : claim[n].type = type /\ claim[n].scope = scope}

\* distinct_workspace_scope_count
DistinctWorkspaces(s) ==
  Cardinality({w \in Workspaces :
    \E n \in DOMAIN claim :
      /\ claim[n].type = "preference" /\ claim[n].scope = w
      /\ claim[n].statement = s /\ claim[n].status # "superseded"})

Supported(refs) == refs \cap ArtifactRefs # {}
Deterministic(refs) == refs \cap StrongRefs # {}

\* A global preference is a matter of the workspaces that share it.
AsksWorkspaces(t) == t.type = "preference" /\ t.scope = Global

\* determine_claim_state; shared says that two workspaces have the statement.
Earned(t, signals, shared) ==
  IF AsksWorkspaces(t) THEN shared
  ELSE \/ signals >= 2
       \/ t.explicit /\ t.type = "risk" /\ Deterministic(t.refs)
       \/ t.explicit /\ t.type # "risk" /\ Supported(t.refs)

\* claim_strength_components
Strength(c) ==
  (IF c.status = "accepted" THEN 100 ELSE 0)
    + (IF c.explicit THEN 12 ELSE 0)
    + (IF c.supporting THEN 10 ELSE 0)
    + (IF c.deterministic THEN 10 ELSE 0)
    + 8 * (IF c.signals < 4 THEN c.signals ELSE 4)

SupersededBy(c, ref) == [c EXCEPT !.status = "superseded", !.by = ref]

\* A call of upsert_memory_claim: a row and the evidence to go with it.
Write(row, refs) == [row |-> row, refs |-> refs]

\* The whole stale record is written back, with the evidence it was read with.
Superseding(n, ref) == Write(SupersededBy(claim[n], ref), evidence[claim[n].id])

\* Variant: aligned by subject.
AlignedBySubject(t) ==
  {n \in Listed(t.type, t.scope) : Overlap(claim[n].statement, t.statement)}
\* The claims with the statement of the signal; the last one counts.
Aligned(t) ==
  {n \in Listed(t.type, t.scope) : claim[n].statement = t.statement}

Contradicted(t) ==
  {n \in Listed(t.type, t.scope) : Conflict(claim[n].statement, t.statement)}

\* The row as the signal would have it; id names it if it is new.
NewRow(t, id, shared) ==
  LET new == Aligned(t) = {}
      same == claim[Max(Aligned(t))]
      signals == 1 + (IF new THEN 0 ELSE same.signals)
  IN [id |-> IF new THEN id ELSE same.id,
      type |-> t.type, scope |-> t.scope, statement |-> t.statement,
      status |-> IF Earned(t, signals, shared) THEN "accepted" ELSE "candidate",
      signals |-> signals, explicit |-> t.explicit,
      supporting |-> Supported(t.refs), deterministic |-> Deterministic(t.refs),
      pending |-> FALSE, by |-> NoRef]

Overcome(row, c) == c.status # "accepted" \/ Strength(row) >= Strength(c)

\* The claims it supersedes: those it overcomes before the first it does not.
Defeated(row, contradicted) ==
  {n \in contradicted :
     /\ row.status = "accepted"
     /\ \A m \in contradicted : m <= n => Overcome(row, claim[m])}

\* Variant: a contradicted row keeps what it earned.
KeepsEarned(row, contradicted) == row
\* A row left with a contradiction waits as a candidate.
Settled(row, contradicted) ==
  IF Defeated(row, contradicted) = contradicted THEN row
  ELSE [row EXCEPT !.status = "candidate", !.pending = TRUE]

\* Variant: the evidence is replaced.
OnlyNewEvidence(t) == t.refs
\* merge_evidence
MergedEvidence(t) ==
  t.refs \cup (IF Aligned(t) = {} THEN {} ELSE evidence[claim[Max(Aligned(t))].id])

\* The writes of upsert_memory_statement: its row, then the claims it
\* supersedes in the order of the listing.
Merge(t, id, shared) ==
  LET row == NewRow(t, id, shared)
      contradicted == Contradicted(t)
  IN [n \in {0} \cup Defeated(row, contradicted) |->
       IF n = 0 THEN Write(Settled(row, contradicted), MergedEvidence(t))
       ELSE Superseding(n, row.id)]

-----------------------------------------------------------------------------
(* A storer at work                                                        *)

Busy(p) == storer[p].pc # "idle"
AtTask(p, kind) ==
  /\ storer[p].pc = "next"
  /\ Head(storer[p].todo).kind = kind

\* Go on with the tasks left; with none left the call returns.
Proceed(p, todo) ==
  storer' = [storer EXCEPT ![p] =
    IF todo = <<>> THEN Idle
    ELSE [@ EXCEPT !.pc = "next", !.todo = todo, !.writes = <<>>]]

Perform(p, writes, id) ==
  IF DOMAIN writes = {} THEN Proceed(p, Tail(storer[p].todo))
  ELSE storer' = [storer EXCEPT ![p] =
         [@ EXCEPT !.pc = "row", !.plans = <<>>, !.writes = writes, !.id = id]]

Disturb == disturbed < MaxDisturbances /\ disturbed' = disturbed + 1

\* A call begins, with or without another one at work.
Enter(overlapping) == IF overlapping THEN Disturb ELSE UNCHANGED disturbed

\* The episode, its event, its artifact refs and its search document.
StoreEpisode(p, r, overlapping) ==
  /\ ~Busy(p)
  /\ Len(episode) < MaxEpisodes
  /\ LET e == Len(episode) + 1
     IN /\ episode' = Append(episode, EpisodeRow(r, e))
        /\ storer' = [storer EXCEPT ![p] =
             [Idle EXCEPT !.pc = "next", !.event = e, !.todo = Work(r, e)]]
  /\ Enter(overlapping)
  /\ UNCHANGED <<claim, evidence, indexed>>

\* upsert_memory_statement up to its first write, or to the second reading a
\* global preference takes; until then it is open which of two plans is carried
\* out.  A claim that is new gets an id of its own.
PlanSignal(p) ==
  /\ AtTask(p, "signal")
  /\ LET t == Head(storer[p].todo)
         id == <<storer[p].event, Len(storer[p].todo)>>
         plans == [shared \in BOOLEAN |-> Merge(t, id, shared)]
         row == NewRow(t, id, FALSE).id
     IN IF AsksWorkspaces(t)
        THEN storer' = [storer EXCEPT ![p].pc = "count", ![p].plans = plans, ![p].id = row]
        ELSE Perform(p, plans[FALSE], row)
  /\ UNCHANGED <<episode, claim, evidence, indexed, disturbed>>

\* The second reading.
CountWorkspaces(p) ==
  /\ storer[p].pc = "count"
  /\ Perform(p, storer[p].plans[DistinctWorkspaces(Head(storer[p].todo).statement) >= 2],
             storer[p].id)
  /\ UNCHANGED <<episode, claim, evidence, indexed, disturbed>>

\* The loops of a scope that an episode resolves and does not restate.
StaleLoops(e, scope) ==
  {n \in Listed("open_loop", scope) :
     /\ claim[n].status # "superseded"
     /\ claim[n].statement \in episode[e].resolved
     /\ ~Restates(episode[e].unresolved, claim[n].statement)}

\* resolve_stale_open_loops up to its first write.
PlanResolve(p) ==
  /\ AtTask(p, "resolve")
  /\ LET e == storer[p].event
     IN Perform(p, [n \in StaleLoops(e, Head(storer[p].todo).scope) |->
                     Superseding(n, EventRef(e))], NoRef)
  /\ UNCHANGED <<episode, claim, evidence, indexed, disturbed>>

\* promote_user_global_preference: a preference seen in two workspaces is a
\* signal to the global scope as well.
Promote(p) ==
  /\ AtTask(p, "promote")
  /\ LET todo == storer[p].todo
     IN IF DistinctWorkspaces(Head(todo).statement) < 2 THEN Proceed(p, Tail(todo))
        ELSE Proceed(p, <<[Head(todo) EXCEPT !.kind = "signal"]>> \o Tail(todo))
  /\ UNCHANGED <<episode, claim, evidence, indexed, disturbed>>

-----------------------------------------------------------------------------
(* upsert_memory_claim: three kinds of statement, and the search document  *)

\* A row is inserted under a key, unless there is one.
Inserted(table, key, row) ==
  [k \in DOMAIN table \cup {key} |-> IF k \in DOMAIN table THEN table[k] ELSE row]

Upcoming(p) == Min(DOMAIN storer[p].writes)
Current(p) == storer[p].writes[Upcoming(p)]

\* The other claims; an id is a primary key.
Without(id) ==
  IF \E n \in DOMAIN claim : claim[n].id = id
  THEN RemoveAt(claim, CHOOSE n \in DOMAIN claim : claim[n].id = id)
  ELSE claim

WriteRow(p) ==
  /\ storer[p].pc = "row"
  /\ LET row == Current(p).row
     IN /\ claim' = <<row>> \o Without(row.id)
        /\ evidence' = Inserted(evidence, row.id, {})
  /\ storer' = [storer EXCEPT ![p].pc = "clear"]
  /\ UNCHANGED <<episode, indexed, disturbed>>

ClearEvidence(p) ==
  /\ storer[p].pc = "clear"
  /\ evidence' = [evidence EXCEPT ![Current(p).row.id] = {}]
  /\ storer' = [storer EXCEPT ![p].pc = "insert"]
  /\ UNCHANGED <<episode, claim, indexed, disturbed>>

\* One row of evidence, in the order of the refs; where another storer put the
\* same row meanwhile, the insertion is refused and the call can only stop.
InsertEvidence(p, ref) ==
  /\ storer[p].pc = "insert"
  /\ ref \in Current(p).refs \ evidence[Current(p).row.id]
  /\ \A other \in Current(p).refs : <<other, ref>> \notin TextOrder
  /\ evidence' = [evidence EXCEPT ![Current(p).row.id] = @ \cup {ref}]
  /\ storer' = [storer EXCEPT ![p].writes[Upcoming(p)].refs = @ \ {ref}]
  /\ UNCHANGED <<episode, claim, indexed, disturbed>>

\* The call returns the claim as it is now; a promotion that follows takes its
\* evidence from there.
WithReturned(p) ==
  LET todo == storer[p].todo
  IN IF Current(p).row.id = storer[p].id /\ Len(todo) > 1 /\ todo[2].kind = "promote"
     THEN [todo EXCEPT ![2].refs = evidence[storer[p].id]]
     ELSE todo

\* After the last write comes the search document; resolving has none.
ReturnClaim(p) ==
  /\ storer[p].pc = "insert"
  /\ Current(p).refs = {}
  /\ LET rest == DOMAIN storer[p].writes \ {Upcoming(p)}
     IN IF rest = {} /\ storer[p].id = NoRef THEN Proceed(p, Tail(storer[p].todo))
        ELSE storer' = [storer EXCEPT ![p] =
               [@ EXCEPT !.pc = IF rest = {} THEN "index" ELSE "row",
                         !.writes = [n \in rest |-> storer[p].writes[n]],
                         !.todo = WithReturned(p)]]
  /\ UNCHANGED <<episode, claim, evidence, indexed, disturbed>>

IndexClaim(p) ==
  /\ storer[p].pc = "index"
  /\ indexed' = indexed \cup {storer[p].id}
  /\ Proceed(p, Tail(storer[p].todo))
  /\ UNCHANGED <<episode, claim, evidence, disturbed>>

\* The process ends, or a storage call fails and the error is passed on.
StopStoring(p) ==
  /\ Busy(p)
  /\ storer' = [storer EXCEPT ![p] = Idle]
  /\ Disturb
  /\ UNCHANGED <<episode, claim, evidence, indexed>>

Store(p) ==
  \/ PlanSignal(p) \/ CountWorkspaces(p) \/ PlanResolve(p) \/ Promote(p)
  \/ WriteRow(p) \/ ClearEvidence(p)
  \/ \E ref \in DOMAIN episode \cup ArtifactRefs : InsertEvidence(p, ref)
  \/ ReturnClaim(p) \/ IndexClaim(p)

MemoryNext ==
  \E p \in Storers :
    \/ Store(p) \/ StopStoring(p)
    \/ \E r \in Requests : StoreEpisode(p, r, \E q \in Storers : Busy(q))

MemorySpec == MemoryInit /\ [][MemoryNext]_memoryVars

-----------------------------------------------------------------------------

\* Every task of every episode.
Positions == UNION {{e} \X DOMAIN episode[e].work : e \in DOMAIN episode}

\* A task that counts as a signal for a claim; in the global scope that is an
\* attempt to promote.
Counts(t, c) ==
  /\ t.type = c.type /\ t.statement = c.statement
  /\ IF c.scope = Global THEN t.kind = "promote"
     ELSE t.kind = "signal" /\ t.scope = c.scope

\* The signals of one claim in all episodes.
SignalsOf(c) == {s \in Positions : Counts(episode[s[1]].work[s[2]], c)}

\* The episodes that state a claim, explicitly or in their summary; for the
\* global scope, in any workspace.
StatedIn(c) ==
  {e \in DOMAIN episode : \E n \in DOMAIN episode[e].work :
     LET t == episode[e].work[n]
     IN /\ t.kind = "signal" /\ t.type = c.type /\ t.statement = c.statement
        /\ c.scope \in {t.scope, Global}}

\* The evidence for a claim: what those episodes are evidence with.
EvidenceFor(c) == UNION {RefsOf(episode[e], e) : e \in StatedIn(c)}

\* Nobody is at work, and storers have only ever worked one after the other.
Orderly == disturbed = 0 /\ \A p \in Storers : ~Busy(p)

\* Storers that take turns leave no two accepted claims of one scope and type
\* that contradict each other (MEMORY_CONTRACT_VNEXT.md:174-178).
AcceptedAgree ==
  Orderly =>
    \A m, n \in DOMAIN claim :
      (/\ claim[m].type = claim[n].type /\ claim[m].scope = claim[n].scope
       /\ claim[m].status = "accepted" /\ claim[n].status = "accepted")
      => ~Conflict(claim[m].statement, claim[n].statement)

\* Storers that take turns lose no signal: in the end each one has the claim of
\* its statement, which counts them all, is indexed and has their events and
\* artifacts as evidence, although the evidence is deleted and rewritten on every update.
SignalsAreKept ==
  Orderly =>
    /\ \A n \in DOMAIN claim :
         claim[n].scope # Global =>
           /\ claim[n].signals = Cardinality(SignalsOf(claim[n]))
           /\ evidence[claim[n].id] = EvidenceFor(claim[n])
           /\ claim[n].id \in indexed
    /\ \A s \in Positions :
         LET t == episode[s[1]].work[s[2]]
         IN t.kind = "signal" => \E n \in DOMAIN claim : Counts(t, claim[n])

\* The workspaces in which a preference was stated, or inferred.
SeenIn(s) ==
  {episode[e].workspace : e \in {d \in DOMAIN episode :
     \E n \in DOMAIN episode[d].work :
       LET t == episode[d].work[n]
       IN t.kind = "signal" /\ t.type = "preference" /\ t.statement = s}}

\* Whatever overlaps or stops, what is said of a claim is true: no signal is
\* counted that was not made, nothing is evidence but of episodes that state it, an
\* accepted global preference was seen in two workspaces, also when two storers
\* insert it twice in one, and no claim is superseded before its successor is
\* stored (fact_ledger_and_reflection_claims.md:188-189).
ClaimsAreProven ==
  \A n \in DOMAIN claim :
    LET c == claim[n]
    IN /\ c.signals <= Cardinality(SignalsOf(c))
       /\ evidence[c.id] \subseteq EvidenceFor(c)
       /\ c.scope = Global /\ c.status = "accepted" =>
            Cardinality(SeenIn(c.statement)) >= 2
       /\ c.status = "superseded" =>
            c.by \in DOMAIN evidence \cup {EventRef(e) : e \in DOMAIN episode}

===============================================================================
