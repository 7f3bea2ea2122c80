------------------------- MODULE ConnectorMemoryProofs -------------------------
(***************************************************************************)
(* Proofs about the memory and the connector: the types, what is learned   *)
(* from a reported outcome, the guidance a task start is given, that what  *)
(* is said of a claim is true whatever overlaps or stops, and that storers *)
(* which take turns lose no signal and accept no contradiction.            *)
(*                                                                         *)
(* MemoryInv and ConnectorInv are the inductive invariants for the types   *)
(* and for LearnedOnce, GuidanceOK the one for the guidance, ProvenInv the *)
(* one for the claims, and TurnsInv the one for storers that take turns.   *)
(* Induction over a sequence is induction over a set of numbers: what      *)
(* fails for some number fails for a least one.                            *)
(***************************************************************************)
EXTENDS ConnectorMemory, SequenceTheorems, FiniteSetTheorems, WellFoundedInduction, TLAPS

-----------------------------------------------------------------------------
(* Numbers, sequences and recursion                                        *)

\* The order of the natural numbers, as a set of pairs.
Less == {ss \in Nat \X Nat : ss[1] < ss[2]}

\* It is well-founded.
LEMMA LessIsWellFounded == IsWellFoundedOn(Less, Nat)
<1>1. OpToRel(<, Nat) = Less
  BY DEF OpToRel, Less
<1> QED BY <1>1, NatLessThanWellFounded

\* A set of numbers has a least element: induction, with the set of the
\* counterexamples in the place of a predicate.
LEMMA LeastElement ==
  ASSUME NEW T \in SUBSET Nat, T # {}
  PROVE  \E m \in T : \A k \in T : m <= k
<1>1. \E x \in T : \A y \in T : ~ (<<y, x>> \in Less)
  BY LessIsWellFounded, WFMin
<1>2. \A x, y \in Nat : <<y, x>> \in Less <=> y < x
  BY DEF Less
<1>3. PICK x \in T : \A y \in T : ~ (<<y, x>> \in Less)
  BY <1>1
<1>4. \A y \in T : ~ (y < x)
  BY <1>2, <1>3, Zenon
<1>5. \A y \in T : x <= y
  BY <1>4
<1> QED BY <1>5

\* The least number of a set is one of them.
LEMMA MinProperties ==
  ASSUME NEW T \in SUBSET Nat, T # {}
  PROVE  Min(T) \in T /\ \A k \in T : Min(T) <= k
BY LeastElement DEF Min

\* The greatest number of a bounded set is one of them.
LEMMA MaxProperties ==
  ASSUME NEW N \in Nat, NEW T \in SUBSET (1 .. N), T # {}
  PROVE  Max(T) \in T
<1> DEFINE R == {k \in Nat : N - k \in T}
<1>1. R \in SUBSET Nat /\ R # {}
  <2>1. PICK m \in T : TRUE
    OBVIOUS
  <2>2. N - m \in Nat /\ N - (N - m) \in T
    BY <2>1
  <2> QED BY <2>2
<1>2. PICK r \in R : \A k \in R : r <= k
  BY <1>1, LeastElement
<1>3. \A m \in T : N - m \in R
  OBVIOUS
<1>4. \A m \in T : N - r >= m
  BY <1>2, <1>3
<1> QED BY <1>2, <1>4 DEF Max

\* Counting up: what holds of 0, and of n + 1 where it holds of n, holds up to N.
LEMMA CountingUp ==
  ASSUME NEW N \in Nat, NEW T, 0 \in T, \A n \in 0 .. N : n # N /\ n \in T => n + 1 \in T
  PROVE  \A n \in 0 .. N : n \in T
<1> DEFINE R == {n \in Nat : n <= N /\ n \notin T}
<1>1. ASSUME R # {} PROVE FALSE
  <2>1. PICK r \in R : \A k \in R : r <= k
    BY <1>1, LeastElement
  <2>2. r # 0
    BY <2>1
  <2>3. r - 1 \in 0 .. N /\ r - 1 # N /\ r - 1 \notin R /\ (r - 1) + 1 = r
    BY <2>1, <2>2
  <2>4. r - 1 \in T
    BY <2>3
  <2> QED BY <2>1, <2>3, <2>4
<1> QED BY <1>1

\* What leads from one number to the next, up to N, within a set.
StepsWithin(A, N, step) == step \in [1 .. N -> [A -> A]]

\* A function that starts with a and goes on by these steps.
Follows(f, A, N, a, step) ==
  f \in [0 .. N -> A] /\ f[0] = a /\ \A n \in 1 .. N : f[n] = step[n][f[n - 1]]

\* A function is defined by what it is at 0 and by the steps to the next number.
LEMMA StepByStep ==
  ASSUME NEW A, NEW a \in A, NEW N \in Nat, NEW step, StepsWithin(A, N, step)
  PROVE  \E f : Follows(f, A, N, a, step)
<1> USE DEF StepsWithin
<1> DEFINE Goes(f, k) == f[0] = a /\ \A n \in 1 .. k : f[n] = step[n][f[n - 1]]
           T == {k \in 0 .. N : \E f \in [0 .. k -> A] : Goes(f, k)}
<1>1. 0 \in T
  <2> DEFINE f == [n \in 0 .. 0 |-> a]
  <2>1. f \in [0 .. 0 -> A] /\ f[0] = a
    OBVIOUS
  <2>2. Goes(f, 0)
    BY <2>1
  <2> HIDE DEF f
  <2> QED BY <2>1, <2>2
<1>2. ASSUME NEW k \in 0 .. N, k # N, k \in T PROVE k + 1 \in T
  <2>1. PICK f \in [0 .. k -> A] : Goes(f, k)
    BY <1>2
  <2> DEFINE g == [n \in 0 .. k + 1 |-> IF n = k + 1 THEN step[n][f[k]] ELSE f[n]]
  <2>2. step[k + 1] \in [A -> A] /\ f[k] \in A /\ step[k + 1][f[k]] \in A
    BY <1>2
  <2>3. g \in [0 .. k + 1 -> A]
    <3> SUFFICES ASSUME NEW n \in 0 .. k + 1
                 PROVE (IF n = k + 1 THEN step[n][f[k]] ELSE f[n]) \in A
      OBVIOUS
    <3> QED BY <2>2
  <2>4. g[0] = a
    BY <2>1
  <2>5. ASSUME NEW n \in 1 .. k + 1 PROVE g[n] = step[n][g[n - 1]]
    <3>1. g[n - 1] = f[n - 1]
      OBVIOUS
    <3>2. CASE n = k + 1
      BY <3>1, <3>2
    <3>3. CASE n # k + 1
      <4>1. n \in 1 .. k /\ g[n] = f[n]
        BY <3>3
      <4> QED BY <2>1, <3>1, <4>1
    <3> QED BY <3>2, <3>3
  <2>6. k + 1 \in 0 .. N
    BY <1>2
  <2> HIDE DEF g
  <2> QED BY <2>3, <2>4, <2>5, <2>6
<1>3. N \in T
  <2> HIDE DEF T
  <2>1. \A k \in 0 .. N : k # N /\ k \in T => k + 1 \in T
    BY <1>2
  <2>2. \A n \in 0 .. N : n \in T
    BY <1>1, <2>1, CountingUp, Zenon
  <2> QED BY <2>2
<1> QED BY <1>3 DEF Follows

\* Sequences from a set closed under concatenation, flattened, give one of it.
LEMMA FlattenIn ==
  ASSUME NEW S, NEW W \in SUBSET Seq(S), <<>> \in W, \A u, v \in W : u \o v \in W,
         NEW seqs \in Seq(W)
  PROVE  FlattenSeq(seqs) \in W
<1> DEFINE L == Len(seqs)
           Flat(f) == f = [i \in 1 .. L |-> IF i = 1 THEN seqs[i] ELSE f[i-1] \o seqs[i]]
           F == CHOOSE f : Flat(f)
<1>0. L \in Nat /\ \A i \in 1 .. L : seqs[i] \in W /\ seqs[i] \in Seq(S)
  OBVIOUS
<1>1. CASE L = 0
  <2>1. seqs = <<>>
    BY <1>1
  <2> QED BY <1>1, <2>1 DEF FlattenSeq
<1>2. CASE L # 0
  <2> DEFINE step == [i \in 1 .. L |-> [v \in W |-> v \o seqs[i]]]
  <2>1. step \in [1 .. L -> [W -> W]]
    BY <1>0
  <2>2. PICK f \in [0 .. L -> W] : f[0] = <<>> /\ \A n \in 1 .. L : f[n] = step[n][f[n - 1]]
    <3>1. L \in Nat /\ <<>> \in W
      BY <1>0
    <3>2. StepsWithin(W, L, step)
      BY <2>1 DEF StepsWithin
    <3> HIDE DEF step, L
    <3>3. PICK f : Follows(f, W, L, <<>>, step)
      BY <3>1, <3>2, StepByStep, Zenon
    <3> QED BY <3>3 DEF Follows
  <2>3. ASSUME NEW n \in 1 .. L PROVE f[n] = f[n - 1] \o seqs[n]
    <3>1. f[n - 1] \in W
      BY <1>0
    <3>2. step[n][f[n - 1]] = f[n - 1] \o seqs[n]
      BY <3>1
    <3>3. f[n] = step[n][f[n - 1]]
      <4> HIDE DEF step
      <4> QED BY <2>2
    <3> QED BY <3>2, <3>3
  <2> DEFINE g == [i \in 1 .. L |-> f[i]]
  <2>4. \A i \in 1 .. L : g[i] = IF i = 1 THEN seqs[i] ELSE g[i-1] \o seqs[i]
    <3> TAKE i \in 1 .. L
    <3>1. CASE i = 1
      <4>1. f[1] = <<>> \o seqs[1]
        <5>1. f[0] = <<>>
          <6> HIDE DEF step
          <6> QED BY <2>2
        <5> HIDE DEF step, L, g, F
        <5>2. f[i] = f[i - 1] \o seqs[i]
          BY <2>3
        <5>3. f[1] = f[0] \o seqs[1]
          BY <3>1, <5>2
        <5> QED BY <5>1, <5>3
      <4>2. <<>> \o seqs[1] = seqs[1]
        BY <1>0, <3>1
      <4> QED BY <3>1, <4>1, <4>2
    <3>2. CASE i # 1
      <4>1. g[i - 1] = f[i - 1]
        BY <1>0, <3>2
      <4> QED BY <2>3, <3>2, <4>1
    <3> QED BY <3>1, <3>2
  <2>5. Flat(g)
    <3> DEFINE h == [i \in 1 .. L |-> IF i = 1 THEN seqs[i] ELSE g[i-1] \o seqs[i]]
    <3>1. \A i \in 1 .. L : g[i] = h[i]
      <4> HIDE DEF g
      <4> QED BY <2>4
    <3> QED BY <3>1
  <2>6. Flat(F)
    <3> HIDE DEF g
    <3> QED BY <2>5
  <2>7. FlattenSeq(seqs) = F[L]
    BY <1>2 DEF FlattenSeq
  <2> HIDE DEF F
  <2>8. \A i \in 1 .. L : F[i] = IF i = 1 THEN seqs[i] ELSE F[i-1] \o seqs[i]
    BY <2>6
  <2> DEFINE T == {k \in 0 .. L : k = 0 \/ F[k] \in W}
  <2>9. 0 \in T
    BY <1>0
  <2>10. ASSUME NEW k \in 0 .. L, k # L, k \in T PROVE k + 1 \in T
    <3>1. k + 1 \in 1 .. L /\ (k + 1) - 1 = k
      BY <1>0, <2>10
    <3>2. F[k + 1] = IF k + 1 = 1 THEN seqs[k + 1] ELSE F[k] \o seqs[k + 1]
      BY <2>8, <3>1
    <3>3. k # 0 => F[k] \in W
      BY <2>10
    <3>4. F[k + 1] \in W
      BY <1>0, <3>1, <3>2, <3>3
    <3> QED BY <3>1, <3>4
  <2>11. L \in T
    <3> HIDE DEF T, L
    <3>1. \A k \in 0 .. L : k # L /\ k \in T => k + 1 \in T
      BY <2>10
    <3>2. \A n \in 0 .. L : n \in T
      BY <1>0, <2>9, <3>1, CountingUp, Zenon
    <3> QED BY <1>0, <3>2
  <2> QED BY <1>2, <2>7, <2>11
<1> QED BY <1>1, <1>2

-----------------------------------------------------------------------------
(* The work of an episode                                                  *)

Scopes == Workspaces \cup TaskScopes \cup {Global}

\* What may be evidence of a claim.
AnyRefs == (1 .. MaxEpisodes) \cup ArtifactRefs

WorkTasks ==
  {t \in [kind : {"signal", "resolve", "promote"}, type : Types, scope : Scopes,
          statement : Statements \cup {NoRef}, explicit : BOOLEAN,
          refs : SUBSET AnyRefs] :
     t.kind # "resolve" => t.statement \in Statements}

\* A task that may stand in the work of an episode of workspace w with refs R.
ProperTask(t, w, R) ==
  /\ t.refs \subseteq R
  /\ t.kind = "signal" => /\ t.scope # Global /\ t.refs = R
                          /\ t.type = "preference" => t.scope = w
  /\ t.kind = "promote" => t.type = "preference" /\ t.scope = Global

\* s is the preference that t would promote.
Precedes(s, t) ==
  /\ s.kind = "signal" /\ s.type = "preference" /\ s.statement = t.statement

\* Each attempt to promote comes right after the preference.
ProperWork(w, R) ==
  {work \in Seq(WorkTasks) :
     /\ \A n \in 1 .. Len(work) : ProperTask(work[n], w, R)
     /\ \A n \in 1 .. Len(work) :
          work[n].kind = "promote" => n # 1 /\ Precedes(work[n - 1], work[n])}

\* Sequences joined are empty only if both are.
LEMMA JoinIsNotEmpty ==
  ASSUME NEW S, NEW u \in Seq(S), NEW v \in Seq(S), u # <<>> \/ v # <<>>
  PROVE  u \o v # <<>>
<1>1. Len(u \o v) = Len(u) + Len(v) /\ Len(u) \in Nat /\ Len(v) \in Nat
  BY ConcatProperties
<1>2. Len(u) # 0 \/ Len(v) # 0
  OBVIOUS
<1>3. Len(u \o v) # 0
  BY <1>1, <1>2
<1> QED BY <1>3

\* One piece of proper work after the other is proper work.
LEMMA ProperWorkJoins ==
  ASSUME NEW w, NEW R, NEW u \in ProperWork(w, R), NEW v \in ProperWork(w, R)
  PROVE  u \o v \in ProperWork(w, R)
<1>1. /\ u \in Seq(WorkTasks) /\ v \in Seq(WorkTasks)
      /\ \A n \in 1 .. Len(u) : ProperTask(u[n], w, R)
      /\ \A n \in 1 .. Len(v) : ProperTask(v[n], w, R)
      /\ \A n \in 1 .. Len(u) :
          u[n].kind = "promote" => n # 1 /\ Precedes(u[n - 1], u[n])
      /\ \A n \in 1 .. Len(v) :
          v[n].kind = "promote" => n # 1 /\ Precedes(v[n - 1], v[n])
  BY DEF ProperWork
<1> DEFINE j == u \o v
<1>2. /\ j \in Seq(WorkTasks) /\ Len(j) = Len(u) + Len(v)
      /\ Len(u) \in Nat /\ Len(v) \in Nat
      /\ \A n \in 1 .. Len(u) : j[n] = u[n]
      /\ \A n \in Len(u) + 1 .. Len(u) + Len(v) : j[n] = v[n - Len(u)]
  BY <1>1, ConcatProperties
<1> HIDE DEF j
<1>3. ASSUME NEW n \in 1 .. Len(j)
      PROVE  /\ ProperTask(j[n], w, R)
             /\ j[n].kind = "promote" => n # 1 /\ Precedes(j[n - 1], j[n])
  <2>1. CASE n \in 1 .. Len(u)
    <3>1. j[n] = u[n] /\ (n # 1 => j[n - 1] = u[n - 1])
      BY <1>2, <2>1
    <3> QED BY <1>1, <2>1, <3>1
  <2>2. CASE n \notin 1 .. Len(u)
    <3> DEFINE k == n - Len(u)
    <3>1. k \in 1 .. Len(v) /\ j[n] = v[k]
      BY <1>2, <2>2
    <3>2. ASSUME k # 1 PROVE n # 1 /\ j[n - 1] = v[k - 1]
      <4>1. n - 1 \in Len(u) + 1 .. Len(u) + Len(v) /\ (n - 1) - Len(u) = k - 1
        BY <1>2, <2>2, <3>2
      <4>2. j[n - 1] = v[(n - 1) - Len(u)]
        BY <1>2, <4>1
      <4> QED BY <1>2, <4>1, <4>2
    <3> HIDE DEF k
    <3>3. /\ ProperTask(v[k], w, R)
          /\ v[k].kind = "promote" => k # 1 /\ Precedes(v[k - 1], v[k])
      BY <1>1, <3>1
    <3> QED BY <3>1, <3>2, <3>3
  <2> QED BY <2>1, <2>2
<1> QED BY <1>2, <1>3 DEF j, ProperWork

\* No work is proper work.
LEMMA NoWorkIsProper ==
  ASSUME NEW w, NEW R
  PROVE  <<>> \in ProperWork(w, R)
BY DEF ProperWork

\* Pieces of proper work, flattened.
LEMMA ProperWorkFlattens ==
  ASSUME NEW w, NEW R, NEW seqs \in Seq(ProperWork(w, R))
  PROVE  FlattenSeq(seqs) \in ProperWork(w, R)
<1> DEFINE W == ProperWork(w, R)
<1>1. W \in SUBSET Seq(WorkTasks)
  BY DEF ProperWork
<1>2. <<>> \in W /\ \A u, v \in W : u \o v \in W
  BY NoWorkIsProper, ProperWorkJoins
<1> HIDE DEF W
<1>3. FlattenSeq(seqs) \in W
  BY <1>1, <1>2, FlattenIn DEF W
<1> QED BY <1>3 DEF W

\* One task that is not an attempt to promote.
LEMMA OneTaskIsProper ==
  ASSUME NEW w, NEW R, NEW t \in WorkTasks, ProperTask(t, w, R), t.kind # "promote"
  PROVE  <<t>> \in ProperWork(w, R)
<1>1. <<t>> \in Seq(WorkTasks) /\ Len(<<t>>) = 1 /\ <<t>>[1] = t
  OBVIOUS
<1> QED BY <1>1 DEF ProperWork

\* A signal of an episode.
LEMMA SignalIsProper ==
  ASSUME NEW w \in Workspaces, NEW R \in SUBSET AnyRefs, NEW type \in Types,
         NEW scope \in Workspaces \cup TaskScopes, NEW s \in Statements,
         NEW explicit \in BOOLEAN, type = "preference" => scope = w
  PROVE  /\ Task("signal", type, scope, s, explicit, R) \in WorkTasks
         /\ ProperTask(Task("signal", type, scope, s, explicit, R), w, R)
         /\ Task("signal", type, scope, s, explicit, R).kind = "signal"
<1>1. scope # Global
  BY MemoryAssumption DEF MemoryAssumption
<1> QED BY <1>1 DEF Task, WorkTasks, ProperTask, Scopes

\* The signals of a list.
LEMMA SignalsAreProper ==
  ASSUME NEW w \in Workspaces, NEW R \in SUBSET AnyRefs, NEW type \in Types,
         NEW scope \in Workspaces \cup TaskScopes, NEW list \in Seq(Statements),
         NEW explicit \in BOOLEAN, type = "preference" => scope = w
  PROVE  Signals(type, scope, list, explicit, R) \in ProperWork(w, R)
<1> DEFINE T(n) == Task("signal", type, scope, list[n], explicit, R)
           work == Signals(type, scope, list, explicit, R)
<1>1. Len(list) \in Nat /\ DOMAIN list = 1 .. Len(list)
  OBVIOUS
<1>2. \A n \in 1 .. Len(list) :
        T(n) \in WorkTasks /\ ProperTask(T(n), w, R) /\ T(n).kind = "signal"
  <2> TAKE n \in 1 .. Len(list)
  <2>1. list[n] \in Statements
    OBVIOUS
  <2> QED BY <2>1, SignalIsProper
<1> HIDE DEF T
<1>3. work = [n \in 1 .. Len(list) |-> T(n)]
  BY <1>1 DEF Signals, T
<1>4. /\ work \in Seq(WorkTasks) /\ Len(work) = Len(list)
      /\ \A n \in 1 .. Len(list) : work[n] = T(n)
  BY <1>1, <1>2, <1>3
<1> HIDE DEF work
<1>5. \A n \in 1 .. Len(work) : ProperTask(work[n], w, R) /\ work[n].kind # "promote"
  BY <1>2, <1>4
<1>6. work \in ProperWork(w, R)
  BY <1>4, <1>5 DEF ProperWork
<1> QED BY <1>6 DEF work

\* A task or none.
LEMMA WhenIsProper ==
  ASSUME NEW w, NEW R, NEW t \in WorkTasks, ProperTask(t, w, R), t.kind = "signal",
         NEW c \in BOOLEAN
  PROVE  When(c, t) \in ProperWork(w, R)
BY NoWorkIsProper, OneTaskIsProper DEF When

\* The refs of an episode.
LEMMA RefsAreTyped ==
  ASSUME NEW r \in WorkRequests, NEW e \in 1 .. MaxEpisodes
  PROVE  RefsOf(r, e) \in SUBSET AnyRefs
BY DEF WorkRequests, RefsOf, AnyRefs

\* Observed preferences, each with its attempt to promote.
LEMMA PreferenceTasksAreProper ==
  ASSUME NEW r \in WorkRequests, NEW e \in 1 .. MaxEpisodes
  PROVE  PreferenceTasks(r, e) \in ProperWork(r.workspace, RefsOf(r, e))
<1> DEFINE w == r.workspace
           L == Len(r.preferences)
           R == RefsOf(r, e)
           sig(n) == Task("signal", "preference", w, r.preferences[n], TRUE, R)
           pro(n) == Task("promote", "preference", Global, r.preferences[n], TRUE, {})
           seqs == [n \in 1 .. L |-> <<sig(n), pro(n)>>]
<1>1. w \in Workspaces /\ r.preferences \in Seq(Statements) /\ R \in SUBSET AnyRefs
  BY RefsAreTyped DEF WorkRequests
<1>2. L \in Nat /\ DOMAIN r.preferences = 1 .. L
  BY <1>1
<1>3. ASSUME NEW n \in 1 .. L PROVE <<sig(n), pro(n)>> \in ProperWork(w, R)
  <2>1. r.preferences[n] \in Statements
    BY <1>1
  <2>2. sig(n) \in WorkTasks /\ ProperTask(sig(n), w, R) /\ sig(n).kind = "signal"
    <3>1. "preference" \in Types
      BY DEF Types
    <3> HIDE DEF R
    <3> QED BY <1>1, <2>1, <3>1, SignalIsProper
  <2>3. pro(n) \in WorkTasks /\ ProperTask(pro(n), w, R)
    BY <1>1, <2>1 DEF Task, WorkTasks, ProperTask, Scopes, Types
  <2>4. Precedes(sig(n), pro(n))
    BY DEF Task, Precedes
  <2> HIDE DEF sig, pro, w, R
  <2> DEFINE work == <<sig(n), pro(n)>>
  <2>5. work \in Seq(WorkTasks) /\ Len(work) = 2 /\ work[1] = sig(n) /\ work[2] = pro(n)
    BY <2>2, <2>3
  <2> HIDE DEF work
  <2>6. \A k \in 1 .. Len(work) : k = 1 \/ k = 2
    BY <2>5
  <2>7. \A k \in 1 .. Len(work) : ProperTask(work[k], w, R)
    BY <2>2, <2>3, <2>5, <2>6
  <2>8. \A k \in 1 .. Len(work) :
          work[k].kind = "promote" => k # 1 /\ Precedes(work[k - 1], work[k])
    <3> SUFFICES ASSUME NEW k \in 1 .. Len(work), work[k].kind = "promote"
                 PROVE k # 1 /\ Precedes(work[k - 1], work[k])
      OBVIOUS
    <3>1. k = 2
      BY <2>2, <2>5, <2>6
    <3> QED BY <2>4, <2>5, <3>1
  <2>9. work \in ProperWork(w, R)
    BY <2>5, <2>7, <2>8 DEF ProperWork
  <2> QED BY <2>9 DEF work
<1>4. seqs \in Seq(ProperWork(w, R))
  <2> HIDE DEF sig, pro, w, L, R
  <2> QED BY <1>2, <1>3
<1>5. PreferenceTasks(r, e) = FlattenSeq(seqs)
  BY <1>2 DEF PreferenceTasks
<1> HIDE DEF seqs, w, R
<1>6. FlattenSeq(seqs) \in ProperWork(w, R)
  BY <1>4, ProperWorkFlattens
<1> QED BY <1>5, <1>6 DEF w, R

\* A statement taken from a sentence.
LEMMA InferredSignalIsProper ==
  ASSUME NEW r \in WorkRequests, NEW e \in 1 .. MaxEpisodes, NEW type \in Types,
         NEW s \in Sentences
  PROVE  /\ InferredSignal(r, type, s, e) \in WorkTasks
         /\ ProperTask(InferredSignal(r, type, s, e), r.workspace, RefsOf(r, e))
         /\ InferredSignal(r, type, s, e).kind = "signal"
<1>1. /\ r.workspace \in Workspaces /\ r.task \in Workspaces \cup TaskScopes
      /\ s.statement \in Statements
  BY DEF WorkRequests, Sentences
<1> DEFINE scope == IF type \in {"open_loop", "risk"} THEN r.task ELSE r.workspace
<1>2. scope \in Workspaces \cup TaskScopes /\ (type = "preference" => scope = r.workspace)
  BY <1>1
<1> HIDE DEF scope
<1> DEFINE R == RefsOf(r, e)
           t == Task("signal", type, scope, s.statement, FALSE, R)
<1>3. R \in SUBSET AnyRefs
  BY RefsAreTyped
<1> HIDE DEF R
<1>4. t \in WorkTasks /\ ProperTask(t, r.workspace, R) /\ t.kind = "signal"
  BY <1>1, <1>2, <1>3, SignalIsProper
<1> QED BY <1>4 DEF InferredSignal, scope, R

\* What one sentence asks for.
LEMMA FromSentenceIsProper ==
  ASSUME NEW r \in WorkRequests, NEW e \in 1 .. MaxEpisodes, NEW s \in Sentences
  PROVE  FromSentence(r, s, e) \in ProperWork(r.workspace, RefsOf(r, e))
<1> DEFINE part(k) == When(k \in Inferred(r, s), InferredSignal(r, InferredAs[k], s, e))
           seqs == [k \in 1 .. 3 |-> part(k)]
<1>1. DOMAIN InferredAs = 1 .. 3 /\ \A k \in 1 .. 3 : InferredAs[k] \in Types
  BY DEF InferredAs, Types
<1>2. \A k \in 1 .. 3 : part(k) \in ProperWork(r.workspace, RefsOf(r, e))
  <2> TAKE k \in 1 .. 3
  <2> DEFINE t == InferredSignal(r, InferredAs[k], s, e)
             c == k \in Inferred(r, s)
  <2>1. t \in WorkTasks /\ ProperTask(t, r.workspace, RefsOf(r, e)) /\ t.kind = "signal"
    BY <1>1, InferredSignalIsProper
  <2>2. c \in BOOLEAN
    OBVIOUS
  <2> HIDE DEF t, c
  <2>3. When(c, t) \in ProperWork(r.workspace, RefsOf(r, e))
    BY <2>1, <2>2, WhenIsProper
  <2> QED BY <2>3 DEF t, c
<1> HIDE DEF part
<1>3. seqs \in Seq(ProperWork(r.workspace, RefsOf(r, e)))
  BY <1>2
<1>4. FromSentence(r, s, e) = FlattenSeq(seqs)
  BY <1>1 DEF FromSentence, part
<1> HIDE DEF seqs
<1> QED BY <1>3, <1>4, ProperWorkFlattens

\* What one failing test asks for.
LEMMA FromTestIsProper ==
  ASSUME NEW r \in WorkRequests, NEW e \in 1 .. MaxEpisodes, NEW t \in Sentences
  PROVE  FromTest(r, t, e) \in ProperWork(r.workspace, RefsOf(r, e))
<1> DEFINE loop == InferredSignal(r, "open_loop", t, e)
           risk == InferredSignal(r, "risk", t, e)
           c == r.risks = <<>> /\ (r.incident \/ "risk" \in t.looks)
<1>1. "open_loop" \in Types /\ "risk" \in Types
  BY DEF Types
<1>2. /\ loop \in WorkTasks /\ ProperTask(loop, r.workspace, RefsOf(r, e)) /\ loop.kind = "signal"
      /\ risk \in WorkTasks /\ ProperTask(risk, r.workspace, RefsOf(r, e)) /\ risk.kind = "signal"
  BY <1>1, InferredSignalIsProper
<1>3. c \in BOOLEAN
  OBVIOUS
<1>4. FromTest(r, t, e) = <<loop>> \o When(c, risk)
  BY DEF FromTest
<1> HIDE DEF loop, risk, c
<1>5. When(c, risk) \in ProperWork(r.workspace, RefsOf(r, e))
  BY <1>2, <1>3, WhenIsProper
<1>6. <<loop>> \in ProperWork(r.workspace, RefsOf(r, e))
  BY <1>2, OneTaskIsProper
<1> QED BY <1>4, <1>5, <1>6, ProperWorkJoins

\* What an incident makes of one sentence.
LEMMA FromIncidentIsProper ==
  ASSUME NEW r \in WorkRequests, NEW e \in 1 .. MaxEpisodes, NEW s \in Sentences
  PROVE  FromIncident(r, s, e) \in ProperWork(r.workspace, RefsOf(r, e))
<1> DEFINE risk == InferredSignal(r, "risk", s, e)
           c == r.risks = <<>> /\ r.incident /\ "risk" \in s.looks
<1>1. "risk" \in Types
  BY DEF Types
<1>2. risk \in WorkTasks /\ ProperTask(risk, r.workspace, RefsOf(r, e)) /\ risk.kind = "signal"
  BY <1>1, InferredSignalIsProper
<1>3. c \in BOOLEAN
  BY DEF WorkRequests
<1>4. FromIncident(r, s, e) = When(c, risk)
  BY DEF FromIncident
<1> HIDE DEF risk, c
<1> QED BY <1>2, <1>3, <1>4, WhenIsProper

\* What is inferred from the sentences and tests of an episode.
LEMMA InferredTasksAreProper ==
  ASSUME NEW r \in WorkRequests, NEW e \in 1 .. MaxEpisodes
  PROVE  InferredTasks(r, e) \in ProperWork(r.workspace, RefsOf(r, e))
<1> DEFINE W == ProperWork(r.workspace, RefsOf(r, e))
           a == [n \in DOMAIN r.sentences |-> FromSentence(r, r.sentences[n], e)]
           b == [n \in DOMAIN r.failing |-> FromTest(r, r.failing[n], e)]
           c == [n \in DOMAIN r.sentences |-> FromIncident(r, r.sentences[n], e)]
<1>1. r.sentences \in Seq(Sentences) /\ r.failing \in Seq(Sentences)
  BY DEF WorkRequests
<1>2. /\ DOMAIN r.sentences = 1 .. Len(r.sentences) /\ Len(r.sentences) \in Nat
      /\ DOMAIN r.failing = 1 .. Len(r.failing) /\ Len(r.failing) \in Nat
      /\ \A n \in 1 .. Len(r.sentences) : r.sentences[n] \in Sentences
      /\ \A n \in 1 .. Len(r.failing) : r.failing[n] \in Sentences
  BY <1>1
<1>3. /\ \A n \in 1 .. Len(r.sentences) : FromSentence(r, r.sentences[n], e) \in W
      /\ \A n \in 1 .. Len(r.failing) : FromTest(r, r.failing[n], e) \in W
      /\ \A n \in 1 .. Len(r.sentences) : FromIncident(r, r.sentences[n], e) \in W
  BY <1>2, FromSentenceIsProper, FromTestIsProper, FromIncidentIsProper
<1> HIDE DEF W
<1>4. a \in Seq(W) /\ b \in Seq(W) /\ c \in Seq(W)
  BY <1>2, <1>3
<1>5. InferredTasks(r, e) = FlattenSeq(a \o b \o c)
  BY DEF InferredTasks
<1> HIDE DEF a, b, c
<1>6. a \o b \o c \in Seq(W)
  BY <1>4
<1> QED BY <1>5, <1>6, ProperWorkFlattens DEF W

\* All the work an episode asks for; there is always the resolve step.
LEMMA WorkIsProper ==
  ASSUME NEW r \in WorkRequests, NEW e \in 1 .. MaxEpisodes
  PROVE  Work(r, e) \in ProperWork(r.workspace, RefsOf(r, e)) /\ Work(r, e) # <<>>
<1> DEFINE w == r.workspace
           R == RefsOf(r, e)
           resolve == Task("resolve", "open_loop", r.task, NoRef, TRUE, {})
           a == Signals("decision", w, r.decisions, TRUE, R)
           c == Signals("open_loop", r.task, r.unresolved, TRUE, R)
           d == PreferenceTasks(r, e)
           f == Signals("risk", r.task, r.risks, TRUE, R)
           g == InferredTasks(r, e)
<1>1. /\ w \in Workspaces /\ r.task \in Workspaces \cup TaskScopes
      /\ w \in Workspaces \cup TaskScopes
      /\ r.decisions \in Seq(Statements) /\ r.unresolved \in Seq(Statements)
      /\ r.risks \in Seq(Statements)
      /\ "decision" \in Types /\ "open_loop" \in Types /\ "risk" \in Types
      /\ R \in SUBSET AnyRefs
  BY RefsAreTyped DEF WorkRequests, Types
<1>2. resolve \in WorkTasks /\ ProperTask(resolve, w, R) /\ resolve.kind # "promote"
  BY <1>1 DEF Task, WorkTasks, ProperTask, Scopes
<1>3. <<resolve>> \in ProperWork(w, R)
  <2> HIDE DEF resolve, w, R
  <2> QED BY <1>2, OneTaskIsProper
<1>4. a \in ProperWork(w, R)
  <2> HIDE DEF w, R
  <2> QED BY <1>1, SignalsAreProper
<1>5. c \in ProperWork(w, R)
  <2> HIDE DEF w, R
  <2> QED BY <1>1, SignalsAreProper
<1>6. f \in ProperWork(w, R)
  <2> HIDE DEF w, R
  <2> QED BY <1>1, SignalsAreProper
<1>7. d \in ProperWork(w, R) /\ g \in ProperWork(w, R)
  BY PreferenceTasksAreProper, InferredTasksAreProper
<1>8. Work(r, e) = a \o <<resolve>> \o c \o d \o f \o g
  BY DEF Work
<1> HIDE DEF w, R, resolve, a, c, d, f, g
<1> DEFINE h == a \o <<resolve>>
           i == h \o c
           k == i \o d
           m == k \o f
<1>9. h \in ProperWork(w, R) /\ h # <<>>
  <2>1. h \in ProperWork(w, R)
    BY <1>3, <1>4, ProperWorkJoins
  <2>2. a \in Seq(WorkTasks) /\ <<resolve>> \in Seq(WorkTasks) /\ <<resolve>> # <<>>
    BY <1>3, <1>4 DEF ProperWork
  <2> QED BY <2>1, <2>2, JoinIsNotEmpty
<1> HIDE DEF h
<1>10. i \in ProperWork(w, R) /\ i # <<>>
  BY <1>5, <1>9, ProperWorkJoins, JoinIsNotEmpty DEF ProperWork
<1> HIDE DEF i
<1>11. k \in ProperWork(w, R) /\ k # <<>>
  BY <1>7, <1>10, ProperWorkJoins, JoinIsNotEmpty DEF ProperWork
<1> HIDE DEF k
<1>12. m \in ProperWork(w, R) /\ m # <<>>
  BY <1>6, <1>11, ProperWorkJoins, JoinIsNotEmpty DEF ProperWork
<1> HIDE DEF m
<1>13. m \o g \in ProperWork(w, R) /\ m \o g # <<>>
  BY <1>7, <1>12, ProperWorkJoins, JoinIsNotEmpty DEF ProperWork
<1>14. Work(r, e) = m \o g
  BY <1>8 DEF h, i, k, m
<1> QED BY <1>13, <1>14 DEF w, R

\* The row of an episode.
EpisodeRows ==
  [workspace : Workspaces, artifacts : SUBSET ArtifactRefs, task : Workspaces \cup TaskScopes,
   unresolved : Seq(Statements), resolved : SUBSET Statements, work : Seq(WorkTasks)]

\* It is one.
LEMMA EpisodeRowIsTyped ==
  ASSUME NEW r \in WorkRequests, NEW e \in 1 .. MaxEpisodes
  PROVE  EpisodeRow(r, e) \in EpisodeRows
<1>1. Work(r, e) \in Seq(WorkTasks)
  BY WorkIsProper DEF ProperWork
<1> QED BY <1>1 DEF EpisodeRow, EpisodeRows, WorkRequests

\* What is reported with an event may be stored as well.
LEMMA TracedIsTyped ==
  ASSUME NEW ev \in Events
  PROVE  Traced(ev) \in WorkRequests
<1>1. ev.request \in WorkRequests
  BY ConnectorAssumption DEF ConnectorAssumption
<1>2. TraceRef \in ArtifactRefs
  BY ConnectorAssumption DEF ConnectorAssumption
<1> QED BY <1>1, <1>2 DEF Traced, WorkRequests

-----------------------------------------------------------------------------
(* The types of the memory                                                 *)

Ids == (1 .. MaxEpisodes) \X Nat

\* Writes with the evidence there may be over the episodes E.
WritesTyped(writes, E) ==
  /\ DOMAIN writes \subseteq Nat
  /\ \A n \in DOMAIN writes : writes[n] \in [row : Claims, refs : SUBSET (E \cup ArtifactRefs)]

\* A storer over the episodes E and the claims named V.
StorerRow(s, E) ==
  /\ DOMAIN s = {"pc", "event", "todo", "plans", "writes", "id"}
  /\ s.pc \in StorerStates
  /\ s.todo \in Seq(WorkTasks)
  /\ WritesTyped(s.writes, E)
  /\ s.pc = "count" => \A shared \in BOOLEAN : WritesTyped(s.plans[shared], E)

\* At work it has an episode and tasks left.
HasWork(s, E) ==
  s.pc # "idle" =>
    /\ s.event \in E
    /\ s.todo # <<>>
    /\ \A n \in 1 .. Len(s.todo) : s.todo[n].refs \subseteq E \cup ArtifactRefs

\* The row of the signal is written first; what follows it finds that row.
InOrder(s, V) ==
  /\ s.pc = "count" =>
       \A shared \in BOOLEAN :
         0 \in DOMAIN s.plans[shared] /\ s.id = s.plans[shared][0].row.id
  /\ s.pc \in {"row", "clear", "insert"} =>
       /\ DOMAIN s.writes # {}
       /\ 0 \in DOMAIN s.writes => s.id = s.writes[0].row.id
       /\ 0 \notin DOMAIN s.writes => s.id \in V \cup {NoRef}
  /\ s.pc \in {"clear", "insert"} => s.writes[Min(DOMAIN s.writes)].row.id \in V
  /\ s.pc = "index" => s.id \in V

StorerOK(s, E, V) == StorerRow(s, E) /\ HasWork(s, E) /\ InOrder(s, V)

TablesOK ==
  /\ episode \in Seq(EpisodeRows) /\ Len(episode) <= MaxEpisodes
  /\ claim \in Seq(Claims)
  /\ \A m, n \in DOMAIN claim : claim[m].id = claim[n].id => m = n
  /\ DOMAIN evidence = {claim[n].id : n \in DOMAIN claim}
  /\ \A c \in DOMAIN evidence : evidence[c] \subseteq DOMAIN episode \cup ArtifactRefs
  /\ indexed \subseteq DOMAIN evidence
  /\ disturbed \in 0 .. MaxDisturbances

StorersOK ==
  /\ DOMAIN storer = Storers
  /\ \A p \in Storers : StorerOK(storer[p], DOMAIN episode, DOMAIN evidence)

MemoryInv == TablesOK /\ StorersOK

\* It is the type invariant of the memory, and more.
LEMMA MemoryInvTypes == MemoryInv => MemoryTypeOK
<1> SUFFICES ASSUME MemoryInv PROVE MemoryTypeOK
  OBVIOUS
<1>1. \A e \in DOMAIN episode :
        episode[e].workspace \in Workspaces /\ episode[e].artifacts \subseteq ArtifactRefs
  <2> TAKE e \in DOMAIN episode
  <2>1. episode[e] \in EpisodeRows
    BY DEF MemoryInv, TablesOK
  <2> QED BY <2>1 DEF EpisodeRows
<1>2. \A p \in Storers : storer[p].pc \in StorerStates
  BY DEF MemoryInv, StorersOK, StorerOK, StorerRow
<1> QED BY <1>1, <1>2 DEF MemoryInv, TablesOK, MemoryTypeOK

\* More episodes and more claims do a storer no harm.
LEMMA StorerOKGrows ==
  ASSUME NEW s, NEW E, NEW V, NEW E2, NEW V2, StorerOK(s, E, V), E \subseteq E2, V \subseteq V2
  PROVE  StorerOK(s, E2, V2)
<1>1. StorerRow(s, E2)
  <2>1. \A writes : WritesTyped(writes, E) => WritesTyped(writes, E2)
    BY DEF WritesTyped
  <2> QED BY <2>1 DEF StorerOK, StorerRow
<1>2. HasWork(s, E2)
  BY DEF StorerOK, HasWork
<1>3. InOrder(s, V2)
  BY DEF StorerOK, InOrder
<1> QED BY <1>1, <1>2, <1>3 DEF StorerOK

\* One storer moves.
LEMMA OneStorerMoves ==
  ASSUME NEW p \in Storers, NEW s, StorersOK,
         storer' = [storer EXCEPT ![p] = s],
         StorerOK(s, DOMAIN episode', DOMAIN evidence'),
         DOMAIN episode \subseteq DOMAIN episode', DOMAIN evidence \subseteq DOMAIN evidence'
  PROVE  StorersOK'
<1>1. DOMAIN storer' = Storers
  BY DEF StorersOK
<1>2. ASSUME NEW q \in Storers
      PROVE StorerOK(storer'[q], DOMAIN episode', DOMAIN evidence')
  <2>1. CASE q = p
    <3>1. storer'[q] = s
      BY <2>1 DEF StorersOK
    <3> QED BY <3>1
  <2>2. CASE q # p
    <3>1. storer'[q] = storer[q]
      BY <2>2 DEF StorersOK
    <3>2. StorerOK(storer[q], DOMAIN episode, DOMAIN evidence)
      BY DEF StorersOK
    <3> QED BY <3>1, <3>2, StorerOKGrows
  <2> QED BY <2>1, <2>2
<1> QED BY <1>1, <1>2 DEF StorersOK

\* An idle storer is fine.
LEMMA IdleIsOK ==
  ASSUME NEW E, NEW V
  PROVE  StorerOK(Idle, E, V)
<1>1. DOMAIN Idle.writes = {} /\ Idle.todo \in Seq(WorkTasks) /\ Idle.pc = "idle"
  BY DEF Idle
<1>2. DOMAIN Idle = {"pc", "event", "todo", "plans", "writes", "id"}
  BY DEF Idle
<1>3. "idle" \in StorerStates
  BY DEF StorerStates
<1> HIDE DEF Idle
<1> QED BY <1>1, <1>2, <1>3 DEF StorerOK, StorerRow, WritesTyped, HasWork, InOrder

\* The tail of a list of tasks.
LEMMA TailOfTasks ==
  ASSUME NEW S, NEW todo \in Seq(S), todo # <<>>
  PROVE  /\ Head(todo) = todo[1] /\ todo[1] \in S /\ 1 \in 1 .. Len(todo)
         /\ Tail(todo) \in Seq(S) /\ Len(Tail(todo)) = Len(todo) - 1 /\ Len(todo) \in Nat
         /\ \A n \in 1 .. Len(Tail(todo)) : Tail(todo)[n] = todo[n + 1]
BY HeadTailProperties

\* Going on leaves the storer with the tasks given, or idle.
LEMMA ProceedIsOK ==
  ASSUME NEW p \in Storers, NEW todo \in Seq(WorkTasks), StorersOK, Busy(p),
         \A n \in 1 .. Len(todo) : todo[n].refs \subseteq DOMAIN episode \cup ArtifactRefs,
         Proceed(p, todo),
         DOMAIN episode \subseteq DOMAIN episode', DOMAIN evidence \subseteq DOMAIN evidence'
  PROVE  StorersOK'
<1> DEFINE s == IF todo = <<>> THEN Idle
                ELSE [storer[p] EXCEPT !.pc = "next", !.todo = todo, !.writes = <<>>]
           E == DOMAIN episode
           V == DOMAIN evidence
<1>1. storer' = [storer EXCEPT ![p] = s]
  BY DEF Proceed
<1>2. StorerOK(s, E, V)
  <2>1. CASE todo = <<>>
    BY <2>1, IdleIsOK
  <2>2. CASE todo # <<>>
    <3>0. s = [storer[p] EXCEPT !.pc = "next", !.todo = todo, !.writes = <<>>]
      BY <2>2
    <3>1. /\ DOMAIN storer[p] = {"pc", "event", "todo", "plans", "writes", "id"}
          /\ storer[p].event \in E
      BY DEF StorersOK, StorerOK, StorerRow, HasWork, Busy
    <3>2. /\ DOMAIN s = {"pc", "event", "todo", "plans", "writes", "id"}
          /\ s.pc = "next" /\ s.todo = todo /\ s.event = storer[p].event
          /\ s.writes = <<>>
      <4> HIDE DEF s
      <4> QED BY <3>0, <3>1
    <3>3. DOMAIN s.writes = {}
      <4> HIDE DEF s
      <4> QED BY <3>2
    <3>4. "next" \in StorerStates
      BY DEF StorerStates
    <3> HIDE DEF s
    <3> QED BY <2>2, <3>1, <3>2, <3>3, <3>4
        DEF StorerOK, StorerRow, WritesTyped, HasWork, InOrder
  <2> QED BY <2>1, <2>2
<1> HIDE DEF s
<1>3. StorerOK(s, E', V')
  BY <1>2, StorerOKGrows
<1> QED BY <1>1, <1>3, OneStorerMoves

-----------------------------------------------------------------------------
(* What a signal writes                                                    *)

\* A listing holds positions of claims; the last of some is one of them.
LEMMA ListedArePositions ==
  ASSUME TablesOK, NEW t
  PROVE  /\ DOMAIN claim = 1 .. Len(claim) /\ Len(claim) \in Nat
         /\ \A n \in DOMAIN claim : claim[n] \in Claims /\ claim[n].id \in DOMAIN evidence
         /\ Aligned(t) \subseteq DOMAIN claim
         /\ Contradicted(t) \subseteq DOMAIN claim
         /\ Aligned(t) # {} =>
              /\ Max(Aligned(t)) \in DOMAIN claim
              /\ claim[Max(Aligned(t))].type = t.type
              /\ claim[Max(Aligned(t))].scope = t.scope
              /\ claim[Max(Aligned(t))].statement = t.statement
<1>1. DOMAIN claim = 1 .. Len(claim) /\ Len(claim) \in Nat
  BY DEF TablesOK
<1>2. \A n \in DOMAIN claim : claim[n] \in Claims /\ claim[n].id \in DOMAIN evidence
  BY DEF TablesOK
<1>3. Aligned(t) \subseteq DOMAIN claim /\ Contradicted(t) \subseteq DOMAIN claim
  BY DEF Aligned, Contradicted, Listed
<1>4. ASSUME Aligned(t) # {} PROVE Max(Aligned(t)) \in Aligned(t)
  BY <1>1, <1>3, <1>4, MaxProperties
<1> QED BY <1>1, <1>2, <1>3, <1>4 DEF Aligned, Listed

\* The row a signal would write.
LEMMA NewRowIsTyped ==
  ASSUME TablesOK, NEW t \in WorkTasks, t.kind = "signal", NEW id \in Ids, NEW shared
  PROVE  NewRow(t, id, shared) \in Claims
<1> DEFINE new == Aligned(t) = {}
           same == claim[Max(Aligned(t))]
           signals == 1 + (IF new THEN 0 ELSE same.signals)
<1>1. ~new => same \in Claims
  BY ListedArePositions
<1>2. signals \in Nat \ {0}
  BY <1>1 DEF Claims
<1>3. (IF new THEN id ELSE same.id) \in (1 .. MaxEpisodes) \X Nat
  BY <1>1 DEF Claims, Ids
<1>4. t.type \in Types /\ t.scope \in Scopes /\ t.statement \in Statements
      /\ t.explicit \in BOOLEAN
  BY DEF WorkTasks
<1>5. Supported(t.refs) \in BOOLEAN /\ Deterministic(t.refs) \in BOOLEAN
  BY DEF Supported, Deterministic
<1> DEFINE status == IF Earned(t, signals, shared) THEN "accepted" ELSE "candidate"
           i == IF new THEN id ELSE same.id
<1>6. NewRow(t, id, shared) =
        [id |-> i, type |-> t.type, scope |-> t.scope, statement |-> t.statement,
         status |-> status, signals |-> signals, explicit |-> t.explicit,
         supporting |-> Supported(t.refs), deterministic |-> Deterministic(t.refs),
         pending |-> FALSE, by |-> NoRef]
  BY DEF NewRow
<1>7. status \in {"candidate", "accepted", "superseded"}
  OBVIOUS
<1>8. i \in (1 .. MaxEpisodes) \X Nat
  BY <1>3
<1> HIDE DEF status, i, signals, new, same
<1> QED BY <1>2, <1>4, <1>5, <1>6, <1>7, <1>8 DEF Claims, Scopes

\* Whether workspaces share the statement does not change the name.
LEMMA NameOfARow ==
  ASSUME NEW t, NEW id, NEW shared
  PROVE  NewRow(t, id, shared).id = NewRow(t, id, FALSE).id
BY DEF NewRow

\* Settling keeps everything but the status.
LEMMA SettledKeeps ==
  ASSUME NEW row \in Claims, NEW C
  PROVE  /\ Settled(row, C) \in Claims
         /\ Settled(row, C).id = row.id /\ Settled(row, C).type = row.type
         /\ Settled(row, C).scope = row.scope /\ Settled(row, C).statement = row.statement
         /\ Settled(row, C).signals = row.signals
         /\ Settled(row, C).status \in {row.status, "candidate"}
BY DEF Settled, Claims

\* The evidence a signal leaves.
LEMMA MergedEvidenceIsTyped ==
  ASSUME TablesOK, NEW t, t.refs \subseteq DOMAIN episode \cup ArtifactRefs
  PROVE  MergedEvidence(t) \subseteq DOMAIN episode \cup ArtifactRefs
<1>1. Aligned(t) # {} =>
        evidence[claim[Max(Aligned(t))].id] \subseteq DOMAIN episode \cup ArtifactRefs
  BY ListedArePositions DEF TablesOK
<1> QED BY <1>1 DEF MergedEvidence

\* A superseding write.
LEMMA SupersedingIsTyped ==
  ASSUME TablesOK, NEW n \in DOMAIN claim, NEW ref \in Ids
  PROVE  /\ Superseding(n, ref) \in [row : Claims, refs : SUBSET (DOMAIN episode \cup ArtifactRefs)]
         /\ Superseding(n, ref).row = SupersededBy(claim[n], ref)
<1>1. claim[n] \in Claims /\ evidence[claim[n].id] \subseteq DOMAIN episode \cup ArtifactRefs
  BY ListedArePositions DEF TablesOK
<1>2. SupersededBy(claim[n], ref) \in Claims
  BY <1>1 DEF SupersededBy, Claims, Ids
<1> QED BY <1>1, <1>2 DEF Superseding, Write

\* The writes of a signal.
LEMMA MergeIsTyped ==
  ASSUME TablesOK, NEW t \in WorkTasks, t.kind = "signal",
         t.refs \subseteq DOMAIN episode \cup ArtifactRefs, NEW id \in Ids, NEW shared
  PROVE  /\ 0 \in DOMAIN Merge(t, id, shared)
         /\ DOMAIN Merge(t, id, shared) \subseteq {0} \cup DOMAIN claim
         /\ DOMAIN Merge(t, id, shared) \subseteq Nat
         /\ \A n \in DOMAIN Merge(t, id, shared) :
              Merge(t, id, shared)[n]
                \in [row : Claims, refs : SUBSET (DOMAIN episode \cup ArtifactRefs)]
         /\ Merge(t, id, shared)[0] =
              Write(Settled(NewRow(t, id, shared), Contradicted(t)), MergedEvidence(t))
         /\ Merge(t, id, shared)[0].row.id = NewRow(t, id, shared).id
         /\ \A n \in DOMAIN Merge(t, id, shared) \ {0} :
              Merge(t, id, shared)[n] = Superseding(n, NewRow(t, id, shared).id)
<1> DEFINE row == NewRow(t, id, shared)
           C == Contradicted(t)
           D == {0} \cup Defeated(row, C)
           first == Write(Settled(row, C), MergedEvidence(t))
           writes == Merge(t, id, shared)
<1>1. row \in Claims
  BY NewRowIsTyped
<1>2. Defeated(row, C) \subseteq DOMAIN claim /\ DOMAIN claim = 1 .. Len(claim)
      /\ Len(claim) \in Nat
  BY ListedArePositions DEF Defeated
<1>3. writes = [n \in D |-> IF n = 0 THEN first ELSE Superseding(n, row.id)]
  BY DEF Merge
<1>4. /\ first \in [row : Claims, refs : SUBSET (DOMAIN episode \cup ArtifactRefs)]
      /\ first.row.id = row.id
  BY <1>1, SettledKeeps, MergedEvidenceIsTyped DEF Write
<1>5. row.id \in Ids
  BY <1>1 DEF Claims, Ids
<1> HIDE DEF row, C
<1>6. \A n \in D : n # 0 =>
        Superseding(n, row.id) \in [row : Claims, refs : SUBSET (DOMAIN episode \cup ArtifactRefs)]
  BY <1>2, <1>5, SupersedingIsTyped
<1> HIDE DEF first, writes
<1>7. DOMAIN writes = D /\ 0 \in D /\ D \subseteq {0} \cup DOMAIN claim /\ D \subseteq Nat
  BY <1>2, <1>3
<1>8. writes[0] = first /\ \A n \in D \ {0} : writes[n] = Superseding(n, row.id)
  BY <1>3
<1>9. \A n \in D : writes[n] \in [row : Claims, refs : SUBSET (DOMAIN episode \cup ArtifactRefs)]
  BY <1>4, <1>6, <1>8
<1> HIDE DEF D
<1>10. writes[0].row.id = row.id
  BY <1>4, <1>8
<1> QED BY <1>7, <1>8, <1>9, <1>10 DEF row, C, first, writes

-----------------------------------------------------------------------------
(* Every step keeps the types                                              *)

\* What is known of a storer at work.
LEMMA StorerAtWork ==
  ASSUME MemoryInv, NEW p \in Storers, Busy(p)
  PROVE  /\ StorerOK(storer[p], DOMAIN episode, DOMAIN evidence)
         /\ DOMAIN storer[p] = {"pc", "event", "todo", "plans", "writes", "id"}
         /\ storer[p].event \in DOMAIN episode
         /\ DOMAIN episode \subseteq 1 .. MaxEpisodes
         /\ storer[p].todo \in Seq(WorkTasks) /\ storer[p].todo # <<>>
         /\ Len(storer[p].todo) \in Nat
         /\ Head(storer[p].todo) = storer[p].todo[1]
         /\ Head(storer[p].todo) \in WorkTasks
         /\ Head(storer[p].todo).refs \subseteq DOMAIN episode \cup ArtifactRefs
         /\ \A n \in 1 .. Len(storer[p].todo) :
              storer[p].todo[n].refs \subseteq DOMAIN episode \cup ArtifactRefs
<1>1. /\ StorerOK(storer[p], DOMAIN episode, DOMAIN evidence)
      /\ DOMAIN storer[p] = {"pc", "event", "todo", "plans", "writes", "id"}
      /\ storer[p].event \in DOMAIN episode
      /\ storer[p].todo \in Seq(WorkTasks) /\ storer[p].todo # <<>>
      /\ \A n \in 1 .. Len(storer[p].todo) :
              storer[p].todo[n].refs \subseteq DOMAIN episode \cup ArtifactRefs
  BY DEF MemoryInv, StorersOK, StorerOK, StorerRow, HasWork, Busy
<1>2. DOMAIN episode \subseteq 1 .. MaxEpisodes
  BY MemoryAssumption DEF MemoryInv, TablesOK, MemoryAssumption
<1>3. /\ Len(storer[p].todo) \in Nat /\ Head(storer[p].todo) = storer[p].todo[1]
      /\ Head(storer[p].todo) \in WorkTasks /\ 1 \in 1 .. Len(storer[p].todo)
  BY <1>1, TailOfTasks
<1> QED BY <1>1, <1>2, <1>3

\* The tables stay.
LEMMA TablesStay ==
  ASSUME TablesOK, UNCHANGED <<episode, claim, evidence, indexed, disturbed>>
  PROVE  TablesOK'
BY DEF TablesOK

\* Going on with the tasks after the first.
LEMMA ProceedWithTail ==
  ASSUME MemoryInv, NEW p \in Storers, Busy(p), Proceed(p, Tail(storer[p].todo)),
         DOMAIN episode \subseteq DOMAIN episode', DOMAIN evidence \subseteq DOMAIN evidence'
  PROVE  StorersOK'
<1> DEFINE todo == Tail(storer[p].todo)
<1>1. /\ todo \in Seq(WorkTasks)
      /\ \A n \in 1 .. Len(todo) : todo[n].refs \subseteq DOMAIN episode \cup ArtifactRefs
  <2>1. /\ todo \in Seq(WorkTasks) /\ Len(todo) = Len(storer[p].todo) - 1
        /\ Len(storer[p].todo) \in Nat
        /\ \A n \in 1 .. Len(todo) : todo[n] = storer[p].todo[n + 1]
    BY StorerAtWork, TailOfTasks
  <2> HIDE DEF todo
  <2>2. \A n \in 1 .. Len(todo) : n + 1 \in 1 .. Len(storer[p].todo)
    BY <2>1
  <2> QED BY <2>1, <2>2, StorerAtWork
<1> HIDE DEF todo
<1>2. Proceed(p, todo)
  BY DEF todo
<1>3. StorersOK
  BY DEF MemoryInv
<1> QED BY <1>1, <1>2, <1>3, ProceedIsOK

\* A storer begins to write.
LEMMA StorerBeginsToWrite ==
  ASSUME MemoryInv, NEW p \in Storers, Busy(p), NEW writes, NEW id,
         DOMAIN writes # {}, WritesTyped(writes, DOMAIN episode),
         0 \in DOMAIN writes => id = writes[0].row.id,
         0 \notin DOMAIN writes => id = NoRef,
         Perform(p, writes, id), UNCHANGED <<episode, evidence>>
  PROVE  StorersOK'
<1> DEFINE s == [storer[p] EXCEPT !.pc = "row", !.plans = <<>>, !.writes = writes, !.id = id]
           E == DOMAIN episode
           V == DOMAIN evidence
<1>1. storer' = [storer EXCEPT ![p] = s]
  BY DEF Perform
<1>2. /\ StorerOK(storer[p], E, V)
      /\ DOMAIN storer[p] = {"pc", "event", "todo", "plans", "writes", "id"}
  BY StorerAtWork
<1>3. /\ DOMAIN s = {"pc", "event", "todo", "plans", "writes", "id"}
      /\ s.pc = "row" /\ s.todo = storer[p].todo /\ s.event = storer[p].event
      /\ s.writes = writes /\ s.id = id
  BY <1>2
<1>4. "row" \in StorerStates
  BY DEF StorerStates
<1> HIDE DEF s
<1>5. StorerOK(s, E, V)
  <2>1. StorerRow(s, E)
    BY <1>2, <1>3, <1>4 DEF StorerOK, StorerRow
  <2>2. HasWork(s, E)
    BY <1>2, <1>3 DEF StorerOK, HasWork, Busy
  <2>3. InOrder(s, V)
    BY <1>3 DEF InOrder
  <2> QED BY <2>1, <2>2, <2>3 DEF StorerOK
<1>6. StorerOK(s, E', V')
  BY <1>5
<1> QED BY <1>1, <1>6, OneStorerMoves DEF MemoryInv

\* A signal plans its writes.
LEMMA PlanSignalKeepsTypes ==
  ASSUME MemoryInv, NEW p \in Storers, PlanSignal(p)
  PROVE  MemoryInv'
<1> DEFINE t == Head(storer[p].todo)
           id == <<storer[p].event, Len(storer[p].todo)>>
           plans == [shared \in BOOLEAN |-> Merge(t, id, shared)]
           name == NewRow(t, id, FALSE).id
           E == DOMAIN episode
           V == DOMAIN evidence
<1>1. /\ Busy(p) /\ t.kind = "signal"
      /\ IF AsksWorkspaces(t)
         THEN storer' = [storer EXCEPT ![p].pc = "count", ![p].plans = plans, ![p].id = name]
         ELSE Perform(p, plans[FALSE], name)
  BY DEF PlanSignal, AtTask, Busy
<1>2. t \in WorkTasks /\ t.refs \subseteq DOMAIN episode \cup ArtifactRefs /\ id \in Ids
  BY <1>1, StorerAtWork DEF Ids
<1>3. UNCHANGED <<episode, claim, evidence, indexed, disturbed>>
  BY DEF PlanSignal
<1> HIDE DEF t, id
<1>4. ASSUME NEW shared \in BOOLEAN
      PROVE  /\ 0 \in DOMAIN plans[shared] /\ WritesTyped(plans[shared], E)
             /\ plans[shared][0].row.id = name
  <2>1. /\ 0 \in DOMAIN Merge(t, id, shared) /\ WritesTyped(Merge(t, id, shared), E)
        /\ Merge(t, id, shared)[0].row.id = NewRow(t, id, shared).id
    BY <1>1, <1>2, MergeIsTyped DEF MemoryInv, WritesTyped
  <2>2. NewRow(t, id, shared).id = name
    BY NameOfARow
  <2> QED BY <2>1, <2>2
<1> HIDE DEF plans, name
<1>5. CASE AsksWorkspaces(t)
  <2> DEFINE s == [storer[p] EXCEPT !.pc = "count", !.plans = plans, !.id = name]
  <2>1. storer' = [storer EXCEPT ![p] = s]
    BY <1>1, <1>5
  <2>2. /\ StorerOK(storer[p], E, V)
        /\ DOMAIN storer[p] = {"pc", "event", "todo", "plans", "writes", "id"}
    BY <1>1, StorerAtWork
  <2>3. /\ DOMAIN s = {"pc", "event", "todo", "plans", "writes", "id"}
        /\ s.pc = "count" /\ s.todo = storer[p].todo /\ s.event = storer[p].event
        /\ s.plans = plans /\ s.writes = storer[p].writes /\ s.id = name
    BY <2>2
  <2>4. "count" \in StorerStates
    BY DEF StorerStates
  <2> HIDE DEF s
  <2>5. StorerRow(s, E)
    BY <1>4, <2>2, <2>3, <2>4 DEF StorerOK, StorerRow
  <2>6. HasWork(s, E)
    BY <1>1, <2>2, <2>3 DEF StorerOK, HasWork, Busy
  <2>7. InOrder(s, V)
    BY <1>4, <2>3 DEF InOrder
  <2>8. StorerOK(s, E', V')
    BY <1>3, <2>5, <2>6, <2>7 DEF StorerOK
  <2>9. StorersOK'
    BY <1>3, <2>1, <2>8, OneStorerMoves DEF MemoryInv
  <2> QED BY <1>3, <2>9, TablesStay DEF MemoryInv
<1>6. CASE ~AsksWorkspaces(t)
  <2> DEFINE writes == plans[FALSE]
  <2>1. /\ DOMAIN writes # {} /\ 0 \in DOMAIN writes /\ WritesTyped(writes, DOMAIN episode)
        /\ name = writes[0].row.id
    BY <1>4
  <2>2. Perform(p, writes, name)
    BY <1>1, <1>6
  <2> HIDE DEF writes
  <2>3. StorersOK'
    BY <1>1, <1>3, <2>1, <2>2, StorerBeginsToWrite
  <2> QED BY <1>3, <2>3, TablesStay DEF MemoryInv
<1> QED BY <1>5, <1>6

\* The second reading decides between two plans.
LEMMA CountWorkspacesKeepsTypes ==
  ASSUME MemoryInv, NEW p \in Storers, CountWorkspaces(p)
  PROVE  MemoryInv'
<1> DEFINE many == DistinctWorkspaces(Head(storer[p].todo).statement) >= 2
<1>1. PICK shared \in BOOLEAN : Perform(p, storer[p].plans[shared], storer[p].id)
  <2>1. many \in BOOLEAN
    OBVIOUS
  <2>2. Perform(p, storer[p].plans[many], storer[p].id)
    BY DEF CountWorkspaces
  <2> HIDE DEF many
  <2> QED BY <2>1, <2>2
<1>2. /\ Busy(p) /\ storer[p].pc = "count"
      /\ UNCHANGED <<episode, claim, evidence, indexed, disturbed>>
  BY DEF CountWorkspaces, Busy
<1> DEFINE writes == storer[p].plans[shared]
<1>3. /\ 0 \in DOMAIN writes /\ WritesTyped(writes, DOMAIN episode)
      /\ storer[p].id = writes[0].row.id
  BY <1>2, StorerAtWork DEF StorerOK, StorerRow, InOrder
<1> HIDE DEF writes
<1>4. DOMAIN writes # {} /\ Perform(p, writes, storer[p].id)
  BY <1>1, <1>3 DEF writes
<1>5. StorersOK'
  BY <1>2, <1>3, <1>4, StorerBeginsToWrite
<1> QED BY <1>2, <1>5, TablesStay DEF MemoryInv

\* So does the resolving of loops.
LEMMA PlanResolveKeepsTypes ==
  ASSUME MemoryInv, NEW p \in Storers, PlanResolve(p)
  PROVE  MemoryInv'
<1> DEFINE e == storer[p].event
           D == StaleLoops(e, Head(storer[p].todo).scope)
           writes == [n \in D |-> Superseding(n, EventRef(e))]
<1>1. Busy(p) /\ Perform(p, writes, NoRef)
  BY DEF PlanResolve, AtTask, Busy
<1>2. UNCHANGED <<episode, claim, evidence, indexed, disturbed>>
  BY DEF PlanResolve
<1>3. EventRef(e) \in Ids
  BY <1>1, StorerAtWork DEF EventRef, Ids
<1>4. D \subseteq DOMAIN claim /\ DOMAIN claim = 1 .. Len(claim)
  BY DEF MemoryInv, TablesOK, StaleLoops, Listed
<1> HIDE DEF e, D
<1>5. /\ DOMAIN writes = D /\ D \subseteq Nat /\ 0 \notin D
      /\ \A n \in D : writes[n] \in [row : Claims, refs : SUBSET (DOMAIN episode \cup ArtifactRefs)]
  BY <1>3, <1>4, SupersedingIsTyped DEF MemoryInv
<1> HIDE DEF writes
<1>6. WritesTyped(writes, DOMAIN episode)
  BY <1>5 DEF WritesTyped
<1>7. CASE D = {}
  <2>1. Proceed(p, Tail(storer[p].todo))
    BY <1>1, <1>5, <1>7 DEF Perform
  <2>2. StorersOK'
    BY <1>1, <1>2, <2>1, ProceedWithTail
  <2> QED BY <1>2, <2>2, TablesStay DEF MemoryInv
<1>8. CASE D # {}
  <2>1. StorersOK'
    BY <1>1, <1>2, <1>5, <1>6, <1>8, StorerBeginsToWrite
  <2> QED BY <1>2, <2>1, TablesStay DEF MemoryInv
<1> QED BY <1>7, <1>8

\* A promotion goes ahead, or is passed over.
LEMMA PromoteKeepsTypes ==
  ASSUME MemoryInv, NEW p \in Storers, Promote(p)
  PROVE  MemoryInv'
<1> DEFINE todo == storer[p].todo
           h == [Head(todo) EXCEPT !.kind = "signal"]
<1>1. Busy(p) /\ Head(todo).kind = "promote"
  BY DEF Promote, AtTask, Busy
<1>2. UNCHANGED <<episode, claim, evidence, indexed, disturbed>>
  BY DEF Promote
<1>3. CASE Proceed(p, Tail(todo))
  <2>1. StorersOK'
    BY <1>1, <1>2, <1>3, ProceedWithTail
  <2> QED BY <1>2, <2>1, TablesStay DEF MemoryInv
<1>4. CASE Proceed(p, <<h>> \o Tail(todo))
  <2> DEFINE new == <<h>> \o Tail(todo)
  <2>1. /\ Head(todo) \in WorkTasks /\ Head(todo).refs \subseteq DOMAIN episode \cup ArtifactRefs
        /\ todo \in Seq(WorkTasks) /\ todo # <<>>
        /\ \A n \in 1 .. Len(todo) : todo[n].refs \subseteq DOMAIN episode \cup ArtifactRefs
    BY <1>1, StorerAtWork
  <2>2. h \in WorkTasks /\ h.refs = Head(todo).refs
    BY <1>1, <2>1 DEF WorkTasks
  <2>3. /\ Tail(todo) \in Seq(WorkTasks) /\ Len(Tail(todo)) = Len(todo) - 1
        /\ Len(todo) \in Nat /\ \A n \in 1 .. Len(Tail(todo)) : Tail(todo)[n] = todo[n + 1]
    BY <2>1, TailOfTasks
  <2> HIDE DEF h, todo
  <2>4. /\ new \in Seq(WorkTasks) /\ Len(new) = Len(todo)
        /\ new[1] = h /\ \A n \in 2 .. Len(todo) : new[n] = Tail(todo)[n - 1]
    BY <2>2, <2>3
  <2>5. \A n \in 2 .. Len(todo) : new[n] = todo[n]
    <3> TAKE n \in 2 .. Len(todo)
    <3>1. n - 1 \in 1 .. Len(Tail(todo)) /\ (n - 1) + 1 = n
      BY <2>3
    <3> HIDE DEF new
    <3> QED BY <2>3, <2>4, <3>1
  <2> HIDE DEF new
  <2>6. \A n \in 1 .. Len(new) : new[n].refs \subseteq DOMAIN episode \cup ArtifactRefs
    <3> TAKE n \in 1 .. Len(new)
    <3>1. n = 1 \/ n \in 2 .. Len(todo)
      BY <2>3, <2>4
    <3> QED BY <2>1, <2>2, <2>3, <2>4, <2>5, <3>1
  <2>7. Proceed(p, new)
    BY <1>4 DEF new
  <2>8. StorersOK'
    BY <1>1, <1>2, <2>4, <2>6, <2>7, ProceedIsOK DEF MemoryInv
  <2> QED BY <1>2, <2>8, TablesStay DEF MemoryInv
<1> QED BY <1>3, <1>4 DEF Promote

\* A sequence without the element at k.
LEMMA RemoveAtProperties ==
  ASSUME NEW S, NEW s \in Seq(S), NEW k \in 1 .. Len(s)
  PROVE  /\ RemoveAt(s, k) \in Seq(S) /\ Len(RemoveAt(s, k)) = Len(s) - 1
         /\ \A n \in 1 .. Len(s) - 1 : RemoveAt(s, k)[n] = s[IF n < k THEN n ELSE n + 1]
<1> DEFINE a == SubSeq(s, 1, k - 1)
           b == SubSeq(s, k + 1, Len(s))
<1>1. Len(s) \in Nat /\ \A n \in 1 .. Len(s) : s[n] \in S
  OBVIOUS
<1>2. /\ a \in Seq(S) /\ Len(a) = k - 1
      /\ \A n \in 1 .. k - 1 : a[n] = s[n]
  BY <1>1, SubSeqProperties
<1>3. /\ b \in Seq(S) /\ Len(b) = Len(s) - k
      /\ \A n \in 1 .. Len(s) - k : b[n] = s[k + n]
  BY <1>1, SubSeqProperties
<1>4. RemoveAt(s, k) = a \o b
  BY DEF RemoveAt
<1> HIDE DEF a, b
<1> DEFINE j == a \o b
<1>5. /\ j \in Seq(S) /\ Len(j) = Len(s) - 1
      /\ \A n \in 1 .. k - 1 : j[n] = a[n]
      /\ \A n \in k .. Len(s) - 1 : j[n] = b[n - (k - 1)]
  BY <1>1, <1>2, <1>3, ConcatProperties
<1> HIDE DEF j
<1>6. ASSUME NEW n \in 1 .. Len(s) - 1 PROVE j[n] = s[IF n < k THEN n ELSE n + 1]
  <2>1. CASE n < k
    <3>1. n \in 1 .. k - 1
      BY <2>1
    <3> QED BY <1>2, <1>5, <2>1, <3>1
  <2>2. CASE ~(n < k)
    <3>1. n \in k .. Len(s) - 1 /\ n - (k - 1) \in 1 .. Len(s) - k
          /\ k + (n - (k - 1)) = n + 1
      BY <1>1, <2>2
    <3>2. j[n] = b[n - (k - 1)]
      BY <1>5, <3>1
    <3>3. b[n - (k - 1)] = s[n + 1]
      BY <1>3, <3>1
    <3> QED BY <2>2, <3>2, <3>3
  <2> QED BY <2>1, <2>2
<1> QED BY <1>4, <1>5, <1>6 DEF j

\* The claims that stay when one is written.
LEMMA WithoutProperties ==
  ASSUME TablesOK, NEW id
  PROVE  /\ Without(id) \in Seq(Claims)
         /\ \A n \in DOMAIN Without(id) :
              \E m \in DOMAIN claim : Without(id)[n] = claim[m] /\ claim[m].id # id
         /\ \A m \in DOMAIN claim : claim[m].id # id =>
              \E n \in DOMAIN Without(id) : Without(id)[n] = claim[m]
         /\ \A m, n \in DOMAIN Without(id) : Without(id)[m].id = Without(id)[n].id => m = n
<1>0. /\ claim \in Seq(Claims) /\ DOMAIN claim = 1 .. Len(claim) /\ Len(claim) \in Nat
      /\ \A m, n \in DOMAIN claim : claim[m].id = claim[n].id => m = n
  BY DEF TablesOK
<1>1. CASE ~\E n \in DOMAIN claim : claim[n].id = id
  <2>1. Without(id) = claim
    BY <1>1 DEF Without
  <2> QED BY <1>0, <1>1, <2>1
<1>2. CASE \E n \in DOMAIN claim : claim[n].id = id
  <2> DEFINE k == CHOOSE n \in DOMAIN claim : claim[n].id = id
             rest == RemoveAt(claim, k)
             pos(n) == IF n < k THEN n ELSE n + 1
  <2>1. k \in 1 .. Len(claim) /\ claim[k].id = id
    BY <1>0, <1>2
  <2>2. Without(id) = rest
    BY <1>2 DEF Without
  <2> HIDE DEF k
  <2>3. /\ rest \in Seq(Claims) /\ Len(rest) = Len(claim) - 1
        /\ \A n \in 1 .. Len(claim) - 1 : rest[n] = claim[pos(n)]
    BY <1>0, <2>1, RemoveAtProperties
  <2> HIDE DEF rest
  <2>4. DOMAIN rest = 1 .. Len(claim) - 1
    BY <2>3
  <2>5. \A n \in DOMAIN rest : pos(n) \in DOMAIN claim /\ pos(n) # k
    BY <1>0, <2>1, <2>4
  <2>6. \A n \in DOMAIN rest : \E m \in DOMAIN claim : rest[n] = claim[m] /\ claim[m].id # id
    <3> TAKE n \in DOMAIN rest
    <3>1. rest[n] = claim[pos(n)] /\ pos(n) \in DOMAIN claim /\ pos(n) # k
      BY <2>3, <2>4, <2>5
    <3>2. claim[pos(n)].id # id
      BY <1>0, <2>1, <3>1
    <3> QED BY <3>1, <3>2
  <2>7. \A m \in DOMAIN claim : claim[m].id # id => \E n \in DOMAIN rest : rest[n] = claim[m]
    <3> TAKE m \in DOMAIN claim
    <3> HAVE claim[m].id # id
    <3> DEFINE n == IF m < k THEN m ELSE m - 1
    <3>1. m # k
      BY <2>1
    <3>2. n \in DOMAIN rest /\ pos(n) = m
      BY <1>0, <2>1, <2>4, <3>1
    <3> HIDE DEF n
    <3>3. rest[n] = claim[pos(n)]
      BY <2>3, <2>4, <3>2
    <3> QED BY <3>2, <3>3
  <2>8. \A m, n \in DOMAIN rest : rest[m].id = rest[n].id => m = n
    <3> TAKE m, n \in DOMAIN rest
    <3> HAVE rest[m].id = rest[n].id
    <3>1. rest[m] = claim[pos(m)] /\ rest[n] = claim[pos(n)]
      BY <2>3, <2>4
    <3>2. pos(m) = pos(n)
      <4>1. claim[pos(m)].id = claim[pos(n)].id
        BY <3>1
      <4>2. pos(m) \in DOMAIN claim /\ pos(n) \in DOMAIN claim
        BY <2>5
      <4> HIDE DEF pos
      <4> QED BY <1>0, <4>1, <4>2
    <3> QED BY <2>1, <2>4, <3>2
  <2> QED BY <2>2, <2>3, <2>6, <2>7, <2>8
<1> QED BY <1>1, <1>2

\* The row written comes first; of the others, each was there.
ComesFirst(row, all) ==
  /\ all \in Seq(Claims)
  /\ 1 \in DOMAIN all /\ all[1] = row
  /\ \A n \in DOMAIN all : n # 1 =>
       \E m \in DOMAIN claim : all[n] = claim[m] /\ claim[m].id # row.id
  /\ \A m \in DOMAIN claim : claim[m].id # row.id =>
       \E n \in DOMAIN all : all[n] = claim[m]
  /\ \A m, n \in DOMAIN all : all[m].id = all[n].id => m = n

\* So it is when a row is written.
LEMMA RowComesFirst ==
  ASSUME TablesOK, NEW row \in Claims, NEW all, all = <<row>> \o Without(row.id)
  PROVE  ComesFirst(row, all)
<1> DEFINE rest == Without(row.id)
           first == <<row>>
<1>1. /\ rest \in Seq(Claims)
      /\ \A n \in DOMAIN rest :
           \E m \in DOMAIN claim : rest[n] = claim[m] /\ claim[m].id # row.id
      /\ \A m \in DOMAIN claim : claim[m].id # row.id =>
           \E n \in DOMAIN rest : rest[n] = claim[m]
      /\ \A m, n \in DOMAIN rest : rest[m].id = rest[n].id => m = n
  BY WithoutProperties
<1>2. first \in Seq(Claims) /\ Len(first) = 1 /\ first[1] = row
  OBVIOUS
<1>3. all = first \o rest
  OBVIOUS
<1> HIDE DEF first, rest
<1>4. /\ all \in Seq(Claims) /\ Len(all) = 1 + Len(rest) /\ Len(rest) \in Nat
      /\ all[1] = row
      /\ \A n \in 2 .. Len(rest) + 1 : all[n] = rest[n - 1]
  <2>1. /\ all \in Seq(Claims) /\ Len(all) = Len(first) + Len(rest) /\ Len(rest) \in Nat
        /\ \A n \in 1 .. Len(first) : all[n] = first[n]
        /\ \A n \in Len(first) + 1 .. Len(first) + Len(rest) : all[n] = rest[n - Len(first)]
    <3>1. first \in Seq(Claims) /\ rest \in Seq(Claims)
      BY <1>1, <1>2
    <3> DEFINE j == first \o rest
    <3>2. /\ j \in Seq(Claims) /\ Len(j) = Len(first) + Len(rest) /\ Len(rest) \in Nat
          /\ \A n \in 1 .. Len(first) : j[n] = first[n]
          /\ \A n \in Len(first) + 1 .. Len(first) + Len(rest) : j[n] = rest[n - Len(first)]
      BY <3>1, ConcatProperties
    <3>3. all = j
      BY <1>3
    <3> HIDE DEF j
    <3> QED BY <3>2, <3>3
  <2>2. all[1] = row
    BY <1>2, <2>1
  <2> QED BY <1>2, <2>1, <2>2
<1>5. DOMAIN all = 1 .. Len(rest) + 1 /\ DOMAIN rest = 1 .. Len(rest)
  BY <1>1, <1>4
<1>6. \A n \in DOMAIN all : n # 1 => n - 1 \in DOMAIN rest /\ all[n] = rest[n - 1]
  BY <1>4, <1>5
<1>7. \A n \in DOMAIN all : n # 1 =>
        \E m \in DOMAIN claim : all[n] = claim[m] /\ claim[m].id # row.id
  BY <1>1, <1>6
<1>8. \A m \in DOMAIN claim : claim[m].id # row.id => \E n \in DOMAIN all : all[n] = claim[m]
  <2> TAKE m \in DOMAIN claim
  <2> HAVE claim[m].id # row.id
  <2>1. PICK n \in DOMAIN rest : rest[n] = claim[m]
    BY <1>1
  <2>2. n + 1 \in DOMAIN all /\ n + 1 # 1 /\ (n + 1) - 1 = n
    BY <1>4, <1>5
  <2>3. all[n + 1] = rest[n]
    BY <1>6, <2>2
  <2> QED BY <2>1, <2>2, <2>3
<1>9. \A m, n \in DOMAIN all : all[m].id = all[n].id => m = n
  <2> TAKE m, n \in DOMAIN all
  <2> HAVE all[m].id = all[n].id
  <2>1. CASE m = 1 /\ n # 1
    BY <1>4, <1>7, <2>1
  <2>2. CASE n = 1 /\ m # 1
    BY <1>4, <1>7, <2>2
  <2>3. CASE m # 1 /\ n # 1
    <3>1. /\ m - 1 \in DOMAIN rest /\ all[m] = rest[m - 1]
          /\ n - 1 \in DOMAIN rest /\ all[n] = rest[n - 1]
      BY <1>6, <2>3
    <3>2. m - 1 = n - 1
      BY <1>1, <3>1
    <3>3. m \in Int /\ n \in Int
      BY <1>5
    <3> QED BY <3>2, <3>3
  <2>4. CASE m = 1 /\ n = 1
    BY <2>4
  <2> QED BY <2>1, <2>2, <2>3, <2>4
<1>10. 1 \in DOMAIN all
  BY <1>4, <1>5
<1>11. all \in Seq(Claims) /\ all[1] = row
  BY <1>4
<1> QED BY <1>7, <1>8, <1>9, <1>10, <1>11 DEF ComesFirst

\* The write a storer is at.
LEMMA CurrentWrite ==
  ASSUME MemoryInv, NEW p \in Storers, storer[p].pc \in {"row", "clear", "insert"}
  PROVE  /\ Busy(p) /\ Upcoming(p) \in DOMAIN storer[p].writes
         /\ \A n \in DOMAIN storer[p].writes : Upcoming(p) <= n
         /\ DOMAIN storer[p].writes \subseteq Nat
         /\ Current(p) = storer[p].writes[Upcoming(p)]
         /\ Current(p) \in [row : Claims, refs : SUBSET (DOMAIN episode \cup ArtifactRefs)]
         /\ Current(p).row.id \in Ids
         /\ storer[p].pc # "row" => Current(p).row.id \in DOMAIN evidence
<1>1. Busy(p)
  BY DEF Busy
<1>2. StorerOK(storer[p], DOMAIN episode, DOMAIN evidence)
  BY <1>1, StorerAtWork
<1>3. /\ DOMAIN storer[p].writes \subseteq Nat /\ DOMAIN storer[p].writes # {}
      /\ \A n \in DOMAIN storer[p].writes :
           storer[p].writes[n] \in [row : Claims, refs : SUBSET (DOMAIN episode \cup ArtifactRefs)]
      /\ storer[p].pc # "row" => storer[p].writes[Min(DOMAIN storer[p].writes)].row.id
                                   \in DOMAIN evidence
  BY <1>2 DEF StorerOK, StorerRow, WritesTyped, InOrder
<1>4. /\ Upcoming(p) \in DOMAIN storer[p].writes
      /\ \A n \in DOMAIN storer[p].writes : Upcoming(p) <= n
  BY <1>3, MinProperties DEF Upcoming
<1>5. Current(p) \in [row : Claims, refs : SUBSET (DOMAIN episode \cup ArtifactRefs)]
  BY <1>3, <1>4 DEF Current
<1>6. Current(p).row.id \in Ids
  BY <1>5 DEF Claims, Ids
<1> QED BY <1>1, <1>3, <1>4, <1>5, <1>6 DEF Current, Upcoming

\* A row is written.
LEMMA WriteRowKeepsTypes ==
  ASSUME MemoryInv, NEW p \in Storers, WriteRow(p)
  PROVE  MemoryInv'
<1> DEFINE row == Current(p).row
           s == [storer[p] EXCEPT !.pc = "clear"]
<1>1. /\ row \in Claims
      /\ claim' = <<row>> \o Without(row.id)
      /\ evidence' = Inserted(evidence, row.id, {})
      /\ storer' = [storer EXCEPT ![p] = s]
      /\ UNCHANGED <<episode, indexed, disturbed>>
      /\ storer[p].pc = "row"
  BY CurrentWrite DEF WriteRow
<1>2. /\ DOMAIN evidence' = DOMAIN evidence \cup {row.id}
      /\ \A c \in DOMAIN evidence' : evidence'[c] =
           IF c \in DOMAIN evidence THEN evidence[c] ELSE {}
  BY <1>1 DEF Inserted
<1>3. TablesOK
  BY DEF MemoryInv
<1> HIDE DEF row
<1>4. ComesFirst(row, claim')
  BY <1>1, <1>3, RowComesFirst
<1>5. /\ claim' \in Seq(Claims)
      /\ 1 \in DOMAIN claim' /\ claim'[1] = row
      /\ \A n \in DOMAIN claim' : n # 1 =>
           \E m \in DOMAIN claim : claim'[n] = claim[m] /\ claim[m].id # row.id
      /\ \A m \in DOMAIN claim : claim[m].id # row.id =>
           \E n \in DOMAIN claim' : claim'[n] = claim[m]
      /\ \A m, n \in DOMAIN claim' : claim'[m].id = claim'[n].id => m = n
  BY <1>4 DEF ComesFirst
<1>6. DOMAIN evidence' = {claim'[n].id : n \in DOMAIN claim'}
  <2>1. DOMAIN evidence = {claim[n].id : n \in DOMAIN claim}
    BY <1>3 DEF TablesOK
  <2>2. ASSUME NEW c \in DOMAIN evidence' PROVE \E n \in DOMAIN claim' : claim'[n].id = c
    <3>1. CASE c = row.id
      BY <1>5, <3>1
    <3>2. CASE c # row.id
      <4>1. PICK m \in DOMAIN claim : claim[m].id = c
        BY <1>2, <2>1, <3>2
      <4> QED BY <1>5, <3>2, <4>1
    <3> QED BY <3>1, <3>2
  <2>3. ASSUME NEW n \in DOMAIN claim' PROVE claim'[n].id \in DOMAIN evidence'
    <3>1. CASE n = 1
      BY <1>2, <1>5, <3>1
    <3>2. CASE n # 1
      BY <1>2, <1>5, <2>1, <3>2
    <3> QED BY <3>1, <3>2
  <2> QED BY <2>2, <2>3
<1>7. \A c \in DOMAIN evidence' : evidence'[c] \subseteq DOMAIN episode' \cup ArtifactRefs
  BY <1>1, <1>2, <1>3 DEF TablesOK
<1>8. TablesOK'
  BY <1>1, <1>2, <1>3, <1>5, <1>6, <1>7 DEF TablesOK
<1>9. StorerOK(s, DOMAIN episode', DOMAIN evidence')
  <2>1. /\ Busy(p) /\ StorerOK(storer[p], DOMAIN episode, DOMAIN evidence)
        /\ DOMAIN storer[p] = {"pc", "event", "todo", "plans", "writes", "id"}
        /\ Current(p) = storer[p].writes[Min(DOMAIN storer[p].writes)]
    BY <1>1, CurrentWrite, StorerAtWork DEF Upcoming
  <2>2. /\ DOMAIN s = {"pc", "event", "todo", "plans", "writes", "id"} /\ s.pc = "clear"
        /\ s.event = storer[p].event /\ s.todo = storer[p].todo
        /\ s.writes = storer[p].writes /\ s.id = storer[p].id
    BY <2>1
  <2>3. "clear" \in StorerStates
    BY DEF StorerStates
  <2> HIDE DEF s
  <2>4. StorerRow(s, DOMAIN episode')
    BY <1>1, <2>1, <2>2, <2>3 DEF StorerOK, StorerRow
  <2>5. HasWork(s, DOMAIN episode')
    BY <1>1, <2>1, <2>2 DEF StorerOK, HasWork, Busy
  <2>6. InOrder(s, DOMAIN evidence')
    <3>1. s.writes[Min(DOMAIN s.writes)].row.id \in DOMAIN evidence'
      BY <1>2, <2>1, <2>2 DEF row
    <3>2. /\ DOMAIN s.writes # {}
          /\ 0 \in DOMAIN s.writes => s.id = s.writes[0].row.id
          /\ 0 \notin DOMAIN s.writes => s.id \in DOMAIN evidence' \cup {NoRef}
      BY <1>1, <1>2, <2>1, <2>2 DEF StorerOK, InOrder
    <3> QED BY <2>2, <3>1, <3>2 DEF InOrder
  <2> QED BY <2>4, <2>5, <2>6 DEF StorerOK
<1> HIDE DEF s
<1>10. StorersOK'
  BY <1>1, <1>2, <1>9, OneStorerMoves DEF MemoryInv
<1> QED BY <1>8, <1>10 DEF MemoryInv

\* The evidence of the claim is deleted.
LEMMA ClearEvidenceKeepsTypes ==
  ASSUME MemoryInv, NEW p \in Storers, ClearEvidence(p)
  PROVE  MemoryInv'
<1> DEFINE id == Current(p).row.id
           s == [storer[p] EXCEPT !.pc = "insert"]
<1>1. /\ storer[p].pc = "clear" /\ id \in DOMAIN evidence
      /\ evidence' = [evidence EXCEPT ![id] = {}]
      /\ storer' = [storer EXCEPT ![p] = s]
      /\ UNCHANGED <<episode, claim, indexed, disturbed>>
  BY CurrentWrite DEF ClearEvidence
<1> HIDE DEF id
<1>2. DOMAIN evidence' = DOMAIN evidence
  BY <1>1
<1>3. \A c \in DOMAIN evidence' : evidence'[c] \subseteq DOMAIN episode' \cup ArtifactRefs
  BY <1>1 DEF MemoryInv, TablesOK
<1>4. TablesOK'
  BY <1>1, <1>2, <1>3 DEF MemoryInv, TablesOK
<1>5. StorerOK(s, DOMAIN episode', DOMAIN evidence')
  <2>1. /\ StorerOK(storer[p], DOMAIN episode, DOMAIN evidence)
        /\ DOMAIN storer[p] = {"pc", "event", "todo", "plans", "writes", "id"}
    BY <1>1, CurrentWrite, StorerAtWork
  <2>2. /\ DOMAIN s = {"pc", "event", "todo", "plans", "writes", "id"} /\ s.pc = "insert"
        /\ s.event = storer[p].event /\ s.todo = storer[p].todo
        /\ s.writes = storer[p].writes /\ s.id = storer[p].id
    BY <2>1
  <2>3. "insert" \in StorerStates
    BY DEF StorerStates
  <2> HIDE DEF s
  <2>4. StorerRow(s, DOMAIN episode')
    BY <1>1, <2>1, <2>2, <2>3 DEF StorerOK, StorerRow
  <2>5. HasWork(s, DOMAIN episode')
    BY <1>1, <2>1, <2>2 DEF StorerOK, HasWork
  <2>6. InOrder(s, DOMAIN evidence')
    BY <1>1, <1>2, <2>1, <2>2 DEF StorerOK, InOrder
  <2> QED BY <2>4, <2>5, <2>6 DEF StorerOK
<1> HIDE DEF s
<1>6. StorersOK'
  BY <1>1, <1>2, <1>5, OneStorerMoves DEF MemoryInv
<1> QED BY <1>4, <1>6 DEF MemoryInv

\* A row of evidence is inserted.
LEMMA InsertEvidenceKeepsTypes ==
  ASSUME MemoryInv, NEW p \in Storers, NEW ref \in DOMAIN episode \cup ArtifactRefs,
         InsertEvidence(p, ref)
  PROVE  MemoryInv'
<1> DEFINE id == Current(p).row.id
           u == Upcoming(p)
           w == [storer[p].writes[u] EXCEPT !.refs = @ \ {ref}]
           writes == [storer[p].writes EXCEPT ![u] = w]
           s == [storer[p] EXCEPT !.writes = writes]
<1>1. /\ storer[p].pc = "insert" /\ id \in DOMAIN evidence
      /\ evidence' = [evidence EXCEPT ![id] = @ \cup {ref}]
      /\ storer' = [storer EXCEPT ![p] = s]
      /\ UNCHANGED <<episode, claim, indexed, disturbed>>
  <2>1. storer' = [storer EXCEPT ![p].writes[u].refs = @ \ {ref}]
    BY DEF InsertEvidence
  <2> QED BY <2>1, CurrentWrite DEF InsertEvidence
<1> HIDE DEF id
<1>2. DOMAIN evidence' = DOMAIN evidence
  BY <1>1
<1>3. \A c \in DOMAIN evidence' : evidence'[c] \subseteq DOMAIN episode' \cup ArtifactRefs
  BY <1>1 DEF MemoryInv, TablesOK
<1>4. TablesOK'
  BY <1>1, <1>2, <1>3 DEF MemoryInv, TablesOK
<1>5. StorerOK(s, DOMAIN episode', DOMAIN evidence')
  <2>1. /\ StorerOK(storer[p], DOMAIN episode, DOMAIN evidence)
        /\ DOMAIN storer[p] = {"pc", "event", "todo", "plans", "writes", "id"}
        /\ u \in DOMAIN storer[p].writes
        /\ storer[p].writes[u] \in [row : Claims, refs : SUBSET (DOMAIN episode \cup ArtifactRefs)]
    BY <1>1, CurrentWrite, StorerAtWork
  <2>2. /\ DOMAIN s = {"pc", "event", "todo", "plans", "writes", "id"} /\ s.pc = "insert"
        /\ s.event = storer[p].event /\ s.todo = storer[p].todo
        /\ s.writes = writes /\ s.id = storer[p].id
    <3> HIDE DEF writes
    <3> QED BY <1>1, <2>1
  <2>3. /\ w \in [row : Claims, refs : SUBSET (DOMAIN episode \cup ArtifactRefs)]
        /\ w.row = storer[p].writes[u].row
    BY <2>1
  <2> HIDE DEF s, w, u
  <2>4. /\ DOMAIN writes = DOMAIN storer[p].writes
        /\ \A n \in DOMAIN writes : writes[n] = IF n = u THEN w ELSE storer[p].writes[n]
    BY <2>1
  <2> HIDE DEF writes
  <2>5. /\ \A n \in DOMAIN writes : writes[n].row = storer[p].writes[n].row
        /\ \A n \in DOMAIN writes :
             writes[n] \in [row : Claims, refs : SUBSET (DOMAIN episode \cup ArtifactRefs)]
    BY <2>1, <2>3, <2>4 DEF StorerOK, StorerRow, WritesTyped
  <2>6. StorerRow(s, DOMAIN episode')
    BY <1>1, <2>1, <2>2, <2>4, <2>5 DEF StorerOK, StorerRow, WritesTyped
  <2>7. HasWork(s, DOMAIN episode')
    BY <1>1, <2>1, <2>2 DEF StorerOK, HasWork
  <2>8. InOrder(s, DOMAIN evidence')
    <3>1. Min(DOMAIN writes) \in DOMAIN writes
      BY <2>1, <2>4, MinProperties DEF StorerOK, StorerRow, WritesTyped
    <3>2. /\ writes[Min(DOMAIN writes)].row = storer[p].writes[Min(DOMAIN storer[p].writes)].row
          /\ 0 \in DOMAIN writes => writes[0].row = storer[p].writes[0].row
      BY <2>4, <2>5, <3>1
    <3> QED BY <1>1, <1>2, <2>1, <2>2, <2>4, <3>2 DEF StorerOK, InOrder
  <2> QED BY <2>6, <2>7, <2>8 DEF StorerOK
<1> HIDE DEF s
<1>6. StorersOK'
  BY <1>1, <1>2, <1>5, OneStorerMoves DEF MemoryInv
<1> QED BY <1>4, <1>6 DEF MemoryInv

\* The tasks with the evidence the call returned.
LEMMA ReturnedIsTyped ==
  ASSUME MemoryInv, NEW p \in Storers, storer[p].pc = "insert"
  PROVE  /\ WithReturned(p) \in Seq(WorkTasks)
         /\ Len(WithReturned(p)) = Len(storer[p].todo)
         /\ \A n \in 1 .. Len(storer[p].todo) :
              /\ n = 2 \/ WithReturned(p)[n] = storer[p].todo[n]
              /\ WithReturned(p)[n].kind = storer[p].todo[n].kind
              /\ WithReturned(p)[n].type = storer[p].todo[n].type
              /\ WithReturned(p)[n].scope = storer[p].todo[n].scope
              /\ WithReturned(p)[n].statement = storer[p].todo[n].statement
              /\ WithReturned(p)[n].refs \subseteq DOMAIN episode \cup ArtifactRefs
              /\ WithReturned(p)[n].refs = storer[p].todo[n].refs
                   \/ /\ storer[p].todo[n].kind = "promote"
                      /\ WithReturned(p)[n].refs = evidence[storer[p].id]
                      /\ n = 2 /\ Current(p).row.id = storer[p].id
<1> DEFINE todo == storer[p].todo
           returns == /\ Current(p).row.id = storer[p].id
                      /\ Len(todo) > 1 /\ todo[2].kind = "promote"
           new == [todo[2] EXCEPT !.refs = evidence[storer[p].id]]
           all == [todo EXCEPT ![2] = new]
<1>1. /\ todo \in Seq(WorkTasks) /\ Len(todo) \in Nat
      /\ \A n \in 1 .. Len(todo) : todo[n].refs \subseteq DOMAIN episode \cup ArtifactRefs
      /\ \A n \in 1 .. Len(todo) : todo[n] \in WorkTasks
  BY CurrentWrite, StorerAtWork
<1>2. WithReturned(p) = IF returns THEN all ELSE todo
  BY DEF WithReturned
<1>3. CASE ~returns
  BY <1>1, <1>2, <1>3
<1>4. CASE returns
  <2>1. /\ Current(p).row.id = storer[p].id
        /\ evidence[storer[p].id] \subseteq DOMAIN episode \cup ArtifactRefs
    BY <1>4, CurrentWrite DEF MemoryInv, TablesOK
  <2>2. todo[2] \in WorkTasks /\ 2 \in 1 .. Len(todo) /\ todo[2].kind = "promote"
    BY <1>1, <1>4
  <2>3. DOMAIN episode \subseteq 1 .. MaxEpisodes
    BY CurrentWrite, StorerAtWork
  <2>4. /\ new \in WorkTasks /\ new.kind = todo[2].kind /\ new.type = todo[2].type
        /\ new.scope = todo[2].scope /\ new.statement = todo[2].statement
        /\ new.refs = evidence[storer[p].id]
    BY <2>1, <2>2, <2>3 DEF WorkTasks, AnyRefs
  <2> HIDE DEF new
  <2>5. /\ all \in Seq(WorkTasks) /\ Len(all) = Len(todo)
        /\ \A n \in 1 .. Len(todo) : all[n] = IF n = 2 THEN new ELSE todo[n]
    BY <1>1, <2>2, <2>4
  <2>6. WithReturned(p) = all
    BY <1>2, <1>4
  <2> HIDE DEF all, todo
  <2>7. \A n \in 1 .. Len(todo) :
              /\ n = 2 \/ all[n] = todo[n]
              /\ all[n].kind = todo[n].kind
              /\ all[n].type = todo[n].type
              /\ all[n].scope = todo[n].scope
              /\ all[n].statement = todo[n].statement
              /\ all[n].refs \subseteq DOMAIN episode \cup ArtifactRefs
              /\ all[n].refs = todo[n].refs
                   \/ /\ todo[n].kind = "promote"
                      /\ all[n].refs = evidence[storer[p].id]
                      /\ n = 2 /\ Current(p).row.id = storer[p].id
    <3> TAKE n \in 1 .. Len(todo)
    <3>1. CASE n = 2
      BY <2>1, <2>2, <2>4, <2>5, <3>1
    <3>2. CASE n # 2
      BY <1>1, <2>5, <3>2
    <3> QED BY <3>1, <3>2
  <2> QED BY <2>5, <2>6, <2>7 DEF todo
<1> QED BY <1>3, <1>4

\* A call returns its claim.
LEMMA ReturnClaimKeepsTypes ==
  ASSUME MemoryInv, NEW p \in Storers, ReturnClaim(p)
  PROVE  MemoryInv'
<1> DEFINE rest == DOMAIN storer[p].writes \ {Upcoming(p)}
           pc == IF rest = {} THEN "index" ELSE "row"
           writes == [n \in rest |-> storer[p].writes[n]]
           s == [storer[p] EXCEPT !.pc = pc, !.writes = writes, !.todo = WithReturned(p)]
<1>1. storer[p].pc = "insert" /\ UNCHANGED <<episode, claim, evidence, indexed, disturbed>>
  BY DEF ReturnClaim
<1>2. Busy(p)
  BY <1>1 DEF Busy
<1>3. CASE rest = {} /\ storer[p].id = NoRef
  <2>1. Proceed(p, Tail(storer[p].todo))
    BY <1>3 DEF ReturnClaim
  <2>2. StorersOK'
    BY <1>1, <1>2, <2>1, ProceedWithTail
  <2> QED BY <1>1, <2>2, TablesStay DEF MemoryInv
<1>4. CASE ~(rest = {} /\ storer[p].id = NoRef)
  <2>1. storer' = [storer EXCEPT ![p] = s]
    BY <1>4 DEF ReturnClaim
  <2>2. /\ StorerOK(storer[p], DOMAIN episode, DOMAIN evidence)
        /\ DOMAIN storer[p] = {"pc", "event", "todo", "plans", "writes", "id"}
        /\ storer[p].event \in DOMAIN episode
        /\ storer[p].todo # <<>> /\ storer[p].todo \in Seq(WorkTasks)
    BY <1>2, StorerAtWork
  <2>3. /\ Upcoming(p) \in DOMAIN storer[p].writes /\ DOMAIN storer[p].writes \subseteq Nat
        /\ \A n \in DOMAIN storer[p].writes : Upcoming(p) <= n
        /\ Current(p) = storer[p].writes[Upcoming(p)]
        /\ Current(p).row.id \in DOMAIN evidence
    BY <1>1, CurrentWrite
  <2>4. /\ DOMAIN s = {"pc", "event", "todo", "plans", "writes", "id"} /\ s.pc = pc
        /\ s.event = storer[p].event /\ s.todo = WithReturned(p)
        /\ s.writes = writes /\ s.id = storer[p].id
    <3> HIDE DEF pc, writes
    <3> QED BY <2>2
  <2> HIDE DEF s
  <2>5. DOMAIN writes = rest /\ \A n \in rest : writes[n] = storer[p].writes[n]
    OBVIOUS
  <2>6. /\ WithReturned(p) \in Seq(WorkTasks) /\ WithReturned(p) # <<>>
        /\ \A n \in 1 .. Len(WithReturned(p)) :
             WithReturned(p)[n].refs \subseteq DOMAIN episode \cup ArtifactRefs
    <3>1. /\ WithReturned(p) \in Seq(WorkTasks)
          /\ Len(WithReturned(p)) = Len(storer[p].todo)
          /\ \A n \in 1 .. Len(storer[p].todo) :
               WithReturned(p)[n].refs \subseteq DOMAIN episode \cup ArtifactRefs
      BY <1>1, ReturnedIsTyped
    <3>2. Len(storer[p].todo) # 0
      BY <2>2
    <3> QED BY <3>1, <3>2
  <2>7. pc \in StorerStates /\ pc # "idle" /\ pc \in {"row", "index"}
    BY DEF StorerStates
  <2> HIDE DEF writes
  <2>8. StorerRow(s, DOMAIN episode')
    BY <1>1, <2>2, <2>4, <2>5, <2>6, <2>7 DEF StorerOK, StorerRow, WritesTyped
  <2>9. HasWork(s, DOMAIN episode')
    BY <1>1, <2>2, <2>4, <2>6 DEF HasWork
  <2>10. storer[p].id \in DOMAIN evidence \cup {NoRef}
    <3>1. CASE 0 \in DOMAIN storer[p].writes
      <4>1. Upcoming(p) = 0
        BY <2>3, <3>1
      <4>2. storer[p].id = Current(p).row.id
        BY <1>1, <2>2, <2>3, <3>1, <4>1 DEF StorerOK, InOrder
      <4> QED BY <2>3, <4>2
    <3>2. CASE 0 \notin DOMAIN storer[p].writes
      BY <1>1, <2>2, <3>2 DEF StorerOK, InOrder
    <3> QED BY <3>1, <3>2
  <2>11. 0 \notin rest
    <3>1. 0 \in DOMAIN storer[p].writes => Upcoming(p) = 0
      BY <2>3
    <3> QED BY <3>1
  <2>12. InOrder(s, DOMAIN evidence')
    <3> HIDE DEF rest
    <3>1. CASE rest = {}
      <4>1. s.pc = "index" /\ s.id \in DOMAIN evidence'
        BY <1>1, <1>4, <2>4, <2>10, <3>1
      <4> QED BY <4>1 DEF InOrder
    <3>2. CASE rest # {}
      <4>1. /\ s.pc = "row" /\ DOMAIN s.writes # {} /\ 0 \notin DOMAIN s.writes
            /\ s.id \in DOMAIN evidence' \cup {NoRef}
        BY <1>1, <2>4, <2>5, <2>10, <2>11, <3>2
      <4> QED BY <4>1 DEF InOrder
    <3> QED BY <3>1, <3>2
  <2>13. StorersOK'
    <3>1. StorerOK(s, DOMAIN episode', DOMAIN evidence')
      BY <2>8, <2>9, <2>12 DEF StorerOK
    <3> QED BY <1>1, <2>1, <3>1, OneStorerMoves DEF MemoryInv
  <2> QED BY <1>1, <2>13, TablesStay DEF MemoryInv
<1> QED BY <1>3, <1>4

\* The claim is indexed.
LEMMA IndexClaimKeepsTypes ==
  ASSUME MemoryInv, NEW p \in Storers, IndexClaim(p)
  PROVE  MemoryInv'
<1>1. /\ storer[p].pc = "index" /\ indexed' = indexed \cup {storer[p].id}
      /\ Proceed(p, Tail(storer[p].todo))
      /\ UNCHANGED <<episode, claim, evidence, disturbed>>
  BY DEF IndexClaim
<1>2. Busy(p)
  BY <1>1 DEF Busy
<1>3. storer[p].id \in DOMAIN evidence
  BY <1>1 DEF MemoryInv, StorersOK, StorerOK, InOrder
<1>4. TablesOK'
  BY <1>1, <1>3 DEF MemoryInv, TablesOK
<1>5. StorersOK'
  BY <1>1, <1>2, ProceedWithTail
<1> QED BY <1>4, <1>5 DEF MemoryInv

\* A storer stops.
LEMMA StopStoringKeepsTypes ==
  ASSUME MemoryInv, NEW p \in Storers, StopStoring(p)
  PROVE  MemoryInv'
<1>1. /\ storer' = [storer EXCEPT ![p] = Idle]
      /\ disturbed < MaxDisturbances /\ disturbed' = disturbed + 1
      /\ UNCHANGED <<episode, claim, evidence, indexed>>
  BY DEF StopStoring, Disturb
<1>2. disturbed' \in 0 .. MaxDisturbances
  BY <1>1, MemoryAssumption DEF MemoryInv, TablesOK, MemoryAssumption
<1>3. TablesOK'
  BY <1>1, <1>2 DEF MemoryInv, TablesOK
<1>4. StorersOK'
  BY <1>1, IdleIsOK, OneStorerMoves DEF MemoryInv
<1> QED BY <1>3, <1>4 DEF MemoryInv

\* An episode is stored at the end, and its work is taken up.
LEMMA EpisodeIsAppended ==
  ASSUME MemoryInv, NEW p \in Storers, NEW r \in WorkRequests, NEW o, StoreEpisode(p, r, o)
  PROVE  /\ Len(episode) + 1 \in 1 .. MaxEpisodes /\ Len(episode) \in Nat
         /\ DOMAIN episode = 1 .. Len(episode)
         /\ episode' \in Seq(EpisodeRows) /\ Len(episode') = Len(episode) + 1
         /\ DOMAIN episode' = DOMAIN episode \cup {Len(episode) + 1}
         /\ \A e \in DOMAIN episode : episode'[e] = episode[e]
         /\ episode'[Len(episode) + 1] = EpisodeRow(r, Len(episode) + 1)
         /\ episode'[Len(episode) + 1].work = Work(r, Len(episode) + 1)
         /\ episode'[Len(episode) + 1].workspace = r.workspace
         /\ RefsOf(episode'[Len(episode) + 1], Len(episode) + 1) = RefsOf(r, Len(episode) + 1)
         /\ Work(r, Len(episode) + 1)
              \in ProperWork(r.workspace, RefsOf(r, Len(episode) + 1))
         /\ Work(r, Len(episode) + 1) \in Seq(WorkTasks)
         /\ Work(r, Len(episode) + 1) # <<>>
         /\ ~Busy(p)
         /\ UNCHANGED <<claim, evidence, indexed>>
<1> DEFINE e == Len(episode) + 1
<1>1. /\ episode \in Seq(EpisodeRows) /\ Len(episode) \in Nat
      /\ DOMAIN episode = 1 .. Len(episode)
  BY DEF MemoryInv, TablesOK
<1>2. e \in 1 .. MaxEpisodes
  BY <1>1, MemoryAssumption DEF StoreEpisode, MemoryAssumption
<1>3. EpisodeRow(r, e) \in EpisodeRows /\ episode' = Append(episode, EpisodeRow(r, e))
  BY <1>2, EpisodeRowIsTyped DEF StoreEpisode
<1>4. /\ EpisodeRow(r, e).work = Work(r, e) /\ EpisodeRow(r, e).workspace = r.workspace
      /\ RefsOf(EpisodeRow(r, e), e) = RefsOf(r, e)
  BY DEF EpisodeRow, RefsOf
<1>5. Work(r, e) \in ProperWork(r.workspace, RefsOf(r, e)) /\ Work(r, e) # <<>>
  BY <1>2, WorkIsProper
<1>6. Work(r, e) \in Seq(WorkTasks)
  BY <1>5 DEF ProperWork
<1>7. ~Busy(p) /\ UNCHANGED <<claim, evidence, indexed>>
  BY DEF StoreEpisode
<1> DEFINE row == EpisodeRow(r, e)
<1> HIDE DEF row
<1>8. /\ Append(episode, row) \in Seq(EpisodeRows)
      /\ Len(Append(episode, row)) = e
      /\ Append(episode, row)[e] = row
      /\ \A n \in 1 .. Len(episode) : Append(episode, row)[n] = episode[n]
  BY <1>1, <1>3 DEF row
<1>9. episode' = Append(episode, row)
  BY <1>3 DEF row
<1>10. /\ episode' \in Seq(EpisodeRows) /\ Len(episode') = e
       /\ episode'[e] = EpisodeRow(r, e)
       /\ \A n \in 1 .. Len(episode) : episode'[n] = episode[n]
  BY <1>8, <1>9 DEF row
<1>11. DOMAIN episode' = 1 .. e
  BY <1>10
<1>12. DOMAIN episode' = DOMAIN episode \cup {e}
  BY <1>1, <1>11
<1>13. /\ episode'[e].work = Work(r, e) /\ episode'[e].workspace = r.workspace
       /\ RefsOf(episode'[e], e) = RefsOf(r, e)
  BY <1>4, <1>10
<1> QED BY <1>1, <1>2, <1>5, <1>6, <1>7, <1>10, <1>12, <1>13

\* An episode is stored.
LEMMA StoreEpisodeKeepsTypes ==
  ASSUME MemoryInv, NEW p \in Storers, NEW r \in WorkRequests, NEW o \in BOOLEAN,
         StoreEpisode(p, r, o)
  PROVE  MemoryInv'
<1> DEFINE e == Len(episode) + 1
           s == [Idle EXCEPT !.pc = "next", !.event = e, !.todo = Work(r, e)]
<1>1. /\ episode' \in Seq(EpisodeRows) /\ Len(episode') = e /\ e <= MaxEpisodes
      /\ e \in DOMAIN episode' /\ e \in 1 .. MaxEpisodes
      /\ DOMAIN episode \subseteq DOMAIN episode'
      /\ Work(r, e) \in ProperWork(r.workspace, RefsOf(r, e))
      /\ Work(r, e) \in Seq(WorkTasks) /\ Work(r, e) # <<>>
      /\ UNCHANGED <<claim, evidence, indexed>>
  BY EpisodeIsAppended
<1>2. storer' = [storer EXCEPT ![p] = s]
  BY DEF StoreEpisode
<1>3. disturbed' \in 0 .. MaxDisturbances
  <2>1. disturbed' = disturbed \/ (disturbed < MaxDisturbances /\ disturbed' = disturbed + 1)
    BY DEF StoreEpisode, Enter, Disturb
  <2> QED BY <2>1, MemoryAssumption DEF MemoryInv, TablesOK, MemoryAssumption
<1> HIDE DEF e
<1>4. TablesOK'
  <2>1. \A c \in DOMAIN evidence' : evidence'[c] \subseteq DOMAIN episode' \cup ArtifactRefs
    BY <1>1 DEF MemoryInv, TablesOK
  <2> QED BY <1>1, <1>3, <2>1 DEF MemoryInv, TablesOK
<1>5. \A n \in 1 .. Len(Work(r, e)) : Work(r, e)[n].refs \subseteq DOMAIN episode' \cup ArtifactRefs
  <2>1. RefsOf(r, e) \subseteq DOMAIN episode' \cup ArtifactRefs
    BY <1>1 DEF RefsOf, WorkRequests
  <2>2. \A n \in 1 .. Len(Work(r, e)) : Work(r, e)[n].refs \subseteq RefsOf(r, e)
    BY <1>1 DEF ProperWork, ProperTask
  <2> QED BY <2>1, <2>2
<1>6. StorerOK(s, DOMAIN episode', DOMAIN evidence')
  <2>1. "next" \in StorerStates
    BY DEF StorerStates
  <2>2. /\ DOMAIN s = {"pc", "event", "todo", "plans", "writes", "id"} /\ s.pc = "next"
        /\ s.event = e /\ s.todo = Work(r, e) /\ DOMAIN s.writes = {}
    BY DEF Idle
  <2> HIDE DEF s
  <2> QED BY <1>1, <1>5, <2>1, <2>2 DEF StorerOK, StorerRow, WritesTyped, HasWork, InOrder
<1> HIDE DEF s
<1>7. StorersOK'
  BY <1>1, <1>2, <1>6, OneStorerMoves DEF MemoryInv
<1> QED BY <1>4, <1>7 DEF MemoryInv

\* What a step may do to the memory.
MemoryMoves ==
  \E p \in Storers :
    \/ Store(p) \/ StopStoring(p)
    \/ \E r \in WorkRequests, o \in BOOLEAN : StoreEpisode(p, r, o)

MemoryStays ==
  /\ UNCHANGED <<episode, claim, evidence, indexed, storer>>
  /\ Disturb \/ UNCHANGED disturbed

\* A step of the connector is one of these.
LEMMA NextMovesMemory == [Next]_vars => MemoryMoves \/ MemoryStays
<1> SUFFICES ASSUME [Next]_vars PROVE MemoryMoves \/ MemoryStays
  OBVIOUS
<1>1. CASE \E w \in Workspaces : StartTask(w)
  BY <1>1 DEF StartTask, Enter, MemoryStays
<1>2. CASE \/ ListClaims \/ FindContexts \/ (\E c \in context : CountOutcomes(c)) \/ AnswerTask
           \/ StoreContext \/ ContextNotStored
  BY <1>2 DEF ListClaims, FindContexts, CountOutcomes, AnswerTask, StoreContext,
              ContextNotStored, memoryVars, MemoryStays
<1>3. ASSUME NEW p \in Storers, NEW ev \in Events, ReportEvent(p, ev) PROVE MemoryMoves
  <2>1. StoreEpisode(p, Traced(ev), AnyReporting \/ host.pc # "idle")
    BY <1>3 DEF ReportEvent
  <2>2. Traced(ev) \in WorkRequests
    BY TracedIsTyped
  <2>3. (AnyReporting \/ host.pc # "idle") \in BOOLEAN
    OBVIOUS
  <2> QED BY <2>1, <2>2, <2>3 DEF MemoryMoves
<1>4. ASSUME NEW p \in Storers, Store(p) PROVE MemoryMoves
  BY <1>4 DEF MemoryMoves
<1>5. ASSUME NEW p \in Storers, StopReporting(p) PROVE MemoryMoves
  BY <1>5 DEF MemoryMoves, StopReporting
<1>6. ASSUME NEW p \in Storers, LinkContext(p) \/ StoreOutcome(p) \/ OutcomeNotStored(p)
      PROVE MemoryStays
  BY <1>6 DEF LinkContext, StoreOutcome, OutcomeNotStored, memoryVars, MemoryStays
<1>7. CASE UNCHANGED vars
  BY <1>7 DEF vars, memoryVars, MemoryStays
<1> QED BY <1>1, <1>2, <1>3, <1>4, <1>5, <1>6, <1>7 DEF Next

\* So is a step of the memory alone.
LEMMA MemoryNextMoves == [MemoryNext]_memoryVars => MemoryMoves \/ MemoryStays
<1> SUFFICES ASSUME [MemoryNext]_memoryVars PROVE MemoryMoves \/ MemoryStays
  OBVIOUS
<1>1. ASSUME NEW p \in Storers, Store(p) \/ StopStoring(p) PROVE MemoryMoves
  BY <1>1 DEF MemoryMoves
<1>2. ASSUME NEW p \in Storers, NEW r \in Requests,
             StoreEpisode(p, r, \E q \in Storers : Busy(q))
      PROVE MemoryMoves
  <2>1. r \in WorkRequests
    BY MemoryAssumption DEF MemoryAssumption
  <2>2. (\E q \in Storers : Busy(q)) \in BOOLEAN
    OBVIOUS
  <2> QED BY <1>2, <2>1, <2>2 DEF MemoryMoves
<1>3. CASE UNCHANGED memoryVars
  BY <1>3 DEF memoryVars, MemoryStays
<1> QED BY <1>1, <1>2, <1>3 DEF MemoryNext

\* The types hold at first and after every step.
LEMMA MemoryInvInit == MemoryInit => MemoryInv
<1> SUFFICES ASSUME MemoryInit PROVE MemoryInv
  OBVIOUS
<1>1. TablesOK
  <2>1. <<>> \in Seq(EpisodeRows) /\ <<>> \in Seq(Claims) /\ Len(<<>>) = 0
    OBVIOUS
  <2>2. DOMAIN claim = {} /\ DOMAIN evidence = {}
    BY DEF MemoryInit
  <2>3. 0 \in 0 .. MaxDisturbances /\ 0 <= MaxEpisodes
    BY MemoryAssumption DEF MemoryAssumption
  <2> QED BY <2>1, <2>2, <2>3 DEF MemoryInit, TablesOK
<1>2. StorersOK
  BY IdleIsOK DEF MemoryInit, StorersOK
<1> QED BY <1>1, <1>2 DEF MemoryInv

\* Every step keeps the types of the memory.
LEMMA MemoryInvStep == MemoryInv /\ (MemoryMoves \/ MemoryStays) => MemoryInv'
<1> SUFFICES ASSUME MemoryInv, MemoryMoves \/ MemoryStays PROVE MemoryInv'
  OBVIOUS
<1>1. CASE MemoryStays
  <2>1. disturbed' \in 0 .. MaxDisturbances
    BY <1>1, MemoryAssumption DEF MemoryStays, Disturb, MemoryInv, TablesOK, MemoryAssumption
  <2>2. TablesOK'
    BY <1>1, <2>1 DEF MemoryStays, MemoryInv, TablesOK
  <2>3. StorersOK'
    BY <1>1 DEF MemoryStays, MemoryInv, StorersOK
  <2> QED BY <2>2, <2>3 DEF MemoryInv
<1>2. ASSUME NEW p \in Storers, Store(p) PROVE MemoryInv'
  <2>1. CASE PlanSignal(p)
    BY <2>1, PlanSignalKeepsTypes
  <2>2. CASE PlanResolve(p)
    BY <2>2, PlanResolveKeepsTypes
  <2>3. CASE Promote(p)
    BY <2>3, PromoteKeepsTypes
  <2>4. CASE WriteRow(p)
    BY <2>4, WriteRowKeepsTypes
  <2>5. CASE ClearEvidence(p)
    BY <2>5, ClearEvidenceKeepsTypes
  <2>6. CASE \E ref \in DOMAIN episode \cup ArtifactRefs : InsertEvidence(p, ref)
    BY <2>6, InsertEvidenceKeepsTypes
  <2>7. CASE ReturnClaim(p)
    BY <2>7, ReturnClaimKeepsTypes
  <2>8. CASE IndexClaim(p)
    BY <2>8, IndexClaimKeepsTypes
  <2>9. CASE CountWorkspaces(p)
    BY <2>9, CountWorkspacesKeepsTypes
  <2> QED BY <1>2, <2>1, <2>2, <2>3, <2>4, <2>5, <2>6, <2>7, <2>8, <2>9 DEF Store
<1>3. ASSUME NEW p \in Storers, StopStoring(p) PROVE MemoryInv'
  BY <1>3, StopStoringKeepsTypes
<1>4. ASSUME NEW p \in Storers, NEW r \in WorkRequests, NEW o \in BOOLEAN,
             StoreEpisode(p, r, o)
      PROVE MemoryInv'
  BY <1>4, StoreEpisodeKeepsTypes
<1> QED BY <1>1, <1>2, <1>3, <1>4 DEF MemoryMoves

-----------------------------------------------------------------------------
(* The types of the connector, and what is learned                         *)

HostOK ==
  /\ DOMAIN host = {"pc", "starts", "workspace", "listings", "claims", "contexts",
                    "guidance", "learned", "given"}
  /\ host.pc \in {"idle", "listing", "counting", "answered"} /\ host.starts \in 0 .. MaxStarts
  /\ host.pc # "idle" => host.workspace \in Workspaces

CallFields == {"pc", "kind", "context", "direction", "linked", "episode", "response"}

\* A call that is linked is so to a context that was stored.
CallsOK ==
  /\ DOMAIN call = Storers
  /\ \A p \in Storers :
       /\ call[p].pc \in {"none", "storing", "linked"}
       /\ call[p].pc # "none" => DOMAIN call[p] = CallFields /\ call[p].response \in Responses
       /\ call[p].pc = "linked" /\ call[p].linked =>
            call[p].context # NoRef /\ call[p].context \in context

\* An outcome that is learned from is kept under its context and direction.
OutcomesOK ==
  \A k \in DOMAIN outcome :
    /\ outcome[k].response \in Responses
    /\ outcome[k].learn =>
         /\ outcome[k].context \in context
         /\ k = <<outcome[k].context, outcome[k].direction, outcome[k].response, k[4]>>

ContextsOK == \A c \in context : c.workspace \in Workspaces

ConnectorInv == MemoryInv /\ HostOK /\ CallsOK /\ ContextsOK /\ OutcomesOK

\* The invariant implies both properties.
LEMMA ConnectorInvImplies == ConnectorInv => ConnectorTypeOK /\ LearnedOnce
<1> SUFFICES ASSUME ConnectorInv PROVE ConnectorTypeOK /\ LearnedOnce
  OBVIOUS
<1>1. ConnectorTypeOK
  BY MemoryInvTypes
     DEF ConnectorInv, HostOK, CallsOK, ContextsOK, OutcomesOK, ConnectorTypeOK
<1>2. LearnedOnce
  <2> SUFFICES ASSUME NEW k \in DOMAIN outcome, outcome[k].learn
               PROVE  /\ outcome[k].context \in context
                      /\ \A l \in DOMAIN outcome \ {k} : outcome[l].learn =>
                           <<outcome[l].context, outcome[l].direction, outcome[l].response,
                             l[4]>>
                           # <<outcome[k].context, outcome[k].direction, outcome[k].response,
                               k[4]>>
    BY DEF LearnedOnce
  <2>1. outcome[k].context \in context
    BY DEF ConnectorInv, OutcomesOK
  <2>2. ASSUME NEW l \in DOMAIN outcome \ {k}, outcome[l].learn,
               <<outcome[l].context, outcome[l].direction, outcome[l].response, l[4]>>
                 = <<outcome[k].context, outcome[k].direction, outcome[k].response, k[4]>>
        PROVE FALSE
    <3>1. /\ l = <<outcome[l].context, outcome[l].direction, outcome[l].response, l[4]>>
          /\ k = <<outcome[k].context, outcome[k].direction, outcome[k].response, k[4]>>
      BY <2>2 DEF ConnectorInv, OutcomesOK
    <3>2. l = k
      BY <2>2, <3>1, Zenon
    <3> QED BY <2>2, <3>2
  <2> QED BY <2>1, <2>2
<1> QED BY <1>1, <1>2

\* The connector starts with its types, and with nothing learned.
LEMMA ConnectorInvInit == Init => ConnectorInv
<1> SUFFICES ASSUME Init PROVE ConnectorInv
  OBVIOUS
<1>1. MemoryInv
  BY MemoryInvInit DEF Init
<1>2. HostOK
  BY ConnectorAssumption DEF Init, HostOK, ConnectorAssumption
<1>3. CallsOK
  BY DEF Init, CallsOK, NoCall
<1>4. ContextsOK
  BY DEF Init, ContextsOK
<1>5. OutcomesOK
  <2>1. DOMAIN outcome = {}
    BY DEF Init
  <2> QED BY <2>1 DEF OutcomesOK
<1> QED BY <1>1, <1>2, <1>3, <1>4, <1>5 DEF ConnectorInv

\* The calls of the storers when one of them changes and contexts are kept.
LEMMA OneCallChanges ==
  ASSUME CallsOK, NEW p \in Storers, NEW c, call' = [call EXCEPT ![p] = c],
         context \subseteq context',
         c.pc \in {"none", "storing", "linked"},
         c.pc # "none" => DOMAIN c = CallFields /\ c.response \in Responses,
         c.pc = "linked" /\ c.linked => c.context # NoRef /\ c.context \in context
  PROVE  CallsOK'
<1>1. DOMAIN call' = Storers
  BY DEF CallsOK
<1>2. ASSUME NEW q \in Storers
      PROVE  /\ call'[q].pc \in {"none", "storing", "linked"}
             /\ call'[q].pc # "none" => DOMAIN call'[q] = CallFields
                                          /\ call'[q].response \in Responses
             /\ call'[q].pc = "linked" /\ call'[q].linked =>
                  call'[q].context # NoRef /\ call'[q].context \in context'
  <2>1. CASE q = p
    <3>1. call'[q] = c
      BY <2>1 DEF CallsOK
    <3> QED BY <3>1
  <2>2. CASE q # p
    <3>1. call'[q] = call[q]
      BY <2>2 DEF CallsOK
    <3> QED BY <3>1 DEF CallsOK
  <2> QED BY <2>1, <2>2
<1> QED BY <1>1, <1>2 DEF CallsOK

\* The calls stay and contexts are kept.
LEMMA CallsStay ==
  ASSUME CallsOK, UNCHANGED call, context \subseteq context'
  PROVE  CallsOK'
BY DEF CallsOK

\* The outcomes stay and contexts are kept.
LEMMA OutcomesStay ==
  ASSUME OutcomesOK, UNCHANGED outcome, context \subseteq context'
  PROVE  OutcomesOK'
<1>1. ASSUME NEW k \in DOMAIN outcome'
      PROVE  /\ outcome'[k].response \in Responses
             /\ outcome'[k].learn =>
                  /\ outcome'[k].context \in context'
                  /\ k = <<outcome'[k].context, outcome'[k].direction, outcome'[k].response,
                           k[4]>>
  BY DEF OutcomesOK
<1> QED BY <1>1 DEF OutcomesOK

\* Nothing of the connector is touched.
LEMMA ConnectorStays ==
  ASSUME HostOK, CallsOK, ContextsOK, OutcomesOK, UNCHANGED connectorVars
  PROVE  HostOK' /\ CallsOK' /\ ContextsOK' /\ OutcomesOK'
<1> USE DEF connectorVars
<1>1. HostOK' /\ ContextsOK'
  BY DEF HostOK, ContextsOK
<1> QED BY <1>1, CallsStay, OutcomesStay

\* A step of the host.
HostActs ==
  \/ \E w \in Workspaces : StartTask(w)
  \/ ListClaims \/ FindContexts \/ (\E c \in context : CountOutcomes(c)) \/ AnswerTask
  \/ StoreContext \/ ContextNotStored

\* The host goes on.
LEMMA HostActionsKeepTypes ==
  ASSUME HostOK, CallsOK, ContextsOK, OutcomesOK, HostActs
  PROVE  HostOK' /\ CallsOK' /\ ContextsOK' /\ OutcomesOK'
<1>1. ASSUME NEW w \in Workspaces, StartTask(w)
      PROVE HostOK' /\ CallsOK' /\ ContextsOK' /\ OutcomesOK'
  <2>1. /\ host.pc = "idle" /\ host.starts < MaxStarts
        /\ UNCHANGED <<call, context, outcome>>
    BY <1>1 DEF StartTask
  <2>2. HostOK'
    <3>1. PICK listings :
             host' = [host EXCEPT !.pc = "listing", !.starts = @ + 1, !.workspace = w,
                                  !.listings = listings]
      BY <1>1 DEF StartTask
    <3>2. /\ DOMAIN host' = DOMAIN host /\ host'.pc = "listing"
          /\ host'.workspace = w /\ host'.starts = host.starts + 1
      BY <3>1 DEF HostOK
    <3>3. host'.starts \in 0 .. MaxStarts
      BY <2>1, <3>2, ConnectorAssumption DEF HostOK, ConnectorAssumption
    <3> QED BY <3>2, <3>3 DEF HostOK
  <2>3. ContextsOK'
    BY <2>1 DEF ContextsOK
  <2> QED BY <2>1, <2>2, <2>3, CallsStay, OutcomesStay
<1>2. ASSUME ListClaims \/ FindContexts \/ (\E c \in context : CountOutcomes(c)) \/ AnswerTask
      PROVE HostOK' /\ CallsOK' /\ ContextsOK' /\ OutcomesOK'
  <2>1. host.pc # "idle" /\ UNCHANGED <<call, context, outcome>>
    BY <1>2 DEF ListClaims, FindContexts, CountOutcomes, AnswerTask
  <2>2. /\ DOMAIN host' = DOMAIN host
        /\ host'.pc \in {"listing", "counting", "answered"}
        /\ host'.workspace = host.workspace /\ host'.starts = host.starts
    <3>1. CASE ListClaims
      BY <3>1 DEF ListClaims, HostOK
    <3>2. CASE FindContexts
      BY <3>2 DEF FindContexts, HostOK
    <3>3. ASSUME NEW c \in context, CountOutcomes(c)
          PROVE /\ DOMAIN host' = DOMAIN host
                /\ host'.pc \in {"listing", "counting", "answered"}
                /\ host'.workspace = host.workspace /\ host'.starts = host.starts
      <4>1. \E contexts, learned :
              host' = [host EXCEPT !.contexts = contexts, !.learned = learned]
        BY <3>3 DEF CountOutcomes
      <4>2. host.pc = "counting"
        BY <3>3 DEF CountOutcomes
      <4> QED BY <4>1, <4>2 DEF HostOK
    <3>4. CASE AnswerTask
      <4>1. \E guidance :
              host' = [host EXCEPT !.pc = "answered", !.claims = {}, !.guidance = guidance]
        BY <3>4 DEF AnswerTask
      <4> QED BY <4>1 DEF HostOK
    <3> QED BY <1>2, <3>1, <3>2, <3>3, <3>4
  <2>3. HostOK' /\ ContextsOK'
    BY <2>1, <2>2 DEF HostOK, ContextsOK
  <2> QED BY <2>1, <2>3, CallsStay, OutcomesStay
<1>3. ASSUME NEW given, FinishStart(given) PROVE HostOK'
  <2>1. /\ DOMAIN host' = DOMAIN host /\ host'.pc = "idle"
        /\ host'.starts = host.starts
    BY <1>3 DEF FinishStart, HostOK
  <2> QED BY <2>1 DEF HostOK
<1>4. ASSUME StoreContext
      PROVE HostOK' /\ CallsOK' /\ ContextsOK' /\ OutcomesOK'
  <2>1. PICK riskFirst \in BOOLEAN :
          LET directions == Directions(host.guidance, riskFirst)
              surfaced == Surfaced(directions)
          IN IF directions = <<>> THEN FinishStart(NoRef) /\ UNCHANGED context
             ELSE FinishStart(surfaced) /\ context' = context \cup {surfaced}
    BY <1>4 DEF StoreContext
  <2> DEFINE surfaced == Surfaced(Directions(host.guidance, riskFirst))
  <2>2. HostOK'
    BY <1>3, <2>1
  <2>3. surfaced.workspace \in Workspaces
    BY <1>4 DEF Surfaced, StoreContext, HostOK
  <2> HIDE DEF surfaced
  <2>4. context' = context \/ context' = context \cup {surfaced}
    BY <2>1 DEF surfaced
  <2>5. ContextsOK' /\ context \subseteq context'
    BY <2>3, <2>4 DEF ContextsOK
  <2>6. UNCHANGED <<call, outcome>>
    BY <1>4 DEF StoreContext
  <2> QED BY <2>2, <2>5, <2>6, CallsStay, OutcomesStay
<1>5. ASSUME ContextNotStored
      PROVE HostOK' /\ CallsOK' /\ ContextsOK' /\ OutcomesOK'
  <2>1. FinishStart(NoRef) /\ UNCHANGED <<call, context, outcome>>
    BY <1>5 DEF ContextNotStored
  <2>2. HostOK' /\ ContextsOK'
    BY <1>3, <2>1 DEF ContextsOK
  <2> QED BY <2>1, <2>2, CallsStay, OutcomesStay
<1> QED BY <1>1, <1>2, <1>4, <1>5 DEF HostActs

\* A report goes on.
LEMMA ReportActionsKeepTypes ==
  ASSUME HostOK, CallsOK, ContextsOK, OutcomesOK, NEW p \in Storers,
         \/ \E ev \in Events : ReportEvent(p, ev)
         \/ LinkContext(p) \/ StoreOutcome(p) \/ OutcomeNotStored(p) \/ StopReporting(p)
  PROVE  HostOK' /\ CallsOK' /\ ContextsOK' /\ OutcomesOK'
<1>1. UNCHANGED <<host, context>>
  BY DEF ReportEvent, LinkContext, StoreOutcome, OutcomeNotStored, StopReporting
<1>2. HostOK' /\ ContextsOK' /\ context \subseteq context'
  BY <1>1 DEF HostOK, ContextsOK
<1>3. ASSUME NEW ev \in Events, ReportEvent(p, ev) PROVE CallsOK' /\ OutcomesOK'
  <2> DEFINE c == [pc |-> "storing", kind |-> ev.kind, context |-> ContextOf(ev),
                   direction |-> ev.direction, linked |-> FALSE, episode |-> Len(episode'),
                   response |-> ResponseOf(ev)]
  <2>1. call' = [call EXCEPT ![p] = c] /\ UNCHANGED outcome
    BY <1>3 DEF ReportEvent
  <2>2. ResponseOf(ev) \in Responses
    BY DEF ResponseOf, Responses
  <2>3. /\ c.pc = "storing" /\ DOMAIN c = CallFields
        /\ c.response \in Responses
    BY <2>2 DEF CallFields
  <2> HIDE DEF c
  <2> QED BY <1>2, <2>1, <2>3, OneCallChanges, OutcomesStay
<1>4. ASSUME call' = [call EXCEPT ![p] = NoCall] PROVE CallsOK'
  <2>1. NoCall.pc = "none"
    BY DEF NoCall
  <2> HIDE DEF NoCall
  <2> QED BY <1>2, <1>4, <2>1, OneCallChanges
<1>5. ASSUME LinkContext(p) PROVE CallsOK' /\ OutcomesOK'
  <2>0. PICK answered \in BOOLEAN :
          call' = [call EXCEPT ![p] =
            IF call[p].direction = NoRef THEN NoCall
            ELSE [@ EXCEPT !.pc = "linked",
                           !.linked = /\ answered
                                      /\ call[p].context # NoRef
                                      /\ call[p].context \in context]]
    BY <1>5 DEF LinkContext
  <2> DEFINE linked == answered /\ call[p].context # NoRef /\ call[p].context \in context
             c == [call[p] EXCEPT !.pc = "linked", !.linked = linked]
  <2>1. UNCHANGED outcome /\ call[p].pc = "storing"
    BY <1>5 DEF LinkContext
  <2>2. CASE call[p].direction = NoRef
    <3>1. call' = [call EXCEPT ![p] = NoCall]
      BY <2>0, <2>2
    <3> QED BY <1>2, <1>4, <2>1, <3>1, OutcomesStay
  <2>3. CASE call[p].direction # NoRef
    <3>1. call' = [call EXCEPT ![p] = c]
      BY <2>0, <2>3
    <3>2. DOMAIN call[p] = CallFields /\ call[p].response \in Responses
      BY <2>1 DEF CallsOK
    <3>3. /\ c.pc = "linked" /\ DOMAIN c = CallFields /\ c.response = call[p].response
          /\ c.linked = linked /\ c.context = call[p].context
      BY <3>2 DEF CallFields
    <3> HIDE DEF c
    <3> QED BY <1>2, <2>1, <3>1, <3>2, <3>3, OneCallChanges, OutcomesStay
  <2> QED BY <2>2, <2>3
<1>6. ASSUME StoreOutcome(p) PROVE CallsOK' /\ OutcomesOK'
  <2> DEFINE key == OutcomeKey(call[p])
             row == OutcomeRow(call[p])
  <2>1. /\ call[p].pc = "linked" /\ outcome' = Inserted(outcome, key, row)
        /\ call' = [call EXCEPT ![p] = NoCall]
    BY <1>6 DEF StoreOutcome
  <2>2. /\ DOMAIN outcome' = DOMAIN outcome \cup {key}
        /\ \A k \in DOMAIN outcome' :
             outcome'[k] = IF k \in DOMAIN outcome THEN outcome[k] ELSE row
    BY <2>1 DEF Inserted
  <2>3. row.response \in Responses
    BY <2>1 DEF CallsOK, OutcomeRow
  <2>4. ASSUME row.learn
        PROVE row.context \in context /\ key = <<row.context, row.direction, row.response, key[4]>>
    <3>1. call[p].linked /\ call[p].context # NoRef /\ call[p].context \in context
      BY <2>1, <2>4 DEF CallsOK, OutcomeRow
    <3>2. key = <<call[p].context, call[p].direction, call[p].response, call[p].kind>>
      BY <3>1 DEF OutcomeKey
    <3>3. /\ row.context = call[p].context /\ row.direction = call[p].direction
          /\ row.response = call[p].response
      BY <3>1 DEF OutcomeRow
    <3>4. key[4] = call[p].kind
      BY <3>2
    <3> QED BY <3>1, <3>2, <3>3, <3>4
  <2> HIDE DEF key, row
  <2>5. OutcomesOK'
    <3>1. ASSUME NEW k \in DOMAIN outcome'
          PROVE  /\ outcome'[k].response \in Responses
                 /\ outcome'[k].learn =>
                      /\ outcome'[k].context \in context'
                      /\ k = <<outcome'[k].context, outcome'[k].direction,
                               outcome'[k].response, k[4]>>
      <4>1. CASE k \in DOMAIN outcome
        <5>1. outcome'[k] = outcome[k]
          BY <2>2, <4>1
        <5> QED BY <1>2, <4>1, <5>1 DEF OutcomesOK
      <4>2. CASE k \notin DOMAIN outcome
        <5>1. k = key /\ outcome'[k] = row
          BY <2>2, <4>2
        <5> QED BY <1>2, <2>3, <2>4, <5>1
      <4> QED BY <4>1, <4>2
    <3> QED BY <3>1 DEF OutcomesOK
  <2> QED BY <1>4, <2>1, <2>5
<1>7. ASSUME OutcomeNotStored(p) \/ StopReporting(p) PROVE CallsOK' /\ OutcomesOK'
  <2>1. call' = [call EXCEPT ![p] = NoCall] /\ UNCHANGED outcome
    BY <1>7 DEF OutcomeNotStored, StopReporting
  <2> QED BY <1>2, <1>4, <2>1, OutcomesStay
<1> QED BY <1>2, <1>3, <1>5, <1>6, <1>7

\* Every step of the connector keeps its types, and learns once.
LEMMA ConnectorInvStep == ConnectorInv /\ [Next]_vars => ConnectorInv'
<1> SUFFICES ASSUME ConnectorInv, [Next]_vars PROVE ConnectorInv'
  OBVIOUS
<1>1. MemoryInv'
  BY NextMovesMemory, MemoryInvStep DEF ConnectorInv
<1>2. HostOK /\ CallsOK /\ ContextsOK /\ OutcomesOK
  BY DEF ConnectorInv
<1>3. CASE HostActs
  BY <1>1, <1>2, <1>3, HostActionsKeepTypes DEF ConnectorInv
<1>4. ASSUME NEW p \in Storers,
             \/ \E ev \in Events : ReportEvent(p, ev)
             \/ LinkContext(p) \/ StoreOutcome(p) \/ OutcomeNotStored(p) \/ StopReporting(p)
      PROVE ConnectorInv'
  BY <1>1, <1>2, <1>4, ReportActionsKeepTypes DEF ConnectorInv
<1>5. CASE UNCHANGED connectorVars
  BY <1>1, <1>2, <1>5, ConnectorStays DEF ConnectorInv
<1>6. CASE UNCHANGED vars
  BY <1>5, <1>6 DEF vars
<1> QED BY <1>3, <1>4, <1>5, <1>6 DEF Next, HostActs

\* The connector keeps the types of its tables and of the memory.
THEOREM ConnectorTypesStay == Spec => []ConnectorTypeOK
<1>1. Spec => []ConnectorInv
  BY ConnectorInvInit, ConnectorInvStep, PTL DEF Spec
<1> QED BY <1>1, ConnectorInvImplies, PTL

\* So does the memory with other hosts than the connector.
THEOREM MemoryTypesStay == MemorySpec => []MemoryTypeOK
<1>1. MemoryInv /\ [MemoryNext]_memoryVars => MemoryInv'
  BY MemoryNextMoves, MemoryInvStep
<1>2. MemorySpec => []MemoryInv
  BY <1>1, MemoryInvInit, PTL DEF MemorySpec
<1> QED BY <1>2, MemoryInvTypes, PTL

\* What was surfaced is learned from once.
THEOREM LearnsOnce == Spec => []LearnedOnce
<1>1. Spec => []ConnectorInv
  BY ConnectorInvInit, ConnectorInvStep, PTL DEF Spec
<1> QED BY <1>1, ConnectorInvImplies, PTL

-----------------------------------------------------------------------------
(* Guidance                                                                *)

\* The image of a finite set is finite.
LEMMA ImageIsFinite ==
  ASSUME NEW S, IsFiniteSet(S), NEW f, f = [x \in S |-> f[x]]
  PROVE  IsFiniteSet({f[x] : x \in S}) /\ Cardinality({f[x] : x \in S}) <= Cardinality(S)
<1> DEFINE T == {f[x] : x \in S}
<1>1. f \in [S -> T] /\ \A t \in T : \E s \in S : f[s] = t
  OBVIOUS
<1>2. f \in Surjection(S, T)
  BY <1>1 DEF Surjection
<1> HIDE DEF T
<1>3. IsFiniteSet(T) /\ Cardinality(T) <= Cardinality(S)
  BY <1>2, FS_Surjection
<1> QED BY <1>3 DEF T

\* A finite set in any order is a sequence of its elements.
LEMMA OrderedIsASeq ==
  ASSUME NEW S, IsFiniteSet(S), NEW f \in SetToSeqs(S)
  PROVE  f \in Seq(S)
<1>1. Cardinality(S) \in Nat
  BY FS_CardinalityType
<1>2. f \in [1 .. Cardinality(S) -> S]
  BY DEF SetToSeqs
<1> QED BY <1>1, <1>2

\* What a listing of claims finds is finite.
LEMMA ClaimsInAreFinite ==
  ASSUME TablesOK, NEW listing
  PROVE  IsFiniteSet(ClaimsIn(listing))
<1> DEFINE D == {m \in DOMAIN claim :
                  claim[m].scope = listing.scope /\ claim[m].status = listing.status}
           f == [n \in D |-> claim[n] @@ [refs |-> evidence[claim[n].id]]]
<1>1. D \subseteq 1 .. Len(claim) /\ Len(claim) \in Nat
  BY DEF TablesOK
<1>2. IsFiniteSet(1 .. Len(claim))
  BY <1>1, FS_Interval
<1>3. IsFiniteSet(D)
  BY <1>1, <1>2, FS_Subset
<1>4. f = [n \in D |-> f[n]]
  OBVIOUS
<1>5. ClaimsIn(listing) = {f[n] : n \in D}
  BY DEF ClaimsIn
<1> HIDE DEF f, D
<1> QED BY <1>3, <1>4, <1>5, ImageIsFinite

\* Conflict is symmetric, and no statement conflicts with itself.
LEMMA ConflictIsSymmetric ==
  ASSUME NEW a, NEW b, Conflict(a, b)
  PROVE  Conflict(b, a)
<1>1. {a, b} = {b, a} /\ {Polarity[a], Polarity[b]} = {Polarity[b], Polarity[a]}
  OBVIOUS
<1> QED BY <1>1 DEF Conflict, Overlap

\* A statement does not contradict itself.
LEMMA NoSelfConflict ==
  ASSUME NEW a
  PROVE  ~Conflict(a, a)
BY DEF Conflict

\* Claims none of which contradicts another, or a statement that is withheld.
Apart(R, withheld) ==
  {s \in Seq(R) :
     /\ \A n \in 1 .. Len(s) : \A w \in withheld : ~Conflict(w, s[n].statement)
     /\ \A m, n \in 1 .. Len(s) : m < n => ~Conflict(s[m].statement, s[n].statement)}

\* A claim considered keeps them so.
LEMMA ConsiderKeepsApart ==
  ASSUME NEW R, NEW withheld, NEW s \in Apart(R, withheld), NEW c \in R
  PROVE  Consider(s, c, withheld) \in Apart(R, withheld)
<1>1. /\ s \in Seq(R) /\ Len(s) \in Nat /\ DOMAIN s = 1 .. Len(s)
      /\ \A n \in 1 .. Len(s) : \A w \in withheld : ~Conflict(w, s[n].statement)
      /\ \A m, n \in 1 .. Len(s) : m < n => ~Conflict(s[m].statement, s[n].statement)
  BY DEF Apart
<1>2. CASE Consider(s, c, withheld) = s
  BY <1>2
<1>3. CASE Consider(s, c, withheld) # s
  <2> DEFINE a == Append(s, c)
  <2>1. Consider(s, c, withheld) = a /\ ~Suppressed(s, c, withheld)
    BY <1>3 DEF Consider
  <2>2. /\ \A w \in withheld : ~Conflict(w, c.statement)
        /\ \A n \in 1 .. Len(s) : ~Conflict(s[n].statement, c.statement)
    BY <1>1, <2>1 DEF Suppressed, Redundant
  <2>3. /\ a \in Seq(R) /\ Len(a) = Len(s) + 1
        /\ \A n \in 1 .. Len(s) : a[n] = s[n]
        /\ a[Len(s) + 1] = c
    BY <1>1
  <2> HIDE DEF a
  <2>4. \A n \in 1 .. Len(a) : n \in 1 .. Len(s) \/ n = Len(s) + 1
    BY <1>1, <2>3
  <2>5. \A n \in 1 .. Len(a) : \A w \in withheld : ~Conflict(w, a[n].statement)
    BY <1>1, <2>2, <2>3, <2>4
  <2>6. \A m, n \in 1 .. Len(a) : m < n => ~Conflict(a[m].statement, a[n].statement)
    <3> TAKE m, n \in 1 .. Len(a)
    <3> HAVE m < n
    <3>1. m \in 1 .. Len(s) /\ a[m] = s[m]
      BY <1>1, <2>3
    <3>2. CASE n \in 1 .. Len(s)
      BY <1>1, <2>3, <3>1, <3>2
    <3>3. CASE n = Len(s) + 1
      BY <2>2, <2>3, <3>1, <3>3
    <3> QED BY <2>4, <3>2, <3>3
  <2>7. a \in Apart(R, withheld)
    BY <2>3, <2>5, <2>6 DEF Apart
  <2> QED BY <2>1, <2>7
<1> QED BY <1>2, <1>3

\* The claims selected do not contradict one another.
LEMMA SelectedAreApart ==
  ASSUME NEW R, NEW ranked \in Seq(R), NEW type, NEW withheld
  PROVE  Select(type, ranked, withheld) \in Apart(R, withheld)
<1> DEFINE A == Apart(R, withheld)
           L == Len(ranked)
           round(s, n) == IF ranked[n].type # type THEN s ELSE Consider(s, ranked[n], withheld)
           Picks(f) == f = [n \in 0 .. L |-> IF n = 0 THEN <<>>
                                            ELSE IF ranked[n].type # type THEN f[n - 1]
                                            ELSE Consider(f[n - 1], ranked[n], withheld)]
           F == CHOOSE f : Picks(f)
           step == [n \in 1 .. L |-> [s \in A |-> round(s, n)]]
<1>1. L \in Nat /\ \A n \in 1 .. L : ranked[n] \in R
  OBVIOUS
<1>2. <<>> \in A
  BY DEF Apart
<1>3. \A n \in 1 .. L : \A s \in A : round(s, n) \in A
  BY <1>1, ConsiderKeepsApart
<1>4. StepsWithin(A, L, step)
  <2> HIDE DEF A, L, round
  <2> QED BY <1>3 DEF StepsWithin
<1>5. PICK f : Follows(f, A, L, <<>>, step)
  <2> HIDE DEF A, L, step
  <2> QED BY <1>1, <1>2, <1>4, StepByStep, Zenon
<1>6. /\ f \in [0 .. L -> A] /\ f[0] = <<>>
      /\ \A n \in 1 .. L : f[n] = step[n][f[n - 1]]
  <2> HIDE DEF step, A, L
  <2> QED BY <1>5 DEF Follows
<1>7. \A n \in 1 .. L : f[n] = round(f[n - 1], n)
  <2> TAKE n \in 1 .. L
  <2>1. f[n - 1] \in A
    <3> HIDE DEF A, step
    <3> QED BY <1>1, <1>6
  <2>2. step[n][f[n - 1]] = round(f[n - 1], n)
    <3> HIDE DEF A, round
    <3> QED BY <2>1
  <2>3. f[n] = step[n][f[n - 1]]
    <3> HIDE DEF A, step, round
    <3> QED BY <1>6
  <2> QED BY <2>2, <2>3
<1>8. Picks(f)
  <2> DEFINE g == [n \in 0 .. L |-> IF n = 0 THEN <<>>
                                   ELSE IF ranked[n].type # type THEN f[n - 1]
                                   ELSE Consider(f[n - 1], ranked[n], withheld)]
  <2>1. \A n \in 0 .. L : f[n] = g[n]
    <3> TAKE n \in 0 .. L
    <3>1. CASE n = 0
      BY <1>6, <3>1
    <3>2. CASE n # 0
      <4>1. n \in 1 .. L
        BY <1>1, <3>2
      <4>2. f[n] = round(f[n - 1], n)
        BY <1>7, <4>1
      <4> QED BY <3>2, <4>2
    <3> QED BY <3>1, <3>2
  <2>2. f = [n \in 0 .. L |-> f[n]] /\ g = [n \in 0 .. L |-> g[n]]
    <3> HIDE DEF A, step
    <3>1. f = [n \in 0 .. L |-> f[n]]
      BY <1>6
    <3> QED BY <3>1
  <2>3. f = g
    <3> HIDE DEF g
    <3> QED BY <2>1, <2>2
  <2> QED BY <2>3
<1>9. Picks(F)
  <2> HIDE DEF Picks
  <2> QED BY <1>8
<1>10. Select(type, ranked, withheld) = F[L]
  BY DEF Select
<1> HIDE DEF F, step
<1>11. /\ F[0] = <<>>
       /\ \A n \in 1 .. L : F[n] = round(F[n - 1], n)
  BY <1>1, <1>9
<1> DEFINE T == {n \in 0 .. L : F[n] \in A}
<1>12. 0 \in T
  BY <1>1, <1>2, <1>11
<1>13. \A n \in 0 .. L : n # L /\ n \in T => n + 1 \in T
  <2> TAKE n \in 0 .. L
  <2> HAVE n # L /\ n \in T
  <2>1. n + 1 \in 1 .. L /\ (n + 1) - 1 = n /\ F[n] \in A
    BY <1>1
  <2> HIDE DEF A, round
  <2>2. F[n + 1] = round(F[n], n + 1)
    BY <1>11, <2>1
  <2>3. F[n + 1] \in A
    BY <1>3, <2>1, <2>2
  <2> QED BY <1>1, <2>1, <2>3
<1>14. L \in T
  <2> HIDE DEF T, L
  <2>1. \A n \in 0 .. L : n \in T
    BY <1>1, <1>12, <1>13, CountingUp, Zenon
  <2> QED BY <1>1, <2>1
<1> QED BY <1>10, <1>14

\* No two items of a list contradict each other.
Agree(list) ==
  \A m, n \in DOMAIN list : ~Conflict(list[m].statement, list[n].statement)

\* Decisions selected first, and preferences apart from them.
LEMMA ApartListsAgree ==
  ASSUME NEW R, NEW d \in Apart(R, {}), NEW p \in Apart(R, StatementsOf(d))
  PROVE  Agree(d \o p)
<1> DEFINE s == d \o p
<1>1. /\ d \in Seq(R) /\ Len(d) \in Nat /\ DOMAIN d = 1 .. Len(d)
      /\ \A m, n \in 1 .. Len(d) : m < n => ~Conflict(d[m].statement, d[n].statement)
  BY DEF Apart
<1>2. /\ p \in Seq(R) /\ Len(p) \in Nat
      /\ \A n \in 1 .. Len(p) : \A w \in StatementsOf(d) : ~Conflict(w, p[n].statement)
      /\ \A m, n \in 1 .. Len(p) : m < n => ~Conflict(p[m].statement, p[n].statement)
  BY DEF Apart
<1>3. \A m \in 1 .. Len(d) : d[m].statement \in StatementsOf(d)
  BY <1>1 DEF StatementsOf
<1>4. /\ Len(s) = Len(d) + Len(p) /\ DOMAIN s = 1 .. Len(s)
      /\ \A n \in 1 .. Len(s) :
           s[n] = IF n <= Len(d) THEN d[n] ELSE p[n - Len(d)]
  BY <1>1, <1>2, ConcatProperties
<1> HIDE DEF s
<1>5. ASSUME NEW m \in 1 .. Len(s), NEW n \in 1 .. Len(s), m < n
      PROVE ~Conflict(s[m].statement, s[n].statement)
  <2>1. CASE n <= Len(d)
    <3>1. m \in 1 .. Len(d) /\ n \in 1 .. Len(d) /\ s[m] = d[m] /\ s[n] = d[n]
      BY <1>1, <1>2, <1>4, <1>5, <2>1
    <3> QED BY <1>1, <1>5, <3>1
  <2>2. CASE m <= Len(d) /\ ~(n <= Len(d))
    <3>1. m \in 1 .. Len(d) /\ n - Len(d) \in 1 .. Len(p)
      BY <1>1, <1>2, <1>4, <1>5, <2>2
    <3>2. s[m] = d[m] /\ s[n] = p[n - Len(d)]
      BY <1>4, <2>2
    <3> QED BY <1>2, <1>3, <3>1, <3>2
  <2>3. CASE ~(m <= Len(d))
    <3>1. /\ m - Len(d) \in 1 .. Len(p) /\ n - Len(d) \in 1 .. Len(p)
          /\ m - Len(d) < n - Len(d) /\ ~(n <= Len(d))
      BY <1>1, <1>2, <1>4, <1>5, <2>3
    <3>2. s[m] = p[m - Len(d)] /\ s[n] = p[n - Len(d)]
      BY <1>4, <2>3, <3>1
    <3> QED BY <1>2, <3>1, <3>2
  <2> QED BY <2>1, <2>2, <2>3
<1>6. ASSUME NEW m \in 1 .. Len(s), NEW n \in 1 .. Len(s)
      PROVE ~Conflict(s[m].statement, s[n].statement)
  <2>1. m \in Nat /\ n \in Nat
    BY <1>1, <1>2, <1>4
  <2>2. m < n \/ n < m \/ m = n
    BY <2>1
  <2> QED BY <1>5, <2>2, ConflictIsSymmetric, NoSelfConflict
<1>7. Agree(s)
  BY <1>4, <1>6 DEF Agree
<1> QED BY <1>7 DEF s

\* Whatever the claims and their order, the answer agrees.
LEMMA GuideAgrees ==
  ASSUME NEW R, NEW ranked \in Seq(R)
  PROVE  Agree(Guide(ranked).decision \o Guide(ranked).preference)
<1> DEFINE d == Select("decision", ranked, {})
           p == Select("preference", ranked, StatementsOf(d))
<1>1. Guide(ranked).decision = d /\ Guide(ranked).preference = p
  BY DEF Guide
<1>2. d \in Apart(R, {})
  BY SelectedAreApart
<1>3. p \in Apart(R, StatementsOf(d))
  BY SelectedAreApart
<1> HIDE DEF d, p
<1>4. Agree(d \o p)
  BY <1>2, <1>3, ApartListsAgree
<1> QED BY <1>1, <1>4

\* No guidance contradicts itself.
LEMMA NoGuidanceAgrees == Agree(NoGuidance.decision \o NoGuidance.preference)
<1>1. NoGuidance.decision = <<>> /\ NoGuidance.preference = <<>>
  BY DEF NoGuidance, Types
<1>2. <<>> \o <<>> = <<>> /\ DOMAIN <<>> = {}
  OBVIOUS
<1> QED BY <1>1, <1>2 DEF Agree

\* What the host has read is finite, and what it says agrees.
GuidanceOK ==
  /\ DOMAIN host = {"pc", "starts", "workspace", "listings", "claims", "contexts",
                    "guidance", "learned", "given"}
  /\ IsFiniteSet(host.claims)
  /\ Agree(host.guidance.decision \o host.guidance.preference)

\* At first there is no guidance.
LEMMA GuidanceInit == Init => GuidanceOK
<1> SUFFICES ASSUME Init PROVE GuidanceOK
  OBVIOUS
<1>1. /\ DOMAIN host = {"pc", "starts", "workspace", "listings", "claims", "contexts",
                        "guidance", "learned", "given"}
      /\ host.claims = {} /\ host.guidance = NoGuidance
  BY DEF Init
<1> QED BY <1>1, NoGuidanceAgrees, FS_EmptySet DEF GuidanceOK

\* A step of the host, or of a storer, keeps the answer consistent.
LEMMA GuidanceStep == ConnectorInv /\ GuidanceOK /\ [Next]_vars => GuidanceOK'
<1> SUFFICES ASSUME ConnectorInv, GuidanceOK, [Next]_vars PROVE GuidanceOK'
  OBVIOUS
<1>1. TablesOK
  BY DEF ConnectorInv, MemoryInv
<1>2. CASE UNCHANGED host
  BY <1>2 DEF GuidanceOK
<1>3. ASSUME \/ \E w \in Workspaces : StartTask(w)
             \/ FindContexts \/ (\E c \in context : CountOutcomes(c))
      PROVE GuidanceOK'
  <2>1. /\ DOMAIN host' = DOMAIN host
        /\ host'.claims = host.claims /\ host'.guidance = host.guidance
    <3>1. ASSUME NEW w \in Workspaces, StartTask(w)
          PROVE  /\ DOMAIN host' = DOMAIN host
                 /\ host'.claims = host.claims /\ host'.guidance = host.guidance
      <4>1. \E starts, listings :
              host' = [host EXCEPT !.pc = "listing", !.starts = starts, !.workspace = w,
                                   !.listings = listings]
        BY <3>1 DEF StartTask
      <4> QED BY <4>1 DEF GuidanceOK
    <3>2. CASE FindContexts
      BY <3>2 DEF FindContexts, GuidanceOK
    <3>3. ASSUME NEW c \in context, CountOutcomes(c)
          PROVE  /\ DOMAIN host' = DOMAIN host
                 /\ host'.claims = host.claims /\ host'.guidance = host.guidance
      <4>1. \E contexts, learned :
              host' = [host EXCEPT !.contexts = contexts, !.learned = learned]
        BY <3>3 DEF CountOutcomes
      <4> QED BY <4>1 DEF GuidanceOK
    <3> QED BY <1>3, <3>1, <3>2, <3>3
  <2> QED BY <2>1 DEF GuidanceOK
<1>4. ASSUME ListClaims PROVE GuidanceOK'
  <2> DEFINE found == ClaimsIn(Head(host.listings))
  <2>1. IsFiniteSet(host.claims) /\ IsFiniteSet(found)
    BY <1>1, ClaimsInAreFinite DEF GuidanceOK
  <2> HIDE DEF found
  <2>2. IsFiniteSet(host.claims \cup found)
    BY <2>1, FS_Union
  <2>3. /\ DOMAIN host' = DOMAIN host
        /\ host'.claims = host.claims \cup found /\ host'.guidance = host.guidance
    BY <1>4 DEF ListClaims, found, GuidanceOK
  <2> QED BY <2>2, <2>3 DEF GuidanceOK
<1>5. ASSUME AnswerTask PROVE GuidanceOK'
  <2> DEFINE A == {c \in host.claims : c.status = "accepted"}
             C == {c \in host.claims : c.status = "candidate"}
  <2>1. PICK accepted \in SetToSeqs(A), candidates \in SetToSeqs(C) :
          host' = [host EXCEPT !.pc = "answered", !.claims = {},
                               !.guidance = Guide(accepted \o candidates)]
    BY <1>5 DEF AnswerTask
  <2>2. accepted \in Seq(A) /\ candidates \in Seq(C)
    <3>1. IsFiniteSet(A) /\ IsFiniteSet(C)
      BY FS_Subset DEF GuidanceOK
    <3> HIDE DEF A, C
    <3> QED BY <3>1, OrderedIsASeq
  <2> HIDE DEF A, C
  <2>3. accepted \o candidates \in Seq(A \cup C)
    BY <2>2, ConcatProperties
  <2> DEFINE g == Guide(accepted \o candidates)
  <2>4. Agree(g.decision \o g.preference)
    BY <2>3, GuideAgrees
  <2> HIDE DEF g
  <2>5. DOMAIN host' = DOMAIN host /\ host'.claims = {} /\ host'.guidance = g
    BY <2>1 DEF g, GuidanceOK
  <2> QED BY <2>4, <2>5, FS_EmptySet DEF GuidanceOK
<1>6. ASSUME NEW given, FinishStart(given) PROVE GuidanceOK'
  <2>1. /\ DOMAIN host' = DOMAIN host
        /\ host'.claims = host.claims /\ host'.guidance = NoGuidance
    BY <1>6 DEF FinishStart, GuidanceOK
  <2> QED BY <2>1, NoGuidanceAgrees DEF GuidanceOK
<1>7. CASE StoreContext
  <2>1. FinishStart(NoRef) \/ \E surfaced : FinishStart(surfaced)
    BY <1>7 DEF StoreContext
  <2> QED BY <1>6, <2>1
<1>8. CASE ContextNotStored
  BY <1>6, <1>8 DEF ContextNotStored
<1>9. ASSUME NEW p \in Storers,
             \/ \E ev \in Events : ReportEvent(p, ev)
             \/ Store(p) /\ UNCHANGED connectorVars
             \/ LinkContext(p) \/ StoreOutcome(p) \/ OutcomeNotStored(p) \/ StopReporting(p)
      PROVE UNCHANGED host
  BY <1>9 DEF ReportEvent, LinkContext, StoreOutcome, OutcomeNotStored, StopReporting,
              connectorVars
<1>10. CASE UNCHANGED vars
  BY <1>2, <1>10 DEF vars, connectorVars
<1> QED BY <1>2, <1>3, <1>4, <1>5, <1>7, <1>8, <1>9, <1>10 DEF Next

\* No answer to a task start contradicts itself, however the claims are ranked.
THEOREM GuidanceStaysConsistent == Spec => []GuidanceIsConsistent
<1>1. GuidanceOK => GuidanceIsConsistent
  BY DEF GuidanceOK, Agree, GuidanceIsConsistent
<1>2. Spec => []ConnectorInv
  BY ConnectorInvInit, ConnectorInvStep, PTL DEF Spec
<1>3. Spec => []GuidanceOK
  BY <1>2, GuidanceInit, GuidanceStep, PTL DEF Spec
<1> QED BY <1>1, <1>3, PTL

-----------------------------------------------------------------------------
(* What is said of claims is true                                          *)

\* An id names a claim by the task it was first stated by, and so gives its
\* type, scope and statement.
NamedAt(id) == Len(episode[id[1]].work) + 1 - id[2]
Names(id, c) ==
  /\ id[1] \in DOMAIN episode
  /\ NamedAt(id) \in DOMAIN episode[id[1]].work
  /\ Counts(episode[id[1]].work[NamedAt(id)], c)

\* A task that a storer has not begun.
Waits(s, pos) ==
  /\ s.pc # "idle" /\ pos[1] = s.event
  /\ pos[2] + Len(s.todo) > Len(episode[s.event].work) + (IF s.pc = "next" THEN 0 ELSE 1)

\* The signals of a claim that have been begun, or given up.
Made(c) == {s \in SignalsOf(c) : \A p \in Storers : ~Waits(storer[p], s)}

\* A row, in the table or about to be written, where the statements taken are
\* said to be seen in two workspaces.
RowOK(c, taken) ==
  /\ Names(c.id, c)
  /\ c.signals <= Cardinality(Made(c))
  /\ c.scope = Global /\ c.status = "accepted" =>
       c.statement \in taken \/ Cardinality(SeenIn(c.statement)) >= 2

EventRefs == {EventRef(e) : e \in DOMAIN episode}

RowsOK ==
  \A n \in DOMAIN claim :
    /\ RowOK(claim[n], {})
    /\ evidence[claim[n].id] \subseteq EvidenceFor(claim[n])
    /\ claim[n].status = "superseded" => claim[n].by \in DOMAIN evidence \cup EventRefs

\* A task as it was stored, or a promotion on its way.
AsStored(t, w) ==
  /\ t.type = w.type /\ t.scope = w.scope /\ t.statement = w.statement
  /\ t.kind = w.kind \/ (t.kind = "signal" /\ w.kind = "promote")
  /\ w.kind = "signal" => t.refs = w.refs

\* What a storer has left is the end of the work of its episode.
TodoOK(s) ==
  s.pc # "idle" =>
    /\ Len(s.todo) <= Len(episode[s.event].work)
    /\ \A n \in 1 .. Len(s.todo) :
         /\ AsStored(s.todo[n],
                     episode[s.event].work[Len(episode[s.event].work) - Len(s.todo) + n])
         /\ s.todo[n].kind # "resolve" => s.todo[n].refs \subseteq EvidenceFor(s.todo[n])

\* The writes of a task.
PlanOK(writes, id, t, taken) ==
  /\ id # NoRef => Names(id, t)
  /\ \A n \in DOMAIN writes :
       /\ RowOK(writes[n].row, taken)
       /\ writes[n].refs \subseteq EvidenceFor(writes[n].row)
       /\ writes[n].row.status = "superseded" =>
            n # 0 /\ writes[n].row.by \in ({id} \ {NoRef}) \cup EventRefs

\* What a plan takes the answer of the second reading to be.
Taken(t, shared) == {x \in {t.statement} : shared}

WritesOK(s) ==
  /\ s.pc \in {"row", "clear", "insert"} => PlanOK(s.writes, s.id, Head(s.todo), {})
  /\ s.pc = "count" =>
       \A shared \in BOOLEAN :
         PlanOK(s.plans[shared], s.id, Head(s.todo), Taken(Head(s.todo), shared))

\* No episode is stored by two.
EventsDiffer ==
  \A p, q \in Storers : Busy(p) /\ Busy(q) /\ storer[p].event = storer[q].event => p = q

WorkOK ==
  \A e \in DOMAIN episode :
    episode[e].work \in ProperWork(episode[e].workspace, RefsOf(episode[e], e))

StoringOK == \A p \in Storers : TodoOK(storer[p]) /\ WritesOK(storer[p])

ProvenInv == WorkOK /\ RowsOK /\ StoringOK /\ EventsDiffer

\* Positions, one by one.
LEMMA PositionsOneByOne ==
  \A s : s \in Positions <=> /\ s = <<s[1], s[2]>> /\ s[1] \in DOMAIN episode
                             /\ s[2] \in DOMAIN episode[s[1]].work
<1> TAKE s
<1>1. s \in Positions <=> \E e \in DOMAIN episode : s \in {e} \X DOMAIN episode[e].work
  BY DEF Positions
<1>2. ASSUME NEW e \in DOMAIN episode, s \in {e} \X DOMAIN episode[e].work
      PROVE  /\ s = <<s[1], s[2]>> /\ s[1] \in DOMAIN episode
             /\ s[2] \in DOMAIN episode[s[1]].work
  BY <1>2
<1>3. ASSUME s = <<s[1], s[2]>>, s[1] \in DOMAIN episode, s[2] \in DOMAIN episode[s[1]].work
      PROVE  \E e \in DOMAIN episode : s \in {e} \X DOMAIN episode[e].work
  <2>1. s \in {s[1]} \X DOMAIN episode[s[1]].work
    BY <1>3
  <2> QED BY <1>3, <2>1
<1> QED BY <1>1, <1>2, <1>3

\* There are finitely many.
LEMMA PositionsAreFinite ==
  ASSUME TablesOK
  PROVE  IsFiniteSet(Positions)
<1> DEFINE f == [e \in DOMAIN episode |-> {e} \X DOMAIN episode[e].work]
           parts == {f[e] : e \in DOMAIN episode}
<1>1. IsFiniteSet(DOMAIN episode)
  <2>1. DOMAIN episode = 1 .. Len(episode) /\ Len(episode) \in Nat
    BY DEF TablesOK
  <2> QED BY <2>1, FS_Interval
<1>2. IsFiniteSet(parts)
  <2>1. f = [e \in DOMAIN episode |-> f[e]]
    OBVIOUS
  <2> HIDE DEF f
  <2> QED BY <1>1, <2>1, ImageIsFinite
<1>3. \A e \in DOMAIN episode : IsFiniteSet(f[e])
  <2> TAKE e \in DOMAIN episode
  <2>1. episode[e].work \in Seq(WorkTasks)
    <3>1. episode[e] \in EpisodeRows
      BY DEF TablesOK
    <3> QED BY <3>1 DEF EpisodeRows
  <2> DEFINE D == DOMAIN episode[e].work
             L == Len(episode[e].work)
  <2>2. D = 1 .. L /\ L \in Nat
    BY <2>1
  <2> HIDE DEF D, L
  <2>3. IsFiniteSet(1 .. L)
    BY <2>2, FS_Interval
  <2>4. IsFiniteSet({e})
    BY FS_Singleton
  <2>5. IsFiniteSet({e} \X D)
    BY <2>2, <2>3, <2>4, FS_Product
  <2> QED BY <2>5 DEF D
<1>4. Positions = UNION parts
  BY DEF Positions
<1> HIDE DEF f
<1>5. \A T \in parts : IsFiniteSet(T)
  BY <1>3
<1> HIDE DEF parts
<1> QED BY <1>2, <1>4, <1>5, FS_UNION

\* The workspaces a preference was seen in.
LEMMA SeenIsFinite ==
  ASSUME TablesOK, NEW s
  PROVE  IsFiniteSet(SeenIn(s))
<1> DEFINE D == {d \in DOMAIN episode : \E n \in DOMAIN episode[d].work :
                   LET t == episode[d].work[n]
                   IN t.kind = "signal" /\ t.type = "preference" /\ t.statement = s}
           f == [e \in D |-> episode[e].workspace]
<1>1. DOMAIN episode = 1 .. Len(episode) /\ Len(episode) \in Nat
  BY DEF TablesOK
<1>2. IsFiniteSet(DOMAIN episode) /\ D \in SUBSET DOMAIN episode
  BY <1>1, FS_Interval
<1>3. IsFiniteSet(D)
  BY <1>2, FS_Subset
<1>4. f = [e \in D |-> f[e]] /\ SeenIn(s) = {f[e] : e \in D}
  BY DEF SeenIn
<1> HIDE DEF f, D
<1> QED BY <1>3, <1>4, ImageIsFinite

\* What is counted is finite, in every state.
Countable ==
  /\ \A c : IsFiniteSet(SignalsOf(c)) /\ IsFiniteSet(Made(c))
  /\ \A s : IsFiniteSet(SeenIn(s))

\* It is, by the types of the tables.
LEMMA TablesAreCountable == TablesOK => Countable
<1> SUFFICES ASSUME TablesOK PROVE Countable
  OBVIOUS
<1>1. \A c : SignalsOf(c) \in SUBSET Positions /\ Made(c) \in SUBSET Positions
  BY DEF SignalsOf, Made
<1>2. \A c : IsFiniteSet(SignalsOf(c)) /\ IsFiniteSet(Made(c))
  BY <1>1, PositionsAreFinite, FS_Subset
<1>3. \A s : IsFiniteSet(SeenIn(s))
  BY SeenIsFinite
<1> QED BY <1>2, <1>3 DEF Countable

\* And so it is after a step.
LEMMA CountableStays == TablesOK' => Countable'
BY TablesAreCountable, PTL

\* Episodes are only added.
EpisodesGrow ==
  /\ DOMAIN episode \subseteq DOMAIN episode'
  /\ \A e \in DOMAIN episode : episode'[e] = episode[e]

\* Of the tasks that were there, none is put back.
WaitingShrinks ==
  \A s \in Positions : \A p \in Storers : Waits(storer[p], s)' => Waits(storer[p], s)

\* The tasks that were there are there.
LEMMA PositionsGrow ==
  ASSUME EpisodesGrow
  PROVE  /\ Positions \subseteq Positions'
         /\ \A s \in Positions : episode'[s[1]] = episode[s[1]]
<1>1. \A s \in Positions : s = <<s[1], s[2]>> /\ s[1] \in DOMAIN episode
                             /\ s[2] \in DOMAIN episode[s[1]].work
  BY PositionsOneByOne
<1>2. \A s \in Positions : episode'[s[1]] = episode[s[1]] /\ s[1] \in DOMAIN episode'
  BY <1>1 DEF EpisodesGrow
<1>3. \A s \in Positions : s \in {s[1]} \X DOMAIN episode'[s[1]].work
  BY <1>1, <1>2
<1>4. Positions' = UNION {{e} \X DOMAIN episode'[e].work : e \in DOMAIN episode'}
  BY DEF Positions
<1> QED BY <1>2, <1>3, <1>4

\* What was said stays said.
LEMMA SayingsGrow ==
  ASSUME EpisodesGrow
  PROVE  /\ \A c : EvidenceFor(c) \subseteq EvidenceFor(c)'
         /\ \A s : SeenIn(s) \subseteq SeenIn(s)'
         /\ \A id, c : Names(id, c) => Names(id, c)'
         /\ \A c : SignalsOf(c) \subseteq SignalsOf(c)'
         /\ EventRefs \subseteq EventRefs'
<1> USE DEF EpisodesGrow
<1>1. \A c : EvidenceFor(c) \subseteq EvidenceFor(c)'
  <2> TAKE c
  <2>1. StatedIn(c) \subseteq StatedIn(c)' /\ StatedIn(c) \subseteq DOMAIN episode
    BY DEF StatedIn
  <2>2. \A e \in StatedIn(c) : RefsOf(episode[e], e) = RefsOf(episode'[e], e)
    BY <2>1
  <2> QED BY <2>1, <2>2 DEF EvidenceFor
<1>2. \A s : SeenIn(s) \subseteq SeenIn(s)'
  BY DEF SeenIn
<1>3. \A id, c : Names(id, c) => Names(id, c)'
  BY DEF Names, NamedAt, Counts
<1>4. \A c : SignalsOf(c) \subseteq SignalsOf(c)'
  BY PositionsGrow DEF SignalsOf, Counts
<1>5. EventRefs \subseteq EventRefs'
  BY DEF EventRefs
<1> QED BY <1>1, <1>2, <1>3, <1>4, <1>5

\* What says the same has the same evidence, and in the global scope the evidence
\* of every workspace.
LEMMA EvidenceAlike ==
  ASSUME NEW c, NEW d, c.type = d.type, c.statement = d.statement
  PROVE  /\ c.scope = d.scope => EvidenceFor(c) = EvidenceFor(d)
         /\ d.scope = Global => EvidenceFor(c) \subseteq EvidenceFor(d)
<1>1. c.scope = d.scope => StatedIn(c) = StatedIn(d)
  BY DEF StatedIn
<1>2. d.scope = Global => StatedIn(c) \subseteq StatedIn(d)
  BY DEF StatedIn
<1> QED BY <1>1, <1>2 DEF EvidenceFor

\* The signals made are made.
LEMMA MadeGrows ==
  ASSUME EpisodesGrow, WaitingShrinks, NEW c
  PROVE  Made(c) \subseteq Made(c)'
<1>1. SignalsOf(c) \subseteq SignalsOf(c)' /\ SignalsOf(c) \subseteq Positions
  BY SayingsGrow DEF SignalsOf
<1>2. \A s \in Positions : \A p \in Storers : Waits(storer[p], s)' => Waits(storer[p], s)
  BY DEF WaitingShrinks
<1>3. ASSUME NEW s \in Made(c) PROVE s \in Made(c)'
  <2>1. s \in SignalsOf(c)' /\ s \in Positions /\ \A p \in Storers : ~Waits(storer[p], s)
    BY <1>1 DEF Made
  <2>2. \A p \in Storers : ~Waits(storer[p], s)'
    BY <1>2, <2>1
  <2> QED BY <2>1, <2>2 DEF Made
<1> QED BY <1>3

\* A row stays true.
LEMMA RowStays ==
  ASSUME TablesOK, TablesOK', EpisodesGrow, WaitingShrinks, NEW c \in Claims,
         NEW taken, RowOK(c, taken)
  PROVE  RowOK(c, taken)'
<1>1. Names(c.id, c)'
  BY SayingsGrow DEF RowOK
<1>2. c.signals <= Cardinality(Made(c))'
  <2>1. IsFiniteSet(Made(c)) /\ IsFiniteSet(Made(c)')
    BY TablesAreCountable, CountableStays DEF Countable
  <2>2. Cardinality(Made(c)) <= Cardinality(Made(c)')
    BY <2>1, MadeGrows, FS_Subset
  <2>3. Cardinality(Made(c)) \in Nat /\ Cardinality(Made(c)') \in Nat
    BY <2>1, FS_CardinalityType
  <2>4. c.signals \in Nat /\ c.signals <= Cardinality(Made(c))
    BY DEF RowOK, Claims
  <2> QED BY <2>2, <2>3, <2>4
<1>3. c.scope = Global /\ c.status = "accepted" =>
        c.statement \in taken \/ Cardinality(SeenIn(c.statement))' >= 2
  <2> SUFFICES ASSUME c.scope = Global, c.status = "accepted", c.statement \notin taken
               PROVE  Cardinality(SeenIn(c.statement))' >= 2
    OBVIOUS
  <2> DEFINE S == SeenIn(c.statement)
  <2>1. Cardinality(S) >= 2
    BY DEF RowOK
  <2>2. IsFiniteSet(S) /\ IsFiniteSet(S')
    BY TablesAreCountable, CountableStays DEF Countable
  <2>3. Cardinality(S) <= Cardinality(S')
    BY <2>2, SayingsGrow, FS_Subset
  <2>4. Cardinality(S) \in Nat /\ Cardinality(S') \in Nat
    BY <2>2, FS_CardinalityType
  <2> HIDE DEF S
  <2>5. Cardinality(S') >= 2
    BY <2>1, <2>3, <2>4
  <2> QED BY <2>5 DEF S
<1> QED BY <1>1, <1>2, <1>3 DEF RowOK

\* A storer's tasks and writes stay true.
LEMMA TodoStays ==
  ASSUME EpisodesGrow, NEW s, s.pc # "idle" => s.event \in DOMAIN episode, TodoOK(s)
  PROVE  TodoOK(s)'
<1> SUFFICES ASSUME s.pc # "idle" PROVE TodoOK(s)'
  BY DEF TodoOK
<1>1. episode'[s.event] = episode[s.event]
  BY DEF EpisodesGrow
<1>2. \A t : EvidenceFor(t) \subseteq EvidenceFor(t)'
  BY SayingsGrow
<1>3. \A n \in 1 .. Len(s.todo) :
        s.todo[n].kind # "resolve" => s.todo[n].refs \subseteq EvidenceFor(s.todo[n])'
  BY <1>2 DEF TodoOK
<1> QED BY <1>1, <1>3 DEF TodoOK

\* What a storer is about to write stays true.
LEMMA PlanStays ==
  ASSUME TablesOK, TablesOK', EpisodesGrow, WaitingShrinks, NEW writes, NEW E,
         WritesTyped(writes, E), NEW id, NEW t, NEW taken, PlanOK(writes, id, t, taken)
  PROVE  PlanOK(writes, id, t, taken)'
<1>1. id # NoRef => Names(id, t)'
  BY SayingsGrow DEF PlanOK
<1>2. ASSUME NEW n \in DOMAIN writes
      PROVE  /\ RowOK(writes[n].row, taken)'
             /\ writes[n].refs \subseteq EvidenceFor(writes[n].row)'
             /\ writes[n].row.status = "superseded" =>
                  n # 0 /\ writes[n].row.by \in ({id} \ {NoRef}) \cup EventRefs'
  <2>1. RowOK(writes[n].row, taken)'
    <3>1. writes[n].row \in Claims
      BY DEF WritesTyped
    <3> QED BY <3>1, RowStays DEF PlanOK
  <2>2. writes[n].refs \subseteq EvidenceFor(writes[n].row)'
    BY SayingsGrow DEF PlanOK
  <2>3. EventRefs \subseteq EventRefs'
    BY SayingsGrow
  <2> QED BY <2>1, <2>2, <2>3 DEF PlanOK
<1> QED BY <1>1, <1>2 DEF PlanOK

\* And what it may be about to write.
LEMMA WritesStay ==
  ASSUME TablesOK, TablesOK', EpisodesGrow, WaitingShrinks, NEW s, NEW E, StorerRow(s, E),
         WritesOK(s)
  PROVE  WritesOK(s)'
<1>1. ASSUME s.pc \in {"row", "clear", "insert"}
      PROVE  PlanOK(s.writes, s.id, Head(s.todo), {})'
  BY <1>1, PlanStays DEF WritesOK, StorerRow
<1>2. ASSUME s.pc = "count", NEW shared \in BOOLEAN
      PROVE  PlanOK(s.plans[shared], s.id, Head(s.todo), Taken(Head(s.todo), shared))'
  <2>1. PICK taken : taken = Taken(Head(s.todo), shared)
    OBVIOUS
  <2>2. WritesTyped(s.plans[shared], E) /\ PlanOK(s.plans[shared], s.id, Head(s.todo), taken)
    BY <1>2, <2>1 DEF WritesOK, StorerRow
  <2>3. PlanOK(s.plans[shared], s.id, Head(s.todo), taken)'
    BY <2>2, PlanStays
  <2> QED BY <2>1, <2>3
<1> QED BY <1>1, <1>2 DEF WritesOK

\* The table stays, and so does what it says.
LEMMA RowsStay ==
  ASSUME TablesOK, TablesOK', RowsOK, EpisodesGrow, WaitingShrinks, UNCHANGED <<claim, evidence>>
  PROVE  RowsOK'
<1>1. \A c \in Claims : RowOK(c, {}) => RowOK(c, {})'
  BY RowStays
<1>2. /\ \A c : EvidenceFor(c) \subseteq EvidenceFor(c)'
      /\ EventRefs \subseteq EventRefs'
  BY SayingsGrow
<1>3. ASSUME NEW n \in DOMAIN claim
      PROVE  /\ RowOK(claim[n], {})'
             /\ evidence[claim[n].id] \subseteq EvidenceFor(claim[n])'
             /\ claim[n].status = "superseded" => claim[n].by \in DOMAIN evidence \cup EventRefs'
  <2>1. PICK c \in Claims : c = claim[n]
    BY DEF TablesOK
  <2>2. RowOK(c, {})' /\ evidence[c.id] \subseteq EvidenceFor(c)'
    BY <1>1, <1>2, <2>1 DEF RowsOK
  <2>3. c = claim'[n]
    BY <2>1
  <2> QED BY <1>2, <2>1, <2>2, <2>3 DEF RowsOK
<1> QED BY <1>3 DEF RowsOK

\* Episodes stay and one storer goes on: no task is put back.
LEMMA GoingOnShrinks ==
  ASSUME StorersOK, NEW p \in Storers, NEW s, storer' = [storer EXCEPT ![p] = s],
         UNCHANGED episode, \A pos \in Positions : Waits(s, pos) => Waits(storer[p], pos)
  PROVE  EpisodesGrow /\ WaitingShrinks
<1>1. \A q \in Storers : storer'[q] = IF q = p THEN s ELSE storer[q]
  BY DEF StorersOK
<1>2. \A t, pos : Waits(t, pos)' <=> Waits(t, pos)
  BY DEF Waits
<1>3. ASSUME NEW pos \in Positions, NEW q \in Storers, Waits(storer[q], pos)'
      PROVE  Waits(storer[q], pos)
  <2>1. PICK t : t = storer'[q]
    OBVIOUS
  <2>2. Waits(t, pos)
    BY <1>2, <1>3, <2>1
  <2> QED BY <1>1, <2>1, <2>2
<1> QED BY <1>3 DEF EpisodesGrow, WaitingShrinks

\* Then its own tasks and writes are all there is to show.
LEMMA GoingOnIsProven ==
  ASSUME MemoryInv, MemoryInv', ProvenInv, NEW p \in Storers, NEW s,
         storer' = [storer EXCEPT ![p] = s], UNCHANGED episode,
         \A pos \in Positions : Waits(s, pos) => Waits(storer[p], pos),
         s.pc # "idle" => Busy(p) /\ s.event = storer[p].event,
         TodoOK(s)', WritesOK(s)', RowsOK'
  PROVE  ProvenInv'
<1>1. EpisodesGrow /\ WaitingShrinks
  BY GoingOnShrinks DEF MemoryInv
<1>2. TablesOK /\ TablesOK' /\ DOMAIN storer = Storers
  BY DEF MemoryInv, StorersOK
<1>3. \A q \in Storers : storer'[q] = IF q = p THEN s ELSE storer[q]
  BY <1>2
<1>4. WorkOK'
  BY DEF ProvenInv, WorkOK
<1>5. ASSUME NEW q \in Storers PROVE TodoOK(storer[q])' /\ WritesOK(storer[q])'
  <2>1. CASE q = p
    BY <1>3, <2>1
  <2>2. CASE q # p
    <3>1. PICK t : t = storer[q]
      OBVIOUS
    <3>2. /\ TodoOK(t) /\ WritesOK(t) /\ t = storer'[q]
          /\ StorerOK(t, DOMAIN episode, DOMAIN evidence)
      BY <1>3, <2>2, <3>1 DEF MemoryInv, StorersOK, ProvenInv, StoringOK
    <3>3. /\ t.pc # "idle" => t.event \in DOMAIN episode
          /\ StorerRow(t, DOMAIN episode)
      BY <3>2 DEF StorerOK, HasWork
    <3>4. TodoOK(t)' /\ WritesOK(t)'
      BY <1>1, <1>2, <3>2, <3>3, TodoStays, WritesStay
    <3> QED BY <3>2, <3>4
  <2> QED BY <2>1, <2>2
<1>6. EventsDiffer'
  <2>1. ASSUME NEW q \in Storers, Busy(q)'
        PROVE  Busy(q) /\ storer'[q].event = storer[q].event
    BY <1>3, <2>1 DEF Busy
  <2> QED BY <2>1 DEF EventsDiffer, ProvenInv
<1> QED BY <1>4, <1>5, <1>6 DEF ProvenInv, StoringOK

\* What was read of a storer's tasks.
LEMMA TasksLeft ==
  ASSUME MemoryInv, ProvenInv, NEW p \in Storers, Busy(p)
  PROVE  /\ storer[p].event \in DOMAIN episode
         /\ episode[storer[p].event].work
              \in ProperWork(episode[storer[p].event].workspace,
                             RefsOf(episode[storer[p].event], storer[p].event))
         /\ episode[storer[p].event].work \in Seq(WorkTasks)
         /\ Len(episode[storer[p].event].work) \in Nat
         /\ Len(storer[p].todo) \in Nat
         /\ 1 <= Len(storer[p].todo)
         /\ Len(storer[p].todo) <= Len(episode[storer[p].event].work)
         /\ \A n \in 1 .. Len(storer[p].todo) :
              /\ AsStored(storer[p].todo[n],
                          episode[storer[p].event].work
                            [Len(episode[storer[p].event].work) - Len(storer[p].todo) + n])
              /\ storer[p].todo[n].kind # "resolve" =>
                   storer[p].todo[n].refs \subseteq EvidenceFor(storer[p].todo[n])
<1>1. /\ storer[p].event \in DOMAIN episode /\ Len(storer[p].todo) \in Nat
      /\ storer[p].todo \in Seq(WorkTasks) /\ storer[p].todo # <<>>
  BY StorerAtWork
<1>2. 1 <= Len(storer[p].todo)
  BY <1>1
<1>3. /\ episode[storer[p].event].work
           \in ProperWork(episode[storer[p].event].workspace,
                          RefsOf(episode[storer[p].event], storer[p].event))
  BY <1>1 DEF ProvenInv, WorkOK
<1>4. /\ episode[storer[p].event].work \in Seq(WorkTasks)
      /\ Len(episode[storer[p].event].work) \in Nat
  <2>1. episode[storer[p].event].work \in Seq(WorkTasks)
    BY <1>3 DEF ProperWork
  <2> QED BY <2>1
<1>5. TodoOK(storer[p])
  BY DEF ProvenInv, StoringOK
<1> QED BY <1>1, <1>2, <1>3, <1>4, <1>5 DEF TodoOK, Busy

\* Going on with tasks as they were stored.
LEMMA ProceedIsProven ==
  ASSUME MemoryInv, MemoryInv', ProvenInv, NEW p \in Storers, Busy(p),
         NEW todo, todo \in Seq(WorkTasks), Proceed(p, todo),
         UNCHANGED <<episode, claim, evidence>>,
         \/ Len(todo) < Len(storer[p].todo)
         \/ Len(todo) = Len(storer[p].todo) /\ storer[p].pc = "next",
         \A n \in 1 .. Len(todo) :
           /\ AsStored(todo[n], episode[storer[p].event].work
                                  [Len(episode[storer[p].event].work) - Len(todo) + n])
           /\ todo[n].kind # "resolve" => todo[n].refs \subseteq EvidenceFor(todo[n])
  PROVE  ProvenInv'
<1>1. PICK s : s = IF todo = <<>> THEN Idle
                   ELSE [storer[p] EXCEPT !.pc = "next", !.todo = todo, !.writes = <<>>]
  OBVIOUS
<1>2. storer' = [storer EXCEPT ![p] = s]
  BY <1>1 DEF Proceed
<1>3. DOMAIN storer[p] = {"pc", "event", "todo", "plans", "writes", "id"}
  BY StorerAtWork
<1>4. \/ s.pc = "idle"
      \/ /\ s.pc = "next" /\ s.todo = todo /\ s.event = storer[p].event
  BY <1>1, <1>3 DEF Idle
<1>5. /\ Len(todo) \in Nat /\ Len(storer[p].todo) \in Nat
      /\ Len(episode[storer[p].event].work) \in Nat
      /\ Len(storer[p].todo) <= Len(episode[storer[p].event].work)
      /\ storer[p].event \in DOMAIN episode
  <2>1. Len(todo) \in Nat
    OBVIOUS
  <2> QED BY <2>1, TasksLeft
<1>6. ASSUME NEW pos \in Positions, Waits(s, pos) PROVE Waits(storer[p], pos)
  <2>1. /\ s.pc = "next" /\ s.todo = todo /\ s.event = storer[p].event
        /\ pos[1] = storer[p].event
        /\ pos[2] + Len(todo) > Len(episode[storer[p].event].work) + 0
    BY <1>4, <1>6 DEF Waits
  <2>2. pos[2] \in Nat
    BY <1>6, <2>1, PositionsOneByOne, TasksLeft
  <2>3. \/ Len(todo) + 1 <= Len(storer[p].todo)
        \/ Len(todo) = Len(storer[p].todo) /\ storer[p].pc = "next"
    BY <1>5
  <2> DEFINE L == Len(episode[storer[p].event].work)
             K == Len(todo)
             M == Len(storer[p].todo)
  <2>4. L \in Nat /\ K \in Nat /\ M \in Nat /\ pos[2] + K > L
    BY <1>5, <2>1
  <2>5. pos[2] + M > L + (IF storer[p].pc = "next" THEN 0 ELSE 1)
    <3>1. K + 1 <= M \/ (K = M /\ storer[p].pc = "next")
      BY <2>3
    <3> HIDE DEF L, K, M
    <3>2. CASE K + 1 <= M
      BY <2>2, <2>4, <3>2
    <3>3. CASE K = M /\ storer[p].pc = "next"
      BY <2>4, <3>3
    <3> QED BY <3>1, <3>2, <3>3
  <2> QED BY <2>1, <2>5 DEF Waits, Busy
<1>7. EpisodesGrow /\ WaitingShrinks
  BY <1>2, <1>6, GoingOnShrinks DEF MemoryInv
<1>8. TodoOK(s)
  <2>1. CASE s.pc = "idle"
    BY <2>1 DEF TodoOK
  <2>2. CASE s.todo = todo /\ s.event = storer[p].event
    <3>1. Len(s.todo) <= Len(episode[s.event].work)
      <4>1. Len(todo) <= Len(storer[p].todo)
        BY <1>5
      <4>2. Len(todo) <= Len(episode[storer[p].event].work)
        BY <1>5, <4>1
      <4> QED BY <2>2, <4>2
    <3>2. ASSUME NEW n \in 1 .. Len(s.todo)
          PROVE /\ AsStored(s.todo[n], episode[s.event].work
                                         [Len(episode[s.event].work) - Len(s.todo) + n])
                /\ s.todo[n].kind # "resolve" => s.todo[n].refs \subseteq EvidenceFor(s.todo[n])
      BY <2>2
    <3> QED BY <3>1, <3>2 DEF TodoOK
  <2> QED BY <1>4, <2>1, <2>2
<1>9. TodoOK(s)'
  BY <1>4, <1>5, <1>7, <1>8, TodoStays
<1>10. WritesOK(s)'
  BY <1>4 DEF WritesOK
<1>11. RowsOK'
  BY <1>7, RowsStay DEF MemoryInv, ProvenInv
<1>12. s.pc # "idle" => Busy(p) /\ s.event = storer[p].event
  BY <1>4
<1> QED BY <1>2, <1>6, <1>9, <1>10, <1>11, <1>12, GoingOnIsProven

\* Going on with the tasks after the first.
LEMMA TailIsProven ==
  ASSUME MemoryInv, MemoryInv', ProvenInv, NEW p \in Storers, Busy(p),
         Proceed(p, Tail(storer[p].todo)), UNCHANGED <<episode, claim, evidence>>
  PROVE  ProvenInv'
<1> DEFINE todo == storer[p].todo
           rest == Tail(todo)
           work == episode[storer[p].event].work
<1>1. /\ rest \in Seq(WorkTasks) /\ Len(rest) = Len(todo) - 1 /\ Len(todo) \in Nat
      /\ \A n \in 1 .. Len(rest) : rest[n] = todo[n + 1]
  <2>1. todo \in Seq(WorkTasks) /\ todo # <<>>
    BY StorerAtWork
  <2> QED BY <2>1, TailOfTasks
<1>2. Len(work) \in Nat
  BY TasksLeft
<1>3. ASSUME NEW n \in 1 .. Len(rest)
      PROVE  /\ AsStored(rest[n], work[Len(work) - Len(rest) + n])
             /\ rest[n].kind # "resolve" => rest[n].refs \subseteq EvidenceFor(rest[n])
  <2>1. n + 1 \in 1 .. Len(todo) /\ Len(work) - Len(rest) + n = Len(work) - Len(todo) + (n + 1)
    <3> HIDE DEF todo, rest, work
    <3> QED BY <1>1, <1>2
  <2>2. /\ AsStored(todo[n + 1], work[Len(work) - Len(todo) + (n + 1)])
        /\ todo[n + 1].kind # "resolve" => todo[n + 1].refs \subseteq EvidenceFor(todo[n + 1])
    BY <2>1, TasksLeft
  <2>3. rest[n] = todo[n + 1]
    BY <1>1
  <2> HIDE DEF todo, rest, work
  <2> QED BY <2>1, <2>2, <2>3
<1>4. Len(rest) < Len(todo)
  <2> HIDE DEF todo, rest
  <2> QED BY <1>1
<1>5. Proceed(p, rest)
  OBVIOUS
<1> HIDE DEF rest
<1> QED BY <1>1, <1>3, <1>4, <1>5, ProceedIsProven

\* An idle storer has nothing to show.
LEMMA IdleIsProven == \A pos : ~Waits(Idle, pos) /\ TodoOK(Idle)' /\ WritesOK(Idle)'
BY DEF Idle, Waits, TodoOK, WritesOK

\* The types hold after the step.
LEMMA StoreKeepsTypes ==
  ASSUME MemoryInv, NEW p \in Storers, Store(p)
  PROVE  MemoryInv'
BY MemoryInvStep DEF MemoryMoves

\* A promotion goes ahead, or is passed over.
LEMMA PromoteIsProven ==
  ASSUME MemoryInv, ProvenInv, NEW p \in Storers, Promote(p)
  PROVE  ProvenInv'
<1> DEFINE todo == storer[p].todo
           h == [Head(todo) EXCEPT !.kind = "signal"]
           work == episode[storer[p].event].work
<1>1. /\ Busy(p) /\ Head(todo).kind = "promote" /\ storer[p].pc = "next"
      /\ UNCHANGED <<episode, claim, evidence>>
  BY DEF Promote, AtTask, Busy
<1>2. MemoryInv'
  BY PromoteKeepsTypes
<1>3. CASE Proceed(p, Tail(todo))
  BY <1>1, <1>2, <1>3, TailIsProven
<1>4. CASE Proceed(p, <<h>> \o Tail(todo))
  <2> DEFINE new == <<h>> \o Tail(todo)
  <2>1. /\ Head(todo) \in WorkTasks /\ Head(todo) = todo[1]
        /\ todo \in Seq(WorkTasks) /\ todo # <<>>
    BY <1>1, StorerAtWork
  <2>2. /\ h \in WorkTasks /\ h.refs = todo[1].refs /\ h.type = todo[1].type
        /\ h.scope = todo[1].scope /\ h.statement = todo[1].statement /\ h.kind = "signal"
    BY <1>1, <2>1 DEF WorkTasks
  <2>3. /\ Tail(todo) \in Seq(WorkTasks) /\ Len(Tail(todo)) = Len(todo) - 1
        /\ Len(todo) \in Nat /\ \A n \in 1 .. Len(Tail(todo)) : Tail(todo)[n] = todo[n + 1]
    BY <2>1, TailOfTasks
  <2>4. Len(work) \in Nat
    BY <1>1, TasksLeft
  <2>5. \A n \in 1 .. Len(todo) :
              /\ AsStored(todo[n], work[Len(work) - Len(todo) + n])
              /\ todo[n].kind # "resolve" => todo[n].refs \subseteq EvidenceFor(todo[n])
    BY <1>1, TasksLeft
  <2> HIDE DEF h, todo, work
  <2>6. /\ new \in Seq(WorkTasks) /\ Len(new) = Len(todo)
        /\ new[1] = h /\ \A n \in 2 .. Len(todo) : new[n] = Tail(todo)[n - 1]
    BY <2>2, <2>3
  <2>7. \A n \in 2 .. Len(todo) : new[n] = todo[n]
    <3> TAKE n \in 2 .. Len(todo)
    <3>1. n - 1 \in 1 .. Len(Tail(todo)) /\ (n - 1) + 1 = n
      BY <2>3
    <3> HIDE DEF new
    <3> QED BY <2>3, <2>6, <3>1
  <2>8. 1 \in 1 .. Len(todo)
    BY <2>1, <2>3
  <2> HIDE DEF new
  <2>9. ASSUME NEW n \in 1 .. Len(new)
        PROVE  /\ AsStored(new[n], work[Len(work) - Len(new) + n])
               /\ new[n].kind # "resolve" => new[n].refs \subseteq EvidenceFor(new[n])
    <3>1. CASE n = 1
      <4>1. new[n] = h /\ AsStored(todo[1], work[Len(work) - Len(new) + n])
        BY <2>5, <2>6, <2>8, <3>1
      <4>2. AsStored(h, work[Len(work) - Len(new) + n])
        <5>1. todo[1].kind = "promote"
          BY <1>1, <2>1
        <5> QED BY <2>2, <4>1, <5>1 DEF AsStored
      <4>3. todo[1].refs \subseteq EvidenceFor(todo[1])
        BY <1>1, <2>1, <2>5, <2>8
      <4>4. EvidenceFor(h) = EvidenceFor(todo[1])
        BY <2>2, EvidenceAlike
      <4> QED BY <2>2, <4>1, <4>2, <4>3, <4>4
    <3>2. CASE n \in 2 .. Len(todo)
      BY <2>3, <2>5, <2>6, <2>7, <3>2
    <3>3. n = 1 \/ n \in 2 .. Len(todo)
      BY <2>3, <2>6
    <3> QED BY <3>1, <3>2, <3>3
  <2>10. Proceed(p, new)
    BY <1>4 DEF new
  <2>11. Len(new) = Len(storer[p].todo) /\ storer[p].pc = "next"
    BY <1>1, <2>6 DEF todo
  <2> QED BY <1>1, <1>2, <2>6, <2>9, <2>10, <2>11, ProceedIsProven DEF work
<1> QED BY <1>3, <1>4 DEF Promote

\* The search document changes nothing that is said.
LEMMA IndexClaimIsProven ==
  ASSUME MemoryInv, ProvenInv, NEW p \in Storers, IndexClaim(p)
  PROVE  ProvenInv'
<1>1. Busy(p) /\ Proceed(p, Tail(storer[p].todo)) /\ UNCHANGED <<episode, claim, evidence>>
  BY DEF IndexClaim, Busy
<1> QED BY <1>1, IndexClaimKeepsTypes, TailIsProven

\* Nor does a storer that stops.
LEMMA StopStoringIsProven ==
  ASSUME MemoryInv, ProvenInv, NEW p \in Storers, StopStoring(p)
  PROVE  ProvenInv'
<1>1. PICK s : s = Idle
  OBVIOUS
<1>2. /\ storer' = [storer EXCEPT ![p] = s] /\ UNCHANGED <<episode, claim, evidence>>
  BY <1>1 DEF StopStoring
<1>3. s.pc = "idle"
  BY <1>1 DEF Idle
<1>4. TodoOK(s)' /\ WritesOK(s)' /\ \A pos : ~Waits(s, pos)
  BY <1>3 DEF TodoOK, WritesOK, Waits
<1>5. MemoryInv'
  BY StopStoringKeepsTypes
<1>6. EpisodesGrow /\ WaitingShrinks
  BY <1>2, <1>4, GoingOnShrinks DEF MemoryInv
<1>7. RowsOK'
  BY <1>2, <1>5, <1>6, RowsStay DEF MemoryInv, ProvenInv
<1> QED BY <1>2, <1>3, <1>4, <1>5, <1>7, GoingOnIsProven

\* Nothing at all changes it.
LEMMA StayingIsProven ==
  ASSUME MemoryInv, ProvenInv, MemoryStays
  PROVE  ProvenInv'
<1>1. UNCHANGED <<episode, claim, evidence, storer>> /\ MemoryInv'
  BY MemoryInvStep DEF MemoryStays
<1>2. EpisodesGrow /\ WaitingShrinks
  <2>1. \A s, pos : Waits(s, pos)' <=> Waits(s, pos)
    BY <1>1 DEF Waits
  <2>2. ASSUME NEW pos, NEW q \in Storers, Waits(storer[q], pos)' PROVE Waits(storer[q], pos)
    <3>1. PICK t : t = storer'[q]
      OBVIOUS
    <3> QED BY <1>1, <2>1, <2>2, <3>1
  <2> QED BY <1>1, <2>2 DEF EpisodesGrow, WaitingShrinks
<1>3. RowsOK'
  BY <1>1, <1>2, RowsStay DEF MemoryInv, ProvenInv
<1>4. ASSUME NEW p \in Storers PROVE TodoOK(storer[p])' /\ WritesOK(storer[p])'
  <2>1. PICK s : s = storer[p]
    OBVIOUS
  <2>2. /\ TodoOK(s) /\ WritesOK(s) /\ StorerOK(s, DOMAIN episode, DOMAIN evidence)
        /\ s = storer'[p]
    BY <1>1, <2>1 DEF ProvenInv, StoringOK, MemoryInv, StorersOK
  <2>3. /\ s.pc # "idle" => s.event \in DOMAIN episode
        /\ StorerRow(s, DOMAIN episode)
    BY <2>2 DEF StorerOK, HasWork
  <2>4. TodoOK(s)' /\ WritesOK(s)'
    BY <1>1, <1>2, <2>2, <2>3, TodoStays, WritesStay DEF MemoryInv
  <2> QED BY <2>2, <2>4
<1>5. WorkOK' /\ EventsDiffer'
  BY <1>1 DEF ProvenInv, WorkOK, EventsDiffer, Busy
<1> QED BY <1>3, <1>4, <1>5 DEF ProvenInv, StoringOK

\* The evidence a task brings is that of an episode that states what it states.
WorkIsStated ==
  \A e \in DOMAIN episode : \A n \in 1 .. Len(episode[e].work) :
    episode[e].work[n].kind # "resolve" =>
      episode[e].work[n].refs \subseteq EvidenceFor(episode[e].work[n])

\* So it is in work as an episode is stored with.
LEMMA ProperWorkIsStated == WorkOK => WorkIsStated
<1> SUFFICES ASSUME WorkOK, NEW e \in DOMAIN episode, NEW n \in 1 .. Len(episode[e].work),
                    episode[e].work[n].kind # "resolve"
             PROVE  episode[e].work[n].refs \subseteq EvidenceFor(episode[e].work[n])
  BY DEF WorkIsStated
<1> DEFINE work == episode[e].work
<1>1. /\ work \in Seq(WorkTasks) /\ ProperTask(work[n], episode[e].workspace, RefsOf(episode[e], e))
      /\ work[n].kind = "promote" => n # 1 /\ Precedes(work[n - 1], work[n])
  BY DEF WorkOK, ProperWork
<1>2. DOMAIN work = 1 .. Len(work) /\ Len(work) \in Nat /\ work[n] \in WorkTasks
  BY <1>1
<1>3. work[n].refs \subseteq RefsOf(episode[e], e)
  BY <1>1 DEF ProperTask
<1>4. CASE work[n].kind = "signal"
  <2>1. e \in StatedIn(work[n])
    BY <1>2, <1>4 DEF StatedIn
  <2> QED BY <1>3, <2>1 DEF EvidenceFor
<1>5. CASE work[n].kind = "promote"
  <2>1. /\ n - 1 \in DOMAIN work
        /\ work[n - 1].kind = "signal" /\ work[n - 1].type = "preference"
        /\ work[n - 1].statement = work[n].statement
    BY <1>1, <1>2, <1>5 DEF Precedes
  <2>2. work[n].type = "preference" /\ work[n].scope = Global
    BY <1>1, <1>5 DEF ProperTask
  <2> HIDE DEF work
  <2>3. \E m \in DOMAIN work : /\ work[m].kind = "signal" /\ work[m].type = work[n].type
                               /\ work[m].statement = work[n].statement
                               /\ work[n].scope \in {work[m].scope, Global}
    BY <2>1, <2>2
  <2>4. \E m \in DOMAIN episode[e].work :
          LET t == episode[e].work[m]
          IN /\ t.kind = "signal" /\ t.type = work[n].type /\ t.statement = work[n].statement
             /\ work[n].scope \in {t.scope, Global}
    BY <2>3 DEF work
  <2>5. e \in StatedIn(work[n])
    BY <2>4 DEF StatedIn
  <2> QED BY <1>3, <2>5 DEF work, EvidenceFor
<1>6. work[n].kind \in {"signal", "resolve", "promote"}
  BY <1>2 DEF WorkTasks
<1> QED BY <1>4, <1>5, <1>6

\* And so it is after a step.
LEMMA StatedStays == WorkOK' => WorkIsStated'
BY ProperWorkIsStated, PTL

\* An episode is stored with all its tasks to do.
LEMMA StoreEpisodeIsProven ==
  ASSUME MemoryInv, ProvenInv, NEW p \in Storers, NEW r \in WorkRequests, NEW o \in BOOLEAN,
         StoreEpisode(p, r, o)
  PROVE  ProvenInv'
<1>1. PICK e : e = Len(episode) + 1
  OBVIOUS
<1>2. PICK work : work = Work(r, e)
  OBVIOUS
<1>3. PICK s : s = [Idle EXCEPT !.pc = "next", !.event = e, !.todo = work]
  OBVIOUS
<1>4. /\ e \notin DOMAIN episode
      /\ DOMAIN episode' = DOMAIN episode \cup {e}
      /\ \A d \in DOMAIN episode : episode'[d] = episode[d]
      /\ episode'[e].work = work /\ episode'[e].workspace = r.workspace
      /\ work \in ProperWork(r.workspace, RefsOf(episode'[e], e)) /\ work \in Seq(WorkTasks)
      /\ UNCHANGED <<claim, evidence>> /\ ~Busy(p)
  <2>1. DOMAIN episode = 1 .. Len(episode) /\ Len(episode) \in Nat
    BY EpisodeIsAppended
  <2>2. e \notin DOMAIN episode
    BY <1>1, <2>1
  <2> QED BY <1>1, <1>2, <2>2, EpisodeIsAppended
<1>5. /\ TablesOK /\ TablesOK' /\ StorersOK /\ DOMAIN storer = Storers
  BY StoreEpisodeKeepsTypes DEF MemoryInv, StorersOK
<1>6. storer' = [storer EXCEPT ![p] = s]
  BY <1>1, <1>2, <1>3 DEF StoreEpisode
<1>7. \A q \in Storers : storer'[q] = IF q = p THEN s ELSE storer[q]
  BY <1>5, <1>6
<1>8. s.pc = "next" /\ s.event = e /\ s.todo = work
  BY <1>3 DEF Idle
<1>9. \A q \in Storers : storer[q].pc # "idle" => storer[q].event \in DOMAIN episode
  BY <1>5 DEF StorersOK, StorerOK, HasWork
<1>10. EpisodesGrow
  BY <1>4 DEF EpisodesGrow
<1>11. WaitingShrinks
  <2>1. ASSUME NEW pos \in Positions, NEW q \in Storers, Waits(storer[q], pos)'
        PROVE  Waits(storer[q], pos)
    <3>1. pos[1] \in DOMAIN episode
      BY PositionsOneByOne
    <3>2. storer'[q].pc # "idle" /\ pos[1] = storer'[q].event
      BY <2>1 DEF Waits
    <3>3. q # p /\ storer'[q] = storer[q]
      BY <1>4, <1>7, <1>8, <3>1, <3>2
    <3>4. PICK t : t = storer[q]
      OBVIOUS
    <3>5. Waits(t, pos)' /\ t.event \in DOMAIN episode
      BY <1>9, <2>1, <3>2, <3>3, <3>4
    <3>6. episode'[t.event] = episode[t.event]
      BY <1>4, <3>5
    <3>7. Waits(t, pos)
      BY <3>5, <3>6 DEF Waits
    <3> QED BY <3>4, <3>7
  <2> QED BY <2>1 DEF WaitingShrinks
<1>12. RowsOK'
  BY <1>4, <1>5, <1>10, <1>11, RowsStay DEF ProvenInv
<1>13. WorkOK'
  BY <1>4 DEF ProvenInv, WorkOK
<1>14. TodoOK(s)' /\ WritesOK(s)'
  <2>1. WorkIsStated'
    BY <1>13, StatedStays
  <2>2. Len(work) \in Nat
    BY <1>4
  <2>3. ASSUME NEW n \in 1 .. Len(work)
        PROVE  /\ AsStored(work[n], work[Len(work) - Len(work) + n])
               /\ work[n].kind # "resolve" => work[n].refs \subseteq EvidenceFor(work[n])'
    <3>1. Len(work) - Len(work) + n = n
      BY <2>2
    <3>2. AsStored(work[n], work[n])
      BY DEF AsStored
    <3>3. work[n].kind # "resolve" => work[n].refs \subseteq EvidenceFor(work[n])'
      BY <1>4, <2>1 DEF WorkIsStated
    <3> QED BY <3>1, <3>2, <3>3
  <2>4. TodoOK(s)'
    BY <1>4, <1>8, <2>2, <2>3 DEF TodoOK
  <2> QED BY <1>8, <2>4 DEF WritesOK
<1>15. ASSUME NEW q \in Storers PROVE TodoOK(storer[q])' /\ WritesOK(storer[q])'
  <2>1. CASE q = p
    BY <1>7, <1>14, <2>1
  <2>2. CASE q # p
    <3>1. PICK t : t = storer[q]
      OBVIOUS
    <3>2. /\ TodoOK(t) /\ WritesOK(t) /\ t = storer'[q]
          /\ StorerOK(t, DOMAIN episode, DOMAIN evidence)
      BY <1>5, <1>7, <2>2, <3>1 DEF StorersOK, ProvenInv, StoringOK
    <3>3. /\ t.pc # "idle" => t.event \in DOMAIN episode
          /\ StorerRow(t, DOMAIN episode)
      BY <3>2 DEF StorerOK, HasWork
    <3>4. TodoOK(t)' /\ WritesOK(t)'
      BY <1>5, <1>10, <1>11, <3>2, <3>3, TodoStays, WritesStay
    <3> QED BY <3>2, <3>4
  <2> QED BY <2>1, <2>2
<1>16. EventsDiffer'
  <2>1. ASSUME NEW q \in Storers, Busy(q)', q # p
        PROVE  Busy(q) /\ storer'[q].event = storer[q].event /\ storer'[q].event # e
    BY <1>4, <1>7, <1>9, <2>1 DEF Busy
  <2>2. storer'[p].event = e
    BY <1>7, <1>8
  <2> QED BY <2>1, <2>2 DEF EventsDiffer, ProvenInv
<1> QED BY <1>12, <1>13, <1>15, <1>16 DEF ProvenInv, StoringOK

\* Rows under one id say the same.
LEMMA NamesAgree ==
  ASSUME NEW id, NEW c, NEW d, Names(id, c), Names(id, d)
  PROVE  /\ c.type = d.type /\ c.statement = d.statement /\ c.scope = d.scope
         /\ EvidenceFor(c) = EvidenceFor(d)
<1>1. c.type = d.type /\ c.statement = d.statement /\ c.scope = d.scope
  BY DEF Names, Counts
<1> QED BY <1>1, EvidenceAlike

\* The write at hand, and what is known of it.
LEMMA CurrentIsProven ==
  ASSUME MemoryInv, ProvenInv, NEW p \in Storers, storer[p].pc \in {"row", "clear", "insert"}
  PROVE  /\ RowOK(Current(p).row, {}) /\ Names(Current(p).row.id, Current(p).row)
         /\ Current(p).refs \subseteq EvidenceFor(Current(p).row)
         /\ Current(p).row \in Claims
         /\ storer[p].id # NoRef => Names(storer[p].id, Head(storer[p].todo))
         /\ Current(p).row.status = "superseded" =>
              Current(p).row.by \in DOMAIN evidence \cup EventRefs
         /\ \A n \in DOMAIN claim : claim[n].id = Current(p).row.id =>
              evidence[Current(p).row.id] \subseteq EvidenceFor(Current(p).row)
<1> DEFINE w == Current(p)
           u == Upcoming(p)
<1>1. /\ u \in DOMAIN storer[p].writes /\ w = storer[p].writes[u] /\ Busy(p)
      /\ w \in [row : Claims, refs : SUBSET (DOMAIN episode \cup ArtifactRefs)]
      /\ \A n \in DOMAIN storer[p].writes : u <= n
      /\ DOMAIN storer[p].writes \subseteq Nat
  BY CurrentWrite
<1>2. WritesOK(storer[p])
  BY DEF ProvenInv, StoringOK
<1> HIDE DEF w, u
<1>3. /\ RowOK(w.row, {}) /\ w.refs \subseteq EvidenceFor(w.row)
      /\ storer[p].id # NoRef => Names(storer[p].id, Head(storer[p].todo))
      /\ w.row.status = "superseded" =>
           u # 0 /\ w.row.by \in ({storer[p].id} \ {NoRef}) \cup EventRefs
  BY <1>1, <1>2 DEF WritesOK, PlanOK
<1>4. Names(w.row.id, w.row)
  BY <1>3 DEF RowOK
<1>5. ASSUME w.row.status = "superseded" PROVE w.row.by \in DOMAIN evidence \cup EventRefs
  <2>1. 0 \notin DOMAIN storer[p].writes
    BY <1>1, <1>3, <1>5
  <2>2. storer[p].id \in DOMAIN evidence \cup {NoRef}
    BY <1>1, <2>1, StorerAtWork DEF StorerOK, InOrder
  <2> QED BY <1>3, <1>5, <2>2
<1>6. ASSUME NEW n \in DOMAIN claim, claim[n].id = w.row.id
      PROVE  evidence[w.row.id] \subseteq EvidenceFor(w.row)
  <2>1. Names(w.row.id, claim[n]) /\ evidence[w.row.id] \subseteq EvidenceFor(claim[n])
    BY <1>6 DEF ProvenInv, RowsOK, RowOK
  <2> QED BY <1>4, <2>1, NamesAgree
<1> QED BY <1>1, <1>3, <1>4, <1>5, <1>6 DEF w

\* Whatever waits in the one waits in the other.
WaitsLess(s, t) == \A pos : Waits(s, pos) => Waits(t, pos)

\* A storer goes on with fewer writes of the same kind.
LEMMA FewerWritesAreProven ==
  ASSUME MemoryInv, ProvenInv, NEW p \in Storers, storer[p].pc \in {"row", "clear", "insert"},
         NEW s, s.event = storer[p].event, s.pc \in {"row", "clear", "insert"},
         s.id = storer[p].id, s.todo = storer[p].todo,
         \A n \in DOMAIN s.writes :
           /\ n \in DOMAIN storer[p].writes /\ s.writes[n].row = storer[p].writes[n].row
           /\ s.writes[n].refs \subseteq storer[p].writes[n].refs
  PROVE  TodoOK(s) /\ WritesOK(s) /\ WaitsLess(s, storer[p])
<1>1. TodoOK(storer[p]) /\ WritesOK(storer[p])
  BY DEF ProvenInv, StoringOK
<1>2. TodoOK(s)
  BY <1>1 DEF TodoOK
<1>3. WritesOK(s)
  BY <1>1 DEF WritesOK, PlanOK
<1>4. WaitsLess(s, storer[p])
  BY DEF Waits, WaitsLess
<1> QED BY <1>2, <1>3, <1>4

\* Then it is proven, if the table is.
LEMMA WritingIsProven ==
  ASSUME MemoryInv, MemoryInv', ProvenInv, NEW p \in Storers, NEW s,
         Busy(p),
         storer' = [storer EXCEPT ![p] = s], UNCHANGED episode,
         s.event = storer[p].event, TodoOK(s), WritesOK(s),
         WaitsLess(s, storer[p]), RowsOK'
  PROVE  ProvenInv'
<1>0. \A pos \in Positions : Waits(s, pos) => Waits(storer[p], pos)
  BY DEF WaitsLess
<1>1. EpisodesGrow /\ WaitingShrinks
  BY <1>0, GoingOnShrinks DEF MemoryInv
<1>3. storer'[p] = s /\ StorerOK(storer'[p], DOMAIN episode', DOMAIN evidence')
  BY DEF MemoryInv, StorersOK
<1>4. StorerRow(s, DOMAIN episode')
  BY <1>3 DEF StorerOK
<1>5. s.event \in DOMAIN episode
  BY StorerAtWork
<1>6. TodoOK(s)' /\ WritesOK(s)'
  BY <1>1, <1>4, <1>5, TodoStays, WritesStay DEF MemoryInv
<1> QED BY <1>0, <1>6, GoingOnIsProven

\* A row is written.
LEMMA WriteRowIsProven ==
  ASSUME MemoryInv, ProvenInv, NEW p \in Storers, WriteRow(p)
  PROVE  ProvenInv'
<1>1. PICK row : row = Current(p).row
  OBVIOUS
<1>2. PICK s : s = [storer[p] EXCEPT !.pc = "clear"]
  OBVIOUS
<1>3. /\ claim' = <<row>> \o Without(row.id)
      /\ evidence' = Inserted(evidence, row.id, {})
      /\ storer' = [storer EXCEPT ![p] = s]
      /\ UNCHANGED episode /\ storer[p].pc = "row"
  BY <1>1, <1>2 DEF WriteRow
<1>4. MemoryInv' /\ TablesOK /\ TablesOK'
  BY WriteRowKeepsTypes DEF MemoryInv
<1>5. /\ DOMAIN storer[p] = {"pc", "event", "todo", "plans", "writes", "id"}
  BY <1>3, StorerAtWork DEF Busy
<1>6. /\ s.pc = "clear" /\ s.event = storer[p].event /\ s.todo = storer[p].todo
      /\ s.writes = storer[p].writes /\ s.id = storer[p].id
  BY <1>2, <1>5
<1>7. TodoOK(s) /\ WritesOK(s) /\ WaitsLess(s, storer[p])
  BY <1>3, <1>6, FewerWritesAreProven
<1>8. EpisodesGrow /\ WaitingShrinks
  BY <1>3, <1>7, GoingOnShrinks DEF MemoryInv, WaitsLess
<1>9. /\ row \in Claims /\ RowOK(row, {})
      /\ row.status = "superseded" => row.by \in DOMAIN evidence \cup EventRefs
      /\ \A n \in DOMAIN claim : claim[n].id = row.id => evidence[row.id] \subseteq EvidenceFor(row)
  BY <1>1, <1>3, CurrentIsProven
<1>10. /\ DOMAIN evidence' = DOMAIN evidence \cup {row.id}
       /\ \A c \in DOMAIN evidence' : evidence'[c] =
            IF c \in DOMAIN evidence THEN evidence[c] ELSE {}
  BY <1>3 DEF Inserted
<1>11. ComesFirst(row, claim')
  BY <1>3, <1>4, <1>9, RowComesFirst
<1>12. /\ EventRefs \subseteq EventRefs' /\ \A c : EvidenceFor(c) \subseteq EvidenceFor(c)'
       /\ \A c \in Claims : RowOK(c, {}) => RowOK(c, {})'
  BY <1>4, <1>8, SayingsGrow, RowStays
<1>13. ASSUME NEW n \in DOMAIN claim'
       PROVE  /\ RowOK(claim[n], {})'
              /\ evidence'[claim'[n].id] \subseteq EvidenceFor(claim[n])'
              /\ claim'[n].status = "superseded" =>
                   claim'[n].by \in DOMAIN evidence' \cup EventRefs'
  <2>1. PICK c : c = claim'[n]
    OBVIOUS
  <2>2. CASE n = 1
    <3>1. c = row
      BY <1>11, <2>1, <2>2 DEF ComesFirst
    <3>2. RowOK(c, {})' /\ EvidenceFor(c) \subseteq EvidenceFor(c)'
      BY <1>9, <1>12, <3>1
    <3>3. evidence'[c.id] \subseteq EvidenceFor(c)
      <4>1. CASE row.id \in DOMAIN evidence
        <5>1. PICK m \in DOMAIN claim : claim[m].id = row.id
          BY <1>4, <4>1 DEF TablesOK
        <5> QED BY <1>9, <1>10, <3>1, <4>1, <5>1
      <4>2. CASE row.id \notin DOMAIN evidence
        BY <1>10, <3>1, <4>2
      <4> QED BY <4>1, <4>2
    <3> QED BY <1>9, <1>10, <1>12, <2>1, <3>1, <3>2, <3>3
  <2>3. CASE n # 1
    <3>1. PICK m \in DOMAIN claim : c = claim[m] /\ claim[m].id # row.id
      BY <1>11, <2>1, <2>3 DEF ComesFirst
    <3>2. /\ RowOK(c, {}) /\ evidence[c.id] \subseteq EvidenceFor(c) /\ c \in Claims
          /\ c.status = "superseded" => c.by \in DOMAIN evidence \cup EventRefs
          /\ c.id \in DOMAIN evidence
      BY <1>4, <3>1 DEF ProvenInv, RowsOK, TablesOK
    <3>3. RowOK(c, {})' /\ EvidenceFor(c) \subseteq EvidenceFor(c)'
      BY <1>12, <3>2
    <3>4. evidence'[c.id] = evidence[c.id]
      BY <1>10, <3>2
    <3> QED BY <1>10, <1>12, <2>1, <3>2, <3>3, <3>4
  <2> QED BY <2>2, <2>3
<1>14. RowsOK'
  BY <1>13 DEF RowsOK
<1>15. Busy(p)
  BY <1>3 DEF Busy
<1> QED BY <1>3, <1>4, <1>6, <1>7, <1>14, <1>15, WritingIsProven

\* Evidence changes, and only for the claim that is written.
LEMMA EvidenceIsProven ==
  ASSUME TablesOK, TablesOK', RowsOK, EpisodesGrow, WaitingShrinks, UNCHANGED claim,
         NEW row, Names(row.id, row), NEW more, more \subseteq EvidenceFor(row),
         row.id \in DOMAIN evidence,
         \/ evidence' = [evidence EXCEPT ![row.id] = {}]
         \/ evidence' = [evidence EXCEPT ![row.id] = @ \cup more]
  PROVE  RowsOK'
<1>1. /\ EventRefs \subseteq EventRefs' /\ \A c : EvidenceFor(c) \subseteq EvidenceFor(c)'
      /\ \A c \in Claims : RowOK(c, {}) => RowOK(c, {})'
  BY SayingsGrow, RowStays
<1>2. /\ DOMAIN evidence' = DOMAIN evidence
      /\ \A c \in DOMAIN evidence : c # row.id => evidence'[c] = evidence[c]
      /\ evidence'[row.id] \subseteq evidence[row.id] \cup more
  OBVIOUS
<1>3. ASSUME NEW n \in DOMAIN claim'
      PROVE  /\ RowOK(claim[n], {})'
             /\ evidence'[claim'[n].id] \subseteq EvidenceFor(claim[n])'
             /\ claim'[n].status = "superseded" =>
                  claim'[n].by \in DOMAIN evidence' \cup EventRefs'
  <2>1. PICK c : c = claim[n]
    OBVIOUS
  <2>2. /\ RowOK(c, {}) /\ evidence[c.id] \subseteq EvidenceFor(c) /\ c \in Claims
        /\ c.status = "superseded" => c.by \in DOMAIN evidence \cup EventRefs
        /\ c.id \in DOMAIN evidence /\ Names(c.id, c) /\ c = claim'[n]
    BY <2>1 DEF RowsOK, TablesOK, RowOK
  <2>3. RowOK(c, {})' /\ EvidenceFor(c) \subseteq EvidenceFor(c)'
    BY <1>1, <2>2
  <2>4. evidence'[c.id] \subseteq EvidenceFor(c)
    <3>1. CASE c.id = row.id
      <4>1. EvidenceFor(c) = EvidenceFor(row)
        BY <2>2, <3>1, NamesAgree
      <4> QED BY <1>2, <2>2, <3>1, <4>1
    <3>2. CASE c.id # row.id
      BY <1>2, <2>2, <3>2
    <3> QED BY <3>1, <3>2
  <2> QED BY <1>1, <1>2, <2>2, <2>3, <2>4
<1> QED BY <1>3 DEF RowsOK

\* Its evidence is deleted.
LEMMA ClearEvidenceIsProven ==
  ASSUME MemoryInv, ProvenInv, NEW p \in Storers, ClearEvidence(p)
  PROVE  ProvenInv'
<1>1. PICK row : row = Current(p).row
  OBVIOUS
<1>2. PICK s : s = [storer[p] EXCEPT !.pc = "insert"]
  OBVIOUS
<1>3. /\ evidence' = [evidence EXCEPT ![row.id] = {}]
      /\ storer' = [storer EXCEPT ![p] = s]
      /\ UNCHANGED <<episode, claim>> /\ storer[p].pc = "clear"
  BY <1>1, <1>2 DEF ClearEvidence
<1>4. MemoryInv' /\ TablesOK /\ TablesOK'
  BY ClearEvidenceKeepsTypes DEF MemoryInv
<1>5. Busy(p) /\ row.id \in DOMAIN evidence
  BY <1>1, <1>3, CurrentWrite
<1>6. /\ s.pc = "insert" /\ s.event = storer[p].event /\ s.todo = storer[p].todo
      /\ s.writes = storer[p].writes /\ s.id = storer[p].id
  BY <1>2, <1>5, StorerAtWork
<1>7. TodoOK(s) /\ WritesOK(s) /\ WaitsLess(s, storer[p])
  BY <1>3, <1>6, FewerWritesAreProven
<1>8. EpisodesGrow /\ WaitingShrinks
  BY <1>3, <1>7, GoingOnShrinks DEF MemoryInv, WaitsLess
<1>9. Names(row.id, row)
  BY <1>1, <1>3, CurrentIsProven
<1>10. RowsOK
  BY DEF ProvenInv
<1>11. {} \subseteq EvidenceFor(row)
  OBVIOUS
<1>12. RowsOK'
  BY <1>3, <1>4, <1>5, <1>8, <1>9, <1>10, <1>11, EvidenceIsProven
<1> QED BY <1>3, <1>4, <1>5, <1>6, <1>7, <1>12, WritingIsProven

\* A row of evidence is inserted.
LEMMA InsertEvidenceIsProven ==
  ASSUME MemoryInv, ProvenInv, NEW p \in Storers,
         NEW ref \in DOMAIN episode \cup ArtifactRefs, InsertEvidence(p, ref)
  PROVE  ProvenInv'
<1> DEFINE u == Upcoming(p)
           w == [storer[p].writes[u] EXCEPT !.refs = @ \ {ref}]
           writes == [storer[p].writes EXCEPT ![u] = w]
<1>1. PICK row : row = Current(p).row
  OBVIOUS
<1>2. PICK s : s = [storer[p] EXCEPT !.writes = writes]
  OBVIOUS
<1>3. /\ evidence' = [evidence EXCEPT ![row.id] = @ \cup {ref}]
      /\ ref \in Current(p).refs
      /\ storer' = [storer EXCEPT ![p] = s]
      /\ UNCHANGED <<episode, claim>> /\ storer[p].pc = "insert"
  <2>1. storer' = [storer EXCEPT ![p].writes[u].refs = @ \ {ref}]
    BY DEF InsertEvidence
  <2>2. storer' = [storer EXCEPT ![p] = [storer[p] EXCEPT !.writes = writes]]
    BY <2>1
  <2>3. storer' = [storer EXCEPT ![p] = s]
    <3> HIDE DEF writes
    <3> QED BY <1>2, <2>2
  <2> QED BY <1>1, <2>3 DEF InsertEvidence
<1>4. MemoryInv' /\ TablesOK /\ TablesOK'
  BY InsertEvidenceKeepsTypes DEF MemoryInv
<1>5. /\ Busy(p) /\ row.id \in DOMAIN evidence
      /\ u \in DOMAIN storer[p].writes /\ Current(p) = storer[p].writes[u]
      /\ storer[p].writes[u] \in [row : Claims, refs : SUBSET (DOMAIN episode \cup ArtifactRefs)]
  BY <1>1, <1>3, CurrentWrite
<1>6. /\ s.pc = "insert" /\ s.event = storer[p].event /\ s.todo = storer[p].todo
      /\ s.writes = writes /\ s.id = storer[p].id
  <2>1. DOMAIN storer[p] = {"pc", "event", "todo", "plans", "writes", "id"}
    BY <1>5, StorerAtWork
  <2> HIDE DEF writes
  <2> QED BY <1>2, <1>3, <2>1
<1>7. w.row = storer[p].writes[u].row /\ w.refs \subseteq storer[p].writes[u].refs
  BY <1>5
<1> HIDE DEF w, u
<1>8. /\ DOMAIN writes = DOMAIN storer[p].writes
      /\ \A n \in DOMAIN writes : writes[n] = IF n = u THEN w ELSE storer[p].writes[n]
  BY <1>5
<1> HIDE DEF writes
<1>9. \A n \in DOMAIN s.writes :
        /\ n \in DOMAIN storer[p].writes /\ s.writes[n].row = storer[p].writes[n].row
        /\ s.writes[n].refs \subseteq storer[p].writes[n].refs
  BY <1>6, <1>7, <1>8
<1>10. TodoOK(s) /\ WritesOK(s) /\ WaitsLess(s, storer[p])
  BY <1>3, <1>6, <1>9, FewerWritesAreProven
<1>11. EpisodesGrow /\ WaitingShrinks
  BY <1>3, <1>10, GoingOnShrinks DEF MemoryInv, WaitsLess
<1>12. Names(row.id, row) /\ {ref} \subseteq EvidenceFor(row)
  BY <1>1, <1>3, CurrentIsProven
<1>13. RowsOK
  BY DEF ProvenInv
<1>14. RowsOK'
  BY <1>3, <1>4, <1>5, <1>11, <1>12, <1>13, EvidenceIsProven
<1> QED BY <1>3, <1>4, <1>5, <1>6, <1>10, <1>14, WritingIsProven

\* The task after a preference is about that preference.
LEMMA PromotionFollows ==
  ASSUME MemoryInv, ProvenInv, NEW p \in Storers, Busy(p),
         2 \in 1 .. Len(storer[p].todo), storer[p].todo[2].kind = "promote"
  PROVE  EvidenceFor(storer[p].todo[1]) \subseteq EvidenceFor(storer[p].todo[2])
<1> DEFINE todo == storer[p].todo
           work == episode[storer[p].event].work
           k == Len(work) - Len(todo) + 2
<1>1. /\ work \in ProperWork(episode[storer[p].event].workspace,
                         RefsOf(episode[storer[p].event], storer[p].event))
      /\ Len(work) \in Nat /\ Len(todo) \in Nat /\ Len(todo) <= Len(work)
      /\ AsStored(todo[2], work[k]) /\ AsStored(todo[1], work[Len(work) - Len(todo) + 1])
  <2>1. 1 \in 1 .. Len(todo)
    BY TasksLeft
  <2> QED BY <2>1, TasksLeft
<1>2. work[k].kind = "promote"
  <2> HIDE DEF todo, work, k
  <2>1. todo[2].kind = "promote"
    BY DEF todo
  <2> QED BY <1>1, <2>1 DEF AsStored
<1>3. k \in 1 .. Len(work) /\ k - 1 = Len(work) - Len(todo) + 1
  <2>1. 2 \in 1 .. Len(todo)
    OBVIOUS
  <2> HIDE DEF todo, work
  <2> QED BY <1>1, <2>1
<1> HIDE DEF k
<1>4. /\ Precedes(work[k - 1], work[k])
      /\ ProperTask(work[k], episode[storer[p].event].workspace,
                    RefsOf(episode[storer[p].event], storer[p].event))
  BY <1>1, <1>2, <1>3 DEF ProperWork
<1>5. /\ todo[2].type = "preference" /\ todo[2].scope = Global
      /\ todo[1].type = "preference" /\ todo[1].statement = todo[2].statement
  <2>1. work[k].type = "preference" /\ work[k].scope = Global
    BY <1>2, <1>4 DEF ProperTask
  <2>2. work[k - 1].type = "preference" /\ work[k - 1].statement = work[k].statement
    BY <1>4 DEF Precedes
  <2>3. AsStored(todo[1], work[k - 1])
    BY <1>1, <1>3
  <2> HIDE DEF todo, work
  <2> QED BY <1>1, <2>1, <2>2, <2>3 DEF AsStored
<1>6. EvidenceFor(todo[1]) \subseteq EvidenceFor(todo[2])
  <2> HIDE DEF todo, work
  <2> QED BY <1>5, EvidenceAlike
<1> QED BY <1>6

\* The evidence a promotion takes over stated the preference.
LEMMA ReturnedIsProven ==
  ASSUME MemoryInv, ProvenInv, NEW p \in Storers, storer[p].pc = "insert",
         NEW n \in 1 .. Len(storer[p].todo)
  PROVE  WithReturned(p)[n].kind # "resolve" =>
           WithReturned(p)[n].refs \subseteq EvidenceFor(WithReturned(p)[n])
<1> DEFINE old == storer[p].todo[n]
           new == WithReturned(p)[n]
<1>1. /\ new.kind = old.kind /\ new.type = old.type /\ new.scope = old.scope
      /\ new.statement = old.statement
      /\ new.refs = old.refs
           \/ /\ old.kind = "promote" /\ new.refs = evidence[storer[p].id]
              /\ n = 2 /\ Current(p).row.id = storer[p].id
  BY ReturnedIsTyped
<1>2. Busy(p)
  BY DEF Busy
<1>3. old.kind # "resolve" => old.refs \subseteq EvidenceFor(old)
  BY <1>2, TasksLeft
<1> HIDE DEF new
<1>4. EvidenceFor(new) = EvidenceFor(old)
  BY <1>1, EvidenceAlike
<1>5. CASE new.refs = old.refs
  <2> HIDE DEF old
  <2>1. new.kind # "resolve" => new.refs \subseteq EvidenceFor(new)
    BY <1>1, <1>3, <1>4, <1>5
  <2> QED BY <2>1 DEF new
<1>6. CASE /\ old.kind = "promote" /\ new.refs = evidence[storer[p].id]
           /\ n = 2 /\ Current(p).row.id = storer[p].id
  <2>1. /\ Current(p).row.id \in DOMAIN evidence /\ Current(p).row.id \in Ids
    BY CurrentWrite
  <2>2. storer[p].id # NoRef
    <3>1. Ids \subseteq Nat \X Nat
      BY MemoryAssumption DEF Ids, MemoryAssumption
    <3> QED BY <1>6, <2>1, <3>1, MemoryAssumption DEF MemoryAssumption
  <2>3. PICK m \in DOMAIN claim : claim[m].id = Current(p).row.id
    BY <2>1 DEF MemoryInv, TablesOK
  <2>4. /\ evidence[Current(p).row.id] \subseteq EvidenceFor(Current(p).row)
        /\ Names(Current(p).row.id, Current(p).row)
        /\ Names(storer[p].id, Head(storer[p].todo))
    BY <2>2, <2>3, CurrentIsProven
  <2>5. Head(storer[p].todo) = storer[p].todo[1]
    BY <1>2, StorerAtWork
  <2>6. EvidenceFor(Current(p).row) = EvidenceFor(storer[p].todo[1])
    BY <1>6, <2>4, <2>5, NamesAgree
  <2>7. EvidenceFor(storer[p].todo[1]) \subseteq EvidenceFor(old)
    BY <1>2, <1>6, PromotionFollows
  <2> HIDE DEF old
  <2>8. new.refs \subseteq EvidenceFor(new)
    BY <1>4, <1>6, <2>4, <2>6, <2>7
  <2> QED BY <2>8 DEF new
<1> QED BY <1>1, <1>5, <1>6

\* A call returns its claim.
LEMMA ReturnClaimIsProven ==
  ASSUME MemoryInv, ProvenInv, NEW p \in Storers, ReturnClaim(p)
  PROVE  ProvenInv'
<1> DEFINE rest == DOMAIN storer[p].writes \ {Upcoming(p)}
           pc == IF rest = {} THEN "index" ELSE "row"
           writes == [n \in rest |-> storer[p].writes[n]]
<1>1. storer[p].pc = "insert" /\ Busy(p) /\ UNCHANGED <<episode, claim, evidence>>
  BY DEF ReturnClaim, Busy
<1>2. MemoryInv'
  BY ReturnClaimKeepsTypes
<1>3. CASE rest = {} /\ storer[p].id = NoRef
  <2>1. Proceed(p, Tail(storer[p].todo))
    BY <1>3 DEF ReturnClaim
  <2> QED BY <1>1, <1>2, <2>1, TailIsProven
<1>4. CASE ~(rest = {} /\ storer[p].id = NoRef)
  <2>1. PICK s : s = [storer[p] EXCEPT !.pc = pc, !.writes = writes, !.todo = WithReturned(p)]
    OBVIOUS
  <2>2. storer' = [storer EXCEPT ![p] = s]
    BY <1>4, <2>1 DEF ReturnClaim
  <2>3. DOMAIN storer[p] = {"pc", "event", "todo", "plans", "writes", "id"}
    BY <1>1, StorerAtWork
  <2>4. /\ s.pc = pc /\ s.event = storer[p].event /\ s.todo = WithReturned(p)
        /\ s.writes = writes /\ s.id = storer[p].id
    <3> HIDE DEF pc, writes
    <3> QED BY <2>1, <2>3
  <2>5. /\ WithReturned(p) \in Seq(WorkTasks)
        /\ Len(WithReturned(p)) = Len(storer[p].todo)
        /\ \A n \in 1 .. Len(storer[p].todo) :
             /\ WithReturned(p)[n].kind = storer[p].todo[n].kind
             /\ WithReturned(p)[n].type = storer[p].todo[n].type
             /\ WithReturned(p)[n].scope = storer[p].todo[n].scope
             /\ WithReturned(p)[n].statement = storer[p].todo[n].statement
             /\ n = 2 \/ WithReturned(p)[n] = storer[p].todo[n]
    BY <1>1, ReturnedIsTyped
  <2>6. WaitsLess(s, storer[p])
    <3>1. s.pc # "next" /\ storer[p].pc # "next" /\ storer[p].pc # "idle"
      BY <1>1, <2>4
    <3>2. Len(s.todo) = Len(storer[p].todo)
      BY <2>4, <2>5
    <3> QED BY <2>4, <3>1, <3>2 DEF Waits, WaitsLess
  <2>7. TodoOK(s)
    <3> DEFINE work == episode[storer[p].event].work
               K == Len(storer[p].todo)
    <3>1. ASSUME NEW n \in 1 .. K
          PROVE  /\ AsStored(s.todo[n], work[Len(work) - K + n])
                 /\ s.todo[n].kind # "resolve" => s.todo[n].refs \subseteq EvidenceFor(s.todo[n])
      <4>1. AsStored(storer[p].todo[n], work[Len(work) - K + n])
        BY <1>1, TasksLeft
      <4> HIDE DEF work
      <4>2. AsStored(s.todo[n], work[Len(work) - K + n])
        <5>1. \/ s.todo[n].refs = storer[p].todo[n].refs
              \/ storer[p].todo[n].kind = "promote"
          BY <1>1, <2>4, ReturnedIsTyped
        <5> QED BY <2>4, <2>5, <4>1, <5>1 DEF AsStored
      <4>3. s.todo[n].kind # "resolve" => s.todo[n].refs \subseteq EvidenceFor(s.todo[n])
        BY <1>1, <2>4, ReturnedIsProven
      <4> QED BY <4>2, <4>3
    <3>2. Len(s.todo) = K /\ s.event = storer[p].event
      BY <2>4, <2>5
    <3>3. K <= Len(work)
      BY <1>1, TasksLeft
    <3> QED BY <3>1, <3>2, <3>3 DEF TodoOK
  <2>8. WritesOK(s)
    <3> SUFFICES ASSUME s.pc \in {"row", "clear", "insert"} PROVE WritesOK(s)
      BY <2>4 DEF WritesOK
    <3>1. WritesOK(storer[p])
      BY DEF ProvenInv, StoringOK
    <3>2. \A n \in DOMAIN s.writes : /\ n \in DOMAIN storer[p].writes
                                     /\ s.writes[n] = storer[p].writes[n]
      BY <2>4
    <3>3. Head(s.todo) = Head(storer[p].todo)
      <4>1. /\ Head(storer[p].todo) = storer[p].todo[1] /\ 1 \in 1 .. Len(storer[p].todo)
        BY <1>1, StorerAtWork, TasksLeft
      <4>2. s.todo # <<>> /\ s.todo \in Seq(WorkTasks)
        BY <2>4, <2>5, <4>1
      <4>3. Head(s.todo) = s.todo[1]
        BY <4>2
      <4> QED BY <2>4, <2>5, <4>1, <4>3
    <3> QED BY <1>1, <2>4, <3>1, <3>2, <3>3 DEF WritesOK, PlanOK
  <2>9. RowsOK'
    <3>1. EpisodesGrow /\ WaitingShrinks
      BY <1>1, <2>2, <2>6, GoingOnShrinks DEF MemoryInv, WaitsLess
    <3> QED BY <1>1, <1>2, <3>1, RowsStay DEF ProvenInv, MemoryInv
  <2> HIDE DEF rest, pc, writes
  <2> QED BY <1>1, <1>2, <2>2, <2>4, <2>6, <2>7, <2>8, <2>9, WritingIsProven
<1> QED BY <1>3, <1>4

\* What is said of a row is said by its type, scope and statement.
SaysTheSame(c, d) == c.type = d.type /\ c.scope = d.scope /\ c.statement = d.statement

\* Then they are stated by the same episodes, and counted by the same signals.
LEMMA SameSayings ==
  ASSUME NEW c, NEW d, SaysTheSame(c, d)
  PROVE  /\ EvidenceFor(c) = EvidenceFor(d) /\ SignalsOf(c) = SignalsOf(d) /\ Made(c) = Made(d)
         /\ \A id : Names(id, c) <=> Names(id, d)
<1> USE DEF SaysTheSame
<1>1. EvidenceFor(c) = EvidenceFor(d)
  BY EvidenceAlike
<1>2. \A t : Counts(t, c) <=> Counts(t, d)
  BY DEF Counts
<1>3. SignalsOf(c) = SignalsOf(d)
  BY <1>2 DEF SignalsOf
<1>4. Made(c) = Made(d)
  BY <1>3 DEF Made
<1>5. \A id : Names(id, c) <=> Names(id, d)
  BY <1>2 DEF Names
<1> QED BY <1>1, <1>3, <1>4, <1>5

\* A claim that is superseded was true, and its evidence too.
LEMMA SupersedingIsProven ==
  ASSUME TablesOK, RowsOK, NEW n \in DOMAIN claim, NEW ref \in Ids
  PROVE  /\ RowOK(Superseding(n, ref).row, {})
         /\ Superseding(n, ref).refs \subseteq EvidenceFor(Superseding(n, ref).row)
         /\ Superseding(n, ref).row.by = ref
<1> DEFINE c == claim[n]
           d == SupersededBy(c, ref)
<1>1. Superseding(n, ref).row = d /\ Superseding(n, ref).refs = evidence[c.id]
  BY DEF Superseding, Write
<1>2. c \in Claims /\ RowOK(c, {}) /\ evidence[c.id] \subseteq EvidenceFor(c)
  BY ListedArePositions DEF RowsOK
<1> HIDE DEF c
<1>3. /\ d.id = c.id /\ SaysTheSame(c, d) /\ d.signals = c.signals
      /\ d.status = "superseded" /\ d.by = ref
  BY <1>2 DEF SupersededBy, Claims, SaysTheSame
<1> HIDE DEF d
<1>4. EvidenceFor(d) = EvidenceFor(c) /\ Made(d) = Made(c) /\ (Names(c.id, d) <=> Names(c.id, c))
  BY <1>3, SameSayings
<1>5. RowOK(d, {})
  BY <1>2, <1>3, <1>4 DEF RowOK
<1> QED BY <1>1, <1>2, <1>3, <1>4, <1>5

\* The loops an episode resolves.
LEMMA PlanResolveIsProven ==
  ASSUME MemoryInv, ProvenInv, NEW p \in Storers, PlanResolve(p)
  PROVE  ProvenInv'
<1>1. PICK e : e = storer[p].event
  OBVIOUS
<1>2. PICK D : D = StaleLoops(e, Head(storer[p].todo).scope)
  OBVIOUS
<1>3. PICK writes : writes = [n \in D |-> Superseding(n, EventRef(e))]
  OBVIOUS
<1>4. /\ Busy(p) /\ storer[p].pc = "next" /\ Perform(p, writes, NoRef)
      /\ UNCHANGED <<episode, claim, evidence>>
  BY <1>1, <1>2, <1>3 DEF PlanResolve, AtTask, Busy
<1>5. MemoryInv'
  BY PlanResolveKeepsTypes
<1>6. /\ EventRef(e) \in Ids /\ e \in DOMAIN episode /\ EventRef(e) \in EventRefs
  BY <1>1, <1>4, StorerAtWork DEF EventRef, EventRefs, Ids
<1>7. D \subseteq DOMAIN claim /\ DOMAIN claim = 1 .. Len(claim) /\ DOMAIN writes = D
  BY <1>2, <1>3 DEF MemoryInv, TablesOK, StaleLoops, Listed
<1>8. CASE D = {}
  <2>1. Proceed(p, Tail(storer[p].todo))
    BY <1>4, <1>7, <1>8 DEF Perform
  <2> QED BY <1>4, <1>5, <2>1, TailIsProven
<1>9. CASE D # {}
  <2>1. PICK s : s = [storer[p] EXCEPT !.pc = "row", !.plans = <<>>, !.writes = writes,
                                     !.id = NoRef]
    OBVIOUS
  <2>2. storer' = [storer EXCEPT ![p] = s]
    BY <1>4, <1>7, <1>9, <2>1 DEF Perform
  <2>3. DOMAIN storer[p] = {"pc", "event", "todo", "plans", "writes", "id"}
    BY <1>4, StorerAtWork
  <2>4. /\ s.pc = "row" /\ s.event = storer[p].event /\ s.todo = storer[p].todo
        /\ s.writes = writes /\ s.id = NoRef
    BY <2>1, <2>3
  <2>5. \A pos \in Positions : Waits(s, pos) => Waits(storer[p], pos)
    <3> TAKE pos \in Positions
    <3> HAVE Waits(s, pos)
    <3> DEFINE L == Len(episode[storer[p].event].work)
               K == Len(storer[p].todo)
    <3>1. pos[1] = storer[p].event /\ pos[2] + K > L + 1
      BY <2>4 DEF Waits
    <3>2. pos[2] \in Nat
      <4>1. pos[1] \in DOMAIN episode /\ pos[2] \in DOMAIN episode[pos[1]].work
        BY PositionsOneByOne
      <4>2. episode[storer[p].event].work \in Seq(WorkTasks)
        BY <1>4, TasksLeft
      <4>3. pos[2] \in DOMAIN episode[storer[p].event].work
        BY <3>1, <4>1
      <4> HIDE DEF L, K
      <4> QED BY <4>2, <4>3
    <3>3. L \in Nat /\ K \in Nat
      BY <1>4, TasksLeft
    <3> HIDE DEF L, K
    <3>4. pos[2] + K > L + 0
      BY <3>1, <3>2, <3>3
    <3>5. pos[2] + Len(storer[p].todo) > Len(episode[storer[p].event].work)
                                           + (IF storer[p].pc = "next" THEN 0 ELSE 1)
      BY <1>4, <3>4 DEF L, K
    <3> QED BY <1>4, <3>1, <3>5 DEF Waits
  <2>6. EpisodesGrow /\ WaitingShrinks
    BY <1>4, <2>2, <2>5, GoingOnShrinks DEF MemoryInv
  <2>7. TodoOK(s)
    <3>1. TodoOK(storer[p])
      BY DEF ProvenInv, StoringOK
    <3> QED BY <1>4, <2>4, <3>1 DEF TodoOK
  <2>8. WritesOK(s)
    <3>1. ASSUME NEW n \in DOMAIN writes
          PROVE  /\ RowOK(writes[n].row, {}) /\ writes[n].refs \subseteq EvidenceFor(writes[n].row)
                 /\ n # 0 /\ writes[n].row.by = EventRef(e)
      <4>1. writes[n] = Superseding(n, EventRef(e)) /\ n \in DOMAIN claim /\ n # 0
        BY <1>3, <1>7
      <4> QED BY <1>6, <4>1, SupersedingIsProven DEF MemoryInv, ProvenInv
    <3> QED BY <1>6, <2>4, <3>1 DEF WritesOK, PlanOK
  <2>9. /\ TodoOK(s)' /\ WritesOK(s)'
    <3>1. storer'[p] = s /\ StorerOK(storer'[p], DOMAIN episode', DOMAIN evidence')
      BY <1>5, <2>2 DEF MemoryInv, StorersOK
    <3>2. StorerRow(s, DOMAIN episode')
      BY <3>1 DEF StorerOK
    <3>3. s.event \in DOMAIN episode
      BY <1>1, <1>6, <2>4
    <3> QED BY <1>5, <2>6, <2>7, <2>8, <3>2, <3>3, TodoStays, WritesStay DEF MemoryInv
  <2>10. RowsOK'
    BY <1>4, <1>5, <2>6, RowsStay DEF MemoryInv, ProvenInv
  <2> QED BY <1>4, <1>5, <2>2, <2>4, <2>5, <2>9, <2>10, GoingOnIsProven
<1> QED BY <1>8, <1>9

\* The workspaces counted for a promotion are workspaces that saw the preference.
LEMMA DistinctAreSeen ==
  ASSUME MemoryInv, ProvenInv, NEW s
  PROVE  /\ Cardinality(SeenIn(s)) \in Nat
         /\ DistinctWorkspaces(s) \in Nat
         /\ DistinctWorkspaces(s) <= Cardinality(SeenIn(s))
<1> DEFINE W == {w \in Workspaces : \E n \in DOMAIN claim :
                   /\ claim[n].type = "preference" /\ claim[n].scope = w
                   /\ claim[n].statement = s /\ claim[n].status # "superseded"}
<1>1. ASSUME NEW w \in Workspaces, NEW n \in DOMAIN claim, claim[n].type = "preference",
             claim[n].scope = w, claim[n].statement = s
      PROVE  w \in SeenIn(s)
  <2> DEFINE e == claim[n].id[1]
             k == NamedAt(claim[n].id)
             t == episode[e].work[k]
  <2>1. /\ e \in DOMAIN episode /\ k \in DOMAIN episode[e].work /\ Counts(t, claim[n])
    BY DEF ProvenInv, RowsOK, RowOK, Names
  <2>2. claim[n].scope # Global
    BY <1>1, MemoryAssumption DEF MemoryAssumption
  <2>3. /\ t.type = "preference" /\ t.statement = s /\ t.kind = "signal" /\ t.scope = w
    BY <1>1, <2>1, <2>2 DEF Counts
  <2>4. /\ episode[e].work \in ProperWork(episode[e].workspace, RefsOf(episode[e], e))
    BY <2>1 DEF ProvenInv, WorkOK
  <2>5. k \in 1 .. Len(episode[e].work)
    <3>1. episode[e].work \in Seq(WorkTasks)
      BY <2>4 DEF ProperWork
    <3> QED BY <2>1, <3>1
  <2> HIDE DEF k
  <2>6. ProperTask(t, episode[e].workspace, RefsOf(episode[e], e))
    BY <2>4, <2>5 DEF ProperWork
  <2>7. episode[e].workspace = w
    BY <2>3, <2>6 DEF ProperTask
  <2> HIDE DEF e
  <2>8. \E j \in DOMAIN episode[e].work :
          LET x == episode[e].work[j]
          IN x.kind = "signal" /\ x.type = "preference" /\ x.statement = s
    BY <2>1, <2>3
  <2> QED BY <2>1, <2>7, <2>8 DEF SeenIn
<1>2. W \subseteq SeenIn(s)
  BY <1>1
<1>3. IsFiniteSet(SeenIn(s))
  BY SeenIsFinite DEF MemoryInv
<1>4. DistinctWorkspaces(s) = Cardinality(W)
  BY DEF DistinctWorkspaces
<1> HIDE DEF W
<1>5. IsFiniteSet(W) /\ Cardinality(W) <= Cardinality(SeenIn(s))
  BY <1>2, <1>3, FS_Subset
<1>6. Cardinality(SeenIn(s)) \in Nat /\ Cardinality(W) \in Nat
  BY <1>3, <1>5, FS_CardinalityType
<1> QED BY <1>4, <1>5, <1>6

\* The row a signal would write is true once the signal itself counts.
LEMMA NewRowIsProven ==
  ASSUME MemoryInv, ProvenInv, NEW t \in WorkTasks, t.kind = "signal", NEW id \in Ids,
         NEW shared \in BOOLEAN,
         Names(id, t), t.refs \subseteq EvidenceFor(t), t.scope = Global => t.type = "preference"
  PROVE  /\ NewRow(t, id, shared) \in Claims
         /\ SaysTheSame(NewRow(t, id, shared), t)
         /\ Names(NewRow(t, id, shared).id, t)
         /\ NewRow(t, id, shared).signals <= Cardinality(Made(t)) + 1
         /\ NewRow(t, id, shared).scope = Global /\ NewRow(t, id, shared).status = "accepted" =>
              shared
         /\ NewRow(t, id, shared).status # "superseded"
         /\ MergedEvidence(t) \subseteq EvidenceFor(t)
<1> DEFINE new == Aligned(t) = {}
           same == claim[Max(Aligned(t))]
           signals == 1 + (IF new THEN 0 ELSE same.signals)
           row == NewRow(t, id, shared)
<1>1. row \in Claims
  BY NewRowIsTyped DEF MemoryInv
<1>2. /\ row.id = IF new THEN id ELSE same.id
      /\ row.type = t.type /\ row.scope = t.scope /\ row.statement = t.statement
      /\ row.status = IF Earned(t, signals, shared) THEN "accepted" ELSE "candidate"
      /\ row.signals = signals
  BY DEF NewRow
<1>3. ASSUME ~new
      PROVE  /\ same \in Claims /\ Names(same.id, t)
             /\ same.signals <= Cardinality(Made(t))
             /\ evidence[same.id] \subseteq EvidenceFor(t)
  <2>1. PICK n \in DOMAIN claim : same = claim[n]
    BY <1>3, ListedArePositions DEF MemoryInv
  <2>2. SaysTheSame(same, t)
    BY <1>3, ListedArePositions DEF MemoryInv, SaysTheSame
  <2>3. same \in Claims /\ RowOK(same, {}) /\ evidence[same.id] \subseteq EvidenceFor(same)
    BY <2>1, ListedArePositions DEF MemoryInv, ProvenInv, RowsOK
  <2> HIDE DEF same
  <2>4. /\ EvidenceFor(same) = EvidenceFor(t) /\ Made(same) = Made(t)
        /\ \A i : Names(i, same) <=> Names(i, t)
    BY <2>2, SameSayings
  <2> QED BY <2>3, <2>4 DEF RowOK
<1>4. Cardinality(Made(t)) \in Nat
  BY TablesAreCountable, FS_CardinalityType DEF Countable, MemoryInv
<1>5. row.signals <= Cardinality(Made(t)) + 1
  <2>1. CASE new
    <3>1. row.signals = 1
      BY <1>2, <2>1
    <3> HIDE DEF row
    <3> QED BY <1>4, <3>1
  <2>2. CASE ~new
    <3>1. row.signals = 1 + same.signals /\ same.signals \in Nat
      BY <1>2, <1>3, <2>2 DEF Claims
    <3> HIDE DEF row, same
    <3> QED BY <1>3, <1>4, <2>2, <3>1
  <2> QED BY <2>1, <2>2
<1>6. ASSUME row.scope = Global, row.status = "accepted" PROVE shared
  <2>1. Earned(t, signals, shared)
    BY <1>2, <1>6
  <2>2. t.type = "preference" /\ t.scope = Global
    BY <1>2, <1>6
  <2> HIDE DEF signals
  <2> QED BY <2>1, <2>2 DEF Earned, AsksWorkspaces
<1>7. MergedEvidence(t) \subseteq EvidenceFor(t)
  BY <1>3 DEF MergedEvidence
<1>8. Names(row.id, t)
  BY <1>2, <1>3
<1>9. row.status # "superseded" /\ SaysTheSame(row, t)
  BY <1>2 DEF SaysTheSame
<1> QED BY <1>1, <1>5, <1>6, <1>7, <1>8, <1>9

\* The task at hand is the one its id names, and has waited until now.
LEMMA SignalAtHand ==
  ASSUME MemoryInv, ProvenInv, NEW p \in Storers, storer[p].pc # "idle",
         NEW t, t = Head(storer[p].todo), t.kind = "signal",
         NEW id, id = <<storer[p].event, Len(storer[p].todo)>>,
         NEW pos, pos = <<storer[p].event, NamedAt(id)>>
  PROVE  /\ Busy(p) /\ t \in WorkTasks /\ id \in Ids
         /\ t.refs \subseteq EvidenceFor(t) /\ t.refs \subseteq DOMAIN episode \cup ArtifactRefs
         /\ t.scope = Global => t.type = "preference"
         /\ Names(id, t) /\ pos \in SignalsOf(t)
         /\ pos[1] = storer[p].event
         /\ pos[2] + Len(storer[p].todo) = Len(episode[storer[p].event].work) + 1
         /\ Len(episode[storer[p].event].work) \in Nat
<1> DEFINE e == storer[p].event
           todo == storer[p].todo
           work == episode[e].work
           K == Len(todo)
           L == Len(work)
           k == L + 1 - K
           w == work[k]
<1>1. Busy(p)
  BY DEF Busy
<1>2. /\ e \in DOMAIN episode /\ DOMAIN episode \subseteq 1 .. MaxEpisodes
      /\ t \in WorkTasks /\ t.refs \subseteq DOMAIN episode \cup ArtifactRefs
      /\ t = todo[1] /\ K \in Nat
  BY <1>1, StorerAtWork
<1>3. /\ work \in ProperWork(episode[e].workspace, RefsOf(episode[e], e)) /\ work \in Seq(WorkTasks)
      /\ L \in Nat /\ 1 <= K /\ K <= L
      /\ \A n \in 1 .. K :
           /\ AsStored(todo[n], work[L - K + n])
           /\ todo[n].kind # "resolve" => todo[n].refs \subseteq EvidenceFor(todo[n])
  BY <1>1, TasksLeft
<1>4. /\ id[1] = e /\ id[2] = K /\ NamedAt(id) = k /\ id \in Ids
  BY <1>2 DEF NamedAt, Ids
<1>5. k \in 1 .. L /\ L - K + 1 = k /\ k + K = L + 1 /\ 1 \in 1 .. K /\ k \in DOMAIN work
  <2>1. DOMAIN work = 1 .. L
    BY <1>3
  <2> HIDE DEF work, L, K
  <2> QED BY <1>2, <1>3, <2>1
<1>6. AsStored(t, w) /\ t.refs \subseteq EvidenceFor(t)
  <2>1. AsStored(todo[1], work[L - K + 1]) /\ todo[1].refs \subseteq EvidenceFor(todo[1])
    <3> HIDE DEF todo, work, L, K, k
    <3> QED BY <1>2, <1>3, <1>5
  <2>2. work[L - K + 1] = w
    <3> HIDE DEF todo, work, L, K
    <3> QED BY <1>5 DEF w
  <2> HIDE DEF todo, work, L, K, k, w
  <2> QED BY <1>2, <2>1, <2>2
<1>7. ProperTask(w, episode[e].workspace, RefsOf(episode[e], e)) /\ w \in WorkTasks
  <2> HIDE DEF k, K
  <2> QED BY <1>3, <1>5 DEF ProperWork
<1> HIDE DEF k
<1>8. Counts(w, t) /\ (t.scope = Global => t.type = "preference")
  <2> HIDE DEF w
  <2>1. w.kind = "signal" \/ w.kind = "promote"
    BY <1>6 DEF AsStored
  <2> QED BY <1>6, <1>7, <2>1 DEF AsStored, ProperTask, Counts
<1>9. Names(id, t)
  BY <1>2, <1>4, <1>5, <1>8 DEF Names
<1>10. pos = <<e, k>> /\ pos[1] = e /\ pos[2] = k
  BY <1>4
<1>11. pos \in SignalsOf(t)
  BY <1>2, <1>5, <1>8, <1>10, PositionsOneByOne DEF SignalsOf
<1> QED BY <1>1, <1>2, <1>3, <1>4, <1>5, <1>6, <1>8, <1>9, <1>10, <1>11

\* A signal that no longer waits is one more.
LEMMA OneMoreMade ==
  ASSUME TablesOK, TablesOK', EpisodesGrow, WaitingShrinks, NEW c, NEW pos \in SignalsOf(c),
         NEW p \in Storers, Waits(storer[p], pos), \A q \in Storers : ~Waits(storer[q], pos)'
  PROVE  /\ Cardinality(Made(c)) \in Nat /\ Cardinality(Made(c)') \in Nat
         /\ Cardinality(Made(c)) + 1 <= Cardinality(Made(c)')
<1>1. IsFiniteSet(Made(c)) /\ IsFiniteSet(Made(c)')
  BY TablesAreCountable, CountableStays DEF Countable
<1>2. pos \notin Made(c)
  BY DEF Made
<1>3. pos \in Made(c)'
  <2>1. pos \in SignalsOf(c)'
    BY SayingsGrow
  <2> QED BY <2>1 DEF Made
<1>4. Made(c) \cup {pos} \subseteq Made(c)'
  BY <1>3, MadeGrows
<1>5. IsFiniteSet(Made(c) \cup {pos}) /\ Cardinality(Made(c) \cup {pos}) = Cardinality(Made(c)) + 1
  BY <1>1, <1>2, FS_AddElement
<1>6. Cardinality(Made(c) \cup {pos}) <= Cardinality(Made(c)')
  BY <1>1, <1>4, FS_Subset
<1>7. Cardinality(Made(c)) \in Nat /\ Cardinality(Made(c)') \in Nat
  BY <1>1, FS_CardinalityType
<1> QED BY <1>5, <1>6, <1>7

\* A storer that begins a signal counts it.
LEMMA SignalIsMade ==
  ASSUME MemoryInv, MemoryInv', ProvenInv, EpisodesGrow, WaitingShrinks, UNCHANGED episode,
         NEW p \in Storers, Busy(p), NEW c, NEW pos \in SignalsOf(c),
         pos[1] = storer[p].event, storer[p].pc = "next", storer'[p].pc \in {"row", "count"},
         storer'[p].todo = storer[p].todo,
         pos[2] + Len(storer[p].todo) = Len(episode[storer[p].event].work) + 1,
         Len(episode[storer[p].event].work) \in Nat
  PROVE  /\ Cardinality(Made(c)) \in Nat /\ Cardinality(Made(c)') \in Nat
         /\ Cardinality(Made(c)) + 1 <= Cardinality(Made(c)')
<1> DEFINE L == Len(episode[storer[p].event].work)
           K == Len(storer[p].todo)
<1>1. pos \in Positions
  BY DEF SignalsOf
<1>2. Waits(storer[p], pos)
  <2>1. pos[2] + K > L + 0
    <3>1. pos[2] + K = L + 1 /\ L \in Nat
      OBVIOUS
    <3> HIDE DEF L, K
    <3> QED BY <3>1
  <2>2. pos[2] + K > L + (IF storer[p].pc = "next" THEN 0 ELSE 1)
    <3> HIDE DEF L, K
    <3> QED BY <2>1
  <2> QED BY <2>2 DEF Waits, Busy
<1>3. ASSUME NEW q \in Storers, Waits(storer[q], pos)' PROVE FALSE
  <2>1. Waits(storer[q], pos)
    BY <1>1, <1>3 DEF WaitingShrinks
  <2>2. q = p
    <3>1. Busy(q) /\ storer[q].event = storer[p].event
      BY <2>1 DEF Waits, Busy
    <3> QED BY <3>1 DEF ProvenInv, EventsDiffer
  <2>3. storer'[p].event = pos[1]
    BY <1>3, <2>2 DEF Waits
  <2>4. pos[2] + K > L + 1
    <3>1. pos[2] + Len(storer'[p].todo) > Len(episode'[storer'[p].event].work)
                                            + (IF storer'[p].pc = "next" THEN 0 ELSE 1)
      BY <1>3, <2>2 DEF Waits
    <3> QED BY <2>3, <3>1
  <2>5. pos[2] + K = L + 1 /\ L \in Nat
    OBVIOUS
  <2> HIDE DEF L, K
  <2> QED BY <2>4, <2>5
<1>4. TablesOK /\ TablesOK'
  BY DEF MemoryInv
<1> QED BY <1>2, <1>3, <1>4, OneMoreMade

\* What waits at a storer waited there before.
WaitsBelow(s, t) == \A pos \in Positions : Waits(s, pos) => Waits(t, pos)

\* A storer that begins a task leaves the others waiting.
LEMMA BeginningIsProven ==
  ASSUME MemoryInv, ProvenInv, NEW p \in Storers, Busy(p), NEW s,
         s.pc = "row" \/ s.pc = "count", s.event = storer[p].event, s.todo = storer[p].todo,
         storer' = [storer EXCEPT ![p] = s], UNCHANGED episode
  PROVE  /\ WaitsBelow(s, storer[p]) /\ EpisodesGrow /\ WaitingShrinks
         /\ TodoOK(s)' /\ storer'[p] = s
<1>1. \A q \in Positions : Waits(s, q) => Waits(storer[p], q)
  <2> TAKE q \in Positions
  <2> HAVE Waits(s, q)
  <2> DEFINE L == Len(episode[storer[p].event].work)
             K == Len(storer[p].todo)
  <2>1. q[1] = storer[p].event /\ q[2] + K > L + 1
    BY DEF Waits
  <2>2. q[2] \in Nat
    <3>1. q[1] \in DOMAIN episode /\ q[2] \in DOMAIN episode[q[1]].work
      BY PositionsOneByOne
    <3>2. episode[storer[p].event].work \in Seq(WorkTasks)
      BY TasksLeft
    <3>3. q[2] \in DOMAIN episode[storer[p].event].work
      BY <2>1, <3>1
    <3> HIDE DEF L, K
    <3> QED BY <3>2, <3>3
  <2>3. L \in Nat /\ K \in Nat
    BY TasksLeft
  <2> HIDE DEF L, K
  <2>4. q[2] + K > L + 0
    BY <2>1, <2>2, <2>3
  <2>5. q[2] + K > L + (IF storer[p].pc = "next" THEN 0 ELSE 1)
    BY <2>1, <2>4
  <2> QED BY <2>1, <2>5 DEF Waits, L, K, Busy
<1>2. EpisodesGrow /\ WaitingShrinks
  BY <1>1, GoingOnShrinks DEF MemoryInv
<1>3. TodoOK(s)'
  <2>1. TodoOK(storer[p])
    BY DEF ProvenInv, StoringOK
  <2>2. TodoOK(s)
    BY <2>1 DEF TodoOK, Busy
  <2>3. s.event \in DOMAIN episode
    BY TasksLeft
  <2> QED BY <1>2, <2>2, <2>3, TodoStays
<1>4. storer'[p] = s
  BY DEF MemoryInv, StorersOK
<1> QED BY <1>1, <1>2, <1>3, <1>4 DEF WaitsBelow

\* The writes of a signal that is begun.
LEMMA MergeIsProven ==
  ASSUME MemoryInv, MemoryInv', ProvenInv, EpisodesGrow, WaitingShrinks,
         UNCHANGED <<episode, claim, evidence>>,
         NEW t \in WorkTasks, t.kind = "signal", NEW id \in Ids, NEW shared \in BOOLEAN,
         NEW writes, writes = Merge(t, id, shared),
         NEW name, name = NewRow(t, id, shared).id,
         Names(id, t), t.refs \subseteq EvidenceFor(t),
         t.refs \subseteq DOMAIN episode \cup ArtifactRefs,
         t.scope = Global => t.type = "preference",
         Cardinality(Made(t)) \in Nat, Cardinality(Made(t)') \in Nat,
         Cardinality(Made(t)) + 1 <= Cardinality(Made(t)')
  PROVE  PlanOK(writes, name, t, Taken(t, shared))'
<1>1. PICK new : new = NewRow(t, id, shared)
  OBVIOUS
<1>2. writes = Merge(t, id, shared) /\ name = new.id
  BY <1>1
<1>3. PICK row : row = Settled(new, Contradicted(t))
  OBVIOUS
<1>4. PICK taken : taken = Taken(t, shared)
  OBVIOUS
<1>5. TablesOK /\ TablesOK'
  BY DEF MemoryInv
<1>6. /\ 0 \in DOMAIN writes /\ DOMAIN writes \subseteq {0} \cup DOMAIN claim
      /\ writes[0] = Write(row, MergedEvidence(t))
      /\ \A n \in DOMAIN writes :
           writes[n] \in [row : Claims, refs : SUBSET (DOMAIN episode \cup ArtifactRefs)]
      /\ \A n \in DOMAIN writes \ {0} : writes[n] = Superseding(n, new.id)
  BY <1>1, <1>2, <1>3, <1>5, MergeIsTyped
<1>7. /\ new \in Claims /\ SaysTheSame(new, t) /\ Names(new.id, t)
      /\ new.signals <= Cardinality(Made(t)) + 1
      /\ new.scope = Global /\ new.status = "accepted" => shared
      /\ new.status # "superseded"
      /\ MergedEvidence(t) \subseteq EvidenceFor(t)
  BY <1>1, NewRowIsProven
<1>8. /\ row \in Claims /\ row.id = new.id /\ SaysTheSame(row, t)
      /\ row.signals = new.signals /\ row.scope = new.scope
      /\ row.status \in {new.status, "candidate"}
  BY <1>3, <1>7, SettledKeeps DEF SaysTheSame
<1>9. EvidenceFor(row) = EvidenceFor(t) /\ Names(row.id, row)
  BY <1>7, <1>8, SameSayings
<1>10. Made(row)' = Made(t)'
  <2>1. SaysTheSame(row, t)'
    BY <1>8 DEF SaysTheSame
  <2>2. \A c, d : SaysTheSame(c, d)' => Made(c)' = Made(d)'
    BY DEF SaysTheSame, Made, SignalsOf, Counts
  <2> QED BY <2>1, <2>2
<1>11. RowOK(row, taken)'
  <2>1. Names(row.id, row)'
    BY <1>9, SayingsGrow
  <2>2. row.signals <= Cardinality(Made(row)')
    <3>1. row.signals \in Nat /\ row.signals <= Cardinality(Made(t)) + 1
      BY <1>7, <1>8 DEF Claims
    <3> DEFINE a == Cardinality(Made(t))
               b == Cardinality(Made(t)')
    <3>2. row.signals \in Nat /\ a \in Nat /\ b \in Nat /\ row.signals <= a + 1 /\ a + 1 <= b
      BY <3>1
    <3> HIDE DEF a, b
    <3>3. row.signals <= b
      BY <3>2
    <3> QED BY <1>10, <3>3 DEF b
  <2>3. ASSUME row.scope = Global, row.status = "accepted" PROVE row.statement \in taken
    BY <1>4, <1>7, <1>8, <2>3 DEF Taken, SaysTheSame
  <2> QED BY <2>1, <2>2, <2>3 DEF RowOK
<1>12. ASSUME NEW n \in DOMAIN writes
       PROVE  /\ RowOK(writes[n].row, taken)'
              /\ writes[n].refs \subseteq EvidenceFor(writes[n].row)'
              /\ writes[n].row.status = "superseded" =>
                   n # 0 /\ writes[n].row.by \in {new.id} \ {NoRef}
  <2>1. CASE n = 0
    <3>1. writes[n].row = row /\ writes[n].refs = MergedEvidence(t)
      BY <1>6, <2>1 DEF Write
    <3>2. row.status # "superseded"
      BY <1>7, <1>8
    <3>3. MergedEvidence(t) \subseteq EvidenceFor(row)'
      BY <1>7, <1>9, SayingsGrow
    <3> QED BY <1>11, <3>1, <3>2, <3>3
  <2>2. CASE n # 0
    <3>1. n \in DOMAIN claim /\ writes[n] = Superseding(n, new.id) /\ writes[n].row \in Claims
      BY <1>6, <2>2
    <3>2. new.id \in Ids /\ new.id # NoRef
      <4>1. new.id \in (1 .. MaxEpisodes) \X Nat
        BY <1>7 DEF Claims
      <4> QED BY <4>1, MemoryAssumption DEF Ids, MemoryAssumption
    <3>3. /\ RowOK(writes[n].row, {}) /\ writes[n].refs \subseteq EvidenceFor(writes[n].row)
          /\ writes[n].row.by = new.id
      BY <1>5, <3>1, <3>2, SupersedingIsProven DEF ProvenInv
    <3>4. RowOK(writes[n].row, {})'
      BY <1>5, <3>1, <3>3, RowStays
    <3>5. writes[n].refs \subseteq EvidenceFor(writes[n].row)'
      BY <3>3, SayingsGrow
    <3>6. RowOK(writes[n].row, taken)'
      BY <3>4 DEF RowOK
    <3> QED BY <2>2, <3>2, <3>3, <3>5, <3>6
  <2> QED BY <2>1, <2>2
<1>13. Names(new.id, t)'
  BY <1>7, SayingsGrow
<1>14. PlanOK(writes, new.id, t, taken)'
  BY <1>12, <1>13 DEF PlanOK
<1> QED BY <1>2, <1>4, <1>14

\* A signal plans its writes.
LEMMA PlanSignalIsProven ==
  ASSUME MemoryInv, ProvenInv, NEW p \in Storers, PlanSignal(p)
  PROVE  ProvenInv'
<1>1. PICK t : t = Head(storer[p].todo)
  OBVIOUS
<1>2. PICK id : id = <<storer[p].event, Len(storer[p].todo)>>
  OBVIOUS
<1>3. PICK pos : pos = <<storer[p].event, NamedAt(id)>>
  OBVIOUS
<1>4. PICK plans : plans = [shared \in BOOLEAN |-> Merge(t, id, shared)]
  OBVIOUS
<1>5. PICK name : name = NewRow(t, id, FALSE).id
  OBVIOUS
<1>6. PICK s : s = IF AsksWorkspaces(t)
                   THEN [storer[p] EXCEPT !.pc = "count", !.plans = plans, !.id = name]
                   ELSE [storer[p] EXCEPT !.pc = "row", !.plans = <<>>,
                                          !.writes = plans[FALSE], !.id = name]
  OBVIOUS
<1>7. /\ storer[p].pc = "next" /\ t.kind = "signal"
      /\ IF AsksWorkspaces(t)
         THEN storer' = [storer EXCEPT ![p].pc = "count", ![p].plans = plans, ![p].id = name]
         ELSE Perform(p, plans[FALSE], name)
      /\ UNCHANGED <<episode, claim, evidence>>
  BY <1>1, <1>2, <1>4, <1>5 DEF PlanSignal, AtTask
<1>8. /\ Busy(p) /\ t \in WorkTasks /\ id \in Ids
      /\ t.refs \subseteq EvidenceFor(t) /\ t.refs \subseteq DOMAIN episode \cup ArtifactRefs
      /\ t.scope = Global => t.type = "preference"
      /\ Names(id, t) /\ pos \in SignalsOf(t)
      /\ pos[1] = storer[p].event
      /\ pos[2] + Len(storer[p].todo) = Len(episode[storer[p].event].work) + 1
      /\ Len(episode[storer[p].event].work) \in Nat
  BY <1>1, <1>2, <1>3, <1>7, SignalAtHand
<1>9. MemoryInv' /\ TablesOK /\ TablesOK'
  BY PlanSignalKeepsTypes DEF MemoryInv
<1>10. ASSUME NEW shared \in BOOLEAN
       PROVE  /\ 0 \in DOMAIN plans[shared] /\ plans[shared] = Merge(t, id, shared)
              /\ NewRow(t, id, shared).id = name
  <2>1. 0 \in DOMAIN Merge(t, id, shared)
    BY <1>7, <1>8, <1>9, MergeIsTyped
  <2>2. plans[shared] = Merge(t, id, shared)
    BY <1>4
  <2>3. NewRow(t, id, shared).id = name
    BY <1>5, NameOfARow
  <2> QED BY <2>1, <2>2, <2>3
<1>11. storer' = [storer EXCEPT ![p] = s]
  <2>1. CASE AsksWorkspaces(t)
    BY <1>6, <1>7, <2>1
  <2>2. CASE ~AsksWorkspaces(t)
    <3>1. DOMAIN plans[FALSE] # {}
      BY <1>10
    <3> QED BY <1>6, <1>7, <2>2, <3>1 DEF Perform
  <2> QED BY <2>1, <2>2
<1>12. DOMAIN storer[p] = {"pc", "event", "todo", "plans", "writes", "id"}
  BY <1>8, StorerAtWork
<1>13. /\ s.event = storer[p].event /\ s.todo = storer[p].todo /\ s.id = name
       /\ AsksWorkspaces(t) => s.pc = "count" /\ s.plans = plans
       /\ ~AsksWorkspaces(t) => s.pc = "row" /\ s.writes = plans[FALSE]
  BY <1>6, <1>12
<1>14. /\ WaitsBelow(s, storer[p]) /\ EpisodesGrow /\ WaitingShrinks
       /\ TodoOK(s)' /\ storer'[p] = s /\ s.pc \in {"row", "count"}
  <2>1. /\ s.pc = "row" \/ s.pc = "count"
        /\ s.event = storer[p].event /\ s.todo = storer[p].todo
    BY <1>13
  <2>2. Busy(p) /\ UNCHANGED episode
    BY <1>7, <1>8
  <2> QED BY <1>11, <2>1, <2>2, BeginningIsProven
<1>15. /\ Cardinality(Made(t)) \in Nat /\ Cardinality(Made(t)') \in Nat
       /\ Cardinality(Made(t)) + 1 <= Cardinality(Made(t)')
  BY <1>7, <1>8, <1>9, <1>13, <1>14, SignalIsMade
<1>16. ASSUME NEW shared \in BOOLEAN
       PROVE  PlanOK(plans[shared], name, t, Taken(t, shared))'
  <2>1. PICK writes : writes = plans[shared]
    OBVIOUS
  <2>2. writes = Merge(t, id, shared) /\ name = NewRow(t, id, shared).id
    BY <1>10, <2>1
  <2>3. PlanOK(writes, name, t, Taken(t, shared))'
    BY <1>7, <1>8, <1>9, <1>14, <1>15, <2>2, MergeIsProven
  <2> QED BY <2>1, <2>3
<1>17. WritesOK(s)'
  <2>1. Head(s.todo) = t
    BY <1>1, <1>13
  <2>2. CASE AsksWorkspaces(t)
    BY <1>13, <1>16, <2>1, <2>2 DEF WritesOK
  <2>3. CASE ~AsksWorkspaces(t)
    <3>1. Taken(t, FALSE) = {}
      BY DEF Taken
    <3>2. PlanOK(plans[FALSE], name, t, {})'
      BY <1>16, <3>1
    <3> QED BY <1>13, <2>1, <2>3, <3>2 DEF WritesOK
  <2> QED BY <2>2, <2>3
<1>18. RowsOK'
  BY <1>7, <1>9, <1>14, RowsStay DEF ProvenInv
<1> QED BY <1>7, <1>8, <1>9, <1>11, <1>13, <1>14, <1>17, <1>18, GoingOnIsProven DEF WaitsBelow

\* The second reading finds the workspaces that saw the preference.
LEMMA CountWorkspacesIsProven ==
  ASSUME MemoryInv, ProvenInv, NEW p \in Storers, CountWorkspaces(p)
  PROVE  ProvenInv'
<1>1. PICK t : t = Head(storer[p].todo)
  OBVIOUS
<1>2. PICK shared \in BOOLEAN : shared = (DistinctWorkspaces(t.statement) >= 2)
  <2> DEFINE many == DistinctWorkspaces(t.statement) >= 2
  <2>1. many \in BOOLEAN
    OBVIOUS
  <2> HIDE DEF many
  <2>2. \E shared \in BOOLEAN : shared = many
    BY <2>1
  <2> QED BY <2>2 DEF many
<1>3. PICK writes : writes = storer[p].plans[shared]
  OBVIOUS
<1>4. PICK id : id = storer[p].id
  OBVIOUS
<1>5. PICK s : s = [storer[p] EXCEPT !.pc = "row", !.plans = <<>>, !.writes = writes, !.id = id]
  OBVIOUS
<1>6. /\ storer[p].pc = "count" /\ Busy(p) /\ Perform(p, writes, id)
      /\ UNCHANGED <<episode, claim, evidence>>
  BY <1>1, <1>2, <1>3, <1>4 DEF CountWorkspaces, Busy
<1>7. MemoryInv' /\ TablesOK /\ TablesOK'
  BY CountWorkspacesKeepsTypes DEF MemoryInv
<1>8. /\ DOMAIN storer[p] = {"pc", "event", "todo", "plans", "writes", "id"}
      /\ WritesTyped(writes, DOMAIN episode) /\ 0 \in DOMAIN writes
  BY <1>3, <1>6, StorerAtWork DEF StorerOK, StorerRow, InOrder
<1>9. storer' = [storer EXCEPT ![p] = s]
  BY <1>5, <1>6, <1>8 DEF Perform
<1>10. /\ s.pc = "row" /\ s.event = storer[p].event /\ s.todo = storer[p].todo
       /\ s.writes = writes /\ s.id = id
  BY <1>5, <1>8
<1>11. WaitsBelow(s, storer[p]) /\ EpisodesGrow /\ WaitingShrinks /\ TodoOK(s)'
  <2>1. /\ s.pc = "row" \/ s.pc = "count"
        /\ s.event = storer[p].event /\ s.todo = storer[p].todo
    BY <1>10
  <2>2. Busy(p) /\ UNCHANGED episode
    BY <1>6
  <2> QED BY <1>9, <2>1, <2>2, BeginningIsProven
<1>12. PlanOK(writes, id, t, Taken(t, shared))
  BY <1>1, <1>3, <1>4, <1>6 DEF ProvenInv, StoringOK, WritesOK
<1>13. ASSUME shared PROVE Cardinality(SeenIn(t.statement)) >= 2
  <2> DEFINE d == DistinctWorkspaces(t.statement)
             c == Cardinality(SeenIn(t.statement))
  <2>1. d \in Nat /\ c \in Nat /\ d <= c /\ d >= 2
    BY <1>2, <1>13, DistinctAreSeen
  <2> HIDE DEF d, c
  <2>2. c >= 2
    BY <2>1
  <2> QED BY <2>2 DEF c
<1>14. \A row : RowOK(row, Taken(t, shared)) => RowOK(row, {})
  BY <1>13 DEF RowOK, Taken
<1>15. PlanOK(writes, id, t, {})
  BY <1>12, <1>14 DEF PlanOK
<1>16. WritesOK(s)'
  <2>1. PlanOK(writes, id, t, {})'
    BY <1>7, <1>8, <1>11, <1>15, PlanStays
  <2> QED BY <1>1, <1>10, <2>1 DEF WritesOK
<1>17. RowsOK'
  BY <1>6, <1>7, <1>11, RowsStay DEF ProvenInv
<1> QED BY <1>6, <1>7, <1>9, <1>10, <1>11, <1>16, <1>17, GoingOnIsProven DEF WaitsBelow

\* At first nothing is said.
LEMMA ProvenInit == MemoryInit => ProvenInv
<1> SUFFICES ASSUME MemoryInit PROVE ProvenInv
  OBVIOUS
<1>1. DOMAIN episode = {} /\ DOMAIN claim = {}
  BY DEF MemoryInit
<1>2. WorkOK /\ RowsOK
  BY <1>1 DEF WorkOK, RowsOK
<1>3. ASSUME NEW p \in Storers PROVE storer[p].pc = "idle"
  BY DEF MemoryInit, Idle
<1>4. StoringOK /\ EventsDiffer
  BY <1>3 DEF StoringOK, TodoOK, WritesOK, EventsDiffer, Busy
<1> QED BY <1>2, <1>4 DEF ProvenInv

\* What is said stays true at every step.
LEMMA ProvenStep == MemoryInv /\ ProvenInv /\ (MemoryMoves \/ MemoryStays) => ProvenInv'
<1> SUFFICES ASSUME MemoryInv, ProvenInv, MemoryMoves \/ MemoryStays PROVE ProvenInv'
  OBVIOUS
<1>1. CASE MemoryStays
  BY <1>1, StayingIsProven
<1>2. ASSUME NEW p \in Storers, Store(p) PROVE ProvenInv'
  <2>1. CASE PlanSignal(p)
    BY <2>1, PlanSignalIsProven
  <2>2. CASE PlanResolve(p)
    BY <2>2, PlanResolveIsProven
  <2>3. CASE Promote(p)
    BY <2>3, PromoteIsProven
  <2>4. CASE WriteRow(p)
    BY <2>4, WriteRowIsProven
  <2>5. CASE ClearEvidence(p)
    BY <2>5, ClearEvidenceIsProven
  <2>6. CASE \E ref \in DOMAIN episode \cup ArtifactRefs : InsertEvidence(p, ref)
    BY <2>6, InsertEvidenceIsProven
  <2>7. CASE ReturnClaim(p)
    BY <2>7, ReturnClaimIsProven
  <2>8. CASE IndexClaim(p)
    BY <2>8, IndexClaimIsProven
  <2>9. CASE CountWorkspaces(p)
    BY <2>9, CountWorkspacesIsProven
  <2> QED BY <1>2, <2>1, <2>2, <2>3, <2>4, <2>5, <2>6, <2>7, <2>8, <2>9 DEF Store
<1>3. ASSUME NEW p \in Storers, StopStoring(p) PROVE ProvenInv'
  BY <1>3, StopStoringIsProven
<1>4. ASSUME NEW p \in Storers, NEW r \in WorkRequests, NEW o \in BOOLEAN,
             StoreEpisode(p, r, o)
      PROVE ProvenInv'
  BY <1>4, StoreEpisodeIsProven
<1> QED BY <1>1, <1>2, <1>3, <1>4 DEF MemoryMoves

\* It implies what is claimed.
LEMMA ProvenInvImplies == MemoryInv /\ ProvenInv => ClaimsAreProven
<1> SUFFICES ASSUME MemoryInv, ProvenInv, NEW n \in DOMAIN claim
             PROVE  LET c == claim[n]
                    IN /\ c.signals <= Cardinality(SignalsOf(c))
                       /\ evidence[c.id] \subseteq EvidenceFor(c)
                       /\ c.scope = Global /\ c.status = "accepted" =>
                            Cardinality(SeenIn(c.statement)) >= 2
                       /\ c.status = "superseded" =>
                            c.by \in DOMAIN evidence \cup {EventRef(e) : e \in DOMAIN episode}
  BY DEF ClaimsAreProven
<1>1. PICK c : c = claim[n]
  OBVIOUS
<1>2. /\ RowOK(c, {}) /\ evidence[c.id] \subseteq EvidenceFor(c) /\ c \in Claims
      /\ c.status = "superseded" => c.by \in DOMAIN evidence \cup EventRefs
  BY <1>1, ListedArePositions DEF MemoryInv, ProvenInv, RowsOK
<1>3. c.signals <= Cardinality(SignalsOf(c))
  <2> DEFINE a == Cardinality(Made(c))
             b == Cardinality(SignalsOf(c))
  <2>1. IsFiniteSet(Made(c)) /\ IsFiniteSet(SignalsOf(c)) /\ Made(c) \subseteq SignalsOf(c)
    BY TablesAreCountable DEF Countable, MemoryInv, Made
  <2>2. a \in Nat /\ b \in Nat
    BY <2>1, FS_CardinalityType
  <2>3. a <= b
    BY <2>1, FS_Subset
  <2>4. c.signals \in Nat /\ c.signals <= a
    BY <1>2 DEF RowOK, Claims
  <2> HIDE DEF a, b
  <2>5. c.signals <= b
    BY <2>2, <2>3, <2>4
  <2> QED BY <2>5 DEF b
<1>4. c.scope = Global /\ c.status = "accepted" => Cardinality(SeenIn(c.statement)) >= 2
  BY <1>2 DEF RowOK
<1>5. c.status = "superseded" => c.by \in DOMAIN evidence \cup {EventRef(e) : e \in DOMAIN episode}
  BY <1>2 DEF EventRefs
<1> QED BY <1>1, <1>2, <1>3, <1>4, <1>5

\* Whatever overlaps or stops, what is said of a claim is true.
THEOREM ClaimsStayProven == Spec => []ClaimsAreProven
<1>1. Init => MemoryInit
  BY DEF Init
<1>2. Spec => [](MemoryInv /\ ProvenInv)
  <2>1. Init => MemoryInv /\ ProvenInv
    BY <1>1, MemoryInvInit, ProvenInit
  <2>2. MemoryInv /\ ProvenInv /\ [Next]_vars => (MemoryInv /\ ProvenInv)'
    <3> SUFFICES ASSUME MemoryInv, ProvenInv, [Next]_vars PROVE MemoryInv' /\ ProvenInv'
      OBVIOUS
    <3>1. MemoryMoves \/ MemoryStays
      BY NextMovesMemory
    <3> QED BY <3>1, MemoryInvStep, ProvenStep
  <2> QED BY <2>1, <2>2, PTL DEF Spec
<1> QED BY <1>2, ProvenInvImplies, PTL

\* So it is with other hosts than the connector.
THEOREM MemoryIsProven == MemorySpec => []ClaimsAreProven
<1>1. MemoryInit => MemoryInv /\ ProvenInv
  BY MemoryInvInit, ProvenInit
<1>2. MemoryInv /\ ProvenInv /\ [MemoryNext]_memoryVars => (MemoryInv /\ ProvenInv)'
  <2> SUFFICES ASSUME MemoryInv, ProvenInv, [MemoryNext]_memoryVars PROVE MemoryInv' /\ ProvenInv'
    OBVIOUS
  <2>1. MemoryMoves \/ MemoryStays
    BY MemoryNextMoves
  <2> QED BY <2>1, MemoryInvStep, ProvenStep
<1>3. MemorySpec => [](MemoryInv /\ ProvenInv)
  BY <1>1, <1>2, PTL DEF MemorySpec
<1> QED BY <1>3, ProvenInvImplies, PTL

-----------------------------------------------------------------------------
(* Storers that take turns                                                 *)

\* The storer at work, if there is one.
AtWork ==
  IF \E p \in Storers : Busy(p) THEN storer[CHOOSE p \in Storers : Busy(p)] ELSE Idle

Alone == \A p, q \in Storers : Busy(p) /\ Busy(q) => p = q

IsWriting(s) == s.pc \in {"row", "clear", "insert"}

\* s has the claim named id still to write.
Awaits(s, id) == IsWriting(s) /\ \E m \in DOMAIN s.writes : s.writes[m].row.id = id

\* The row c with evidence E, as it is,
Standing(claims, known, s, c, E) ==
  /\ \E n \in DOMAIN claims : claims[n] = c
  /\ E = known[c.id] /\ ~Awaits(s, c.id)
\* as s has still to write it,
Coming(known, s, c, E) ==
  /\ IsWriting(s)
  /\ \E m \in DOMAIN s.writes :
       /\ s.writes[m].row = c
       /\ E = s.writes[m].refs
                \cup (IF s.pc = "insert" /\ m = Min(DOMAIN s.writes) THEN known[c.id] ELSE {})
\* and so as it will be.
FinalIn(claims, known, s, c, E) ==
  Standing(claims, known, s, c, E) \/ Coming(known, s, c, E)

Final(c, E) == FinalIn(claim, evidence, AtWork, c, E)

\* No claim is written twice, and a row is written before its evidence.
InPlace(claims, s) ==
  IsWriting(s) =>
    /\ \A m, n \in DOMAIN s.writes : s.writes[m].row.id = s.writes[n].row.id => m = n
    /\ s.pc # "row" => \E n \in DOMAIN claims : claims[n] = s.writes[Min(DOMAIN s.writes)].row

HeldBy(s, id) == s.pc \in {"row", "clear", "insert", "index"} /\ s.id = id

\* The signals that have been begun, and those of one claim.
TaskAt(x) == episode[x[1]].work[x[2]]
Begun == {x \in Positions : TaskAt(x).kind = "signal" /\ ~Waits(AtWork, x)}
Told(c) == {x \in Begun : Counts(TaskAt(x), c)}

\* What signals are evidence with.
RefsTold(T) == UNION {RefsOf(episode[x[1]], x[1]) : x \in T}

\* Each statement has one claim,
Single ==
  \A c, d, E, F : Final(c, E) /\ Final(d, F) /\ SaysTheSame(c, d) => c = d /\ E = F
\* accepted claims do not contradict each other,
AllAgree ==
  \A c, d, E, F :
    /\ Final(c, E) /\ Final(d, F) /\ c.status = "accepted" /\ d.status = "accepted"
    /\ c.type = d.type /\ c.scope = d.scope
    => ~Conflict(c.statement, d.statement)
\* each claim counts its signals and has them as evidence,
Counted(c, E) ==
  c.scope # Global =>
    /\ c.signals = Cardinality(Told(c))
    /\ E = RefsTold(Told(c))
    /\ c.id \in indexed \/ HeldBy(AtWork, c.id)
AllCounted == \A c, E : Final(c, E) => Counted(c, E)
\* and each signal that was begun has its claim.
AllThere == \A x \in Begun : \E c, E : Final(c, E) /\ Counts(TaskAt(x), c)

\* The plans of a storer that reads a second time fit the claims as they are.
PlansFit(s) ==
  s.pc = "count" =>
    LET t == Head(s.todo)
    IN /\ t.kind = "signal" /\ t.scope = Global
       /\ \A shared \in BOOLEAN :
            s.plans[shared] = Merge(t, <<s.event, Len(s.todo)>>, shared)

TurnsInv ==
  disturbed = 0 =>
    /\ Alone /\ InPlace(claim, AtWork) /\ PlansFit(AtWork)
    /\ Single /\ AllAgree /\ AllCounted /\ AllThere

\* The one storer that is busy is at work.
LEMMA BusyIsAtWork ==
  ASSUME Alone, NEW p \in Storers, Busy(p)
  PROVE  AtWork = storer[p]
<1>1. (CHOOSE q \in Storers : Busy(q)) = p
  BY DEF Alone
<1> QED BY <1>1 DEF AtWork

\* It goes on, and nobody else begins.
LEMMA AloneStays ==
  ASSUME StorersOK, Alone, NEW p \in Storers, NEW s, storer' = [storer EXCEPT ![p] = s],
         Busy(p) \/ \A q \in Storers : ~Busy(q), s.pc # "idle" \/ s = Idle
  PROVE  Alone' /\ AtWork' = s
<1>1. \A q \in Storers : storer'[q] = IF q = p THEN s ELSE storer[q]
  BY DEF StorersOK
<1>2. \A q \in Storers : q # p => ~Busy(q)
  BY DEF Alone
<1>3. \A q \in Storers : q # p => ~Busy(q)'
  BY <1>1, <1>2 DEF Busy
<1>4. Alone'
  BY <1>3 DEF Alone
<1>5. CASE s.pc # "idle"
  <2>1. Busy(p)'
    BY <1>1, <1>5 DEF Busy
  <2>2. (CHOOSE q \in Storers : Busy(q)') = p
    BY <1>3, <2>1
  <2> QED BY <1>1, <1>4, <2>1, <2>2 DEF AtWork
<1>6. CASE s.pc = "idle"
  <2>1. \A q \in Storers : ~Busy(q)'
    BY <1>1, <1>3, <1>6 DEF Busy
  <2> QED BY <1>4, <1>6, <2>1 DEF AtWork
<1> QED BY <1>5, <1>6

\* What is final is a claim or about to be one, and named as one.
LEMMA FinalIsNamed ==
  ASSUME MemoryInv, ProvenInv, Alone, NEW c, NEW E, Final(c, E)
  PROVE  c \in Claims /\ Names(c.id, c) /\ c.id \in Ids /\ c.id # NoRef
<1>1. ASSUME \E n \in DOMAIN claim : claim[n] = c
      PROVE  c \in Claims /\ Names(c.id, c)
  <2>1. PICK n \in DOMAIN claim : claim[n] = c
    BY <1>1
  <2>2. c \in Claims
    BY <2>1 DEF MemoryInv, TablesOK
  <2>3. RowOK(c, {})
    BY <2>1 DEF ProvenInv, RowsOK
  <2> QED BY <2>2, <2>3 DEF RowOK
<1>2. ASSUME IsWriting(AtWork), \E m \in DOMAIN AtWork.writes : AtWork.writes[m].row = c
      PROVE  c \in Claims /\ Names(c.id, c)
  <2>1. AtWork.pc # "idle"
    BY <1>2 DEF IsWriting
  <2>2. PICK p \in Storers : Busy(p)
    BY <2>1 DEF AtWork, Idle
  <2>3. AtWork = storer[p]
    BY <2>2, BusyIsAtWork
  <2>4. PICK m \in DOMAIN storer[p].writes : storer[p].writes[m].row = c
    BY <1>2, <2>3
  <2>5. WritesOK(storer[p])
    BY DEF ProvenInv, StoringOK
  <2>6. RowOK(c, {})
    BY <1>2, <2>3, <2>4, <2>5 DEF WritesOK, PlanOK, IsWriting
  <2>7. StorerRow(storer[p], DOMAIN episode)
    BY DEF MemoryInv, StorersOK, StorerOK
  <2>8. storer[p].writes[m] \in [row : Claims, refs : SUBSET (DOMAIN episode \cup ArtifactRefs)]
    BY <2>4, <2>7 DEF StorerRow, WritesTyped
  <2> QED BY <2>4, <2>6, <2>8 DEF RowOK
<1>3. c \in Claims /\ Names(c.id, c)
  BY <1>1, <1>2 DEF Final, FinalIn, Standing, Coming
<1>4. c.id \in (1 .. MaxEpisodes) \X Nat
  BY <1>3 DEF Claims
<1> QED BY <1>3, <1>4, MemoryAssumption DEF Ids, MemoryAssumption

\* Two final rows of one name are one.
LEMMA FinalsAreNamed ==
  ASSUME NEW claims, NEW known, NEW s, InPlace(claims, s),
         \A m, n \in DOMAIN claims : claims[m].id = claims[n].id => m = n,
         NEW c, NEW E, NEW d, NEW F, FinalIn(claims, known, s, c, E),
         FinalIn(claims, known, s, d, F), c.id = d.id
  PROVE  c = d /\ E = F
<1> DEFINE more(m, x) == IF s.pc = "insert" /\ m = Min(DOMAIN s.writes) THEN known[x.id] ELSE {}
           Is(x, X) == Standing(claims, known, s, x, X)
           Comes(x, X) == Coming(known, s, x, X)
<1>1. \A x, X : FinalIn(claims, known, s, x, X) => Is(x, X) \/ Comes(x, X)
  BY DEF FinalIn
<1>2. CASE Is(c, E) /\ Is(d, F)
  BY <1>2 DEF Standing
<1>3. \A x, X : Comes(x, X) => Awaits(s, x.id)
  BY DEF Awaits, Coming
<1>4. CASE Comes(c, E) /\ Comes(d, F)
  <2>1. PICK m \in DOMAIN s.writes : s.writes[m].row = c /\ E = s.writes[m].refs \cup more(m, c)
    BY <1>4 DEF Coming
  <2>2. PICK n \in DOMAIN s.writes : s.writes[n].row = d /\ F = s.writes[n].refs \cup more(n, d)
    BY <1>4 DEF Coming
  <2> HIDE DEF more
  <2>3. m = n
    BY <1>4, <2>1, <2>2 DEF InPlace, Coming
  <2> QED BY <2>1, <2>2, <2>3
<1>5. \A x, X : Is(x, X) => ~Awaits(s, x.id)
  BY DEF Standing
<1> HIDE DEF Is, Comes
<1> QED BY <1>1, <1>2, <1>3, <1>4, <1>5

\* d is c, or c superseded.
Recast(c, d) ==
  /\ c.id = d.id /\ SaysTheSame(c, d) /\ c.signals = d.signals
  /\ d.status \in {c.status, "superseded"}

Clash(c, d) ==
  /\ c.status = "accepted" /\ d.status = "accepted"
  /\ c.type = d.type /\ c.scope = d.scope
  /\ Conflict(c.statement, d.statement)

\* In the end (d, F) comes of one that was final, which a new row r leaves alone.
ComesOf(d, F, new, r) ==
  \E c : /\ Final(c, F) /\ Recast(c, d)
         /\ new => ~SaysTheSame(c, r) /\ ~Clash(d, r)

\* What is final in the end was final, or is r with the evidence M, if that is new.
NothingElse(new, r, M) ==
  \A d, F : Final(d, F)' => (new /\ d = r /\ F = M) \/ ComesOf(d, F, new, r)

\* All that was final still is, or r says the same.
NothingLost(new, r) ==
  \A c, E : Final(c, E) =>
    (new /\ SaysTheSame(c, r)) \/ \E d : Final(d, E)' /\ Recast(c, d)

\* The signals begun by the step are those that r counts.
BegunFor(new, r) ==
  /\ Begun \subseteq Begun'
  /\ \A x \in Begun' \ Begun : new /\ Counts(TaskAt(x), r)' /\ r.scope # Global

StillHeld ==
  \A id : id # NoRef /\ (id \in indexed \/ HeldBy(AtWork, id)) =>
    HeldBy(AtWork', id) \/ id \in indexed'

ClaimIds == \A m, n \in DOMAIN claim : claim[m].id = claim[n].id => m = n

\* They are ids, by the types of the tables.
LEMMA TablesHaveIds == TablesOK => ClaimIds
BY DEF TablesOK, ClaimIds

\* And so they are after a step.
LEMMA IdsStay == TablesOK' => ClaimIds'
BY TablesHaveIds, PTL

\* Final rows of one name are one after the step.
LEMMA FinalsStayNamed ==
  ASSUME TablesOK', InPlace(claim', AtWork')
  PROVE  \A c, E, d, F : Final(c, E)' /\ Final(d, F)' /\ c.id = d.id => c = d /\ E = F
<1> SUFFICES ASSUME NEW c, NEW E, NEW d, NEW F, Final(c, E)', Final(d, F)', c.id = d.id
             PROVE  c = d /\ E = F
  OBVIOUS
<1>1. PICK claims : claims = claim'
  OBVIOUS
<1>2. PICK known : known = evidence'
  OBVIOUS
<1>3. PICK s : s = AtWork'
  OBVIOUS
<1>4. InPlace(claims, s)
  BY <1>1, <1>3
<1>5. \A m, n \in DOMAIN claims : claims[m].id = claims[n].id => m = n
  BY <1>1, IdsStay DEF ClaimIds
<1>6. FinalIn(claims, known, s, c, E) /\ FinalIn(claims, known, s, d, F)
  BY <1>1, <1>2, <1>3 DEF Final
<1> QED BY <1>4, <1>5, <1>6, FinalsAreNamed

\* The evidence of signals stays.
LEMMA RefsStay ==
  ASSUME EpisodesGrow, NEW T, T \subseteq Positions
  PROVE  UNION {RefsOf(episode'[x[1]], x[1]) : x \in T} = RefsTold(T)
<1>1. \A x \in T : episode'[x[1]] = episode[x[1]]
  BY PositionsGrow
<1> QED BY <1>1 DEF RefsTold

\* What a step must see to: what becomes of the final rows, and of the signals.
LEMMA FinalsMove ==
  ASSUME MemoryInv, TablesOK', ProvenInv, TurnsInv, disturbed = 0, EpisodesGrow,
         Alone', InPlace(claim', AtWork'), PlansFit(AtWork)',
         NEW new \in BOOLEAN, NEW r, NEW M,
         NothingElse(new, r, M), NothingLost(new, r), BegunFor(new, r), StillHeld,
         new => Final(r, M)' /\ Counted(r, M)'
  PROVE  TurnsInv'
<1>1. Alone /\ Single /\ AllAgree /\ AllCounted /\ AllThere
  BY DEF TurnsInv
<1>2. \A x \in Begun : TaskAt(x)' = TaskAt(x)
  BY PositionsGrow DEF Begun, TaskAt
<1>3. Single'
  <2> SUFFICES ASSUME NEW c, NEW d, NEW E, NEW F, Final(c, E)', Final(d, F)', SaysTheSame(c, d)
               PROVE  c = d /\ E = F
    BY DEF Single
  <2>1. CASE ComesOf(c, E, new, r) /\ ComesOf(d, F, new, r)
    <3>1. PICK c1 : Final(c1, E) /\ Recast(c1, c)
      BY <2>1 DEF ComesOf
    <3>2. PICK d1 : Final(d1, F) /\ Recast(d1, d)
      BY <2>1 DEF ComesOf
    <3>3. SaysTheSame(c1, d1)
      BY <3>1, <3>2 DEF Recast, SaysTheSame
    <3>4. c1 = d1
      BY <1>1, <3>1, <3>2, <3>3 DEF Single
    <3>5. c.id = d.id
      BY <3>1, <3>2, <3>4 DEF Recast
    <3> QED BY <3>5, FinalsStayNamed
  <2>2. \A x, X : ComesOf(x, X, new, r) /\ new => ~SaysTheSame(x, r)
    BY DEF ComesOf, Recast, SaysTheSame
  <2> QED BY <2>1, <2>2 DEF NothingElse, SaysTheSame
<1>4. AllAgree'
  <2> SUFFICES ASSUME NEW c, NEW d, NEW E, NEW F, Final(c, E)', Final(d, F)', Clash(c, d)
               PROVE  FALSE
    BY DEF AllAgree, Clash
  <2>1. CASE ComesOf(c, E, new, r) /\ ComesOf(d, F, new, r)
    <3>1. PICK c1 : Final(c1, E) /\ Recast(c1, c)
      BY <2>1 DEF ComesOf
    <3>2. PICK d1 : Final(d1, F) /\ Recast(d1, d)
      BY <2>1 DEF ComesOf
    <3>3. Clash(c1, d1)
      BY <3>1, <3>2 DEF Recast, SaysTheSame, Clash
    <3> QED BY <1>1, <3>1, <3>2, <3>3 DEF AllAgree, Clash
  <2>2. \A x, X : ComesOf(x, X, new, r) /\ new => ~Clash(x, r)
    BY DEF ComesOf
  <2>3. ~Clash(c, c)
    BY NoSelfConflict DEF Clash
  <2>4. Clash(d, c)
    BY ConflictIsSymmetric DEF Clash
  <2> QED BY <2>1, <2>2, <2>3, <2>4 DEF NothingElse
<1>5. AllCounted'
  <2> SUFFICES ASSUME NEW d, NEW F, Final(d, F)' PROVE Counted(d, F)'
    BY DEF AllCounted
  <2>1. CASE new /\ d = r /\ F = M
    BY <2>1
  <2>2. CASE ComesOf(d, F, new, r)
    <3>1. PICK c : Final(c, F) /\ Recast(c, d) /\ (new => ~SaysTheSame(c, r))
      BY <2>2 DEF ComesOf
    <3>2. Counted(c, F) /\ c.id # NoRef
      BY <1>1, <3>1, FinalIsNamed DEF AllCounted
    <3>3. d.scope # Global => Told(d)' = Told(c)
      <4> HAVE d.scope # Global
      <4>1. SaysTheSame(c, d)
        BY <3>1 DEF Recast
      <4>2. \A x \in Begun : Counts(TaskAt(x), d)' <=> Counts(TaskAt(x), c)
        BY <1>2, <4>1 DEF Counts, SaysTheSame
      <4>3. \A x \in Begun' \ Begun : ~Counts(TaskAt(x), d)'
        <5> SUFFICES ASSUME NEW x \in Begun' \ Begun, Counts(TaskAt(x), d)' PROVE FALSE
          OBVIOUS
        <5>1. new /\ Counts(TaskAt(x), r)' /\ r.scope # Global
          BY DEF BegunFor
        <5>2. SaysTheSame(d, r)
          BY <5>1 DEF Counts, SaysTheSame
        <5> QED BY <3>1, <4>1, <5>1, <5>2 DEF SaysTheSame
      <4> QED BY <4>2, <4>3 DEF Told, BegunFor
    <3>4. d.id = c.id /\ d.signals = c.signals /\ d.scope = c.scope
      BY <3>1 DEF Recast, SaysTheSame
    <3>5. c.id \in indexed \/ HeldBy(AtWork, c.id) => c.id \in indexed' \/ HeldBy(AtWork', c.id)
      BY <3>2 DEF StillHeld
    <3>6. d.scope # Global => RefsTold(Told(d))' = RefsTold(Told(c))
      <4> HAVE d.scope # Global
      <4>1. PICK T : T = Told(c)
        OBVIOUS
      <4>2. T \subseteq Positions /\ Told(d)' = T
        BY <3>3, <4>1 DEF Told, Begun
      <4>3. RefsTold(Told(d))' = UNION {RefsOf(episode'[x[1]], x[1]) : x \in T}
        BY <4>2 DEF RefsTold, RefsOf
      <4> QED BY <4>1, <4>2, <4>3, RefsStay
    <3> QED BY <3>2, <3>3, <3>4, <3>5, <3>6 DEF Counted
  <2> QED BY <2>1, <2>2 DEF NothingElse
<1>6. AllThere'
  <2> SUFFICES ASSUME NEW x \in Begun' PROVE \E d, F : Final(d, F)' /\ Counts(TaskAt(x), d)'
    BY DEF AllThere
  <2>1. CASE x \notin Begun
    BY <2>1 DEF BegunFor
  <2>2. CASE x \in Begun
    <3>1. PICK c, E : Final(c, E) /\ Counts(TaskAt(x), c)
      BY <1>1, <2>2 DEF AllThere
    <3>2. PICK d, F : Final(d, F)' /\ SaysTheSame(c, d)
      BY <3>1 DEF NothingLost, Recast
    <3> QED BY <1>2, <2>2, <3>1, <3>2 DEF Counts, SaysTheSame
  <2> QED BY <2>1, <2>2
<1> QED BY <1>3, <1>4, <1>5, <1>6 DEF TurnsInv

\* The final rows are as they were.
FinalsStay == \A c, E : Final(c, E)' <=> Final(c, E)

\* Where nothing begins and nothing is lost, all is as it was.
LEMMA StayingFinal ==
  ASSUME MemoryInv, TablesOK', ProvenInv, TurnsInv, disturbed = 0, EpisodesGrow,
         Alone', InPlace(claim', AtWork'), PlansFit(AtWork)',
         FinalsStay, Begun' = Begun, StillHeld
  PROVE  TurnsInv'
<1>1. \A c : Recast(c, c)
  BY DEF Recast, SaysTheSame
<1>2. NothingElse(FALSE, NoRef, {})
  BY <1>1 DEF NothingElse, FinalsStay, ComesOf
<1>3. NothingLost(FALSE, NoRef)
  BY <1>1 DEF NothingLost, FinalsStay
<1>4. BegunFor(FALSE, NoRef)
  BY DEF BegunFor
<1> QED BY <1>2, <1>3, <1>4, FinalsMove

\* Nobody reads a second time after the step.
LEMMA NobodyCounts ==
  ASSUME AtWork'.pc # "count"
  PROVE  PlansFit(AtWork)'
BY DEF PlansFit

\* A storer goes on, and no signal is begun.
LEMMA BegunStays ==
  ASSUME MemoryInv, Alone, NEW p \in Storers, Busy(p), NEW s,
         storer' = [storer EXCEPT ![p] = s], s.pc # "idle" \/ s = Idle, UNCHANGED episode,
         \A x \in Positions :
           TaskAt(x).kind = "signal" => (Waits(s, x) <=> Waits(storer[p], x))
  PROVE  Alone' /\ AtWork = storer[p] /\ AtWork' = s /\ Begun' = Begun
<1>1. AtWork = storer[p]
  BY BusyIsAtWork
<1>2. Alone' /\ AtWork' = s
  BY AloneStays DEF MemoryInv
<1>3. Positions' = Positions /\ \A x : TaskAt(x)' = TaskAt(x)
  BY DEF Positions, TaskAt
<1>4. \A x : Waits(AtWork, x)' <=> Waits(s, x)
  BY <1>2 DEF Waits
<1>5. Begun' = Begun
  BY <1>1, <1>3, <1>4 DEF Begun
<1> QED BY <1>1, <1>2, <1>5

\* A storer goes on writing.
LEMMA WritingGoesOn ==
  ASSUME MemoryInv, Alone, NEW p \in Storers, NEW s,
         storer' = [storer EXCEPT ![p] = s], UNCHANGED <<episode, indexed>>,
         storer[p].pc \in {"row", "clear", "insert"},
         s.pc \in {"row", "clear", "insert", "index"},
         s.event = storer[p].event, s.id = storer[p].id, Len(s.todo) = Len(storer[p].todo)
  PROVE  /\ Alone' /\ AtWork = storer[p] /\ AtWork' = s
         /\ EpisodesGrow /\ Begun' = Begun /\ StillHeld /\ PlansFit(AtWork)'
<1>1. \A x : Waits(s, x) <=> Waits(storer[p], x)
  BY DEF Waits
<1>2. Busy(p) /\ s.pc # "idle"
  BY DEF Busy
<1>3. Alone' /\ AtWork = storer[p] /\ AtWork' = s /\ Begun' = Begun
  BY <1>1, <1>2, BegunStays
<1>4. StillHeld
  BY <1>3 DEF StillHeld, HeldBy
<1>5. PlansFit(AtWork)'
  BY <1>3, NobodyCounts
<1> QED BY <1>3, <1>4, <1>5 DEF EpisodesGrow

\* A storer goes on to a task, or returns.
LEMMA ProceedBegins ==
  ASSUME MemoryInv, ProvenInv, Alone, NEW p \in Storers, Busy(p),
         NEW rest \in Seq(WorkTasks), Proceed(p, rest), UNCHANGED episode,
         \/ Len(rest) = Len(storer[p].todo) /\ storer[p].pc = "next"
         \/ /\ Len(rest) = Len(storer[p].todo) - 1
            /\ storer[p].pc = "next" => Head(storer[p].todo).kind # "signal"
  PROVE  /\ Alone' /\ AtWork = storer[p] /\ EpisodesGrow /\ PlansFit(AtWork)'
         /\ AtWork'.pc \in {"idle", "next"} /\ Begun' = Begun
<1>1. PICK s : s = IF rest = <<>> THEN Idle
                   ELSE [storer[p] EXCEPT !.pc = "next", !.todo = rest, !.writes = <<>>]
  OBVIOUS
<1>2. storer' = [storer EXCEPT ![p] = s]
  BY <1>1 DEF Proceed
<1>3. DOMAIN storer[p] = {"pc", "event", "todo", "plans", "writes", "id"}
  BY StorerAtWork
<1>4. \/ rest = <<>> /\ s = Idle
      \/ rest # <<>> /\ s.pc = "next" /\ s.todo = rest /\ s.event = storer[p].event
  BY <1>1, <1>3
<1> DEFINE e == storer[p].event
           work == episode[e].work
           todo == storer[p].todo
           L == Len(work)
           M == Len(todo)
           K == Len(rest)
<1>5. /\ L \in Nat /\ M \in Nat /\ K \in Nat /\ 1 <= M /\ M <= L /\ e \in DOMAIN episode
      /\ DOMAIN work = 1 .. L /\ Head(todo) = todo[1]
      /\ \A n \in 1 .. M : AsStored(todo[n], work[L - M + n])
  <2>1. K \in Nat
    OBVIOUS
  <2>2. work \in Seq(WorkTasks)
    BY TasksLeft
  <2>3. DOMAIN work = 1 .. L
    BY <2>2
  <2> QED BY <2>1, <2>3, TasksLeft, StorerAtWork
<1>6. \/ K = M /\ storer[p].pc = "next"
      \/ K = M - 1 /\ (storer[p].pc = "next" => todo[1].kind # "signal")
  BY <1>5
<1>7. \A x : Waits(s, x) <=> rest # <<>> /\ x[1] = e /\ x[2] + K > L + 0
  <2>1. CASE rest = <<>> /\ s = Idle
    BY <2>1 DEF Waits, Idle
  <2>2. CASE rest # <<>> /\ s.pc = "next" /\ s.todo = rest /\ s.event = e
    <3> TAKE x
    <3>1. Waits(s, x) <=> /\ s.pc # "idle" /\ x[1] = s.event
                          /\ x[2] + Len(s.todo) > Len(episode[s.event].work)
                                                    + (IF s.pc = "next" THEN 0 ELSE 1)
      BY DEF Waits
    <3> QED BY <2>2, <3>1
  <2> QED BY <1>4, <2>1, <2>2
<1>8. \A x : Waits(storer[p], x)
                <=> x[1] = e /\ x[2] + M > L + (IF storer[p].pc = "next" THEN 0 ELSE 1)
  BY DEF Waits, Busy
<1>9. rest = <<>> <=> K = 0
  BY <1>5
<1>10. ASSUME NEW x \in Positions, TaskAt(x).kind = "signal", x[1] = e
       PROVE  Waits(s, x) <=> Waits(storer[p], x)
  <2>1. x[2] \in 1 .. L /\ TaskAt(x) = work[x[2]]
    BY <1>5, <1>10, PositionsOneByOne DEF TaskAt
  <2>2. todo[1].kind # "signal" => x[2] # L + 1 - M
    <3>1. AsStored(todo[1], work[L - M + 1])
      <4>1. 1 \in 1 .. M
        BY <1>5
      <4> QED BY <1>5, <4>1
    <3>2. L - M + 1 = L + 1 - M
      BY <1>5
    <3> QED BY <1>10, <2>1, <3>1, <3>2 DEF AsStored
  <2>3. x[2] + K > L + 0 /\ K # 0 <=> x[2] + M > L + (IF storer[p].pc = "next" THEN 0 ELSE 1)
    <3>1. PICK i : i = x[2]
      OBVIOUS
    <3>2. /\ i \in 1 .. L /\ (todo[1].kind # "signal" => i # L + 1 - M)
          /\ L \in Nat /\ M \in Nat /\ K \in Nat /\ 1 <= M /\ M <= L
      BY <1>5, <2>1, <2>2, <3>1
    <3> HIDE DEF L, M, K
    <3> QED BY <1>6, <3>1, <3>2
  <2> HIDE DEF L, M, K, work, todo, e
  <2> QED BY <1>7, <1>8, <1>9, <1>10, <2>3
<1>11. \A x \in Positions : TaskAt(x).kind = "signal" => (Waits(s, x) <=> Waits(storer[p], x))
  BY <1>7, <1>8, <1>10
<1>12. s.pc # "idle" \/ s = Idle
  BY <1>4
<1>13. Alone' /\ AtWork = storer[p] /\ AtWork' = s /\ Begun' = Begun
  BY <1>2, <1>11, <1>12, BegunStays
<1>14. s.pc \in {"idle", "next"}
  BY <1>4 DEF Idle
<1>15. PlansFit(AtWork)'
  BY <1>13, <1>14, NobodyCounts
<1> QED BY <1>13, <1>14, <1>15 DEF EpisodesGrow

\* Where nobody writes before or after and the tables stay, so does what is final.
LEMMA NobodyWrites ==
  ASSUME ~IsWriting(AtWork), ~IsWriting(AtWork'), UNCHANGED <<claim, evidence>>
  PROVE  FinalsStay /\ InPlace(claim', AtWork')
<1>1. FinalsStay
  BY DEF FinalsStay, Final, FinalIn, Standing, Coming, Awaits
<1>2. InPlace(claim', AtWork')
  BY DEF InPlace
<1> QED BY <1>1, <1>2

\* After the search document comes the next task.
LEMMA IndexClaimTakesTurn ==
  ASSUME MemoryInv, ProvenInv, TurnsInv, disturbed = 0, NEW p \in Storers, IndexClaim(p)
  PROVE  TurnsInv'
<1>1. /\ Busy(p) /\ storer[p].pc = "index" /\ indexed' = indexed \cup {storer[p].id}
      /\ Proceed(p, Tail(storer[p].todo))
      /\ UNCHANGED <<episode, claim, evidence, disturbed>>
  BY DEF IndexClaim, Busy
<1>2. MemoryInv' /\ TablesOK'
  BY StoreKeepsTypes DEF Store, MemoryInv
<1>3. /\ Tail(storer[p].todo) \in Seq(WorkTasks)
      /\ Len(Tail(storer[p].todo)) = Len(storer[p].todo) - 1
  BY <1>1, StorerAtWork, TailOfTasks
<1>4. Alone
  BY DEF TurnsInv
<1>5. /\ Alone' /\ AtWork = storer[p] /\ EpisodesGrow /\ PlansFit(AtWork)'
      /\ AtWork'.pc \in {"idle", "next"} /\ Begun' = Begun
  BY <1>1, <1>3, <1>4, ProceedBegins
<1>6. FinalsStay /\ InPlace(claim', AtWork')
  BY <1>1, <1>5, NobodyWrites DEF IsWriting
<1>7. StillHeld
  BY <1>1, <1>5 DEF StillHeld, HeldBy
<1> QED BY <1>2, <1>5, <1>6, <1>7, StayingFinal

\* A promotion goes ahead, or is passed over.
LEMMA PromoteTakesTurn ==
  ASSUME MemoryInv, ProvenInv, TurnsInv, disturbed = 0, NEW p \in Storers, Promote(p)
  PROVE  TurnsInv'
<1> DEFINE todo == storer[p].todo
           h == [Head(todo) EXCEPT !.kind = "signal"]
<1>1. /\ Busy(p) /\ storer[p].pc = "next" /\ Head(todo).kind = "promote"
      /\ UNCHANGED <<episode, claim, evidence, indexed, disturbed>>
      /\ Proceed(p, Tail(todo)) \/ Proceed(p, <<h>> \o Tail(todo))
  BY DEF Promote, AtTask, Busy
<1>2. MemoryInv' /\ TablesOK'
  BY StoreKeepsTypes DEF Store, MemoryInv
<1>3. /\ Tail(todo) \in Seq(WorkTasks) /\ Len(Tail(todo)) = Len(todo) - 1 /\ Len(todo) \in Nat
      /\ Head(todo) \in WorkTasks
  BY <1>1, StorerAtWork, TailOfTasks
<1>4. <<h>> \o Tail(todo) \in Seq(WorkTasks) /\ Len(<<h>> \o Tail(todo)) = Len(todo)
  <2>1. h \in WorkTasks
    BY <1>1, <1>3 DEF WorkTasks
  <2>2. <<h>> \in Seq(WorkTasks) /\ Len(<<h>>) = 1
    BY <2>1
  <2> HIDE DEF h, todo
  <2>3. <<h>> \o Tail(todo) \in Seq(WorkTasks)
    BY <1>3, <2>2
  <2>4. Len(<<h>> \o Tail(todo)) = Len(<<h>>) + Len(Tail(todo))
    BY <1>3, <2>2
  <2> QED BY <1>3, <2>2, <2>3, <2>4
<1>5. Alone
  BY DEF TurnsInv
<1>6. /\ Alone' /\ AtWork = storer[p] /\ EpisodesGrow /\ PlansFit(AtWork)'
      /\ AtWork'.pc \in {"idle", "next"} /\ Begun' = Begun
  <2>1. CASE Proceed(p, Tail(todo))
    BY <1>1, <1>3, <1>5, <2>1, ProceedBegins
  <2>2. CASE Proceed(p, <<h>> \o Tail(todo))
    <3>1. PICK rest : rest = <<h>> \o Tail(todo)
      OBVIOUS
    <3>2. rest \in Seq(WorkTasks) /\ Len(rest) = Len(storer[p].todo) /\ Proceed(p, rest)
      BY <1>4, <2>2, <3>1
    <3> HIDE DEF todo, h
    <3> QED BY <1>1, <1>5, <3>2, ProceedBegins
  <2> QED BY <1>1, <2>1, <2>2
<1>7. FinalsStay /\ InPlace(claim', AtWork')
  BY <1>1, <1>6, NobodyWrites DEF IsWriting
<1>8. StillHeld
  BY <1>1, <1>6 DEF StillHeld, HeldBy
<1> QED BY <1>2, <1>6, <1>7, <1>8, StayingFinal

PositionsListed ==
  \A s : s \in Positions <=> /\ s = <<s[1], s[2]>> /\ s[1] \in DOMAIN episode
                             /\ s[2] \in DOMAIN episode[s[1]].work

\* Positions after a step, one by one.
LEMMA PositionsAfter ==
  \A s : s \in Positions' <=> /\ s = <<s[1], s[2]>> /\ s[1] \in DOMAIN episode'
                              /\ s[2] \in DOMAIN episode'[s[1]].work
<1>1. PositionsListed
  BY PositionsOneByOne DEF PositionsListed
<1>2. PositionsListed'
  BY <1>1, PTL
<1> QED BY <1>2 DEF PositionsListed

\* An episode is stored while nobody is at work: its signals are all to come.
LEMMA StoreEpisodeTakesTurn ==
  ASSUME MemoryInv, ProvenInv, TurnsInv, disturbed = 0, NEW p \in Storers,
         NEW r \in WorkRequests, StoreEpisode(p, r, FALSE), \A q \in Storers : ~Busy(q)
  PROVE  TurnsInv'
<1> DEFINE e == Len(episode) + 1
<1>1. PICK s : s = [Idle EXCEPT !.pc = "next", !.event = e, !.todo = Work(r, e)]
  OBVIOUS
<1>2. storer' = [storer EXCEPT ![p] = s] /\ UNCHANGED <<claim, evidence, indexed>>
  BY <1>1 DEF StoreEpisode
<1>3. TablesOK'
  BY StoreEpisodeKeepsTypes DEF MemoryInv
<1>4. /\ DOMAIN episode = 1 .. Len(episode) /\ Len(episode) \in Nat
      /\ DOMAIN episode' = DOMAIN episode \cup {e}
      /\ \A d \in DOMAIN episode : episode'[d] = episode[d]
      /\ episode'[e] = EpisodeRow(r, e)
  BY EpisodeIsAppended
<1>5. EpisodesGrow
  BY <1>4 DEF EpisodesGrow
<1>6. AtWork = Idle
  BY DEF AtWork
<1>7. Alone' /\ AtWork' = s
  <2>1. Alone /\ StorersOK
    BY DEF TurnsInv, MemoryInv
  <2>2. s.pc # "idle"
    BY <1>1 DEF Idle
  <2> QED BY <1>2, <2>1, <2>2, AloneStays
<1>8. ASSUME NEW x \in Positions', x[1] = e PROVE Waits(s, x)'
  <2>1. x[2] \in DOMAIN episode'[e].work
    BY <1>8, PositionsAfter
  <2>2. episode'[e].work = Work(r, e)
    BY <1>4 DEF EpisodeRow
  <2>3. Work(r, e) \in Seq(WorkTasks)
    BY EpisodeIsAppended, WorkIsProper DEF ProperWork
  <2>4. PICK work : work = Work(r, e)
    OBVIOUS
  <2>5. x[2] \in 1 .. Len(work) /\ Len(work) \in Nat
    BY <2>1, <2>2, <2>3, <2>4
  <2>6. x[2] + Len(work) > Len(work) + 0
    BY <2>5
  <2>7. s.pc = "next" /\ s.event = e /\ s.todo = work
    BY <1>1, <2>4 DEF Idle
  <2> HIDE DEF e
  <2> QED BY <1>8, <2>2, <2>4, <2>6, <2>7 DEF Waits
<1>9. ASSUME NEW x \in Positions PROVE ~Waits(s, x)' /\ ~Waits(AtWork, x) /\ x[1] # e
  <2>1. x[1] # e
    BY <1>4, PositionsOneByOne
  <2>2. s.event = e
    BY <1>1 DEF Idle
  <2> QED BY <1>6, <2>1, <2>2 DEF Waits, Idle
<1>10. \A x \in Positions' : x \in Positions \/ x[1] = e
  BY <1>4, PositionsAfter, PositionsOneByOne
<1>11. Begun' = Begun
  <2>1. \A x : Waits(AtWork, x)' <=> Waits(s, x)'
    BY <1>7 DEF Waits
  <2>2. Positions \subseteq Positions' /\ \A x \in Positions : TaskAt(x)' = TaskAt(x)
    BY <1>5, PositionsGrow DEF TaskAt
  <2> QED BY <1>8, <1>9, <1>10, <2>1, <2>2 DEF Begun
<1>12. FinalsStay /\ InPlace(claim', AtWork')
  <2>1. ~IsWriting(AtWork) /\ ~IsWriting(AtWork')
    BY <1>1, <1>6, <1>7 DEF IsWriting, Idle
  <2> QED BY <1>2, <2>1, NobodyWrites
<1>13. StillHeld
  BY <1>2, <1>6 DEF StillHeld, HeldBy, Idle
<1>14. PlansFit(AtWork)'
  BY <1>1, <1>7, NobodyCounts DEF Idle
<1> QED BY <1>3, <1>5, <1>7, <1>11, <1>12, <1>13, <1>14, StayingFinal

\* While the claims stay, so does what a signal makes of them.
LEMMA MergeStays ==
  ASSUME UNCHANGED <<claim, evidence>>, NEW t, NEW id, NEW shared
  PROVE  Merge(t, id, shared)' = Merge(t, id, shared)
BY DEF Merge, NewRow, Aligned, Listed, Contradicted, Defeated, Overcome, Settled,
       MergedEvidence, Superseding

\* And what is planned fits as it did.
LEMMA PlansStillFit ==
  ASSUME UNCHANGED <<claim, evidence>>, AtWork' = AtWork, PlansFit(AtWork)
  PROVE  PlansFit(AtWork)'
<1>1. PICK s : s = AtWork
  OBVIOUS
<1>2. \A t, id, shared : Merge(t, id, shared)' = Merge(t, id, shared)
  BY MergeStays
<1> QED BY <1>1, <1>2 DEF PlansFit

\* Nothing happens to the memory.
LEMMA StayingTakesTurn ==
  ASSUME MemoryInv, ProvenInv, TurnsInv, disturbed = 0, MemoryStays
  PROVE  TurnsInv'
<1>1. UNCHANGED <<episode, claim, evidence, indexed, storer>>
  BY DEF MemoryStays
<1>2. AtWork' = AtWork
  BY <1>1 DEF AtWork, Busy
<1>3. TablesOK'
  BY MemoryInvStep DEF MemoryInv
<1>4. Alone' /\ InPlace(claim', AtWork')
  BY <1>1, <1>2 DEF TurnsInv, Alone, Busy
<1>5. FinalsStay
  BY <1>1, <1>2 DEF FinalsStay, Final
<1>6. Begun' = Begun
  BY <1>1, <1>2 DEF Begun, Positions, TaskAt, Waits
<1>7. StillHeld /\ EpisodesGrow
  BY <1>1, <1>2 DEF StillHeld, EpisodesGrow
<1>8. PlansFit(AtWork)'
  BY <1>1, <1>2, PlansStillFit DEF TurnsInv
<1> QED BY <1>3, <1>4, <1>5, <1>6, <1>7, <1>8, StayingFinal

\* What is standing and what is coming is final.
LEMMA FinalInParts ==
  ASSUME NEW s, NEW t, AtWork = s, AtWork' = t,
         \A c, E : Standing(claim', evidence', t, c, E) <=> Standing(claim, evidence, s, c, E),
         \A c, E : Coming(evidence', t, c, E) <=> Coming(evidence, s, c, E)
  PROVE  FinalsStay
<1>1. PICK claims : claims = claim'
  OBVIOUS
<1>2. PICK known : known = evidence'
  OBVIOUS
<1>3. \A c, E : Final(c, E) <=> Standing(claim, evidence, s, c, E) \/ Coming(evidence, s, c, E)
  BY DEF Final, FinalIn
<1>4. \A c, E : Final(c, E)' <=> Standing(claims, known, t, c, E) \/ Coming(known, t, c, E)
  BY <1>1, <1>2 DEF Final, FinalIn
<1> QED BY <1>1, <1>2, <1>3, <1>4 DEF FinalsStay

\* A row that was coming is in the table.
LEMMA WriteRowTakesTurn ==
  ASSUME MemoryInv, ProvenInv, TurnsInv, disturbed = 0, NEW p \in Storers, WriteRow(p)
  PROVE  TurnsInv'
<1>1. PICK w : w = storer[p]
  OBVIOUS
<1>2. PICK s : s = [w EXCEPT !.pc = "clear"]
  OBVIOUS
<1>3. PICK row : row = Current(p).row
  OBVIOUS
<1>4. /\ w.pc = "row" /\ storer' = [storer EXCEPT ![p] = s]
      /\ claim' = <<row>> \o Without(row.id) /\ evidence' = Inserted(evidence, row.id, {})
      /\ UNCHANGED <<episode, indexed, disturbed>>
  <2>1. w.pc = "row" /\ storer' = [storer EXCEPT ![p].pc = "clear"]
    BY <1>1 DEF WriteRow
  <2>2. storer' = [storer EXCEPT ![p] = s]
    BY <1>1, <1>2, <2>1
  <2> QED BY <1>3, <2>1, <2>2 DEF WriteRow
<1>5. /\ Busy(p) /\ Upcoming(p) \in DOMAIN w.writes /\ row \in Claims
      /\ row = w.writes[Upcoming(p)].row /\ Upcoming(p) = Min(DOMAIN w.writes)
      /\ DOMAIN w = {"pc", "event", "todo", "plans", "writes", "id"}
  <2>1. Busy(p)
    BY <1>1, <1>4 DEF Busy
  <2> QED BY <1>1, <1>3, <1>4, <2>1, CurrentWrite, StorerAtWork DEF Upcoming
<1>6. /\ s.pc = "clear" /\ s.event = w.event /\ s.id = w.id /\ s.todo = w.todo
      /\ s.writes = w.writes
  BY <1>2, <1>5
<1>7. TablesOK /\ TablesOK'
  BY StoreKeepsTypes DEF Store, MemoryInv
<1>8. ComesFirst(row, claim')
  <2>1. PICK all : all = claim'
    OBVIOUS
  <2> QED BY <1>4, <1>5, <1>7, <2>1, RowComesFirst
<1>9. /\ Alone' /\ AtWork = w /\ AtWork' = s /\ EpisodesGrow /\ Begun' = Begun
      /\ StillHeld /\ PlansFit(AtWork)'
  BY <1>1, <1>4, <1>6, WritingGoesOn DEF TurnsInv
<1>10. InPlace(claim', s)
  <2>1. InPlace(claim, w)
    BY <1>9 DEF TurnsInv
  <2>2. 1 \in DOMAIN claim' /\ claim'[1] = s.writes[Min(DOMAIN s.writes)].row
    BY <1>5, <1>6, <1>8 DEF ComesFirst
  <2>3. \A m, n \in DOMAIN s.writes : s.writes[m].row.id = s.writes[n].row.id => m = n
    BY <1>4, <1>6, <2>1 DEF InPlace, IsWriting
  <2> QED BY <2>2, <2>3 DEF InPlace
<1>11. \A id : Awaits(s, id) <=> Awaits(w, id)
  BY <1>4, <1>6 DEF Awaits, IsWriting
<1>12. Awaits(w, row.id)
  BY <1>4, <1>5 DEF Awaits, IsWriting
<1>13. \A c, E : Coming(evidence', s, c, E) <=> Coming(evidence, w, c, E)
  BY <1>4, <1>6 DEF Coming, IsWriting
<1>14. ASSUME NEW c, c.id # row.id
       PROVE  /\ (\E n \in DOMAIN claim' : claim'[n] = c) <=> \E n \in DOMAIN claim : claim[n] = c
              /\ (\E n \in DOMAIN claim : claim[n] = c) => evidence'[c.id] = evidence[c.id]
  <2>1. (\E n \in DOMAIN claim' : claim'[n] = c) <=> \E n \in DOMAIN claim : claim[n] = c
    BY <1>8, <1>14 DEF ComesFirst
  <2>2. ASSUME NEW n \in DOMAIN claim, claim[n] = c PROVE evidence'[c.id] = evidence[c.id]
    <3>1. c.id \in DOMAIN evidence
      BY <1>7, <2>2 DEF TablesOK
    <3> QED BY <1>4, <3>1 DEF Inserted
  <2> QED BY <2>1, <2>2
<1>15. \A c, E : Standing(claim', evidence', s, c, E) <=> Standing(claim, evidence, w, c, E)
  BY <1>11, <1>12, <1>14 DEF Standing
<1>16. FinalsStay
  BY <1>9, <1>13, <1>15, FinalInParts
<1> QED BY <1>7, <1>9, <1>10, <1>16, StayingFinal

\* Evidence that is cleared is coming.
LEMMA ClearEvidenceTakesTurn ==
  ASSUME MemoryInv, ProvenInv, TurnsInv, disturbed = 0, NEW p \in Storers, ClearEvidence(p)
  PROVE  TurnsInv'
<1>1. PICK w : w = storer[p]
  OBVIOUS
<1>2. PICK s : s = [w EXCEPT !.pc = "insert"]
  OBVIOUS
<1>3. PICK row : row = Current(p).row
  OBVIOUS
<1>4. /\ w.pc = "clear" /\ storer' = [storer EXCEPT ![p] = s]
      /\ evidence' = [evidence EXCEPT ![row.id] = {}]
      /\ UNCHANGED <<episode, claim, indexed, disturbed>>
  <2>1. w.pc = "clear" /\ storer' = [storer EXCEPT ![p].pc = "insert"]
    BY <1>1 DEF ClearEvidence
  <2>2. storer' = [storer EXCEPT ![p] = s]
    BY <1>1, <1>2, <2>1
  <2> QED BY <1>3, <2>1, <2>2 DEF ClearEvidence
<1>5. /\ Busy(p) /\ Upcoming(p) \in DOMAIN w.writes
      /\ row = w.writes[Upcoming(p)].row /\ Upcoming(p) = Min(DOMAIN w.writes)
      /\ DOMAIN w = {"pc", "event", "todo", "plans", "writes", "id"}
  <2>1. Busy(p)
    BY <1>1, <1>4 DEF Busy
  <2> QED BY <1>1, <1>3, <1>4, <2>1, CurrentWrite, StorerAtWork DEF Upcoming
<1>6. /\ s.pc = "insert" /\ s.event = w.event /\ s.id = w.id /\ s.todo = w.todo
      /\ s.writes = w.writes
  BY <1>2, <1>5
<1>7. TablesOK /\ TablesOK'
  BY StoreKeepsTypes DEF Store, MemoryInv
<1>8. /\ Alone' /\ AtWork = w /\ AtWork' = s /\ EpisodesGrow /\ Begun' = Begun
      /\ StillHeld /\ PlansFit(AtWork)'
  BY <1>1, <1>4, <1>6, WritingGoesOn DEF TurnsInv
<1>9. InPlace(claim, w)
  BY <1>8 DEF TurnsInv
<1>10. InPlace(claim', s)
  BY <1>4, <1>6, <1>9 DEF InPlace, IsWriting
<1>11. row.id \in DOMAIN evidence
  BY <1>4, <1>5, <1>7, <1>9 DEF InPlace, IsWriting, TablesOK
<1>12. \A c, E : Coming(evidence', s, c, E) <=> Coming(evidence, w, c, E)
  <2> TAKE c, E
  <2>1. \A m \in DOMAIN w.writes : w.writes[m].row = c /\ m = Min(DOMAIN w.writes) =>
          evidence'[c.id] = {}
    BY <1>4, <1>5, <1>11
  <2>2. Coming(evidence', s, c, E) <=>
          \E m \in DOMAIN w.writes :
            /\ w.writes[m].row = c
            /\ E = w.writes[m].refs
                     \cup (IF m = Min(DOMAIN w.writes) THEN evidence'[c.id] ELSE {})
    BY <1>6 DEF Coming, IsWriting
  <2>3. Coming(evidence, w, c, E) <=>
          \E m \in DOMAIN w.writes : w.writes[m].row = c /\ E = w.writes[m].refs \cup {}
    BY <1>4 DEF Coming, IsWriting
  <2> QED BY <2>1, <2>2, <2>3
<1>13. \A id : Awaits(s, id) <=> Awaits(w, id)
  BY <1>4, <1>6 DEF Awaits, IsWriting
<1>14. Awaits(w, row.id)
  BY <1>4, <1>5 DEF Awaits, IsWriting
<1>15. ASSUME NEW c, c.id # row.id PROVE evidence'[c.id] = evidence[c.id]
  BY <1>4, <1>15
<1>16. \A c, E : Standing(claim', evidence', s, c, E) <=> Standing(claim, evidence, w, c, E)
  BY <1>4, <1>13, <1>14, <1>15 DEF Standing
<1>17. FinalsStay
  BY <1>8, <1>12, <1>16, FinalInParts
<1> QED BY <1>7, <1>8, <1>10, <1>17, StayingFinal

\* A row of evidence that was coming is in the table.
LEMMA InsertEvidenceTakesTurn ==
  ASSUME MemoryInv, ProvenInv, TurnsInv, disturbed = 0, NEW p \in Storers,
         NEW ref \in DOMAIN episode \cup ArtifactRefs, InsertEvidence(p, ref)
  PROVE  TurnsInv'
<1>1. PICK w : w = storer[p]
  OBVIOUS
<1>2. PICK u : u = Upcoming(p)
  OBVIOUS
<1>3. PICK left : left = [w.writes[u] EXCEPT !.refs = @ \ {ref}]
  OBVIOUS
<1>4. PICK writes : writes = [w.writes EXCEPT ![u] = left]
  OBVIOUS
<1>5. PICK s : s = [w EXCEPT !.writes = writes]
  OBVIOUS
<1>6. PICK row : row = Current(p).row
  OBVIOUS
<1>7. /\ w.pc = "insert" /\ ref \in Current(p).refs
      /\ evidence' = [evidence EXCEPT ![row.id] = @ \cup {ref}]
      /\ storer' = [storer EXCEPT ![p].writes[u].refs = @ \ {ref}]
      /\ UNCHANGED <<episode, claim, indexed, disturbed>>
  BY <1>1, <1>2, <1>6 DEF InsertEvidence
<1>8. /\ Busy(p) /\ u \in DOMAIN w.writes
      /\ row = w.writes[u].row /\ u = Min(DOMAIN w.writes) /\ ref \in w.writes[u].refs
      /\ w.writes[u] \in [row : Claims, refs : SUBSET (DOMAIN episode \cup ArtifactRefs)]
      /\ DOMAIN w = {"pc", "event", "todo", "plans", "writes", "id"}
  <2>1. Busy(p)
    BY <1>1, <1>7 DEF Busy
  <2>2. w.pc \in {"row", "clear", "insert"}
    BY <1>7
  <2> QED BY <1>1, <1>2, <1>6, <1>7, <2>1, <2>2, CurrentWrite, StorerAtWork DEF Upcoming
<1>9. storer' = [storer EXCEPT ![p] = s]
  <2>1. [w EXCEPT !.writes[u].refs = @ \ {ref}] = s
    BY <1>3, <1>4, <1>5
  <2> QED BY <1>1, <1>7, <2>1
<1>10. /\ s.pc = "insert" /\ s.event = w.event /\ s.id = w.id /\ s.todo = w.todo
       /\ s.writes = writes
  BY <1>5, <1>7, <1>8
<1>11. /\ DOMAIN writes = DOMAIN w.writes
       /\ \A n \in DOMAIN writes : writes[n].row = w.writes[n].row
       /\ \A n \in DOMAIN writes : n # u => writes[n].refs = w.writes[n].refs
       /\ writes[u].refs = w.writes[u].refs \ {ref}
  <2>1. left.row = w.writes[u].row /\ left.refs = w.writes[u].refs \ {ref}
    BY <1>3, <1>8
  <2> QED BY <1>4, <1>8, <2>1
<1>12. TablesOK /\ TablesOK'
  BY StoreKeepsTypes DEF Store, MemoryInv
<1>13. /\ Alone' /\ AtWork = w /\ AtWork' = s /\ EpisodesGrow /\ Begun' = Begun
       /\ StillHeld /\ PlansFit(AtWork)'
  BY <1>1, <1>7, <1>9, <1>10, WritingGoesOn DEF TurnsInv
<1>14. InPlace(claim, w)
  BY <1>13 DEF TurnsInv
<1>15. InPlace(claim', s)
  BY <1>7, <1>8, <1>10, <1>11, <1>14 DEF InPlace, IsWriting
<1>16. row.id \in DOMAIN evidence
  BY <1>7, <1>8, <1>12, <1>14 DEF InPlace, IsWriting, TablesOK
<1>17. \A c, E : Coming(evidence', s, c, E) <=> Coming(evidence, w, c, E)
  <2> TAKE c, E
  <2>1. Coming(evidence', s, c, E) <=>
          \E m \in DOMAIN w.writes :
            /\ w.writes[m].row = c
            /\ E = writes[m].refs \cup (IF m = u THEN evidence'[c.id] ELSE {})
    BY <1>8, <1>10, <1>11 DEF Coming, IsWriting
  <2>2. Coming(evidence, w, c, E) <=>
          \E m \in DOMAIN w.writes :
            /\ w.writes[m].row = c
            /\ E = w.writes[m].refs \cup (IF m = u THEN evidence[c.id] ELSE {})
    BY <1>7, <1>8 DEF Coming, IsWriting
  <2>3. c = row => writes[u].refs \cup evidence'[c.id] = w.writes[u].refs \cup evidence[c.id]
    BY <1>7, <1>8, <1>11, <1>16
  <2> QED BY <1>8, <1>11, <2>1, <2>2, <2>3
<1>18. \A id : Awaits(s, id) <=> Awaits(w, id)
  BY <1>7, <1>10, <1>11 DEF Awaits, IsWriting
<1>19. Awaits(w, row.id)
  BY <1>7, <1>8 DEF Awaits, IsWriting
<1>20. ASSUME NEW c, c.id # row.id PROVE evidence'[c.id] = evidence[c.id]
  BY <1>7, <1>20
<1>21. \A c, E : Standing(claim', evidence', s, c, E) <=> Standing(claim, evidence, w, c, E)
  BY <1>7, <1>18, <1>19, <1>20 DEF Standing
<1>22. FinalsStay
  BY <1>13, <1>17, <1>21, FinalInParts
<1> QED BY <1>12, <1>13, <1>15, <1>22, StayingFinal

\* s has written what w was about to, and has the others still to write.
HasWritten(w, u, s) ==
  /\ s.pc # "insert"
  /\ IsWriting(s) => /\ DOMAIN s.writes = DOMAIN w.writes \ {u}
                     /\ \A n \in DOMAIN s.writes : s.writes[n] = w.writes[n]
  /\ ~IsWriting(s) => DOMAIN w.writes = {u}

\* A row with its evidence is final as it is.
LEMMA WrittenIsFinal ==
  ASSUME TablesOK, NEW w, NEW s, AtWork = w, AtWork' = s, InPlace(claim, w),
         w.pc = "insert", NEW u \in DOMAIN w.writes, u = Min(DOMAIN w.writes),
         w.writes[u].refs = {}, UNCHANGED <<claim, evidence>>, HasWritten(w, u, s),
         s.pc # "clear"
  PROVE  FinalsStay /\ InPlace(claim', AtWork')
<1>1. PICK row : row = w.writes[u].row
  OBVIOUS
<1>2. /\ \A m, n \in DOMAIN w.writes : w.writes[m].row.id = w.writes[n].row.id => m = n
      /\ \E n \in DOMAIN claim : claim[n] = row
  BY <1>1 DEF InPlace, IsWriting
<1>3. \A id : Awaits(w, id) <=> id = row.id \/ Awaits(s, id)
  BY <1>1 DEF Awaits, IsWriting, HasWritten
<1>4. ~Awaits(s, row.id)
  BY <1>1, <1>2 DEF Awaits, HasWritten
<1>5. \A n \in DOMAIN claim : claim[n].id = row.id => claim[n] = row
  BY <1>2 DEF TablesOK
<1>6. \A c, E : Coming(evidence, s, c, E) <=>
        \E m \in DOMAIN w.writes : m # u /\ w.writes[m].row = c /\ E = w.writes[m].refs
  <2>1. CASE IsWriting(s)
    <3>1. /\ DOMAIN s.writes = DOMAIN w.writes \ {u} /\ s.pc # "insert"
          /\ \A n \in DOMAIN s.writes : s.writes[n] = w.writes[n]
      BY <2>1 DEF HasWritten
    <3> QED BY <2>1, <3>1 DEF Coming
  <2>2. CASE ~IsWriting(s)
    BY <2>2 DEF Coming, HasWritten
  <2> QED BY <2>1, <2>2
<1>7. \A c, E : Coming(evidence, w, c, E) <=>
        \E m \in DOMAIN w.writes :
          /\ w.writes[m].row = c
          /\ E = w.writes[m].refs \cup (IF m = u THEN evidence[c.id] ELSE {})
  BY DEF Coming, IsWriting
<1>8. \A c, E : Coming(evidence, w, c, E) <=>
        (c = row /\ E = evidence[c.id]) \/ Coming(evidence, s, c, E)
  <2> TAKE c, E
  <2>1. (\E m \in DOMAIN w.writes :
          /\ w.writes[m].row = c
          /\ E = w.writes[m].refs \cup (IF m = u THEN evidence[c.id] ELSE {}))
        <=> \/ c = row /\ E = evidence[c.id]
            \/ \E m \in DOMAIN w.writes : m # u /\ w.writes[m].row = c /\ E = w.writes[m].refs
    BY <1>1
  <2> QED BY <1>6, <1>7, <2>1
<1>9. \A c, E : Standing(claim, evidence, s, c, E) <=>
        (c = row /\ E = evidence[c.id]) \/ Standing(claim, evidence, w, c, E)
  BY <1>2, <1>3, <1>4, <1>5 DEF Standing
<1>10. FinalsStay
  <2>1. \A c, E : Final(c, E) <=> Standing(claim, evidence, w, c, E) \/ Coming(evidence, w, c, E)
    BY DEF Final, FinalIn
  <2>2. \A c, E : Final(c, E)' <=> Standing(claim, evidence, s, c, E) \/ Coming(evidence, s, c, E)
    BY DEF Final, FinalIn
  <2> QED BY <1>8, <1>9, <2>1, <2>2 DEF FinalsStay
<1>11. InPlace(claim, s)
  BY <1>2 DEF InPlace, HasWritten, IsWriting
<1> QED BY <1>10, <1>11

\* A claim is returned.
LEMMA ReturnClaimTakesTurn ==
  ASSUME MemoryInv, ProvenInv, TurnsInv, disturbed = 0, NEW p \in Storers, ReturnClaim(p)
  PROVE  TurnsInv'
<1>1. PICK w : w = storer[p]
  OBVIOUS
<1>2. PICK u : u = Upcoming(p)
  OBVIOUS
<1>3. PICK rest : rest = DOMAIN w.writes \ {u}
  OBVIOUS
<1>4. /\ w.pc = "insert" /\ w.writes[u].refs = {}
      /\ UNCHANGED <<episode, claim, evidence, indexed, disturbed>>
  BY <1>1, <1>2 DEF ReturnClaim, Current
<1>5. /\ Busy(p) /\ u \in DOMAIN w.writes /\ u = Min(DOMAIN w.writes)
      /\ DOMAIN w = {"pc", "event", "todo", "plans", "writes", "id"}
  <2>1. Busy(p)
    BY <1>1, <1>4 DEF Busy
  <2>2. w.pc \in {"row", "clear", "insert"}
    BY <1>4
  <2> QED BY <1>1, <1>2, <2>1, <2>2, CurrentWrite, StorerAtWork DEF Upcoming
<1>6. TablesOK /\ TablesOK'
  BY StoreKeepsTypes DEF Store, MemoryInv
<1>7. Alone
  BY DEF TurnsInv
<1>8. AtWork = w /\ InPlace(claim, w)
  BY <1>1, <1>5, <1>7, BusyIsAtWork DEF TurnsInv
<1>9. CASE rest = {} /\ w.id = NoRef
  <2>1. Proceed(p, Tail(storer[p].todo))
    BY <1>1, <1>2, <1>3, <1>9 DEF ReturnClaim
  <2>2. /\ Tail(storer[p].todo) \in Seq(WorkTasks)
        /\ Len(Tail(storer[p].todo)) = Len(storer[p].todo) - 1
    BY <1>5, StorerAtWork, TailOfTasks
  <2>3. /\ Alone' /\ EpisodesGrow /\ AtWork'.pc \in {"idle", "next"} /\ Begun' = Begun
        /\ PlansFit(AtWork)'
    BY <1>1, <1>4, <1>5, <1>7, <2>1, <2>2, ProceedBegins
  <2>4. PICK s : s = AtWork'
    OBVIOUS
  <2>5. HasWritten(w, u, s)
    BY <1>3, <1>5, <1>9, <2>3, <2>4 DEF HasWritten, IsWriting
  <2>6. FinalsStay /\ InPlace(claim', AtWork')
    BY <1>4, <1>5, <1>6, <1>8, <2>3, <2>4, <2>5, WrittenIsFinal
  <2>7. StillHeld
    BY <1>4, <1>8, <1>9 DEF StillHeld, HeldBy
  <2> QED BY <1>6, <2>3, <2>6, <2>7, StayingFinal
<1>10. CASE ~(rest = {} /\ w.id = NoRef)
  <2>1. PICK todo : todo = WithReturned(p)
    OBVIOUS
  <2>2. PICK s : s = [w EXCEPT !.pc = IF rest = {} THEN "index" ELSE "row",
                               !.writes = [n \in rest |-> w.writes[n]], !.todo = todo]
    OBVIOUS
  <2>3. storer' = [storer EXCEPT ![p] = s]
    BY <1>1, <1>2, <1>3, <1>10, <2>1, <2>2 DEF ReturnClaim
  <2>4. /\ s.pc = (IF rest = {} THEN "index" ELSE "row") /\ s.event = w.event /\ s.id = w.id
        /\ s.writes = [n \in rest |-> w.writes[n]] /\ s.todo = todo
    BY <1>5, <2>2
  <2>5. Len(todo) = Len(w.todo)
    BY <1>1, <1>4, <2>1, ReturnedIsTyped
  <2>6. /\ Alone' /\ AtWork' = s /\ EpisodesGrow /\ Begun' = Begun /\ StillHeld
        /\ PlansFit(AtWork)'
    BY <1>1, <1>4, <1>7, <2>3, <2>4, <2>5, WritingGoesOn
  <2>7. HasWritten(w, u, s) /\ s.pc # "clear"
    BY <1>3, <1>5, <2>4 DEF HasWritten, IsWriting
  <2>8. FinalsStay /\ InPlace(claim', AtWork')
    BY <1>4, <1>5, <1>6, <1>8, <2>6, <2>7, WrittenIsFinal
  <2> QED BY <1>6, <2>6, <2>8, StayingFinal
<1> QED BY <1>9, <1>10

\* The task at hand, by its position.
AtHand(w) == <<w.event, Len(episode[w.event].work) + 1 - Len(w.todo)>>

\* A storer begins a task: it no longer waits.
LEMMA TaskBegins ==
  ASSUME MemoryInv, ProvenInv, Alone, NEW p \in Storers, NEW w, w = storer[p], w.pc = "next",
         NEW s, storer' = [storer EXCEPT ![p] = s], UNCHANGED <<episode, indexed>>,
         s.pc = "row" \/ s.pc = "count", s.event = w.event, s.todo = w.todo
  PROVE  /\ Alone' /\ AtWork = w /\ AtWork' = s /\ EpisodesGrow
         /\ Begun' = Begun \cup {x \in {AtHand(w)} : TaskAt(x).kind = "signal"}
         /\ AtHand(w) \in Positions \ Begun /\ AsStored(Head(w.todo), TaskAt(AtHand(w)))
         /\ StillHeld
<1> DEFINE work == episode[w.event].work
           L == Len(work)
           M == Len(w.todo)
           pos == AtHand(w)
<1>1. Busy(p)
  BY DEF Busy
<1>2. AtWork = w
  BY <1>1, BusyIsAtWork
<1>3. Alone' /\ AtWork' = s
  BY <1>1, AloneStays DEF MemoryInv
<1>4. Positions' = Positions /\ \A x : TaskAt(x)' = TaskAt(x)
  BY DEF Positions, TaskAt
<1>5. /\ L \in Nat /\ M \in Nat /\ 1 <= M /\ M <= L /\ w.event \in DOMAIN episode
      /\ DOMAIN work = 1 .. L /\ Head(w.todo) = w.todo[1]
      /\ \A n \in 1 .. M : AsStored(w.todo[n], work[L - M + n])
  <2>1. work \in Seq(WorkTasks)
    BY <1>1, TasksLeft
  <2>2. DOMAIN work = 1 .. L
    BY <2>1
  <2> QED BY <1>1, <2>2, TasksLeft, StorerAtWork
<1>6. pos = <<w.event, L + 1 - M>> /\ L + 1 - M \in 1 .. L
  <2>1. pos = <<w.event, L + 1 - M>>
    BY DEF AtHand
  <2>2. L + 1 - M \in 1 .. L
    <3>1. L \in Nat /\ M \in Nat /\ 1 <= M /\ M <= L
      BY <1>5
    <3> HIDE DEF L, M
    <3> QED BY <3>1
  <2> QED BY <2>1, <2>2
<1>7. pos \in Positions
  <2>1. pos = <<pos[1], pos[2]>> /\ pos[1] = w.event /\ pos[2] = L + 1 - M
    BY <1>6
  <2> HIDE DEF pos
  <2> QED BY <1>5, <1>6, <2>1, PositionsOneByOne
<1>8. AsStored(Head(w.todo), TaskAt(pos))
  <2>1. 1 \in 1 .. M /\ L - M + 1 = L + 1 - M
    BY <1>5
  <2>2. AsStored(w.todo[1], work[L + 1 - M])
    BY <1>5, <2>1
  <2>3. TaskAt(pos) = work[L + 1 - M]
    <3>1. PICK k : k = L + 1 - M
      OBVIOUS
    <3>2. pos[1] = w.event /\ pos[2] = k
      BY <1>6, <3>1
    <3> HIDE DEF pos
    <3> QED BY <3>1, <3>2 DEF TaskAt
  <2> QED BY <1>5, <2>2, <2>3
<1>9. \A x : Waits(w, x) <=> x[1] = w.event /\ x[2] + M > L + 0
  BY DEF Waits
<1>10. \A x : Waits(s, x) <=> x[1] = w.event /\ x[2] + M > L + 1
  BY DEF Waits
<1>11. ASSUME NEW x \in Positions PROVE Waits(w, x) <=> x = pos \/ Waits(s, x)
  <2>1. x = <<x[1], x[2]>> /\ (x[1] = w.event => x[2] \in 1 .. L)
    BY <1>5, PositionsOneByOne
  <2>2. PICK i : i = x[2]
    OBVIOUS
  <2>3. x = pos <=> x[1] = w.event /\ i = L + 1 - M
    <3>1. PICK k : k = L + 1 - M
      OBVIOUS
    <3>2. pos = <<w.event, k>> /\ x = <<x[1], i>>
      BY <1>6, <2>1, <2>2, <3>1
    <3>3. pos[1] = w.event /\ pos[2] = k
      BY <3>2
    <3> HIDE DEF pos, L, M
    <3> QED BY <2>2, <3>1, <3>2, <3>3
  <2>4. x[1] = w.event => (i + M > L + 0 <=> i = L + 1 - M \/ i + M > L + 1)
    <3>1. x[1] = w.event => i \in 1 .. L
      BY <2>1, <2>2
    <3>2. L \in Nat /\ M \in Nat
      BY <1>5
    <3> HIDE DEF L, M
    <3> QED BY <3>1, <3>2
  <2> HIDE DEF pos, L, M
  <2> QED BY <1>9, <1>10, <2>2, <2>3, <2>4
<1>12. ~Waits(s, pos)
  <2>1. pos[2] = L + 1 - M
    BY <1>6
  <2>2. ~((L + 1 - M) + M > L + 1)
    <3>1. L \in Nat /\ M \in Nat
      BY <1>5
    <3> HIDE DEF L, M
    <3> QED BY <3>1
  <2> HIDE DEF pos, L, M
  <2> QED BY <1>10, <2>1, <2>2
<1>13. \A x : Waits(AtWork, x)' <=> Waits(s, x)
  BY <1>3 DEF Waits
<1>14. Begun' = Begun \cup {x \in {pos} : TaskAt(x).kind = "signal"}
  <2> HIDE DEF pos
  <2> QED BY <1>2, <1>4, <1>7, <1>11, <1>12, <1>13 DEF Begun
<1>15. pos \notin Begun
  <2> HIDE DEF pos
  <2> QED BY <1>2, <1>7, <1>11 DEF Begun
<1>16. StillHeld
  BY <1>2 DEF StillHeld, HeldBy
<1> QED BY <1>2, <1>3, <1>7, <1>8, <1>14, <1>15, <1>16 DEF EpisodesGrow

\* What is final before and after a storer begins to write.
LEMMA PlannedIsFinal ==
  ASSUME NEW w, NEW s, AtWork = w, AtWork' = s, ~IsWriting(w), s.pc = "row",
         UNCHANGED <<claim, evidence>>
  PROVE  /\ \A c, E : Final(c, E) <=> (\E n \in DOMAIN claim : claim[n] = c) /\ E = evidence[c.id]
         /\ \A c, E : Final(c, E)' <=>
              \/ Final(c, E) /\ \A m \in DOMAIN s.writes : s.writes[m].row.id # c.id
              \/ \E m \in DOMAIN s.writes : s.writes[m].row = c /\ E = s.writes[m].refs
<1>1. \A c, E : Final(c, E) <=> (\E n \in DOMAIN claim : claim[n] = c) /\ E = evidence[c.id]
  BY DEF Final, FinalIn, Standing, Coming, IsWriting, Awaits
<1>2. \A c, E : Final(c, E)' <=> Standing(claim, evidence, s, c, E) \/ Coming(evidence, s, c, E)
  BY DEF Final, FinalIn
<1>3. \A c, E : Standing(claim, evidence, s, c, E) <=>
        Final(c, E) /\ \A m \in DOMAIN s.writes : s.writes[m].row.id # c.id
  BY <1>1 DEF Standing, Awaits, IsWriting
<1>4. \A c, E : Coming(evidence, s, c, E) <=>
        \E m \in DOMAIN s.writes : s.writes[m].row = c /\ E = s.writes[m].refs
  BY DEF Coming, IsWriting
<1> QED BY <1>1, <1>2, <1>3, <1>4

\* A claim that is superseded is so with its evidence.
LEMMA SupersededIsRecast ==
  ASSUME TablesOK, NEW n \in DOMAIN claim, NEW ref
  PROVE  /\ Recast(claim[n], Superseding(n, ref).row)
         /\ Superseding(n, ref).refs = evidence[claim[n].id]
         /\ Superseding(n, ref).row.id = claim[n].id
         /\ Superseding(n, ref).row.status = "superseded"
<1>1. PICK c : c = claim[n]
  OBVIOUS
<1>2. c \in Claims
  BY <1>1 DEF TablesOK
<1>3. PICK d : d = SupersededBy(c, ref)
  OBVIOUS
<1>4. /\ d.id = c.id /\ d.type = c.type /\ d.scope = c.scope /\ d.statement = c.statement
      /\ d.signals = c.signals /\ d.status = "superseded"
  BY <1>2, <1>3 DEF SupersededBy, Claims
<1>5. Superseding(n, ref).row = d /\ Superseding(n, ref).refs = evidence[c.id]
  BY <1>1, <1>3 DEF Superseding, Write
<1> QED BY <1>1, <1>4, <1>5 DEF Recast, SaysTheSame

\* Loops that are resolved stay what they are, superseded.
LEMMA PlanResolveTakesTurn ==
  ASSUME MemoryInv, ProvenInv, TurnsInv, disturbed = 0, NEW p \in Storers, PlanResolve(p)
  PROVE  TurnsInv'
<1>1. PICK w : w = storer[p]
  OBVIOUS
<1>2. PICK ref : ref = EventRef(w.event)
  OBVIOUS
<1>3. PICK D : D = StaleLoops(w.event, Head(w.todo).scope)
  OBVIOUS
<1>4. PICK writes : writes = [n \in D |-> Superseding(n, ref)]
  OBVIOUS
<1>5. /\ Busy(p) /\ w.pc = "next" /\ Head(w.todo).kind = "resolve" /\ Perform(p, writes, NoRef)
      /\ UNCHANGED <<episode, claim, evidence, indexed, disturbed>>
  BY <1>1, <1>2, <1>3, <1>4 DEF PlanResolve, AtTask, Busy
<1>6. TablesOK /\ TablesOK'
  BY StoreKeepsTypes DEF Store, MemoryInv
<1>7. Alone
  BY DEF TurnsInv
<1>8. D \subseteq DOMAIN claim /\ DOMAIN writes = D
  BY <1>3, <1>4 DEF StaleLoops, Listed
<1>9. CASE D = {}
  <2>1. Proceed(p, Tail(storer[p].todo))
    BY <1>5, <1>8, <1>9 DEF Perform
  <2>2. /\ Tail(storer[p].todo) \in Seq(WorkTasks)
        /\ Len(Tail(storer[p].todo)) = Len(storer[p].todo) - 1
    BY <1>5, StorerAtWork, TailOfTasks
  <2>3. /\ Alone' /\ AtWork = w /\ EpisodesGrow /\ PlansFit(AtWork)'
        /\ AtWork'.pc \in {"idle", "next"} /\ Begun' = Begun
    BY <1>1, <1>5, <1>7, <2>1, <2>2, ProceedBegins
  <2>4. FinalsStay /\ InPlace(claim', AtWork')
    BY <1>5, <2>3, NobodyWrites DEF IsWriting
  <2>5. StillHeld
    BY <1>5, <2>3 DEF StillHeld, HeldBy
  <2> QED BY <1>6, <2>3, <2>4, <2>5, StayingFinal
<1>10. CASE D # {}
  <2>1. PICK s : s = [w EXCEPT !.pc = "row", !.plans = <<>>, !.writes = writes, !.id = NoRef]
    OBVIOUS
  <2>2. storer' = [storer EXCEPT ![p] = s]
    BY <1>1, <1>5, <1>8, <1>10, <2>1 DEF Perform
  <2>3. s.pc = "row" /\ s.event = w.event /\ s.todo = w.todo /\ s.writes = writes
    BY <1>1, <1>5, <2>1, StorerAtWork
  <2>4. /\ Alone' /\ AtWork = w /\ AtWork' = s /\ EpisodesGrow /\ StillHeld
        /\ Begun' = Begun \cup {x \in {AtHand(w)} : TaskAt(x).kind = "signal"}
        /\ AsStored(Head(w.todo), TaskAt(AtHand(w)))
    BY <1>1, <1>5, <1>7, <2>2, <2>3, TaskBegins
  <2>5. Begun' = Begun /\ ~IsWriting(w) /\ PlansFit(AtWork)'
    BY <1>5, <2>3, <2>4, NobodyCounts DEF AsStored, IsWriting
  <2>6. /\ \A c, E : Final(c, E) <=> (\E n \in DOMAIN claim : claim[n] = c) /\ E = evidence[c.id]
        /\ \A c, E : Final(c, E)' <=>
             \/ Final(c, E) /\ \A m \in DOMAIN s.writes : s.writes[m].row.id # c.id
             \/ \E m \in DOMAIN s.writes : s.writes[m].row = c /\ E = s.writes[m].refs
    BY <1>5, <2>3, <2>4, <2>5, PlannedIsFinal
  <2>7. \A n \in D : /\ Recast(claim[n], writes[n].row) /\ writes[n].row.id = claim[n].id
                     /\ writes[n].refs = evidence[claim[n].id]
    BY <1>4, <1>6, <1>8, SupersededIsRecast
  <2>8. InPlace(claim', AtWork')
    <3>1. \A m, n \in D : writes[m].row.id = writes[n].row.id => m = n
      BY <1>6, <1>8, <2>7 DEF TablesOK
    <3> QED BY <1>8, <2>3, <2>4, <3>1 DEF InPlace
  <2>9. \A c : Recast(c, c)
    BY DEF Recast, SaysTheSame
  <2>10. NothingElse(FALSE, NoRef, {})
    <3> SUFFICES ASSUME NEW d, NEW F, Final(d, F)' PROVE \E c : Final(c, F) /\ Recast(c, d)
      BY DEF NothingElse, ComesOf
    <3>1. CASE Final(d, F)
      BY <2>9, <3>1
    <3>2. CASE \E m \in D : writes[m].row = d /\ F = writes[m].refs
      <4>1. PICK m \in D : writes[m].row = d /\ F = writes[m].refs
        BY <3>2
      <4>2. Final(claim[m], F) /\ Recast(claim[m], d)
        BY <1>8, <2>6, <2>7, <4>1
      <4> QED BY <4>2
    <3> QED BY <1>8, <2>3, <2>6, <3>1, <3>2
  <2>11. NothingLost(FALSE, NoRef)
    <3> SUFFICES ASSUME NEW c, NEW E, Final(c, E) PROVE \E d : Final(d, E)' /\ Recast(c, d)
      BY DEF NothingLost
    <3>1. CASE \A m \in D : writes[m].row.id # c.id
      BY <1>8, <2>3, <2>6, <2>9, <3>1
    <3>2. CASE \E m \in D : writes[m].row.id = c.id
      <4>1. PICK m \in D : writes[m].row.id = c.id
        BY <3>2
      <4>2. claim[m] = c
        BY <1>6, <1>8, <2>6, <2>7, <4>1 DEF TablesOK
      <4>3. Final(writes[m].row, E)' /\ Recast(c, writes[m].row)
        BY <1>8, <2>3, <2>6, <2>7, <4>1, <4>2
      <4> QED BY <4>3
    <3> QED BY <3>1, <3>2
  <2>12. BegunFor(FALSE, NoRef)
    BY <2>5 DEF BegunFor
  <2> QED BY <1>6, <2>4, <2>5, <2>8, <2>10, <2>11, <2>12, FinalsMove
<1> QED BY <1>9, <1>10

\* Final is what the table holds.
Settles == \A c, E : Final(c, E) <=> (\E n \in DOMAIN claim : claim[n] = c) /\ E = evidence[c.id]

\* A claim has the name of the new row if it says the same.
LEMMA AlignedByName ==
  ASSUME MemoryInv, ProvenInv, Single, Settles, NEW t \in WorkTasks, t.kind = "signal",
         NEW id, Names(id, t), NEW shared, NEW n \in DOMAIN claim
  PROVE  /\ claim[n].id = NewRow(t, id, shared).id <=> n \in Aligned(t)
         /\ n \in Aligned(t) <=> SaysTheSame(claim[n], t)
<1>1. PICK A : A = Aligned(t)
  OBVIOUS
<1>2. PICK a : a = Max(A)
  OBVIOUS
<1>3. \A m \in DOMAIN claim : m \in A <=> SaysTheSame(claim[m], t)
  BY <1>1 DEF Aligned, Listed, SaysTheSame
<1>4. NewRow(t, id, shared).id = IF A = {} THEN id ELSE claim[a].id
  BY <1>1, <1>2 DEF NewRow
<1>5. CASE A = {}
  <2>1. ASSUME claim[n].id = id PROVE FALSE
    <3>1. Names(id, claim[n])
      BY <2>1 DEF ProvenInv, RowsOK, RowOK
    <3>2. SaysTheSame(claim[n], t)
      BY <3>1, NamesAgree DEF SaysTheSame
    <3> QED BY <1>3, <1>5, <3>2
  <2> QED BY <1>1, <1>3, <1>4, <1>5, <2>1
<1>6. CASE A # {}
  <2>1. a \in A /\ a \in DOMAIN claim
    <3>1. /\ a \in DOMAIN claim /\ claim[a].type = t.type /\ claim[a].scope = t.scope
          /\ claim[a].statement = t.statement
      BY <1>1, <1>2, <1>6, ListedArePositions DEF MemoryInv
    <3> QED BY <1>3, <3>1 DEF SaysTheSame
  <2>2. ASSUME n \in A PROVE claim[n].id = claim[a].id
    <3>1. SaysTheSame(claim[n], claim[a])
      BY <1>3, <2>1, <2>2 DEF SaysTheSame
    <3>2. /\ Final(claim[n], evidence[claim[n].id])
          /\ Final(claim[a], evidence[claim[a].id])
      BY <2>1, Zenon DEF Settles
    <3>3. claim[n] = claim[a]
      BY <3>1, <3>2 DEF Single
    <3> QED BY <3>3
  <2>3. ASSUME claim[n].id = claim[a].id PROVE n \in A
    BY <2>1, <2>3 DEF MemoryInv, TablesOK
  <2> QED BY <1>1, <1>3, <1>4, <1>6, <2>2, <2>3
<1> QED BY <1>5, <1>6

\* The writes of a signal, one by one: its row, and the claims K it supersedes of
\* those that contradict it, C.
MergeParts(writes, t, row, C, K) ==
  /\ K \subseteq C /\ C \subseteq DOMAIN claim /\ 0 \notin K
  /\ DOMAIN writes = {0} \cup K
  /\ writes[0].row = Settled(row, C)
  /\ writes[0].refs = MergedEvidence(t)
  /\ \A n \in K : writes[n] = Superseding(n, row.id)
  /\ \A n \in DOMAIN claim : n \in C <=> /\ claim[n].type = t.type
                                         /\ claim[n].scope = t.scope
                                         /\ Conflict(claim[n].statement, t.statement)

\* They are those of its merge.
LEMMA MergeInParts ==
  ASSUME TablesOK, NEW t, NEW id, NEW shared
  PROVE  MergeParts(Merge(t, id, shared), t, NewRow(t, id, shared), Contradicted(t),
                    Defeated(NewRow(t, id, shared), Contradicted(t)))
<1>1. PICK row : row = NewRow(t, id, shared)
  OBVIOUS
<1>2. PICK C : C = Contradicted(t)
  OBVIOUS
<1>3. PICK K : K = Defeated(row, C)
  OBVIOUS
<1>4. K \subseteq C
  BY <1>3 DEF Defeated
<1>5. C \subseteq DOMAIN claim /\ 0 \notin DOMAIN claim
  BY <1>2, ListedArePositions
<1>6. Merge(t, id, shared) = [n \in {0} \cup K |->
         IF n = 0 THEN Write(Settled(row, C), MergedEvidence(t)) ELSE Superseding(n, row.id)]
  BY <1>1, <1>2, <1>3 DEF Merge
<1>7. /\ DOMAIN Merge(t, id, shared) = {0} \cup K
      /\ Merge(t, id, shared)[0] = Write(Settled(row, C), MergedEvidence(t))
      /\ \A n \in K : Merge(t, id, shared)[n] = Superseding(n, row.id)
  BY <1>4, <1>5, <1>6
<1>8. \A n \in DOMAIN claim : n \in C <=> /\ claim[n].type = t.type
                                          /\ claim[n].scope = t.scope
                                          /\ Conflict(claim[n].statement, t.statement)
  BY <1>2 DEF Contradicted, Listed
<1>9. MergeParts(Merge(t, id, shared), t, row, C, K)
  BY <1>4, <1>5, <1>7, <1>8 DEF MergeParts, Write
<1> QED BY <1>1, <1>2, <1>3, <1>9

\* The evidence of what was told, and of one more.
LEMMA OneMoreTold ==
  ASSUME TablesOK, NEW T, T \subseteq Positions, NEW x, x \notin T
  PROVE  /\ Cardinality(T) \in Nat /\ Cardinality(T \cup {x}) = Cardinality(T) + 1
         /\ RefsTold(T \cup {x}) = RefsTold(T) \cup RefsOf(episode[x[1]], x[1])
<1>1. IsFiniteSet(T)
  BY PositionsAreFinite, FS_Subset
<1>2. Cardinality(T) \in Nat
  BY <1>1, FS_CardinalityType
<1>3. Cardinality(T \cup {x}) = Cardinality(T) + 1
  BY <1>1, FS_AddElement
<1>4. RefsTold(T \cup {x}) = RefsTold(T) \cup RefsOf(episode[x[1]], x[1])
  BY DEF RefsTold
<1> QED BY <1>2, <1>3, <1>4

\* Where no claim says what a signal does, none was told.
LEMMA NoneTold ==
  ASSUME AllThere, Settles, NEW t, Aligned(t) = {}, NEW r, SaysTheSame(r, t), r.scope # Global
  PROVE  Told(r) = {}
<1> SUFFICES ASSUME NEW x \in Told(r) PROVE FALSE
  OBVIOUS
<1>1. x \in Begun /\ Counts(TaskAt(x), r)
  BY DEF Told
<1>2. PICK c, E : Final(c, E) /\ Counts(TaskAt(x), c)
  BY <1>1 DEF AllThere
<1>3. PICK n \in DOMAIN claim : claim[n] = c
  BY <1>2 DEF Settles
<1>4. TaskAt(x).kind = "signal"
  BY <1>1 DEF Begun
<1>5. c.type = t.type /\ c.statement = t.statement /\ c.scope = t.scope
  BY <1>1, <1>2, <1>4 DEF Counts, SaysTheSame
<1>6. n \in Aligned(t)
  BY <1>3, <1>5 DEF Aligned, Listed
<1> QED BY <1>6

\* The signals of the claim that t is aligned with, and one more.
OneMoreSignal(t) ==
  1 + (IF Aligned(t) = {} THEN 0 ELSE claim[Max(Aligned(t))].signals)

\* The new row counts the signals told before and the one at hand.
LEMMA RowIsCounted ==
  ASSUME MemoryInv, ProvenInv, TurnsInv, disturbed = 0, Settles,
         NEW t \in WorkTasks, NEW x, x \notin Begun,
         NEW r, r.signals = OneMoreSignal(t), SaysTheSame(r, t), r.scope # Global,
         t.refs = RefsOf(episode[x[1]], x[1])
  PROVE  /\ r.signals = Cardinality(Told(r) \cup {x})
         /\ MergedEvidence(t) = RefsTold(Told(r) \cup {x})
<1>1. PICK A : A = Aligned(t)
  OBVIOUS
<1>2. PICK a : a = Max(A)
  OBVIOUS
<1>3. PICK T : T = Told(r)
  OBVIOUS
<1>4. Told(r) \subseteq Begun /\ Begun \subseteq Positions
  BY DEF Told, Begun
<1>5. /\ Cardinality(T) \in Nat /\ Cardinality(T \cup {x}) = Cardinality(T) + 1
      /\ RefsTold(T \cup {x}) = RefsTold(T) \cup RefsOf(episode[x[1]], x[1])
  <2>1. TablesOK /\ T \subseteq Positions /\ x \notin T
    BY <1>3, <1>4 DEF MemoryInv
  <2> QED BY <2>1, OneMoreTold
<1>6. /\ r.signals = 1 + (IF A = {} THEN 0 ELSE claim[a].signals)
      /\ MergedEvidence(t) = t.refs \cup (IF A = {} THEN {} ELSE evidence[claim[a].id])
  BY <1>1, <1>2 DEF OneMoreSignal, MergedEvidence
<1>7. CASE A = {}
  <2>1. T = {}
    BY <1>1, <1>3, <1>7, NoneTold DEF TurnsInv
  <2>2. Cardinality(T) = 0
    BY <2>1, FS_EmptySet
  <2>3. RefsTold(T) = {}
    BY <2>1 DEF RefsTold
  <2>4. r.signals = Cardinality(T \cup {x})
    BY <1>5, <1>6, <1>7, <2>2
  <2> QED BY <1>3, <1>5, <1>6, <1>7, <2>3, <2>4
<1>8. CASE A # {}
  <2>1. a \in A /\ a \in DOMAIN claim
    <3>1. /\ a \in DOMAIN claim /\ claim[a].type = t.type /\ claim[a].scope = t.scope
          /\ claim[a].statement = t.statement
      BY <1>1, <1>2, <1>8, ListedArePositions DEF MemoryInv
    <3> QED BY <1>1, <3>1 DEF Aligned, Listed
  <2>2. SaysTheSame(claim[a], t)
    BY <1>1, <2>1 DEF Aligned, Listed, SaysTheSame
  <2>3. claim[a].scope # Global /\ SaysTheSame(claim[a], r)
    BY <2>2 DEF SaysTheSame
  <2>4. Final(claim[a], evidence[claim[a].id])
    BY <2>1 DEF Settles
  <2>5. Counted(claim[a], evidence[claim[a].id])
    BY <2>4 DEF TurnsInv, AllCounted
  <2>6. Told(claim[a]) = T
    BY <1>3, <2>3 DEF Told, Counts, SaysTheSame
  <2>7. claim[a].signals = Cardinality(T) /\ evidence[claim[a].id] = RefsTold(T)
    BY <2>3, <2>5, <2>6 DEF Counted
  <2>8. r.signals = Cardinality(T \cup {x})
    BY <1>5, <1>6, <1>8, <2>7
  <2> QED BY <1>3, <1>5, <1>6, <1>8, <2>7, <2>8
<1> QED BY <1>7, <1>8

\* What a signal plans for the claims: writes with the row r and the evidence M,
\* and the claims K superseded, in a state where all is settled.
SignalPlan(writes, t, r, M, K) ==
  /\ DOMAIN writes = {0} \cup K /\ 0 \notin K /\ K \subseteq DOMAIN claim
  /\ writes[0].row = r /\ writes[0].refs = M
  /\ SaysTheSame(r, t)
  /\ \A n \in K : /\ Recast(claim[n], writes[n].row) /\ writes[n].row.id = claim[n].id
                  /\ writes[n].refs = evidence[claim[n].id]
                  /\ writes[n].row.status = "superseded"
  /\ \A n \in DOMAIN claim : /\ claim[n].id = r.id <=> SaysTheSame(claim[n], t)
                             /\ SaysTheSame(claim[n], t) => n \notin K
                             /\ Clash(claim[n], r) => n \in K

\* It is such a plan.
LEMMA SignalIsPlanned ==
  ASSUME MemoryInv, ProvenInv, Single, Settles, NEW t \in WorkTasks, t.kind = "signal",
         NEW id \in Ids, Names(id, t), NEW shared,
         NEW r, r = Settled(NewRow(t, id, shared), Contradicted(t)),
         NEW K, K = Defeated(NewRow(t, id, shared), Contradicted(t))
  PROVE  /\ SignalPlan(Merge(t, id, shared), t, r, MergedEvidence(t), K)
         /\ r.id = NewRow(t, id, shared).id /\ r.signals = NewRow(t, id, shared).signals
<1>1. PICK row : row = NewRow(t, id, shared)
  OBVIOUS
<1>2. PICK C : C = Contradicted(t)
  OBVIOUS
<1>3. PICK writes : writes = Merge(t, id, shared)
  OBVIOUS
<1>4. TablesOK
  BY DEF MemoryInv
<1>5. /\ K \subseteq C /\ C \subseteq DOMAIN claim /\ 0 \notin K
      /\ DOMAIN writes = {0} \cup K
      /\ writes[0].row = r /\ writes[0].refs = MergedEvidence(t)
      /\ \A n \in K : writes[n] = Superseding(n, row.id)
      /\ \A n \in DOMAIN claim : n \in C <=> /\ claim[n].type = t.type
                                             /\ claim[n].scope = t.scope
                                             /\ Conflict(claim[n].statement, t.statement)
  <2>1. MergeParts(writes, t, row, C, K)
    BY <1>1, <1>2, <1>3, <1>4, MergeInParts
  <2>2. r = Settled(row, C)
    BY <1>1, <1>2
  <2> QED BY <2>1, <2>2 DEF MergeParts
<1>6. row \in Claims /\ SaysTheSame(row, t)
  <2>1. row \in Claims
    BY <1>1, <1>4, NewRowIsTyped
  <2>2. row.type = t.type /\ row.scope = t.scope /\ row.statement = t.statement
    BY <1>1 DEF NewRow
  <2> QED BY <2>1, <2>2 DEF SaysTheSame
<1>7. /\ r.id = row.id /\ r.signals = row.signals /\ SaysTheSame(r, t)
      /\ r.status = "accepted" => K = C
  <2>1. r = Settled(row, C) /\ K = Defeated(row, C)
    BY <1>1, <1>2
  <2>2. r.id = row.id /\ r.signals = row.signals /\ SaysTheSame(r, t)
    BY <1>6, <2>1, SettledKeeps DEF SaysTheSame
  <2>3. ASSUME K # C PROVE r.status # "accepted"
    <3>1. r = [row EXCEPT !.status = "candidate", !.pending = TRUE]
      BY <2>1, <2>3 DEF Settled
    <3> QED BY <1>6, <3>1 DEF Claims
  <2> QED BY <2>2, <2>3
<1>8. \A n \in K : /\ Recast(claim[n], writes[n].row) /\ writes[n].row.id = claim[n].id
                   /\ writes[n].refs = evidence[claim[n].id]
                   /\ writes[n].row.status = "superseded"
  BY <1>4, <1>5, SupersededIsRecast
<1>9. ASSUME NEW n \in DOMAIN claim
      PROVE  /\ claim[n].id = r.id <=> SaysTheSame(claim[n], t)
             /\ SaysTheSame(claim[n], t) => n \notin K
             /\ Clash(claim[n], r) => n \in K
  <2>1. claim[n].id = r.id <=> SaysTheSame(claim[n], t)
    BY <1>1, <1>7, AlignedByName
  <2>2. SaysTheSame(claim[n], t) => n \notin K
    BY <1>5, NoSelfConflict DEF SaysTheSame
  <2>3. ASSUME Clash(claim[n], r) PROVE n \in K
    BY <1>5, <1>7, <2>3 DEF Clash, SaysTheSame
  <2> QED BY <2>1, <2>2, <2>3
<1>10. SignalPlan(writes, t, r, MergedEvidence(t), K)
  <2>1. K \subseteq DOMAIN claim
    BY <1>5
  <2> QED BY <1>5, <1>7, <1>8, <1>9, <2>1 DEF SignalPlan
<1> QED BY <1>1, <1>3, <1>7, <1>10

\* After such a plan nothing is lost, and nothing else comes.
LEMMA PlanMovesFinals ==
  ASSUME TablesOK, NEW w, NEW s, AtWork = w, AtWork' = s, ~IsWriting(w), s.pc = "row",
         UNCHANGED <<claim, evidence>>,
         NEW t, NEW r, NEW M, NEW K, SignalPlan(s.writes, t, r, M, K)
  PROVE  /\ Final(r, M)' /\ InPlace(claim', AtWork')
         /\ NothingElse(TRUE, r, M) /\ NothingLost(TRUE, r)
<1>1. PICK writes : writes = s.writes
  OBVIOUS
<1>2. /\ \A c, E : Final(c, E) <=> (\E n \in DOMAIN claim : claim[n] = c) /\ E = evidence[c.id]
      /\ \A c, E : Final(c, E)' <=>
           \/ Final(c, E) /\ \A m \in DOMAIN writes : writes[m].row.id # c.id
           \/ \E m \in DOMAIN writes : writes[m].row = c /\ E = writes[m].refs
  BY <1>1, PlannedIsFinal
<1>3. /\ DOMAIN writes = {0} \cup K /\ 0 \notin K /\ K \subseteq DOMAIN claim
      /\ writes[0].row = r /\ writes[0].refs = M /\ SaysTheSame(r, t)
  BY <1>1 DEF SignalPlan
<1>4. \A n \in K : /\ Recast(claim[n], writes[n].row) /\ writes[n].row.id = claim[n].id
                   /\ writes[n].refs = evidence[claim[n].id]
                   /\ writes[n].row.status = "superseded"
  BY <1>1 DEF SignalPlan
<1>5. \A n \in DOMAIN claim : /\ claim[n].id = r.id <=> SaysTheSame(claim[n], t)
                              /\ SaysTheSame(claim[n], t) => n \notin K
                              /\ Clash(claim[n], r) => n \in K
  BY <1>1 DEF SignalPlan
<1>6. \A m, n \in DOMAIN claim : claim[m].id = claim[n].id => m = n
  BY DEF TablesOK
<1>7. Final(r, M)'
  BY <1>2, <1>3
<1>8. InPlace(claim', AtWork')
  <2>1. \A m, n \in K : writes[m].row.id = writes[n].row.id => m = n
    BY <1>3, <1>4, <1>6
  <2>2. \A n \in K : writes[n].row.id # writes[0].row.id
    BY <1>3, <1>4, <1>5
  <2>3. \A m, n \in DOMAIN writes : writes[m].row.id = writes[n].row.id => m = n
    BY <1>3, <2>1, <2>2
  <2> QED BY <1>1, <2>3 DEF InPlace
<1>9. \A c : Recast(c, c)
  BY DEF Recast, SaysTheSame
<1>10. \A c : SaysTheSame(c, r) <=> SaysTheSame(c, t)
  BY <1>3 DEF SaysTheSame
<1>11. NothingElse(TRUE, r, M)
  <2> SUFFICES ASSUME NEW d, NEW F, Final(d, F)', ~(d = r /\ F = M)
               PROVE \E c : Final(c, F) /\ Recast(c, d) /\ ~SaysTheSame(c, r) /\ ~Clash(d, r)
    BY DEF NothingElse, ComesOf
  <2>1. CASE Final(d, F) /\ \A m \in DOMAIN writes : writes[m].row.id # d.id
    <3>1. PICK n \in DOMAIN claim : claim[n] = d
      BY <1>2, <2>1
    <3>2. d.id # r.id /\ n \notin K
      BY <1>3, <1>4, <2>1, <3>1
    <3>3. ~SaysTheSame(d, r) /\ ~Clash(d, r)
      BY <1>5, <1>10, <3>1, <3>2
    <3> QED BY <1>9, <2>1, <3>3
  <2>2. CASE \E m \in DOMAIN writes : writes[m].row = d /\ F = writes[m].refs
    <3>1. PICK m \in DOMAIN writes : writes[m].row = d /\ F = writes[m].refs
      BY <2>2
    <3>2. m \in K
      BY <1>3, <3>1
    <3>3. m \in DOMAIN claim /\ ~SaysTheSame(claim[m], r)
      BY <1>3, <1>5, <1>10, <3>2
    <3>4. Final(claim[m], F) /\ Recast(claim[m], d) /\ d.status = "superseded"
      BY <1>2, <1>4, <3>1, <3>2, <3>3
    <3> QED BY <3>3, <3>4 DEF Clash
  <2> QED BY <1>2, <2>1, <2>2
<1>12. NothingLost(TRUE, r)
  <2> SUFFICES ASSUME NEW c, NEW E, Final(c, E), ~SaysTheSame(c, r)
               PROVE \E d : Final(d, E)' /\ Recast(c, d)
    BY DEF NothingLost
  <2>1. PICK n \in DOMAIN claim : claim[n] = c /\ E = evidence[c.id]
    BY <1>2
  <2>2. c.id # r.id
    BY <1>5, <1>10, <2>1
  <2>3. CASE \A m \in DOMAIN writes : writes[m].row.id # c.id
    BY <1>2, <1>9, <2>3
  <2>4. CASE \E m \in DOMAIN writes : writes[m].row.id = c.id
    <3>1. PICK m \in K : writes[m].row.id = c.id
      BY <1>3, <2>2, <2>4
    <3>2. claim[m] = c
      BY <1>3, <1>4, <1>6, <2>1, <3>1
    <3>3. Final(writes[m].row, E)' /\ Recast(c, writes[m].row)
      BY <1>2, <1>3, <1>4, <2>1, <3>1, <3>2
    <3> QED BY <3>3
  <2> QED BY <2>3, <2>4
<1> QED BY <1>7, <1>8, <1>11, <1>12

\* A signal, at hand, that is not a promotion was stored as one of its episode.
LEMMA SignalOfEpisode ==
  ASSUME MemoryInv, ProvenInv, NEW p \in Storers, Busy(p), NEW w, w = storer[p],
         NEW t, t.kind = "signal", AtHand(w) \in Positions, AsStored(t, TaskAt(AtHand(w)))
  PROVE  /\ TaskAt(AtHand(w)).kind = "signal" => t.scope # Global
         /\ t.scope # Global => /\ TaskAt(AtHand(w)).kind = "signal"
                                /\ t.refs = RefsOf(episode[AtHand(w)[1]], AtHand(w)[1])
                                /\ Counts(TaskAt(AtHand(w)), t)
<1>1. PICK e : e = w.event
  OBVIOUS
<1>2. PICK x : x = AtHand(w)
  OBVIOUS
<1>3. x[1] = e /\ x[2] \in DOMAIN episode[e].work /\ TaskAt(x) = episode[e].work[x[2]]
  <2>1. x[1] = e
    BY <1>1, <1>2 DEF AtHand
  <2> QED BY <1>2, <2>1, PositionsOneByOne DEF TaskAt
<1>4. episode[e].work \in ProperWork(episode[e].workspace, RefsOf(episode[e], e))
  BY <1>1, TasksLeft
<1>5. ProperTask(TaskAt(x), episode[e].workspace, RefsOf(episode[e], e))
  <2>1. episode[e].work \in Seq(WorkTasks)
    BY <1>4 DEF ProperWork
  <2>2. x[2] \in 1 .. Len(episode[e].work)
    BY <1>3, <2>1
  <2> QED BY <1>3, <1>4, <2>2 DEF ProperWork
<1>6. PICK v : v = TaskAt(x)
  OBVIOUS
<1>7. AsStored(t, v) /\ ProperTask(v, episode[e].workspace, RefsOf(episode[e], e))
  BY <1>2, <1>5, <1>6
<1>8. v.kind = "signal" => t.scope # Global
  BY <1>7 DEF AsStored, ProperTask
<1>9. ASSUME t.scope # Global
      PROVE  v.kind = "signal" /\ t.refs = RefsOf(episode[e], e) /\ Counts(v, t)
  <2>1. v.kind = "signal"
    BY <1>7, <1>9 DEF AsStored, ProperTask
  <2> QED BY <1>7, <1>9, <2>1 DEF AsStored, ProperTask, Counts
<1> QED BY <1>2, <1>3, <1>6, <1>8, <1>9

\* A signal is told, and its claim will count it.
LEMMA SignalTakesTurn ==
  ASSUME MemoryInv, ProvenInv, TurnsInv, disturbed = 0, NEW p \in Storers, PlanSignal(p),
         ~AsksWorkspaces(Head(storer[p].todo))
  PROVE  TurnsInv'
<1>1. PICK w : w = storer[p]
  OBVIOUS
<1>2. PICK t : t = Head(w.todo)
  OBVIOUS
<1>3. PICK id : id = <<w.event, Len(w.todo)>>
  OBVIOUS
<1>4. PICK writes : writes = Merge(t, id, FALSE)
  OBVIOUS
<1>5. PICK r : r = Settled(NewRow(t, id, FALSE), Contradicted(t))
  OBVIOUS
<1>6. PICK K : K = Defeated(NewRow(t, id, FALSE), Contradicted(t))
  OBVIOUS
<1>7. PICK M : M = MergedEvidence(t)
  OBVIOUS
<1>8. /\ Busy(p) /\ w.pc = "next" /\ t.kind = "signal"
      /\ Perform(p, writes, NewRow(t, id, FALSE).id)
      /\ UNCHANGED <<episode, claim, evidence, indexed, disturbed>>
  BY <1>1, <1>2, <1>3, <1>4 DEF PlanSignal, AtTask, Busy
<1>9. TablesOK /\ TablesOK'
  BY StoreKeepsTypes DEF Store, MemoryInv
<1>10. Alone /\ Single /\ AtWork = w
  BY <1>1, <1>8, BusyIsAtWork DEF TurnsInv
<1>11. Settles
  BY <1>8, <1>10 DEF Settles, Final, FinalIn, Standing, Coming, IsWriting, Awaits
<1>12. t \in WorkTasks /\ id \in Ids /\ Names(id, t)
  BY <1>1, <1>2, <1>3, <1>8, SignalAtHand
<1>13. /\ SignalPlan(writes, t, r, M, K)
       /\ r.id = NewRow(t, id, FALSE).id
       /\ r.signals = NewRow(t, id, FALSE).signals
  BY <1>4, <1>5, <1>6, <1>7, <1>8, <1>10, <1>11, <1>12, SignalIsPlanned
<1>14. PICK s : s = [w EXCEPT !.pc = "row", !.plans = <<>>, !.writes = writes, !.id = r.id]
  OBVIOUS
<1>15. storer' = [storer EXCEPT ![p] = s]
  BY <1>1, <1>8, <1>13, <1>14 DEF Perform, SignalPlan
<1>16. /\ s.pc = "row" /\ s.event = w.event /\ s.todo = w.todo /\ s.writes = writes
       /\ s.id = r.id
  BY <1>1, <1>8, <1>14, StorerAtWork
<1>17. PICK x : x = AtHand(w)
  OBVIOUS
<1>18. /\ Alone' /\ AtWork' = s /\ EpisodesGrow /\ StillHeld
       /\ Begun' = Begun \cup {y \in {x} : TaskAt(y).kind = "signal"}
       /\ x \in Positions /\ x \notin Begun /\ AsStored(t, TaskAt(x))
  BY <1>1, <1>2, <1>8, <1>10, <1>15, <1>16, <1>17, TaskBegins
<1>19. /\ TaskAt(x).kind = "signal" => t.scope # Global
       /\ t.scope # Global => /\ TaskAt(x).kind = "signal" /\ t.refs = RefsOf(episode[x[1]], x[1])
                              /\ Counts(TaskAt(x), t)
  BY <1>1, <1>8, <1>17, <1>18, SignalOfEpisode
<1>20. SaysTheSame(r, t)
  BY <1>13 DEF SignalPlan
<1>21. /\ Final(r, M)' /\ InPlace(claim', AtWork')
       /\ NothingElse(TRUE, r, M) /\ NothingLost(TRUE, r)
  <2>1. ~IsWriting(w)
    BY <1>8 DEF IsWriting
  <2> QED BY <1>8, <1>9, <1>10, <1>13, <1>16, <1>18, <2>1, PlanMovesFinals
<1>22. \A y : TaskAt(y)' = TaskAt(y)
  BY <1>8 DEF TaskAt
<1>23. t.scope # Global => Counts(TaskAt(x), r)
  BY <1>19, <1>20 DEF Counts, SaysTheSame
<1>24. BegunFor(TRUE, r)
  <2>1. r.scope = t.scope
    BY <1>20 DEF SaysTheSame
  <2>2. \A y \in Begun' \ Begun : y = x /\ TaskAt(x).kind = "signal"
    BY <1>18
  <2>3. TaskAt(x).kind = "signal" => Counts(TaskAt(x), r)' /\ r.scope # Global
    BY <1>19, <1>22, <1>23, <2>1 DEF Counts
  <2> QED BY <1>18, <2>2, <2>3 DEF BegunFor
<1>25. Counted(r, M)'
  <2> SUFFICES ASSUME r.scope # Global
               PROVE  /\ r.signals = Cardinality(Told(r)')
                      /\ M = RefsTold(Told(r))'
                      /\ HeldBy(AtWork', r.id)
    BY DEF Counted
  <2>1. t.scope # Global
    BY <1>20 DEF SaysTheSame
  <2>2. Told(r)' = Told(r) \cup {x}
    <3>1. Begun' = Begun \cup {x} /\ Counts(TaskAt(x), r)
      BY <1>18, <1>19, <1>23, <2>1
    <3>2. \A y : Counts(TaskAt(y), r)' <=> Counts(TaskAt(y), r)
      BY <1>22 DEF Counts
    <3> QED BY <3>1, <3>2 DEF Told
  <2>3. /\ r.signals = Cardinality(Told(r) \cup {x})
        /\ MergedEvidence(t) = RefsTold(Told(r) \cup {x})
    <3>1. NewRow(t, id, FALSE).signals = OneMoreSignal(t)
      BY DEF NewRow, OneMoreSignal
    <3>2. r.signals = OneMoreSignal(t) /\ t.refs = RefsOf(episode[x[1]], x[1])
      BY <1>13, <1>19, <2>1, <3>1
    <3> QED BY <1>11, <1>12, <1>18, <1>20, <3>2, RowIsCounted
  <2>4. HeldBy(AtWork', r.id)
    BY <1>16, <1>18 DEF HeldBy
  <2>5. RefsTold(Told(r))' = RefsTold(Told(r) \cup {x})
    BY <1>8, <2>2 DEF RefsTold, RefsOf
  <2> QED BY <1>7, <2>2, <2>3, <2>4, <2>5
<1>26. PlansFit(AtWork)'
  BY <1>16, <1>18, NobodyCounts
<1> QED BY <1>9, <1>18, <1>21, <1>24, <1>25, <1>26, FinalsMove

\* A global preference is planned both ways, and nothing is told.
LEMMA GlobalTakesTurn ==
  ASSUME MemoryInv, ProvenInv, TurnsInv, disturbed = 0, NEW p \in Storers, PlanSignal(p),
         AsksWorkspaces(Head(storer[p].todo))
  PROVE  TurnsInv'
<1>1. PICK w : w = storer[p]
  OBVIOUS
<1>2. PICK t : t = Head(w.todo)
  OBVIOUS
<1>3. PICK id : id = <<w.event, Len(w.todo)>>
  OBVIOUS
<1>4. PICK plans : plans = [shared \in BOOLEAN |-> Merge(t, id, shared)]
  OBVIOUS
<1>5. PICK name : name = NewRow(t, id, FALSE).id
  OBVIOUS
<1>6. PICK s : s = [w EXCEPT !.pc = "count", !.plans = plans, !.id = name]
  OBVIOUS
<1>7. /\ Busy(p) /\ w.pc = "next" /\ t.kind = "signal" /\ t.scope = Global
      /\ storer' = [storer EXCEPT ![p].pc = "count", ![p].plans = plans, ![p].id = name]
      /\ UNCHANGED <<episode, claim, evidence, indexed, disturbed>>
  <2>1. Busy(p) /\ w.pc = "next" /\ t.kind = "signal"
    BY <1>1, <1>2 DEF PlanSignal, AtTask, Busy
  <2>2. t.scope = Global
    BY <1>1, <1>2 DEF AsksWorkspaces
  <2>3. /\ storer' = [storer EXCEPT ![p].pc = "count", ![p].plans = plans, ![p].id = name]
        /\ UNCHANGED <<episode, claim, evidence, indexed, disturbed>>
    BY <1>1, <1>2, <1>3, <1>4, <1>5 DEF PlanSignal
  <2> QED BY <2>1, <2>2, <2>3
<1>8. TablesOK'
  BY StoreKeepsTypes DEF Store, MemoryInv
<1>9. Alone /\ AtWork = w
  BY <1>1, <1>7, BusyIsAtWork DEF TurnsInv
<1>10. storer' = [storer EXCEPT ![p] = s]
  BY <1>1, <1>6, <1>7
<1>11. /\ s.pc = "count" /\ s.event = w.event /\ s.todo = w.todo /\ s.plans = plans
  BY <1>1, <1>6, <1>7, StorerAtWork
<1>12. PICK x : x = AtHand(w)
  OBVIOUS
<1>13. /\ Alone' /\ AtWork' = s /\ EpisodesGrow /\ StillHeld
       /\ Begun' = Begun \cup {y \in {x} : TaskAt(y).kind = "signal"}
       /\ x \in Positions /\ AsStored(t, TaskAt(x))
  <2>1. s.pc = "row" \/ s.pc = "count"
    BY <1>11
  <2>2. w.pc = "next" /\ UNCHANGED <<episode, indexed>>
    BY <1>7
  <2>3. s.event = w.event /\ s.todo = w.todo
    BY <1>11
  <2>4. Alone
    BY <1>9
  <2>5. /\ Alone' /\ AtWork' = s /\ EpisodesGrow /\ StillHeld
        /\ Begun' = Begun \cup {y \in {AtHand(w)} : TaskAt(y).kind = "signal"}
        /\ AtHand(w) \in Positions \ Begun /\ AsStored(Head(w.todo), TaskAt(AtHand(w)))
    BY <1>1, <1>10, <2>1, <2>2, <2>3, <2>4, TaskBegins
  <2> QED BY <1>2, <1>12, <2>5
<1>14. TaskAt(x).kind # "signal"
  BY <1>1, <1>7, <1>12, <1>13, SignalOfEpisode
<1>15. Begun' = Begun
  BY <1>13, <1>14
<1>16. FinalsStay /\ InPlace(claim', AtWork')
  BY <1>7, <1>9, <1>11, <1>13, NobodyWrites DEF IsWriting
<1>17. PlansFit(AtWork)'
  <2>1. \A shared \in BOOLEAN : Merge(t, id, shared)' = plans[shared]
    BY <1>4, <1>7, MergeStays
  <2>2. Head(s.todo) = t /\ <<s.event, Len(s.todo)>> = id
    BY <1>2, <1>3, <1>11
  <2>3. PlansFit(s)'
    BY <1>7, <1>11, <2>1, <2>2 DEF PlansFit
  <2> QED BY <1>13, <2>3 DEF PlansFit
<1> QED BY <1>8, <1>13, <1>15, <1>16, <1>17, StayingFinal

\* The second reading chooses a plan, for a claim that counts nothing.
LEMMA CountWorkspacesTakesTurn ==
  ASSUME MemoryInv, ProvenInv, TurnsInv, disturbed = 0, NEW p \in Storers, CountWorkspaces(p)
  PROVE  TurnsInv'
<1>1. PICK w : w = storer[p]
  OBVIOUS
<1>2. PICK t : t = Head(w.todo)
  OBVIOUS
<1>3. PICK id : id = <<w.event, Len(w.todo)>>
  OBVIOUS
<1>4. PICK shared \in BOOLEAN : Perform(p, w.plans[shared], w.id)
  <2> DEFINE many == DistinctWorkspaces(t.statement) >= 2
  <2>1. many \in BOOLEAN /\ Perform(p, w.plans[many], w.id)
    BY <1>1, <1>2 DEF CountWorkspaces
  <2> HIDE DEF many
  <2> QED BY <2>1
<1>5. PICK writes : writes = Merge(t, id, shared)
  OBVIOUS
<1>6. PICK r : r = Settled(NewRow(t, id, shared), Contradicted(t))
  OBVIOUS
<1>7. PICK K : K = Defeated(NewRow(t, id, shared), Contradicted(t))
  OBVIOUS
<1>8. PICK M : M = MergedEvidence(t)
  OBVIOUS
<1>9. /\ Busy(p) /\ w.pc = "count" /\ w.pc # "idle"
      /\ UNCHANGED <<episode, claim, evidence, indexed, disturbed>>
  BY <1>1 DEF CountWorkspaces, Busy
<1>10. TablesOK /\ TablesOK'
  BY StoreKeepsTypes DEF Store, MemoryInv
<1>11. Alone /\ Single /\ AtWork = w /\ PlansFit(w) /\ ~IsWriting(w)
  BY <1>1, <1>9, BusyIsAtWork DEF TurnsInv, IsWriting
<1>12. Settles
  BY <1>9, <1>11 DEF Settles, Final, FinalIn, Standing, Coming, IsWriting, Awaits
<1>13. t.kind = "signal" /\ t.scope = Global /\ w.plans[shared] = writes
  BY <1>2, <1>3, <1>5, <1>9, <1>11 DEF PlansFit
<1>14. t \in WorkTasks /\ id \in Ids /\ Names(id, t)
  BY <1>1, <1>2, <1>3, <1>9, <1>13, SignalAtHand
<1>15. SignalPlan(writes, t, r, M, K)
  BY <1>5, <1>6, <1>7, <1>8, <1>11, <1>12, <1>13, <1>14, SignalIsPlanned
<1>16. PICK s : s = [w EXCEPT !.pc = "row", !.plans = <<>>, !.writes = writes, !.id = w.id]
  OBVIOUS
<1>17. storer' = [storer EXCEPT ![p] = s]
  BY <1>1, <1>4, <1>13, <1>15, <1>16 DEF Perform, SignalPlan
<1>18. s.pc = "row" /\ s.event = w.event /\ s.todo = w.todo /\ s.writes = writes
  BY <1>1, <1>9, <1>16, StorerAtWork
<1>19. Alone' /\ AtWork' = s /\ Begun' = Begun
  <2>1. \A x : Waits(s, x) <=> Waits(w, x)
    BY <1>9, <1>18 DEF Waits
  <2> QED BY <1>1, <1>9, <1>11, <1>17, <1>18, <2>1, BegunStays
<1>20. StillHeld /\ EpisodesGrow
  BY <1>9, <1>11 DEF StillHeld, HeldBy, EpisodesGrow
<1>21. /\ Final(r, M)' /\ InPlace(claim', AtWork')
       /\ NothingElse(TRUE, r, M) /\ NothingLost(TRUE, r)
  BY <1>9, <1>10, <1>11, <1>15, <1>18, <1>19, PlanMovesFinals
<1>22. BegunFor(TRUE, r)
  BY <1>19 DEF BegunFor
<1>23. Counted(r, M)'
  BY <1>13, <1>15 DEF Counted, SignalPlan, SaysTheSame
<1>24. PlansFit(AtWork)'
  BY <1>18, <1>19, NobodyCounts
<1> QED BY <1>10, <1>19, <1>20, <1>21, <1>22, <1>23, <1>24, FinalsMove

\* At first there is nothing to lose.
LEMMA TurnsInit == MemoryInit => TurnsInv
<1> SUFFICES ASSUME MemoryInit PROVE TurnsInv
  OBVIOUS
<1>1. episode = <<>> /\ claim = <<>> /\ \A p \in Storers : storer[p] = Idle
  BY DEF MemoryInit
<1>2. \A p \in Storers : ~Busy(p)
  BY <1>1 DEF Busy, Idle
<1>3. AtWork = Idle
  BY <1>2 DEF AtWork
<1>4. \A c, E : ~Final(c, E)
  <2>1. DOMAIN claim = {}
    BY <1>1
  <2> QED BY <1>3, <2>1 DEF Final, FinalIn, Standing, Coming, IsWriting, Idle
<1>5. Begun = {}
  <2>1. DOMAIN episode = {}
    BY <1>1
  <2> QED BY <2>1, PositionsOneByOne DEF Begun
<1>6. Alone /\ InPlace(claim, AtWork) /\ PlansFit(AtWork)
  BY <1>2, <1>3 DEF Alone, InPlace, IsWriting, PlansFit, Idle
<1>7. Single /\ AllAgree /\ AllCounted
  BY <1>4 DEF Single, AllAgree, AllCounted
<1>8. AllThere
  BY <1>5 DEF AllThere
<1> QED BY <1>6, <1>7, <1>8 DEF TurnsInv

\* What storers do when they take turns; anything else is a disturbance.
TurnsMove ==
  \/ MemoryStays
  \/ \E p \in Storers :
       \/ Store(p) \/ StopStoring(p)
       \/ \E r \in WorkRequests : \/ StoreEpisode(p, r, FALSE) /\ \A q \in Storers : ~Busy(q)
                                  \/ StoreEpisode(p, r, TRUE)

\* A storer whose turn it is keeps the invariant.
LEMMA TurnsStep == MemoryInv /\ ProvenInv /\ TurnsInv /\ TurnsMove => TurnsInv'
<1> SUFFICES ASSUME MemoryInv, ProvenInv, TurnsInv, TurnsMove, disturbed' = 0 PROVE TurnsInv'
  BY DEF TurnsInv
<1>1. disturbed \in Nat
  BY DEF MemoryInv, TablesOK
<1>2. ~Disturb
  BY <1>1 DEF Disturb
<1>3. CASE MemoryStays
  <2>1. disturbed = 0
    BY <1>2, <1>3 DEF MemoryStays
  <2> QED BY <1>3, <2>1, StayingTakesTurn
<1>4. ASSUME NEW p \in Storers, Store(p) PROVE TurnsInv'
  <2>1. disturbed = 0
    BY <1>4 DEF Store, PlanSignal, CountWorkspaces, PlanResolve, Promote, WriteRow,
                ClearEvidence, InsertEvidence, ReturnClaim, IndexClaim
  <2>2. CASE PlanSignal(p)
    BY <2>1, <2>2, SignalTakesTurn, GlobalTakesTurn
  <2>3. CASE PlanResolve(p)
    BY <2>1, <2>3, PlanResolveTakesTurn
  <2>4. CASE Promote(p)
    BY <2>1, <2>4, PromoteTakesTurn
  <2>5. CASE WriteRow(p)
    BY <2>1, <2>5, WriteRowTakesTurn
  <2>6. CASE ClearEvidence(p)
    BY <2>1, <2>6, ClearEvidenceTakesTurn
  <2>7. ASSUME NEW ref \in DOMAIN episode \cup ArtifactRefs, InsertEvidence(p, ref) PROVE TurnsInv'
    BY <2>1, <2>7, InsertEvidenceTakesTurn
  <2>8. CASE ReturnClaim(p)
    BY <2>1, <2>8, ReturnClaimTakesTurn
  <2>9. CASE IndexClaim(p)
    BY <2>1, <2>9, IndexClaimTakesTurn
  <2>10. CASE CountWorkspaces(p)
    BY <2>1, <2>10, CountWorkspacesTakesTurn
  <2> QED BY <1>4, <2>2, <2>3, <2>4, <2>5, <2>6, <2>7, <2>8, <2>9, <2>10 DEF Store
<1>5. ASSUME NEW p \in Storers PROVE ~StopStoring(p)
  BY <1>2 DEF StopStoring
<1>6. ASSUME NEW p \in Storers, NEW r \in WorkRequests PROVE ~StoreEpisode(p, r, TRUE)
  BY <1>2 DEF StoreEpisode, Enter
<1>7. ASSUME NEW p \in Storers, NEW r \in WorkRequests, StoreEpisode(p, r, FALSE),
             \A q \in Storers : ~Busy(q)
      PROVE TurnsInv'
  <2>1. disturbed = 0
    BY <1>7 DEF StoreEpisode, Enter
  <2> QED BY <1>7, <2>1, StoreEpisodeTakesTurn
<1> QED BY <1>3, <1>4, <1>5, <1>6, <1>7 DEF TurnsMove

\* Between turns nothing is left to come: final is what the table holds, and told
\* is every signal.
LEMMA BetweenTurns ==
  ASSUME MemoryInv, TurnsInv, Orderly
  PROVE  /\ Single /\ AllAgree /\ AllCounted /\ AllThere /\ Settles /\ AtWork = Idle
         /\ \A x : x \in Begun <=> x \in Positions /\ TaskAt(x).kind = "signal"
<1>1. disturbed = 0 /\ \A p \in Storers : ~Busy(p)
  BY DEF Orderly
<1>2. AtWork = Idle
  BY <1>1 DEF AtWork
<1>3. Settles
  BY <1>2 DEF Settles, Final, FinalIn, Standing, Coming, IsWriting, Awaits, Idle
<1>4. \A x : x \in Begun <=> x \in Positions /\ TaskAt(x).kind = "signal"
  BY <1>2 DEF Begun, Waits, Idle
<1> QED BY <1>1, <1>2, <1>3, <1>4 DEF TurnsInv

\* Then accepted claims agree.
LEMMA TurnsAgree == MemoryInv /\ TurnsInv => AcceptedAgree
<1> SUFFICES ASSUME MemoryInv, TurnsInv, Orderly, NEW m \in DOMAIN claim, NEW n \in DOMAIN claim,
                    claim[m].type = claim[n].type, claim[m].scope = claim[n].scope,
                    claim[m].status = "accepted", claim[n].status = "accepted"
             PROVE  ~Conflict(claim[m].statement, claim[n].statement)
  BY DEF AcceptedAgree
<1>1. AllAgree /\ Settles
  BY BetweenTurns
<1>2. Final(claim[m], evidence[claim[m].id]) /\ Final(claim[n], evidence[claim[n].id])
  BY <1>1 DEF Settles
<1> QED BY <1>1, <1>2 DEF AllAgree

\* The evidence for a claim is what its signals are evidence with.
LEMMA EvidenceOfSignals ==
  ASSUME TablesOK, WorkOK, NEW c, c.scope # Global
  PROVE  EvidenceFor(c) = RefsTold(SignalsOf(c))
<1>1. ASSUME NEW e \in StatedIn(c) PROVE \E x \in SignalsOf(c) : e = x[1]
  <2>1. PICK n \in DOMAIN episode[e].work :
          LET t == episode[e].work[n]
          IN /\ t.kind = "signal" /\ t.type = c.type /\ t.statement = c.statement
             /\ c.scope \in {t.scope, Global}
    BY DEF StatedIn
  <2>2. Counts(episode[e].work[n], c)
    BY <2>1 DEF Counts
  <2>3. PICK x : x = <<e, n>>
    OBVIOUS
  <2>4. x[1] = e /\ x[2] = n /\ x = <<x[1], x[2]>> /\ e \in DOMAIN episode
    BY <2>3 DEF StatedIn
  <2>5. x \in Positions
    BY <2>1, <2>4, PositionsOneByOne
  <2>6. x \in SignalsOf(c)
    BY <2>2, <2>4, <2>5 DEF SignalsOf
  <2> QED BY <2>4, <2>6
<1>2. ASSUME NEW x \in SignalsOf(c) PROVE x[1] \in StatedIn(c)
  <2>1. x \in Positions /\ Counts(episode[x[1]].work[x[2]], c)
    BY DEF SignalsOf
  <2>2. x[1] \in DOMAIN episode /\ x[2] \in DOMAIN episode[x[1]].work
    BY <2>1, PositionsOneByOne
  <2> QED BY <2>1, <2>2 DEF StatedIn, Counts
<1>3. StatedIn(c) = {x[1] : x \in SignalsOf(c)}
  BY <1>1, <1>2
<1> QED BY <1>3 DEF EvidenceFor, RefsTold

\* And no signal is lost.
LEMMA TurnsKeepSignals == MemoryInv /\ ProvenInv /\ TurnsInv => SignalsAreKept
<1> SUFFICES ASSUME MemoryInv, ProvenInv, TurnsInv, Orderly
             PROVE  /\ \A n \in DOMAIN claim : claim[n].scope # Global =>
                         /\ claim[n].signals = Cardinality(SignalsOf(claim[n]))
                         /\ evidence[claim[n].id] = EvidenceFor(claim[n])
                         /\ claim[n].id \in indexed
                    /\ \A s \in Positions : episode[s[1]].work[s[2]].kind = "signal" =>
                         \E n \in DOMAIN claim : Counts(episode[s[1]].work[s[2]], claim[n])
  BY DEF SignalsAreKept
<1>1. /\ Single /\ AllAgree /\ AllCounted /\ AllThere /\ Settles /\ AtWork = Idle
      /\ \A x : x \in Begun <=> x \in Positions /\ TaskAt(x).kind = "signal"
  BY BetweenTurns
<1>2. ASSUME NEW n \in DOMAIN claim, claim[n].scope # Global
      PROVE  /\ claim[n].signals = Cardinality(SignalsOf(claim[n]))
             /\ evidence[claim[n].id] = EvidenceFor(claim[n])
             /\ claim[n].id \in indexed
  <2>1. PICK c : c = claim[n]
    OBVIOUS
  <2>2. Counted(c, evidence[c.id])
    BY <1>1, <2>1 DEF AllCounted, Settles
  <2>3. Told(c) = SignalsOf(c)
    <3>1. \A x : x \in Told(c) <=> x \in Positions /\ TaskAt(x).kind = "signal"
                                                    /\ Counts(TaskAt(x), c)
      BY <1>1 DEF Told
    <3>2. \A x : Counts(TaskAt(x), c) => TaskAt(x).kind = "signal"
      BY <1>2, <2>1 DEF Counts
    <3>3. \A x : x \in SignalsOf(c) <=> x \in Positions /\ Counts(TaskAt(x), c)
      BY DEF SignalsOf, TaskAt
    <3> QED BY <3>1, <3>2, <3>3
  <2>4. EvidenceFor(c) = RefsTold(SignalsOf(c))
    BY <1>2, <2>1, EvidenceOfSignals DEF MemoryInv, ProvenInv
  <2>5. ~HeldBy(AtWork, c.id)
    BY <1>1 DEF HeldBy, Idle
  <2> QED BY <1>2, <2>1, <2>2, <2>3, <2>4, <2>5 DEF Counted
<1>3. ASSUME NEW x \in Positions, TaskAt(x).kind = "signal"
      PROVE  \E n \in DOMAIN claim : Counts(TaskAt(x), claim[n])
  <2>1. PICK c, E : Final(c, E) /\ Counts(TaskAt(x), c)
    BY <1>1, <1>3 DEF AllThere
  <2> QED BY <1>1, <2>1 DEF Settles
<1> QED BY <1>2, <1>3 DEF TaskAt

\* A storer is at work only for a call that is storing.
CallsFollow == \A p \in Storers : Busy(p) => call[p].pc = "storing"

\* It stays so.
LEMMA CallsFollowStep == ConnectorInv /\ CallsFollow /\ [Next]_vars => CallsFollow'
<1> SUFFICES ASSUME ConnectorInv, CallsFollow, [Next]_vars PROVE CallsFollow'
  OBVIOUS
<1>1. DOMAIN storer = Storers /\ DOMAIN call = Storers
  BY DEF ConnectorInv, MemoryInv, StorersOK, CallsOK
<1>2. ASSUME UNCHANGED <<storer, call>> PROVE CallsFollow'
  BY <1>2 DEF CallsFollow, Busy
<1>3. ASSUME \/ \E w \in Workspaces : StartTask(w)
             \/ ListClaims \/ FindContexts \/ AnswerTask \/ StoreContext \/ ContextNotStored
      PROVE  CallsFollow'
  BY <1>2, <1>3 DEF StartTask, ListClaims, FindContexts, AnswerTask, StoreContext,
                    ContextNotStored, memoryVars
<1>4. ASSUME NEW c \in context, CountOutcomes(c) PROVE CallsFollow'
  BY <1>2, <1>4 DEF CountOutcomes, memoryVars
<1>5. ASSUME NEW p \in Storers, NEW ev \in Events, ReportEvent(p, ev) PROVE CallsFollow'
  <2>1. \A q \in Storers : q # p => storer'[q] = storer[q] /\ call'[q] = call[q]
    BY <1>1, <1>5 DEF ReportEvent, StoreEpisode
  <2>2. call'[p].pc = "storing"
    BY <1>1, <1>5 DEF ReportEvent
  <2> QED BY <2>1, <2>2 DEF CallsFollow, Busy
<1>6. ASSUME NEW p \in Storers, Store(p), UNCHANGED connectorVars PROVE CallsFollow'
  <2>1. Busy(p) /\ \A q \in Storers : q # p => storer'[q] = storer[q]
    BY <1>1, <1>6 DEF Store, PlanSignal, CountWorkspaces, PlanResolve, Promote, WriteRow,
                      ClearEvidence, InsertEvidence, ReturnClaim, IndexClaim, Perform,
                      Proceed, AtTask, Busy
  <2> QED BY <1>6, <2>1 DEF CallsFollow, Busy, connectorVars
<1>7. ASSUME NEW p \in Storers, LinkContext(p) \/ StoreOutcome(p) \/ OutcomeNotStored(p)
      PROVE CallsFollow'
  <2>1. /\ storer' = storer /\ \A q \in Storers : q # p => call'[q] = call[q]
    BY <1>1, <1>7 DEF LinkContext, StoreOutcome, OutcomeNotStored, memoryVars
  <2>2. ~Busy(p)
    BY <1>7 DEF LinkContext, StoreOutcome, OutcomeNotStored, CallsFollow
  <2> QED BY <2>1, <2>2 DEF CallsFollow, Busy
<1>8. ASSUME NEW p \in Storers, StopReporting(p) PROVE CallsFollow'
  <2>1. /\ storer'[p] = Idle
        /\ \A q \in Storers : q # p => storer'[q] = storer[q] /\ call'[q] = call[q]
    BY <1>1, <1>8 DEF StopReporting, StopStoring
  <2> QED BY <2>1 DEF CallsFollow, Busy, Idle
<1>9. CASE UNCHANGED vars
  BY <1>2, <1>9 DEF vars, memoryVars, connectorVars
<1> QED BY <1>3, <1>4, <1>5, <1>6, <1>7, <1>8, <1>9 DEF Next

\* So a step of the connector takes its turn, or is a disturbance.
LEMMA NextTakesTurns == CallsFollow /\ [Next]_vars => TurnsMove
<1> SUFFICES ASSUME CallsFollow, [Next]_vars PROVE TurnsMove
  OBVIOUS
<1>1. CASE \E w \in Workspaces : StartTask(w)
  BY <1>1 DEF StartTask, Enter, MemoryStays, TurnsMove
<1>2. ASSUME ListClaims \/ FindContexts \/ AnswerTask \/ StoreContext \/ ContextNotStored
      PROVE  TurnsMove
  BY <1>2 DEF ListClaims, FindContexts, AnswerTask, StoreContext, ContextNotStored,
              memoryVars, MemoryStays, TurnsMove
<1>3. ASSUME NEW c \in context, CountOutcomes(c) PROVE TurnsMove
  BY <1>3 DEF CountOutcomes, memoryVars, MemoryStays, TurnsMove
<1>4. ASSUME NEW p \in Storers, NEW ev \in Events, ReportEvent(p, ev) PROVE TurnsMove
  <2>1. PICK r \in WorkRequests : r = Traced(ev)
    BY TracedIsTyped
  <2>2. StoreEpisode(p, r, AnyReporting \/ host.pc # "idle")
    BY <1>4, <2>1 DEF ReportEvent
  <2>3. CASE AnyReporting \/ host.pc # "idle"
    <3>1. StoreEpisode(p, r, TRUE)
      BY <2>2, <2>3
    <3> QED BY <3>1 DEF TurnsMove
  <2>4. CASE ~(AnyReporting \/ host.pc # "idle")
    <3>1. StoreEpisode(p, r, FALSE)
      BY <2>2, <2>4
    <3>2. \A q \in Storers : ~Busy(q)
      BY <2>4 DEF AnyReporting, CallsFollow
    <3> QED BY <3>1, <3>2 DEF TurnsMove
  <2> QED BY <2>3, <2>4
<1>5. ASSUME NEW p \in Storers, Store(p) PROVE TurnsMove
  BY <1>5 DEF TurnsMove
<1>6. ASSUME NEW p \in Storers, StopReporting(p) PROVE TurnsMove
  BY <1>6 DEF TurnsMove, StopReporting
<1>7. ASSUME NEW p \in Storers, LinkContext(p) \/ StoreOutcome(p) \/ OutcomeNotStored(p)
      PROVE TurnsMove
  BY <1>7 DEF LinkContext, StoreOutcome, OutcomeNotStored, memoryVars, MemoryStays, TurnsMove
<1>8. CASE UNCHANGED vars
  BY <1>8 DEF vars, memoryVars, MemoryStays, TurnsMove
<1> QED BY <1>1, <1>2, <1>3, <1>4, <1>5, <1>6, <1>7, <1>8 DEF Next

\* So does a step of the memory alone.
LEMMA MemoryNextTakesTurns == [MemoryNext]_memoryVars => TurnsMove
<1> SUFFICES ASSUME [MemoryNext]_memoryVars PROVE TurnsMove
  OBVIOUS
<1>1. ASSUME NEW p \in Storers, Store(p) \/ StopStoring(p) PROVE TurnsMove
  BY <1>1 DEF TurnsMove
<1>2. ASSUME NEW p \in Storers, NEW r \in Requests,
             StoreEpisode(p, r, \E q \in Storers : Busy(q))
      PROVE TurnsMove
  <2>1. r \in WorkRequests
    BY MemoryAssumption DEF MemoryAssumption
  <2>2. CASE \E q \in Storers : Busy(q)
    <3>1. StoreEpisode(p, r, TRUE)
      BY <1>2, <2>2
    <3> QED BY <2>1, <3>1 DEF TurnsMove
  <2>3. CASE ~\E q \in Storers : Busy(q)
    <3>1. StoreEpisode(p, r, FALSE)
      BY <1>2, <2>3
    <3> QED BY <2>1, <2>3, <3>1 DEF TurnsMove
  <2> QED BY <2>2, <2>3
<1>3. CASE UNCHANGED memoryVars
  BY <1>3 DEF memoryVars, MemoryStays, TurnsMove
<1> QED BY <1>1, <1>2, <1>3 DEF MemoryNext

\* Turns are kept in every behaviour of the connector.
LEMMA TurnsAreKept == Spec => [](MemoryInv /\ ProvenInv /\ TurnsInv)
<1> DEFINE I == ConnectorInv /\ ProvenInv /\ CallsFollow /\ TurnsInv
<1>1. Init => I
  <2> SUFFICES ASSUME Init PROVE I
    OBVIOUS
  <2>1. MemoryInit
    BY DEF Init
  <2>2. CallsFollow
    BY <2>1 DEF MemoryInit, CallsFollow, Busy, Idle
  <2> QED BY <2>1, <2>2, ConnectorInvInit, ProvenInit, TurnsInit
<1>2. I /\ [Next]_vars => I'
  <2> SUFFICES ASSUME I, [Next]_vars PROVE I'
    OBVIOUS
  <2>1. MemoryInv
    BY DEF ConnectorInv
  <2>2. ConnectorInv'
    BY ConnectorInvStep
  <2>3. ProvenInv'
    BY <2>1, NextMovesMemory, ProvenStep
  <2>4. CallsFollow'
    BY CallsFollowStep
  <2>5. TurnsInv'
    BY <2>1, NextTakesTurns, TurnsStep
  <2> QED BY <2>2, <2>3, <2>4, <2>5
<1>3. I => MemoryInv /\ ProvenInv /\ TurnsInv
  BY DEF ConnectorInv
<1> HIDE DEF I
<1> QED BY <1>1, <1>2, <1>3, PTL DEF Spec

\* And of the memory with other hosts.
LEMMA MemoryTurnsAreKept == MemorySpec => [](MemoryInv /\ ProvenInv /\ TurnsInv)
<1> DEFINE I == MemoryInv /\ ProvenInv /\ TurnsInv
<1>1. MemoryInit => I
  BY MemoryInvInit, ProvenInit, TurnsInit
<1>2. I /\ [MemoryNext]_memoryVars => I'
  <2> SUFFICES ASSUME I, [MemoryNext]_memoryVars PROVE I'
    OBVIOUS
  <2>1. MemoryMoves \/ MemoryStays
    BY MemoryNextMoves
  <2>2. MemoryInv' /\ ProvenInv'
    BY <2>1, MemoryInvStep, ProvenStep
  <2>3. TurnsInv'
    BY MemoryNextTakesTurns, TurnsStep
  <2> QED BY <2>2, <2>3
<1> QED BY <1>1, <1>2, PTL DEF MemorySpec

\* Storers that take turns leave no two accepted claims that contradict each
\* other.
THEOREM AcceptedStayAgreed == Spec => []AcceptedAgree
BY TurnsAreKept, TurnsAgree, PTL

\* They lose no signal.
THEOREM SignalsStayKept == Spec => []SignalsAreKept
BY TurnsAreKept, TurnsKeepSignals, PTL

\* Nor do other hosts than the connector.
THEOREM MemoryKeepsTurns == MemorySpec => [](AcceptedAgree /\ SignalsAreKept)
<1>1. MemoryInv /\ ProvenInv /\ TurnsInv => AcceptedAgree /\ SignalsAreKept
  BY TurnsAgree, TurnsKeepSignals
<1> QED BY <1>1, MemoryTurnsAreKept, PTL
================================================================================
