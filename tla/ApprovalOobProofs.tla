-------------------------- MODULE ApprovalOobProofs --------------------------
(***************************************************************************)
(* An out-of-band approval costs exactly one challenge, spent in time, for *)
(* any number of approvals and challenges and any lifetime.                *)
(***************************************************************************)
EXTENDS ApprovalOob, TLAPS

\* A verified challenge was verified in the past, and within its lifetime.
VerifiedEarlier ==
  \A c \in Challenges :
    challenge[c].status = "verified" =>
      /\ challenge[c].verified_at # Never
      /\ challenge[c].verified_at <= clock

\* What is preserved: the two properties need each other's state only through
\* the type invariant and the age of a verification.
OobInv == OobTypeOK /\ OnePerApproval /\ SpentInTime /\ VerifiedEarlier

USE OobAssumption DEF OobAssumption

\* The rows of the tables, before anything happened.
LEMMA OobStart == Init => OobInv
BY DEF Init, OobInv, OobTypeOK, OnePerApproval, SpentInTime, VerifiedEarlier,
       NoChallenge, ChallengeRows, Spent, Never

\* A step preserves the types.
LEMMA OobType == OobTypeOK /\ [Next]_vars => OobTypeOK'
<1> SUFFICES ASSUME OobTypeOK, [Next]_vars PROVE OobTypeOK'
  OBVIOUS
<1> USE DEF OobTypeOK
<1>1. ASSUME NEW a \in Approvals, NEW c \in Challenges, StartChallenge(a, c)
      PROVE OobTypeOK'
  <2> DEFINE row ==
        [status |-> "pending", approval |-> a, expires_at |-> clock + Lifetime,
         verified_at |-> Never, consumed_at |-> Never]
  <2>1. clock + Lifetime \in Nat
    OBVIOUS
  <2>2. row \in ChallengeRows
    BY <2>1 DEF ChallengeRows, Never
  <2>3. challenge' = [challenge EXCEPT ![c] = row]
    BY <1>1 DEF StartChallenge
  <2> QED
    BY <1>1, <2>2, <2>3 DEF StartChallenge
<1>2. ASSUME NEW a \in Approvals, NEW c \in Challenges, ApproveOob(a, c)
      PROVE OobTypeOK'
  <2>1. /\ challenge[c] \in ChallengeRows
        /\ clock \in Nat
        /\ challenge' = [challenge EXCEPT ![c] =
             [challenge[c] EXCEPT !.status = "consumed", !.consumed_at = clock]]
    BY <1>2 DEF ApproveOob, Spend
  <2>2. [challenge[c] EXCEPT !.status = "consumed", !.consumed_at = clock]
          \in ChallengeRows
    BY <2>1 DEF ChallengeRows
  <2> QED
    BY <1>2, <2>1, <2>2 DEF ApproveOob, DecideAs
<1>3. ASSUME NEW c \in Challenges, VerifyChallenge(c) PROVE OobTypeOK'
  <2>1. /\ challenge[c] \in ChallengeRows
        /\ clock \in Nat
        /\ challenge' = [challenge EXCEPT ![c] =
             [challenge[c] EXCEPT !.status = "verified", !.verified_at = clock]]
    BY <1>3 DEF VerifyChallenge
  <2>2. [challenge[c] EXCEPT !.status = "verified", !.verified_at = clock]
          \in ChallengeRows
    BY <2>1 DEF ChallengeRows
  <2> QED
    BY <1>3, <2>1, <2>2 DEF VerifyChallenge
<1>4. ASSUME NEW a \in Approvals, Approve(a) PROVE OobTypeOK'
  BY <1>4 DEF Approve, DecideAs
<1>5. ASSUME NEW a \in Approvals, Deny(a) PROVE OobTypeOK'
  BY <1>5 DEF Deny, DecideAs
<1>6. ASSUME NEW a \in Approvals, CancelOperation(a) PROVE OobTypeOK'
  BY <1>6 DEF CancelOperation
<1>7. CASE Tick
  BY <1>7 DEF Tick
<1>8. CASE UNCHANGED vars
  BY <1>8 DEF vars
<1> QED
  BY <1>1, <1>2, <1>3, <1>4, <1>5, <1>6, <1>7, <1>8 DEF Next

\* A step preserves the rest of the invariant.
LEMMA OobStep == OobInv /\ [Next]_vars => OobInv'
<1> SUFFICES ASSUME OobInv, [Next]_vars PROVE OobInv'
  OBVIOUS
<1>0. OobTypeOK /\ OobTypeOK'
  BY OobType DEF OobInv
<1> DEFINE Rest == OnePerApproval /\ SpentInTime /\ VerifiedEarlier
<1> USE <1>0 DEF OobInv
<1>1. ASSUME NEW a \in Approvals, NEW c \in Challenges, StartChallenge(a, c)
      PROVE Rest'
  <2>1. /\ challenge[c].status = "absent"
        /\ challenge'[c].status = "pending"
        /\ \A e \in Challenges \ {c} : challenge'[e] = challenge[e]
        /\ approval' = approval /\ clock' = clock
    BY <1>1 DEF StartChallenge, OobTypeOK, NoChallenge
  <2>2. \A e \in Challenges : Spent(e)' <=> Spent(e)
    BY <2>1 DEF Spent
  <2>3. \A e \in Challenges : Spent(e) => challenge'[e] = challenge[e]
    BY <2>1 DEF Spent
  <2>4. OnePerApproval'
    BY <2>1, <2>2, <2>3 DEF OnePerApproval
  <2>5. SpentInTime'
    BY <2>1, <2>2, <2>3 DEF SpentInTime
  <2>6. VerifiedEarlier'
    BY <2>1 DEF VerifiedEarlier
  <2> QED
    BY <2>4, <2>5, <2>6
<1>2. ASSUME NEW a \in Approvals, NEW c \in Challenges, ApproveOob(a, c)
      PROVE Rest'
  <2>1. /\ a \in OobRequired /\ approval[a] = "pending"
        /\ challenge[c].status = "verified" /\ challenge[c].approval = a
        /\ clock <= challenge[c].expires_at
        /\ approval' = [approval EXCEPT ![a] = "consumed"] /\ clock' = clock
    BY <1>2 DEF ApproveOob, Spendable, InTime, Undecided, DecideAs
  <2>2. /\ challenge'[c].status = "consumed"
        /\ challenge'[c].approval = a
        /\ challenge'[c].expires_at = challenge[c].expires_at
        /\ challenge'[c].verified_at = challenge[c].verified_at
        /\ challenge'[c].consumed_at = clock
        /\ \A e \in Challenges \ {c} : challenge'[e] = challenge[e]
    BY <1>2, <2>1 DEF ApproveOob, Spend, OobTypeOK, ChallengeRows
  <2>3. \A e \in Challenges : ~(Spent(e) /\ challenge[e].approval = a)
    BY <2>1 DEF OnePerApproval
  <2>4. \A e \in Challenges : Spent(e)' <=> Spent(e) \/ e = c
    BY <2>2 DEF Spent
  <2>5. \A e \in Challenges : challenge'[e].approval = challenge[e].approval
    BY <2>1, <2>2
  <2>6. \A b \in OobRequired : approval'[b] = "consumed" <=>
                                 approval[b] = "consumed" \/ b = a
    BY <2>1 DEF OobTypeOK
  <2>7. ASSUME NEW b \in OobRequired
        PROVE  approval'[b] = "consumed" <=>
                 \E e \in Challenges : Spent(e)' /\ challenge'[e].approval = b
    BY <2>1, <2>4, <2>5, <2>6 DEF OnePerApproval
  <2>8. ASSUME NEW d \in Challenges, NEW e \in Challenges,
               Spent(d)', Spent(e)', challenge'[d].approval = challenge'[e].approval
        PROVE  d = e
    BY <2>1, <2>3, <2>4, <2>5, <2>8 DEF OnePerApproval
  <2>9. OnePerApproval'
    BY <2>7, <2>8 DEF OnePerApproval
  <2>10. SpentInTime'
    <3> SUFFICES ASSUME NEW e \in Challenges, Spent(e)'
                 PROVE  /\ challenge'[e].verified_at # Never
                        /\ challenge'[e].verified_at <= challenge'[e].consumed_at
                        /\ challenge'[e].consumed_at <= challenge'[e].expires_at
      BY DEF SpentInTime, Never
    <3>1. CASE e = c
      BY <3>1, <2>1, <2>2 DEF VerifiedEarlier
    <3>2. CASE e # c
      BY <3>2, <2>2, <2>4 DEF SpentInTime
    <3> QED
      BY <3>1, <3>2
  <2>11. VerifiedEarlier'
    BY <2>1, <2>2 DEF VerifiedEarlier
  <2> QED
    BY <2>9, <2>10, <2>11
<1>3. ASSUME NEW c \in Challenges, VerifyChallenge(c) PROVE Rest'
  <2>1. /\ challenge[c].status = "pending"
        /\ challenge'[c].status = "verified"
        /\ challenge'[c].verified_at = clock
        /\ \A e \in Challenges \ {c} : challenge'[e] = challenge[e]
        /\ approval' = approval /\ clock' = clock
    BY <1>3 DEF VerifyChallenge, OobTypeOK, ChallengeRows
  <2>2. \A e \in Challenges : Spent(e)' <=> Spent(e)
    BY <2>1 DEF Spent
  <2>3. \A e \in Challenges : Spent(e) => challenge'[e] = challenge[e]
    BY <2>1 DEF Spent
  <2>4. OnePerApproval'
    BY <2>1, <2>2, <2>3 DEF OnePerApproval
  <2>5. SpentInTime'
    BY <2>1, <2>2, <2>3 DEF SpentInTime
  <2>6. VerifiedEarlier'
    BY <2>1 DEF VerifiedEarlier, OobTypeOK, Never
  <2> QED
    BY <2>4, <2>5, <2>6
<1>4. ASSUME NEW a \in Approvals, Approve(a) \/ Deny(a) PROVE Rest'
  <2>1. /\ challenge' = challenge /\ clock' = clock
        /\ approval[a] = "pending"
        /\ \A b \in OobRequired : approval'[b] = "consumed" <=> approval[b] = "consumed"
    BY <1>4 DEF Approve, Deny, DecideAs, Undecided, OobTypeOK
  <2> QED
    BY <2>1 DEF OnePerApproval, SpentInTime, VerifiedEarlier, Spent, Never
<1>5. ASSUME NEW a \in Approvals, CancelOperation(a) PROVE Rest'
  BY <1>5 DEF CancelOperation, OnePerApproval, SpentInTime, VerifiedEarlier,
              Spent, Never
<1>6. CASE Tick
  <2>1. challenge' = challenge /\ approval' = approval /\ clock' = clock + 1
    BY <1>6 DEF Tick
  <2>2. OnePerApproval' /\ SpentInTime'
    BY <2>1 DEF OnePerApproval, SpentInTime, Spent, Never
  <2>3. VerifiedEarlier'
    BY <2>1 DEF VerifiedEarlier, OobTypeOK, ChallengeRows, Never
  <2> QED
    BY <2>2, <2>3
<1>7. CASE UNCHANGED vars
  BY <1>7 DEF vars, OnePerApproval, SpentInTime, VerifiedEarlier, Spent, Never
<1>8. Rest'
  BY <1>1, <1>2, <1>3, <1>4, <1>5, <1>6, <1>7 DEF Next
<1> QED
  BY <1>8

\* The invariant holds in every reachable state.
LEMMA OobAlways == Spec => []OobInv
BY OobStart, OobStep, PTL DEF Spec

\* The rows keep their types.
THEOREM OobTypeCorrect == Spec => []OobTypeOK
BY OobAlways, PTL DEF OobInv

\* An approval that needs a challenge is consumed with exactly one, its own,
\* and a refused decision spends none.
THEOREM OnePerApprovalHolds == Spec => []OnePerApproval
BY OobAlways, PTL DEF OobInv

\* No challenge is spent before it is verified or after it has expired.
THEOREM SpentInTimeHolds == Spec => []SpentInTime
BY OobAlways, PTL DEF OobInv

=============================================================================
