---------------------------- MODULE ApprovalOob ----------------------------
(***************************************************************************)
(* Out-of-band challenges of an approval: start, verify, and the decision  *)
(* that spends one, with other decisions, cancellations and the clock in   *)
(* between.  Every call is one SQLite transaction; a replay under a stored *)
(* idempotency key and a refused call change no row, so a refusal late in  *)
(* the decision's transaction gives the challenge back.  The clock is an   *)
(* external one that does not go backwards.                                *)
(***************************************************************************)
EXTENDS Naturals

CONSTANTS
  Approvals,    \* approval items, each of an operation of its own
  OobRequired,  \* those with approval_mode "oob_required"
  Challenges,   \* challenges ever started
  NoApproval,   \* the approval of a challenge that is not stored
  Lifetime,     \* ticks from start to expires_at (5 minutes)
  MaxTime       \* bound: the last tick

ASSUME OobAssumption ==
  /\ OobRequired \subseteq Approvals
  /\ NoApproval \notin Approvals
  /\ Lifetime \in Nat
  /\ MaxTime \in Nat

VARIABLES
  approval,   \* approval_items.status
  operation,  \* operations.state of each approval's operation
  challenge,  \* oob_challenges
  clock       \* external: the time

vars == <<approval, operation, challenge, clock>>

Never == 0    \* a time column that is NULL

-----------------------------------------------------------------------------

ChallengeRows ==
  [status : {"absent", "pending", "verified", "consumed"},
   approval : Approvals \cup {NoApproval},
   expires_at : Nat,
   verified_at : Nat,
   consumed_at : Nat]

OobTypeOK ==
  /\ approval \in [Approvals -> {"pending", "consumed", "denied"}]
  /\ operation \in
       [Approvals -> {"awaiting_approval", "running", "blocked", "cancelled"}]
  /\ challenge \in [Challenges -> ChallengeRows]
  /\ clock \in 1 .. MaxTime + 1

NoChallenge ==
  [status |-> "absent", approval |-> NoApproval,
   expires_at |-> Never, verified_at |-> Never, consumed_at |-> Never]

Init ==
  /\ approval = [a \in Approvals |-> "pending"]
  /\ operation = [a \in Approvals |-> "awaiting_approval"]
  /\ challenge = [c \in Challenges |-> NoChallenge]
  /\ clock = 1

-----------------------------------------------------------------------------

\* The operation's state does not matter here.
StartChallenge(a, c) ==
  /\ challenge[c].status = "absent"
  /\ a \in OobRequired
  /\ approval[a] = "pending"
  /\ challenge' = [challenge EXCEPT ![c] =
       [status |-> "pending", approval |-> a, expires_at |-> clock + Lifetime,
        verified_at |-> Never, consumed_at |-> Never]]
  /\ UNCHANGED <<approval, operation, clock>>

\* Variant: a challenge does not age.
NeverTooLate(c) == challenge[c].expires_at # Never
\* now > expires_at is refused.
InTime(c) == clock <= challenge[c].expires_at

\* The approval's own state does not matter here.  A challenge verified or
\* consumed before is answered "verified" again.
VerifyChallenge(c) ==
  /\ challenge[c].status = "pending"
  /\ InTime(c)
  /\ challenge' = [challenge EXCEPT ![c] =
       [@ EXCEPT !.status = "verified", !.verified_at = clock]]
  /\ UNCHANGED <<approval, operation, clock>>

\* The state both decisions of consume_approval_atomic require.
Undecided(a) == approval[a] = "pending" /\ operation[a] = "awaiting_approval"

DecideAs(a, status, state) ==
  /\ approval' = [approval EXCEPT ![a] = status]
  /\ operation' = [operation EXCEPT ![a] = state]

\* An approval of any other mode is granted without a challenge.
Approve(a) ==
  /\ a \notin OobRequired
  /\ Undecided(a)
  /\ DecideAs(a, "consumed", "running")
  /\ UNCHANGED <<challenge, clock>>

\* The challenge presented with the decision can be spent on it.
Spendable(a, c) ==
  /\ challenge[c].approval = a
  /\ challenge[c].status = "verified"
  /\ InTime(c)

Spend(c) ==
  challenge' = [challenge EXCEPT ![c] =
    [@ EXCEPT !.status = "consumed", !.consumed_at = clock]]

\* Variant: the challenge is spent in a transaction of its own.
SpendBeforeOperation(a, c) ==
  /\ a \in OobRequired
  /\ approval[a] = "pending"
  /\ Spendable(a, c)
  /\ Spend(c)
  /\ IF Undecided(a) THEN DecideAs(a, "consumed", "running")
                     ELSE UNCHANGED <<approval, operation>>
  /\ UNCHANGED clock

\* One transaction spends the challenge, checks the operation and decides.
ApproveOob(a, c) ==
  /\ a \in OobRequired
  /\ Spendable(a, c)
  /\ Undecided(a)
  /\ Spend(c)
  /\ DecideAs(a, "consumed", "running")
  /\ UNCHANGED clock

\* A denial needs no challenge and spends none.
Deny(a) ==
  /\ Undecided(a)
  /\ DecideAs(a, "denied", "blocked")
  /\ UNCHANGED <<challenge, clock>>

\* The cancel endpoint changes the operation and leaves its approval pending.
CancelOperation(a) ==
  /\ operation[a] \in {"awaiting_approval", "running"}
  /\ operation' = [operation EXCEPT ![a] = "cancelled"]
  /\ UNCHANGED <<approval, challenge, clock>>

Tick ==
  /\ clock <= MaxTime
  /\ clock' = clock + 1
  /\ UNCHANGED <<approval, operation, challenge>>

-----------------------------------------------------------------------------

Next ==
  \/ \E a \in Approvals, c \in Challenges : StartChallenge(a, c) \/ ApproveOob(a, c)
  \/ \E c \in Challenges : VerifyChallenge(c)
  \/ \E a \in Approvals : Approve(a) \/ Deny(a) \/ CancelOperation(a)
  \/ Tick

Spec == Init /\ [][Next]_vars

-----------------------------------------------------------------------------

Spent(c) == challenge[c].status = "consumed"

\* A spent challenge paid for the approval it belongs to, each such approval
\* took exactly one, and a decision that was refused spent none
\* (storage_semantics_txn.md 7.1 to 7.3).
OnePerApproval ==
  /\ \A a \in OobRequired :
       approval[a] = "consumed" <=>
         \E c \in Challenges : Spent(c) /\ challenge[c].approval = a
  /\ \A c, e \in Challenges :
       /\ Spent(c) /\ Spent(e)
       /\ challenge[c].approval = challenge[e].approval
       => c = e

\* A spent challenge had been verified, and it was spent before it expired
\* however long ago the verification was.
SpentInTime ==
  \A c \in Challenges :
    Spent(c) =>
      /\ challenge[c].verified_at # Never
      /\ challenge[c].verified_at <= challenge[c].consumed_at
      /\ challenge[c].consumed_at <= challenge[c].expires_at

=============================================================================
