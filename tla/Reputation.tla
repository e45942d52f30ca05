------------------------------ MODULE Reputation ------------------------------
(***************************************************************************)
(* A reputation profile, pkg/reputation: counters, receipts that other     *)
(* people have signed, and a score computed from them whenever one of them *)
(* changes.  Scores are in thousandths, as the code rounds them (the total *)
(* is that of the rounded parts here), and a clock tick is the time in     *)
(* which the weight of a receipt halves.                                   *)
(***************************************************************************)
EXTENDS Integers, Sequences

CONSTANTS
  MaxRepClock, \* bound on the time
  MaxCount     \* bound on each counter

ASSUME ReputationAssumption == MaxRepClock \in Nat /\ MaxCount \in Nat

VARIABLES
  profile, \* the DIDDocument
  repClock

repVars == <<profile, repClock>>

NoScores == [reliability |-> 0, receipts |-> 0, stake |-> 0, age |-> 0]

Never == -1

NewProfile ==
  [receipts |-> <<>>, total |-> 0, kept |-> 0, staked |-> 0, score |-> 0,
   parts |-> NoScores, updated |-> Never]

RepInit == profile = NewProfile /\ repClock = 0

\* math.Round of n / d.
Rounded(n, d) == (2 * n + d) \div (2 * d)

\* The share n / d in thousandths.
Thousandths(n, d) == Rounded(1000 * n, d)

Reliability(p) == IF p.total = 0 THEN 0 ELSE Thousandths(p.kept, p.total)

\* The weight of a receipt, which halves with every tick.
Weight(age) ==
  LET halved[n \in 0..age] == IF n = 0 THEN 1000 ELSE halved[n - 1] \div 2
  IN  halved[age]

\* Those of the receipts together.
WeightedSum(p) ==
  LET sum[n \in 0..Len(p.receipts)] ==
        IF n = 0 THEN 0 ELSE sum[n - 1] + Weight(repClock - p.receipts[n])
  IN  sum[Len(p.receipts)]

ReceiptScore(p) == Thousandths(WeightedSum(p), WeightedSum(p) + 20000)

StakeScore(p) == Thousandths(p.staked, p.staked + 10)

LongevityUncapped(p) == IF p.updated = Never THEN 0 ELSE 1000 * (repClock - p.updated)

\* The time since the last Recompute, not since the profile was made.
Longevity(p) == IF p.updated = Never \/ repClock = p.updated THEN 0 ELSE 1000

\* Recompute: the score of what p has become.
Recompute(p) ==
  LET parts == [reliability |-> Reliability(p), receipts |-> ReceiptScore(p),
                stake |-> StakeScore(p), age |-> Longevity(p)]
      weighted == 40 * parts.reliability + 35 * parts.receipts + 15 * parts.stake + 10 * parts.age
  IN  [p EXCEPT !.parts = parts, !.score = Rounded(weighted, 100), !.updated = repClock]

\* AddReceipt, of a receipt whose signature is right.  Whose commitment it is
\* about, and whether it has been added before, is not looked at.
AddReceipt(issued) ==
  /\ profile.kept < MaxCount
  /\ profile' = Recompute([profile EXCEPT !.receipts = Append(@, issued), !.kept = @ + 1])
  /\ UNCHANGED repClock

RecordCommitment ==
  /\ profile.total < MaxCount
  /\ profile' = Recompute([profile EXCEPT !.total = @ + 1])
  /\ UNCHANGED repClock

RecordStake ==
  /\ profile.staked < MaxCount
  /\ profile' = Recompute([profile EXCEPT !.staked = @ + 1])
  /\ UNCHANGED repClock

RepTick ==
  /\ repClock < MaxRepClock
  /\ repClock' = repClock + 1
  /\ UNCHANGED profile

RepNext ==
  \/ \E issued \in 0..repClock : AddReceipt(issued)
  \/ RecordCommitment
  \/ RecordStake
  \/ RepTick

\* ScoreToTrustLevel.
TrustLevel(score) ==
  CASE score >= 900 -> "verified"
    [] score >= 750 /\ score < 900 -> "high"
    [] score >= 500 /\ score < 750 -> "established"
    [] score >= 200 /\ score < 500 -> "low"
    [] score < 200 -> "unknown"

------------------------------------------------------------------------------
(***************************************************************************)
(* Properties                                                              *)
(***************************************************************************)
RepTypeOK ==
  /\ profile.receipts \in Seq(0..MaxRepClock)
  /\ {profile.total, profile.kept, profile.staked} \subseteq 0..MaxCount
  /\ profile.updated \in Never..repClock /\ repClock \in 0..MaxRepClock

\* "0.0-1.0": as long as no more commitments are kept than were recorded, the score
\* and its parts are within these bounds, whatever the order of the calls.  (AddReceipt
\* counts a commitment as kept that RecordCommitment has not counted: reliability is
\* then above 1.)
ScoreIsAShare ==
  profile.kept <= profile.total =>
    {profile.parts[k] : k \in DOMAIN profile.parts} \cup {profile.score} \subseteq 0..1000

==============================================================================
