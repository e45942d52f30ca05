------------------------------ MODULE StakeMail -------------------------------
(***************************************************************************)
(* Staked messages, pkg/stakemail: the sender locks an amount that is      *)
(* returned when the message is opened and forfeited when it is marked as  *)
(* spam; of a stake that expires only the status changes.  A client keeps  *)
(* one record for each message ID.                                         *)
(*                                                                         *)
(* Without a contract the client only simulates the transactions; with one *)
(* it asks a node for the balance first, which may fail.  The contract is  *)
(* not written yet: a lock leaves the balance as it is.                    *)
(***************************************************************************)
EXTENDS Integers, Sequences

CONSTANTS
  MsgIds,
  Amounts,       \* the amounts asked for
  MinimumStake,
  Policies,      \* "burn", "charity", "recipient" and what a caller else may say
  Balance,       \* what the sender owns
  StakeTTL,
  MaxStakeClock, \* bound on the time
  MaxLocks       \* bound on the stakes locked

ASSUME StakeAssumption ==
  /\ Amounts \subseteq Nat /\ MinimumStake \in Nat /\ Balance \in Nat
  /\ StakeTTL \in Nat /\ MaxStakeClock \in Nat /\ MaxLocks \in Nat

VARIABLES
  escrow,     \* whether the client has a contract
  stakes,     \* messages: for each ID the record
  stakeClock,
  chain       \* history: the transactions the client has asked for

stakeVars == <<escrow, stakes, stakeClock, chain>>

NoStake == [status |-> "none"]

Transaction(op, id, amount, to) == [op |-> op, id |-> id, amount |-> amount, to |-> to]

StakeInit ==
  /\ escrow \in BOOLEAN /\ stakes = [id \in MsgIds |-> NoStake]
  /\ stakeClock = 0 /\ chain = <<>>

Submit(op, id, amount, to) == chain' = Append(chain, Transaction(op, id, amount, to))

\* What Stake refuses; it holds for every call.
StakeRefuses(amount) == amount < MinimumStake

LockFails(amount) == escrow /\ amount > Balance

\* Stake: the record of an earlier stake of this message is replaced.
Stake(id, amount, policy) ==
  /\ ~StakeRefuses(amount) /\ ~LockFails(amount)
  /\ Len(SelectSeq(chain, LAMBDA t : t.op = "lock")) < MaxLocks
  /\ stakes' = [stakes EXCEPT ![id] =
       [status |-> "locked", amount |-> amount, policy |-> policy,
        expires |-> stakeClock + StakeTTL]]
  /\ Submit("lock", id, amount, "escrow")
  /\ UNCHANGED <<escrow, stakeClock>>

Locked(id) == stakes[id].status = "locked"

Known(id) == stakes[id].status # "none"

Resolve(id, status) == stakes' = [stakes EXCEPT ![id].status = status]

ReleaseAnyStatus(id) ==
  /\ Known(id)
  /\ Resolve(id, "released")
  /\ Submit("release", id, stakes[id].amount, "sender")
  /\ UNCHANGED <<escrow, stakeClock>>

\* Release, when the message is opened.
ReleaseStake(id) ==
  /\ Known(id) /\ Locked(id)
  /\ Resolve(id, "released")
  /\ Submit("release", id, stakes[id].amount, "sender")
  /\ UNCHANGED <<escrow, stakeClock>>

\* slashDestination.  Nothing sets the charity's address, so it is the zero address.
SlashDestination(policy) == IF policy = "recipient" THEN "recipient" ELSE "zero"

\* Slash, when the message is marked as spam.
Slash(id) ==
  /\ Known(id) /\ Locked(id)
  /\ Resolve(id, "slashed")
  /\ Submit("slash", id, stakes[id].amount, SlashDestination(stakes[id].policy))
  /\ UNCHANGED <<escrow, stakeClock>>

\* ExpireStale: every stale stake at once.  No transaction returns the amount.
Stale == {id \in MsgIds : Locked(id) /\ stakeClock > stakes[id].expires}

ExpireStale ==
  /\ Stale # {}
  /\ stakes' = [id \in MsgIds |-> IF id \in Stale THEN [stakes[id] EXCEPT !.status = "expired"]
                                  ELSE stakes[id]]
  /\ UNCHANGED <<escrow, stakeClock, chain>>

StakeTick ==
  /\ stakeClock < MaxStakeClock
  /\ stakeClock' = stakeClock + 1
  /\ UNCHANGED <<escrow, stakes, chain>>

StakeNext ==
  \/ \E id \in MsgIds, amount \in Amounts, policy \in Policies : Stake(id, amount, policy)
  \/ \E id \in MsgIds : ReleaseStake(id) \/ Slash(id)
  \/ ExpireStale
  \/ StakeTick

------------------------------------------------------------------------------
(***************************************************************************)
(* Properties                                                              *)
(***************************************************************************)
Statuses == {"none", "locked", "released", "slashed", "expired"}

StakeTypeOK ==
  /\ \A id \in MsgIds : stakes[id].status \in Statuses
  /\ \A id \in MsgIds : Known(id) => stakes[id].amount \in Amounts /\ stakes[id].policy \in Policies
  /\ stakeClock \in 0..MaxStakeClock
  /\ \A n \in DOMAIN chain : chain[n].op \in {"lock", "release", "slash"}

\* The lock that a transaction pays out: the last one of its message before it.
LockOf(n) ==
  CHOOSE k \in 1..n :
    /\ chain[k].op = "lock" /\ chain[k].id = chain[n].id
    /\ \A l \in (k + 1)..n : chain[l].id = chain[n].id => chain[l].op # "lock"

Payouts == {n \in DOMAIN chain : chain[n].op # "lock"}

\* The last transaction about a message, if there is one, pays its stake out.
IsPaidOut(id) ==
  \E n \in Payouts : chain[n].id = id /\ \A k \in DOMAIN chain : chain[k].id = id => k <= n

\* A stake is returned to the sender or forfeited, never both and never twice, in
\* the amount that was locked: one that is released or slashed has the transaction,
\* and one that is locked has none yet.  Of one that has expired it says no more:
\* stakemail.go:32 has it returned, and no transaction of the code returns it.
PaidOutOnce ==
  /\ \A n \in Payouts : \A k \in Payouts \ {n} :
       chain[n].id = chain[k].id => LockOf(n) # LockOf(k)
  /\ \A n \in Payouts : chain[n].amount = chain[LockOf(n)].amount
  /\ \A id \in MsgIds :
       /\ stakes[id].status \in {"released", "slashed"} => IsPaidOut(id)
       /\ Locked(id) => ~IsPaidOut(id)

==============================================================================
