---------------------------- MODULE BatchRewards ----------------------------
(***************************************************************************)
(* Batch reward settlement (contracts/batch-rewards/src/gas.rs) over the   *)
(* staking contract's StakeEntry records and Config.                       *)
(*                                                                         *)
(* distribute_rewards runs its whole loop inside one atomic call: the      *)
(* loop is a function over the list index that threads the in-memory      *)
(* state (storage, running total, recipient count) from one iteration to  *)
(* the next, so an iteration sees the writes of the earlier ones.  The     *)
(* staking calls it shares the records with (initialize, stake, unstake,  *)
(* compute_reward) are not in src/ and are modelled from the spec.        *)
(* Token movements of stake and unstake are left out: no property here    *)
(* is about balances outside the StakeEntry records.                       *)
(***************************************************************************)
EXTENDS Integers, Sequences, FiniteSets

CONSTANTS
    Address,      \* stakers and the admin
    NoConfig,     \* DataKey::Config absent
    U64Max,       \* the last ledger timestamp of the model
    Rate,         \* reward rates initialize may set
    MinStake,     \* minimum stakes initialize may set
    RateScale,    \* the fixed-point scale of compute_reward
    StakeAmount,  \* amounts passed to stake and unstake
    Bonus,        \* i128 bonus_amounts entries
    MaxLen,       \* longest stakers / bonus_amounts list passed
    MaxBatches,   \* bound on the number of distribute_rewards calls
    MaxBalance    \* bound on a staked balance reached through stake

ASSUME U64MaxAssumption == U64Max \in Nat \ {0}
ASSUME ScaleAssumption == RateScale \in Nat \ {0}
ASSUME InputAssumption ==
    /\ Rate \subseteq Nat /\ MinStake \subseteq Nat /\ StakeAmount \subseteq Int
    /\ Bonus \subseteq Int
ASSUME BoundAssumption ==
    MaxLen \in Nat /\ MaxBatches \in Nat /\ MaxBalance \in Nat

U64 == 0..U64Max

(* StakeEntry, and the default that unwrap_or_default reads for an absent  *)
(* record; removing a record makes it read as the default again.           *)
StakeEntry == [balance: Int, staked_at: U64]
Default == [balance |-> 0, staked_at |-> 0]

VARIABLES
    now,       \* the ledger timestamp
    config,    \* DataKey::Config: [admin, reward_rate, min_stake] or NoConfig
    stake,     \* stake[a]: DataKey::StakeEntry(a), Default when absent
    events,    \* the batch events published, in order
    batches,   \* ghost: number of distribute_rewards calls (bounded)
    lastBatch, \* ghost: the stakers and per-index time rewards of the last batch
    changedAt  \* ghost: changedAt[a] = time of the last change of a's balance

vars == <<now, config, stake, events, batches, lastBatch, changedAt>>

-----------------------------------------------------------------------------
(* compute_reward (spec 4.1): floor(balance * rate * elapsed / scale), and *)
(* 0 for a zero balance.                                                   *)
ComputeReward(balance, staked_at, t, rate) ==
    IF balance = 0 THEN 0
    ELSE (balance * rate * (t - staked_at)) \div RateScale

(* The loop's early `continue` for a staker with nothing staked and no     *)
(* bonus: no computation and no write.                                     *)
Skip(e, bonus) == e.balance = 0 /\ bonus = 0

(* The reward computed from the stake itself, 0 when nothing is staked.    *)
TimeReward(e, rate) ==
    IF e.balance > 0 THEN ComputeReward(e.balance, e.staked_at, now, rate) ELSE 0

(* A dropped `total_user_reward <= 0` check; not used by the             *)
(* specification.                                                          *)
WorthlessUnchecked(tr, bonus) == FALSE

(* The second `continue`: nothing to credit once the bonus is added.       *)
Worthless(tr, bonus) == tr + bonus <= 0

(* Alternative forms of the credit, each a plausible slip in the loop;     *)
(* they are not used by the specification.                                 *)
CreditNoReset(e, tr, bonus) == [balance |-> e.balance + tr + bonus, staked_at |-> e.staked_at]
CreditTimeOnly(e, tr, bonus) == [balance |-> e.balance + tr, staked_at |-> now]

(* `entry.balance += total_user_reward; entry.staked_at = now`.            *)
Credit(e, tr, bonus) == [balance |-> e.balance + tr + bonus, staked_at |-> now]

(* One iteration of distribute_rewards' loop on the in-memory state s:     *)
(* read the entry, skip, compute, skip a non-positive total, credit and    *)
(* write, count.  tr records the time reward the iteration computed.       *)
Iteration(s, staker, bonus, rate) ==
    LET e == s.stake[staker]
        tr == IF Skip(e, bonus) THEN 0 ELSE TimeReward(e, rate)
    IN  IF Skip(e, bonus) \/ Worthless(tr, bonus)
        THEN [s EXCEPT !.time = Append(@, tr)]
        ELSE [stake |-> [s.stake EXCEPT ![staker] = Credit(e, tr, bonus)],
              total |-> s.total + tr + bonus,
              recipients |-> s.recipients + 1,
              time |-> Append(s.time, tr)]

(* The in-memory state before the loop: the records as stored, nothing   *)
(* credited yet.                                                           *)
LoopStart == [stake |-> stake, total |-> 0, recipients |-> 0, time |-> <<>>]

(* The loop over the list: run[i] is the state after the first i          *)
(* iterations.                                                             *)
SettleRun(stakers, bonuses, rate) ==
    LET run[i \in 0..Len(stakers)] ==
            IF i = 0 THEN LoopStart
            ELSE Iteration(run[i - 1], stakers[i], bonuses[i], rate)
    IN  run

(* The whole loop, from the state read at the call's start.               *)
Settle(stakers, bonuses, rate) == SettleRun(stakers, bonuses, rate)[Len(stakers)]

(* validate_batch_reward_event (events/src/gas.rs).                        *)
BatchEventValid(recipients, total) == recipients > 0 /\ total > 0

(* struct BatchRewardEventData.                                           *)
BatchRewardEventData == [recipients: Nat, total: Int, timestamp: U64]

(* emit_batch_reward: validate the payload, then publish it.               *)
EmitBatchReward(recipients, total) ==
    /\ BatchEventValid(recipients, total)
    /\ events' = Append(events, [recipients |-> recipients, total |-> total,
                                  timestamp |-> now])

(* validate_initialize_event, validate_stake_event, validate_unstake_event *)
InitializeEventValid(rate, min) == rate > 0 /\ min > 0
StakeEventValid(amount, total) == amount > 0 /\ total >= amount
UnstakeEventValid(amount, reward, remaining) ==
    amount > 0 /\ reward >= 0 /\ remaining >= 0

(* preview_rewards: the per-index reward, read-only.                       *)
PreviewRewards(stakers) ==
    [i \in 1..Len(stakers) |->
        TimeReward(stake[stakers[i]], config.reward_rate)]

-----------------------------------------------------------------------------
Init ==
    /\ now = 0
    /\ config = NoConfig
    /\ stake = [a \in Address |-> Default]
    /\ events = <<>>
    /\ batches = 0
    /\ lastBatch = [stakers |-> <<>>, time |-> <<>>]
    /\ changedAt = [a \in Address |-> 0]

Tick ==
    /\ now < U64Max
    /\ now' = now + 1
    /\ UNCHANGED <<config, stake, events, batches, lastBatch, changedAt>>

(* The balance-change ghost for a new stake function.                      *)
Touch(newStake) ==
    [a \in Address |->
        IF newStake[a].balance # stake[a].balance THEN now ELSE changedAt[a]]

(* initialize (spec): writes Config once, after validating its event.      *)
Initialize(admin, rate, min) ==
    /\ config = NoConfig
    /\ InitializeEventValid(rate, min)
    /\ config' = [admin |-> admin, reward_rate |-> rate, min_stake |-> min]
    /\ UNCHANGED <<now, stake, events, batches, lastBatch, changedAt>>

(* stake (spec 4.2): fold the accrued reward in, add the amount, reset the *)
(* accrual window.                                                         *)
Stake(account, amount) ==
    /\ config # NoConfig
    /\ amount >= config.min_stake
    /\ LET e == stake[account]
           total == e.balance + TimeReward(e, config.reward_rate) + amount
       IN  /\ total <= MaxBalance
           /\ StakeEventValid(amount, total)
           /\ stake' = [stake EXCEPT ![account] = [balance |-> total, staked_at |-> now]]
    /\ changedAt' = Touch(stake')
    /\ UNCHANGED <<now, config, events, batches, lastBatch>>

(* unstake (spec 4.2): the record must exist; fold the reward in, take the *)
(* amount out, remove the record when nothing remains.                     *)
Unstake(account, amount) ==
    /\ config # NoConfig
    /\ stake[account].balance > 0
    /\ LET e == stake[account]
           reward == TimeReward(e, config.reward_rate)
           remaining == e.balance + reward - amount
       IN  /\ amount <= e.balance + reward
           /\ UnstakeEventValid(amount, reward, remaining)
           /\ stake' = [stake EXCEPT ![account] =
                          IF remaining = 0 THEN Default
                          ELSE [balance |-> remaining, staked_at |-> now]]
    /\ changedAt' = Touch(stake')
    /\ UNCHANGED <<now, config, events, batches, lastBatch>>

(* distribute_rewards: length and emptiness asserts, one Config read, the  *)
(* admin check, the loop, and one validated event if anyone was credited. *)
DistributeRewards(admin, stakers, bonuses) ==
    /\ Len(stakers) = Len(bonuses)
    /\ stakers # <<>>
    /\ config # NoConfig
    /\ config.admin = admin
    /\ batches < MaxBatches
    /\ LET r == Settle(stakers, bonuses, config.reward_rate)
       IN  /\ stake' = r.stake
           /\ IF r.recipients > 0
              THEN EmitBatchReward(r.recipients, r.total)
              ELSE UNCHANGED events
           /\ lastBatch' = [stakers |-> stakers, time |-> r.time]
    /\ batches' = batches + 1
    /\ changedAt' = Touch(stake')
    /\ UNCHANGED <<now, config>>

(* The lists a caller may pass: any length up to MaxLen.                   *)
Lists(S) == UNION {[1..n -> S] : n \in 0..MaxLen}

Next ==
    \/ Tick
    \/ \E a \in Address, rate \in Rate, min \in MinStake : Initialize(a, rate, min)
    \/ \E a \in Address, amt \in StakeAmount : Stake(a, amt) \/ Unstake(a, amt)
    \/ \E a \in Address, s \in Lists(Address), b \in Lists(Bonus) :
          DistributeRewards(a, s, b)

Spec == Init /\ [][Next]_vars

-----------------------------------------------------------------------------
TypeOK ==
    /\ now \in U64
    /\ stake \in [Address -> StakeEntry]
    /\ batches \in 0..MaxBatches
    /\ events \in Seq(BatchRewardEventData)
    /\ changedAt \in [Address -> U64]

(* The accrual window is never stale: whenever a staked balance has        *)
(* changed (by stake, unstake or a batch credit) its staked_at was reset   *)
(* to that moment, so no later reward is computed over time that was      *)
(* already paid for (spec 3, "never double-counted").                      *)
AccrualWindowFresh ==
    \A a \in Address :
        stake[a].balance > 0 => stake[a].staked_at >= changedAt[a]

(* One pair <<a, i>> for each unit i of a's staked balance under the      *)
(* records s: the total staked is the number of pairs.                     *)
StakedUnits(s) == UNION {{a} \X (1..s[a].balance) : a \in Address}

TotalStaked(s) == Cardinality(StakedUnits(s))

(* A distribute_rewards call publishes exactly one batch event if it       *)
(* credits anyone and none otherwise, and the event's total_rewards is    *)
(* exactly how much the call raised the total staked, that is the sum of  *)
(* the balance increases it wrote, duplicates included.                    *)
BatchEventAccountsForCredits ==
    [][batches' = batches + 1 =>
         IF stake' = stake
         THEN events' = events
         ELSE /\ Len(events') = Len(events) + 1
              /\ events'[Len(events')].total =
                   TotalStaked(stake') - TotalStaked(stake)]_vars

(* A batch only ever credits: however negative a bonus_amount is, no     *)
(* staker's balance is lower after distribute_rewards than before, even    *)
(* when the staker is listed several times.                               *)
BatchNeverDebits ==
    [][batches' = batches + 1 =>
         \A a \in Address : stake'[a].balance >= stake[a].balance]_vars

(* preview_rewards, called just before a distribute_rewards call, returns *)
(* for each listed staker the time reward that call applies (spec 4.3 and  *)
(* 8: "the same reward distribute_rewards would apply, ignoring bonus").   *)
PreviewMatchesSettlement ==
    [][batches' = batches + 1 =>
         lastBatch'.time = PreviewRewards(lastBatch'.stakers)]_vars
=============================================================================
