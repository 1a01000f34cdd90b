------------------------- MODULE BatchRewardsProofs -------------------------
(***************************************************************************)
(* Proofs about BatchRewards for every value of the constants.  The loop   *)
(* of distribute_rewards is the recursive function SettleRun; its          *)
(* equation is justified by RunExists, and what it computes is proved by   *)
(* least-counterexample induction over the loop index.                     *)
(***************************************************************************)
EXTENDS BatchRewards, UnitCounting

(* Every non-empty set of naturals has a least element.                   *)
LEMMA LeastNat ==
    ASSUME NEW T \in SUBSET Nat, T # {}
    PROVE  \E m \in T : \A y \in T : ~(y < m)
<1>1. \E x \in T : \A y \in T : ~(<<y, x>> \in OpToRel(<, Nat))
  BY NatLessThanWellFounded, WFMin
<1>. QED
  BY <1>1 DEF OpToRel

(* compute_reward and the loop's time reward are integers.                *)
LEMMA TimeRewardInt ==
    ASSUME NEW e \in StakeEntry, NEW rate \in Nat, now \in Int
    PROVE  TimeReward(e, rate) \in Int
BY ScaleAssumption DEF TimeReward, ComputeReward, StakeEntry, U64

(* The in-memory state of the loop.                                       *)
LoopState == [stake: [Address -> StakeEntry], total: Int, recipients: Nat,
              time: Seq(Int)]

(* What every iteration keeps true of the in-memory state: no balance is   *)
(* below its stored value, and a record that differs from the stored one  *)
(* has had its accrual window reset to now.                               *)
LoopOK(x) ==
    /\ x \in LoopState
    /\ \A a \in Address :
          /\ x.stake[a].balance >= stake[a].balance
          /\ x.stake[a] = stake[a] \/ x.stake[a].staked_at = now

(* The state before the loop satisfies LoopOK.                            *)
LEMMA LoopStartOK == TypeOK => LoopOK(LoopStart)
BY DEF TypeOK, LoopOK, LoopState, LoopStart, StakeEntry

(* One iteration preserves LoopOK: it leaves the records alone, or it     *)
(* credits a positive total_user_reward and resets staked_at to now.      *)
LEMMA IterationOK ==
    ASSUME TypeOK, NEW x, LoopOK(x), NEW staker \in Address,
           NEW bonus \in Int, NEW rate \in Nat
    PROVE  LoopOK(Iteration(x, staker, bonus, rate))
<1> DEFINE e == x.stake[staker]
           tr == IF Skip(e, bonus) THEN 0 ELSE TimeReward(e, rate)
<1>1. e \in StakeEntry /\ now \in Int /\ now \in U64
  BY DEF LoopOK, LoopState, TypeOK, U64
<1>2. tr \in Int
  BY <1>1, TimeRewardInt
<1>3. CASE Skip(e, bonus) \/ Worthless(tr, bonus)
  <2>1. Iteration(x, staker, bonus, rate) = [x EXCEPT !.time = Append(@, tr)]
    BY <1>3 DEF Iteration
  <2>2. x \in LoopState /\ Append(x.time, tr) \in Seq(Int)
    BY <1>2 DEF LoopOK, LoopState
  <2>3. /\ [x EXCEPT !.time = Append(@, tr)] \in LoopState
        /\ [x EXCEPT !.time = Append(@, tr)].stake = x.stake
    BY <2>2 DEF LoopState
  <2>. QED
    BY <2>1, <2>3 DEF LoopOK
<1>4. CASE ~(Skip(e, bonus) \/ Worthless(tr, bonus))
  <2>1. tr + bonus > 0
    BY <1>2, <1>4 DEF Worthless
  <2>2. Iteration(x, staker, bonus, rate) =
          [stake |-> [x.stake EXCEPT ![staker] = Credit(e, tr, bonus)],
           total |-> x.total + tr + bonus,
           recipients |-> x.recipients + 1,
           time |-> Append(x.time, tr)]
    BY <1>4 DEF Iteration
  <2>3. Credit(e, tr, bonus) \in StakeEntry
    BY <1>1, <1>2 DEF Credit, StakeEntry
  <2>4. Credit(e, tr, bonus).balance >= stake[staker].balance
        /\ Credit(e, tr, bonus).staked_at = now
    BY <1>1, <1>2, <2>1 DEF Credit, LoopOK, StakeEntry, TypeOK
  <2>. QED
    BY <1>2, <2>2, <2>3, <2>4 DEF LoopOK, LoopState
<1>. QED
  BY <1>3, <1>4
(* g is the loop's run over the first n entries of the lists.             *)
RunUpTo(n, g, stakers, bonuses, rate) ==
    g = [i \in 0..n |-> IF i = 0 THEN LoopStart
                        ELSE Iteration(g[i - 1], stakers[i], bonuses[i], rate)]

(* The loop's recursion has a solution on every prefix of the lists, so   *)
(* the recursive function SettleRun denotes it.                           *)
LEMMA RunExists ==
    ASSUME NEW stakers \in Seq(Address), NEW bonuses, NEW rate
    PROVE  \E g : RunUpTo(Len(stakers), g, stakers, bonuses, rate)
<1> DEFINE L == Len(stakers)
           It(x, i) == Iteration(x, stakers[i], bonuses[i], rate)
           Bad == {n \in 0..L : ~\E g : RunUpTo(n, g, stakers, bonuses, rate)}
<1>1. L \in Nat
  OBVIOUS
<1>2. SUFFICES Bad = {}
  BY <1>1
<1>3. SUFFICES ASSUME Bad # {} PROVE FALSE
  OBVIOUS
<1>4. PICK m \in Bad : \A y \in Bad : ~(y < m)
  <2>1. Bad \in SUBSET Nat
    BY <1>1
  <2>. QED
    BY <1>3, <2>1, LeastNat, Zenon
<1>5. CASE m = 0
  <2>1. RunUpTo(0, [i \in 0..0 |-> LoopStart], stakers, bonuses, rate)
    BY DEF RunUpTo
  <2>. QED
    BY <1>4, <1>5, <2>1
<1>6. CASE m # 0
  <2>1. m - 1 \in 0..L /\ m - 1 \notin Bad
    BY <1>4, <1>6
  <2>2. PICK g : RunUpTo(m - 1, g, stakers, bonuses, rate)
    BY <2>1
  <2> DEFINE h == [i \in 0..m |-> IF i < m THEN g[i] ELSE It(g[m - 1], m)]
  <2>3. \A i \in 0..m : h[i] = IF i = 0 THEN LoopStart ELSE It(h[i - 1], i)
    <3> TAKE i \in 0..m
    <3>1. CASE i = 0
      BY <1>6, <2>2, <3>1 DEF RunUpTo
    <3>2. CASE i \in 1..m - 1
      BY <2>2, <3>2 DEF RunUpTo
    <3>3. CASE i = m
      BY <1>6, <3>3
    <3>. QED
      BY <1>6, <3>1, <3>2, <3>3
  <2>4. RunUpTo(m, h, stakers, bonuses, rate)
    BY <2>3 DEF RunUpTo
  <2>. QED
    BY <1>4, <2>4
<1>. QED
  BY <1>5, <1>6

(* The equation of the loop: run[0] is the start state and run[i] is one   *)
(* iteration on run[i - 1].                                                *)
LEMMA RunEquation ==
    ASSUME NEW stakers \in Seq(Address), NEW bonuses, NEW rate
    PROVE  RunUpTo(Len(stakers), SettleRun(stakers, bonuses, rate),
                   stakers, bonuses, rate)
BY RunExists DEF SettleRun, RunUpTo
(* Every prefix of the loop satisfies LoopOK: a batch only raises         *)
(* balances and resets the window of what it writes.                      *)
LEMMA RunOK ==
    ASSUME TypeOK, NEW stakers \in Seq(Address), NEW bonuses \in Seq(Int),
           Len(bonuses) = Len(stakers), NEW rate \in Nat
    PROVE  \A n \in 0..Len(stakers) : LoopOK(SettleRun(stakers, bonuses, rate)[n])
<1> DEFINE L == Len(stakers)
           run == SettleRun(stakers, bonuses, rate)
           Bad == {n \in 0..L : ~LoopOK(run[n])}
<1>1. L \in Nat /\ RunUpTo(L, run, stakers, bonuses, rate)
  BY RunEquation
<1>2. Bad = {}
  <2>1. SUFFICES ASSUME Bad # {} PROVE FALSE
    OBVIOUS
  <2>2. PICK m \in Bad : \A y \in Bad : ~(y < m)
    <3>1. Bad \in SUBSET Nat
      BY <1>1
    <3>. QED
      BY <2>1, <3>1, LeastNat, Zenon
  <2>3. CASE m = 0
    <3>1. run[0] = LoopStart
      BY <1>1 DEF RunUpTo
    <3>. QED
      BY <2>2, <2>3, <3>1, LoopStartOK
  <2>4. CASE m # 0
    <3>1. m \in 1..L /\ m - 1 \in 0..L
      BY <1>1, <2>2, <2>4
    <3>2. LoopOK(run[m - 1])
      BY <2>2, <3>1
    <3>3. run[m] = Iteration(run[m - 1], stakers[m], bonuses[m], rate)
      BY <1>1, <3>1 DEF RunUpTo
    <3>4. stakers[m] \in Address /\ bonuses[m] \in Int
      BY <3>1
    <3>5. LoopOK(run[m])
      BY <3>2, <3>3, <3>4, IterationOK
    <3>. QED
      BY <2>2, <3>5
  <2>. QED
    BY <2>3, <2>4
<1>. QED
  BY <1>2

(* So does the loop's end state.                                          *)
LEMMA SettleOK ==
    ASSUME TypeOK, NEW stakers \in Seq(Address), NEW bonuses \in Seq(Int),
           Len(bonuses) = Len(stakers), NEW rate \in Nat
    PROVE  LoopOK(Settle(stakers, bonuses, rate))
<1>1. Len(stakers) \in 0..Len(stakers)
  OBVIOUS
<1>. QED
  BY <1>1, RunOK DEF Settle

(* The ghost update of a call that writes the records ns: it records now   *)
(* for every balance that changed.  When every rewritten record has its    *)
(* window reset to now or nothing staked, the window stays fresh.          *)
LEMMA TouchOK ==
    ASSUME TypeOK, \A a \in Address : changedAt[a] <= now, AccrualWindowFresh,
           NEW ns \in [Address -> StakeEntry],
           \A a \in Address : ns[a] = stake[a] \/ ns[a].staked_at = now
                              \/ ns[a].balance <= 0
    PROVE  \A a \in Address :
              /\ Touch(ns)[a] \in 0..now
              /\ ns[a].balance > 0 => ns[a].staked_at >= Touch(ns)[a]
<1> TAKE a \in Address
<1>1. now \in Nat /\ changedAt[a] \in Nat /\ ns[a] \in StakeEntry
      /\ stake[a] \in StakeEntry
  BY DEF TypeOK, U64
<1>2. CASE ns[a].balance # stake[a].balance
  <2>1. Touch(ns)[a] = now
    BY <1>2 DEF Touch
  <2>. QED
    BY <1>1, <1>2, <2>1 DEF StakeEntry
<1>3. CASE ns[a].balance = stake[a].balance
  <2>1. Touch(ns)[a] = changedAt[a]
    BY <1>3 DEF Touch
  <2>2. ns[a].balance > 0 => stake[a].staked_at >= changedAt[a]
    BY <1>3 DEF AccrualWindowFresh
  <2>. QED
    BY <1>1, <2>1, <2>2 DEF StakeEntry
<1>. QED
  BY <1>2, <1>3
-----------------------------------------------------------------------------
(* Config, once written by initialize, holds a rate and a minimum stake   *)
(* of the inputs initialize accepts.                                       *)
ConfigOK ==
    config = NoConfig
    \/ config \in [admin: Address, reward_rate: Rate, min_stake: MinStake]

(* No balance change is recorded in the future.                           *)
ChangedBefore == \A a \in Address : changedAt[a] <= now

(* The inductive invariant behind AccrualWindowFresh.                     *)
FInv == TypeOK /\ ConfigOK /\ ChangedBefore /\ AccrualWindowFresh
LEMMA FInvInit == Init => FInv
BY U64MaxAssumption, BoundAssumption
DEF Init, FInv, TypeOK, ConfigOK, ChangedBefore, AccrualWindowFresh, Default,
    StakeEntry, U64

(* stake folds the reward in and resets the window of the one record it   *)
(* writes.                                                                 *)
LEMMA FInvStake ==
    ASSUME FInv, NEW acc \in Address, NEW amt \in StakeAmount, Stake(acc, amt)
    PROVE  FInv'
<1> DEFINE e == stake[acc]
           total == e.balance + TimeReward(e, config.reward_rate) + amt
           ns == [stake EXCEPT ![acc] = [balance |-> total, staked_at |-> now]]
<1>1. config \in [admin: Address, reward_rate: Rate, min_stake: MinStake]
  BY DEF Stake, FInv, ConfigOK
<1>2. e \in StakeEntry /\ now \in U64 /\ config.reward_rate \in Nat /\ amt \in Int
  BY <1>1, InputAssumption DEF FInv, TypeOK
<1>3. total \in Int
  <2>1. now \in Int
    BY <1>2 DEF U64
  <2>2. TimeReward(e, config.reward_rate) \in Int
    BY <1>2, <2>1, TimeRewardInt
  <2>. QED
    BY <1>2, <2>2 DEF StakeEntry
<1>4. stake' = ns /\ changedAt' = Touch(ns)
  BY DEF Stake
<1>5. ns \in [Address -> StakeEntry]
  BY <1>2, <1>3 DEF FInv, TypeOK, StakeEntry
<1>6. \A a \in Address : Touch(ns)[a] \in 0..now
                         /\ (ns[a].balance > 0 => ns[a].staked_at >= Touch(ns)[a])
  <2>1. \A a \in Address : ns[a] = stake[a] \/ ns[a].staked_at = now
                           \/ ns[a].balance <= 0
    BY DEF FInv, TypeOK
  <2>. QED
    BY <1>5, <2>1, TouchOK DEF FInv, ChangedBefore
<1>7. UNCHANGED <<now, config, events, batches>>
  BY DEF Stake
<1>8. TypeOK'
  <2>1. changedAt' \in [Address -> U64]
    BY <1>4, <1>6, <1>7 DEF FInv, TypeOK, U64, Touch
  <2>. QED
    BY <1>4, <1>5, <1>7, <2>1 DEF FInv, TypeOK
<1>9. ChangedBefore' /\ AccrualWindowFresh'
  BY <1>4, <1>6, <1>7 DEF ChangedBefore, AccrualWindowFresh, Touch
<1>. QED
  BY <1>7, <1>8, <1>9 DEF FInv, ConfigOK

(* unstake folds the reward in and either removes the record or resets     *)
(* its window.                                                             *)
LEMMA FInvUnstake ==
    ASSUME FInv, NEW acc \in Address, NEW amt \in StakeAmount, Unstake(acc, amt)
    PROVE  FInv'
<1> DEFINE e == stake[acc]
           remaining == e.balance + TimeReward(e, config.reward_rate) - amt
           ns == [stake EXCEPT ![acc] =
                    IF remaining = 0 THEN Default
                    ELSE [balance |-> remaining, staked_at |-> now]]
<1>1. config \in [admin: Address, reward_rate: Rate, min_stake: MinStake]
  BY DEF Unstake, FInv, ConfigOK
<1>2. e \in StakeEntry /\ now \in U64 /\ config.reward_rate \in Nat /\ amt \in Int
  BY <1>1, InputAssumption DEF FInv, TypeOK
<1>3. remaining \in Int
  <2>1. now \in Int
    BY <1>2 DEF U64
  <2>2. TimeReward(e, config.reward_rate) \in Int
    BY <1>2, <2>1, TimeRewardInt
  <2>. QED
    BY <1>2, <2>2 DEF StakeEntry
<1>4. stake' = ns /\ changedAt' = Touch(ns)
  BY DEF Unstake
<1>5. ns \in [Address -> StakeEntry]
  BY <1>2, <1>3, U64MaxAssumption DEF FInv, TypeOK, StakeEntry, Default, U64
<1>6. \A a \in Address : Touch(ns)[a] \in 0..now
                         /\ (ns[a].balance > 0 => ns[a].staked_at >= Touch(ns)[a])
  <2>1. \A a \in Address : ns[a] = stake[a] \/ ns[a].staked_at = now
                           \/ ns[a].balance <= 0
    BY DEF FInv, TypeOK, Default
  <2>. QED
    BY <1>5, <2>1, TouchOK DEF FInv, ChangedBefore
<1>7. UNCHANGED <<now, config, events, batches>>
  BY DEF Unstake
<1>8. TypeOK'
  <2>1. changedAt' \in [Address -> U64]
    BY <1>4, <1>6, <1>7 DEF FInv, TypeOK, U64, Touch
  <2>. QED
    BY <1>4, <1>5, <1>7, <2>1 DEF FInv, TypeOK
<1>9. ChangedBefore' /\ AccrualWindowFresh'
  BY <1>4, <1>6, <1>7 DEF ChangedBefore, AccrualWindowFresh, Touch
<1>. QED
  BY <1>7, <1>8, <1>9 DEF FInv, ConfigOK
(* The lists distribute_rewards is called with are sequences of addresses *)
(* and of integers.                                                        *)
LEMMA BatchArgs ==
    ASSUME NEW st \in Lists(Address), NEW bs \in Lists(Bonus)
    PROVE  st \in Seq(Address) /\ bs \in Seq(Int)
<1>1. Bonus \subseteq Int
  BY InputAssumption
<1>2. st \in Seq(Address)
  BY DEF Lists
<1>3. PICK n \in Nat : bs \in [1..n -> Bonus]
  BY BoundAssumption DEF Lists
<1>4. bs \in [1..n -> Int]
  BY <1>1, <1>3
<1>. QED
  BY <1>2, <1>4

(* In a distribute_rewards call the loop's end state satisfies LoopOK and  *)
(* is what the call writes.                                                *)
LEMMA DistributeLoop ==
    ASSUME FInv, NEW adm \in Address, NEW st \in Lists(Address),
           NEW bs \in Lists(Bonus), DistributeRewards(adm, st, bs)
    PROVE  LET r == Settle(st, bs, config.reward_rate)
           IN  /\ LoopOK(r)
               /\ stake' = r.stake
               /\ changedAt' = Touch(r.stake)
<1>1. st \in Seq(Address) /\ bs \in Seq(Int) /\ Len(bs) = Len(st)
  BY BatchArgs DEF DistributeRewards
<1>2. config.reward_rate \in Nat
  BY InputAssumption DEF DistributeRewards, FInv, ConfigOK
<1>3. LoopOK(Settle(st, bs, config.reward_rate))
  BY <1>1, <1>2, SettleOK DEF FInv
<1>. QED
  BY <1>3 DEF DistributeRewards

(* distribute_rewards keeps FInv: only credited records change, each with  *)
(* its window reset; the event carries a count and an integer total.       *)
LEMMA FInvDistribute ==
    ASSUME FInv, NEW adm \in Address, NEW st \in Lists(Address),
           NEW bs \in Lists(Bonus), DistributeRewards(adm, st, bs)
    PROVE  FInv'
<1> DEFINE r == Settle(st, bs, config.reward_rate)
<1>1. LoopOK(r) /\ stake' = r.stake /\ changedAt' = Touch(r.stake)
  BY DistributeLoop
<1>2. r.stake \in [Address -> StakeEntry] /\ r.recipients \in Nat /\ r.total \in Int
  BY <1>1 DEF LoopOK, LoopState
<1>3. \A a \in Address : Touch(r.stake)[a] \in 0..now
          /\ (r.stake[a].balance > 0 => r.stake[a].staked_at >= Touch(r.stake)[a])
  BY <1>1, <1>2, TouchOK DEF FInv, ChangedBefore, LoopOK
<1>4. UNCHANGED <<now, config>> /\ batches' = batches + 1 /\ batches < MaxBatches
  BY DEF DistributeRewards
<1>5. events' \in Seq(BatchRewardEventData)
  <2>1. CASE r.recipients > 0
    <3>1. events' = Append(events, [recipients |-> r.recipients,
                                    total |-> r.total, timestamp |-> now])
      BY <2>1 DEF DistributeRewards, EmitBatchReward
    <3>2. [recipients |-> r.recipients, total |-> r.total, timestamp |-> now]
            \in BatchRewardEventData
      BY <1>2 DEF FInv, TypeOK, BatchRewardEventData
    <3>. QED
      BY <3>1, <3>2 DEF FInv, TypeOK
  <2>4. CASE ~(r.recipients > 0)
    BY <2>4 DEF DistributeRewards, FInv, TypeOK
  <2>. QED
    BY <2>1, <2>4
<1>6. TypeOK'
  <2>1. changedAt' \in [Address -> U64]
    BY <1>1, <1>3, <1>4 DEF FInv, TypeOK, U64, Touch
  <2>2. batches' \in 0..MaxBatches
    BY <1>4, BoundAssumption DEF FInv, TypeOK
  <2>. QED
    BY <1>1, <1>2, <1>4, <1>5, <2>1, <2>2 DEF FInv, TypeOK
<1>7. ChangedBefore' /\ AccrualWindowFresh'
  BY <1>1, <1>3, <1>4 DEF ChangedBefore, AccrualWindowFresh, Touch
<1>. QED
  BY <1>4, <1>6, <1>7 DEF FInv, ConfigOK
(* The clock step keeps FInv: changes stay in the past.                   *)
LEMMA FInvTick ==
    ASSUME FInv, Tick
    PROVE  FInv'
<1>1. now \in Nat /\ now < U64Max /\ now' = now + 1
  BY DEF Tick, FInv, TypeOK, U64
<1>2. UNCHANGED <<config, stake, events, batches, changedAt>>
  BY DEF Tick
<1>3. now' \in U64
  BY <1>1, U64MaxAssumption DEF U64
<1>4. ChangedBefore'
  <2>1. changedAt \in [Address -> 0..U64Max] /\ ChangedBefore
    BY DEF FInv, TypeOK, U64
  <2>. QED
    BY <1>1, <1>2, <2>1, U64MaxAssumption DEF ChangedBefore
<1>. QED
  BY <1>2, <1>3, <1>4 DEF FInv, TypeOK, ConfigOK, AccrualWindowFresh

(* Every step keeps FInv: the clock only moves forward and initialize     *)
(* only writes Config.                                                     *)
LEMMA FInvStep == FInv /\ [Next]_vars => FInv'
<1> SUFFICES ASSUME FInv, [Next]_vars PROVE FInv'
  OBVIOUS
<1>1. CASE Tick
  BY <1>1, FInvTick
<1>2. ASSUME NEW a \in Address, NEW rate \in Rate, NEW min \in MinStake,
             Initialize(a, rate, min)
      PROVE  FInv'
  BY <1>2 DEF Initialize, FInv, TypeOK, ConfigOK, ChangedBefore, AccrualWindowFresh
<1>3. ASSUME NEW a \in Address, NEW amt \in StakeAmount, Stake(a, amt)
      PROVE  FInv'
  BY <1>3, FInvStake
<1>4. ASSUME NEW a \in Address, NEW amt \in StakeAmount, Unstake(a, amt)
      PROVE  FInv'
  BY <1>4, FInvUnstake
<1>5. ASSUME NEW a \in Address, NEW st \in Lists(Address), NEW bs \in Lists(Bonus),
             DistributeRewards(a, st, bs)
      PROVE  FInv'
  BY <1>5, FInvDistribute
<1>6. CASE UNCHANGED vars
  BY <1>6 DEF vars, FInv, TypeOK, ConfigOK, ChangedBefore, AccrualWindowFresh
<1>. QED
  BY <1>1, <1>2, <1>3, <1>4, <1>5, <1>6 DEF Next

(* The accrual window of every staked balance starts no earlier than the  *)
(* last change of that balance by stake, unstake or a batch credit: no     *)
(* reward is computed twice over the same time (spec 3), for every value   *)
(* of the constants.                                                       *)
THEOREM AccrualFreshCorrect == Spec => []AccrualWindowFresh
<1>1. Init => FInv
  BY FInvInit
<1>2. FInv /\ [Next]_vars => FInv'
  BY FInvStep
<1>3. FInv => AccrualWindowFresh
  BY DEF FInv
<1>. QED
  BY <1>1, <1>2, <1>3, PTL DEF Spec

(* The step condition of BatchNeverDebits.                                 *)
BatchStepCredits ==
    batches' = batches + 1 =>
        \A a \in Address : stake'[a].balance >= stake[a].balance

(* Only distribute_rewards counts a batch, and its loop never lowers a    *)
(* balance.                                                                *)
LEMMA CreditStep == FInv /\ [Next]_vars => BatchStepCredits
<1> SUFFICES ASSUME FInv, [Next]_vars PROVE BatchStepCredits
  OBVIOUS
<1>1. batches \in Nat
  BY DEF FInv, TypeOK
<1>2. ASSUME NEW a \in Address, NEW st \in Lists(Address), NEW bs \in Lists(Bonus),
             DistributeRewards(a, st, bs)
      PROVE  BatchStepCredits
  <2>1. LET r == Settle(st, bs, config.reward_rate)
        IN  LoopOK(r) /\ stake' = r.stake
    BY <1>2, DistributeLoop
  <2>. QED
    BY <2>1 DEF LoopOK, BatchStepCredits
<1>3. ASSUME ~\E a \in Address, st \in Lists(Address), bs \in Lists(Bonus) :
                DistributeRewards(a, st, bs)
      PROVE  batches' = batches
  BY <1>3 DEF Next, vars, Tick, Initialize, Stake, Unstake
<1>. QED
  BY <1>1, <1>2, <1>3 DEF BatchStepCredits

(* However negative a bonus_amount is and however often a staker is      *)
(* listed, no distribute_rewards call lowers a staked balance, for every  *)
(* value of the constants.                                                 *)
THEOREM NeverDebitsCorrect == Spec => BatchNeverDebits
<1>1. Init => FInv
  BY FInvInit
<1>2. FInv /\ [Next]_vars => FInv'
  BY FInvStep
<1>3. FInv /\ [Next]_vars => BatchStepCredits
  BY CreditStep
<1>. QED
  BY <1>1, <1>2, <1>3, PTL DEF Spec, BatchNeverDebits, BatchStepCredits
-----------------------------------------------------------------------------
(* Writing one record k with a natural balance changes the total staked by *)
(* the difference between the new and the old balance of k.               *)
LEMMA StakeReplace ==
    ASSUME NEW s \in [Address -> StakeEntry], NEW k \in Address,
           NEW e \in StakeEntry, s[k].balance \in Nat, e.balance \in Nat,
           IsFiniteSet(StakedUnits(s))
    PROVE  /\ IsFiniteSet(StakedUnits([s EXCEPT ![k] = e]))
           /\ TotalStaked([s EXCEPT ![k] = e])
                = TotalStaked(s) - s[k].balance + e.balance
<1> DEFINE Units == StakedUnits(s)
           ns == [s EXCEPT ![k] = e]
           OldBlock == {k} \X (1..s[k].balance)
           NewBlock == {k} \X (1..e.balance)
<1>1. OldBlock \subseteq Units
  BY DEF StakedUnits
<1>2. (Units \ OldBlock) \cap NewBlock = {}
  <2>1. SUFFICES ASSUME NEW p \in Units \ OldBlock, p \in NewBlock PROVE FALSE
    OBVIOUS
  <2>2. PICK x \in Address : p \in {x} \X (1..s[x].balance)
    BY <2>1 DEF StakedUnits
  <2>3. x = k
    BY <2>1, <2>2
  <2>. QED
    BY <2>1, <2>2, <2>3
<1>3. StakedUnits(ns) = (Units \ OldBlock) \cup NewBlock
  <2>1. ASSUME NEW p \in StakedUnits(ns) PROVE p \in (Units \ OldBlock) \cup NewBlock
    <3>1. PICK x \in Address : p \in {x} \X (1..ns[x].balance)
      BY <2>1 DEF StakedUnits
    <3>2. CASE x = k
      BY <3>1, <3>2
    <3>3. CASE x # k
      <4>1. ns[x] = s[x] /\ p \in {x} \X (1..s[x].balance)
        BY <3>1, <3>3
      <4>2. p \in Units /\ p \notin OldBlock
        BY <3>3, <4>1 DEF StakedUnits
      <4>. QED
        BY <4>2
    <3>. QED
      BY <3>2, <3>3
  <2>2. ASSUME NEW p \in (Units \ OldBlock) \cup NewBlock PROVE p \in StakedUnits(ns)
    <3>1. CASE p \in NewBlock
      <4>1. ns[k] = e
        OBVIOUS
      <4>. QED
        BY <3>1, <4>1 DEF StakedUnits
    <3>2. CASE p \in Units \ OldBlock
      <4>1. PICK x \in Address : p \in {x} \X (1..s[x].balance)
        BY <3>2 DEF StakedUnits
      <4>2. x # k
        BY <3>2, <4>1
      <4>3. ns[x] = s[x]
        BY <4>2
      <4>. QED
        BY <4>1, <4>3 DEF StakedUnits
    <3>. QED
      BY <2>2, <3>1, <3>2
  <2>. QED
    BY <2>1, <2>2
<1>4. /\ IsFiniteSet((Units \ OldBlock) \cup NewBlock)
      /\ Cardinality((Units \ OldBlock) \cup NewBlock) = Cardinality(Units) - s[k].balance + e.balance
  <2>1. /\ IsFiniteSet(OldBlock) /\ Cardinality(OldBlock) = s[k].balance
        /\ IsFiniteSet(NewBlock) /\ Cardinality(NewBlock) = e.balance
    BY BlockCard
  <2>2. /\ IsFiniteSet((Units \ OldBlock) \cup NewBlock)
        /\ Cardinality((Units \ OldBlock) \cup NewBlock)
             = Cardinality(Units) - Cardinality(OldBlock) + Cardinality(NewBlock)
    <3>1. /\ IsFiniteSet(Units) /\ IsFiniteSet(NewBlock)
          /\ OldBlock \subseteq Units /\ (Units \ OldBlock) \cap NewBlock = {}
      BY <1>1, <1>2, <2>1
    <3>. QED
      BY ONLY <3>1, SwapSubset
  <2>. QED
    BY <2>1, <2>2
<1>. QED
  BY <1>3, <1>4 DEF TotalStaked
-----------------------------------------------------------------------------
(* No staked balance is negative: stake adds at least its positive amount, *)
(* unstake leaves a non-negative remainder or removes the record, and a    *)
(* batch only raises balances.                                             *)
BalNonNeg == \A a \in Address : stake[a].balance >= 0

(* The staked units form a finite set, so TotalStaked counts them.         *)
UnitsFinite == IsFiniteSet(StakedUnits(stake))

(* The inductive invariant behind BatchEventAccountsForCredits.           *)
SInv == FInv /\ BalNonNeg /\ UnitsFinite

(* What the loop's in-memory state says of the batch so far: its running  *)
(* total is how much it raised the total staked, and it has counted a     *)
(* recipient exactly when it has raised some balance.                      *)
LoopSum(x) ==
    /\ IsFiniteSet(StakedUnits(x.stake))
    /\ x.total = TotalStaked(x.stake) - TotalStaked(stake)
    /\ x.recipients = 0 => x.stake = stake
    /\ x.recipients # 0 => \E a \in Address : x.stake[a].balance > stake[a].balance

(* The state before the loop has credited nothing.                        *)
LEMMA LoopStartSum == UnitsFinite => LoopSum(LoopStart)
<1> SUFFICES ASSUME UnitsFinite PROVE LoopSum(LoopStart)
  OBVIOUS
<1>1. TotalStaked(stake) \in Nat
  BY FS_CardinalityType DEF UnitsFinite, TotalStaked
<1>. QED
  BY <1>1 DEF LoopSum, LoopStart, UnitsFinite

(* One iteration keeps LoopSum: a credit of tr + bonus > 0 raises the      *)
(* staker's balance, the total staked and the running total by the same   *)
(* amount, and counts one recipient.                                       *)
LEMMA IterationSum ==
    ASSUME TypeOK, BalNonNeg, UnitsFinite, NEW x, LoopOK(x), LoopSum(x),
           NEW staker \in Address, NEW bonus \in Int, NEW rate \in Nat
    PROVE  LoopSum(Iteration(x, staker, bonus, rate))
<1> DEFINE e == x.stake[staker]
           tr == IF Skip(e, bonus) THEN 0 ELSE TimeReward(e, rate)
<1>1. e \in StakeEntry /\ now \in Int /\ x.stake \in [Address -> StakeEntry]
  BY DEF LoopOK, LoopState, TypeOK, U64
<1>2. tr \in Int
  BY <1>1, TimeRewardInt
<1>3. /\ e.balance \in Nat /\ stake[staker].balance \in Int
      /\ e.balance >= stake[staker].balance
  BY <1>1 DEF LoopOK, BalNonNeg, TypeOK, StakeEntry
<1>4. CASE Skip(e, bonus) \/ Worthless(tr, bonus)
  <2>1. Iteration(x, staker, bonus, rate) = [x EXCEPT !.time = Append(@, tr)]
    BY <1>4 DEF Iteration
  <2>2. x \in LoopState
    BY DEF LoopOK
  <2>. QED
    BY <2>1, <2>2 DEF LoopSum, LoopState
<1>5. CASE ~(Skip(e, bonus) \/ Worthless(tr, bonus))
  <2> DEFINE ne == Credit(e, tr, bonus)
             y == [stake |-> [x.stake EXCEPT ![staker] = ne],
                   total |-> x.total + tr + bonus,
                   recipients |-> x.recipients + 1,
                   time |-> Append(x.time, tr)]
  <2>1. tr + bonus > 0
    BY <1>2, <1>5 DEF Worthless
  <2>2. Iteration(x, staker, bonus, rate) = y
    BY <1>5 DEF Iteration
  <2>3. ne \in StakeEntry /\ ne.balance = e.balance + tr + bonus
    BY <1>1, <1>2 DEF Credit, StakeEntry, TypeOK, U64
  <2>4. ne.balance \in Nat /\ ne.balance > stake[staker].balance
    BY <1>2, <1>3, <2>1, <2>3
  <2>5. /\ IsFiniteSet(StakedUnits(y.stake))
        /\ TotalStaked(y.stake) = TotalStaked(x.stake) - e.balance + ne.balance
    BY <1>1, <1>3, <2>3, <2>4, StakeReplace DEF LoopSum
  <2>6. TotalStaked(x.stake) \in Nat /\ TotalStaked(stake) \in Nat
        /\ x.total \in Int /\ x.recipients \in Nat
    <3>1. TotalStaked(x.stake) \in Nat
      BY FS_CardinalityType DEF LoopSum, TotalStaked
    <3>2. TotalStaked(stake) \in Nat
      BY FS_CardinalityType DEF UnitsFinite, TotalStaked
    <3>. QED
      BY <3>1, <3>2 DEF LoopOK, LoopState
  <2>7. y.total = TotalStaked(y.stake) - TotalStaked(stake)
    BY <1>2, <1>3, <2>3, <2>5, <2>6 DEF LoopSum
  <2>8. y.recipients # 0 /\ y.stake[staker].balance > stake[staker].balance
    BY <1>1, <2>4, <2>6
  <2>. QED
    BY <2>2, <2>5, <2>7, <2>8 DEF LoopSum
<1>. QED
  BY <1>4, <1>5

(* Every prefix of the loop, and so its end state, satisfies LoopSum.     *)
LEMMA SettleSum ==
    ASSUME TypeOK, BalNonNeg, UnitsFinite, NEW stakers \in Seq(Address),
           NEW bonuses \in Seq(Int), Len(bonuses) = Len(stakers), NEW rate \in Nat
    PROVE  LoopSum(Settle(stakers, bonuses, rate))
<1> DEFINE L == Len(stakers)
           run == SettleRun(stakers, bonuses, rate)
           Bad == {n \in 0..L : ~LoopSum(run[n])}
<1>1. L \in Nat /\ RunUpTo(L, run, stakers, bonuses, rate)
  BY RunEquation
<1>2. \A n \in 0..L : LoopOK(run[n])
  BY RunOK
<1>3. Bad = {}
  <2>1. SUFFICES ASSUME Bad # {} PROVE FALSE
    OBVIOUS
  <2>2. PICK m \in Bad : \A y \in Bad : ~(y < m)
    <3>1. Bad \in SUBSET Nat
      BY <1>1
    <3>. QED
      BY <2>1, <3>1, LeastNat, Zenon
  <2>3. CASE m = 0
    <3>1. run[0] = LoopStart
      BY <1>1 DEF RunUpTo
    <3>. QED
      BY <2>2, <2>3, <3>1, LoopStartSum
  <2>4. CASE m # 0
    <3>1. m \in 1..L /\ m - 1 \in 0..L
      BY <1>1, <2>2, <2>4
    <3>2. LoopSum(run[m - 1]) /\ LoopOK(run[m - 1])
      BY <1>2, <2>2, <3>1
    <3>3. run[m] = Iteration(run[m - 1], stakers[m], bonuses[m], rate)
      BY <1>1, <3>1 DEF RunUpTo
    <3>4. stakers[m] \in Address /\ bonuses[m] \in Int
      BY <3>1
    <3>5. LoopSum(run[m])
      BY <3>2, <3>3, <3>4, IterationSum
    <3>. QED
      BY <2>2, <3>5
  <2>. QED
    BY <2>3, <2>4
<1>4. L \in 0..L
  BY <1>1
<1>. QED
  BY <1>3, <1>4 DEF Settle

(* Initially nothing is staked: there are no staked units.                *)
LEMMA SInvInit == Init => SInv
<1> SUFFICES ASSUME Init PROVE SInv
  OBVIOUS
<1>1. FInv
  BY FInvInit
<1>2. StakedUnits(stake) = {}
  BY DEF Init, StakedUnits, Default
<1>3. UnitsFinite
  BY <1>2, FS_EmptySet DEF UnitsFinite
<1>4. BalNonNeg
  BY DEF Init, Default, BalNonNeg
<1>. QED
  BY <1>1, <1>3, <1>4 DEF SInv

(* stake writes one record whose balance is at least the positive amount. *)
LEMMA SInvStake ==
    ASSUME SInv, NEW acc \in Address, NEW amt \in StakeAmount, Stake(acc, amt)
    PROVE  SInv'
<1> DEFINE e == stake[acc]
           total == e.balance + TimeReward(e, config.reward_rate) + amt
           ne == [balance |-> total, staked_at |-> now]
<1>1. FInv'
  BY FInvStake DEF SInv
<1>2. stake' = [stake EXCEPT ![acc] = ne] /\ StakeEventValid(amt, total)
  BY DEF Stake
<1>3. config \in [admin: Address, reward_rate: Rate, min_stake: MinStake]
  BY DEF Stake, SInv, FInv, ConfigOK
<1>4. e \in StakeEntry /\ now \in U64 /\ config.reward_rate \in Nat /\ amt \in Int
  BY <1>3, InputAssumption DEF SInv, FInv, TypeOK
<1>5. total \in Nat
  <2>1. TimeReward(e, config.reward_rate) \in Int
    BY <1>4, TimeRewardInt DEF U64
  <2>2. total \in Int
    BY <1>4, <2>1 DEF StakeEntry
  <2>. QED
    BY <1>2, <1>4, <2>2 DEF StakeEventValid
<1>6. ne \in StakeEntry /\ e.balance \in Nat
  BY <1>4, <1>5 DEF StakeEntry, SInv, BalNonNeg
<1>7. stake \in [Address -> StakeEntry] /\ BalNonNeg /\ UnitsFinite
  BY DEF SInv, FInv, TypeOK
<1>8. BalNonNeg'
  BY <1>2, <1>5, <1>7 DEF BalNonNeg
<1>9. UnitsFinite'
  BY <1>2, <1>5, <1>6, <1>7, StakeReplace DEF UnitsFinite
<1>. QED
  BY <1>1, <1>8, <1>9 DEF SInv

(* unstake leaves a non-negative remainder, or removes the record.        *)
LEMMA SInvUnstake ==
    ASSUME SInv, NEW acc \in Address, NEW amt \in StakeAmount, Unstake(acc, amt)
    PROVE  SInv'
<1> DEFINE e == stake[acc]
           reward == TimeReward(e, config.reward_rate)
           remaining == e.balance + reward - amt
           ne == IF remaining = 0 THEN Default
                 ELSE [balance |-> remaining, staked_at |-> now]
<1>1. FInv'
  BY FInvUnstake DEF SInv
<1>2. stake' = [stake EXCEPT ![acc] = ne]
      /\ UnstakeEventValid(amt, reward, remaining)
  BY DEF Unstake
<1>3. config \in [admin: Address, reward_rate: Rate, min_stake: MinStake]
  BY DEF Unstake, SInv, FInv, ConfigOK
<1>4. e \in StakeEntry /\ now \in U64 /\ config.reward_rate \in Nat /\ amt \in Int
  BY <1>3, InputAssumption DEF SInv, FInv, TypeOK
<1>5. remaining \in Nat
  <2>1. reward \in Int
    BY <1>4, TimeRewardInt DEF U64
  <2>2. remaining \in Int
    BY <1>4, <2>1 DEF StakeEntry
  <2>. QED
    BY <1>2, <2>2 DEF UnstakeEventValid
<1>6. ne \in StakeEntry /\ ne.balance \in Nat /\ e.balance \in Nat
  BY <1>4, <1>5, U64MaxAssumption DEF StakeEntry, SInv, BalNonNeg, Default, U64
<1>7. stake \in [Address -> StakeEntry] /\ BalNonNeg /\ UnitsFinite
  BY DEF SInv, FInv, TypeOK
<1>8. BalNonNeg'
  BY <1>2, <1>6, <1>7 DEF BalNonNeg
<1>9. UnitsFinite'
  BY <1>2, <1>6, <1>7, StakeReplace DEF UnitsFinite
<1>. QED
  BY <1>1, <1>8, <1>9 DEF SInv

(* In a distribute_rewards call the loop's end state, which the call       *)
(* writes, satisfies LoopOK and LoopSum.                                   *)
LEMMA DistributeSum ==
    ASSUME SInv, NEW adm \in Address, NEW st \in Lists(Address),
           NEW bs \in Lists(Bonus), DistributeRewards(adm, st, bs)
    PROVE  LET r == Settle(st, bs, config.reward_rate)
           IN  LoopOK(r) /\ LoopSum(r) /\ stake' = r.stake
<1>1. st \in Seq(Address) /\ bs \in Seq(Int) /\ Len(bs) = Len(st)
  BY BatchArgs DEF DistributeRewards
<1>2. config.reward_rate \in Nat
  BY InputAssumption DEF DistributeRewards, SInv, FInv, ConfigOK
<1>3. LoopSum(Settle(st, bs, config.reward_rate))
  BY <1>1, <1>2, SettleSum DEF SInv, FInv
<1>. QED
  BY <1>3, DistributeLoop DEF SInv

(* A batch keeps balances non-negative, since it only raises them, and    *)
(* its end state has finitely many staked units.                           *)
LEMMA SInvDistribute ==
    ASSUME SInv, NEW adm \in Address, NEW st \in Lists(Address),
           NEW bs \in Lists(Bonus), DistributeRewards(adm, st, bs)
    PROVE  SInv'
<1> DEFINE r == Settle(st, bs, config.reward_rate)
<1>1. LoopOK(r) /\ LoopSum(r) /\ stake' = r.stake
  BY DistributeSum
<1>2. FInv'
  BY FInvDistribute DEF SInv
<1>3. BalNonNeg'
  <2>1. \A a \in Address : r.stake[a].balance >= stake[a].balance
                           /\ stake[a].balance >= 0
                           /\ r.stake[a].balance \in Int
                           /\ stake[a].balance \in Int
    BY <1>1 DEF LoopOK, LoopState, StakeEntry, SInv, BalNonNeg, FInv, TypeOK
  <2>. QED
    BY <1>1, <2>1 DEF BalNonNeg
<1>4. UnitsFinite'
  BY <1>1 DEF LoopSum, UnitsFinite
<1>. QED
  BY <1>2, <1>3, <1>4 DEF SInv

(* Every step keeps SInv: the clock and initialize leave the records      *)
(* alone.                                                                  *)
LEMMA SInvStep == SInv /\ [Next]_vars => SInv'
<1> SUFFICES ASSUME SInv, [Next]_vars PROVE SInv'
  OBVIOUS
<1>1. FInv'
  BY FInvStep DEF SInv
<1>2. ASSUME NEW a \in Address, NEW amt \in StakeAmount, Stake(a, amt)
      PROVE  SInv'
  BY <1>2, SInvStake
<1>3. ASSUME NEW a \in Address, NEW amt \in StakeAmount, Unstake(a, amt)
      PROVE  SInv'
  BY <1>3, SInvUnstake
<1>4. ASSUME NEW a \in Address, NEW st \in Lists(Address), NEW bs \in Lists(Bonus),
             DistributeRewards(a, st, bs)
      PROVE  SInv'
  BY <1>4, SInvDistribute
<1>5. ASSUME stake' = stake PROVE SInv'
  BY <1>1, <1>5 DEF SInv, BalNonNeg, UnitsFinite
<1>6. CASE Tick \/ UNCHANGED vars
      \/ \E a \in Address, rate \in Rate, min \in MinStake : Initialize(a, rate, min)
  BY <1>5, <1>6 DEF Tick, Initialize, vars
<1>. QED
  BY <1>2, <1>3, <1>4, <1>6 DEF Next

(* The step condition of BatchEventAccountsForCredits.                    *)
BatchStepEvent ==
    batches' = batches + 1 =>
        IF stake' = stake
        THEN events' = events
        ELSE /\ Len(events') = Len(events) + 1
             /\ events'[Len(events')].total =
                  TotalStaked(stake') - TotalStaked(stake)

(* Only distribute_rewards counts a batch.  It writes the loop's end      *)
(* state, which differs from the records exactly when a recipient was      *)
(* counted, and then publishes the loop's running total.                   *)
LEMMA EventStep == SInv /\ [Next]_vars => BatchStepEvent
<1> SUFFICES ASSUME SInv, [Next]_vars PROVE BatchStepEvent
  OBVIOUS
<1>1. batches \in Nat /\ events \in Seq(BatchRewardEventData)
  BY DEF SInv, FInv, TypeOK
<1>2. ASSUME NEW adm \in Address, NEW st \in Lists(Address), NEW bs \in Lists(Bonus),
             DistributeRewards(adm, st, bs)
      PROVE  BatchStepEvent
  <2> DEFINE r == Settle(st, bs, config.reward_rate)
             ev == [recipients |-> r.recipients, total |-> r.total,
                    timestamp |-> now]
  <2>1. LoopOK(r) /\ LoopSum(r) /\ stake' = r.stake
    BY <1>2, DistributeSum
  <2>2. r.recipients \in Nat
    BY <2>1 DEF LoopOK, LoopState
  <2>3. CASE r.recipients > 0
    <3>1. events' = Append(events, ev)
      BY <1>2, <2>3 DEF DistributeRewards, EmitBatchReward
    <3>2. stake' # stake
      <4>1. PICK a \in Address : r.stake[a].balance > stake[a].balance
        BY <2>1, <2>2, <2>3 DEF LoopSum
      <4>2. stake[a].balance \in Int
        BY DEF SInv, FInv, TypeOK, StakeEntry
      <4>. QED
        BY <2>1, <4>1, <4>2
    <3>3. Len(events') = Len(events) + 1 /\ events'[Len(events')] = ev
      BY <1>1, <3>1
    <3>4. ev.total = TotalStaked(stake') - TotalStaked(stake)
      BY <2>1 DEF LoopSum
    <3>. QED
      BY <3>2, <3>3, <3>4 DEF BatchStepEvent
  <2>4. CASE r.recipients = 0
    <3>1. events' = events
      BY <1>2, <2>4 DEF DistributeRewards
    <3>2. stake' = stake
      BY <2>1, <2>4 DEF LoopSum
    <3>. QED
      BY <3>1, <3>2 DEF BatchStepEvent
  <2>. QED
    BY <2>2, <2>3, <2>4
<1>3. ASSUME ~\E a \in Address, st \in Lists(Address), bs \in Lists(Bonus) :
                DistributeRewards(a, st, bs)
      PROVE  batches' = batches
  BY <1>3 DEF Next, vars, Tick, Initialize, Stake, Unstake
<1>. QED
  BY <1>1, <1>2, <1>3 DEF BatchStepEvent

(* Every distribute_rewards call that credits anyone publishes exactly    *)
(* one batch event, whose total_rewards is exactly the amount by which    *)
(* the call raised the total staked (stakers listed twice and bonuses of  *)
(* either sign included), and a call that credits no one publishes        *)
(* nothing, for every value of the constants.                             *)
THEOREM EventTotalCorrect == Spec => BatchEventAccountsForCredits
<1>1. Init => SInv
  BY SInvInit
<1>2. SInv /\ [Next]_vars => SInv'
  BY SInvStep
<1>3. SInv /\ [Next]_vars => BatchStepEvent
  BY EventStep
<1>. QED
  BY <1>1, <1>2, <1>3, PTL DEF Spec, BatchEventAccountsForCredits, BatchStepEvent
=============================================================================
