# Formal models of the stellarspend contracts

This directory holds TLA+ models of the Soroban contracts under
`src/contracts/`. It also holds the TLC configurations that model-check them and
the TLAPS proofs of their main invariants. `PROJECT.json` lists the same
material in machine-readable form:
- components,
- runs,
- mutants,
- the map from each definition to the source lines it models,
- findings,
- hazards,
- theorems.

## 1. The system

Each public contract function is one Soroban invocation. An invocation runs to
completion and commits all of its storage writes and token transfers, or it
panics and commits nothing (spec §5, §7). Nothing runs concurrently inside a
call. Concurrency exists only between calls from different callers, and the
host orders those calls. So every model here is an interleaving of atomic
actions:
- one action per successful call;
- a failed call (panic, failed `assert!`, failed token transfer) is a stuttering step.
  So `release`, which removes the entry before it transfers, cannot be left
  with the entry gone and the amount unpaid: a failed transfer undoes the removal;
- a `Tick` action advances the ledger clock, which the contracts only read.

`require_auth` is the opaque authorization oracle of spec §6. Any caller may
pass any address, so the address parameters are chosen nondeterministically.
The token contract's `transfer` is also external. It is modelled by what it
does: it fails unless `from` holds the amount, and otherwise it moves the amount.

| Part (source) | State | Operations that change state | Model |
|---|---|---|---|
| Recurring payments (`recurring-payment/src/lib.rs`, `types.rs`) | instance storage `PaymentCount`, `Payment(id)`; token balances | `create_payment`, `execute_payment`, `cancel_payment` (`get_payment` is a read) | `RecurringPayment` |
| Escrow (`escrow/src/gas.rs`) | persistent `EscrowKey::Entry(depositor, id)`; instance `DataKey::Config`; token balances | `lock`, `release` (`get_escrow` is a read) | `Escrow` |
| Event validation (`events/src/gas.rs`) | none: `validate_*` are assertions that abort the emitting call | run inside `lock`, `release`, `distribute_rewards` and the staking calls | guards of the `Escrow` and `BatchRewards` actions that emit |
| Batch rewards (`batch-rewards/src/gas.rs`) | persistent `StakeEntry(addr)`; reads `Config` | `distribute_rewards` (`preview_rewards` is a read) | `BatchRewards` |
| Staking (`initialize`, `stake`, `unstake`, `compute_reward`) | `Config`, `StakeEntry` | | its `lib.rs` is not in `src/`; `initialize`, `stake`, `unstake` and `compute_reward` are modelled from the spec in `BatchRewards`, without their token transfers (`initialize` also in `Escrow`) |
| Test harness (`gas-optimization.rs`) | which contracts are registered; each contract's own storage | `make_env`, `set_ledger_ts`, `deploy_staking`, `deploy_escrow`, `run_batch`'s set-up, and the client calls of the tests | `Deployment` (composes `Escrow` and two `BatchRewards` instances) |
| `batch-token-mint/src/test.rs` | | tests only | not modelled |

How the parts interact:
- Escrow and batch rewards read the staking `Config` (its token, admin and
  reward rate) from their own instance storage. Each registered contract has
  its own instance storage, so they only see a Config written into that
  contract's storage (findings 4 and 5).
- Batch rewards credits `StakeEntry` records that `stake` and `unstake` also
  write, using the staking contract's `compute_reward`.
- Every component calls the event validators before it publishes.

## 2. Modules

### RecurringPayment

Constants:
- `Address`, `Token`: model values.
- `U64Max`: the largest u64; the model scales it down.
- `MaxPayments`: bounds `PaymentCount`.
- `Amount`, `Interval`, `StartTime`: the call arguments.
- `InitBalance`.
- `OverflowChecks`: whether u64 overflow panics (a build with overflow
  checks) or wraps (a release build without them).

Variables:
- `now`: the ledger timestamp.
- `count`: `PaymentCount`, where absent reads as 0.
- `payment`: `Payment(id)` for `id` in `1..count`.
- `bal`: token balances.
- `hist`: a ghost variable. Each payment records its `start_time`, how many
  times it ran and when it last ran.

Actions:

| Action | Code | What it models |
|---|---|---|
| `CreatePayment` | `create_payment` | The two input panics (`ValidPayment`), the next id, the stored record and the stored count. |
| `ExecutePayment` | `execute_payment` | The existence, `active` and "too early" checks (`Executable`), the transfer, and the catch-up `intervals_passed = (now - next) / interval; next += (intervals_passed + 1) * interval`. The catch-up is computed exactly (`Jump`) and then reduced modulo 2^64 (`CatchUp`). With `OverflowChecks` the call also requires that neither u64 operation overflows (`CatchUpFits`). |
| `CancelPayment` | `cancel_payment` | The existence and "already canceled" checks, then `active := false`. |

### RecurringAbstract, and the refinement

`RecurringAbstract` states what the scheduler promises (spec §3, §4.5),
without the catch-up arithmetic, the id counter or the ghost:
- `payments`: the payments as a sequence, indexed by id;
- `wallet`: the token balances;
- `Create`: append an active schedule with a positive amount and interval;
- `Pay(id)`: an active, due payment whose sender can pay moves its amount
  once and gets a new due time `n` with `NextDue(p, now, n)`: `n` is on the
  payment's grid (`(n - next) % interval = 0`), after `now`, and at most one
  interval after `now`, however many intervals were missed;
- `Cancel(id)`: an active payment becomes inactive.

`RecurringPayment` ends with the mapping `Abs == INSTANCE RecurringAbstract
WITH payments <- payment, wallet <- bal` and `AbstractRecurring == Abs!Spec`.
The abstract spec allows any due time `NextDue` admits. The code computes one
of them, `next + (⌊(now - next)/I⌋ + 1)·I`. TLC checks the refinement in
`recurring_core`, and `RecurringRefinement` proves it when overflow panics.
Without overflow checks a wrapped due time can be 0, which is not after
`now`, so the refinement cannot hold there (finding 1).

### Escrow

Constants:
- `Address`, `Token`, `EscrowId`.
- `Self`: the contract's own account.
- `NoConfig`: Config absent.
- `U64Max`, `Amount`, `InitBalance`.

Variables:
- `now`.
- `config`: the Config token, or `NoConfig`.
- `entry`: a function whose domain is the set of live keys. "The key exists"
  is the "funds held" state (spec §3).
- `bal`: balances, including the escrow's custody `bal[t][Self]`.

Actions:

| Action | Code | What it models |
|---|---|---|
| `Lock` | `lock` | The asserts (`LockGuard`), the Config read, the transfer into custody, the packed write and the locked-event validation (`LockedEventValid`, from `validate_escrow_locked_event`). |
| `Release` | `release` | Entry present, the time assert (`ReleaseDue`), the Config read, the removal, then the transfer out and the released-event validation (`ReleasedEventValid`). |
| `Initialize` | staking `initialize` | Modelled from the spec: it writes Config once. |

`lock` does not check the beneficiary. `Beneficiary` is the set of addresses
`Next` draws it from. The main run sets it to `Address`. The `self_beneficiary`
run overrides it in the cfg (`Beneficiary <- MCBeneficiaryWithSelf`) to add the
escrow's own address `Self` (finding 6).

### EscrowAbstract, and the refinement

`EscrowAbstract` states what the escrow promises (spec §3, §4.4), with no
custody account, Config, token contract or events:
- `escrows`: each `(depositor, id)` key is either free or holds one
  `[beneficiary, amount, unlock_ts]`;
- `wallet`: what each address holds;
- `Lock`: a free key takes a positive amount the depositor has, until a future
  time;
- `Release`: a due key is freed and pays its beneficiary.

`Escrow` defines the refinement mapping at its end:
- `AbsEscrows`: the live entries, projected to beneficiary, amount and unlock
  time;
- `AbsWallet`: the Config token's balances, or `InitBalance` while there is no
  Config.

`AbstractEscrow == Abs!Spec`, with `Abs == INSTANCE EscrowAbstract WITH ...`, is
checked by TLC in `escrow_core` and proved by `EscrowRefinement`. `Tick` maps to
`Tick`. `Initialize` maps to a stutter. `Lock` and `Release` map to the abstract
steps of the same key.

### Deployment

`Deployment` composes the models as `gas-optimization.rs` deploys them. Each
`env.register_contract` creates a contract with its own storage, so the module
has one copy of the storage variables per contract:
- `Esc`: an `Escrow` instance with its own `escrowCfg`;
- `Staking`: a `BatchRewards` instance that the staking calls act on;
- `Batch`: a `BatchRewards` instance that `distribute_rewards` acts on.

The clock, the balances and `deployed` are shared.

| Action | Code |
|---|---|
| `SetLedgerTs` | `set_ledger_ts` |
| `DeployStaking` | `deploy_staking` |
| `DeployEscrow` | `deploy_escrow`: registers and initialises a staking contract, then registers the escrow |
| `DeployBatch` | `run_batch`'s set-up: registers the batch contract, then registers and initialises staking |
| `StakingStake`, `StakingUnstake` | the staking client's calls |
| `BatchDistribute` | the batch client's `distribute_rewards` |
| `EscrowLock`, `EscrowRelease` | the escrow client's calls |

### BatchRewards

The batch contract and the staking calls that share its `StakeEntry` records.

Constants:
- `Address`; `NoConfig`: Config absent.
- `U64Max`, `Rate`, `MinStake`, `RateScale`, `StakeAmount`, `Bonus`.
- `MaxLen`, `MaxBatches`, `MaxBalance`: the bounds on list length, batch calls
  and balances reached by `stake`.

Variables:
- `now`, `config` (`[admin, reward_rate, min_stake]` or `NoConfig`).
- `stake`: a total function; an absent record reads as `Default` (the code's
  `unwrap_or_default`), and removing one makes it `Default` again.
- `events`: the batch events published.
- Ghosts: `batches` (bounded count of calls), `lastBatch` (the last batch's
  list and per-index time rewards), `changedAt` (when each balance last changed).

Actions:

| Action | Code | What it models |
|---|---|---|
| `DistributeRewards` | `distribute_rewards` | The length and non-empty asserts, one Config read, the admin check, then `Settle`: a recursive function over the list index that carries storage, running total and recipient count from one iteration (`Iteration`) to the next, so each iteration reads what earlier ones wrote. An iteration skips on `balance == 0 && bonus == 0` (`Skip`), computes the time reward (`TimeReward`), skips a non-positive total (`Worthless`), credits and resets `staked_at` (`Credit`). One event, validated by `BatchEventValid`, if anyone was credited. |
| `Initialize`, `Stake`, `Unstake` | staking calls (spec §4.2) | From the spec: accrue, then add or subtract, reset the window, remove the record at zero, with their event validators from `events/src/gas.rs`. |

The loop is `SettleRun(stakers, bonuses, rate)`: a recursive function over
`0..Len(stakers)` whose entry `i` is the in-memory state after `i` iterations,
from `LoopStart` (the stored records, nothing credited). `Settle` is its last
entry. The property `BatchEventAccountsForCredits` measures what a batch
credited without recursion. `StakedUnits(s)` has one pair `<<a, i>>` for each
unit `i` in `1..s[a].balance`, and `TotalStaked(s)` is its cardinality. The
event's total must equal the rise of `TotalStaked` across the call.

`ComputeReward` is spec §4.1 (floor of `balance·rate·elapsed / scale`).
`PreviewRewards` is `preview_rewards`, a read the preview property uses.

## 3. Runs

| Run | Instance | Checks | Shows |
|---|---|---|---|
| `recurring_core` | `MC_RecurringPayment.cfg`: 2 addresses, 1 token, u64 scaled to 0..7, ≤ 2 payments, amounts {0,1}, intervals {0,2,3}, start times {1,4}, overflow checks on | `TypeOK`, `NextIsFirstPointAfterRun`, `OnSchedule`, `CanceledIsFinal`, `AbstractRecurring` | Under every interleaving, catch-up keeps each payment on its `start + k·interval` grid and pays at most once per elapsed interval. `next_execution` lands in (last run, last run + interval]. A canceled payment is never touched again. Every behaviour is a behaviour of `RecurringAbstract`. |
| `escrow_core` | `MC_Escrow.cfg`: 2 addresses, 2 ids, 1 token, time 0..3, amounts {0,1,2} | `ReleaseNeverBlocked`, `CustodyMatchesEntries`, `ReleasePaysBeneficiaryWhenDue`, `AbstractEscrow` | The custody always equals the sum of the live entries, so no overwrite and no double pay-out happens. Each entry is paid once, when due, to its beneficiary, whoever calls. A due entry can always be released. Every behaviour is a behaviour of `EscrowAbstract`. |
| `batch_core` | `MC_BatchRewards.cfg`: 2 addresses, time 0..2, rate 1 at scale 2, stake amount 1, balances ≤ 2 via stake, bonuses {-1,0,1}, lists ≤ 2, ≤ 2 batches | `AccrualWindowFresh`, `BatchEventAccountsForCredits`, `BatchNeverDebits` | Batches interleaved with stake and unstake, with repeated stakers and negative bonuses, restart the accrual window wherever a balance changes, never lower a balance, and publish exactly one event iff they credit, whose total is the credited sum. |
| `preview_duplicate` (expected violation) | as `batch_core` | `PreviewMatchesSettlement` | A staker listed twice gets its time reward once from the batch but twice from `preview_rewards` (finding 3). |
| `self_beneficiary` (expected violation) | as `escrow_core`, with `Self` also a possible beneficiary | `CustodyMatchesEntries` | A lock whose beneficiary is the escrow itself, once released, leaves its amount in custody with no entry to claim it (finding 6). |
| `deploy_escrow_config` (expected violation) | `MC_Deployment_escrow.cfg`: 2 addresses, 1 id, 1 token, time 0..2, amount 1, lists ≤ 1, 1 batch | `LockWorksAfterDeployEscrow` | Right after `deploy_escrow`, no lock can succeed: the escrow contract has no Config (finding 4). |
| `deploy_batch_config` (expected violation) | `MC_Deployment_batch.cfg`: as above | `DistributeWorksAfterRunBatch` | Right after `run_batch`'s set-up, the staking admin's `distribute_rewards` on the batch contract fails: it has no Config (finding 5). |
| `overflow_wrap` (expected violation) | as `recurring_core`, overflow checks off | `NextIsFirstPointAfterRun` | With wrapping u64 arithmetic the catch-up sum wraps to 0 and the payment can run again at once (finding 1). |

Why these bounds reach the interesting cases:

- **Intervals 2 and 3 with clock 0..7.** These give executions that are exactly
  on a schedule point, executions between points, executions more than one
  interval late, and (with checks off) a wrapping sum.
  - The ceil formula of the code's comment differs from the code only on
    exact points, and the run reaches them. Mutant `JumpCeil` is caught.
- **Zero amounts and zero intervals.** These exercise the rejecting branches.
- **Two payments or two escrow ids per depositor.** These interleave operations
  on distinct records and reach duplicate-id locks.
- **Balances of 2.** Transfers can both succeed and fail.
- **Batches.** Rate 1 at scale 2 makes the floor forfeit odd products; lists
  of length 2 over 2 addresses include a repeated staker; bonuses -1, 0, 1
  reach both `continue`s and a negative bonus on a live stake. Larger clocks
  and amounts multiplied the states by fifty without new branches.
- **Symmetry.** Addresses are symmetric (`Permutations`), which is sound
  because no definition names an address.

Deadlock is not checked (`CHECK_DEADLOCK FALSE`). The clock stops at `U64Max`
and the creation count is bounded, so final states with nothing left to do are
an artefact of the bounds.

No fairness is assumed. Every call is made by an external caller who may never
make it: nobody is obliged to execute a payment or release an escrow. The
properties are therefore safety properties and action properties. "A due
escrow can always be released" is stated as the state property
`ReleaseNeverBlocked` using `ENABLED`, not as a liveness property.

Each property of a passing run has a mutant in `PROJECT.json`: a plausible slip
in the mapped code that TLC catches.

| Mutant | What it does | Caught by |
|---|---|---|
| `JumpCeil` | the comment's ceil formula | `NextIsFirstPointAfterRun` |
| `JumpTwice` | skips one interval too many | `AbstractRecurring` |
| `ExecutableEarly` | drops the time check | `OnSchedule` |
| `ExecutableIgnoringActive` | drops the `active` check | `CanceledIsFinal` |
| `ValidPaymentAnyInterval` | drops the `interval == 0` check | `TypeOK` |
| `LockGuardNoDuplicateCheck` | drops the has-check | `CustodyMatchesEntries`, and `AbstractEscrow` when checked alone |
| `ReleaseDueAlways` | drops the time assert | `ReleasePaysBeneficiaryWhenDue` |
| `ReleaseDueStrict` | off-by-one `>` | `ReleaseNeverBlocked` |
| `CreditNoReset` | keeps the old `staked_at` | `AccrualWindowFresh` |
| `CreditTimeOnly` | credits without the bonus | `BatchEventAccountsForCredits` |
| `WorthlessUnchecked` | drops the `total_user_reward <= 0` skip | `BatchNeverDebits` |

Escrow's amount check is enforced twice:
- by `lock`'s own assert;
- by `validate_escrow_locked_event`.

So dropping only the first check is harmless, and no mutant targets it.

## 4. Proofs

Checked by `tlapm`.

`RecurringPaymentProofs` proves:
- **`TypeCorrect`**: `Spec => []TypeOK`, by induction with one step per action.
  Its helper lemmas:
  - `CatchUpInU64`: the wrapped sum is a u64;
  - `AppendType`: the append of `create_payment`;
  - `TransferType`.
- **`ScheduleCorrect`**, and its two corollaries `NextAfterRunCorrect` and
  `OnScheduleCorrect`, under the assumption `OverflowChecks`. They say
  `NextIsFirstPointAfterRun` and `OnSchedule` hold for every `U64Max`, every
  bound and every set of inputs.
  - `OnSchedule` is not inductive as stated, because of its `%` and `\div`
    form. The inductive invariant `IInv` is `TypeOK` plus, for each payment:
    - `Sched`: `next_execution = start + m·interval` for some u64 `m ≥ runs`;
    - `RunBounds`: `last < next_execution ≤ last + interval` after a run.
  - TLC checked `IInv` as an invariant of the `recurring_core` instance before
    it was proved.
  - The execute step rests on these lemmas:
    - `CatchUpExact`: when `CatchUpFits`, the wrapped sum is the exact sum;
    - `JumpBounds`: with `d = now - next`, the jump `(d div I + 1)·I` lies in `(d, d + I]`;
    - `Distrib` and `MulLowerBound`.

    The new multiplier is `m + d div I + 1`. It is a u64 because it is at most
    `(m + k + 1)·I ≤ U64Max`.
  - `IInvSchedule` turns `Sched` into the `%`/`\div` form of `OnSchedule`,
    using `MultipleOf`.

`EscrowProofs` proves:
- **`EscrowTypeCorrect`**: every stored entry is an `EscrowEntry` with a
  positive amount.
- **`ReleaseCorrect`**: `Spec => ReleasePaysBeneficiaryWhenDue`. From `TypeOK`,
  only `Release` removes a key. It removes its own key only, after the time
  check, and `Self ∉ Address` makes the credit to the beneficiary exact.
- **`EscrowRefinement`**: `Spec => AbstractEscrow`, for every set of addresses,
  ids and tokens and every `U64Max`. The argument:
  - `RefineInit`: `Init` maps to `Abs!Init`.
  - `RefineStep`: every step maps to an abstract step or a stutter, under the
    invariant `RInv == TypeOK /\ Unconfigured`.
  - `Unconfigured` says that while there is no Config, every balance is still
    `InitBalance`. It is needed because `Initialize` changes `AbsWallet` from the
    constant `InitBalance` to the Config token's balances. It is a stutter only
    because these are equal.
  - `Lock`'s amount is a witness in `1..AbsWallet[d]`, because the transfer
    needs the depositor's balance.
  - `Self ∉ Address` keeps the custody account out of the wallets.

`RecurringPaymentProofs` also proves **`CanceledFinalCorrect`**:
`Spec => CanceledIsFinal`. The step lemma `CanceledStep` needs only `TypeOK`:
- `create_payment` appends a new id and leaves the others alone;
- `execute_payment` changes only an active payment;
- `cancel_payment` sets `active` to false on its own id.

`EscrowCustodyProofs` proves **`CustodyCorrect`**:
`Spec => []CustodyMatchesEntries`, for every set of addresses, ids and tokens.
- The sum of the entries' amounts is stated without recursion. `Units(ks)` has
  one pair `<<k, i>>` for each unit `i` in `1..entry[k].amount`, and
  `Held(ks) == Cardinality(Units(ks))`. `lock` adds a block of `amount` fresh
  units and `release` removes one, so the finite-set theorems (`FS_Union`,
  `FS_Difference`, `FS_Product`) give the new cardinality (lemmas
  `AddBlock`, `RemoveBlock` of the module `UnitCounting`).
- The inductive invariant `CInv` is `TypeOK`, `Unlocked`, the finiteness of
  `Units(DOMAIN entry)`, and `CustodyMatchesEntries`. `Unlocked` says that
  with no Config there is no entry and custody is empty. It is needed for the
  `Initialize` step, which makes the equation start to apply. TLC checked
  `CInv` on the `escrow_core` instance before it was proved.
- The credit of `release` lands outside custody because of `AddressAssumption`
  (`Self ∉ Address`). The `self_beneficiary` run shows what breaks without it.

It also proves **`ReleaseUnblockedCorrect`**: whenever an entry is due, the
contract has a Config and holds at least the entry's amount, and the released
event validates. This is `release`'s guard, written out. `ReleaseNeverBlocked`
states the same through `ENABLED`, which `tlapm` does not support, so the
`ENABLED` form stays with TLC.

`RecurringRefinementProofs` proves **`RecurringRefinement`**: with
`OverflowChecks`, `Spec => AbstractRecurring`.
- `RefineInit`: the initial state maps to `Abs!Init`.
- `RefineStep`, from `TypeOK`, has one case per action:
  - `Tick` maps to `Tick`;
  - `create_payment`'s write of `Payment(count + 1)` is `Append`
    (`ExtendIsAppend`, from `SequenceTheorems`);
  - `execute_payment` maps to `Pay` with witness `n = CatchUp(p, now)`.
    `CatchUpNextDue` shows that `n` satisfies `NextDue`, using
    `CatchUpExact`, `JumpBounds` and `MultipleOf`;
  - `cancel_payment` maps to `Cancel`;
  - a stutter maps to a stutter.

`BatchRewardsProofs` proves **`AccrualFreshCorrect`**
(`Spec => []AccrualWindowFresh`) and **`NeverDebitsCorrect`**
(`Spec => BatchNeverDebits`), for every list length and every bound.
- **The loop.** The equation of `SettleRun` is used only after `RunExists`
  proves that the recursion has a solution on every prefix of the lists
  (`RunEquation`). `tlapm` would accept the equation of a recursive function
  even when none exists, so existence is proved, not assumed.
- **The loop invariant.** `LoopOK(x)` says that no balance of the in-memory
  state is below the stored one, and that a record differing from the stored
  one has `staked_at = now`. `IterationOK` proves that one iteration keeps
  it. `SettleOK` takes the least index where it fails (`LeastNat`, from
  `WellFoundedInduction`) and derives a contradiction. This is induction over
  the loop index without an operator parameter.
- **The inductive invariant.** `FInv` is `TypeOK`, `ConfigOK` (a stored
  Config has a natural rate, needed for the reward to be an integer),
  `ChangedBefore` (no change is dated in the future, needed when the clock
  moves), and `AccrualWindowFresh`. `TouchOK` covers the ghost update that
  `stake`, `unstake` and `distribute_rewards` share. TLC checked `FInv` on the
  `batch_core` instance before it was proved.
- **`CreditStep`.** Only `distribute_rewards` increments `batches`, and
  `LoopOK` of its end state gives `BatchNeverDebits`.

It also proves **`EventTotalCorrect`**: `Spec => BatchEventAccountsForCredits`.
- **Counting units.** `UnitCounting` holds the lemmas about blocks of unit
  pairs that the escrow and batch proofs share. `BlockCard` says that
  `{k} \X (1..a)` has `a` elements. `AddBlock`, `RemoveBlock`,
  `ReplaceBlock` and `SwapSubset` give the cardinality after a block is added,
  removed or swapped. `StakeReplace` applies them to one record write:
  writing `k`'s entry changes `TotalStaked` by the new balance minus the old.
- **The loop invariant.** `LoopSum(x)` says four things:
  - the staked units of `x` are finite;
  - `x.total` is `TotalStaked(x.stake) - TotalStaked(stake)`;
  - with no recipient counted, `x.stake` is still the stored records;
  - with one counted, some balance is above its stored value.
  `IterationSum` proves that one iteration keeps it. A credit adds the
  positive `tr + bonus` both to the running total and to the staker's
  balance. `SettleSum` takes the least index where it fails, like `SettleOK`.
  It needs `LoopOK` at every index (`RunOK`), because a staker's balance in
  the loop must be a natural number for `StakeReplace` to apply.
- **The inductive invariant.** `SInv` is `FInv`, `BalNonNeg` (no balance is
  negative) and `UnitsFinite` (the staked units are finite). `BalNonNeg` is
  needed because a unit count only measures natural balances. `stake` keeps
  it since `validate_stake_event` demands `total >= amount > 0`, and
  `unstake` keeps it since `validate_unstake_event` demands
  `remaining >= 0`. `UnitsFinite` holds without assuming `Address` finite:
  it starts from no units and every write swaps one finite block. TLC checked
  `SInv` on the `batch_core` instance before it was proved.
- **`EventStep`.** Only `distribute_rewards` increments `batches`. If the
  loop counted a recipient, the records change and the event carries the
  running total. Otherwise the records are unchanged and nothing is published.

Only model-checked, and out of the prover's reach:
- `ReleaseNeverBlocked` and the `Deployment` properties: they use `ENABLED`.
- `PreviewMatchesSettlement` and the `Deployment` properties are expected
  violations, not theorems.

No liveness is checked, because no fairness is justified. Every step of every
contract is a call that an outside caller may or may not make: nothing in the
code schedules a release, an execution or a batch. Liveness would be in TLC's
reach, but not in the prover's.

## 5. Findings

1. **Wrapping catch-up** (`lib.rs:111`, run `overflow_wrap`). `next_execution +=
   (intervals_passed + 1) * interval` is unchecked u64 arithmetic. Without
   overflow checks it wraps. TLC shows a payment with start 4 and interval 2
   executed at time 6 whose `next_execution` becomes 0. Spec §3/§4.5 promise
   that `next_execution` is strictly after the execution. That promise holds
   exactly when overflow panics, which `ScheduleCorrect` proves.
2. **Comment vs code** (`lib.rs:104`). The comment says `ceil((current -
   scheduled)/interval) * interval`. The code computes `(floor + 1) * interval`.
   The code is right: the comment's formula (mutant `JumpCeil`) leaves
   `next_execution = now` when a payment runs exactly on a schedule point.

3. **Preview vs settlement on duplicate stakers** (`batch-rewards/src/gas.rs:88`,
   run `preview_duplicate`). Each iteration re-reads the record, after an
   earlier occurrence's write reset `staked_at` to `now`; the second
   occurrence accrues 0. `preview_rewards` writes nothing and reports the full
   reward for both. TLC: list `<<a1, a1>>`, preview `<<1, 1>>`, settlement
   `<<1, 0>>`. Spec §4.3/§8 say they agree per account. The settlement is the
   safe side (no double credit, `BatchEventAccountsForCredits`); either the
   spec should require distinct stakers or both functions should reject
   duplicates.

4. **The escrow never sees a Config** (`escrow/src/gas.rs:79`, run
   `deploy_escrow_config`). `lock` reads `DataKey::Config` from the escrow
   contract's own instance storage. Nothing in `src/` writes it there: the
   escrow has no `initialize`. `deploy_escrow` ("Boot underlying staking
   contract so config exists") initialises a separately registered staking
   contract, whose storage the escrow cannot read. So the lock that
   `escrow_lock_gas` expects to succeed panics. TLC: after `DeployEscrow`, no
   lock is enabled.
5. **The batch contract never sees a Config** (`batch-rewards/src/gas.rs:70`,
   run `deploy_batch_config`). `run_batch` registers the batch contract on its
   own, and initialises and stakes through a separate staking contract. Its
   `distribute_rewards` then panics on the missing Config. Even with a Config
   it would read default `StakeEntry` records for every staker, because the
   stakes live in the staking contract's storage.
6. **Self as beneficiary strands funds** (`escrow/src/gas.rs:126`, run
   `self_beneficiary`). `lock` accepts the escrow's own address as beneficiary.
   Its release transfers from the contract to itself and removes the entry. The
   amount stays in custody, and no call can ever pay it out. Spec §4.4 does not
   forbid it.

## 6. Not modelled, and the plan

These parts are left out because they format or emit only:
- the event payload structs, apart from the batch event's fields, which `BatchEventAccountsForCredits` reads;
- `publish` calls;
- topics;
- the read-only getters.

Storage growth is a hazard with no property (`recurring-payment/src/lib.rs:64`).
Payments are never removed from instance storage, which the host loads on every
call and limits in size. The model bounds the number of payments by
`MaxPayments`. The limit is a host parameter, not code of this repository.

The plan for the next modules:

1. **Staking token flows.** Add the transfers of `stake` and `unstake` to
   `BatchRewards` and check that custody covers every balance.
2. **More proofs:** an abstract batch settlement (each listed staker
   credited its time reward plus bonus, or skipped) and a refinement proof of
   `Settle` against it.
