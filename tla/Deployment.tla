----------------------------- MODULE Deployment -----------------------------
(***************************************************************************)
(* How the test harness (contracts/gas-optimization.rs) deploys the        *)
(* contracts, composed from the component models.                          *)
(*                                                                         *)
(* Every env.register_contract creates a contract with its own instance   *)
(* and persistent storage.  The staking contract, the escrow contract and *)
(* the batch contract are registered separately, so each model instance   *)
(* below gets its own copy of the storage variables: Staking and Batch are *)
(* two instances of BatchRewards (the staking calls act on the first, the *)
(* batch call on the second), and Esc is the escrow with its own Config.  *)
(* Only the staking contract has an initialize; nothing in src/ writes    *)
(* DataKey::Config into the escrow's or the batch contract's storage.     *)
(* The clock, the token balances and the addresses are shared.            *)
(***************************************************************************)
EXTENDS Integers, Sequences

CONSTANTS
    Address, NoConfig, U64Max,
    Token, EscrowId, Self, Amount, InitBalance,
    Rate, MinStake, RateScale, StakeAmount, Bonus, MaxLen, MaxBatches, MaxBalance

VARIABLES
    deployed,       \* the contracts registered so far
    now, entry, bal, escrowCfg,
    stakingCfg, stakingStake, stakingEvents, stakingBatches, stakingLast, stakingChanged,
    batchCfg, batchStake, batchEvents, batchBatches, batchLast, batchChanged

escrowVars == <<entry, bal, escrowCfg>>
stakingVars == <<stakingCfg, stakingStake, stakingEvents, stakingBatches,
                 stakingLast, stakingChanged>>
batchVars == <<batchCfg, batchStake, batchEvents, batchBatches, batchLast, batchChanged>>
vars == <<deployed, now, escrowVars, stakingVars, batchVars>>

Esc == INSTANCE Escrow WITH config <- escrowCfg

Staking == INSTANCE BatchRewards
    WITH config <- stakingCfg, stake <- stakingStake, events <- stakingEvents,
         batches <- stakingBatches, lastBatch <- stakingLast, changedAt <- stakingChanged

Batch == INSTANCE BatchRewards
    WITH config <- batchCfg, stake <- batchStake, events <- batchEvents,
         batches <- batchBatches, lastBatch <- batchLast, changedAt <- batchChanged


-----------------------------------------------------------------------------
Init ==
    /\ deployed = {}
    /\ Esc!Init
    /\ Staking!Init
    /\ Batch!Init

(* set_ledger_ts: a test moves the ledger clock forward.                   *)
SetLedgerTs ==
    /\ now < U64Max
    /\ now' = now + 1
    /\ UNCHANGED <<deployed, escrowVars, stakingVars, batchVars>>

(* The staking part of deploy_staking, run_batch and deploy_escrow:       *)
(* register_contract(StakingContract) and client.initialize(admin, ...).  *)
RegisterAndInitializeStaking(admin, rate, min) ==
    /\ "staking" \notin deployed
    /\ Staking!Initialize(admin, rate, min)

(* deploy_staking.                                                         *)
DeployStaking(admin, rate, min) ==
    /\ RegisterAndInitializeStaking(admin, rate, min)
    /\ deployed' = deployed \cup {"staking"}
    /\ UNCHANGED <<now, escrowVars, batchVars>>

(* deploy_escrow: boot the staking contract, then register the escrow.    *)
DeployEscrow(admin, rate, min) ==
    /\ "escrow" \notin deployed
    /\ RegisterAndInitializeStaking(admin, rate, min)
    /\ deployed' = deployed \cup {"staking", "escrow"}
    /\ UNCHANGED <<now, escrowVars, batchVars>>

(* run_batch's set-up: register the batch contract, then boot staking.    *)
DeployBatch(admin, rate, min) ==
    /\ "batch" \notin deployed
    /\ RegisterAndInitializeStaking(admin, rate, min)
    /\ deployed' = deployed \cup {"staking", "batch"}
    /\ UNCHANGED <<now, escrowVars, batchVars>>

(* Calls a test makes through the contract clients; each acts only on the  *)
(* storage of the contract it is addressed to.                             *)
StakingStake(a, amt) ==
    /\ "staking" \in deployed
    /\ Staking!Stake(a, amt)
    /\ UNCHANGED <<deployed, escrowVars, batchVars>>

StakingUnstake(a, amt) ==
    /\ "staking" \in deployed
    /\ Staking!Unstake(a, amt)
    /\ UNCHANGED <<deployed, escrowVars, batchVars>>

BatchDistribute(admin, stakers, bonuses) ==
    /\ "batch" \in deployed
    /\ Batch!DistributeRewards(admin, stakers, bonuses)
    /\ UNCHANGED <<deployed, escrowVars, stakingVars>>

EscrowLock(d, b, amt, u, id) ==
    /\ "escrow" \in deployed
    /\ Esc!Lock(d, b, amt, u, id)
    /\ UNCHANGED <<deployed, stakingVars, batchVars>>

EscrowRelease(d, id) ==
    /\ "escrow" \in deployed
    /\ Esc!Release(d, id)
    /\ UNCHANGED <<deployed, stakingVars, batchVars>>

Next ==
    \/ SetLedgerTs
    \/ \E admin \in Address, rate \in Rate, min \in MinStake :
          \/ DeployStaking(admin, rate, min)
          \/ DeployEscrow(admin, rate, min)
          \/ DeployBatch(admin, rate, min)
    \/ \E a \in Address, amt \in StakeAmount :
          StakingStake(a, amt) \/ StakingUnstake(a, amt)
    \/ \E admin \in Address, s \in Staking!Lists(Address), b \in Staking!Lists(Bonus) :
          BatchDistribute(admin, s, b)
    \/ \E d, b \in Address, amt \in Amount, u \in 0..U64Max, id \in EscrowId :
          EscrowLock(d, b, amt, u, id)
    \/ \E d \in Address, id \in EscrowId : EscrowRelease(d, id)

Spec == Init /\ [][Next]_vars

-----------------------------------------------------------------------------
(* deploy_escrow's comment: "Boot underlying staking contract so config   *)
(* exists".  The escrow tests (escrow_lock_gas, escrow_release_frees_      *)
(* storage_slot) then lock with a positive amount, a future unlock_ts and  *)
(* a fresh id, and expect it to succeed: once deploy_escrow has run, such  *)
(* a lock by a funded depositor is possible.                               *)
LockWorksAfterDeployEscrow ==
    ("escrow" \in deployed /\ now < U64Max /\ DOMAIN entry = {}) =>
        \E d, b \in Address, id \in EscrowId :
            ENABLED EscrowLock(d, b, 1, now + 1, id)

(* run_batch stakes through the staking client and then has the staking   *)
(* admin call distribute_rewards on the batch contract, expecting it to    *)
(* succeed (and, in batch_emits_single_event, to report the stakers): once *)
(* run_batch's set-up has run, the staking admin can distribute over a     *)
(* staker.                                                                 *)
DistributeWorksAfterRunBatch ==
    ("batch" \in deployed /\ stakingCfg # NoConfig) =>
        \A a \in Address :
            ENABLED BatchDistribute(stakingCfg.admin, <<a>>, <<0>>)
=============================================================================
