--------------------------- MODULE MC_Deployment ---------------------------
(* Model-checking instance of Deployment: two addresses, one token, one    *)
(* escrow id, timestamps 0..2, the staking parameters of MC_BatchRewards,  *)
(* lists of one staker and one batch call.                                 *)
EXTENDS Deployment, TLC

CONSTANTS a1, a2, t1

MCAddress == {a1, a2}
MCToken == {t1}
MCEscrowId == {1}
MCU64Max == 2
MCAmount == {1}
MCInitBalance == 1
MCRate == {1}
MCMinStake == {1}
MCRateScale == 2
MCStakeAmount == {1}
MCBonus == {0, 1}
MCMaxLen == 1
MCMaxBatches == 1
MCMaxBalance == 2
=============================================================================
