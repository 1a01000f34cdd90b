--------------------------- MODULE MC_BatchRewards ---------------------------
(* Model-checking instance of BatchRewards: two addresses, timestamps 0..2, *)
(* a rate of 1 at scale 2 so that the floor of compute_reward forfeits     *)
(* odd products, bonuses of either sign, lists of up to two stakers (so a *)
(* staker can be listed twice) and two batches.                             *)
EXTENDS BatchRewards, TLC

CONSTANTS a1, a2

MCAddress == {a1, a2}
MCU64Max == 2
MCRate == {1}
MCMinStake == {1}
MCRateScale == 2
MCStakeAmount == {1}
MCBonus == {-1, 0, 1}
MCMaxLen == 2
MCMaxBatches == 2
MCMaxBalance == 2

Symmetry == Permutations(MCAddress)
=============================================================================
