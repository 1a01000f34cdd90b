CONSTANTS
    a1 = a1
    a2 = a2
    NoConfig = NoConfig
    Address <- MCAddress
    U64Max <- MCU64Max
    Rate <- MCRate
    MinStake <- MCMinStake
    RateScale <- MCRateScale
    StakeAmount <- MCStakeAmount
    Bonus <- MCBonus
    MaxLen <- MCMaxLen
    MaxBatches <- MCMaxBatches
    MaxBalance <- MCMaxBalance
SPECIFICATION Spec
SYMMETRY Symmetry
INVARIANT AccrualWindowFresh
PROPERTY BatchEventAccountsForCredits
PROPERTY BatchNeverDebits
\* The clock stops at U64Max and the batch counter at MaxBatches; a state
\* where neither stake nor unstake fits the bounds has no further step.
CHECK_DEADLOCK FALSE
