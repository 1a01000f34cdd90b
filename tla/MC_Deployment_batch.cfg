CONSTANTS
    a1 = a1
    a2 = a2
    t1 = t1
    Self = Self
    NoConfig = NoConfig
    Address <- MCAddress
    Token <- MCToken
    EscrowId <- MCEscrowId
    U64Max <- MCU64Max
    Amount <- MCAmount
    InitBalance <- MCInitBalance
    Rate <- MCRate
    MinStake <- MCMinStake
    RateScale <- MCRateScale
    StakeAmount <- MCStakeAmount
    Bonus <- MCBonus
    MaxLen <- MCMaxLen
    MaxBatches <- MCMaxBatches
    MaxBalance <- MCMaxBalance
SPECIFICATION Spec
INVARIANT DistributeWorksAfterRunBatch
CHECK_DEADLOCK FALSE
