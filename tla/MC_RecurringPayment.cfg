CONSTANTS
    a1 = a1
    a2 = a2
    t1 = t1
    Address <- MCAddress
    Token <- MCToken
    U64Max <- MCU64Max
    MaxPayments <- MCMaxPayments
    Amount <- MCAmount
    Interval <- MCInterval
    StartTime <- MCStartTime
    InitBalance <- MCInitBalance
    OverflowChecks = TRUE
SPECIFICATION Spec
SYMMETRY Symmetry
INVARIANT TypeOK
INVARIANT NextIsFirstPointAfterRun
INVARIANT OnSchedule
PROPERTY CanceledIsFinal
PROPERTY AbstractRecurring
\* The clock stops at U64Max, the last u64 timestamp; with every payment
\* created and none executable the system has nothing left to do.
CHECK_DEADLOCK FALSE
