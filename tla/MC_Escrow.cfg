CONSTANTS
    a1 = a1
    a2 = a2
    t1 = t1
    Self = Self
    NoConfig = NoConfig
    Address <- MCAddress
    Token <- MCToken
    EscrowId <- MCEscrowId
    U64Max <- MCU64Max
    Amount <- MCAmount
    InitBalance <- MCInitBalance
SPECIFICATION Spec
SYMMETRY Symmetry
INVARIANT ReleaseNeverBlocked
INVARIANT CustodyMatchesEntries
PROPERTY ReleasePaysBeneficiaryWhenDue
PROPERTY AbstractEscrow
\* The clock stops at U64Max, the last u64 timestamp; once every entry is
\* released and no balance can fund a lock nothing is left to do.
CHECK_DEADLOCK FALSE
