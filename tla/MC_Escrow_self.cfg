CONSTANTS
    a1 = a1
    a2 = a2
    t1 = t1
    Self = Self
    NoConfig = NoConfig
    Address <- MCAddress
    Token <- MCToken
    EscrowId <- MCEscrowId
    U64Max <- MCU64Max
    Amount <- MCAmount
    InitBalance <- MCInitBalance
    \* lock's beneficiary is not checked: a caller may name the escrow itself.
    Beneficiary <- MCBeneficiaryWithSelf
SPECIFICATION Spec
SYMMETRY Symmetry
INVARIANT CustodyMatchesEntries
CHECK_DEADLOCK FALSE
