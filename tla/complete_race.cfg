SPECIFICATION Spec
CONSTANTS
    Opening <- MCOpening
    CreditLimit = 60
    WalletCharge = 2
    Rupee = 1
    MaxDay = 1
    MicroAtmRule = 1
    NotGiven = none
    Splits <- MCSplits
    None = none
    none = none
    r1 = r1
    r2 = r2
    Requests = {r1}
    Workloads <- Races
CHECK_DEADLOCK FALSE
INVARIANT CompletionKeepsEntry
