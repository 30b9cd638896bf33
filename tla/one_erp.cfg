SPECIFICATION Spec
CONSTANTS
    ERP <- OneXero
    LegacyErp = "xero"
    Configured <- Nobody
    Seeded <- Nobody
    Refreshless <- OneXero
    ExpiryAge <- TwoMinutes
    SafetyMargin = 1
    MaxTime = 5
    MaxLogins = 1
    MaxFaults = 2
INVARIANTS
    TypeOK
    ReplayFree
    StoredUsable
PROPERTIES
    ConnectionKept
    KeptAlive
    RequestReturns
CHECK_DEADLOCK FALSE
