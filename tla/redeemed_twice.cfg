SPECIFICATION Safe
CONSTANTS
    ERP <- Both
    LegacyErp = "xero"
    Configured <- Both
    Seeded <- Both
    Refreshless <- Nobody
    ExpiryAge <- TwoMinutes
    SafetyMargin = 1
    MaxTime = 6
    MaxLogins = 1
    MaxFaults = 0
INVARIANTS
    ReplayFree
CHECK_DEADLOCK FALSE
