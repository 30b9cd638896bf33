SPECIFICATION Safe
CONSTANTS
    ERP <- Both
    LegacyErp = "xero"
    Configured <- Both
    Seeded <- OneXero
    Refreshless <- Both
    ExpiryAge <- TwoMinutes
    SafetyMargin = 1
    MaxTime = 4
    MaxLogins = 1
    MaxFaults = 1
INVARIANTS
    OneRefresher
    ServedFresh
CHECK_DEADLOCK FALSE
