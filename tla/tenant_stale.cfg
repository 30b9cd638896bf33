SPECIFICATION Safe
CONSTANTS
    ERP <- OneXero
    LegacyErp = "xero"
    Configured <- OneXero
    Seeded <- OneXero
    Refreshless <- OneXero
    ExpiryAge <- TwoMinutes
    SafetyMargin = 1
    MaxTime = 3
    MaxLogins = 2
    MaxFaults = 0
INVARIANTS
    CredentialsMatch
CHECK_DEADLOCK FALSE
