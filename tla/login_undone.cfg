SPECIFICATION Safe
CONSTANTS
    ERP <- OneQbo
    LegacyErp = "xero"
    Configured <- OneQbo
    Seeded <- OneQbo
    Refreshless <- Nobody
    ExpiryAge <- TwoMinutes
    SafetyMargin = 1
    MaxTime = 3
    MaxLogins = 2
    MaxFaults = 0
INVARIANTS
    LoginKept
CHECK_DEADLOCK FALSE
