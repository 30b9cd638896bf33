SPECIFICATION Safe
CONSTANTS
    ERP <- Both
    LegacyErp = "xero"
    Configured <- Both
    Seeded <- OneQbo
    Refreshless <- Nobody
    ExpiryAge <- TwoMinutes
    SafetyMargin = 1
    MaxTime = 3
    MaxLogins = 1
    MaxFaults = 0
INVARIANTS
    NeverForgotten
CHECK_DEADLOCK FALSE
