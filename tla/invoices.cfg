SPECIFICATION Spec
CONSTANTS
    Doc = {d}
    Client = {p, q}
    Unit <- MCUnit
    Quantity <- MCQuantity
    Parts = 2
    TaxType = {"OUTPUT"}
    Tax = {0, 1}
    MaxLines = 2
    MaxTotal = 9
    NoDoc = NoDoc
INVARIANTS
    TypeOK
    PaidIffSettled
    DraftUntouched
    VoidNotPaid
    AmountKept
    LinesAddUp
CHECK_DEADLOCK FALSE
