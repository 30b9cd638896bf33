SPECIFICATION Spec
CONSTANTS
    Request <- UpdatesAndPayment
    Kind <- KindOf
    Field = {"due_date", "date"}
    Names <- NamesOf
    MaxAttempts = 2
    MaxEdits = 1
INVARIANTS
    TypeOK
    UpdatedOnce
    MadeAtMost
PROPERTIES
    FieldsKept
CHECK_DEADLOCK FALSE
