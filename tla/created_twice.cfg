SPECIFICATION Spec
CONSTANTS
    Request <- Creates
    Kind <- KindOf
    Field = {"due_date", "date"}
    Names <- NamesOf
    MaxAttempts = 3
    MaxEdits = 0
INVARIANTS
    CreatedOnce
CHECK_DEADLOCK FALSE
