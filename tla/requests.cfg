SPECIFICATION PipelineSpec
CONSTANTS
  Caller = {a, b, c}
  Limit = 2
  Window = 3
  Timeout = 2
  Permits = 2
INVARIANTS PipelineTypeOK OverrunBounded PermitsKept NoIdlePermit PermitsInUse CallsBounded
PROPERTIES WaitsForNewWindow Answered
