SPECIFICATION Spec
CONSTANTS
  Statuses = {400, 408, 500, 600}
  RetryAfters = {40}
  MaxRetries = 3
  Cap = 10
INVARIANTS RaisesWhenItMust WaitsAreBounded
CHECK_DEADLOCK FALSE
