\* One job, one retry, two reapers whose sweeps overlap, any fault.
SPECIFICATION Spec
CONSTANTS
  Jobs = {j1}
  Workers = {w1, w2}
  Reapers = {r1, r2}
  Attempts = {a1, a2}
  None = None
  MaxRetries = 1
  MaxFaults = 1
SYMMETRY Symmetry
CONSTRAINT ThreeActors
INVARIANTS
  TypeOK
  OneRunningAttempt
  OneVisibleCompletion
  AttemptsNumbered
  RetriesAccounted
  QueuedIsReachable
PROPERTIES
  TerminalIsFinal
  RetryRetiresAttempt
  ImplementsContract
