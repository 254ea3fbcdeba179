\* One crash, failed call or lost entry.
SPECIFICATION Spec
CONSTANTS
  Jobs = {j1}
  Workers = {w1, w2}
  Reapers = {r1}
  Attempts = {a1, a2}
  None = None
  MaxRetries = 1
  MaxFaults = 1
SYMMETRY Symmetry
PROPERTIES
  DeathSparesOtherAttempts
