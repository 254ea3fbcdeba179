\* Three jobs in two tiers, one worker, one reaper, one fault.
SPECIFICATION DSpec
CONSTANTS
  Jobs = {j1, j2, u}
  Urgent = u
  Workers = {w1}
  Reapers = {r1}
  Attempts = {a1}
  None = None
  MaxRetries = 1
  MaxFaults = 1
  MinPriority = 0
  MaxPriority = 1
  Priority <- Column
SYMMETRY Symmetry
CONSTRAINT OneOldRow
PROPERTIES
  BestFirst
  OnlyHigherOvertake
