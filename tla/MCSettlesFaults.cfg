\* Any two faults: crashes, lost entries, failed calls, aborted sweeps.
SPECIFICATION FairSpec
CONSTANTS
  Jobs = {j1}
  Workers = {1, 2, 3}
  Reapers = {r1}
  Attempts = {1}
  None = None
  MaxRetries = 0
  MaxFaults = 2
CONSTRAINT IdsInOrder
PROPERTIES
  EveryJobSettles
  LostEntryRestored
