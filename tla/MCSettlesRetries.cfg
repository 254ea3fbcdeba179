\* Failures, lapsing leases and a retry, and a fault in the middle of a requeue.
SPECIFICATION FairSpec
CONSTANTS
  Jobs = {j1}
  Workers = {1, 2}
  Reapers = {r1}
  Attempts = {1, 2}
  None = None
  MaxRetries = 1
  MaxFaults = 1
CONSTRAINT IdsInOrder
ACTION_CONSTRAINT FaultsInRequeue
PROPERTIES
  EveryJobSettles
  LostEntryRestored
