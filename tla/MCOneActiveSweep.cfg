\* Two reapers and a Redis that keeps its data; two faults miss two refreshes.
SPECIFICATION LSpec
CONSTANTS
  Reapers = {r1, r2}
  None = None
  Period = 1
  MaxFaults = 2
ACTION_CONSTRAINT RedisKeepsData
INVARIANTS
  OneActiveSweep
