\* Three reapers, of which at most two crash; a refresh every 2 of 6 ticks.
SPECIFICATION LFairSpec
CONSTANTS
  Reapers = {r1, r2, r3}
  None = None
  Period = 2
  MaxFaults = 2
INVARIANTS
  LTypeOK
  SweeperHoldsLock
PROPERTIES
  SweepsGoOn
