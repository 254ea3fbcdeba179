\* Forms of one part, three priorities and one beyond each bound.
SPECIFICATION USpec
CONSTANTS
  MinPriority <- LowestPriority
  MaxPriority <- HighestPriority
  NoRow = NoRow
  Limit = 2
  MaxParts = 1
INVARIANTS
  DurableIsAccepted
