\* Forms of up to four parts, one job, two attempts, one retry.
SPECIFICATION SSpec
CONSTANTS
  MinPriority = 0
  MaxPriority = 1
  NoRow = NoRow
  Limit = 2
  MaxParts = 4
  Mine = m
  Jobs = {m}
  Attempts = {a1, a2}
  None = None
  MaxRetries = 1
  Queries = {"jobs", "depth"}
INVARIANTS
  AcceptedIsDurable
  OrphansKnown
  LimitIsExact
  AnswerIsWhole
  OutputsAgree
  VerdictIsTrue
PROPERTIES
  ReadsMoveForward
  EventsMoveForward
  AcceptedIsFound
