\* Three jobs, three priorities and one beyond each bound.
SPECIFICATION QSpec
CONSTANTS
  Jobs = {j1, j2, j3}
  MinPriority = 0
  MaxPriority = 2
  None = None
INVARIANTS
  QTypeOK
  IndexesAgree
PROPERTIES
  ImplementsLine
