\* Two uploads of one content.
SPECIFICATION Spec
CONSTANTS
  Jobs = 2
  Content = {c1}
  None = None
  MaxQueued = 2
  Workers = 2
  Faults = 0
INVARIANTS FoundIsThere
CHECK_DEADLOCK FALSE
