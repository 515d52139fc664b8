SPECIFICATION Spec
CONSTANTS
  Threads = {t1, t2, t3}
  Limit = 2
INVARIANTS
  TableRight
  ResultsRight
PROPERTIES
  CallsEnd
CHECK_DEADLOCK FALSE
