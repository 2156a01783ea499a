SPECIFICATION SerialSpec
CONSTANTS
  Frame = {1, 2}
  a = a
  b = b
  Sha = {a, b}
  first = first
  second = second
  Import = {first, second}
  Absent = Absent
  Torn = Torn
CHECK_DEADLOCK FALSE
INVARIANT
  ReportIsTrue
PROPERTY
  NeverOverwritten
