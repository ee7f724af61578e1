CONSTANTS
  Requests <- MCRequests
  Newline <- MCNewline
  MaxTogether = 2
  MaxSent = 3
SPECIFICATION Spec
INVARIANTS LinesAreMessages
CHECK_DEADLOCK FALSE
