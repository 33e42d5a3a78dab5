SPECIFICATION Spec
CONSTANTS
  MaxUri = 4
  MaxBody = 2
  MaxLines = 2
  MaxReads = 3
INVARIANTS
  TypeOK
  ParsedAsSent
  ClosedHasReason
  UriKeepsMeaning
  OutputOrError
  WireReadsBack
CHECK_DEADLOCK FALSE
