CONSTANTS
  Bytes = {a, b}
  MaxSize = 2
  DirSize = 3
  Junk = Junk
  Page = Page
  MaxChanges = 2
SPECIFICATION Spec
CHECK_DEADLOCK FALSE
INVARIANTS
  TypeOK
  LengthMatchesBody
  QuietAnswer
  ContentKeepsStatus
