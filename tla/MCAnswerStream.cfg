SPECIFICATION Spec
CONSTANTS
  ServerAnswers <- MCServerAnswers
  CliAnswers <- MCCliAnswers
  NativeAnswers <- MCNativeAnswers
  Intended <- MCIntended
  Headers <- MCHeaders
  Files <- MCFiles
  Languages <- MCLanguages
  Unreadable = {}
  ReadOnly = {}
  ReadsEnabled = TRUE
  DeltaSizes = {1, 2, 4}
  ToolParts <- MCToolParts
  KeepChars = 4
  HoldMax = 6
  WordChars = {"x", "y", "z", "a", "json", "py", "edit", "read", "create", "sh", "name"}
  MaxWire = 2
  MaxAnswers = 2
CHECK_DEADLOCK FALSE
INVARIANT TextConserved
INVARIANT FencedCallsFound
INVARIANT NativeCallWhole
INVARIANT AppliedReported
INVARIANT EditsAsWritten
PROPERTY BlocksAsWritten
