SPECIFICATION Spec
CONSTANTS
  Bytes <- SomeBytes
  MaxSize = 4
  Texts <- SomeTexts
  Cuts = {"in a line", "after a line"}
INVARIANTS
  Base64RoundTrip
  CodeReversible
  NumberRoundTrip
  HeaderRead
CHECK_DEADLOCK FALSE
