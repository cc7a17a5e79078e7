CONSTANTS
  Durations = {1, 2}
  Codes = {"code"}
  MaxSpoiled = 2
SPECIFICATION Spec
INVARIANTS SymbolsAreReportedOrHeld DurationIsItsOwn
PROPERTIES HeldIsReported
