CONSTANTS
  debounce_ms = 1
  dot_dash_ms = 2
  letter_ms = 3
  word_ms = 4
  Wrap = 7
  MaxSymbol = 2
  RingSize = 2
  Table <- TableV
  MaxLag = 1
  MaxHold = 2
  MaxPulses = 3
  MaxGlitches = 1
SPECIFICATION BoardSpec
PROPERTIES LettersAreAsKeyed PrintsItsLines
