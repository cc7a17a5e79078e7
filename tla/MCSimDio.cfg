SPECIFICATION SimSpec
CONSTANTS
  WordBits = 2
  Poly <- MCPoly
  MaxPayload = 2
  Body <- MCBody
  GapBits = 2
  FramesPerBurst = 1
  LostAfter = 2
  Limits <- MCLimits
  Delays = {0, 1}
  GlitchWidth = 1
  Wrap = 3
  Flips = {3, 6}
  StepEvery = 1
  MaxOps = 3
  MaxMishaps = 1
INVARIANTS LevelSettles LostFramesAreOnlyMissed TwinsAgree
PROPERTIES HushedIsTold
CHECK_DEADLOCK FALSE
