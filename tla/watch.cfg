SPECIFICATION TimedSpec
CONSTANTS
  Modulus = 256
  Second = 1
  Intervals = {0, 1, 2, 3, 30, 43, 60}
  MaxClock = 34
INVARIANTS EvaluatorsAgree ThresholdsAreExact
PROPERTIES SilenceDegrades SilenceIsNoticed
