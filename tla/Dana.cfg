SPECIFICATION MCSpec
CONSTANTS
  s1 = s1
  s2 = s2
  g1 = g1
  g2 = g2
  a = a
  b = b
  Sessions <- MCSessions
  Strays <- MCStrays
  Films <- MCFilms
  Wants <- MCWants
  MaxCrowds = 3
  MaxFaults = 1
  MaxEarly = 1
  MaxCloudFaults = 1
INVARIANTS
  StreamsKnown
  PlaybackSound
  UploadsSound
PROPERTIES
  JoinsReturn
CHECK_DEADLOCK FALSE
