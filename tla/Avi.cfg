SPECIFICATION Spec
CONSTANTS
  SaveNum = 3
  Capacity = 6
  MaxSize = 2
  MaxFrames = 6
  MaxFiles = 2
  MaxFaults = 2
INVARIANTS
  TypeOK
  StartsWithKeyFrame
  HeaderExact
  LeaksCounted
  ArrayCounted
PROPERTIES
  IsAFilm
CHECK_DEADLOCK FALSE
