SPECIFICATION MCSpec
CONSTANTS
  r1 = r1
  r2 = r2
  r3 = r3
  mon = mon
  tue = tue
  Days <- MCDays
  Hours <- MCHours
  Plans <- MCPlans
  Recorders <- MCRecorders
  MaxOverruns = 1
  MaxTroubles = 2
  MaxPlans = 2
  MaxTicks = 4
INVARIANTS
  TypeOK
  RecordersCounted
  FormatAlone
PROPERTIES
  StopsAsPlanned
  RecordsAsPlanned
  ResumesAfterPull
CHECK_DEADLOCK FALSE
