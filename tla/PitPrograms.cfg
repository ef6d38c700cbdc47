SPECIFICATION Spec
CONSTANTS
  NTimers = 2
  Byte <- MCByte
  Ones = 1
  Modes <- MCModes
  Accesses <- MCAccesses
INVARIANTS
  TypeOK
  PeriodAsWritten
  OneStaleTick
PROPERTIES
  RequestsContinue
  DestructorEnds
CHECK_DEADLOCK FALSE
