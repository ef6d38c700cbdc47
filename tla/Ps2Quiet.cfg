SPECIFICATION FairSpec
CONSTANTS
  Scripts <- MCScripts
  GarbageBytes = {0, 255}
  QuietInit = TRUE
  MaxBytes = 5
CHECK_DEADLOCK FALSE
INVARIANTS
  TypeOK
  ReadsAreCurrent
  InSync
PROPERTIES
  UiNeverStuck
  EveryByteAnswered
