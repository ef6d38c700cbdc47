SPECIFICATION FairSpec
CONSTANTS
  Scripts <- MCInitKeyMouse
  GarbageBytes = {0}
  QuietInit = FALSE
  MaxBytes = 2
CHECK_DEADLOCK FALSE
PROPERTY CpuNeverStuck
