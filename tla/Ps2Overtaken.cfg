SPECIFICATION Spec
CONSTANTS
  Scripts <- MCInitKeyMouse
  GarbageBytes = {0}
  QuietInit = TRUE
  MaxBytes = 3
CHECK_DEADLOCK FALSE
INVARIANT EachByteOnce
