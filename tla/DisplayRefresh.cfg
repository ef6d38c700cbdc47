SPECIFICATION Spec
CONSTANTS
  K64 = 8
  CharBlock = 2
  Half = 2
  Glyph = 2
  Colours = 2
  Width0 = 2
  Height0 = 4
  Boot <- MCBoot
  Programs <- MCPrograms
  PowerUp <- MCPowerUp
INVARIANTS
  TypeOK
  NothingMissed
  AsWritten
  OnlyBootFaults
PROPERTIES
  EventuallyShown
CHECK_DEADLOCK FALSE
