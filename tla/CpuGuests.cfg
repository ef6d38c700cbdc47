SPECIFICATION Spec

CONSTANTS
  Guests <- MCGuests
  PortBytes = {7}
  RamSize = 704
  PageSize = 32
  TableLen = 8

INVARIANTS
  TypeOK
  InStep
  TranslationCurrent

PROPERTIES
  ContextRestored
  TranslationsKept
  GuestFinishes
