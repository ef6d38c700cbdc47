SPECIFICATION FairSpec
CONSTANTS
  NLines = 8
  MasterDevs = {0, 1, 6}
  SlaveDevs = {4}
  Cascade = 2
  PowerOnBytes = {0, 255}
  BootScripts <- MCBootScripts
  Handler <- NonSpecificEoi
  SoftVectors = {128}
  GateClearsIF = TRUE
  MaxDepth = 4
INVARIANTS
  TypeOK
  IsrMatchesHandlers
  KnownVectors
  HaltWakeable
PROPERTIES
  EoiClearsOwnLine
  NoRequestLost
  TopServed
