SPECIFICATION Spec
CONSTANTS
  NLines = 8
  MasterDevs = {0, 1, 6}
  SlaveDevs = {4}
  Cascade = 2
  PowerOnBytes = {0, 255}
  BootScripts <- MCManualEoi
  Handler <- NonSpecificEoi
  SoftVectors = {128}
  GateClearsIF = FALSE
  MaxDepth = 3
PROPERTY PollMarksLine
