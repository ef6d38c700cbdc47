SPECIFICATION Spec
CONSTANTS
  NoTracks = 2
  NoHeads = 2
  NoSectors = 2
  SectorSz = 4
  Unit = 1
  Half = 32
  Image <- FullImage
  Programs <- AcrossHalf
  InitProgress = {0, 3, 9}
CHECK_DEADLOCK FALSE
PROPERTY WholeSector
