\* Two files with a common end: all bit strings of up to 9 behind heads of up to 3.
CONSTANTS
  Bytes <- Bits
  Files <- AllFiles
  Heads <- AllHeads
  Tails <- AllTails
  Earlier = 1
  Win = 2
  MinSize = 3
  MaxSize = 7
  Digest <- Ones
SPECIFICATION VersionsSpec
INVARIANTS Tiles ContentDefined Resync
PROPERTIES Divided
CHECK_DEADLOCK FALSE
