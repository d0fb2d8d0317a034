\* Copying a file to the virtual disk of lab 6 and back.
SPECIFICATION Spec
CONSTANTS
  x = x
  y = y
  DATA = DATA
  LastINode = 3
  LastBlock = 3
  Names <- MCNames
  DataBlockSize = 2
  DirectBlocks = 2
  Word = 64
  MetaDataSize = 3
  Fitting <- AllFit
  Usage = {}
INVARIANT
  CopiedBackWhole
