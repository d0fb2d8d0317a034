\* Hard links to directories in lab 6.
SPECIFICATION Spec
CONSTANTS
  x = x
  y = y
  DATA = DATA
  LastINode = 3
  LastBlock = 3
  Names <- MCNames
  DataBlockSize = 2
  DirectBlocks = 2
  Word = 64
  MetaDataSize = 3
  Fitting <- AllFit
  Usage = {"dirlink"}
INVARIANT
  ParentIsDirectory
