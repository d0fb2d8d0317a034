\* The file system of lab 6, with hard links to files.
SPECIFICATION Spec
CONSTANTS
  x = x
  y = y
  DATA = DATA
  LastINode = 3
  LastBlock = 3
  Names <- MCNames
  DataBlockSize = 2
  DirectBlocks = 2
  Word = 64
  MetaDataSize = 3
  Fitting <- AllFit
  Usage = {"filelink"}
INVARIANTS
  TypeOK
  Saved
  BlocksExact
  NamesCounted
  ParentsHold
  MetaDataSizeShown
SYMMETRY Symmetric
VIEW Looked
