SPECIFICATION Spec
CONSTANTS
  Name = {a, b}
  NoName = NoName
  NBLOCKS = 7
  NDIRECT = 1
  NINDIRECT = 1
  BLKFILES = 1
  Val = {0, 1}
  Zero = 0
  NoFile = NoFile
INVARIANTS NoBlockTwice OwnedInUse NothingBeyondSize
PROPERTIES ImplementsFileStore
SYMMETRY MCNameSymmetry
