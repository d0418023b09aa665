SPECIFICATION AnySpec
CONSTANTS
  Name = {a, b}
  NoName = NoName
  NBLOCKS = 8
  NDIRECT = 1
  NINDIRECT = 2
  BLKFILES = 2
  Val = {0, 1}
  Zero = 0
  NoFile = NoFile
INVARIANTS DiskOwnedInUse
SYMMETRY MCNameSymmetry
