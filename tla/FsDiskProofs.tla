----------------------------- MODULE FsDiskProofs -----------------------------
(***************************************************************************)
(* For every number of blocks, of names and of pointers: what a crash      *)
(* finds on the disk, when files are truncated as fs/serv.c and the clients *)
(* do it.  The cache is sound, the disk holds nothing the cache does not   *)
(* have, and every write on the way keeps it so.                           *)
(***************************************************************************)
EXTENDS FsDisk, FiniteSetTheorems, WellFoundedInduction, NaturalsInduction, TLAPS

-----------------------------------------------------------------------------
(* Numbers. *)

\* A set of naturals that is not empty has a least element.
LEMMA LeastNat ==
  ASSUME NEW T \in SUBSET Nat, T # {}
  PROVE  \E n \in T : \A m \in T : n <= m
<1>1. IsWellFoundedOn(OpToRel(<, Nat), Nat)
  BY NatLessThanWellFounded
<1>2. \E x \in T : \A y \in T : ~ (<<y, x>> \in OpToRel(<, Nat))
  BY <1>1, WFMin
<1>3. \A x, y \in Nat : x < y => <<x, y>> \in OpToRel(<, Nat)
  BY DEF OpToRel
<1>4. PICK n \in T : \A m \in T : ~(m < n)
  BY <1>2, <1>3
<1>5. \A m \in T : n <= m
  BY <1>4
<1>6. QED
  BY <1>5

\* A set that holds a and, with a number below b, the next one, holds a to b.
LEMMA Climb ==
  ASSUME NEW a \in Nat, NEW b \in Nat, NEW T, a \in T,
         \A n \in a .. b - 1 : n \in T => n + 1 \in T
  PROVE  \A n \in a .. b : n \in T
<1>1. SUFFICES ASSUME (a .. b) \ T # {} PROVE FALSE
  OBVIOUS
<1>2. PICK n \in (a .. b) \ T : \A m \in (a .. b) \ T : n <= m
  <2> DEFINE S == (a .. b) \ T
  <2>1. S \in SUBSET Nat /\ S # {}
    BY <1>1
  <2> HIDE DEF S
  <2>2. \E n \in S : \A m \in S : n <= m
    BY <2>1, LeastNat
  <2> QED BY <2>2 DEF S
<1>3. n # a /\ n \in Nat /\ n - 1 \in a .. b - 1
  BY <1>2
<1>4. n - 1 \in T
  BY <1>2, <1>3
<1>5. n - 1 + 1 \in T
  BY <1>3, <1>4
<1>6. QED
  BY <1>2, <1>3, <1>5

-----------------------------------------------------------------------------
(* The invariant of one operation's result: m is the cache, d the disk when *)
(* every write so far is carried out.                                       *)

BlockNo == Block \cup {0}
FileType == [name : Name \cup {NoName}, size : Nat,
             direct : [0 .. NDIRECT - 1 -> BlockNo], indirect : BlockNo]
BlockType == [free : SUBSET Block, files : [1 .. BLKFILES -> FileType],
              ptrs : [0 .. NINDIRECT - 1 -> BlockNo], data : Val]
DiskType == [Block -> BlockType]

Blk(m, f, n) == BlockIn(m, FileAt(m, f), n)
Empty(file) ==
  /\ file.size = 0 /\ file.indirect = 0
  /\ \A n \in 0 .. NDIRECT - 1 : file.direct[n] = 0

\* No block number occurs twice.
Distinct(m) ==
  \A f, g \in Owners(m) : \A n, k \in 0 .. MaxSize :
    Blk(m, f, n) # 0 /\ Blk(m, f, n) = Blk(m, g, k) => f = g /\ n = k

Sound(m) ==
  /\ m[BITMAP].free \subseteq Block \ {SUPER, BITMAP}
  /\ InUse(m) /\ Distinct(m) /\ WithinSize(m)

\* What the disk has of a slot of the cache, and of its indirect block: the
\* number the cache has, or none.
SlotUnder(m, d, f) ==
  /\ \A n \in 0 .. NDIRECT - 1 : FileAt(d, f).direct[n] \in {0, FileAt(m, f).direct[n]}
  /\ FileAt(d, f).indirect \in {0, FileAt(m, f).indirect}
  /\ FileAt(m, f).indirect # 0 =>
       \A n \in 0 .. NINDIRECT - 1 :
         d[FileAt(m, f).indirect].ptrs[n] \in {0, m[FileAt(m, f).indirect].ptrs[n]}

\* Its size is the same on both, with a name or without.
FileUnder(m, d, f) == FileAt(d, f).size = FileAt(m, f).size

\* The root may have grown in the cache only.
RootUnder(m, d) ==
  /\ FileAt(d, Root).size <= FileAt(m, Root).size
  /\ \A n \in FileAt(d, Root).size .. MaxSize - 1 : Blk(d, Root, n) = 0

Under(m, d) ==
  /\ d[BITMAP].free \subseteq m[BITMAP].free
  /\ \A f \in Owners(m) : SlotUnder(m, d, f)
  /\ \A f \in Refs(m) : FileUnder(m, d, f)
  /\ RootUnder(m, d)

Good(m, d) == m \in DiskType /\ d \in DiskType /\ Sound(m) /\ Under(m, d)

-----------------------------------------------------------------------------
(* Files and their blocks. *)

\* The superblock and the bitmap are two blocks, and block 0 is none.
LEMMA Sizes ==
  /\ SUPER \in Block /\ BITMAP \in Block /\ SUPER # BITMAP
  /\ Block \subseteq Nat /\ 0 \notin Block
  /\ NDIRECT \in Nat \ {0} /\ NINDIRECT \in Nat \ {0} /\ MaxSize = NDIRECT + NINDIRECT
  /\ 1 \in 1 .. BLKFILES
BY DiskAssumption DEF SUPER, BITMAP, Block, MaxSize

\* A file's number of block n is a block number, or 0.
LEMMA PtrType ==
  ASSUME NEW m \in DiskType, NEW file \in FileType, NEW n \in Nat
  PROVE  PtrIn(m, file, n) \in BlockNo
<1>1. CASE n < NDIRECT
  BY <1>1, Sizes DEF FileType, PtrIn
<1>2. CASE n >= NDIRECT /\ n < MaxSize /\ file.indirect # 0
  <2>1. file.indirect \in Block
    BY <1>2 DEF FileType, BlockNo
  <2>2. n - NDIRECT \in 0 .. NINDIRECT - 1
    BY <1>2, Sizes
  <2>3. m[file.indirect].ptrs[n - NDIRECT] \in BlockNo
    BY <2>1, <2>2 DEF DiskType, BlockType
  <2> QED BY <2>3, <1>2, Sizes DEF PtrIn
<1>3. CASE n >= NDIRECT /\ (n >= MaxSize \/ file.indirect = 0)
  BY <1>3, Sizes DEF PtrIn, BlockNo
<1> QED BY <1>1, <1>2, <1>3, Sizes

RootIs(m) == Root \in Owners(m) /\ Root.b = SUPER /\ Root.j = 1

\* The root directory's struct File is slot 1 of the superblock.
LEMMA IsRoot == \A m : RootIs(m)
BY DEF RootIs, Owners, Root

SlotOk(m, f) ==
  /\ f = [b |-> f.b, j |-> f.j]
  /\ f.b \in Block /\ f.j \in 1 .. BLKFILES
  /\ FileAt(m, f) \in FileType
  /\ FileAt(m, f) = m[f.b].files[f.j]

\* The root is a struct File.
LEMMA RootType ==
  ASSUME NEW m \in DiskType
  PROVE  SlotOk(m, Root)
BY Sizes DEF SlotOk, Root, FileAt, DiskType, BlockType

\* The blocks of the directory.
LEMMA DirBlockIs ==
  ASSUME NEW m \in DiskType
  PROVE  /\ DirBlocks(m) \subseteq Block
         /\ \A b \in DirBlocks(m) : \E n \in 0 .. MaxSize - 1 :
              n < FileAt(m, Root).size /\ PtrAt(m, Root, n) = b /\ Blk(m, Root, n) = b
         /\ \A n \in Nat : n < FileAt(m, Root).size /\ PtrAt(m, Root, n) # 0
                             => PtrAt(m, Root, n) \in DirBlocks(m)
<1>1. FileAt(m, Root) \in FileType /\ FileAt(m, Root).size \in Nat
  BY RootType DEF SlotOk, FileType
<1>2. \A n \in Nat : PtrAt(m, Root, n) \in BlockNo
  BY <1>1, PtrType DEF PtrAt
<1>3. ASSUME NEW b \in DirBlocks(m)
      PROVE  b \in Block /\ \E n \in 0 .. MaxSize - 1 :
              n < FileAt(m, Root).size /\ PtrAt(m, Root, n) = b /\ Blk(m, Root, n) = b
  <2>1. PICK n \in 0 .. FileAt(m, Root).size - 1 : PtrAt(m, Root, n) = b /\ b # 0
    BY <1>3 DEF DirBlocks
  <2>2. n \in Nat /\ n < FileAt(m, Root).size
    BY <1>1, <2>1
  <2>3. n < MaxSize
    BY <2>1, <2>2, Sizes DEF PtrAt, PtrIn
  <2>4. Blk(m, Root, n) = b
    BY <2>1, <2>2, <2>3, Sizes DEF Blk, BlockIn, PtrAt
  <2>5. n \in 0 .. MaxSize - 1
    BY <2>2, <2>3, Sizes
  <2>6. b \in Block
    BY <2>1, <2>2, <1>2 DEF BlockNo
  <2> QED BY <2>1, <2>2, <2>4, <2>5, <2>6
<1>4. ASSUME NEW n \in Nat, n < FileAt(m, Root).size, PtrAt(m, Root, n) # 0
      PROVE  PtrAt(m, Root, n) \in DirBlocks(m)
  BY <1>1, <1>4 DEF DirBlocks
<1> QED BY <1>3, <1>4

\* Every slot of the directory is a struct File in a block.
LEMMA SlotType ==
  ASSUME NEW m \in DiskType, NEW f \in Owners(m)
  PROVE  SlotOk(m, f)
<1>1. CASE f = Root
  BY <1>1, RootType
<1>2. CASE f \in Refs(m)
  <2>1. PICK b \in DirBlocks(m), j \in 1 .. BLKFILES : f = [b |-> b, j |-> j]
    BY <1>2 DEF Refs
  <2>2. b \in Block
    BY <2>1, DirBlockIs
  <2> QED BY <2>1, <2>2 DEF SlotOk, FileAt, DiskType, BlockType
<1> QED BY <1>1, <1>2 DEF Owners

\* The slots of the directory and the root are the owners.
LEMMA OwnersAre ==
  ASSUME NEW m
  PROVE  Refs(m) \subseteq Owners(m) /\ Root \in Owners(m)
BY DEF Owners

\* The block numbers of a slot, by case.
BlkIs(m, f) ==
  /\ \A n \in 0 .. NDIRECT - 1 : Blk(m, f, n) = FileAt(m, f).direct[n]
  /\ \A n \in 0 .. NINDIRECT - 1 :
       Blk(m, f, NDIRECT + n) = IF FileAt(m, f).indirect = 0 THEN 0
                                ELSE m[FileAt(m, f).indirect].ptrs[n]
  /\ Blk(m, f, MaxSize) = FileAt(m, f).indirect
  /\ \A n \in 0 .. MaxSize - 1 : Blk(m, f, n) = PtrAt(m, f, n)
  /\ \A n \in 0 .. MaxSize : Blk(m, f, n) \in BlockNo

\* The numbers of a struct File, by way of the direct slots and of the indirect
\* block, are block numbers.
LEMMA BlkForms ==
  ASSUME NEW m \in DiskType, NEW f, FileAt(m, f) \in FileType
  PROVE  BlkIs(m, f)
<1> DEFINE file == FileAt(m, f)
<1>0. file \in FileType
  OBVIOUS
<1> HIDE DEF file
<1>1. \A n \in 0 .. NDIRECT - 1 : BlockIn(m, file, n) = file.direct[n]
  BY Sizes DEF BlockIn, PtrIn
<1>2. ASSUME NEW n \in 0 .. NINDIRECT - 1
      PROVE  BlockIn(m, file, NDIRECT + n) = IF file.indirect = 0 THEN 0
                                             ELSE m[file.indirect].ptrs[n]
  <2>1. PICK k : k = NDIRECT + n
    OBVIOUS
  <2>2. k # MaxSize /\ ~(k < NDIRECT) /\ ~(k >= MaxSize) /\ k - NDIRECT = n
    BY <2>1, Sizes
  <2>3. BlockIn(m, file, k) = IF file.indirect = 0 THEN 0 ELSE m[file.indirect].ptrs[n]
    BY <2>2 DEF BlockIn, PtrIn
  <2> QED BY <2>1, <2>3
<1>3. BlockIn(m, file, MaxSize) = file.indirect
  BY DEF BlockIn
<1>4. \A n \in 0 .. MaxSize - 1 : BlockIn(m, file, n) = PtrIn(m, file, n)
  BY Sizes DEF BlockIn
<1>5. ASSUME NEW n \in 0 .. MaxSize
      PROVE  BlockIn(m, file, n) \in BlockNo
  <2>1. PtrIn(m, file, n) \in BlockNo
    BY <1>0, PtrType, Sizes
  <2>2. file.indirect \in BlockNo
    BY <1>0 DEF FileType
  <2> QED BY <2>1, <2>2 DEF BlockIn
<1> QED BY <1>1, <1>2, <1>3, <1>4, <1>5 DEF BlkIs, Blk, PtrAt, file

\* InUse, owner by owner.
UsedIs(m) ==
  \A f \in Owners(m), n \in 0 .. MaxSize :
    Blk(m, f, n) # 0 => Blk(m, f, n) \notin m[BITMAP].free \cup {SUPER, BITMAP}

\* InUse, number by number.
LEMMA InUseIs ==
  ASSUME NEW m
  PROVE  InUse(m) <=> UsedIs(m)
<1> DEFINE all == {<<f, n, BlockIn(m, FileAt(m, f), n)>> : f \in Owners(m), n \in 0 .. MaxSize}
<1>1. Owned(m) = {o \in all : o[3] # 0}
  BY DEF Owned
<1>2. ASSUME InUse(m), NEW f \in Owners(m), NEW n \in 0 .. MaxSize, Blk(m, f, n) # 0
      PROVE  Blk(m, f, n) \notin m[BITMAP].free \cup {SUPER, BITMAP}
  <2>1. <<f, n, BlockIn(m, FileAt(m, f), n)>> \in Owned(m)
    BY <1>2, <1>1 DEF Blk
  <2> QED BY <2>1, <1>2 DEF InUse, Blk
<1>3. ASSUME UsedIs(m), NEW o \in Owned(m)
      PROVE  o[3] \notin m[BITMAP].free \cup {SUPER, BITMAP}
  <2>1. PICK f \in Owners(m), n \in 0 .. MaxSize :
          o = <<f, n, BlockIn(m, FileAt(m, f), n)>> /\ o[3] # 0
    BY <1>1
  <2>2. o[3] = Blk(m, f, n)
    BY <2>1 DEF Blk
  <2> QED BY <2>1, <2>2, <1>3 DEF UsedIs
<1> QED BY <1>2, <1>3 DEF InUse, UsedIs

-----------------------------------------------------------------------------
(* What the disk has is part of what the cache has. *)

\* Any slot of any block of a disk is a struct File.
LEMMA FileAtType ==
  ASSUME NEW d \in DiskType, NEW f, f.b \in Block, f.j \in 1 .. BLKFILES
  PROVE  FileAt(d, f) \in FileType /\ BlkIs(d, f)
<1>1. FileAt(d, f) \in FileType
  BY DEF FileAt, DiskType, BlockType
<1> QED BY <1>1, BlkForms

\* 0 .. MaxSize is the direct numbers, those of the indirect block, and that block.
LEMMA Ways ==
  ASSUME NEW n \in 0 .. MaxSize
  PROVE  \/ n \in 0 .. NDIRECT - 1
         \/ \E k \in 0 .. NINDIRECT - 1 : n = NDIRECT + k
         \/ n = MaxSize
<1>1. CASE n >= NDIRECT /\ n < MaxSize
  <2>1. PICK k : k = n - NDIRECT
    OBVIOUS
  <2>2. k \in 0 .. NINDIRECT - 1 /\ n = NDIRECT + k
    BY <1>1, <2>1, Sizes
  <2> QED BY <2>2
<1> QED BY <1>1, Sizes

\* A slot on the disk has no numbers that the cache's does not have.
LEMMA BlkUnderSlot ==
  ASSUME NEW m \in DiskType, NEW d \in DiskType, NEW f \in Owners(m), SlotUnder(m, d, f)
  PROVE  \A n \in 0 .. MaxSize : Blk(d, f, n) \in {0, Blk(m, f, n)}
<1>1. SlotOk(m, f)
  BY SlotType
<1>2. FileAt(m, f) \in FileType /\ BlkIs(m, f) /\ FileAt(d, f) \in FileType /\ BlkIs(d, f)
  BY <1>1, FileAtType DEF SlotOk
<1>3. ASSUME NEW n \in 0 .. NDIRECT - 1
      PROVE  Blk(d, f, n) \in {0, Blk(m, f, n)}
  <2>1. FileAt(d, f).direct[n] \in {0, FileAt(m, f).direct[n]}
    BY DEF SlotUnder
  <2> QED BY <2>1, <1>2 DEF BlkIs
<1>4. ASSUME NEW n \in 0 .. NINDIRECT - 1
      PROVE  Blk(d, f, NDIRECT + n) \in {0, Blk(m, f, NDIRECT + n)}
  <2>1. Blk(m, f, NDIRECT + n) = IF FileAt(m, f).indirect = 0 THEN 0
                                 ELSE m[FileAt(m, f).indirect].ptrs[n]
    BY <1>2 DEF BlkIs
  <2>2. Blk(d, f, NDIRECT + n) = IF FileAt(d, f).indirect = 0 THEN 0
                                 ELSE d[FileAt(d, f).indirect].ptrs[n]
    BY <1>2 DEF BlkIs
  <2>3. FileAt(d, f).indirect \in {0, FileAt(m, f).indirect}
    BY DEF SlotUnder
  <2>4. FileAt(m, f).indirect # 0 =>
          d[FileAt(m, f).indirect].ptrs[n] \in {0, m[FileAt(m, f).indirect].ptrs[n]}
    BY DEF SlotUnder
  <2> QED BY <2>1, <2>2, <2>3, <2>4
<1>5. Blk(d, f, MaxSize) \in {0, Blk(m, f, MaxSize)}
  BY <1>2 DEF BlkIs, SlotUnder
<1> QED BY <1>3, <1>4, <1>5, Ways

PartOf(m, d) ==
  /\ DirBlocks(d) \subseteq DirBlocks(m) /\ Refs(d) \subseteq Refs(m)
  /\ Owners(d) \subseteq Owners(m)
  /\ \A f \in Owners(m), n \in 0 .. MaxSize : Blk(d, f, n) \in {0, Blk(m, f, n)}

\* The files and the numbers on the disk are files and numbers of the cache.
LEMMA DiskPart ==
  ASSUME NEW m, NEW d, Good(m, d)
  PROVE  PartOf(m, d)
<1>1. m \in DiskType /\ d \in DiskType
  BY DEF Good
<1>2. \A f \in Owners(m), n \in 0 .. MaxSize : Blk(d, f, n) \in {0, Blk(m, f, n)}
  BY <1>1, BlkUnderSlot DEF Good, Under
<1>3. FileAt(m, Root) \in FileType /\ FileAt(d, Root) \in FileType
  BY <1>1, RootType DEF SlotOk
<1>4. FileAt(m, Root).size \in Nat /\ FileAt(d, Root).size \in Nat
      /\ FileAt(d, Root).size <= FileAt(m, Root).size
  BY <1>3 DEF Good, Under, RootUnder, FileType
<1>5. ASSUME NEW b \in DirBlocks(d)
      PROVE  b \in DirBlocks(m)
  <2>1. PICK n \in 0 .. MaxSize - 1 : n < FileAt(d, Root).size /\ Blk(d, Root, n) = b
    BY <1>1, DirBlockIs
  <2>2. b \in Block
    BY <1>1, DirBlockIs
  <2>3. Blk(m, Root, n) = b
    BY <1>2, <2>1, <2>2, Sizes, IsRoot DEF RootIs
  <2>4. PtrAt(m, Root, n) = b
    BY <1>1, <1>3, <2>3, BlkForms DEF BlkIs
  <2>5. n < FileAt(m, Root).size /\ n \in Nat
    BY <1>4, <2>1, Sizes
  <2> QED BY <1>1, <2>2, <2>4, <2>5, DirBlockIs, Sizes
<1>6. Refs(d) \subseteq Refs(m)
  BY <1>5 DEF Refs
<1> QED BY <1>2, <1>5, <1>6 DEF PartOf, Owners

\* The blocks of a sound memory, slot by slot.
Placed(m) ==
  /\ Root \notin Refs(m) /\ SUPER \notin DirBlocks(m) /\ BITMAP \notin DirBlocks(m)
  /\ \A f \in Refs(m) : f.b # SUPER /\ f.b # BITMAP
                         /\ \E n \in 0 .. MaxSize - 1 : n < FileAt(m, Root).size /\ Blk(m, Root, n) = f.b
  /\ \A f \in Owners(m) :
       FileAt(m, f).indirect # 0 => FileAt(m, f).indirect \notin {SUPER, BITMAP}

\* In a sound cache no block of the directory, no indirect block and none of the
\* superblock and the bitmap is another of them.
LEMMA SoundPlaced ==
  ASSUME NEW m \in DiskType, Sound(m)
  PROVE  Placed(m)
<1>1. UsedIs(m)
  BY InUseIs DEF Sound
<1>2. \A b \in DirBlocks(m) : b # SUPER /\ b # BITMAP
        /\ \E n \in 0 .. MaxSize - 1 : n < FileAt(m, Root).size /\ Blk(m, Root, n) = b
  <2>1. TAKE b \in DirBlocks(m)
  <2>2. PICK n \in 0 .. MaxSize - 1 : n < FileAt(m, Root).size /\ Blk(m, Root, n) = b
    BY DirBlockIs
  <2>3. b # 0 /\ n \in 0 .. MaxSize
    BY DirBlockIs, Sizes
  <2>4. b \notin {SUPER, BITMAP}
    BY <1>1, <2>2, <2>3, OwnersAre DEF UsedIs
  <2> QED BY <2>2, <2>4
<1>3. \A f \in Refs(m) : f.b \in DirBlocks(m)
  BY DEF Refs
<1>4. \A f \in Refs(m) : f.b # SUPER /\ f.b # BITMAP
                         /\ \E n \in 0 .. MaxSize - 1 : n < FileAt(m, Root).size /\ Blk(m, Root, n) = f.b
  BY <1>2, <1>3
<1>5. Root \notin Refs(m)
  BY <1>4 DEF Root
<1>6. ASSUME NEW f \in Owners(m), FileAt(m, f).indirect # 0
      PROVE  FileAt(m, f).indirect \notin {SUPER, BITMAP}
  <2>1. Blk(m, f, MaxSize) = FileAt(m, f).indirect /\ MaxSize \in 0 .. MaxSize
    BY SlotType, BlkForms, Sizes DEF SlotOk, BlkIs
  <2> QED BY <2>1, <1>1, <1>6 DEF UsedIs
<1> QED BY <1>2, <1>4, <1>5, <1>6 DEF Placed

\* Nothing beyond the size, block by block.
LEMMA WithinIs ==
  ASSUME NEW m \in DiskType, NEW f \in Owners(m), NEW n \in 0 .. MaxSize - 1,
         WithinSize(m), n >= FileAt(m, f).size
  PROVE  Blk(m, f, n) = 0 /\ PtrAt(m, f, n) = 0
<1>1. SlotOk(m, f) /\ BlkIs(m, f)
  BY SlotType, BlkForms DEF SlotOk
<1>2. FileAt(m, f).size \in Nat
  BY <1>1 DEF SlotOk, FileType
<1>3. n \in FileAt(m, f).size .. MaxSize - 1
  BY <1>2, Sizes
<1>4. PtrAt(m, f, n) = 0
  BY <1>3 DEF WithinSize
<1> QED BY <1>1, <1>4 DEF BlkIs

\* A crash leaves a good disk: the disk alone is one.
LEMMA GoodAlone ==
  ASSUME NEW m, NEW d, Good(m, d)
  PROVE  Good(d, d)
<1>1. m \in DiskType /\ d \in DiskType /\ Sound(m) /\ Under(m, d)
  BY DEF Good
<1>2. PartOf(m, d) /\ Placed(m)
  BY <1>1, DiskPart, SoundPlaced
<1>3. d[BITMAP].free \subseteq Block \ {SUPER, BITMAP}
  BY <1>1 DEF Sound, Under
<1>4. InUse(d)
  <2>1. UsedIs(m) /\ d[BITMAP].free \subseteq m[BITMAP].free
    BY <1>1, InUseIs DEF Sound, Under
  <2>2. ASSUME NEW f \in Owners(d), NEW n \in 0 .. MaxSize, Blk(d, f, n) # 0
        PROVE  Blk(d, f, n) \notin d[BITMAP].free \cup {SUPER, BITMAP}
    <3>1. f \in Owners(m)
      BY <1>2 DEF PartOf
    <3>2. Blk(m, f, n) = Blk(d, f, n)
      BY <1>2, <2>2, <3>1 DEF PartOf
    <3> QED BY <2>1, <2>2, <3>1, <3>2 DEF UsedIs
  <2> QED BY <2>2, InUseIs DEF UsedIs
<1>5. Distinct(d)
  <2>1. \A f \in Owners(d), n \in 0 .. MaxSize :
          f \in Owners(m) /\ (Blk(d, f, n) # 0 => Blk(m, f, n) = Blk(d, f, n))
    BY <1>2 DEF PartOf
  <2>2. Distinct(m)
    BY <1>1 DEF Sound
  <2> QED BY <2>1, <2>2 DEF Distinct
<1>6. WithinSize(d)
  <2>1. SUFFICES ASSUME NEW f \in Owners(d), NEW n \in FileAt(d, f).size .. MaxSize - 1
                 PROVE  PtrAt(d, f, n) = 0
    BY DEF WithinSize
  <2>2. f \in Owners(m)
    BY <1>2 DEF PartOf
  <2>3. SlotOk(d, f) /\ BlkIs(d, f)
    BY <1>1, <2>2, SlotType, BlkForms DEF SlotOk
  <2>4. FileAt(d, f).size \in Nat
    BY <2>3 DEF SlotOk, FileType
  <2>5. n \in 0 .. MaxSize - 1 /\ n \in 0 .. MaxSize /\ n >= FileAt(d, f).size
    BY <2>4, Sizes
  <2>6. Blk(d, f, n) = 0
    <3>1. CASE f = Root
      BY <3>1, <1>1 DEF Under, RootUnder
    <3>2. CASE f # Root
      <4>1. f \in Refs(m)
        BY <2>2, <3>2 DEF Owners
      <4>2. FileAt(d, f).size = FileAt(m, f).size
        BY <4>1, <1>1 DEF Under, FileUnder
      <4>3. Blk(m, f, n) = 0
        BY <1>1, <2>2, <2>5, <4>2, WithinIs DEF Sound
      <4> QED BY <4>3, <1>2, <2>2, <2>5 DEF PartOf
    <3> QED BY <3>1, <3>2
  <2> QED BY <2>3, <2>5, <2>6 DEF BlkIs
<1>7. Under(d, d)
  <2>1. \A f \in Owners(d) : SlotUnder(d, d, f)
    BY DEF SlotUnder
  <2>2. \A f \in Refs(d) : FileUnder(d, d, f)
    BY DEF FileUnder
  <2>3. FileAt(d, Root).size \in Nat
    BY <1>1, RootType DEF SlotOk, FileType
  <2>4. RootUnder(d, d)
    BY <1>1, <2>3 DEF RootUnder, Under
  <2> QED BY <2>1, <2>2, <2>4 DEF Under
<1> QED BY <1>1, <1>3, <1>4, <1>5, <1>6, <1>7 DEF Good, Sound

-----------------------------------------------------------------------------
(* What a change of the cache or of one block of the disk keeps. *)

\* A block that is no slot's block and no indirect block.
Outside(m, c) == \A f \in Owners(m) : f.b # c /\ FileAt(m, f).indirect # c

\* A block that is allocated and not yet used.
Loose(m, b) ==
  /\ b \in Block \ {SUPER, BITMAP} /\ b \notin m[BITMAP].free
  /\ \A f \in Owners(m), n \in 0 .. MaxSize : Blk(m, f, n) # b

\* The bitmap holds no slot and no pointers.
LEMMA BitmapOutside ==
  ASSUME NEW m \in DiskType, Sound(m)
  PROVE  Outside(m, BITMAP)
<1>1. Placed(m)
  BY SoundPlaced
<1>2. BITMAP \in Block /\ SUPER # BITMAP /\ 0 # BITMAP
  BY Sizes
<1> QED BY <1>1, <1>2, IsRoot DEF Placed, Outside, Owners, RootIs

\* Nor does a block that is allocated and that no file has yet.
LEMMA LooseOutside ==
  ASSUME NEW m \in DiskType, Sound(m), NEW b, Loose(m, b)
  PROVE  Outside(m, b) /\ b \notin DirBlocks(m)
<1>1. Placed(m)
  BY SoundPlaced
<1>2. b \in Block /\ b # SUPER /\ b # 0
  BY Sizes DEF Loose
<1>3. \A f \in Refs(m) : f.b # b
  <2>1. SUFFICES ASSUME NEW f \in Refs(m) PROVE f.b # b
    OBVIOUS
  <2>2. PICK n \in 0 .. MaxSize - 1 : Blk(m, Root, n) = f.b
    BY <1>1 DEF Placed
  <2>3. n \in 0 .. MaxSize
    BY <2>2, Sizes
  <2> QED BY <2>2, <2>3, OwnersAre DEF Loose
<1>4. \A f \in Owners(m) : FileAt(m, f).indirect # b
  <2>1. SUFFICES ASSUME NEW f \in Owners(m), FileAt(m, f).indirect = b PROVE FALSE
    OBVIOUS
  <2>2. BlkIs(m, f)
    BY <2>1, SlotType, BlkForms DEF SlotOk
  <2>3. Blk(m, f, MaxSize) = b /\ MaxSize \in 0 .. MaxSize
    BY <2>1, <2>2, Sizes DEF BlkIs
  <2> QED BY <2>2, <2>3 DEF Loose
<1>5. \A f \in Owners(m) : f.b # b
  BY <1>2, <1>3, IsRoot DEF Owners, RootIs
<1>6. b \notin DirBlocks(m)
  <2>1. SUFFICES ASSUME b \in DirBlocks(m) PROVE FALSE
    OBVIOUS
  <2>2. PICK n \in 0 .. MaxSize - 1 : Blk(m, Root, n) = b
    BY <2>1, DirBlockIs
  <2>3. n \in 0 .. MaxSize
    BY Sizes
  <2> QED BY <2>2, <2>3, OwnersAre DEF Loose
<1> QED BY <1>4, <1>5, <1>6 DEF Outside

\* Writing an outside block on the disk.
SlotsUnder(m, d) ==
  /\ \A f \in Owners(m) : SlotUnder(m, d, f)
  /\ \A f \in Refs(m) : FileUnder(m, d, f)
  /\ RootUnder(m, d)

\* Writing such a block changes no file on the disk.
LEMMA WriteOutside ==
  ASSUME NEW m, NEW d, Good(m, d), NEW c \in Block, Outside(m, c), NEW x \in BlockType
  PROVE  /\ [d EXCEPT ![c] = x] \in DiskType
         /\ SlotsUnder(m, [d EXCEPT ![c] = x])
         /\ \A f \in Owners(m) : FileAt([d EXCEPT ![c] = x], f) = FileAt(d, f)
<1> DEFINE e == [d EXCEPT ![c] = x]
<1>0. d \in DiskType /\ m \in DiskType /\ Under(m, d)
  BY DEF Good
<1>1. e \in DiskType /\ \A b \in Block : b # c => e[b] = d[b]
  BY <1>0 DEF DiskType
<1> HIDE DEF e
<1>2. \A f \in Owners(m) : f.b # c /\ f.b \in Block /\ SlotOk(m, f)
  BY <1>0, SlotType DEF Outside, SlotOk
<1>3. \A f \in Owners(m) : FileAt(e, f) = FileAt(d, f)
  BY <1>1, <1>2 DEF FileAt
<1>4. \A f \in Owners(m) : FileAt(m, f).indirect # 0 =>
        FileAt(m, f).indirect \in Block /\ e[FileAt(m, f).indirect] = d[FileAt(m, f).indirect]
  <2>1. TAKE f \in Owners(m)
  <2>2. FileAt(m, f).indirect \in BlockNo /\ FileAt(m, f).indirect # c
    BY <1>2 DEF SlotOk, FileType, Outside
  <2> QED BY <2>2, <1>1 DEF BlockNo
<1>5. \A f \in Owners(m) : SlotUnder(m, e, f)
  <2>1. TAKE f \in Owners(m)
  <2>2. SlotUnder(m, d, f)
    BY <1>0 DEF Under
  <2> QED BY <2>2, <1>3, <1>4 DEF SlotUnder
<1>6. \A f \in Refs(m) : FileUnder(m, e, f)
  BY <1>0, <1>3 DEF Under, FileUnder, Owners
<1>7. RootUnder(m, e)
  <2>1. RootUnder(m, d) /\ FileAt(e, Root) = FileAt(d, Root) /\ SlotUnder(m, d, Root)
    BY <1>0, <1>3, IsRoot DEF Under, RootIs
  <2>2. FileAt(d, Root).indirect \in {0, FileAt(m, Root).indirect}
    BY <2>1 DEF SlotUnder
  <2>3. FileAt(d, Root).indirect # 0 => e[FileAt(d, Root).indirect] = d[FileAt(d, Root).indirect]
    BY <2>2, <1>4, IsRoot DEF RootIs
  <2>4. \A n : Blk(e, Root, n) = Blk(d, Root, n)
    BY <2>1, <2>3 DEF Blk, BlockIn, PtrIn
  <2> QED BY <2>1, <2>4 DEF RootUnder
<1>8. SlotsUnder(m, e)
  BY <1>5, <1>6, <1>7 DEF SlotsUnder
<1> QED BY <1>1, <1>3, <1>8 DEF e

\* A cache with the same files and pointers.
Alike(m, v) ==
  v \in DiskType /\ \A b \in Block : v[b].files = m[b].files /\ v[b].ptrs = m[b].ptrs
Same(m, v) ==
  /\ Refs(v) = Refs(m) /\ Owners(v) = Owners(m)
  /\ \A f \in Owners(m) : FileAt(v, f) = FileAt(m, f)
  /\ \A f \in Owners(m) : \A n : Blk(v, f, n) = Blk(m, f, n) /\ PtrAt(v, f, n) = PtrAt(m, f, n)

\* Caches with the same slots and pointers have the same files and numbers.
LEMMA AlikeSame ==
  ASSUME NEW m \in DiskType, NEW v, Alike(m, v)
  PROVE  Same(m, v)
<1>1. \A f \in Owners(m) : FileAt(v, f) = FileAt(m, f)
  BY SlotType DEF SlotOk, FileAt, Alike
<1>2. ASSUME NEW f \in Owners(m), NEW n
      PROVE  Blk(v, f, n) = Blk(m, f, n) /\ PtrAt(v, f, n) = PtrAt(m, f, n)
  <2>1. FileAt(m, f).indirect \in BlockNo
    BY SlotType DEF SlotOk, FileType
  <2>2. FileAt(m, f).indirect # 0 => v[FileAt(m, f).indirect].ptrs = m[FileAt(m, f).indirect].ptrs
    BY <2>1 DEF Alike, BlockNo
  <2> QED BY <1>1, <2>2 DEF Blk, PtrAt, BlockIn, PtrIn
<1>3. DirBlocks(v) = DirBlocks(m)
  BY <1>1, <1>2, IsRoot DEF DirBlocks, RootIs
<1>4. Refs(v) = Refs(m)
  BY <1>3 DEF Refs
<1> QED BY <1>1, <1>2, <1>4 DEF Same, Owners

\* A cache with the same files and numbers is sound when no more blocks are free.
LEMMA SameSound ==
  ASSUME NEW m \in DiskType, NEW v \in DiskType, Same(m, v), Sound(m),
         v[BITMAP].free \subseteq m[BITMAP].free
  PROVE  Sound(v)
<1>0. Owners(v) = Owners(m) /\ Refs(v) = Refs(m) /\ Refs(m) \subseteq Owners(m)
  BY OwnersAre DEF Same, Owners
<1>1. UsedIs(m)
  BY InUseIs DEF Sound
<1>2. UsedIs(v)
  BY <1>0, <1>1 DEF Same, UsedIs
<1>3. Distinct(v)
  <2>1. \A f \in Owners(m), n \in 0 .. MaxSize : Blk(v, f, n) = Blk(m, f, n)
    BY <1>0 DEF Same
  <2>2. Distinct(m)
    BY DEF Sound
  <2> QED BY <1>0, <2>1, <2>2 DEF Distinct
<1>4. WithinSize(v)
  <2>1. \A f \in Owners(m) : FileAt(v, f) = FileAt(m, f) /\ \A n : PtrAt(v, f, n) = PtrAt(m, f, n)
    BY <1>0 DEF Same
  <2> QED BY <1>0, <2>1 DEF WithinSize, Sound
<1>5. v[BITMAP].free \subseteq Block \ {SUPER, BITMAP}
  BY DEF Sound
<1> QED BY <1>2, <1>3, <1>4, <1>5, InUseIs DEF Sound

\* ... and has as much of the disk under it.
LEMMA AlikeUnder ==
  ASSUME NEW m \in DiskType, NEW v, Alike(m, v), NEW d, SlotsUnder(m, d)
  PROVE  SlotsUnder(v, d)
<1>1. Same(m, v)
  BY AlikeSame
<1>2. \A f \in Owners(m) : FileAt(m, f).indirect # 0 =>
        v[FileAt(m, f).indirect].ptrs = m[FileAt(m, f).indirect].ptrs
  BY SlotType DEF SlotOk, FileType, BlockNo, Alike
<1>3. \A f \in Owners(m) : SlotUnder(v, d, f)
  <2>1. TAKE f \in Owners(m)
  <2>2. SlotUnder(m, d, f) /\ FileAt(v, f) = FileAt(m, f)
    BY <1>1 DEF SlotsUnder, Same
  <2> QED BY <2>2, <1>2 DEF SlotUnder
<1>4. \A f \in Refs(m) : FileUnder(v, d, f)
  BY <1>1 DEF SlotsUnder, FileUnder, Same, Owners
<1>5. RootUnder(v, d)
  BY <1>1, IsRoot DEF SlotsUnder, RootUnder, Same, RootIs
<1> QED BY <1>1, <1>3, <1>4, <1>5 DEF SlotsUnder, Same

\* Contents of files do not matter here.
LEMMA GoodData ==
  ASSUME NEW m, NEW d, Good(m, d), NEW v, Alike(m, v), v[BITMAP].free = m[BITMAP].free
  PROVE  Good(v, d) /\ Same(m, v)
<1>1. m \in DiskType /\ v \in DiskType /\ Same(m, v) /\ SlotsUnder(m, d)
  BY AlikeSame DEF Good, Alike, Under, SlotsUnder
<1>2. SlotsUnder(v, d)
  BY <1>1, AlikeUnder
<1>3. Sound(v)
  BY <1>1, SameSound DEF Good
<1> QED BY <1>1, <1>2, <1>3 DEF Good, Under, SlotsUnder

\* alloc_block: the bit is cleared, and the bitmap is written.
Allocated(m, d, b, v, e) ==
  v = [m EXCEPT ![BITMAP].free = @ \ {b}] /\ e = [d EXCEPT ![BITMAP] = v[BITMAP]]

\* alloc_block: the new block is loose, in a cache and on a disk that stay good.
LEMMA GoodAlloc ==
  ASSUME NEW m, NEW d, Good(m, d), NEW b \in m[BITMAP].free, NEW v, NEW e,
         Allocated(m, d, b, v, e)
  PROVE  Good(v, e) /\ Same(m, v) /\ Loose(v, b) /\ Alike(m, v)
<1> v = [m EXCEPT ![BITMAP].free = @ \ {b}] /\ e = [d EXCEPT ![BITMAP] = v[BITMAP]]
  BY DEF Allocated
<1>1. m \in DiskType /\ d \in DiskType /\ Sound(m) /\ BITMAP \in Block
  BY Sizes DEF Good
<1>2. v \in DiskType /\ v[BITMAP].free = m[BITMAP].free \ {b} /\ Alike(m, v)
  <2>1. m[BITMAP] \in BlockType
    BY <1>1 DEF DiskType
  <2>2. [m[BITMAP] EXCEPT !.free = @ \ {b}] \in BlockType
    BY <2>1 DEF BlockType
  <2>3. v = [m EXCEPT ![BITMAP] = [m[BITMAP] EXCEPT !.free = @ \ {b}]]
    OBVIOUS
  <2>4. v[BITMAP] = [m[BITMAP] EXCEPT !.free = @ \ {b}] /\ \A c \in Block : c # BITMAP => v[c] = m[c]
    BY <1>1, <2>3 DEF DiskType
  <2>5. v \in DiskType
    BY <1>1, <2>2, <2>3 DEF DiskType
  <2> QED BY <2>1, <2>4, <2>5 DEF Alike, BlockType
<1>3. Same(m, v)
  BY <1>1, <1>2, AlikeSame
<1>4. Sound(v)
  BY <1>1, <1>2, <1>3, SameSound
<1>5. Outside(m, BITMAP)
  BY <1>1, BitmapOutside
<1>6. v[BITMAP] \in BlockType
  BY <1>1, <1>2 DEF DiskType
<1>7. e \in DiskType /\ SlotsUnder(m, e)
  BY <1>1, <1>5, <1>6, WriteOutside
<1>8. SlotsUnder(v, e)
  BY <1>1, <1>2, <1>7, AlikeUnder
<1>9. e[BITMAP].free = v[BITMAP].free
  BY <1>1 DEF DiskType
<1>10. Good(v, e)
  BY <1>2, <1>4, <1>7, <1>8, <1>9 DEF Good, Under, SlotsUnder
<1>11. Loose(v, b)
  <2>1. b \in Block \ {SUPER, BITMAP}
    BY <1>1 DEF Sound
  <2>2. UsedIs(m) /\ b # 0
    BY <1>1, <2>1, InUseIs, Sizes DEF Sound
  <2>3. \A f \in Owners(m), n \in 0 .. MaxSize : Blk(m, f, n) # b
    BY <2>2 DEF UsedIs
  <2>4. ASSUME NEW f \in Owners(v), NEW n \in 0 .. MaxSize PROVE Blk(v, f, n) # b
    <3>1. f \in Owners(m)
      BY <1>3 DEF Same
    <3>2. Blk(v, f, n) = Blk(m, f, n)
      BY <1>3, <3>1 DEF Same
    <3> QED BY <2>3, <3>1, <3>2
  <2> QED BY <1>2, <2>1, <2>4 DEF Loose
<1> QED BY <1>2, <1>3, <1>10, <1>11

-----------------------------------------------------------------------------
(* flush_block. *)

\* Any block may be written, but the root's indirect block only after the root.
LEMMA GoodFlush ==
  ASSUME NEW m, NEW d, Good(m, d), NEW b \in Block,
         b = FileAt(m, Root).indirect => FileAt(d, Root).size = FileAt(m, Root).size
  PROVE  Good(m, [d EXCEPT ![b] = m[b]])
<1> DEFINE e == [d EXCEPT ![b] = m[b]]
<1>0. m \in DiskType /\ d \in DiskType /\ Sound(m) /\ Under(m, d)
  BY DEF Good
<1>1. e \in DiskType /\ e[b] = m[b] /\ \A c \in Block : c # b => e[c] = d[c]
  BY <1>0 DEF DiskType
<1> HIDE DEF e
<1>2. e[BITMAP].free \subseteq m[BITMAP].free
  BY <1>0, <1>1, Sizes DEF Under
<1>3. \A f \in Owners(m) : SlotOk(m, f) /\ f.b \in Block
        /\ FileAt(e, f) = IF f.b = b THEN FileAt(m, f) ELSE FileAt(d, f)
  BY <1>0, <1>1, SlotType DEF SlotOk, FileAt
<1>4. \A f \in Owners(m) : SlotUnder(m, e, f)
  <2>1. TAKE f \in Owners(m)
  <2>2. SlotUnder(m, d, f)
    BY <1>0 DEF Under
  <2>3. FileAt(m, f).indirect # 0 => FileAt(m, f).indirect \in Block
    BY <1>3 DEF SlotOk, FileType, BlockNo
  <2>4. CASE f.b = b
    <3>1. FileAt(e, f) = FileAt(m, f)
      BY <1>3, <2>4
    <3> QED BY <3>1, <2>2, <2>3, <1>1 DEF SlotUnder
  <2>5. CASE f.b # b
    <3>1. FileAt(e, f) = FileAt(d, f)
      BY <1>3, <2>5
    <3> QED BY <3>1, <2>2, <2>3, <1>1 DEF SlotUnder
  <2> QED BY <2>4, <2>5
<1>5. \A f \in Refs(m) : FileUnder(m, e, f)
  <2>1. TAKE f \in Refs(m)
  <2>2. FileUnder(m, d, f) /\ f \in Owners(m)
    BY <1>0 DEF Under, Owners
  <2>3. FileAt(e, f) = FileAt(m, f) \/ FileAt(e, f) = FileAt(d, f)
    BY <1>3, <2>2
  <2> QED BY <2>2, <2>3 DEF FileUnder
<1>6. RootUnder(m, e)
  <2>0. Root \in Owners(m) /\ Root.b = SUPER
    BY IsRoot, OwnersAre DEF RootIs
  <2>1. FileAt(m, Root) \in FileType /\ FileAt(d, Root) \in FileType
        /\ BlkIs(m, Root) /\ BlkIs(e, Root) /\ BlkIs(d, Root) /\ FileAt(e, Root) \in FileType
    BY <1>0, <1>1, RootType, BlkForms DEF SlotOk
  <2>2. FileAt(m, Root).size \in Nat /\ FileAt(d, Root).size \in Nat
        /\ FileAt(d, Root).size <= FileAt(m, Root).size
    BY <2>1, <1>0 DEF FileType, Under, RootUnder
  <2>3. \A n \in 0 .. MaxSize : Blk(e, Root, n) \in {0, Blk(m, Root, n)}
    BY <1>0, <1>1, <1>4, <2>0, BlkUnderSlot
  <2>4. ASSUME FileAt(e, Root).size = FileAt(m, Root).size
        PROVE  RootUnder(m, e)
    <3>1. ASSUME NEW n \in FileAt(e, Root).size .. MaxSize - 1
          PROVE  Blk(e, Root, n) = 0
      <4>1. n \in 0 .. MaxSize - 1 /\ n \in 0 .. MaxSize /\ n >= FileAt(m, Root).size
        BY <2>2, <2>4, Sizes
      <4>2. Blk(m, Root, n) = 0
        BY <1>0, <2>0, <4>1, WithinIs DEF Sound
      <4> QED BY <2>3, <4>1, <4>2
    <3> QED BY <2>2, <2>4, <3>1 DEF RootUnder
  <2>5. CASE b = SUPER
    BY <1>3, <2>0, <2>4, <2>5
  <2>6. CASE b # SUPER
    <3>1. FileAt(e, Root) = FileAt(d, Root)
      BY <1>3, <2>0, <2>6
    <3>2. CASE FileAt(d, Root).size = FileAt(m, Root).size
      BY <2>4, <3>1, <3>2
    <3>3. CASE b # FileAt(m, Root).indirect
      <4>1. FileAt(d, Root).indirect \in {0, FileAt(m, Root).indirect}
        BY <1>0, <2>0 DEF Under, SlotUnder
      <4>2. FileAt(d, Root).indirect # 0 =>
              FileAt(d, Root).indirect \in Block /\ FileAt(d, Root).indirect # b
        BY <2>1, <3>3, <4>1 DEF FileType, BlockNo
      <4>3. FileAt(d, Root).indirect # 0 =>
              e[FileAt(d, Root).indirect] = d[FileAt(d, Root).indirect]
        BY <4>2, <1>1
      <4>4. \A n : Blk(e, Root, n) = Blk(d, Root, n)
        BY <3>1, <4>3 DEF Blk, BlockIn, PtrIn
      <4> QED BY <1>0, <3>1, <4>4 DEF Under, RootUnder
    <3> QED BY <3>2, <3>3
  <2> QED BY <2>5, <2>6
<1>7. Under(m, e)
  BY <1>2, <1>4, <1>5, <1>6 DEF Under
<1> QED BY <1>0, <1>1, <1>7 DEF Good, e

-----------------------------------------------------------------------------
(* Names and sizes: the numbers stay where they are. *)

\* The root grows, or a slot gets a name.
Relabelled(m, v) ==
  /\ v \in DiskType
  /\ \A f \in Owners(m) : \A n : Blk(v, f, n) = Blk(m, f, n) /\ PtrAt(v, f, n) = PtrAt(m, f, n)
  /\ \A f \in Refs(m) : FileAt(v, f).size = FileAt(m, f).size
  /\ FileAt(v, Root).size >= FileAt(m, Root).size
  /\ \A f \in Owners(m) : FileAt(v, f).direct = FileAt(m, f).direct
                          /\ FileAt(v, f).indirect = FileAt(m, f).indirect
  /\ \A b \in Block : v[b].ptrs = m[b].ptrs
  /\ v[BITMAP].free = m[BITMAP].free

\* Naming a slot, or growing the root, keeps the disk good.
LEMMA GoodLabels ==
  ASSUME NEW m, NEW d, Good(m, d), NEW v, Relabelled(m, v)
  PROVE  Good(v, d) /\ Refs(v) = Refs(m) /\ Owners(v) = Owners(m)
<1>0. m \in DiskType /\ d \in DiskType /\ v \in DiskType /\ Sound(m) /\ Under(m, d) /\ Placed(m)
  BY SoundPlaced DEF Good, Relabelled
<1>1. FileAt(m, Root).size \in Nat /\ FileAt(v, Root).size \in Nat /\ FileAt(d, Root).size \in Nat
      /\ FileAt(v, Root).size >= FileAt(m, Root).size
  BY <1>0, RootType DEF SlotOk, FileType, Relabelled
<1>2. DirBlocks(v) = DirBlocks(m)
  <2>1. ASSUME NEW b \in DirBlocks(m) PROVE b \in DirBlocks(v)
    <3>1. PICK n \in 0 .. MaxSize - 1 : n < FileAt(m, Root).size /\ PtrAt(m, Root, n) = b
      BY <1>0, DirBlockIs
    <3>2. n \in Nat /\ n < FileAt(v, Root).size /\ PtrAt(v, Root, n) = b /\ b # 0
      BY <1>0, <1>1, <3>1, IsRoot, Sizes, DirBlockIs DEF RootIs, Relabelled
    <3> QED BY <1>0, <3>2, DirBlockIs
  <2>2. ASSUME NEW b \in DirBlocks(v) PROVE b \in DirBlocks(m)
    <3>1. PICK n \in 0 .. MaxSize - 1 : n < FileAt(v, Root).size /\ PtrAt(v, Root, n) = b
      BY <1>0, DirBlockIs
    <3>2. n \in Nat /\ PtrAt(m, Root, n) = b /\ b # 0
      BY <1>0, <3>1, IsRoot, Sizes, DirBlockIs DEF RootIs, Relabelled
    <3>3. n < FileAt(m, Root).size
      BY <1>0, <1>1, <3>2, WithinIs, IsRoot, OwnersAre, Sizes DEF RootIs, Sound
    <3> QED BY <1>0, <3>2, <3>3, DirBlockIs
  <2> QED BY <2>1, <2>2
<1>3. Refs(v) = Refs(m) /\ Owners(v) = Owners(m)
  BY <1>2 DEF Refs, Owners
<1>4. \A f \in Owners(v), n \in 0 .. MaxSize :
        f \in Owners(m) /\ Blk(v, f, n) = Blk(m, f, n)
  BY <1>3 DEF Relabelled
<1>5. UsedIs(v)
  <2>1. UsedIs(m)
    BY <1>0, InUseIs DEF Sound
  <2> QED BY <1>4, <2>1 DEF UsedIs, Relabelled
<1>6. Distinct(v)
  <2>1. Distinct(m)
    BY <1>0 DEF Sound
  <2> QED BY <1>4, <2>1 DEF Distinct
<1>7. WithinSize(v)
  <2>1. SUFFICES ASSUME NEW f \in Owners(v), NEW n \in FileAt(v, f).size .. MaxSize - 1
                 PROVE  PtrAt(v, f, n) = 0
    BY DEF WithinSize
  <2>2. f \in Owners(m)
    BY <1>3
  <2>3. FileAt(m, f).size \in Nat /\ FileAt(v, f).size \in Nat /\ FileAt(v, f).size >= FileAt(m, f).size
    <3>1. FileAt(m, f).size \in Nat
      BY <1>0, <2>2, SlotType DEF SlotOk, FileType
    <3> QED BY <3>1, <1>1, <2>2 DEF Owners, Relabelled
  <2>4. n \in FileAt(m, f).size .. MaxSize - 1
    BY <2>3, Sizes
  <2>5. PtrAt(v, f, n) = PtrAt(m, f, n)
    BY <2>2 DEF Relabelled
  <2> QED BY <1>0, <2>2, <2>4, <2>5 DEF Sound, WithinSize
<1>8. Sound(v)
  BY <1>0, <1>5, <1>6, <1>7, InUseIs DEF Sound, Relabelled
<1>9. \A f \in Owners(v) : SlotUnder(v, d, f)
  <2>1. TAKE f \in Owners(v)
  <2>2. f \in Owners(m) /\ SlotUnder(m, d, f)
    BY <1>0, <1>3 DEF Under
  <2>3. FileAt(m, f).indirect # 0 => FileAt(m, f).indirect \in Block
    BY <1>0, <2>2, SlotType DEF SlotOk, FileType, BlockNo
  <2> QED BY <2>2, <2>3 DEF SlotUnder, Relabelled
<1>10. \A f \in Refs(v) : FileUnder(v, d, f)
  <2>1. TAKE f \in Refs(v)
  <2>2. f \in Refs(m) /\ FileUnder(m, d, f)
    BY <1>0, <1>3 DEF Under
  <2> QED BY <2>2 DEF FileUnder, Relabelled
<1>11. RootUnder(v, d)
  BY <1>0, <1>1 DEF Under, RootUnder
<1>12. Under(v, d)
  BY <1>0, <1>9, <1>10, <1>11 DEF Under, Relabelled
<1> QED BY <1>0, <1>3, <1>8, <1>12 DEF Good

-----------------------------------------------------------------------------
(* A new block. *)

\* v is m with the cleared block b as block n of f.
Added(m, v, f, n, b) ==
  /\ v \in DiskType /\ v[BITMAP].free = m[BITMAP].free /\ v[b] = ZeroBlock
  /\ \A g \in Owners(m) : g # f => FileAt(v, g) = FileAt(m, g)
  /\ FileAt(v, f).name = FileAt(m, f).name /\ FileAt(v, f).size = FileAt(m, f).size
  /\ \A g \in Owners(m), k \in 0 .. MaxSize :
       Blk(v, g, k) = IF g = f /\ k = n THEN b ELSE Blk(m, g, k)

\* f may get b as block n: there is none, and it is no block beyond the size.
MayAdd(m, f, n, b) ==
  /\ m \in DiskType /\ Sound(m) /\ Loose(m, b)
  /\ f \in Owners(m) /\ n \in 0 .. MaxSize /\ Blk(m, f, n) = 0
  /\ n = MaxSize \/ n < FileAt(m, f).size

\* The directory of v: that of m, and the cleared slots of b when b is one of its
\* blocks.
AddedRefs(m, v, b) ==
  /\ Refs(m) \subseteq Refs(v) /\ Owners(m) \subseteq Owners(v)
  /\ \A g \in Refs(v) : g \in Refs(m) \/ (g.b = b /\ g.j \in 1 .. BLKFILES)
  /\ \A g \in Owners(v) \ Owners(m) :
       FileAt(v, g) = NewFile /\ \A k \in 0 .. MaxSize : Blk(v, g, k) = 0

\* A cleared block, read as a directory, holds empty slots; as pointers, none.
LEMMA ZeroFile ==
  /\ ZeroBlock \in BlockType /\ NewFile \in FileType /\ Empty(NewFile) /\ NewFile.name = NoName
  /\ \A j \in 1 .. BLKFILES : ZeroBlock.files[j] = NewFile
  /\ \A n \in 0 .. NINDIRECT - 1 : ZeroBlock.ptrs[n] = 0
BY DiskAssumption DEF ZeroBlock, NewFile, BlockType, FileType, BlockNo, Empty

\* A block added to an owner adds no owner; to the root, cleared slots at most.
LEMMA AddedOwners ==
  ASSUME NEW m, NEW v, NEW f, NEW n, NEW b, MayAdd(m, f, n, b), Added(m, v, f, n, b)
  PROVE  AddedRefs(m, v, b)
<1>0. m \in DiskType /\ v \in DiskType /\ Sound(m) /\ Placed(m) /\ b \in Block /\ b # 0
  BY SoundPlaced, Sizes DEF MayAdd, Added, Loose
<1>1. FileAt(v, Root).size = FileAt(m, Root).size /\ FileAt(m, Root).size \in Nat
  BY <1>0, RootType, IsRoot DEF Added, SlotOk, FileType, RootIs
<1>2. BlkIs(m, Root) /\ BlkIs(v, Root)
  BY <1>0, RootType, BlkForms DEF SlotOk
<1>3. ASSUME NEW c \in DirBlocks(m) PROVE c \in DirBlocks(v)
  <2>1. PICK k \in 0 .. MaxSize - 1 : k < FileAt(m, Root).size /\ Blk(m, Root, k) = c
    BY <1>0, DirBlockIs
  <2>2. c # 0 /\ k \in 0 .. MaxSize /\ k \in Nat
    BY <1>0, Sizes, DirBlockIs
  <2>3. Blk(v, Root, k) = c
    BY <2>1, <2>2, IsRoot DEF Added, MayAdd, RootIs
  <2>4. PtrAt(v, Root, k) = c /\ k < FileAt(v, Root).size
    BY <1>1, <1>2, <2>1, <2>3 DEF BlkIs
  <2> QED BY <1>0, <2>2, <2>4, DirBlockIs
<1>4. ASSUME NEW c \in DirBlocks(v), c # b PROVE c \in DirBlocks(m)
  <2>1. PICK k \in 0 .. MaxSize - 1 : k < FileAt(v, Root).size /\ Blk(v, Root, k) = c
    BY <1>0, DirBlockIs
  <2>2. c # 0 /\ k \in 0 .. MaxSize /\ k \in Nat
    BY <1>0, Sizes, DirBlockIs
  <2>3. Blk(m, Root, k) = c
    BY <1>4, <2>1, <2>2, IsRoot DEF Added, RootIs
  <2>4. PtrAt(m, Root, k) = c /\ k < FileAt(m, Root).size
    BY <1>1, <1>2, <2>1, <2>3 DEF BlkIs
  <2> QED BY <1>0, <2>2, <2>4, DirBlockIs
<1>5. Refs(m) \subseteq Refs(v)
  BY <1>3 DEF Refs
<1>6. \A g \in Refs(v) : g \in Refs(m) \/ (g.b = b /\ g.j \in 1 .. BLKFILES)
  BY <1>4 DEF Refs
<1>7. ASSUME NEW g \in Owners(v), g \notin Owners(m)
      PROVE  FileAt(v, g) = NewFile /\ \A k \in 0 .. MaxSize : Blk(v, g, k) = 0
  <2>1. g.b = b /\ g.j \in 1 .. BLKFILES
    BY <1>6, <1>7 DEF Owners
  <2>2. FileAt(v, g) = NewFile
    BY <2>1, ZeroFile DEF FileAt, Added
  <2>3. BlkIs(v, g)
    BY <1>0, <2>1, FileAtType
  <2>4. ASSUME NEW k \in 0 .. MaxSize PROVE Blk(v, g, k) = 0
    BY <2>2, <2>3, Ways, ZeroFile DEF BlkIs, Empty
  <2> QED BY <2>2, <2>4
<1>8. Owners(m) \subseteq Owners(v)
  BY <1>5 DEF Owners
<1> QED BY <1>5, <1>6, <1>7, <1>8 DEF AddedRefs

\* ... and leaves the cache sound.
LEMMA AddedSound ==
  ASSUME NEW m, NEW v, NEW f, NEW n, NEW b, MayAdd(m, f, n, b), Added(m, v, f, n, b)
  PROVE  Sound(v)
<1>0. m \in DiskType /\ v \in DiskType /\ Sound(m) /\ Placed(m) /\ b \in Block /\ b # 0
      /\ b \notin m[BITMAP].free \cup {SUPER, BITMAP} /\ f \in Owners(m)
  BY SoundPlaced, Sizes DEF MayAdd, Added, Loose
<1>1. AddedRefs(m, v, b)
  BY AddedOwners
<1>2. v[BITMAP].free = m[BITMAP].free
  BY DEF Added
<1>3. ASSUME NEW g \in Owners(v), NEW k \in 0 .. MaxSize, Blk(v, g, k) # 0
      PROVE  g \in Owners(m) /\ Blk(v, g, k) = IF g = f /\ k = n THEN b ELSE Blk(m, g, k)
  BY <1>1, <1>3 DEF Added, AddedRefs
<1>4. UsedIs(v)
  <2>1. UsedIs(m)
    BY <1>0, InUseIs DEF Sound
  <2> QED BY <1>0, <1>2, <1>3, <2>1 DEF UsedIs
<1>5. Distinct(v)
  <2>1. Distinct(m)
    BY <1>0 DEF Sound
  <2>2. \A g \in Owners(m), k \in 0 .. MaxSize : Blk(m, g, k) # b
    BY DEF MayAdd, Loose
  <2>3. ASSUME NEW g \in Owners(v), NEW h \in Owners(v), NEW k \in 0 .. MaxSize, NEW l \in 0 .. MaxSize,
               Blk(v, g, k) # 0, Blk(v, g, k) = Blk(v, h, l)
        PROVE  g = h /\ k = l
    <3>1. /\ g \in Owners(m) /\ Blk(v, g, k) = IF g = f /\ k = n THEN b ELSE Blk(m, g, k)
          /\ h \in Owners(m) /\ Blk(v, h, l) = IF h = f /\ l = n THEN b ELSE Blk(m, h, l)
      BY <1>3, <2>3
    <3>2. CASE g = f /\ k = n
      BY <2>2, <2>3, <3>1, <3>2
    <3>3. CASE h = f /\ l = n
      BY <2>2, <2>3, <3>1, <3>3
    <3>4. CASE ~(g = f /\ k = n) /\ ~(h = f /\ l = n)
      <4>1. Blk(m, g, k) = Blk(v, g, k)
        BY <3>1, <3>4
      <4>2. Blk(m, h, l) = Blk(v, h, l)
        BY <3>1, <3>4
      <4>3. Blk(m, g, k) # 0 /\ Blk(m, g, k) = Blk(m, h, l)
        BY <2>3, <4>1, <4>2
      <4> QED BY <2>1, <3>1, <4>3 DEF Distinct
    <3> QED BY <3>2, <3>3, <3>4
  <2> QED BY <2>3 DEF Distinct
<1>6. WithinSize(v)
  <2>1. SUFFICES ASSUME NEW g \in Owners(v), NEW k \in FileAt(v, g).size .. MaxSize - 1
                 PROVE  PtrAt(v, g, k) = 0
    BY DEF WithinSize
  <2>2. g.b \in Block /\ g.j \in 1 .. BLKFILES /\ FileAt(v, g).size \in Nat /\ BlkIs(v, g)
    BY <1>0, SlotType, BlkForms DEF SlotOk, FileType
  <2>3. k \in 0 .. MaxSize - 1 /\ k \in 0 .. MaxSize /\ k >= FileAt(v, g).size /\ k # MaxSize
    BY <2>2, Sizes
  <2>4. Blk(v, g, k) = 0
    <3>1. SUFFICES ASSUME Blk(v, g, k) # 0 PROVE FALSE
      OBVIOUS
    <3>2. g \in Owners(m) /\ Blk(v, g, k) = IF g = f /\ k = n THEN b ELSE Blk(m, g, k)
      BY <1>3, <2>3, <3>1
    <3>3. FileAt(v, g).size = FileAt(m, g).size
      BY <3>2 DEF Added
    <3>4. Blk(m, g, k) = 0
      BY <1>0, <2>3, <3>2, <3>3, WithinIs DEF Sound
    <3>5. ~(g = f /\ k = n)
      BY <2>2, <2>3, <3>3 DEF MayAdd
    <3> QED BY <3>1, <3>2, <3>4, <3>5
  <2> QED BY <2>2, <2>3, <2>4 DEF BlkIs
<1> QED BY <1>0, <1>2, <1>4, <1>5, <1>6, InUseIs DEF Sound

\* The disk, where b is cleared too.
LEMMA AddedGood ==
  ASSUME NEW m, NEW d, NEW v, NEW e, NEW f, NEW n, NEW b, Good(m, d),
         MayAdd(m, f, n, b), Added(m, v, f, n, b), e = [d EXCEPT ![b] = ZeroBlock],
         SlotsUnder(m, e) => \A g \in Owners(m) : SlotUnder(v, e, g)
  PROVE  Good(v, e)
<1>0. m \in DiskType /\ d \in DiskType /\ v \in DiskType /\ Sound(m) /\ Placed(m) /\ Under(m, d)
      /\ b \in Block /\ b # 0 /\ b # BITMAP
  BY SoundPlaced, Sizes DEF MayAdd, Added, Loose, Good
<1>1. AddedRefs(m, v, b) /\ Sound(v)
  BY AddedOwners, AddedSound
<1>2. Outside(m, b)
  BY <1>0, LooseOutside DEF MayAdd
<1>3. e \in DiskType /\ SlotsUnder(m, e)
  BY <1>0, <1>2, WriteOutside, ZeroFile
<1>4. e[BITMAP] = d[BITMAP] /\ e[b] = ZeroBlock
  BY <1>0, Sizes DEF DiskType
<1>5. \A g \in Refs(v) : g.b = b => FileAt(v, g) = NewFile /\ FileAt(e, g) = NewFile
  <2>1. \A g \in Refs(v) : g.j \in 1 .. BLKFILES
    BY DEF Refs
  <2> QED BY <1>4, <2>1, ZeroFile DEF FileAt, Added
<1>6. \A g \in Owners(v) : SlotUnder(v, e, g)
  <2>1. TAKE g \in Owners(v)
  <2>2. CASE g \in Owners(m)
    BY <1>3, <2>2
  <2>3. CASE g \notin Owners(m)
    <3>1. g \in Refs(v) /\ g.b = b
      BY <1>1, <2>3 DEF Owners, AddedRefs
    <3>2. FileAt(v, g) = NewFile /\ FileAt(e, g) = NewFile
      BY <1>5, <3>1
    <3> QED BY <3>2, ZeroFile DEF SlotUnder, Empty
  <2> QED BY <2>2, <2>3
<1>7. \A g \in Refs(v) : FileUnder(v, e, g)
  <2>1. TAKE g \in Refs(v)
  <2>2. CASE g \in Refs(m)
    <3>1. FileUnder(m, e, g) /\ g \in Owners(m)
      BY <1>3, <2>2 DEF SlotsUnder, Owners
    <3>2. FileAt(v, g).size = FileAt(m, g).size
      BY <3>1 DEF Added
    <3> QED BY <3>1, <3>2 DEF FileUnder
  <2>3. CASE g \notin Refs(m)
    <3>1. FileAt(v, g) = NewFile /\ FileAt(e, g) = NewFile
      BY <1>1, <1>5, <2>3 DEF AddedRefs
    <3> QED BY <3>1, ZeroFile DEF FileUnder
  <2> QED BY <2>2, <2>3
<1>8. RootUnder(v, e)
  <2>1. FileAt(v, Root).size = FileAt(m, Root).size
    BY IsRoot DEF Added, RootIs
  <2> QED BY <1>3, <2>1 DEF SlotsUnder, RootUnder
<1>9. Under(v, e)
  BY <1>0, <1>4, <1>6, <1>7, <1>8 DEF Under, Added
<1> QED BY <1>0, <1>1, <1>3, <1>9 DEF Good

\* m with the slot f, or a pointer of the block c, changed.
PutFile(m, f, file) == [m EXCEPT ![f.b].files[f.j] = file]
PutPtr(m, c, k, b) == [m EXCEPT ![c].ptrs[k] = b]

PutFileIs(m, f, file, w) ==
  /\ w \in DiskType /\ FileAt(w, f) = file
  /\ \A g \in Owners(m) : g # f => FileAt(w, g) = FileAt(m, g)
  /\ \A c \in Block : w[c].ptrs = m[c].ptrs /\ w[c].free = m[c].free /\ w[c].data = m[c].data
  /\ \A c \in Block : c # f.b => w[c] = m[c]

\* A struct File is replaced: nothing else changes.
LEMMA FilePut ==
  ASSUME NEW m \in DiskType, NEW f \in Owners(m), NEW file \in FileType
  PROVE  PutFileIs(m, f, file, PutFile(m, f, file))
<1> DEFINE w == PutFile(m, f, file)
<1>1. SlotOk(m, f) /\ f.b \in Block /\ f.j \in 1 .. BLKFILES
  BY SlotType DEF SlotOk
<1>2. m[f.b] \in BlockType /\ m[f.b].files \in [1 .. BLKFILES -> FileType]
  BY <1>1 DEF DiskType, BlockType
<1>3. PICK fs : fs = [m[f.b].files EXCEPT ![f.j] = file]
  OBVIOUS
<1>4. fs \in [1 .. BLKFILES -> FileType] /\ fs[f.j] = file
      /\ \A j \in 1 .. BLKFILES : j # f.j => fs[j] = m[f.b].files[j]
  BY <1>1, <1>2, <1>3
<1>5. PICK x : x = [m[f.b] EXCEPT !.files = fs]
  OBVIOUS
<1>6. x \in BlockType /\ x.files = fs /\ x.ptrs = m[f.b].ptrs /\ x.free = m[f.b].free
      /\ x.data = m[f.b].data
  BY <1>2, <1>4, <1>5 DEF BlockType
<1>7. w = [m EXCEPT ![f.b] = x]
  BY <1>3, <1>5 DEF PutFile
<1> HIDE DEF w
<1>8. w \in DiskType /\ w[f.b] = x /\ \A c \in Block : c # f.b => w[c] = m[c]
  BY <1>1, <1>6, <1>7 DEF DiskType
<1>9. FileAt(w, f) = file
  BY <1>4, <1>6, <1>8 DEF FileAt
<1>10. ASSUME NEW g \in Owners(m), g # f PROVE FileAt(w, g) = FileAt(m, g)
  <2>1. g.b \in Block /\ g.j \in 1 .. BLKFILES /\ g = [b |-> g.b, j |-> g.j]
    BY SlotType DEF SlotOk
  <2>2. g.b # f.b \/ g.j # f.j
    BY <1>1, <1>10, <2>1 DEF SlotOk
  <2>3. CASE g.b # f.b
    BY <1>8, <2>1, <2>3 DEF FileAt
  <2>4. CASE g.b = f.b /\ g.j # f.j
    BY <1>4, <1>6, <1>8, <2>1, <2>4 DEF FileAt
  <2> QED BY <2>2, <2>3, <2>4
<1>11. \A c \in Block : w[c].ptrs = m[c].ptrs /\ w[c].free = m[c].free /\ w[c].data = m[c].data
  BY <1>6, <1>8
<1>12. PutFileIs(m, f, file, w)
  BY <1>8, <1>9, <1>10, <1>11 DEF PutFileIs
<1> QED BY <1>12 DEF w

PutPtrIs(m, c, k, b, w) ==
  /\ w \in DiskType /\ w[c].ptrs[k] = b
  /\ \A i \in 0 .. NINDIRECT - 1 : i # k => w[c].ptrs[i] = m[c].ptrs[i]
  /\ \A x \in Block : w[x].files = m[x].files /\ w[x].free = m[x].free /\ w[x].data = m[x].data
  /\ \A x \in Block : x # c => w[x] = m[x]

\* A pointer of an indirect block is replaced: nothing else changes.
LEMMA PtrPut ==
  ASSUME NEW m \in DiskType, NEW c \in Block, NEW k \in 0 .. NINDIRECT - 1, NEW b \in BlockNo
  PROVE  PutPtrIs(m, c, k, b, PutPtr(m, c, k, b))
<1> DEFINE w == PutPtr(m, c, k, b)
<1>1. m[c] \in BlockType /\ m[c].ptrs \in [0 .. NINDIRECT - 1 -> BlockNo]
  BY DEF DiskType, BlockType
<1>2. PICK p : p = [m[c].ptrs EXCEPT ![k] = b]
  OBVIOUS
<1>3. p \in [0 .. NINDIRECT - 1 -> BlockNo] /\ p[k] = b
      /\ \A i \in 0 .. NINDIRECT - 1 : i # k => p[i] = m[c].ptrs[i]
  BY <1>1, <1>2
<1>4. PICK x : x = [m[c] EXCEPT !.ptrs = p]
  OBVIOUS
<1>5. x \in BlockType /\ x.ptrs = p /\ x.files = m[c].files /\ x.free = m[c].free
      /\ x.data = m[c].data
  BY <1>1, <1>3, <1>4 DEF BlockType
<1>6. w = [m EXCEPT ![c] = x]
  BY <1>2, <1>4 DEF PutPtr
<1> HIDE DEF w
<1>7. w \in DiskType /\ w[c] = x /\ \A y \in Block : y # c => w[y] = m[y]
  BY <1>5, <1>6 DEF DiskType
<1>8. PutPtrIs(m, c, k, b, w)
  BY <1>3, <1>5, <1>7 DEF PutPtrIs
<1> QED BY <1>8 DEF w

\* The numbers of a slot, from its file and its indirect block.
BlkAlike(m, v, g) == \A k : Blk(v, g, k) = Blk(m, g, k)

\* A file's numbers depend on its struct File and its indirect block only.
LEMMA BlkSame ==
  ASSUME NEW m, NEW v, NEW g, FileAt(v, g) = FileAt(m, g),
         FileAt(m, g).indirect # 0 => v[FileAt(m, g).indirect].ptrs = m[FileAt(m, g).indirect].ptrs
  PROVE  BlkAlike(m, v, g)
BY DEF BlkAlike, Blk, BlockIn, PtrIn

\* ... and so does what the disk has of it.
LEMMA SlotUnderSame ==
  ASSUME NEW m, NEW v, NEW e, NEW g, SlotUnder(m, e, g), FileAt(v, g) = FileAt(m, g),
         FileAt(m, g).indirect # 0 => v[FileAt(m, g).indirect].ptrs = m[FileAt(m, g).indirect].ptrs
  PROVE  SlotUnder(v, e, g)
BY DEF SlotUnder

\* The direct numbers, those of the indirect block, and that block.
LEMMA BlkParts ==
  ASSUME NEW m, NEW f, BlkIs(m, f)
  PROVE  /\ \A n \in 0 .. NDIRECT - 1 : Blk(m, f, n) = FileAt(m, f).direct[n]
         /\ \A n \in 0 .. NINDIRECT - 1 :
              Blk(m, f, NDIRECT + n) = IF FileAt(m, f).indirect = 0 THEN 0
                                       ELSE m[FileAt(m, f).indirect].ptrs[n]
         /\ Blk(m, f, MaxSize) = FileAt(m, f).indirect
BY DEF BlkIs

\* file_block_walk's indirect block.
WithIndirect(m, d, f, b, v, e) ==
  /\ v = [PutFile(m, f, [FileAt(m, f) EXCEPT !.indirect = b]) EXCEPT ![b] = ZeroBlock]
  /\ e = [d EXCEPT ![b] = ZeroBlock]

\* file_block_walk: a new indirect block is cleared on the disk before the
\* struct File that names it is written.
LEMMA GoodNewIndirect ==
  ASSUME NEW m, NEW d, NEW v, NEW e, NEW f, NEW b, Good(m, d), Loose(m, b),
         f \in Owners(m), FileAt(m, f).indirect = 0, WithIndirect(m, d, f, b, v, e)
  PROVE  Good(v, e) /\ Added(m, v, f, MaxSize, b) /\ MayAdd(m, f, MaxSize, b)
<1> /\ v = [PutFile(m, f, [FileAt(m, f) EXCEPT !.indirect = b]) EXCEPT ![b] = ZeroBlock]
    /\ e = [d EXCEPT ![b] = ZeroBlock]
  BY DEF WithIndirect
<1> DEFINE file == [FileAt(m, f) EXCEPT !.indirect = b]
           w == PutFile(m, f, file)
<1>0. m \in DiskType /\ Sound(m) /\ Placed(m) /\ b \in Block /\ b # BITMAP /\ f \in Owners(m)
      /\ Outside(m, b) /\ b # 0 /\ f.b # b
  BY SoundPlaced, LooseOutside, Sizes DEF Good, Loose, Outside
<1>1. SlotOk(m, f) /\ BlkIs(m, f) /\ FileAt(m, f) \in FileType
  BY <1>0, SlotType, BlkForms DEF SlotOk
<1>2. file \in FileType /\ file.indirect = b /\ file.direct = FileAt(m, f).direct
      /\ file.name = FileAt(m, f).name /\ file.size = FileAt(m, f).size
  BY <1>0, <1>1 DEF FileType, BlockNo
<1> HIDE DEF file
<1>3. PutFileIs(m, f, file, w)
  BY <1>0, <1>2, FilePut
<1> HIDE DEF w
<1>4. v = [w EXCEPT ![b] = ZeroBlock]
  BY DEF w, file
<1>5. v \in DiskType /\ v[b] = ZeroBlock /\ \A c \in Block : c # b => v[c] = w[c]
  BY <1>0, <1>3, <1>4, ZeroFile DEF DiskType, PutFileIs
<1>6. FileAt(v, f) = file
  BY <1>0, <1>1, <1>3, <1>5 DEF FileAt, PutFileIs, SlotOk
<1>7. \A g \in Owners(m) : g # f => FileAt(v, g) = FileAt(m, g)
  <2>1. TAKE g \in Owners(m)
  <2>2. g.b \in Block /\ g.b # b
    BY <1>0, SlotType DEF SlotOk, Outside
  <2> QED BY <1>3, <1>5, <2>2 DEF FileAt, PutFileIs
<1>8. \A g \in Owners(m) : FileAt(m, g).indirect # 0 =>
        v[FileAt(m, g).indirect].ptrs = m[FileAt(m, g).indirect].ptrs
  <2>1. TAKE g \in Owners(m)
  <2>2. FileAt(m, g).indirect # 0 => FileAt(m, g).indirect \in Block /\ FileAt(m, g).indirect # b
    BY <1>0, SlotType DEF SlotOk, FileType, BlockNo, Outside
  <2> QED BY <1>3, <1>5, <2>2 DEF PutFileIs
<1>9. BlkIs(v, f)
  BY <1>1, <1>5, FileAtType DEF SlotOk
<1>10. \A k \in 0 .. MaxSize : Blk(v, f, k) = IF k = MaxSize THEN b ELSE Blk(m, f, k)
  <2>1. ASSUME NEW k \in 0 .. NDIRECT - 1 PROVE k # MaxSize /\ Blk(v, f, k) = Blk(m, f, k)
    <3>1. Blk(m, f, k) = FileAt(m, f).direct[k] /\ Blk(v, f, k) = file.direct[k]
      BY <1>1, <1>6, <1>9, BlkParts
    <3>2. k # MaxSize
      BY Sizes
    <3> QED BY <1>2, <3>1, <3>2
  <2>2. ASSUME NEW k \in 0 .. NINDIRECT - 1
        PROVE  NDIRECT + k # MaxSize /\ Blk(v, f, NDIRECT + k) = Blk(m, f, NDIRECT + k)
    <3>1. Blk(m, f, NDIRECT + k) = 0
      BY <1>1 DEF BlkIs
    <3>2. Blk(v, f, NDIRECT + k) = v[b].ptrs[k]
      BY <1>0, <1>2, <1>6, <1>9 DEF BlkIs
    <3>3. NDIRECT + k # MaxSize
      BY Sizes
    <3> QED BY <1>5, <3>1, <3>2, <3>3, ZeroFile
  <2>3. Blk(v, f, MaxSize) = b
    BY <1>2, <1>6, <1>9 DEF BlkIs
  <2>4. TAKE k \in 0 .. MaxSize
  <2> QED BY <2>1, <2>2, <2>3, Ways
<1>11. ASSUME NEW g \in Owners(m), NEW k \in 0 .. MaxSize
       PROVE  Blk(v, g, k) = IF g = f /\ k = MaxSize THEN b ELSE Blk(m, g, k)
  <2>1. CASE g = f
    BY <1>10, <2>1
  <2>2. CASE g # f
    <3>1. FileAt(v, g) = FileAt(m, g)
      BY <1>7, <2>2
    <3>2. FileAt(m, g).indirect # 0 =>
            v[FileAt(m, g).indirect].ptrs = m[FileAt(m, g).indirect].ptrs
      BY <1>8
    <3>3. BlkAlike(m, v, g)
      BY <3>1, <3>2, BlkSame
    <3> QED BY <2>2, <3>3 DEF BlkAlike
  <2> QED BY <2>1, <2>2
<1>12. v[BITMAP].free = m[BITMAP].free
  BY <1>0, <1>3, <1>5, Sizes DEF PutFileIs
<1>13. Added(m, v, f, MaxSize, b)
  BY <1>2, <1>5, <1>6, <1>7, <1>11, <1>12 DEF Added
<1>14. MayAdd(m, f, MaxSize, b)
  BY <1>0, <1>1, Sizes DEF MayAdd, BlkIs
<1>15. ASSUME SlotsUnder(m, e), NEW g \in Owners(m) PROVE SlotUnder(v, e, g)
  <2>0. e[b] = ZeroBlock
    BY <1>0 DEF Good, DiskType
  <2>1. SlotUnder(m, e, g)
    BY <1>15 DEF SlotsUnder
  <2>2. CASE g = f
    <3>1. FileAt(e, g).indirect \in {0, b}
      BY <1>15, <2>1, <2>2 DEF SlotUnder
    <3>2. \A k \in 0 .. NINDIRECT - 1 : e[b].ptrs[k] \in {0, v[b].ptrs[k]}
      BY <2>0, ZeroFile
    <3>3. \A k \in 0 .. NDIRECT - 1 : FileAt(e, f).direct[k] \in {0, file.direct[k]}
      BY <1>2, <2>1, <2>2 DEF SlotUnder
    <3>4. SlotUnder(v, e, f)
      BY <1>2, <1>6, <2>2, <3>1, <3>2, <3>3 DEF SlotUnder
    <3> QED BY <2>2, <3>4
  <2>3. CASE g # f
    <3>1. FileAt(v, g) = FileAt(m, g)
      BY <1>7, <2>3
    <3>2. FileAt(m, g).indirect # 0 =>
            v[FileAt(m, g).indirect].ptrs = m[FileAt(m, g).indirect].ptrs
      BY <1>8
    <3> QED BY <2>1, <3>1, <3>2, SlotUnderSame
  <2> QED BY <2>2, <2>3
<1>16. Good(v, e)
  BY <1>13, <1>14, <1>15, AddedGood
<1> QED BY <1>13, <1>14, <1>16

\* file_get_block's block, in a direct slot.
WithDirect(m, d, f, n, b, v, e) ==
  /\ v = [PutFile(m, f, [FileAt(m, f) EXCEPT !.direct[n] = b]) EXCEPT ![b] = ZeroBlock]
  /\ e = [d EXCEPT ![b] = ZeroBlock]

\* file_get_block of a direct block, which is cleared on the disk first.
LEMMA GoodNewDirect ==
  ASSUME NEW m, NEW d, NEW v, NEW e, NEW f, NEW b, NEW n \in 0 .. NDIRECT - 1,
         Good(m, d), Loose(m, b), f \in Owners(m), FileAt(m, f).direct[n] = 0,
         n < FileAt(m, f).size, WithDirect(m, d, f, n, b, v, e)
  PROVE  Good(v, e) /\ Added(m, v, f, n, b) /\ MayAdd(m, f, n, b)
<1> /\ v = [PutFile(m, f, [FileAt(m, f) EXCEPT !.direct[n] = b]) EXCEPT ![b] = ZeroBlock]
    /\ e = [d EXCEPT ![b] = ZeroBlock]
  BY DEF WithDirect
<1> DEFINE file == [FileAt(m, f) EXCEPT !.direct[n] = b]
           w == PutFile(m, f, file)
<1>0. m \in DiskType /\ Sound(m) /\ Placed(m) /\ b \in Block /\ b # BITMAP /\ f \in Owners(m)
      /\ Outside(m, b) /\ b # 0 /\ f.b # b
  BY SoundPlaced, LooseOutside, Sizes DEF Good, Loose, Outside
<1>1. SlotOk(m, f) /\ BlkIs(m, f) /\ FileAt(m, f) \in FileType
  BY <1>0, SlotType, BlkForms DEF SlotOk
<1>2. file \in FileType /\ file.indirect = FileAt(m, f).indirect
      /\ file.name = FileAt(m, f).name /\ file.size = FileAt(m, f).size
      /\ file.direct = [FileAt(m, f).direct EXCEPT ![n] = b]
      /\ FileAt(m, f).direct \in [0 .. NDIRECT - 1 -> BlockNo]
  BY <1>0, <1>1 DEF FileType, BlockNo
<1> HIDE DEF file
<1>3. PutFileIs(m, f, file, w)
  BY <1>0, <1>2, FilePut
<1> HIDE DEF w
<1>4. v = [w EXCEPT ![b] = ZeroBlock]
  BY DEF w, file
<1>5. v \in DiskType /\ v[b] = ZeroBlock /\ \A c \in Block : c # b => v[c] = w[c]
  BY <1>0, <1>3, <1>4, ZeroFile DEF DiskType, PutFileIs
<1>6. FileAt(v, f) = file
  BY <1>0, <1>1, <1>3, <1>5 DEF FileAt, PutFileIs, SlotOk
<1>7. \A g \in Owners(m) : g # f => FileAt(v, g) = FileAt(m, g)
  <2>1. TAKE g \in Owners(m)
  <2>2. g.b \in Block /\ g.b # b
    BY <1>0, SlotType DEF SlotOk, Outside
  <2> QED BY <1>3, <1>5, <2>2 DEF FileAt, PutFileIs
<1>8. \A g \in Owners(m) : FileAt(m, g).indirect # 0 =>
        v[FileAt(m, g).indirect].ptrs = m[FileAt(m, g).indirect].ptrs
  <2>1. TAKE g \in Owners(m)
  <2>2. FileAt(m, g).indirect # 0 => FileAt(m, g).indirect \in Block /\ FileAt(m, g).indirect # b
    BY <1>0, SlotType DEF SlotOk, FileType, BlockNo, Outside
  <2> QED BY <1>3, <1>5, <2>2 DEF PutFileIs
<1>9. BlkIs(v, f)
  BY <1>1, <1>5, FileAtType DEF SlotOk
<1>10. \A k \in 0 .. MaxSize : Blk(v, f, k) = IF k = n THEN b ELSE Blk(m, f, k)
  <2>1. ASSUME NEW k \in 0 .. NDIRECT - 1 PROVE Blk(v, f, k) = IF k = n THEN b ELSE Blk(m, f, k)
    <3>1. Blk(m, f, k) = FileAt(m, f).direct[k] /\ Blk(v, f, k) = file.direct[k]
      BY <1>1, <1>6, <1>9, BlkParts
    <3> QED BY <1>2, <3>1
  <2>2. ASSUME NEW k \in 0 .. NINDIRECT - 1
        PROVE  NDIRECT + k # n /\ Blk(v, f, NDIRECT + k) = Blk(m, f, NDIRECT + k)
    <3>1. NDIRECT + k # n
      BY Sizes
    <3> QED BY <1>0, <1>1, <1>2, <1>6, <1>8, <1>9, <3>1 DEF BlkIs
  <2>3. Blk(v, f, MaxSize) = Blk(m, f, MaxSize) /\ MaxSize # n
    <3>1. Blk(m, f, MaxSize) = FileAt(m, f).indirect /\ Blk(v, f, MaxSize) = file.indirect
      BY <1>1, <1>6, <1>9, BlkParts
    <3>2. MaxSize # n
      BY Sizes
    <3> QED BY <1>2, <3>1, <3>2
  <2>4. TAKE k \in 0 .. MaxSize
  <2> QED BY <2>1, <2>2, <2>3, Ways
<1>11. ASSUME NEW g \in Owners(m), NEW k \in 0 .. MaxSize
       PROVE  Blk(v, g, k) = IF g = f /\ k = n THEN b ELSE Blk(m, g, k)
  <2>1. CASE g = f
    BY <1>10, <2>1
  <2>2. CASE g # f
    <3>1. FileAt(v, g) = FileAt(m, g)
      BY <1>7, <2>2
    <3>2. FileAt(m, g).indirect # 0 =>
            v[FileAt(m, g).indirect].ptrs = m[FileAt(m, g).indirect].ptrs
      BY <1>8, <2>2
    <3>3. BlkAlike(m, v, g)
      BY <3>1, <3>2, BlkSame
    <3> QED BY <2>2, <3>3 DEF BlkAlike
  <2> QED BY <2>1, <2>2
<1>12. v[BITMAP].free = m[BITMAP].free
  BY <1>0, <1>3, <1>5, Sizes DEF PutFileIs
<1>13. Added(m, v, f, n, b)
  BY <1>2, <1>5, <1>6, <1>7, <1>11, <1>12 DEF Added
<1>14. MayAdd(m, f, n, b)
  <2>1. n \in 0 .. MaxSize
    BY Sizes
  <2>2. Blk(m, f, n) = 0
    BY <1>1 DEF BlkIs
  <2> QED BY <1>0, <2>1, <2>2 DEF MayAdd
<1>15. ASSUME SlotsUnder(m, e), NEW g \in Owners(m) PROVE SlotUnder(v, e, g)
  <2>1. SlotUnder(m, e, g)
    BY <1>15 DEF SlotsUnder
  <2>2. CASE g = f
    <3>1. ASSUME NEW k \in 0 .. NDIRECT - 1
          PROVE  FileAt(e, f).direct[k] \in {0, file.direct[k]}
      <4>1. FileAt(e, f).direct[k] \in {0, FileAt(m, f).direct[k]}
        BY <2>1, <2>2 DEF SlotUnder
      <4>2. file.direct[k] = IF k = n THEN b ELSE FileAt(m, f).direct[k]
        BY <1>2
      <4>3. FileAt(m, f).direct[n] = 0
        OBVIOUS
      <4> QED BY <4>1, <4>2, <4>3
    <3>2. FileAt(e, f).indirect \in {0, file.indirect}
      BY <1>2, <2>1, <2>2 DEF SlotUnder
    <3>3. file.indirect # 0 => v[file.indirect].ptrs = m[file.indirect].ptrs
      BY <1>0, <1>2, <1>8
    <3>4. file.indirect # 0 =>
            \A k \in 0 .. NINDIRECT - 1 : e[file.indirect].ptrs[k] \in {0, v[file.indirect].ptrs[k]}
      BY <1>2, <2>1, <2>2, <3>3 DEF SlotUnder
    <3>5. SlotUnder(v, e, f)
      BY <1>6, <3>1, <3>2, <3>4 DEF SlotUnder
    <3> QED BY <2>2, <3>5
  <2>3. CASE g # f
    <3>1. FileAt(v, g) = FileAt(m, g)
      BY <1>7, <2>3
    <3>2. FileAt(m, g).indirect # 0 =>
            v[FileAt(m, g).indirect].ptrs = m[FileAt(m, g).indirect].ptrs
      BY <1>8
    <3> QED BY <2>1, <3>1, <3>2, SlotUnderSame
  <2> QED BY <2>2, <2>3
<1>16. Good(v, e)
  BY <1>13, <1>14, <1>15, AddedGood
<1> QED BY <1>13, <1>14, <1>16

\* file_get_block's block, in the indirect block.
WithPtr(m, d, f, n, c, i, b, v, e) ==
  /\ i \in 0 .. NINDIRECT - 1 /\ n = NDIRECT + i /\ n < FileAt(m, f).size
  /\ c = FileAt(m, f).indirect /\ c # 0 /\ m[c].ptrs[i] = 0
  /\ v = [PutPtr(m, c, i, b) EXCEPT ![b] = ZeroBlock]
  /\ e = [d EXCEPT ![b] = ZeroBlock]

\* file_get_block of a block behind the indirect one.
LEMMA GoodNewPtr ==
  ASSUME NEW m, NEW d, NEW v, NEW e, NEW f, NEW b, NEW i, NEW n, NEW c,
         Good(m, d), Loose(m, b), f \in Owners(m), WithPtr(m, d, f, n, c, i, b, v, e)
  PROVE  Good(v, e) /\ Added(m, v, f, n, b) /\ MayAdd(m, f, n, b)
<1> /\ i \in 0 .. NINDIRECT - 1 /\ n = NDIRECT + i /\ n < FileAt(m, f).size
    /\ c = FileAt(m, f).indirect /\ c # 0 /\ m[c].ptrs[i] = 0
    /\ v = [PutPtr(m, c, i, b) EXCEPT ![b] = ZeroBlock]
    /\ e = [d EXCEPT ![b] = ZeroBlock]
  BY DEF WithPtr
<1> DEFINE w == PutPtr(m, c, i, b)
<1>0. m \in DiskType /\ Sound(m) /\ Placed(m) /\ b \in Block /\ b # BITMAP /\ f \in Owners(m)
      /\ Outside(m, b) /\ b # 0 /\ f.b # b /\ c # b
  BY SoundPlaced, LooseOutside, Sizes DEF Good, Loose, Outside
<1>1. SlotOk(m, f) /\ BlkIs(m, f) /\ FileAt(m, f) \in FileType
  BY <1>0, SlotType, BlkForms DEF SlotOk
<1>2. c \in Block
  BY <1>1 DEF FileType, BlockNo
<1>3. PutPtrIs(m, c, i, b, w)
  BY <1>0, <1>2, PtrPut DEF BlockNo
<1>4. v = [w EXCEPT ![b] = ZeroBlock]
  OBVIOUS
<1> HIDE DEF w
<1>5. v \in DiskType /\ v[b] = ZeroBlock /\ \A x \in Block : x # b => v[x] = w[x]
  <2>1. w \in DiskType
    BY <1>3 DEF PutPtrIs
  <2>2. v = [w EXCEPT ![b] = ZeroBlock] /\ b \in Block /\ ZeroBlock \in BlockType
    BY <1>0, <1>4, ZeroFile
  <2> QED BY ONLY <2>1, <2>2 DEF DiskType
<1>7. \A g \in Owners(m) : FileAt(v, g) = FileAt(m, g)
  <2>1. TAKE g \in Owners(m)
  <2>2. g.b \in Block /\ g.b # b
    BY <1>0, SlotType DEF SlotOk, Outside
  <2>3. v[g.b].files = m[g.b].files
    <3>1. v[g.b] = w[g.b]
      BY <1>5, <2>2
    <3>2. w[g.b].files = m[g.b].files
      BY <1>3, <2>2 DEF PutPtrIs
    <3> QED BY <3>1, <3>2
  <2> QED BY <2>3 DEF FileAt
<1>8. \A g \in Owners(m) : FileAt(m, g).indirect # 0 /\ g # f =>
        v[FileAt(m, g).indirect].ptrs = m[FileAt(m, g).indirect].ptrs
  <2>1. SUFFICES ASSUME NEW g \in Owners(m), FileAt(m, g).indirect # 0, g # f
                 PROVE  v[FileAt(m, g).indirect].ptrs = m[FileAt(m, g).indirect].ptrs
    OBVIOUS
  <2>2. FileAt(m, g).indirect \in Block /\ FileAt(m, g).indirect # b
    BY <1>0, <2>1, SlotType DEF SlotOk, FileType, BlockNo, Outside
  <2>3. FileAt(m, g).indirect # c
    <3>1. BlkIs(m, g)
      BY <1>0, <2>1, SlotType, BlkForms DEF SlotOk
    <3>2. Blk(m, g, MaxSize) = FileAt(m, g).indirect /\ Blk(m, f, MaxSize) = c
          /\ MaxSize \in 0 .. MaxSize
      BY <1>1, <3>1, Sizes DEF BlkIs
    <3>3. Distinct(m)
      BY <1>0 DEF Sound
    <3> QED BY <2>1, <3>1, <3>2, <3>3 DEF Distinct
  <2> QED BY <1>3, <1>5, <2>2, <2>3 DEF PutPtrIs
<1>9. BlkIs(v, f)
  BY <1>1, <1>5, FileAtType DEF SlotOk
<1>p. v[c].ptrs[i] = b /\ \A k \in 0 .. NINDIRECT - 1 : k # i => v[c].ptrs[k] = m[c].ptrs[k]
  BY <1>0, <1>2, <1>3, <1>5 DEF PutPtrIs
<1>10. \A k \in 0 .. MaxSize : Blk(v, f, k) = IF k = n THEN b ELSE Blk(m, f, k)
  <2>1. \A k \in 0 .. NDIRECT - 1 : k # n /\ Blk(v, f, k) = Blk(m, f, k)
    BY <1>0, <1>1, <1>7, <1>9, Sizes DEF BlkIs
  <2>2. ASSUME NEW k \in 0 .. NINDIRECT - 1
        PROVE  Blk(v, f, NDIRECT + k) = IF NDIRECT + k = n THEN b ELSE Blk(m, f, NDIRECT + k)
    <3>1. NDIRECT + k = n <=> k = i
      BY Sizes
    <3>2. Blk(v, f, NDIRECT + k) = v[c].ptrs[k] /\ Blk(m, f, NDIRECT + k) = m[c].ptrs[k]
      BY <1>0, <1>1, <1>7, <1>9 DEF BlkIs
    <3> QED BY <1>p, <3>1, <3>2
  <2>3. Blk(v, f, MaxSize) = Blk(m, f, MaxSize) /\ MaxSize # n
    BY <1>0, <1>1, <1>7, <1>9, Sizes DEF BlkIs
  <2>4. TAKE k \in 0 .. MaxSize
  <2> QED BY <2>1, <2>2, <2>3, Ways
<1>11. ASSUME NEW g \in Owners(m), NEW k \in 0 .. MaxSize
       PROVE  Blk(v, g, k) = IF g = f /\ k = n THEN b ELSE Blk(m, g, k)
  <2>1. CASE g = f
    BY <1>10, <2>1
  <2>2. CASE g # f
    <3>1. FileAt(v, g) = FileAt(m, g)
      BY <1>7, <2>2
    <3>2. FileAt(m, g).indirect # 0 =>
            v[FileAt(m, g).indirect].ptrs = m[FileAt(m, g).indirect].ptrs
      BY <1>8, <2>2
    <3>3. BlkAlike(m, v, g)
      BY <3>1, <3>2, BlkSame
    <3> QED BY <2>2, <3>3 DEF BlkAlike
  <2> QED BY <2>1, <2>2
<1>12. v[BITMAP].free = m[BITMAP].free
  BY <1>0, <1>3, <1>5, Sizes DEF PutPtrIs
<1>13. Added(m, v, f, n, b)
  BY <1>0, <1>5, <1>7, <1>11, <1>12 DEF Added
<1>14. MayAdd(m, f, n, b)
  <2>1. n \in 0 .. MaxSize
    BY Sizes
  <2>2. Blk(m, f, n) = 0
    BY <1>1 DEF BlkIs
  <2> QED BY <1>0, <2>1, <2>2 DEF MayAdd
<1>15. ASSUME SlotsUnder(m, e), NEW g \in Owners(m) PROVE SlotUnder(v, e, g)
  <2>1. SlotUnder(m, e, g) /\ FileAt(v, g) = FileAt(m, g)
    BY <1>7, <1>15 DEF SlotsUnder
  <2>2. CASE g = f
    <3>1. \A k \in 0 .. NINDIRECT - 1 : e[c].ptrs[k] \in {0, m[c].ptrs[k]}
      BY <2>1, <2>2 DEF SlotUnder
    <3>2. \A k \in 0 .. NINDIRECT - 1 : e[c].ptrs[k] \in {0, v[c].ptrs[k]}
      BY <1>p, <3>1
    <3> QED BY <2>1, <2>2, <3>2 DEF SlotUnder
  <2>3. CASE g # f
    <3>2. FileAt(m, g).indirect # 0 =>
            v[FileAt(m, g).indirect].ptrs = m[FileAt(m, g).indirect].ptrs
      BY <1>8, <2>3
    <3> QED BY <2>1, <3>2, SlotUnderSame
  <2> QED BY <2>2, <2>3
<1>16. Good(v, e)
  BY <1>13, <1>14, <1>15, AddedGood
<1> QED BY <1>13, <1>14, <1>16

-----------------------------------------------------------------------------
(* A file gets smaller, or loses its name. *)

Shrunk(m, v, f) ==
  /\ v \in DiskType
  /\ \A g \in Owners(m) : g # f => FileAt(v, g) = FileAt(m, g)
  /\ \A c \in Block : c # FileAt(m, f).indirect => v[c].ptrs = m[c].ptrs
  /\ FileAt(v, f).indirect \in {0, FileAt(m, f).indirect}
  /\ FileAt(v, f).indirect # 0 =>
       v[FileAt(m, f).indirect].ptrs = m[FileAt(m, f).indirect].ptrs
  /\ \A n \in 0 .. NDIRECT - 1 : FileAt(v, f).direct[n] \in {0, FileAt(m, f).direct[n]}
  /\ m[BITMAP].free \subseteq v[BITMAP].free
  /\ \A x \in v[BITMAP].free \ m[BITMAP].free :
       \E n \in 0 .. MaxSize : x # 0 /\ Blk(m, f, n) = x /\ Blk(v, f, n) = 0
  /\ \A n \in 0 .. MaxSize - 1 : n >= FileAt(v, f).size => Blk(v, f, n) = 0

\* A file that shrinks touches no other file's numbers.
LEMMA ShrunkBlks ==
  ASSUME NEW m \in DiskType, Sound(m), NEW f \in Refs(m), NEW v, Shrunk(m, v, f)
  PROVE  /\ \A g \in Owners(m) : FileAt(m, g).indirect # 0 /\ g # f =>
              FileAt(m, g).indirect \in Block
              /\ v[FileAt(m, g).indirect].ptrs = m[FileAt(m, g).indirect].ptrs
         /\ \A g \in Owners(m), n \in 0 .. MaxSize : g # f => Blk(v, g, n) = Blk(m, g, n)
         /\ \A n \in 0 .. MaxSize : Blk(v, f, n) \in {0, Blk(m, f, n)}
<1>0. v \in DiskType /\ f \in Owners(m) /\ Distinct(m)
  BY OwnersAre DEF Shrunk, Sound
<1>1. \A g \in Owners(m) : SlotOk(m, g) /\ BlkIs(m, g)
  BY SlotType, BlkForms DEF SlotOk
<1>2. ASSUME NEW g \in Owners(m), FileAt(m, g).indirect # 0, g # f
      PROVE  FileAt(m, g).indirect \in Block
             /\ v[FileAt(m, g).indirect].ptrs = m[FileAt(m, g).indirect].ptrs
  <2>1. FileAt(m, g).indirect \in Block
    BY <1>1, <1>2 DEF SlotOk, FileType, BlockNo
  <2>3. Blk(m, g, MaxSize) = FileAt(m, g).indirect /\ Blk(m, f, MaxSize) = FileAt(m, f).indirect
        /\ MaxSize \in 0 .. MaxSize
    BY <1>0, <1>1, BlkParts, Sizes
  <2>4. FileAt(m, g).indirect # FileAt(m, f).indirect
    BY <1>0, <1>2, <2>3 DEF Distinct
  <2> QED BY <2>1, <2>4 DEF Shrunk
<1>3. ASSUME NEW g \in Owners(m), NEW n \in 0 .. MaxSize, g # f
      PROVE  Blk(v, g, n) = Blk(m, g, n)
  <2>1. FileAt(v, g) = FileAt(m, g)
    BY <1>3 DEF Shrunk
  <2>2. BlkAlike(m, v, g)
    BY <1>2, <1>3, <2>1, BlkSame
  <2> QED BY <2>2 DEF BlkAlike
<1>4. BlkIs(v, f) /\ BlkIs(m, f)
  BY <1>0, <1>1, FileAtType DEF SlotOk
<1>5. \A n \in 0 .. MaxSize : Blk(v, f, n) \in {0, Blk(m, f, n)}
  <2>1. ASSUME NEW n \in 0 .. NDIRECT - 1 PROVE Blk(v, f, n) \in {0, Blk(m, f, n)}
    <3>1. Blk(v, f, n) = FileAt(v, f).direct[n] /\ Blk(m, f, n) = FileAt(m, f).direct[n]
      BY <1>4, BlkParts
    <3> QED BY <3>1 DEF Shrunk
  <2>2. ASSUME NEW n \in 0 .. NINDIRECT - 1
        PROVE  Blk(v, f, NDIRECT + n) \in {0, Blk(m, f, NDIRECT + n)}
    <3>1. CASE FileAt(v, f).indirect = 0
      BY <1>4, <3>1, BlkParts
    <3>2. CASE FileAt(v, f).indirect # 0
      <4>1. FileAt(v, f).indirect = FileAt(m, f).indirect
            /\ v[FileAt(m, f).indirect].ptrs = m[FileAt(m, f).indirect].ptrs
        BY <3>2 DEF Shrunk
      <4>2. Blk(v, f, NDIRECT + n) = v[FileAt(v, f).indirect].ptrs[n]
        BY <1>4, <3>2, BlkParts
      <4>3. Blk(m, f, NDIRECT + n) = m[FileAt(m, f).indirect].ptrs[n]
        BY <1>4, <3>2, <4>1, BlkParts
      <4> QED BY <4>1, <4>2, <4>3
    <3> QED BY <3>1, <3>2
  <2>3. Blk(v, f, MaxSize) \in {0, Blk(m, f, MaxSize)}
    <3>1. Blk(v, f, MaxSize) = FileAt(v, f).indirect /\ Blk(m, f, MaxSize) = FileAt(m, f).indirect
      BY <1>4, BlkParts
    <3> QED BY <3>1 DEF Shrunk
  <2> QED BY <2>1, <2>2, <2>3, Ways
<1> QED BY <1>2, <1>3, <1>5

\* What a file gave up leaves the cache sound.
LEMMA ShrunkSound ==
  ASSUME NEW m \in DiskType, Sound(m), NEW f \in Refs(m), NEW v, Shrunk(m, v, f)
  PROVE  Sound(v) /\ Refs(v) = Refs(m) /\ Owners(v) = Owners(m)
<1>0. v \in DiskType /\ Placed(m) /\ f \in Owners(m) /\ f # Root
  BY SoundPlaced, OwnersAre DEF Shrunk, Placed
<1>1. DirBlocks(v) = DirBlocks(m)
  <2>1. FileAt(v, Root) = FileAt(m, Root)
    BY <1>0, IsRoot DEF Shrunk, RootIs
  <2>2. FileAt(m, Root).indirect # 0 =>
          v[FileAt(m, Root).indirect].ptrs = m[FileAt(m, Root).indirect].ptrs
    BY <1>0, IsRoot, ShrunkBlks DEF RootIs
  <2>3. \A n : PtrAt(v, Root, n) = PtrAt(m, Root, n)
    BY <2>1, <2>2 DEF PtrAt, PtrIn
  <2> QED BY <2>1, <2>3 DEF DirBlocks
<1>2. Refs(v) = Refs(m)
  BY <1>1 DEF Refs
<1>5. Owners(v) = Owners(m)
  BY <1>2 DEF Owners
<1>6. \A g \in Owners(v), n \in 0 .. MaxSize : Blk(v, g, n) \in {0, Blk(m, g, n)}
  BY <1>5, ShrunkBlks
<1>7. UsedIs(m) /\ Distinct(m)
  BY InUseIs DEF Sound
<1>8. v[BITMAP].free \subseteq Block \ {SUPER, BITMAP}
  <2>1. ASSUME NEW x \in v[BITMAP].free, x \notin m[BITMAP].free
        PROVE  x \in Block \ {SUPER, BITMAP}
    <3>1. PICK n \in 0 .. MaxSize : x # 0 /\ Blk(m, f, n) = x
      BY <2>1 DEF Shrunk
    <3>2. Blk(m, f, n) \in BlockNo
      BY <1>0, SlotType, BlkForms DEF SlotOk, BlkIs
    <3>3. x \notin {SUPER, BITMAP}
      BY <1>0, <1>7, <3>1 DEF UsedIs
    <3> QED BY <3>1, <3>2, <3>3 DEF BlockNo
  <2> QED BY <2>1 DEF Sound
<1>9. UsedIs(v)
  <2>1. SUFFICES ASSUME NEW g \in Owners(v), NEW n \in 0 .. MaxSize, Blk(v, g, n) # 0
                 PROVE  Blk(v, g, n) \notin v[BITMAP].free \cup {SUPER, BITMAP}
    BY DEF UsedIs
  <2>2. g \in Owners(m) /\ Blk(v, g, n) = Blk(m, g, n) /\ Blk(m, g, n) # 0
    BY <1>5, <1>6, <2>1
  <2>3. Blk(m, g, n) \notin m[BITMAP].free \cup {SUPER, BITMAP}
    BY <1>7, <2>2 DEF UsedIs
  <2>4. ASSUME Blk(v, g, n) \in v[BITMAP].free PROVE FALSE
    <3>1. PICK k \in 0 .. MaxSize : Blk(m, f, k) = Blk(m, g, n) /\ Blk(v, f, k) = 0
      BY <2>2, <2>3, <2>4 DEF Shrunk
    <3>2. g = f /\ n = k
      BY <1>0, <1>7, <2>2, <3>1 DEF Distinct
    <3> QED BY <2>1, <3>1, <3>2
  <2> QED BY <2>2, <2>3, <2>4
<1>10. Distinct(v)
  <2>1. SUFFICES ASSUME NEW g \in Owners(v), NEW h \in Owners(v), NEW n \in 0 .. MaxSize,
                        NEW k \in 0 .. MaxSize, Blk(v, g, n) # 0, Blk(v, g, n) = Blk(v, h, k)
                 PROVE  g = h /\ n = k
    BY DEF Distinct
  <2>2. g \in Owners(m) /\ h \in Owners(m) /\ Blk(m, g, n) # 0 /\ Blk(m, g, n) = Blk(m, h, k)
    BY <1>5, <1>6, <2>1
  <2> QED BY <1>7, <2>2 DEF Distinct
<1>11. WithinSize(v)
  <2>1. SUFFICES ASSUME NEW g \in Owners(v), NEW n \in FileAt(v, g).size .. MaxSize - 1
                 PROVE  PtrAt(v, g, n) = 0
    BY DEF WithinSize
  <2>2. g \in Owners(m)
    BY <1>5
  <2>3. g.b \in Block /\ g.j \in 1 .. BLKFILES /\ FileAt(m, g).size \in Nat
    BY <2>2, SlotType DEF SlotOk, FileType
  <2>4. FileAt(v, g) \in FileType /\ BlkIs(v, g)
    BY <1>0, <2>3, FileAtType
  <2>5. n \in 0 .. MaxSize - 1 /\ n \in 0 .. MaxSize /\ n >= FileAt(v, g).size
    BY <2>4, Sizes DEF FileType
  <2>6. CASE g = f
    <3>1. Blk(v, g, n) = 0
      BY <2>5, <2>6 DEF Shrunk
    <3> QED BY <2>4, <2>5, <3>1 DEF BlkIs
  <2>7. CASE g # f
    <3>1. FileAt(v, g) = FileAt(m, g)
      BY <2>2, <2>7 DEF Shrunk
    <3>2. Blk(m, g, n) = 0
      BY <2>2, <2>5, <3>1, WithinIs DEF Sound
    <3>3. Blk(v, g, n) = 0
      BY <1>6, <2>5, <3>2
    <3> QED BY <2>4, <2>5, <3>3 DEF BlkIs
  <2> QED BY <2>6, <2>7
<1> QED BY <1>0, <1>2, <1>5, <1>8, <1>9, <1>10, <1>11, InUseIs DEF Sound

\* ... and the disk good once its struct File is written; the freed blocks reach
\* the bitmap on the disk later.
LEMMA GoodShrink ==
  ASSUME NEW m, NEW d, NEW v, NEW e, NEW f, Good(m, d), f \in Refs(m), Shrunk(m, v, f),
         e = [d EXCEPT ![f.b] = v[f.b]]
  PROVE  Good(v, e) /\ Refs(v) = Refs(m)
<1>0. m \in DiskType /\ d \in DiskType /\ v \in DiskType /\ Sound(m) /\ Under(m, d) /\ Placed(m)
      /\ f \in Refs(m) /\ f # Root /\ f \in Owners(m)
  BY SoundPlaced, OwnersAre DEF Good, Shrunk, Placed
<1>1. Sound(v) /\ Refs(v) = Refs(m) /\ Owners(v) = Owners(m)
  BY <1>0, ShrunkSound
<1>2. f.b \in Block /\ f.b # SUPER /\ f.b # BITMAP
  BY <1>0, SlotType DEF Placed, SlotOk
<1>3. e \in DiskType /\ e[f.b] = v[f.b] /\ \A c \in Block : c # f.b => e[c] = d[c]
  BY <1>0, <1>2 DEF DiskType
<1>4. \A g \in Owners(m) : SlotOk(m, g) /\ g.b \in Block
        /\ FileAt(e, g) = IF g.b = f.b THEN FileAt(v, g) ELSE FileAt(d, g)
  BY <1>0, <1>3, SlotType DEF SlotOk, FileAt
\* The directory's blocks hold no pointers of files.
<1>5. ASSUME NEW g \in Owners(m), FileAt(m, g).indirect # 0
      PROVE  FileAt(m, g).indirect \in Block /\ FileAt(m, g).indirect # f.b
             /\ e[FileAt(m, g).indirect] = d[FileAt(m, g).indirect]
  <2>1. FileAt(m, g).indirect \in Block
    BY <1>4, <1>5 DEF SlotOk, FileType, BlockNo
  <2>2. PICK n \in 0 .. MaxSize - 1 : Blk(m, Root, n) = f.b
    BY <1>0 DEF Placed
  <2>3. Blk(m, g, MaxSize) = FileAt(m, g).indirect
    BY <1>0, <1>4, BlkForms, BlkParts DEF SlotOk
  <2>4. n \in 0 .. MaxSize /\ MaxSize \in 0 .. MaxSize /\ n # MaxSize /\ Root \in Owners(m)
    BY Sizes, OwnersAre
  <2>5. Distinct(m)
    BY <1>0 DEF Sound
  <2>6. FileAt(m, g).indirect # f.b
    BY <1>5, <2>2, <2>3, <2>4, <2>5 DEF Distinct
  <2> QED BY <1>3, <2>1, <2>6
<1>6. \A g \in Owners(m) : SlotUnder(v, e, g)
  <2>1. TAKE g \in Owners(m)
  <2>2. SlotUnder(m, d, g)
    BY <1>0 DEF Under
  <2>3. FileAt(v, g).indirect \in {0, FileAt(m, g).indirect}
    BY <1>0 DEF Shrunk
  <2>4. FileAt(v, g).indirect # 0 =>
          v[FileAt(m, g).indirect].ptrs = m[FileAt(m, g).indirect].ptrs
    BY <1>0, <2>3, ShrunkBlks DEF Shrunk
  <2>5. FileAt(v, g).indirect # 0 =>
          \A n \in 0 .. NINDIRECT - 1 :
            e[FileAt(v, g).indirect].ptrs[n] \in {0, v[FileAt(v, g).indirect].ptrs[n]}
    BY <1>5, <2>2, <2>3, <2>4 DEF SlotUnder
  <2>6. CASE g.b = f.b
    <3>1. FileAt(e, g) = FileAt(v, g)
      BY <1>4, <2>6
    <3> QED BY <2>5, <3>1 DEF SlotUnder
  <2>7. CASE g.b # f.b
    <3>1. FileAt(e, g) = FileAt(d, g) /\ FileAt(v, g) = FileAt(m, g)
      BY <1>4, <2>7 DEF Shrunk
    <3> QED BY <2>2, <2>5, <3>1 DEF SlotUnder
  <2> QED BY <2>6, <2>7
<1>7. \A g \in Refs(m) : FileUnder(v, e, g)
  <2>1. TAKE g \in Refs(m)
  <2>2. FileUnder(m, d, g) /\ g \in Owners(m)
    BY <1>0 DEF Under, Owners
  <2>3. CASE g.b = f.b
    <3>1. FileAt(e, g) = FileAt(v, g)
      BY <1>4, <2>2, <2>3
    <3> QED BY <3>1 DEF FileUnder
  <2>4. CASE g.b # f.b
    <3>1. FileAt(e, g) = FileAt(d, g) /\ FileAt(v, g) = FileAt(m, g)
      BY <1>4, <2>2, <2>4 DEF Shrunk
    <3> QED BY <2>2, <3>1 DEF FileUnder
  <2> QED BY <2>3, <2>4
<1>8. RootUnder(v, e)
  <2>1. FileAt(e, Root) = FileAt(d, Root) /\ FileAt(v, Root) = FileAt(m, Root)
    BY <1>0, <1>2, <1>4, IsRoot DEF Shrunk, RootIs
  <2>2. SlotUnder(m, d, Root)
    BY <1>0, IsRoot DEF Under, RootIs
  <2>3. FileAt(d, Root).indirect # 0 => e[FileAt(d, Root).indirect] = d[FileAt(d, Root).indirect]
    BY <1>5, <2>2, IsRoot DEF SlotUnder, RootIs
  <2>4. \A n : Blk(e, Root, n) = Blk(d, Root, n)
    BY <2>1, <2>3 DEF Blk, BlockIn, PtrIn
  <2> QED BY <1>0, <2>1, <2>4 DEF Under, RootUnder
<1>9. e[BITMAP].free \subseteq v[BITMAP].free
  BY <1>0, <1>2, <1>3, Sizes DEF Under, Shrunk
<1>10. Under(v, e)
  BY <1>1, <1>6, <1>7, <1>8, <1>9 DEF Under
<1> QED BY <1>0, <1>1, <1>3, <1>10 DEF Good

-----------------------------------------------------------------------------
(* One operation: the writes it asks for, one after the other. *)

WriteType == [block : Block, data : BlockType]
StType == [mem : DiskType, disk : DiskType, todo : Seq(WriteType)]

\* The disks from d0 to d along the writes of todo; a crash may find any of them.
TrailBy(d0, list, d, ds) ==
  /\ ds[0] = d0 /\ ds[Len(list)] = d
  /\ \A k \in 1 .. Len(list) :
       ds[k] = [ds[k - 1] EXCEPT ![list[k].block] = list[k].data]
  /\ \A k \in 0 .. Len(list) : Good(ds[k], ds[k])
Trail(d0, list, d) == \E ds \in [0 .. Len(list) -> DiskType] : TrailBy(d0, list, d, ds)

Fine(d0, s) == s \in StType /\ Good(s.mem, s.disk) /\ Trail(d0, s.todo, s.disk)

\* Without writes the trail is the disk itself.
LEMMA TrailNone ==
  ASSUME NEW d, Good(d, d)
  PROVE  Trail(d, << >>, d)
<1> DEFINE ds == [k \in 0 .. 0 |-> d]
<1>1. d \in DiskType
  BY DEF Good
<1>2. ds \in [0 .. Len(<< >>) -> DiskType] /\ TrailBy(d, << >>, d, ds)
  BY <1>1 DEF TrailBy
<1> HIDE DEF ds
<1> QED BY <1>2 DEF Trail

\* One more write lengthens the trail, when the disk after it is good.
LEMMA TrailMore ==
  ASSUME NEW d0, NEW list \in Seq(WriteType), NEW d, Trail(d0, list, d),
         NEW b \in Block, NEW x \in BlockType, NEW e, e = [d EXCEPT ![b] = x], Good(e, e)
  PROVE  Trail(d0, Append(list, [block |-> b, data |-> x]), e)
<1>1. PICK ds \in [0 .. Len(list) -> DiskType] : TrailBy(d0, list, d, ds)
  BY DEF Trail
<1>2. PICK more : more = Append(list, [block |-> b, data |-> x])
  OBVIOUS
<1>3. PICK n : n = Len(list)
  OBVIOUS
<1>4. n \in Nat /\ Len(more) = n + 1 /\ more[n + 1] = [block |-> b, data |-> x]
      /\ \A k \in 1 .. n : more[k] = list[k]
  BY <1>2, <1>3 DEF WriteType
<1>5. PICK es : es = [k \in 0 .. n + 1 |-> IF k = n + 1 THEN e ELSE ds[k]]
  OBVIOUS
<1>6. e \in DiskType
  BY DEF Good
<1>7. es \in [0 .. n + 1 -> DiskType]
  BY <1>1, <1>3, <1>4, <1>5, <1>6
<1>8. es[n + 1] = e /\ \A k \in 0 .. n : es[k] = ds[k]
  BY <1>4, <1>5
<1>9. \A k \in 1 .. n + 1 : es[k] = [es[k - 1] EXCEPT ![more[k].block] = more[k].data]
  <2>1. TAKE k \in 1 .. n + 1
  <2>2. CASE k = n + 1
    <3>1. es[k - 1] = d
      <4>1. k - 1 = n /\ n \in 0 .. n
        BY <1>4, <2>2
      <4> QED BY <1>1, <1>3, <1>8, <4>1 DEF TrailBy
    <3>2. more[k].block = b /\ more[k].data = x
      BY <1>4, <2>2
    <3> QED BY <1>8, <2>2, <3>1, <3>2
  <2>3. CASE k # n + 1
    <3>1. k \in 1 .. n /\ k \in 0 .. n /\ k - 1 \in 0 .. n
      BY <1>4, <2>3
    <3>2. ds[k] = [ds[k - 1] EXCEPT ![list[k].block] = list[k].data]
      BY <1>1, <1>3, <3>1 DEF TrailBy
    <3> QED BY <1>4, <1>8, <3>1, <3>2
  <2> QED BY <2>2, <2>3
<1>10. \A k \in 0 .. n + 1 : Good(es[k], es[k])
  <2>1. TAKE k \in 0 .. n + 1
  <2>2. CASE k = n + 1
    BY <1>8, <2>2
  <2>3. CASE k # n + 1
    <3>1. k \in 0 .. n
      BY <1>4, <2>3
    <3> QED BY <1>1, <1>3, <1>8, <3>1 DEF TrailBy
  <2> QED BY <2>2, <2>3
<1>11. es[0] = d0
  <2>1. 0 \in 0 .. n
    BY <1>4
  <2> QED BY <1>1, <1>8, <2>1 DEF TrailBy
<1>12. TrailBy(d0, more, e, es)
  BY <1>4, <1>8, <1>9, <1>10, <1>11 DEF TrailBy
<1> QED BY <1>2, <1>4, <1>7, <1>12 DEF Trail

\* DiskWrite takes the first step of the trail.
LEMMA TrailStep ==
  ASSUME NEW d0, NEW list \in Seq(WriteType), list # << >>, NEW d, Trail(d0, list, d)
  PROVE  Trail([d0 EXCEPT ![Head(list).block] = Head(list).data], Tail(list), d)
<1>1. PICK ds \in [0 .. Len(list) -> DiskType] : TrailBy(d0, list, d, ds)
  BY DEF Trail
<1>2. PICK n : n = Len(list) - 1
  OBVIOUS
<1>3. PICK rest : rest = Tail(list)
  OBVIOUS
<1>4. n \in Nat /\ Len(list) = n + 1 /\ Len(rest) = n /\ Head(list) = list[1]
      /\ \A k \in 1 .. n : rest[k] = list[k + 1]
  BY <1>2, <1>3
<1>5. PICK es : es = [k \in 0 .. n |-> ds[k + 1]]
  OBVIOUS
<1>6. es \in [0 .. n -> DiskType]
  BY <1>1, <1>4, <1>5
<1>7. \A k \in 0 .. n : es[k] = ds[k + 1] /\ k + 1 \in 0 .. n + 1
  BY <1>4, <1>5
<1>8. es[0] = [d0 EXCEPT ![Head(list).block] = Head(list).data]
  <2>1. ds[1] = [ds[0] EXCEPT ![list[1].block] = list[1].data]
    <3>1. 1 \in 1 .. Len(list) /\ 1 - 1 = 0
      BY <1>4
    <3> QED BY <1>1, <3>1 DEF TrailBy
  <2>2. ds[0] = d0 /\ es[0] = ds[1]
    <3>1. 0 \in 0 .. n /\ 0 + 1 = 1
      BY <1>4
    <3> QED BY <1>1, <1>7, <3>1 DEF TrailBy
  <2> QED BY <1>4, <2>1, <2>2
<1>9. es[n] = d
  <2>1. n \in 0 .. n
    BY <1>4
  <2> QED BY <1>1, <1>4, <1>7, <2>1 DEF TrailBy
<1>10. \A k \in 1 .. n : es[k] = [es[k - 1] EXCEPT ![rest[k].block] = rest[k].data]
  <2>1. TAKE k \in 1 .. n
  <2>2. k \in 0 .. n /\ k - 1 \in 0 .. n /\ k - 1 + 1 = k /\ k + 1 \in 1 .. Len(list)
        /\ k + 1 - 1 = k
    BY <1>4
  <2>3. ds[k + 1] = [ds[k + 1 - 1] EXCEPT ![list[k + 1].block] = list[k + 1].data]
    <3>1. PICK i : i = k + 1
      OBVIOUS
    <3>2. ds[i] = [ds[i - 1] EXCEPT ![list[i].block] = list[i].data]
      BY <1>1, <2>2, <3>1 DEF TrailBy
    <3> QED BY <3>1, <3>2
  <2>4. es[k] = ds[k + 1] /\ es[k - 1] = ds[k]
    BY <1>7, <2>2
  <2> QED BY <1>4, <2>2, <2>3, <2>4
<1>11. \A k \in 0 .. n : Good(es[k], es[k])
  <2>1. TAKE k \in 0 .. n
  <2>2. es[k] = ds[k + 1] /\ k + 1 \in 0 .. Len(list)
    BY <1>4, <1>7
  <2> QED BY <1>1, <2>2 DEF TrailBy
<1>12. TrailBy([d0 EXCEPT ![Head(list).block] = Head(list).data], rest, d, es)
  BY <1>4, <1>8, <1>9, <1>10, <1>11 DEF TrailBy
<1> QED BY <1>3, <1>4, <1>6, <1>12 DEF Trail

\* Both ends of a trail are good, and without writes they are one.
LEMMA TrailEnds ==
  ASSUME NEW d0, NEW list \in Seq(WriteType), NEW d, Trail(d0, list, d)
  PROVE  Good(d0, d0) /\ (list = << >> => d = d0)
<1>1. PICK ds \in [0 .. Len(list) -> DiskType] : TrailBy(d0, list, d, ds)
  BY DEF Trail
<1>2. Len(list) \in Nat /\ 0 \in 0 .. Len(list) /\ (list = << >> => Len(list) = 0)
  OBVIOUS
<1> QED BY <1>1, <1>2 DEF TrailBy

\* A state with another cache.
MemIs(s, m, t) == t \in StType /\ t.mem = m /\ t.disk = s.disk /\ t.todo = s.todo

\* Replacing the cache leaves disk and writes alone.
LEMMA MemPut ==
  ASSUME NEW s \in StType, NEW m \in DiskType
  PROVE  MemIs(s, m, [s EXCEPT !.mem = m])
BY DEF StType, MemIs

\* flush_block, when what it leaves is good.
Flushed(d0, t, b, u) ==
  Fine(d0, u) /\ u.mem = t.mem /\ u.disk = [t.disk EXCEPT ![b] = t.mem[b]]

\* flush_block adds a write at most, and the disk after it must be good.
LEMMA FlushIs ==
  ASSUME NEW d0, NEW t \in StType, NEW b \in Block, Trail(d0, t.todo, t.disk),
         Good(t.mem, [t.disk EXCEPT ![b] = t.mem[b]])
  PROVE  Flushed(d0, t, b, FlushBlock(t, b))
<1>0. t.mem \in DiskType /\ t.disk \in DiskType /\ t.todo \in Seq(WriteType)
      /\ t.mem[b] \in BlockType
  BY DEF StType, DiskType
<1>1. PICK e : e = [t.disk EXCEPT ![b] = t.mem[b]]
  OBVIOUS
<1>2. Good(t.mem, e) /\ Good(e, e) /\ e \in DiskType
  BY <1>1, GoodAlone DEF Good
<1>3. CASE t.mem[b] = t.disk[b]
  <2>1. e = t.disk
    BY <1>0, <1>1, <1>3 DEF DiskType
  <2>2. FlushBlock(t, b) = t
    BY <1>3 DEF FlushBlock
  <2> QED BY <1>1, <1>2, <2>1, <2>2 DEF Flushed, Fine
<1>4. CASE t.mem[b] # t.disk[b]
  <2>1. PICK w : w = [block |-> b, data |-> t.mem[b]]
    OBVIOUS
  <2>2. w \in WriteType
    BY <1>0, <2>1 DEF WriteType
  <2>3. PICK list : list = Append(t.todo, w)
    OBVIOUS
  <2>4. list \in Seq(WriteType) /\ Trail(d0, list, e)
    <3>1. PICK old : old = t.todo
      OBVIOUS
    <3>2. PICK x : x = t.mem[b]
      OBVIOUS
    <3>3. PICK d : d = t.disk
      OBVIOUS
    <3>4. Trail(d0, Append(old, [block |-> b, data |-> x]), e)
      BY <1>0, <1>1, <1>2, <3>1, <3>2, <3>3, TrailMore
    <3> QED BY <1>0, <2>1, <2>2, <2>3, <3>1, <3>2, <3>4
  <2>5. PICK u : u = FlushBlock(t, b)
    OBVIOUS
  <2>6. u = [t EXCEPT !.disk = e, !.todo = list]
    BY <1>1, <1>4, <2>1, <2>3, <2>5 DEF FlushBlock
  <2>7. u \in StType /\ u.mem = t.mem /\ u.disk = e /\ u.todo = list
    BY <1>2, <2>4, <2>6 DEF StType
  <2> QED BY <1>1, <1>2, <2>4, <2>5, <2>7 DEF Flushed, Fine
<1> QED BY <1>3, <1>4

-----------------------------------------------------------------------------
(* alloc_block, file_block_walk and file_get_block. *)

AllocPost(d0, s, a) ==
  /\ Fine(d0, a.s) /\ Same(s.mem, a.s.mem)
  /\ a.block # 0 => Loose(a.s.mem, a.block)

\* alloc_block, when it finds a block, gives a loose one.
LEMMA AllocBlockIs ==
  ASSUME NEW d0, NEW s, Fine(d0, s)
  PROVE  AllocPost(d0, s, AllocBlock(s))
<1>0. s \in StType /\ Good(s.mem, s.disk) /\ Trail(d0, s.todo, s.disk) /\ s.mem \in DiskType
      /\ BITMAP \in Block
  BY Sizes DEF Fine, StType
<1>1. CASE Free(s) = {}
  <2>1. AllocBlock(s) = [s |-> s, block |-> 0]
    BY <1>1 DEF AllocBlock
  <2>2. Alike(s.mem, s.mem)
    BY <1>0 DEF Alike
  <2>3. Same(s.mem, s.mem)
    BY <1>0, <2>2, AlikeSame
  <2> QED BY <2>1, <2>3 DEF AllocPost
<1>2. CASE Free(s) # {}
  <2>1. Free(s) \in SUBSET Nat /\ Free(s) = s.mem[BITMAP].free
    BY <1>0, Sizes DEF Free, DiskType, BlockType
  <2>2. PICK b : b = CHOOSE x \in Free(s) : \A y \in Free(s) : x <= y
    OBVIOUS
  <2>3. b \in s.mem[BITMAP].free
    <3>1. \E x \in Free(s) : \A y \in Free(s) : x <= y
      BY <1>2, <2>1, LeastNat
    <3> QED BY <2>1, <2>2, <3>1
  <2>4. PICK m : m = s.mem
    OBVIOUS
  <2>5. PICK v : v = [m EXCEPT ![BITMAP].free = @ \ {b}]
    OBVIOUS
  <2>6. PICK e : e = [s.disk EXCEPT ![BITMAP] = v[BITMAP]]
    OBVIOUS
  <2>7. Good(v, e) /\ Same(m, v) /\ Loose(v, b)
    <3>1. Allocated(m, s.disk, b, v, e)
      BY <2>5, <2>6 DEF Allocated
    <3>2. Good(m, s.disk) /\ b \in m[BITMAP].free
      BY <1>0, <2>3, <2>4
    <3> QED BY <3>1, <3>2, GoodAlloc
  <2>8. PICK t : t = [s EXCEPT !.mem[BITMAP].free = @ \ {b}]
    OBVIOUS
  <2>9. t = [s EXCEPT !.mem = v]
    BY <2>4, <2>5, <2>8
  <2>10. MemIs(s, v, t)
    BY <1>0, <2>7, <2>9, MemPut DEF Good
  <2>11. Flushed(d0, t, BITMAP, FlushBlock(t, BITMAP))
    <3>1. t \in StType /\ Trail(d0, t.todo, t.disk) /\ Good(t.mem, [t.disk EXCEPT ![BITMAP] = t.mem[BITMAP]])
      BY <1>0, <2>6, <2>7, <2>10 DEF MemIs
    <3> QED BY <1>0, <3>1, FlushIs
  <2>12. AllocBlock(s) = [s |-> FlushBlock(t, BITMAP), block |-> b]
    BY <1>2, <2>2, <2>8 DEF AllocBlock, Take
  <2> QED BY <2>4, <2>7, <2>10, <2>11, <2>12 DEF AllocPost, Flushed, MemIs
<1> QED BY <1>1, <1>2

\* The block of a is put into f by a change of the cache from a.s.mem to w, and
\* is cleared and written.
FreshPost(d0, s, w, b, u) ==
  Fine(d0, u) /\ u.mem = [w EXCEPT ![b] = ZeroBlock]

\* A new block is cleared, and the cleared block is written.
LEMMA FreshIs ==
  ASSUME NEW d0, NEW s, Fine(d0, s), NEW b \in Block, NEW w \in DiskType, NEW t,
         t = [s EXCEPT !.mem = w],
         Good([w EXCEPT ![b] = ZeroBlock], [s.disk EXCEPT ![b] = ZeroBlock])
  PROVE  FreshPost(d0, s, w, b, Fresh(t, b))
<1>1. PICK v : v = [w EXCEPT ![b] = ZeroBlock]
  OBVIOUS
<1>2. v \in DiskType /\ v[b] = ZeroBlock
  BY <1>1, ZeroFile DEF DiskType
<1>3. s \in StType /\ Trail(d0, s.todo, s.disk)
  BY DEF Fine
<1>4. MemIs(s, w, t)
  BY <1>3, MemPut
<1>5. PICK x : x = [t EXCEPT !.mem[b] = ZeroBlock]
  OBVIOUS
<1>6. x = [t EXCEPT !.mem = v]
  BY <1>1, <1>4, <1>5 DEF MemIs
<1>7. MemIs(t, v, x)
  BY <1>2, <1>4, <1>6, MemPut DEF MemIs
<1>8. x \in StType /\ Trail(d0, x.todo, x.disk) /\ Good(x.mem, [x.disk EXCEPT ![b] = x.mem[b]])
  BY <1>1, <1>2, <1>3, <1>4, <1>7 DEF MemIs
<1>9. Flushed(d0, x, b, FlushBlock(x, b))
  BY <1>8, FlushIs
<1>10. Fresh(t, b) = FlushBlock(x, b)
  BY <1>5 DEF Fresh
<1> QED BY <1>1, <1>7, <1>9, <1>10 DEF FreshPost, Flushed, MemIs

\* What a new block of f leaves.
AddPost(d0, s, f, n, b, u) ==
  /\ Fine(d0, u) /\ Added(s.mem, u.mem, f, n, b) /\ MayAdd(s.mem, f, n, b)

\* The new indirect block of file_block_walk.
LEMMA NewIndirectIs ==
  ASSUME NEW d0, NEW a, Fine(d0, a.s), a.block # 0, Loose(a.s.mem, a.block),
         NEW f \in Owners(a.s.mem), FileAt(a.s.mem, f).indirect = 0
  PROVE  /\ NewIndirect(a, f).ok
         /\ AddPost(d0, a.s, f, MaxSize, a.block, NewIndirect(a, f).s)
<1>1. PICK s : s = a.s
  OBVIOUS
<1>2. PICK m : m = s.mem
  OBVIOUS
<1>3. PICK b : b = a.block
  OBVIOUS
<1>4. PICK w : w = PutFile(m, f, [FileAt(m, f) EXCEPT !.indirect = b])
  OBVIOUS
<1>5. PICK v : v = [w EXCEPT ![b] = ZeroBlock]
  OBVIOUS
<1>6. PICK e : e = [s.disk EXCEPT ![b] = ZeroBlock]
  OBVIOUS
<1>7. Good(m, s.disk) /\ Loose(m, b) /\ f \in Owners(m) /\ FileAt(m, f).indirect = 0
      /\ Fine(d0, s) /\ m \in DiskType /\ b \in Block
  BY <1>1, <1>2, <1>3 DEF Fine, StType, Loose
<1>8. Good(v, e) /\ Added(m, v, f, MaxSize, b) /\ MayAdd(m, f, MaxSize, b)
  <2>1. WithIndirect(m, s.disk, f, b, v, e)
    BY <1>4, <1>5, <1>6 DEF WithIndirect
  <2> QED BY <1>7, <2>1, GoodNewIndirect
<1>9. w \in DiskType
  <2>1. [FileAt(m, f) EXCEPT !.indirect = b] \in FileType
    BY <1>7, SlotType DEF SlotOk, FileType, BlockNo
  <2> QED BY <1>4, <1>7, <2>1, FilePut DEF PutFileIs
<1>10. PICK t : t = [s EXCEPT !.mem[f.b].files[f.j].indirect = b]
  OBVIOUS
<1>11. t = [s EXCEPT !.mem = w]
  BY <1>2, <1>4, <1>10 DEF PutFile, FileAt
<1>12. FreshPost(d0, s, w, b, Fresh(t, b))
  BY <1>5, <1>6, <1>7, <1>8, <1>9, <1>11, FreshIs
<1>13. NewIndirect(a, f) = [s |-> Fresh(t, b), ok |-> TRUE]
  BY <1>1, <1>3, <1>10 DEF NewIndirect, Ok
<1> QED BY <1>1, <1>2, <1>3, <1>5, <1>8, <1>12, <1>13 DEF AddPost, FreshPost

\* The new block of file_get_block.
LEMMA NewBlockIs ==
  ASSUME NEW d0, NEW a, Fine(d0, a.s), a.block # 0, Loose(a.s.mem, a.block),
         NEW f \in Owners(a.s.mem), NEW n \in Nat, n < MaxSize, n < FileAt(a.s.mem, f).size,
         PtrAt(a.s.mem, f, n) = 0, n >= NDIRECT => FileAt(a.s.mem, f).indirect # 0
  PROVE  /\ NewBlock(a, f, n).ok
         /\ AddPost(d0, a.s, f, n, a.block, NewBlock(a, f, n).s)
<1>1. PICK s : s = a.s
  OBVIOUS
<1>2. PICK m : m = s.mem
  OBVIOUS
<1>3. PICK b : b = a.block
  OBVIOUS
<1>4. Good(m, s.disk) /\ Loose(m, b) /\ f \in Owners(m) /\ Fine(d0, s) /\ m \in DiskType
      /\ b \in Block /\ n < FileAt(m, f).size /\ PtrAt(m, f, n) = 0
  BY <1>1, <1>2, <1>3 DEF Fine, StType, Loose
<1>5. FileAt(m, f) \in FileType
  BY <1>4, SlotType DEF SlotOk
<1>6. PICK t : t = SetPtr(s, f, n, b)
  OBVIOUS
<1>7. \E w \in DiskType :
        /\ t = [s EXCEPT !.mem = w]
        /\ Good([w EXCEPT ![b] = ZeroBlock], [s.disk EXCEPT ![b] = ZeroBlock])
        /\ Added(m, [w EXCEPT ![b] = ZeroBlock], f, n, b) /\ MayAdd(m, f, n, b)
  <2>1. CASE n < NDIRECT
    <3>1. n \in 0 .. NDIRECT - 1
      BY <2>1, Sizes
    <3>2. PICK w : w = PutFile(m, f, [FileAt(m, f) EXCEPT !.direct[n] = b])
      OBVIOUS
    <3>3. w \in DiskType
      <4>1. [FileAt(m, f) EXCEPT !.direct[n] = b] \in FileType
        BY <1>4, <1>5, <3>1 DEF FileType, BlockNo
      <4> QED BY <1>4, <3>2, <4>1, FilePut DEF PutFileIs
    <3>4. t = [s EXCEPT !.mem = w]
      BY <1>2, <1>6, <2>1, <3>2 DEF SetPtr, PutFile, FileAt
    <3>5. FileAt(m, f).direct[n] = 0
      BY <1>4, <2>1 DEF PtrAt, PtrIn
    <3>6. PICK v : v = [w EXCEPT ![b] = ZeroBlock]
      OBVIOUS
    <3>7. PICK e : e = [s.disk EXCEPT ![b] = ZeroBlock]
      OBVIOUS
    <3>8. Good(v, e) /\ Added(m, v, f, n, b) /\ MayAdd(m, f, n, b)
      <4>1. WithDirect(m, s.disk, f, n, b, v, e)
        BY <3>2, <3>6, <3>7 DEF WithDirect
      <4> QED BY <1>4, <3>1, <3>5, <4>1, GoodNewDirect
    <3> QED BY <3>3, <3>4, <3>6, <3>7, <3>8
  <2>2. CASE ~(n < NDIRECT)
    <3>1. PICK i : i = n - NDIRECT
      OBVIOUS
    <3>2. i \in 0 .. NINDIRECT - 1 /\ n = NDIRECT + i /\ n >= NDIRECT /\ ~(n >= MaxSize)
      BY <2>2, <3>1, Sizes
    <3>3. PICK c : c = FileAt(m, f).indirect
      OBVIOUS
    <3>4. c # 0 /\ c \in Block
      BY <1>1, <1>2, <1>5, <3>2, <3>3 DEF FileType, BlockNo
    <3>5. m[c].ptrs[i] = 0
      BY <1>4, <2>2, <3>1, <3>2, <3>3, <3>4 DEF PtrAt, PtrIn
    <3>6. PICK w : w = PutPtr(m, c, i, b)
      OBVIOUS
    <3>7. w \in DiskType
      BY <1>4, <3>2, <3>4, <3>6, PtrPut DEF PutPtrIs, BlockNo
    <3>8. t = [s EXCEPT !.mem = w]
      BY <1>2, <1>6, <2>2, <3>1, <3>3, <3>6 DEF SetPtr, PutPtr
    <3>9. PICK v : v = [w EXCEPT ![b] = ZeroBlock]
      OBVIOUS
    <3>10. PICK e : e = [s.disk EXCEPT ![b] = ZeroBlock]
      OBVIOUS
    <3>11. Good(v, e) /\ Added(m, v, f, n, b) /\ MayAdd(m, f, n, b)
      <4>1. WithPtr(m, s.disk, f, n, c, i, b, v, e)
        BY <1>4, <3>2, <3>3, <3>4, <3>5, <3>6, <3>9, <3>10 DEF WithPtr
      <4> QED BY <1>4, <4>1, GoodNewPtr
    <3> QED BY <3>7, <3>8, <3>9, <3>10, <3>11
  <2> QED BY <2>1, <2>2
<1>8. PICK w \in DiskType :
        /\ t = [s EXCEPT !.mem = w]
        /\ Good([w EXCEPT ![b] = ZeroBlock], [s.disk EXCEPT ![b] = ZeroBlock])
        /\ Added(m, [w EXCEPT ![b] = ZeroBlock], f, n, b) /\ MayAdd(m, f, n, b)
  BY <1>7
<1>9. FreshPost(d0, s, w, b, Fresh(t, b))
  BY <1>4, <1>8, FreshIs
<1>10. NewBlock(a, f, n) = [s |-> Fresh(t, b), ok |-> TRUE]
  BY <1>1, <1>3, <1>6 DEF NewBlock, Ok
<1> QED BY <1>1, <1>2, <1>3, <1>8, <1>9, <1>10 DEF AddPost, FreshPost

WalkPost(d0, s, f, n, w) ==
  /\ Fine(d0, w.s) /\ Owners(s.mem) \subseteq Owners(w.s.mem)
  /\ FileAt(w.s.mem, f).size = FileAt(s.mem, f).size
  /\ w.ok => n < MaxSize /\ (n >= NDIRECT => FileAt(w.s.mem, f).indirect # 0)
             /\ PtrAt(w.s.mem, f, n) = PtrAt(s.mem, f, n)

\* A new block leaves the other numbers of f and its size, and no owner goes.
LEMMA AddedKeeps ==
  ASSUME NEW m, NEW v, NEW f, NEW n, NEW b, MayAdd(m, f, n, b), Added(m, v, f, n, b)
  PROVE  /\ Owners(m) \subseteq Owners(v) /\ FileAt(v, f).size = FileAt(m, f).size
         /\ \A k \in 0 .. MaxSize - 1 : k # n => PtrAt(v, f, k) = PtrAt(m, f, k)
         /\ n # MaxSize => PtrAt(v, f, n) = b /\ b # 0
         /\ n = MaxSize => FileAt(v, f).indirect = b /\ b # 0
<1>1. m \in DiskType /\ v \in DiskType /\ f \in Owners(m) /\ n \in 0 .. MaxSize
      /\ b # 0
  BY Sizes DEF MayAdd, Added, Loose
<1>2. BlkIs(m, f) /\ BlkIs(v, f)
  BY <1>1, SlotType, FileAtType DEF SlotOk
<1>3. \A k \in 0 .. MaxSize : Blk(v, f, k) = IF k = n THEN b ELSE Blk(m, f, k)
  BY <1>1 DEF Added
<1>4. \A k \in 0 .. MaxSize - 1 : PtrAt(v, f, k) = Blk(v, f, k) /\ PtrAt(m, f, k) = Blk(m, f, k)
        /\ k \in 0 .. MaxSize
  BY <1>2, Sizes DEF BlkIs
<1>5. \A k \in 0 .. MaxSize - 1 : k # n => PtrAt(v, f, k) = PtrAt(m, f, k)
  BY <1>3, <1>4
<1>6. n # MaxSize => PtrAt(v, f, n) = b
  <2>1. SUFFICES ASSUME n # MaxSize PROVE PtrAt(v, f, n) = b
    OBVIOUS
  <2>2. n \in 0 .. MaxSize - 1
    BY <1>1, <2>1, Sizes
  <2> QED BY <1>3, <1>4, <2>2
<1>7. n = MaxSize => FileAt(v, f).indirect = b
  <2>1. Blk(v, f, MaxSize) = FileAt(v, f).indirect
    BY <1>2, BlkParts
  <2> QED BY <1>1, <1>3, <2>1
<1>8. Owners(m) \subseteq Owners(v)
  BY AddedOwners DEF AddedRefs
<1> QED BY <1>1, <1>5, <1>6, <1>7, <1>8 DEF Added

\* The same files have the same pointers.
LEMMA SamePtrs ==
  ASSUME NEW m, NEW v, Same(m, v), NEW f \in Owners(m)
  PROVE  /\ Owners(v) = Owners(m) /\ FileAt(v, f) = FileAt(m, f)
         /\ \A n : PtrAt(v, f, n) = PtrAt(m, f, n)
BY DEF Same

\* file_block_walk, when it succeeds, leaves an indirect block if n needs one.
LEMMA BlockWalkIs ==
  ASSUME NEW d0, NEW s, Fine(d0, s), NEW f \in Owners(s.mem), NEW n \in Nat,
         n < FileAt(s.mem, f).size
  PROVE  WalkPost(d0, s, f, n, BlockWalk(s, f, n))
<1>1. CASE n >= MaxSize
  <2>1. BlockWalk(s, f, n) = [s |-> s, ok |-> FALSE]
    BY <1>1 DEF BlockWalk, Fail
  <2> QED BY <2>1 DEF WalkPost
<1>2. CASE ~(n >= MaxSize) /\ (n < NDIRECT \/ FileAt(s.mem, f).indirect # 0)
  <2>1. BlockWalk(s, f, n) = [s |-> s, ok |-> TRUE]
    BY <1>2 DEF BlockWalk, Ok
  <2>2. n < MaxSize /\ (n >= NDIRECT => FileAt(s.mem, f).indirect # 0)
    BY <1>2, Sizes
  <2> QED BY <2>1, <2>2 DEF WalkPost
<1>3. CASE ~(n >= MaxSize) /\ ~(n < NDIRECT) /\ FileAt(s.mem, f).indirect = 0
  <2>1. PICK a : a = AllocBlock(s)
    OBVIOUS
  <2>2. AllocPost(d0, s, a)
    BY <2>1, AllocBlockIs
  <2>3. BlockWalk(s, f, n) = NewIndirect(a, f)
    BY <1>3, <2>1 DEF BlockWalk
  <2>4. f \in Owners(a.s.mem) /\ Owners(a.s.mem) = Owners(s.mem)
        /\ FileAt(a.s.mem, f) = FileAt(s.mem, f) /\ PtrAt(a.s.mem, f, n) = PtrAt(s.mem, f, n)
    BY <2>2, SamePtrs DEF AllocPost
  <2>5. CASE a.block = 0
    <3>1. NewIndirect(a, f) = [s |-> a.s, ok |-> FALSE]
      BY <2>5 DEF NewIndirect, Fail
    <3> QED BY <2>2, <2>3, <2>4, <3>1 DEF WalkPost, AllocPost
  <2>6. CASE a.block # 0
    <3>1. PICK w : w = NewIndirect(a, f)
      OBVIOUS
    <3>2. AddPost(d0, a.s, f, MaxSize, a.block, w.s)
      BY <1>3, <2>2, <2>4, <2>6, <3>1, NewIndirectIs DEF AllocPost
    <3>3. Owners(a.s.mem) \subseteq Owners(w.s.mem) /\ FileAt(w.s.mem, f).size = FileAt(a.s.mem, f).size
          /\ (\A k \in 0 .. MaxSize - 1 : k # MaxSize => PtrAt(w.s.mem, f, k) = PtrAt(a.s.mem, f, k))
          /\ FileAt(w.s.mem, f).indirect # 0
      BY <3>2, AddedKeeps DEF AddPost
    <3>4. n \in 0 .. MaxSize - 1 /\ n # MaxSize /\ n < MaxSize
      BY <1>3, Sizes
    <3> QED BY <2>3, <2>4, <3>1, <3>2, <3>3, <3>4 DEF WalkPost, AddPost
  <2> QED BY <2>5, <2>6
<1> QED BY <1>1, <1>2, <1>3

GetPost(d0, s, f, n, g) ==
  /\ Fine(d0, g.s) /\ Owners(s.mem) \subseteq Owners(g.s.mem)
  /\ FileAt(g.s.mem, f).size = FileAt(s.mem, f).size
  /\ g.ok => n < MaxSize /\ PtrAt(g.s.mem, f, n) # 0
             /\ (PtrAt(s.mem, f, n) = 0 => g.s.mem[PtrAt(g.s.mem, f, n)] = ZeroBlock)

\* file_get_block within the size, when it succeeds, leaves a block at n, and
\* changes no other number.
LEMMA GetBlockIs ==
  ASSUME NEW d0, NEW s, Fine(d0, s), NEW f \in Owners(s.mem), NEW n \in Nat,
         n < FileAt(s.mem, f).size
  PROVE  GetPost(d0, s, f, n, GetBlock(s, f, n))
<1>1. PICK w : w = BlockWalk(s, f, n)
  OBVIOUS
<1>2. WalkPost(d0, s, f, n, w)
  BY <1>1, BlockWalkIs
<1>3. PICK g : g = Missing(w, f, n)
  OBVIOUS
<1>4. GetBlock(s, f, n) = g
  BY <1>1, <1>3 DEF GetBlock
<1>5. CASE ~w.ok \/ PtrAt(w.s.mem, f, n) # 0
  <2>1. g = w
    BY <1>3, <1>5 DEF Missing
  <2> QED BY <1>2, <1>4, <1>5, <2>1 DEF GetPost, WalkPost
<1>6. CASE w.ok /\ PtrAt(w.s.mem, f, n) = 0
  <2>1. PICK a : a = AllocBlock(w.s)
    OBVIOUS
  <2>2. AllocPost(d0, w.s, a)
    BY <1>2, <2>1, AllocBlockIs DEF WalkPost
  <2>3. g = NewBlock(a, f, n)
    BY <1>3, <1>6, <2>1 DEF Missing
  <2>4. f \in Owners(w.s.mem) /\ f \in Owners(a.s.mem) /\ Owners(a.s.mem) = Owners(w.s.mem)
        /\ FileAt(a.s.mem, f) = FileAt(w.s.mem, f) /\ PtrAt(a.s.mem, f, n) = PtrAt(w.s.mem, f, n)
    <3>1. f \in Owners(w.s.mem) /\ Same(w.s.mem, a.s.mem)
      BY <1>2, <2>2 DEF WalkPost, AllocPost
    <3> QED BY <3>1, SamePtrs
  <2>5. CASE a.block = 0
    <3>1. g = [s |-> a.s, ok |-> FALSE]
      BY <2>3, <2>5 DEF NewBlock, Fail
    <3> QED BY <1>2, <1>4, <2>2, <2>4, <3>1 DEF GetPost, WalkPost, AllocPost
  <2>6. CASE a.block # 0
    <3>1. n < MaxSize /\ n # MaxSize /\ n < FileAt(a.s.mem, f).size /\ PtrAt(a.s.mem, f, n) = 0
          /\ (n >= NDIRECT => FileAt(a.s.mem, f).indirect # 0) /\ Fine(d0, a.s)
          /\ Loose(a.s.mem, a.block)
      BY <1>2, <1>6, <2>2, <2>4, <2>6, Sizes DEF WalkPost, AllocPost
    <3>2. AddPost(d0, a.s, f, n, a.block, g.s)
      BY <2>3, <2>4, <2>6, <3>1, NewBlockIs
    <3>3. Owners(a.s.mem) \subseteq Owners(g.s.mem) /\ FileAt(g.s.mem, f).size = FileAt(a.s.mem, f).size
          /\ PtrAt(g.s.mem, f, n) = a.block /\ a.block # 0
      BY <3>1, <3>2, AddedKeeps DEF AddPost
    <3>4. g.s.mem[a.block] = ZeroBlock
      BY <3>2 DEF AddPost, Added
    <3> QED BY <1>2, <1>4, <2>4, <3>1, <3>2, <3>3, <3>4 DEF GetPost, WalkPost, AddPost
  <2> QED BY <2>5, <2>6
<1> QED BY <1>5, <1>6

-----------------------------------------------------------------------------
(* file_flush and fs_sync. *)

\* Any block of a good cache may be written, the root's indirect block after the root.
LEMMA FlushFine ==
  ASSUME NEW d0, NEW s, Fine(d0, s), NEW b \in Block,
         b = FileAt(s.mem, Root).indirect => FileAt(s.disk, Root).size = FileAt(s.mem, Root).size
  PROVE  Flushed(d0, s, b, FlushBlock(s, b))
<1>1. s \in StType /\ Trail(d0, s.todo, s.disk) /\ Good(s.mem, s.disk)
  BY DEF Fine
<1>2. PICK m : m = s.mem
  OBVIOUS
<1>3. PICK d : d = s.disk
  OBVIOUS
<1>4. Good(m, [d EXCEPT ![b] = m[b]])
  BY <1>1, <1>2, <1>3, GoodFlush
<1> QED BY <1>1, <1>2, <1>3, <1>4, FlushIs

\* A number of a file is no block of the root's pointers.
LEMMA NotRootIndirect ==
  ASSUME NEW m \in DiskType, Sound(m), NEW f \in Owners(m), NEW n \in 0 .. MaxSize,
         Blk(m, f, n) # 0, f # Root \/ n # MaxSize
  PROVE  Blk(m, f, n) # FileAt(m, Root).indirect /\ Blk(m, f, n) \in Block
<1>1. Root \in Owners(m)
  BY OwnersAre
<1>2. BlkIs(m, f) /\ BlkIs(m, Root)
  BY <1>1, SlotType, BlkForms DEF SlotOk
<1>3. Blk(m, Root, MaxSize) = FileAt(m, Root).indirect /\ MaxSize \in 0 .. MaxSize
  BY <1>2, BlkParts, Sizes
<1>4. Blk(m, f, n) # Blk(m, Root, MaxSize)
  BY <1>1, <1>3 DEF Sound, Distinct
<1>5. Blk(m, f, n) \in BlockNo
  BY <1>2 DEF BlkIs
<1> QED BY <1>3, <1>4, <1>5 DEF BlockNo

\* The function of FlushData.
FlushedBy(g, s, f, k) == g = [n \in 0 .. k |-> IF n = 0 THEN s ELSE FlushPtr(g[n - 1], f, n - 1)]

\* The loop of file_flush is defined at every length.
LEMMA FlushDataRuns ==
  ASSUME NEW s, NEW f, NEW size \in Nat
  PROVE  \E g : FlushedBy(g, s, f, size)
<1> DEFINE T == {k \in Nat : \E g : FlushedBy(g, s, f, k)}
<1>1. 0 \in T
  <2>1. PICK g : g = [n \in 0 .. 0 |-> s]
    OBVIOUS
  <2>2. FlushedBy(g, s, f, 0)
    BY <2>1 DEF FlushedBy
  <2> QED BY <2>2
<1>2. ASSUME NEW k \in 0 .. size - 1, k \in T PROVE k + 1 \in T
  <2>1. PICK g : FlushedBy(g, s, f, k)
    BY <1>2
  <2>2. PICK h : h = [n \in 0 .. k + 1 |-> IF n = k + 1 THEN FlushPtr(g[k], f, k) ELSE g[n]]
    OBVIOUS
  <2>3. ASSUME NEW n \in 0 .. k + 1
        PROVE  h[n] = IF n = 0 THEN s ELSE FlushPtr(h[n - 1], f, n - 1)
    <3>1. CASE n = k + 1
      <4>1. k \in 0 .. k + 1 /\ n - 1 = k /\ n # 0 /\ k # k + 1
        BY <3>1
      <4>2. h[n] = FlushPtr(g[k], f, k) /\ h[k] = g[k]
        BY <2>2, <3>1, <4>1
      <4> QED BY <4>1, <4>2
    <3>2. CASE n # k + 1
      <4>1. n \in 0 .. k /\ (n # 0 => n - 1 \in 0 .. k + 1 /\ n - 1 # k + 1)
        BY <3>2
      <4>2. h[n] = g[n] /\ (n # 0 => h[n - 1] = g[n - 1])
        BY <2>2, <3>2, <4>1
      <4>3. g[n] = IF n = 0 THEN s ELSE FlushPtr(g[n - 1], f, n - 1)
        BY <2>1, <4>1 DEF FlushedBy
      <4> QED BY <4>2, <4>3
    <3> QED BY <3>1, <3>2
  <2>4. h = [n \in 0 .. k + 1 |-> h[n]]
    BY <2>2
  <2>5. FlushedBy(h, s, f, k + 1)
    BY <2>3, <2>4 DEF FlushedBy
  <2> QED BY <2>5
<1> HIDE DEF T
<1>3. \A k \in 0 .. size : k \in T
  BY <1>1, <1>2, Climb
<1> QED BY <1>3 DEF T

\* ... and it is the one of FlushData.
LEMMA FlushDataIs ==
  ASSUME NEW s, NEW f, NEW size \in Nat, size = FileAt(s.mem, f).size
  PROVE  \E g : /\ g[0] = s /\ FlushData(s, f) = g[size]
                /\ \A n \in 0 .. size - 1 : g[n + 1] = FlushPtr(g[n], f, n)
<1>1. PICK g : g = CHOOSE h : h = [n \in 0 .. size |-> IF n = 0 THEN s ELSE FlushPtr(h[n - 1], f, n - 1)]
  OBVIOUS
<1>2. FlushData(s, f) = g[size]
  BY <1>1 DEF FlushData
<1>3. g = [n \in 0 .. size |-> IF n = 0 THEN s ELSE FlushPtr(g[n - 1], f, n - 1)]
  <2>1. \E h : FlushedBy(h, s, f, size)
    BY FlushDataRuns
  <2>2. \E h : h = [n \in 0 .. size |-> IF n = 0 THEN s ELSE FlushPtr(h[n - 1], f, n - 1)]
    BY <2>1 DEF FlushedBy
  <2> QED BY ONLY <1>1, <2>2, Zenon
<1>4. g[0] = s
  BY <1>3
<1>5. ASSUME NEW n \in 0 .. size - 1 PROVE g[n + 1] = FlushPtr(g[n], f, n)
  <2>1. PICK i : i = n + 1
    OBVIOUS
  <2>2. i \in 0 .. size /\ i # 0 /\ i - 1 = n
    BY <2>1
  <2>3. g[i] = FlushPtr(g[i - 1], f, i - 1)
    BY <1>3, <2>2
  <2> QED BY <2>1, <2>2, <2>3
<1> QED BY <1>2, <1>4, <1>5

\* t is s with some of the cache written.
Written(d0, s, t) == Fine(d0, t) /\ t.mem = s.mem

\* Flushing a data block keeps the trail good.
LEMMA FlushPtrIs ==
  ASSUME NEW d0, NEW s, NEW t, Fine(d0, s), Written(d0, s, t), NEW f \in Owners(s.mem), NEW n \in Nat
  PROVE  Written(d0, s, FlushPtr(t, f, n))
<1>1. Fine(d0, t) /\ t.mem = s.mem
  BY DEF Written
<1>2. CASE PtrAt(s.mem, f, n) = 0
  BY <1>1, <1>2 DEF FlushPtr, Written
<1>3. CASE PtrAt(s.mem, f, n) # 0
  <2>1. PICK m : m = s.mem
    OBVIOUS
  <2>2. PICK b : b = PtrAt(m, f, n)
    OBVIOUS
  <2>3. m \in DiskType /\ Sound(m) /\ f \in Owners(m)
    BY <2>1 DEF Fine, Good
  <2>4. n < MaxSize
    BY <1>3, <2>1, Sizes DEF PtrAt, PtrIn
  <2>5. n \in 0 .. MaxSize - 1 /\ n \in 0 .. MaxSize /\ n # MaxSize
    BY <2>4, Sizes
  <2>6. Blk(m, f, n) = b /\ b # 0
    BY <1>3, <2>1, <2>2, <2>3, <2>5, SlotType, BlkForms DEF SlotOk, BlkIs
  <2>7. b \in Block /\ b # FileAt(m, Root).indirect
    BY <2>3, <2>5, <2>6, NotRootIndirect
  <2>8. Flushed(d0, t, b, FlushBlock(t, b))
    BY <1>1, <2>1, <2>7, FlushFine
  <2>9. FlushPtr(t, f, n) = FlushBlock(t, b)
    BY <1>1, <1>3, <2>1, <2>2 DEF FlushPtr
  <2> QED BY <1>1, <2>8, <2>9 DEF Flushed, Written
<1> QED BY <1>2, <1>3

\* The loop of file_flush keeps it, by induction on the blocks.
LEMMA FlushDataFine ==
  ASSUME NEW d0, NEW s, Fine(d0, s), NEW f \in Owners(s.mem)
  PROVE  Written(d0, s, FlushData(s, f))
<1>1. PICK size : size = FileAt(s.mem, f).size
  OBVIOUS
<1>2. size \in Nat
  <2>1. s.mem \in DiskType /\ f \in Owners(s.mem)
    BY DEF Fine, Good
  <2> QED BY <1>1, <2>1, SlotType DEF SlotOk, FileType
<1>3. PICK g : /\ g[0] = s /\ FlushData(s, f) = g[size]
               /\ \A n \in 0 .. size - 1 : g[n + 1] = FlushPtr(g[n], f, n)
  BY <1>1, <1>2, FlushDataIs
<1> DEFINE T == {n \in 0 .. size : Written(d0, s, g[n])}
<1>4. 0 \in T
  BY <1>2, <1>3 DEF Written
<1>5. ASSUME NEW n \in 0 .. size - 1, n \in T PROVE n + 1 \in T
  <2>1. Written(d0, s, g[n]) /\ n \in Nat /\ n + 1 \in 0 .. size
    BY <1>2, <1>5
  <2>2. Written(d0, s, FlushPtr(g[n], f, n))
    BY <2>1, FlushPtrIs
  <2> QED BY <1>3, <2>1, <2>2
<1> HIDE DEF T
<1>6. \A n \in 0 .. size : n \in T
  BY <1>2, <1>4, <1>5, Climb
<1>7. size \in 0 .. size
  BY <1>2
<1> QED BY <1>3, <1>6, <1>7 DEF T

\* What file_flush leaves.
LEMMA FileFlushIs ==
  ASSUME NEW d0, NEW s, Fine(d0, s), NEW f \in Owners(s.mem)
  PROVE  Written(d0, s, FileFlush(s, f))
<1>1. PICK m : m = s.mem
  OBVIOUS
<1>2. m \in DiskType /\ Sound(m) /\ Placed(m) /\ f \in Owners(m)
  BY <1>1, SoundPlaced DEF Fine, Good
<1>3. SlotOk(m, f) /\ BlkIs(m, f) /\ f.b \in Block /\ Blk(m, f, MaxSize) = FileAt(m, f).indirect
      /\ MaxSize \in 0 .. MaxSize
  BY <1>2, SlotType, BlkForms, BlkParts, Sizes DEF SlotOk
<1>4. PICK t : t = FlushData(s, f)
  OBVIOUS
<1>5. Fine(d0, t) /\ t.mem = m
  BY <1>1, <1>4, FlushDataFine DEF Written
<1>6. f.b # FileAt(m, Root).indirect
  <2>1. CASE f = Root
    <3>1. f.b = SUPER
      BY <2>1, IsRoot DEF RootIs
    <3>2. FileAt(m, Root).indirect # 0 => FileAt(m, Root).indirect # SUPER
      BY <1>2, IsRoot DEF Placed, RootIs
    <3> QED BY <1>3, <3>1, <3>2, Sizes
  <2>2. CASE f # Root
    <3>1. PICK n \in 0 .. MaxSize - 1 : Blk(m, Root, n) = f.b
      BY <1>2, <2>2 DEF Owners, Placed
    <3>2. n \in 0 .. MaxSize /\ n # MaxSize /\ f.b # 0
      BY <1>3, Sizes
    <3> QED BY <1>2, <3>1, <3>2, NotRootIndirect, OwnersAre
  <2> QED BY <2>1, <2>2
<1>7. PICK u : u = FlushBlock(t, f.b)
  OBVIOUS
<1>8. Flushed(d0, t, f.b, u)
  BY <1>3, <1>5, <1>6, <1>7, FlushFine
<1>9. Fine(d0, u) /\ u.mem = m /\ u.disk = [t.disk EXCEPT ![f.b] = m[f.b]]
  BY <1>5, <1>8 DEF Flushed
<1>10. PICK i : i = FileAt(m, f).indirect
  OBVIOUS
<1>11. CASE i = 0
  <2>1. FileFlush(s, f) = u
    BY <1>1, <1>4, <1>7, <1>10, <1>11 DEF FileFlush
  <2> QED BY <1>1, <1>9, <2>1 DEF Written
<1>12. CASE i # 0
  <2>1. i \in Block
    BY <1>3, <1>10, <1>12 DEF SlotOk, FileType, BlockNo
  <2>2. i = FileAt(m, Root).indirect => FileAt(u.disk, Root).size = FileAt(m, Root).size
    <3>1. CASE f = Root
      <4>1. t.disk \in DiskType
        BY <1>5 DEF Fine, Good
      <4>2. u.disk[f.b] = m[f.b]
        BY <1>3, <1>9, <4>1 DEF DiskType
      <4> QED BY <3>1, <4>2 DEF FileAt
    <3>2. CASE f # Root
      BY <1>2, <1>3, <1>10, <1>12, <3>2, NotRootIndirect
    <3> QED BY <3>1, <3>2
  <2>3. Flushed(d0, u, i, FlushBlock(u, i))
    BY <1>9, <2>1, <2>2, FlushFine
  <2>4. FileFlush(s, f) = FlushBlock(u, i)
    BY <1>1, <1>4, <1>7, <1>10, <1>12 DEF FileFlush
  <2> QED BY <1>1, <1>9, <2>3, <2>4 DEF Written, Flushed
<1> QED BY <1>11, <1>12

\* The function of FsSync.
SyncedBy(g, s, k) == g = [n \in 0 .. k |-> IF n = 0 THEN s ELSE FlushBlock(g[n - 1], n)]

\* The loop of fs_sync is defined at every length.
LEMMA FsSyncRuns ==
  ASSUME NEW s, NEW size \in Nat
  PROVE  \E g : SyncedBy(g, s, size)
<1> DEFINE T == {k \in Nat : \E g : SyncedBy(g, s, k)}
<1>1. 0 \in T
  <2>1. PICK g : g = [n \in 0 .. 0 |-> s]
    OBVIOUS
  <2>2. SyncedBy(g, s, 0)
    BY <2>1 DEF SyncedBy
  <2> QED BY <2>2
<1>2. ASSUME NEW k \in 0 .. size - 1, k \in T PROVE k + 1 \in T
  <2>1. PICK g : SyncedBy(g, s, k)
    BY <1>2
  <2>2. PICK h : h = [n \in 0 .. k + 1 |-> IF n = k + 1 THEN FlushBlock(g[k], n) ELSE g[n]]
    OBVIOUS
  <2>3. ASSUME NEW n \in 0 .. k + 1
        PROVE  h[n] = IF n = 0 THEN s ELSE FlushBlock(h[n - 1], n)
    <3>1. CASE n = k + 1
      <4>1. k \in 0 .. k + 1 /\ n - 1 = k /\ n # 0 /\ k # k + 1
        BY <3>1
      <4>2. h[n] = FlushBlock(g[k], n) /\ h[k] = g[k]
        BY <2>2, <3>1, <4>1
      <4> QED BY <4>1, <4>2
    <3>2. CASE n # k + 1
      <4>1. n \in 0 .. k /\ (n # 0 => n - 1 \in 0 .. k + 1 /\ n - 1 # k + 1)
        BY <3>2
      <4>2. h[n] = g[n] /\ (n # 0 => h[n - 1] = g[n - 1])
        BY <2>2, <3>2, <4>1
      <4>3. g[n] = IF n = 0 THEN s ELSE FlushBlock(g[n - 1], n)
        BY <2>1, <4>1 DEF SyncedBy
      <4> QED BY <4>2, <4>3
    <3> QED BY <3>1, <3>2
  <2>4. h = [n \in 0 .. k + 1 |-> h[n]]
    BY <2>2
  <2>5. SyncedBy(h, s, k + 1)
    BY <2>3, <2>4 DEF SyncedBy
  <2> QED BY <2>5
<1> HIDE DEF T
<1>3. \A k \in 0 .. size : k \in T
  BY <1>1, <1>2, Climb
<1> QED BY <1>3 DEF T

\* Block 1 is written first, and then the sizes of the root are the same.
Past(d0, s, n, t) ==
  Written(d0, s, t) /\ (n # 0 => FileAt(t.disk, Root).size = FileAt(s.mem, Root).size)

\* One more block of fs_sync: the superblock goes before every indirect block.
LEMMA PastMore ==
  ASSUME NEW d0, NEW s, Fine(d0, s), NEW n \in 0 .. NBLOCKS - 2, NEW t, Past(d0, s, n, t)
  PROVE  Past(d0, s, n + 1, FlushBlock(t, n + 1))
<1>1. PICK b : b = n + 1
  OBVIOUS
<1>2. b \in Block /\ b # 0 /\ (b = SUPER <=> n = 0)
  BY <1>1, DiskAssumption DEF Block, SUPER
<1>3. PICK m : m = s.mem
  OBVIOUS
<1>4. Fine(d0, t) /\ t.mem = m /\ m \in DiskType /\ Placed(m) /\ t.disk \in DiskType
  BY <1>3, SoundPlaced DEF Past, Written, Fine, Good
<1>5. b = FileAt(m, Root).indirect => FileAt(t.disk, Root).size = FileAt(m, Root).size
  <2>1. FileAt(m, Root).indirect # 0 => FileAt(m, Root).indirect # SUPER
    BY <1>4, IsRoot DEF Placed, RootIs
  <2> QED BY <1>2, <1>3, <2>1 DEF Past
<1>6. PICK u : u = FlushBlock(t, b)
  OBVIOUS
<1>7. Flushed(d0, t, b, u)
  BY <1>2, <1>4, <1>5, <1>6, FlushFine
<1>8. Fine(d0, u) /\ u.mem = m /\ u.disk = [t.disk EXCEPT ![b] = m[b]]
  BY <1>4, <1>7 DEF Flushed
<1>9. FileAt(u.disk, Root).size = FileAt(m, Root).size
  <2>1. CASE b = SUPER
    <3>1. u.disk[SUPER] = m[SUPER]
      BY <1>2, <1>4, <1>8, <2>1 DEF DiskType
    <3> QED BY <3>1, IsRoot DEF FileAt, RootIs
  <2>2. CASE b # SUPER
    <3>1. u.disk[SUPER] = t.disk[SUPER]
      BY <1>2, <1>4, <1>8, <2>2, Sizes DEF DiskType
    <3>2. FileAt(t.disk, Root).size = FileAt(m, Root).size
      BY <1>2, <1>3, <2>2 DEF Past
    <3> QED BY <3>1, <3>2, IsRoot DEF FileAt, RootIs
  <2> QED BY <2>1, <2>2
<1> QED BY <1>1, <1>3, <1>6, <1>8, <1>9 DEF Past, Written

\* fs_sync keeps the trail good.
LEMMA FsSyncIs ==
  ASSUME NEW d0, NEW s, Fine(d0, s)
  PROVE  Written(d0, s, FsSync(s))
<1>1. PICK size : size = NBLOCKS - 1
  OBVIOUS
<1>2. size \in Nat
  BY <1>1, DiskAssumption
<1>3. PICK g : g = CHOOSE h : h = [n \in 0 .. size |-> IF n = 0 THEN s ELSE FlushBlock(h[n - 1], n)]
  OBVIOUS
<1>4. FsSync(s) = g[size]
  BY <1>1, <1>3 DEF FsSync
<1>5. g = [n \in 0 .. size |-> IF n = 0 THEN s ELSE FlushBlock(g[n - 1], n)]
  BY <1>2, <1>3, FsSyncRuns DEF SyncedBy
<1> DEFINE T == {n \in 0 .. size : Past(d0, s, n, g[n])}
<1>6. 0 \in T
  BY <1>2, <1>5 DEF Past, Written
<1>7. ASSUME NEW n \in 0 .. size - 1, n \in T PROVE n + 1 \in T
  <2>1. PICK i : i = n + 1
    OBVIOUS
  <2>2. i \in 0 .. size /\ i # 0 /\ i - 1 = n /\ n \in 0 .. NBLOCKS - 2 /\ Past(d0, s, n, g[n])
    BY <1>1, <1>2, <1>7, <2>1, DiskAssumption
  <2>3. g[i] = FlushBlock(g[n], i)
    BY <1>5, <2>2
  <2>4. Past(d0, s, i, g[i])
    BY <2>1, <2>2, <2>3, PastMore
  <2> QED BY <2>1, <2>2, <2>4
<1> HIDE DEF T
<1>8. \A n \in 0 .. size : n \in T
  BY <1>2, <1>6, <1>7, Climb
<1>9. size \in 0 .. size
  BY <1>2
<1> QED BY <1>4, <1>8, <1>9 DEF T, Past

-----------------------------------------------------------------------------
(* dir_lookup. *)

FoundBy(g, s, name, k) ==
  g = [n \in 0 .. k |-> IF n = 0 THEN [s |-> s, ok |-> TRUE, f |-> NoRef]
                        ELSE Looked(g[n - 1], n - 1, name)]

\* The loop of dir_lookup is defined at every length.
LEMMA DirFindRuns ==
  ASSUME NEW s, NEW name, NEW size \in Nat
  PROVE  \E g : FoundBy(g, s, name, size)
<1> DEFINE T == {k \in Nat : \E g : FoundBy(g, s, name, k)}
<1>1. 0 \in T
  <2>1. PICK g : g = [n \in 0 .. 0 |-> [s |-> s, ok |-> TRUE, f |-> NoRef]]
    OBVIOUS
  <2>2. FoundBy(g, s, name, 0)
    BY <2>1 DEF FoundBy
  <2> QED BY <2>2
<1>2. ASSUME NEW k \in 0 .. size - 1, k \in T PROVE k + 1 \in T
  <2>1. PICK g : FoundBy(g, s, name, k)
    BY <1>2
  <2>2. PICK h : h = [n \in 0 .. k + 1 |-> IF n = k + 1 THEN Looked(g[k], k, name) ELSE g[n]]
    OBVIOUS
  <2>3. ASSUME NEW n \in 0 .. k + 1
        PROVE  h[n] = IF n = 0 THEN [s |-> s, ok |-> TRUE, f |-> NoRef]
                      ELSE Looked(h[n - 1], n - 1, name)
    <3>1. CASE n = k + 1
      <4>1. k \in 0 .. k + 1 /\ n - 1 = k /\ n # 0 /\ k # k + 1
        BY <3>1
      <4>2. h[n] = Looked(g[k], k, name) /\ h[k] = g[k]
        BY <2>2, <3>1, <4>1
      <4> QED BY <4>1, <4>2
    <3>2. CASE n # k + 1
      <4>1. n \in 0 .. k /\ (n # 0 => n - 1 \in 0 .. k + 1 /\ n - 1 # k + 1)
        BY <3>2
      <4>2. h[n] = g[n] /\ (n # 0 => h[n - 1] = g[n - 1])
        BY <2>2, <3>2, <4>1
      <4>3. g[n] = IF n = 0 THEN [s |-> s, ok |-> TRUE, f |-> NoRef]
                   ELSE Looked(g[n - 1], n - 1, name)
        BY <2>1, <4>1 DEF FoundBy
      <4> QED BY <4>2, <4>3
    <3> QED BY <3>1, <3>2
  <2>4. h = [n \in 0 .. k + 1 |-> h[n]]
    BY <2>2
  <2>5. FoundBy(h, s, name, k + 1)
    BY <2>3, <2>4 DEF FoundBy
  <2> QED BY <2>5
<1> HIDE DEF T
<1>3. \A k \in 0 .. size : k \in T
  BY <1>1, <1>2, Climb
<1> QED BY <1>3 DEF T

\* What a search of the directory s leaves: the same files, more blocks perhaps,
\* and a slot with that name when there is one.
Searched(d0, s, name, r) ==
  /\ Fine(d0, r.s) /\ Owners(s.mem) \subseteq Owners(r.s.mem)
  /\ FileAt(r.s.mem, Root).size = FileAt(s.mem, Root).size
  /\ r.f # NoRef => r.f \in Refs(r.s.mem) /\ FileAt(r.s.mem, r.f).name = name

\* One more block of the directory is looked through.
LEMMA LookedIs ==
  ASSUME NEW d0, NEW s, Fine(d0, s), NEW name, NEW r, Searched(d0, s, name, r),
         NEW n \in Nat, n < FileAt(s.mem, Root).size
  PROVE  Searched(d0, s, name, Looked(r, n, name))
<1>1. CASE ~r.ok \/ r.f # NoRef
  BY <1>1 DEF Looked
<1>2. CASE r.ok /\ r.f = NoRef
  <2>1. PICK g : g = GetBlock(r.s, Root, n)
    OBVIOUS
  <2>2. GetPost(d0, r.s, Root, n, g)
    <3>1. Fine(d0, r.s) /\ Root \in Owners(r.s.mem) /\ n < FileAt(r.s.mem, Root).size
      BY OwnersAre DEF Searched
    <3> QED BY <2>1, <3>1, GetBlockIs
  <2>3. Looked(r, n, name) = NextBlock(g, n, name)
    BY <1>2, <2>1 DEF Looked
  <2>4. Fine(d0, g.s) /\ Owners(s.mem) \subseteq Owners(g.s.mem)
        /\ FileAt(g.s.mem, Root).size = FileAt(s.mem, Root).size
    BY <2>2 DEF GetPost, Searched
  <2>5. CASE ~g.ok
    <3>1. NextBlock(g, n, name) = [s |-> g.s, ok |-> FALSE, f |-> NoRef]
      BY <2>5 DEF NextBlock
    <3> QED BY <2>3, <2>4, <3>1 DEF Searched
  <2>6. CASE g.ok
    <3>1. PICK m : m = g.s.mem
      OBVIOUS
    <3>2. PICK b : b = PtrAt(m, Root, n)
      OBVIOUS
    <3>3. b \in DirBlocks(m)
      <4>1. m \in DiskType /\ n < FileAt(m, Root).size /\ PtrAt(m, Root, n) # 0
        BY <2>2, <2>4, <2>6, <3>1 DEF GetPost, Fine, Good
      <4> QED BY <3>2, <4>1, DirBlockIs
    <3>4. PICK slots : slots = {j \in 1 .. BLKFILES : m[b].files[j].name = name}
      OBVIOUS
    <3>5. CASE slots = {}
      <4>1. NextBlock(g, n, name) = [s |-> g.s, ok |-> TRUE, f |-> NoRef]
        BY <2>6, <3>1, <3>2, <3>4, <3>5 DEF NextBlock, InBlock
      <4> QED BY <2>3, <2>4, <4>1 DEF Searched
    <3>6. CASE slots # {}
      <4>1. PICK j : j = CHOOSE i \in slots : \A k \in slots : i <= k
        OBVIOUS
      <4>2. j \in slots
        <5>1. slots \in SUBSET Nat
          BY <3>4
        <5>2. \E i \in slots : \A k \in slots : i <= k
          BY <3>6, <5>1, LeastNat
        <5> QED BY <4>1, <5>2
      <4>3. PICK f : f = [b |-> b, j |-> j]
        OBVIOUS
      <4>4. f \in Refs(m) /\ FileAt(m, f).name = name
        BY <3>3, <3>4, <4>2, <4>3 DEF Refs, FileAt
      <4>5. NextBlock(g, n, name) = [s |-> g.s, ok |-> TRUE, f |-> f]
        BY <2>6, <3>1, <3>2, <3>4, <3>6, <4>1, <4>3 DEF NextBlock, InBlock
      <4> QED BY <2>3, <2>4, <3>1, <4>4, <4>5 DEF Searched
    <3> QED BY <3>5, <3>6
  <2> QED BY <2>5, <2>6
<1> QED BY <1>1, <1>2

\* dir_lookup finds a slot of that name, or none, and keeps the trail good.
LEMMA DirFindIs ==
  ASSUME NEW d0, NEW s, Fine(d0, s), NEW name
  PROVE  Searched(d0, s, name, DirFind(s, name))
<1>1. PICK size : size = FileAt(s.mem, Root).size
  OBVIOUS
<1>2. size \in Nat
  <2>1. s.mem \in DiskType
    BY DEF Fine, Good
  <2> QED BY <1>1, <2>1, RootType DEF SlotOk, FileType
<1>3. PICK g : g = CHOOSE h : h = [n \in 0 .. size |->
                     IF n = 0 THEN [s |-> s, ok |-> TRUE, f |-> NoRef]
                     ELSE Looked(h[n - 1], n - 1, name)]
  OBVIOUS
<1>4. DirFind(s, name) = g[size]
  BY <1>1, <1>3 DEF DirFind
<1>5. g = [n \in 0 .. size |-> IF n = 0 THEN [s |-> s, ok |-> TRUE, f |-> NoRef]
                               ELSE Looked(g[n - 1], n - 1, name)]
  <2>1. \E h : FoundBy(h, s, name, size)
    BY <1>2, DirFindRuns
  <2>2. \E h : h = [n \in 0 .. size |-> IF n = 0 THEN [s |-> s, ok |-> TRUE, f |-> NoRef]
                                        ELSE Looked(h[n - 1], n - 1, name)]
    BY <2>1 DEF FoundBy
  <2> QED BY ONLY <1>3, <2>2, Zenon
<1> DEFINE T == {n \in 0 .. size : Searched(d0, s, name, g[n])}
<1>6. 0 \in T
  <2>1. g[0] = [s |-> s, ok |-> TRUE, f |-> NoRef]
    BY <1>2, <1>5
  <2> QED BY <1>2, <2>1 DEF Searched
<1>7. ASSUME NEW n \in 0 .. size - 1, n \in T PROVE n + 1 \in T
  <2>1. PICK i : i = n + 1
    OBVIOUS
  <2>2. i \in 0 .. size /\ i # 0 /\ i - 1 = n /\ n \in Nat /\ n < size /\ Searched(d0, s, name, g[n])
    BY <1>2, <1>7, <2>1
  <2>3. g[i] = Looked(g[n], n, name)
    BY <1>5, <2>2
  <2>4. Searched(d0, s, name, g[i])
    BY <1>1, <2>2, <2>3, LookedIs
  <2> QED BY <2>1, <2>2, <2>4
<1> HIDE DEF T
<1>8. \A n \in 0 .. size : n \in T
  BY <1>2, <1>6, <1>7, Climb
<1>9. size \in 0 .. size
  BY <1>2
<1> QED BY <1>4, <1>8, <1>9 DEF T

-----------------------------------------------------------------------------
(* file_free_block and file_truncate_blocks. *)

\* x is w without block n of f.
Cleared(w, x, f, n) ==
  /\ x \in DiskType
  /\ \A g \in Owners(w) : g # f => FileAt(x, g) = FileAt(w, g)
  /\ FileAt(x, f).name = FileAt(w, f).name /\ FileAt(x, f).size = FileAt(w, f).size
  /\ FileAt(x, f).indirect = FileAt(w, f).indirect
  /\ \A c \in Block : c # FileAt(w, f).indirect => x[c].ptrs = w[c].ptrs
  /\ \A k \in 0 .. MaxSize - 1 : Blk(x, f, k) = IF k = n THEN 0 ELSE Blk(w, f, k)
  /\ x[BITMAP].free = w[BITMAP].free

\* Clearing a direct number clears no other.
LEMMA ClearDirect ==
  ASSUME NEW w \in DiskType, NEW f \in Owners(w), NEW n \in 0 .. NDIRECT - 1
  PROVE  Cleared(w, PutFile(w, f, [FileAt(w, f) EXCEPT !.direct[n] = 0]), f, n)
<1>1. FileAt(w, f) \in FileType /\ BlkIs(w, f) /\ f.b \in Block /\ f.j \in 1 .. BLKFILES
  BY SlotType, FileAtType DEF SlotOk
<1>2. PICK file : file = [FileAt(w, f) EXCEPT !.direct[n] = 0]
  OBVIOUS
<1>3. file \in FileType /\ file.name = FileAt(w, f).name /\ file.size = FileAt(w, f).size
      /\ file.indirect = FileAt(w, f).indirect
      /\ \A k \in 0 .. NDIRECT - 1 : file.direct[k] = IF k = n THEN 0 ELSE FileAt(w, f).direct[k]
  BY <1>1, <1>2 DEF FileType, BlockNo
<1>4. PICK x : x = PutFile(w, f, file)
  OBVIOUS
<1>5. PutFileIs(w, f, file, x)
  BY <1>3, <1>4, FilePut
<1>6. x \in DiskType /\ FileAt(x, f) = file /\ \A c \in Block : x[c].ptrs = w[c].ptrs
  BY <1>5 DEF PutFileIs
<1>7. BlkIs(x, f)
  BY <1>1, <1>6, FileAtType
<1>8. ASSUME NEW k \in 0 .. MaxSize - 1
      PROVE  Blk(x, f, k) = IF k = n THEN 0 ELSE Blk(w, f, k)
  <2>1. CASE k \in 0 .. NDIRECT - 1
    <3>1. Blk(x, f, k) = file.direct[k] /\ Blk(w, f, k) = FileAt(w, f).direct[k]
      BY <1>1, <1>6, <1>7, <2>1, BlkParts
    <3> QED BY <1>3, <2>1, <3>1
  <2>2. ASSUME NEW i \in 0 .. NINDIRECT - 1, k = NDIRECT + i
        PROVE  Blk(x, f, k) = IF k = n THEN 0 ELSE Blk(w, f, k)
    <3>1. k # n
      BY <2>2, Sizes
    <3>2. FileAt(w, f).indirect # 0 => FileAt(w, f).indirect \in Block
      BY <1>1 DEF FileType, BlockNo
    <3>3. Blk(x, f, NDIRECT + i) = IF file.indirect = 0 THEN 0 ELSE x[file.indirect].ptrs[i]
      BY <1>6, <1>7, BlkParts
    <3>4. Blk(w, f, NDIRECT + i) = IF file.indirect = 0 THEN 0 ELSE w[file.indirect].ptrs[i]
      BY <1>1, <1>3, BlkParts
    <3>5. Blk(x, f, NDIRECT + i) = Blk(w, f, NDIRECT + i)
      BY <1>3, <1>6, <3>2, <3>3, <3>4
    <3> QED BY <2>2, <3>1, <3>5
  <2>3. k \in 0 .. MaxSize /\ k # MaxSize
    BY Sizes
  <2> QED BY <2>1, <2>2, <2>3, Ways
<1>9. x[BITMAP].free = w[BITMAP].free
  BY <1>5, Sizes DEF PutFileIs
<1>10. \A g \in Owners(w) : g # f => FileAt(x, g) = FileAt(w, g)
  BY <1>5 DEF PutFileIs
<1>11. Cleared(w, x, f, n)
  BY <1>3, <1>6, <1>8, <1>9, <1>10 DEF Cleared
<1> QED BY <1>2, <1>4, <1>11

\* Clearing a pointer of the indirect block clears no other.
LEMMA ClearPtr ==
  ASSUME NEW w \in DiskType, NEW f \in Owners(w), NEW i \in 0 .. NINDIRECT - 1,
         FileAt(w, f).indirect # 0
  PROVE  Cleared(w, PutPtr(w, FileAt(w, f).indirect, i, 0), f, NDIRECT + i)
<1>1. FileAt(w, f) \in FileType /\ BlkIs(w, f) /\ f.b \in Block /\ f.j \in 1 .. BLKFILES
  BY SlotType, FileAtType DEF SlotOk
<1>2. PICK c : c = FileAt(w, f).indirect
  OBVIOUS
<1>3. c \in Block /\ c # 0
  BY <1>1, <1>2 DEF FileType, BlockNo
<1>4. PICK x : x = PutPtr(w, c, i, 0)
  OBVIOUS
<1>5. PutPtrIs(w, c, i, 0, x)
  BY <1>3, <1>4, PtrPut DEF BlockNo
<1>6. x \in DiskType /\ \A y \in Block : x[y].files = w[y].files
  BY <1>5 DEF PutPtrIs
<1>7. \A g \in Owners(w) : FileAt(x, g) = FileAt(w, g)
  BY <1>6, SlotType DEF SlotOk, FileAt
<1>8. BlkIs(x, f)
  BY <1>1, <1>6, FileAtType
<1>9. ASSUME NEW k \in 0 .. MaxSize - 1
      PROVE  Blk(x, f, k) = IF k = NDIRECT + i THEN 0 ELSE Blk(w, f, k)
  <2>1. CASE k \in 0 .. NDIRECT - 1
    <3>1. k # NDIRECT + i
      BY <2>1, Sizes
    <3>2. Blk(x, f, k) = FileAt(x, f).direct[k] /\ Blk(w, f, k) = FileAt(w, f).direct[k]
      BY <1>1, <1>8, <2>1, BlkParts
    <3> QED BY <1>7, <3>1, <3>2
  <2>2. ASSUME NEW h \in 0 .. NINDIRECT - 1, k = NDIRECT + h
        PROVE  Blk(x, f, k) = IF k = NDIRECT + i THEN 0 ELSE Blk(w, f, k)
    <3>1. k = NDIRECT + i <=> h = i
      BY <2>2, Sizes
    <3>2. Blk(x, f, NDIRECT + h) = x[c].ptrs[h]
      BY <1>2, <1>3, <1>7, <1>8, BlkParts
    <3>3. Blk(w, f, NDIRECT + h) = w[c].ptrs[h]
      BY <1>1, <1>2, <1>3, BlkParts
    <3>4. x[c].ptrs[h] = IF h = i THEN 0 ELSE w[c].ptrs[h]
      BY <1>5 DEF PutPtrIs
    <3> QED BY <2>2, <3>1, <3>2, <3>3, <3>4
  <2>3. k \in 0 .. MaxSize /\ k # MaxSize
    BY Sizes
  <2> QED BY <2>1, <2>2, <2>3, Ways
<1>10. x[BITMAP].free = w[BITMAP].free /\ \A y \in Block : y # c => x[y].ptrs = w[y].ptrs
  BY <1>5, Sizes DEF PutPtrIs
<1>11. Cleared(w, x, f, NDIRECT + i)
  BY <1>2, <1>6, <1>7, <1>9, <1>10 DEF Cleared
<1> QED BY <1>2, <1>4, <1>11

\* free_block.
Freed(v, b, w) == w \in DiskType /\ Alike(v, w) /\ w[BITMAP].free = v[BITMAP].free \cup {b}

\* free_block sets one bit of the bitmap.
LEMMA FreeBlockIs ==
  ASSUME NEW s \in StType, NEW b \in Block
  PROVE  /\ FreeBlock(s, b) = [s EXCEPT !.mem = FreeBlock(s, b).mem]
         /\ Freed(s.mem, b, FreeBlock(s, b).mem) /\ FreeBlock(s, b) \in StType
<1>1. PICK v : v = s.mem
  OBVIOUS
<1>2. v \in DiskType /\ v[BITMAP] \in BlockType /\ BITMAP \in Block
  BY <1>1, Sizes DEF StType, DiskType
<1>3. PICK x : x = [v[BITMAP] EXCEPT !.free = @ \cup {b}]
  OBVIOUS
<1>4. x \in BlockType /\ x.files = v[BITMAP].files /\ x.ptrs = v[BITMAP].ptrs
      /\ x.free = v[BITMAP].free \cup {b}
  BY <1>2, <1>3 DEF BlockType
<1>5. PICK w : w = [v EXCEPT ![BITMAP] = x]
  OBVIOUS
<1>6. w \in DiskType /\ w[BITMAP] = x /\ \A c \in Block : c # BITMAP => w[c] = v[c]
  BY <1>2, <1>4, <1>5 DEF DiskType
<1>7. Freed(v, b, w)
  BY <1>2, <1>4, <1>6 DEF Freed, Alike
<1>8. FreeBlock(s, b) = [s EXCEPT !.mem = w]
  BY <1>1, <1>3, <1>5 DEF FreeBlock
<1>9. MemIs(s, w, FreeBlock(s, b))
  BY <1>6, <1>8, MemPut
<1> QED BY <1>1, <1>7, <1>8, <1>9 DEF MemIs

\* v is m without the blocks of f from a to n - 1.
Given(m, v, f, a, n) ==
  /\ v \in DiskType
  /\ \A g \in Owners(m) : g # f => FileAt(v, g) = FileAt(m, g)
  /\ FileAt(v, f).name = FileAt(m, f).name /\ FileAt(v, f).size = FileAt(m, f).size
  /\ FileAt(v, f).indirect = FileAt(m, f).indirect
  /\ \A c \in Block : c # FileAt(m, f).indirect => v[c].ptrs = m[c].ptrs
  /\ \A k \in 0 .. MaxSize - 1 : Blk(v, f, k) = IF a <= k /\ k < n THEN 0 ELSE Blk(m, f, k)
  /\ m[BITMAP].free \subseteq v[BITMAP].free
  /\ \A x \in v[BITMAP].free \ m[BITMAP].free :
       \E k \in 0 .. MaxSize - 1 : a <= k /\ x # 0 /\ Blk(m, f, k) = x

\* The directory stays.
LEMMA GivenSlots ==
  ASSUME NEW m \in DiskType, Sound(m), NEW f \in Refs(m), NEW v, NEW a, NEW n, Given(m, v, f, a, n)
  PROVE  Owners(v) = Owners(m) /\ f \in Owners(v)
<1>1. f # Root /\ f \in Owners(m) /\ Root \in Owners(m)
  BY SoundPlaced, OwnersAre DEF Placed
<1>2. FileAt(v, Root) = FileAt(m, Root)
  BY <1>1 DEF Given
<1>3. FileAt(m, Root).indirect # 0 =>
        v[FileAt(m, Root).indirect].ptrs = m[FileAt(m, Root).indirect].ptrs
  <2>1. SUFFICES ASSUME FileAt(m, Root).indirect # 0
                 PROVE  v[FileAt(m, Root).indirect].ptrs = m[FileAt(m, Root).indirect].ptrs
    OBVIOUS
  <2>2. BlkIs(m, Root) /\ BlkIs(m, f) /\ MaxSize \in 0 .. MaxSize
    BY <1>1, SlotType, BlkForms, Sizes DEF SlotOk
  <2>3. Blk(m, Root, MaxSize) = FileAt(m, Root).indirect /\ Blk(m, f, MaxSize) = FileAt(m, f).indirect
    BY <2>2, BlkParts
  <2>4. FileAt(m, Root).indirect # FileAt(m, f).indirect
    BY <1>1, <2>1, <2>2, <2>3 DEF Sound, Distinct
  <2>5. FileAt(m, Root).indirect \in Block
    BY <2>1, RootType DEF SlotOk, FileType, BlockNo
  <2> QED BY <2>4, <2>5 DEF Given
<1>4. \A k : PtrAt(v, Root, k) = PtrAt(m, Root, k)
  BY <1>2, <1>3 DEF PtrAt, PtrIn
<1>5. DirBlocks(v) = DirBlocks(m)
  BY <1>2, <1>4 DEF DirBlocks
<1> QED BY <1>1, <1>5 DEF Owners, Refs

\* One more block is given up.
GivePost(m, s, u, f, a, n) ==
  u \in StType /\ u.disk = s.disk /\ u.todo = s.todo /\ Given(m, u.mem, f, a, n)

\* file_free_block of one more block.
LEMMA GiveMore ==
  ASSUME NEW m \in DiskType, Sound(m), NEW f \in Refs(m), NEW s, NEW t, NEW a \in Nat, NEW n \in Nat,
         a <= n, GivePost(m, s, t, f, a, n)
  PROVE  GivePost(m, s, FreeFileBlock(t, f, n), f, a, n + 1)
<1>1. PICK v : v = t.mem
  OBVIOUS
<1>2. Given(m, v, f, a, n) /\ v \in DiskType /\ t \in StType /\ f \in Owners(v)
  <2>1. Given(m, v, f, a, n) /\ t \in StType
    BY <1>1 DEF GivePost
  <2>2. v \in DiskType
    BY <2>1 DEF Given
  <2> QED BY <2>1, <2>2, GivenSlots
<1>3. FileAt(v, f) \in FileType /\ BlkIs(v, f)
  BY <1>2, SlotType, BlkForms DEF SlotOk
<1>4. PICK b : b = PtrAt(v, f, n)
  OBVIOUS
<1>5. CASE b = 0
  <2>1. FreeFileBlock(t, f, n) = t
    BY <1>1, <1>4, <1>5 DEF FreeFileBlock
  <2>2. ASSUME NEW k \in 0 .. MaxSize - 1
        PROVE  Blk(v, f, k) = IF a <= k /\ k < n + 1 THEN 0 ELSE Blk(m, f, k)
    <3>1. Blk(v, f, k) = IF a <= k /\ k < n THEN 0 ELSE Blk(m, f, k)
      BY <1>2 DEF Given
    <3>2. CASE k = n
      <4>1. Blk(v, f, k) = 0
        BY <1>3, <1>4, <1>5, <3>2 DEF BlkIs
      <4> QED BY <3>2, <4>1
    <3>3. CASE k # n
      <4>1. k < n <=> k < n + 1
        BY <3>3
      <4> QED BY <3>1, <4>1
    <3> QED BY <3>2, <3>3
  <2>3. Given(m, v, f, a, n + 1)
    BY <1>2, <2>2 DEF Given
  <2> QED BY <1>1, <2>1, <2>3 DEF GivePost
<1>6. CASE b # 0
  <2>1. n < MaxSize /\ (n >= NDIRECT => FileAt(v, f).indirect # 0)
    BY <1>4, <1>6, Sizes DEF PtrAt, PtrIn
  <2>2. n \in 0 .. MaxSize - 1 /\ n \in 0 .. MaxSize
    BY <2>1, Sizes
  <2>3. Blk(v, f, n) = b /\ b \in Block
    BY <1>3, <1>4, <1>6, <2>2 DEF BlkIs, BlockNo
  <2>4. Blk(m, f, n) = b
    BY <1>2, <1>6, <2>2, <2>3 DEF Given
  <2>5. PICK y : y = FreeBlock(t, b)
    OBVIOUS
  <2>6. PICK w : w = y.mem
    OBVIOUS
  <2>7. y = [t EXCEPT !.mem = w] /\ Freed(v, b, w) /\ y \in StType
    BY <1>1, <1>2, <2>3, <2>5, <2>6, FreeBlockIs
  <2>8. w \in DiskType /\ Same(v, w) /\ w[BITMAP].free = v[BITMAP].free \cup {b}
        /\ \A c \in Block : w[c].ptrs = v[c].ptrs
    BY <1>2, <2>7, AlikeSame DEF Freed, Alike
  <2>9. f \in Owners(w) /\ FileAt(w, f) = FileAt(v, f) /\ Owners(w) = Owners(v)
        /\ \A k : Blk(w, f, k) = Blk(v, f, k)
    BY <1>2, <2>8 DEF Same
  <2>10. PICK u : u = SetPtr(y, f, n, 0)
    OBVIOUS
  <2>11. FreeFileBlock(t, f, n) = u
    BY <1>1, <1>4, <1>6, <2>5, <2>10 DEF FreeFileBlock
  <2>12. \E x \in DiskType : u = [y EXCEPT !.mem = x] /\ Cleared(w, x, f, n)
    <3>1. CASE n < NDIRECT
      <4>1. n \in 0 .. NDIRECT - 1
        BY <3>1, Sizes
      <4>2. PICK x : x = PutFile(w, f, [FileAt(w, f) EXCEPT !.direct[n] = 0])
        OBVIOUS
      <4>3. Cleared(w, x, f, n)
        BY <2>8, <2>9, <4>1, <4>2, ClearDirect
      <4>4. u = [y EXCEPT !.mem = x]
        BY <2>6, <2>10, <3>1, <4>2 DEF SetPtr, PutFile, FileAt
      <4> QED BY <4>3, <4>4 DEF Cleared
    <3>2. CASE ~(n < NDIRECT)
      <4>1. PICK i : i = n - NDIRECT
        OBVIOUS
      <4>2. i \in 0 .. NINDIRECT - 1 /\ NDIRECT + i = n /\ n >= NDIRECT
        BY <2>1, <3>2, <4>1, Sizes
      <4>3. PICK c : c = FileAt(w, f).indirect
        OBVIOUS
      <4>4. PICK x : x = PutPtr(w, c, i, 0)
        OBVIOUS
      <4>5. Cleared(w, x, f, n)
        <5>1. FileAt(w, f).indirect # 0
          BY <2>1, <2>9, <4>2
        <5>2. Cleared(w, x, f, NDIRECT + i)
          BY <2>8, <2>9, <4>2, <4>3, <4>4, <5>1, ClearPtr
        <5> QED BY <4>2, <5>2
      <4>6. u = [y EXCEPT !.mem = x]
        BY <2>6, <2>10, <3>2, <4>1, <4>3, <4>4 DEF SetPtr, PutPtr
      <4> QED BY <4>5, <4>6 DEF Cleared
    <3> QED BY <3>1, <3>2
  <2>13. PICK x \in DiskType : u = [y EXCEPT !.mem = x] /\ Cleared(w, x, f, n)
    BY <2>12
  <2>14. MemIs(y, x, u)
    BY <2>7, <2>13, MemPut
  <2>15. u \in StType /\ u.mem = x /\ u.disk = s.disk /\ u.todo = s.todo
    BY <1>2, <2>7, <2>14 DEF MemIs, GivePost, StType
  <2>16. \A g \in Owners(m) : g # f => FileAt(x, g) = FileAt(m, g)
    <3>1. Owners(w) = Owners(m)
      BY <1>2, <2>9, GivenSlots
    <3>2. \A g \in Owners(v) : FileAt(w, g) = FileAt(v, g)
      BY <2>8 DEF Same
    <3> QED BY <1>2, <2>9, <2>13, <3>1, <3>2 DEF Given, Cleared
  <2>17. FileAt(x, f).name = FileAt(m, f).name /\ FileAt(x, f).size = FileAt(m, f).size
         /\ FileAt(x, f).indirect = FileAt(m, f).indirect
    BY <1>2, <2>9, <2>13 DEF Given, Cleared
  <2>18. \A c \in Block : c # FileAt(m, f).indirect => x[c].ptrs = m[c].ptrs
    BY <1>2, <2>8, <2>9, <2>13 DEF Given, Cleared
  <2>19. ASSUME NEW k \in 0 .. MaxSize - 1
         PROVE  Blk(x, f, k) = IF a <= k /\ k < n + 1 THEN 0 ELSE Blk(m, f, k)
    <3>1. Blk(v, f, k) = IF a <= k /\ k < n THEN 0 ELSE Blk(m, f, k)
      BY <1>2 DEF Given
    <3>2. Blk(x, f, k) = IF k = n THEN 0 ELSE Blk(v, f, k)
      BY <2>9, <2>13 DEF Cleared
    <3>3. CASE k = n
      BY <3>2, <3>3
    <3>4. CASE k # n
      <4>1. k < n <=> k < n + 1
        BY <3>4
      <4> QED BY <3>1, <3>2, <3>4, <4>1
    <3> QED BY <3>3, <3>4
  <2>20. m[BITMAP].free \subseteq x[BITMAP].free
         /\ \A z \in x[BITMAP].free \ m[BITMAP].free :
              \E k \in 0 .. MaxSize - 1 : a <= k /\ z # 0 /\ Blk(m, f, k) = z
    <3>1. x[BITMAP].free = v[BITMAP].free \cup {b}
      BY <2>8, <2>13 DEF Cleared
    <3> QED BY <1>2, <1>6, <2>2, <2>4, <3>1 DEF Given
  <2>21. Given(m, x, f, a, n + 1)
    BY <2>13, <2>16, <2>17, <2>18, <2>19, <2>20 DEF Given
  <2> QED BY <2>11, <2>15, <2>21 DEF GivePost
<1> QED BY <1>5, <1>6

GivenBy(g, s, f, a, k) ==
  g = [n \in a .. k |-> IF n = a THEN s ELSE FreeFileBlock(g[n - 1], f, n - 1)]

\* The loop of file_truncate_blocks is defined at every length.
LEMMA GiveUpRuns ==
  ASSUME NEW s, NEW f, NEW a \in Nat, NEW z \in Nat, a <= z
  PROVE  \E g : GivenBy(g, s, f, a, z)
<1> DEFINE T == {k \in Nat : \E g : GivenBy(g, s, f, a, k)}
<1>1. a \in T
  <2>1. PICK g : g = [n \in a .. a |-> s]
    OBVIOUS
  <2>2. \A n \in a .. a : n = a
    OBVIOUS
  <2>3. GivenBy(g, s, f, a, a)
    BY <2>1, <2>2 DEF GivenBy
  <2> QED BY <2>3
<1>2. ASSUME NEW k \in a .. z - 1, k \in T PROVE k + 1 \in T
  <2>1. PICK g : GivenBy(g, s, f, a, k)
    BY <1>2
  <2>2. PICK h : h = [n \in a .. k + 1 |-> IF n = k + 1 THEN FreeFileBlock(g[k], f, k) ELSE g[n]]
    OBVIOUS
  <2>3. ASSUME NEW n \in a .. k + 1
        PROVE  h[n] = IF n = a THEN s ELSE FreeFileBlock(h[n - 1], f, n - 1)
    <3>1. CASE n = k + 1
      <4>1. k \in a .. k + 1 /\ n - 1 = k /\ n # a /\ k # k + 1
        BY <3>1
      <4>2. h[n] = FreeFileBlock(g[k], f, k) /\ h[k] = g[k]
        BY <2>2, <3>1, <4>1
      <4> QED BY <4>1, <4>2
    <3>2. CASE n # k + 1
      <4>1. n \in a .. k /\ (n # a => n - 1 \in a .. k + 1 /\ n - 1 # k + 1)
        BY <3>2
      <4>2. h[n] = g[n] /\ (n # a => h[n - 1] = g[n - 1])
        BY <2>2, <3>2, <4>1
      <4>3. g[n] = IF n = a THEN s ELSE FreeFileBlock(g[n - 1], f, n - 1)
        BY <2>1, <4>1 DEF GivenBy
      <4> QED BY <4>2, <4>3
    <3> QED BY <3>1, <3>2
  <2>4. h = [n \in a .. k + 1 |-> h[n]]
    BY <2>2
  <2>5. GivenBy(h, s, f, a, k + 1)
    BY <2>3, <2>4 DEF GivenBy
  <2> QED BY <2>5
<1> HIDE DEF T
<1>3. \A k \in a .. z : k \in T
  BY <1>1, <1>2, Climb
<1> QED BY <1>3 DEF T

\* The loop frees the blocks from a on, and exactly those.
LEMMA GiveUpIs ==
  ASSUME NEW s \in StType, Sound(s.mem), NEW f \in Refs(s.mem), NEW a \in Nat, NEW z \in Nat, a <= z
  PROVE  GivePost(s.mem, s, GiveUp(s, f, a, z), f, a, z)
<1>1. PICK g : g = CHOOSE h : h = [n \in a .. z |->
                     IF n = a THEN s ELSE FreeFileBlock(h[n - 1], f, n - 1)]
  OBVIOUS
<1>2. GiveUp(s, f, a, z) = g[z]
  BY <1>1 DEF GiveUp
<1>3. g = [n \in a .. z |-> IF n = a THEN s ELSE FreeFileBlock(g[n - 1], f, n - 1)]
  <2>1. \E h : GivenBy(h, s, f, a, z)
    BY GiveUpRuns
  <2>2. \E h : h = [n \in a .. z |-> IF n = a THEN s ELSE FreeFileBlock(h[n - 1], f, n - 1)]
    BY <2>1 DEF GivenBy
  <2> QED BY ONLY <1>1, <2>2, Zenon
<1>4. PICK m : m = s.mem
  OBVIOUS
<1>5. m \in DiskType /\ Sound(m) /\ f \in Refs(m)
  BY <1>4 DEF StType
<1> DEFINE T == {n \in a .. z : GivePost(m, s, g[n], f, a, n)}
<1>6. a \in T
  <2>1. g[a] = s
    BY <1>3
  <2>2. \A k \in 0 .. MaxSize - 1 : ~(a <= k /\ k < a)
    BY Sizes
  <2>3. Given(m, m, f, a, a)
    BY <1>5, <2>2 DEF Given
  <2> QED BY <1>4, <2>1, <2>3 DEF GivePost
<1>7. ASSUME NEW n \in a .. z - 1, n \in T PROVE n + 1 \in T
  <2>1. PICK i : i = n + 1
    OBVIOUS
  <2>2. i \in a .. z /\ i # a /\ i - 1 = n /\ n \in Nat /\ a <= n /\ GivePost(m, s, g[n], f, a, n)
    BY <1>7, <2>1
  <2>3. g[i] = FreeFileBlock(g[n], f, n)
    BY <1>3, <2>2
  <2>4. GivePost(m, s, g[i], f, a, i)
    BY <1>5, <2>1, <2>2, <2>3, GiveMore
  <2> QED BY <2>1, <2>2, <2>4
<1> HIDE DEF T
<1>8. \A n \in a .. z : n \in T
  BY <1>6, <1>7, Climb
<1>9. z \in a .. z
  OBVIOUS
<1> QED BY <1>2, <1>4, <1>8, <1>9 DEF T

\* The cache after a truncation, before the struct File gets its size.
Cut(m, v, f, size) ==
  /\ v \in DiskType
  /\ \A g \in Owners(m) : g # f => FileAt(v, g) = FileAt(m, g)
  /\ FileAt(v, f).name = FileAt(m, f).name
  /\ \A c \in Block : c # FileAt(m, f).indirect => v[c].ptrs = m[c].ptrs
  /\ FileAt(v, f).indirect \in {0, FileAt(m, f).indirect}
  /\ FileAt(v, f).indirect # 0 =>
       v[FileAt(m, f).indirect].ptrs = m[FileAt(m, f).indirect].ptrs
  /\ \A n \in 0 .. NDIRECT - 1 : FileAt(v, f).direct[n] \in {0, FileAt(m, f).direct[n]}
  /\ m[BITMAP].free \subseteq v[BITMAP].free
  /\ \A x \in v[BITMAP].free \ m[BITMAP].free :
       \E n \in 0 .. MaxSize : x # 0 /\ Blk(m, f, n) = x /\ Blk(v, f, n) = 0
  /\ \A n \in 0 .. MaxSize - 1 : n >= size => Blk(v, f, n) = 0
  /\ Owners(v) = Owners(m)

\* The indirect block is given up.
Dropped(v, x, f) ==
  /\ x \in DiskType /\ Owners(x) = Owners(v)
  /\ \A g \in Owners(v) : g # f => FileAt(x, g) = FileAt(v, g)
  /\ FileAt(x, f).name = FileAt(v, f).name
  /\ FileAt(x, f).direct = FileAt(v, f).direct /\ FileAt(x, f).indirect = 0
  /\ \A c \in Block : x[c].ptrs = v[c].ptrs
  /\ x[BITMAP].free = v[BITMAP].free \cup ({FileAt(v, f).indirect} \ {0})

\* The indirect block is freed, and the struct File has none.
LEMMA DropIndirectIs ==
  ASSUME NEW t \in StType, NEW f \in Owners(t.mem), f # Root, Root \in Owners(t.mem)
  PROVE  /\ DropIndirect(t, f) \in StType /\ DropIndirect(t, f).disk = t.disk
         /\ DropIndirect(t, f).todo = t.todo /\ Dropped(t.mem, DropIndirect(t, f).mem, f)
<1>1. PICK v : v = t.mem
  OBVIOUS
<1>2. v \in DiskType /\ f \in Owners(v) /\ FileAt(v, f) \in FileType
  BY <1>1, SlotType DEF StType, SlotOk
<1>3. PICK ind : ind = FileAt(v, f).indirect
  OBVIOUS
<1>4. PICK u : u = DropIndirect(t, f)
  OBVIOUS
<1>5. CASE ind = 0
  <2>1. u = t
    BY <1>1, <1>3, <1>4, <1>5 DEF DropIndirect
  <2>2. Dropped(v, v, f)
    BY <1>2, <1>3, <1>5 DEF Dropped
  <2> QED BY <1>1, <1>4, <2>1, <2>2
<1>6. CASE ind # 0
  <2>1. ind \in Block
    BY <1>2, <1>3, <1>6 DEF FileType, BlockNo
  <2>2. PICK y : y = FreeBlock(t, ind)
    OBVIOUS
  <2>3. PICK w : w = y.mem
    OBVIOUS
  <2>4. y = [t EXCEPT !.mem = w] /\ Freed(v, ind, w) /\ y \in StType
    BY <1>1, <2>1, <2>2, <2>3, FreeBlockIs
  <2>5. w \in DiskType /\ Same(v, w) /\ w[BITMAP].free = v[BITMAP].free \cup {ind}
        /\ \A c \in Block : w[c].ptrs = v[c].ptrs
    BY <1>2, <2>4, AlikeSame DEF Freed, Alike
  <2>6. f \in Owners(w) /\ FileAt(w, f) = FileAt(v, f) /\ Owners(w) = Owners(v)
        /\ \A g \in Owners(v) : FileAt(w, g) = FileAt(v, g)
    BY <1>2, <2>5 DEF Same
  <2>7. PICK file : file = [FileAt(w, f) EXCEPT !.indirect = 0]
    OBVIOUS
  <2>8. file \in FileType /\ file.indirect = 0 /\ file.direct = FileAt(v, f).direct
        /\ file.name = FileAt(v, f).name
    BY <1>2, <2>6, <2>7 DEF FileType, BlockNo
  <2>9. PICK x : x = PutFile(w, f, file)
    OBVIOUS
  <2>10. PutFileIs(w, f, file, x)
    BY <2>5, <2>6, <2>8, <2>9, FilePut
  <2>11. x \in DiskType /\ FileAt(x, f) = file /\ (\A c \in Block : x[c].ptrs = w[c].ptrs)
         /\ x[BITMAP].free = w[BITMAP].free
         /\ \A g \in Owners(w) : g # f => FileAt(x, g) = FileAt(w, g)
    BY <2>10, Sizes DEF PutFileIs
  <2>12. u = [y EXCEPT !.mem = x]
    BY <1>1, <1>3, <1>4, <1>6, <2>2, <2>3, <2>7, <2>9 DEF DropIndirect, PutFile, FileAt
  <2>13. MemIs(y, x, u)
    BY <2>4, <2>11, <2>12, MemPut
  <2>14. Owners(x) = Owners(v)
    <3>1. FileAt(x, Root) = FileAt(v, Root) /\ FileAt(v, Root) \in FileType
      BY <1>1, <1>2, <2>6, <2>11, RootType DEF SlotOk
    <3>2. FileAt(v, Root).indirect # 0 => FileAt(v, Root).indirect \in Block
      BY <3>1 DEF FileType, BlockNo
    <3>3. \A k : PtrAt(x, Root, k) = PtrAt(v, Root, k)
      BY <2>5, <2>11, <3>1, <3>2 DEF PtrAt, PtrIn
    <3>4. DirBlocks(x) = DirBlocks(v)
      BY <3>1, <3>3 DEF DirBlocks
    <3> QED BY <3>4 DEF Owners, Refs
  <2>15. x[BITMAP].free = v[BITMAP].free \cup ({ind} \ {0})
    BY <1>6, <2>5, <2>11
  <2>16. Dropped(v, x, f)
    BY <1>3, <2>5, <2>6, <2>8, <2>11, <2>14, <2>15 DEF Dropped
  <2> QED BY <1>1, <1>4, <2>4, <2>13, <2>16 DEF MemIs, StType
<1> QED BY <1>5, <1>6

\* Both together leave the file with its first blocks.
LEMMA CutIs ==
  ASSUME NEW m \in DiskType, Sound(m), NEW f \in Refs(m), NEW v, NEW x, NEW size \in Nat,
         size <= NDIRECT, Given(m, v, f, size, FileAt(m, f).size), Dropped(v, x, f)
  PROVE  Cut(m, x, f, size)
<1>1. f \in Owners(m) /\ Owners(v) = Owners(m) /\ v \in DiskType /\ x \in DiskType
  <2>1. Owners(v) = Owners(m)
    BY GivenSlots
  <2>2. v \in DiskType /\ x \in DiskType
    BY DEF Given, Dropped
  <2> QED BY <2>1, <2>2 DEF Owners
<1>2. f.b \in Block /\ f.j \in 1 .. BLKFILES /\ BlkIs(m, f) /\ FileAt(m, f).size \in Nat
      /\ FileAt(m, f).indirect \in BlockNo
  BY <1>1, SlotType, BlkForms DEF SlotOk, FileType
<1>3. BlkIs(v, f) /\ BlkIs(x, f)
  BY <1>1, <1>2, FileAtType
<1>4. FileAt(x, f).indirect = 0 /\ FileAt(v, f).indirect = FileAt(m, f).indirect
      /\ FileAt(x, f).direct = FileAt(v, f).direct
  BY DEF Dropped, Given
<1>5. \A k \in 0 .. MaxSize - 1 : k >= size => Blk(v, f, k) = 0
  <2>1. TAKE k \in 0 .. MaxSize - 1
  <2>2. HAVE k >= size
  <2>3. Blk(v, f, k) = IF size <= k /\ k < FileAt(m, f).size THEN 0 ELSE Blk(m, f, k)
    BY DEF Given
  <2>4. CASE k < FileAt(m, f).size
    BY <2>2, <2>3, <2>4, Sizes
  <2>5. CASE ~(k < FileAt(m, f).size)
    <3>1. k >= FileAt(m, f).size
      BY <1>2, <2>5, Sizes
    <3>2. Blk(m, f, k) = 0
      BY <1>1, <3>1, WithinIs DEF Sound
    <3> QED BY <2>3, <2>5, <3>2
  <2> QED BY <2>4, <2>5
<1>6. ASSUME NEW k \in 0 .. MaxSize - 1, k >= size
      PROVE  Blk(x, f, k) = 0
  <2>1. CASE k \in 0 .. NDIRECT - 1
    <3>1. Blk(x, f, k) = FileAt(x, f).direct[k] /\ Blk(v, f, k) = FileAt(v, f).direct[k]
      BY <1>3, <2>1, BlkParts
    <3> QED BY <1>4, <1>5, <1>6, <3>1
  <2>2. ASSUME NEW i \in 0 .. NINDIRECT - 1, k = NDIRECT + i PROVE Blk(x, f, k) = 0
    <3>1. Blk(x, f, NDIRECT + i) = 0
      BY <1>3, <1>4, BlkParts
    <3> QED BY <2>2, <3>1
  <2>3. k \in 0 .. MaxSize /\ k # MaxSize
    BY Sizes
  <2> QED BY <2>1, <2>2, <2>3, Ways
<1>7. Blk(x, f, MaxSize) = 0 /\ Blk(m, f, MaxSize) = FileAt(m, f).indirect /\ MaxSize \in 0 .. MaxSize
  BY <1>2, <1>3, <1>4, BlkParts, Sizes
<1>8. \A n \in 0 .. NDIRECT - 1 : FileAt(x, f).direct[n] \in {0, FileAt(m, f).direct[n]}
  <2>1. TAKE n \in 0 .. NDIRECT - 1
  <2>2. n \in 0 .. MaxSize - 1
    BY Sizes
  <2>3. Blk(v, f, n) \in {0, Blk(m, f, n)}
    BY <2>2 DEF Given
  <2>4. Blk(v, f, n) = FileAt(v, f).direct[n] /\ Blk(m, f, n) = FileAt(m, f).direct[n]
    BY <1>2, <1>3, BlkParts
  <2> QED BY <1>4, <2>3, <2>4
<1>9. ASSUME NEW z \in x[BITMAP].free, z \notin m[BITMAP].free
      PROVE  \E n \in 0 .. MaxSize : z # 0 /\ Blk(m, f, n) = z /\ Blk(x, f, n) = 0
  <2>1. z \in v[BITMAP].free \/ (z = FileAt(m, f).indirect /\ z # 0)
    BY <1>4 DEF Dropped
  <2>2. CASE z = FileAt(m, f).indirect /\ z # 0
    BY <1>7, <2>2
  <2>3. CASE z \in v[BITMAP].free
    <3>1. PICK k \in 0 .. MaxSize - 1 : size <= k /\ z # 0 /\ Blk(m, f, k) = z
      BY <1>9, <2>3 DEF Given
    <3>2. Blk(x, f, k) = 0 /\ k \in 0 .. MaxSize
      BY <1>6, <3>1, Sizes
    <3> QED BY <3>1, <3>2
  <2> QED BY <2>1, <2>2, <2>3
<1>10. \A g \in Owners(m) : g # f => FileAt(x, g) = FileAt(m, g)
  BY <1>1 DEF Given, Dropped
<1>11. \A c \in Block : c # FileAt(m, f).indirect => x[c].ptrs = m[c].ptrs
  BY DEF Given, Dropped
<1>12. m[BITMAP].free \subseteq x[BITMAP].free
  BY DEF Given, Dropped
<1>13. FileAt(x, f).name = FileAt(m, f).name /\ Owners(x) = Owners(m)
  BY <1>1 DEF Given, Dropped
<1> QED BY <1>1, <1>4, <1>6, <1>8, <1>9, <1>10, <1>11, <1>12, <1>13 DEF Cut

\* file_truncate_blocks to a size that direct blocks hold.
TruncPost(s, f, size, u) ==
  /\ u \in StType /\ u.disk = s.disk /\ u.todo = s.todo /\ Cut(s.mem, u.mem, f, size)

\* file_truncate_blocks writes nothing, and cuts the file.
LEMMA TruncateIs ==
  ASSUME NEW s \in StType, Sound(s.mem), NEW f \in Refs(s.mem), NEW size \in Nat,
         size <= NDIRECT, size <= FileAt(s.mem, f).size
  PROVE  /\ TruncPost(s, f, size, TruncateBlocks(s, f, size))
         /\ FileAt(TruncateBlocks(s, f, size).mem, f).indirect = 0
<1>1. PICK m : m = s.mem
  OBVIOUS
<1>2. m \in DiskType /\ Sound(m) /\ f \in Refs(m) /\ f \in Owners(m) /\ Placed(m)
  BY <1>1, SoundPlaced DEF StType, Owners
<1>3. FileAt(m, f).size \in Nat
  BY <1>2, SlotType DEF SlotOk, FileType
<1>4. PICK t : t = GiveUp(s, f, size, FileAt(m, f).size)
  OBVIOUS
<1>5. GivePost(m, s, t, f, size, FileAt(m, f).size)
  BY <1>1, <1>3, <1>4, GiveUpIs
<1>6. t \in StType /\ t.disk = s.disk /\ t.todo = s.todo /\ Given(m, t.mem, f, size, FileAt(m, f).size)
  BY <1>5 DEF GivePost
<1>7. PICK u : u = DropIndirect(t, f)
  OBVIOUS
<1>8. TruncateBlocks(s, f, size) = u
  BY <1>1, <1>4, <1>7 DEF TruncateBlocks
<1>9. f \in Owners(t.mem) /\ f # Root /\ Root \in Owners(t.mem)
  <2>1. f \in Owners(t.mem)
    BY <1>2, <1>6, GivenSlots
  <2> QED BY <1>2, <2>1 DEF Placed, Owners
<1>10. u \in StType /\ u.disk = t.disk /\ u.todo = t.todo /\ Dropped(t.mem, u.mem, f)
  BY <1>6, <1>7, <1>9, DropIndirectIs
<1>11. Cut(m, u.mem, f, size)
  BY <1>2, <1>6, <1>10, CutIs
<1>12. FileAt(u.mem, f).indirect = 0
  BY <1>10 DEF Dropped
<1> QED BY <1>1, <1>6, <1>8, <1>10, <1>11, <1>12 DEF TruncPost

-----------------------------------------------------------------------------
(* file_set_size and file_remove. *)

\* The struct File is written last.
LEMMA CutShrunk ==
  ASSUME NEW m \in DiskType, Sound(m), NEW f \in Refs(m), NEW v, NEW size \in Nat,
         Cut(m, v, f, size), NEW file \in FileType, NEW x, x = PutFile(v, f, file),
         file.size = size, file.direct = FileAt(v, f).direct,
         file.indirect = FileAt(v, f).indirect
  PROVE  x \in DiskType /\ FileAt(x, f) = file /\ Shrunk(m, x, f)
<1>1. v \in DiskType /\ f \in Owners(m) /\ f \in Owners(v) /\ Owners(v) = Owners(m)
  BY DEF Cut, Owners
<1>2. PutFileIs(v, f, file, x)
  BY <1>1, FilePut
<1>3. x \in DiskType /\ FileAt(x, f) = file /\ (\A c \in Block : x[c].ptrs = v[c].ptrs)
      /\ x[BITMAP].free = v[BITMAP].free
      /\ \A g \in Owners(v) : g # f => FileAt(x, g) = FileAt(v, g)
  BY <1>2, Sizes DEF PutFileIs
<1>4. file.indirect # 0 => file.indirect \in Block
  BY DEF FileType, BlockNo
<1>5. \A k : Blk(x, f, k) = Blk(v, f, k)
  BY <1>3, <1>4 DEF Blk, BlockIn, PtrIn
<1>6. \A g \in Owners(m) : g # f => FileAt(x, g) = FileAt(m, g)
  BY <1>1, <1>3 DEF Cut
<1>7. \A c \in Block : c # FileAt(m, f).indirect => x[c].ptrs = m[c].ptrs
  BY <1>3 DEF Cut
<1>8. FileAt(x, f).indirect \in {0, FileAt(m, f).indirect}
      /\ (FileAt(x, f).indirect # 0 =>
            x[FileAt(m, f).indirect].ptrs = m[FileAt(m, f).indirect].ptrs)
  <2>1. FileAt(x, f).indirect = FileAt(v, f).indirect
    BY <1>3
  <2>2. FileAt(v, f).indirect \in {0, FileAt(m, f).indirect}
        /\ (FileAt(v, f).indirect # 0 =>
              v[FileAt(m, f).indirect].ptrs = m[FileAt(m, f).indirect].ptrs)
    BY DEF Cut
  <2> QED BY <1>3, <1>4, <2>1, <2>2
<1>9. \A n \in 0 .. NDIRECT - 1 : FileAt(x, f).direct[n] \in {0, FileAt(m, f).direct[n]}
  BY <1>3 DEF Cut
<1>10. m[BITMAP].free \subseteq x[BITMAP].free
       /\ \A z \in x[BITMAP].free \ m[BITMAP].free :
            \E n \in 0 .. MaxSize : z # 0 /\ Blk(m, f, n) = z /\ Blk(x, f, n) = 0
  BY <1>3, <1>5 DEF Cut
<1>11. \A n \in 0 .. MaxSize - 1 : n >= FileAt(x, f).size => Blk(x, f, n) = 0
  BY <1>3, <1>5 DEF Cut
<1>12. Shrunk(m, x, f)
  BY <1>3, <1>6, <1>7, <1>8, <1>9, <1>10, <1>11 DEF Shrunk
<1> QED BY <1>3, <1>12

\* The cache x in place of that of t, and the block of f's struct File written.
LEMMA ShrinkFine ==
  ASSUME NEW d0, NEW s, Fine(d0, s), NEW f \in Refs(s.mem), NEW t \in StType, t.disk = s.disk,
         t.todo = s.todo, NEW x, Shrunk(s.mem, x, f), NEW u, u = [t EXCEPT !.mem = x]
  PROVE  Flushed(d0, u, f.b, FlushBlock(u, f.b)) /\ u.mem = x
         /\ Refs(x) = Refs(s.mem)
<1>1. s \in StType /\ Trail(d0, s.todo, s.disk) /\ Good(s.mem, s.disk)
  BY DEF Fine
<1>2. PICK m : m = s.mem
  OBVIOUS
<1>3. PICK d : d = s.disk
  OBVIOUS
<1>4. m \in DiskType /\ f \in Owners(m) /\ x \in DiskType
  BY <1>1, <1>2 DEF StType, Owners, Shrunk
<1>5. f.b \in Block
  BY <1>4, SlotType DEF SlotOk
<1>6. PICK e : e = [d EXCEPT ![f.b] = x[f.b]]
  OBVIOUS
<1>7. Good(x, e) /\ Refs(x) = Refs(m)
  BY <1>1, <1>2, <1>3, <1>6, GoodShrink
<1>8. MemIs(t, x, u)
  BY <1>4, MemPut
<1>9. u \in StType /\ u.mem = x /\ u.disk = d /\ Trail(d0, u.todo, u.disk)
  BY <1>1, <1>3, <1>8 DEF MemIs
<1>10. Good(u.mem, [u.disk EXCEPT ![f.b] = u.mem[f.b]])
  BY <1>6, <1>7, <1>9
<1>11. Flushed(d0, u, f.b, FlushBlock(u, f.b))
  BY <1>5, <1>9, <1>10, FlushIs
<1> QED BY <1>2, <1>7, <1>9, <1>11

\* An operation ends with a good trail, and no slot of the directory goes.
Keeps(d0, s, u) == Fine(d0, u) /\ Owners(s.mem) \subseteq Owners(u.mem)
SizePost(d0, s, f, size, u) ==
  Keeps(d0, s, u) /\ f \in Refs(u.mem) /\ FileAt(u.mem, f).size = size

\* file_set_size keeps the trail good, within what the direct blocks hold or
\* upwards.
LEMMA SetSizeIs ==
  ASSUME NEW d0, NEW s, Fine(d0, s), NEW f \in Refs(s.mem), NEW size \in Nat,
         size <= NDIRECT \/ size >= FileAt(s.mem, f).size
  PROVE  SizePost(d0, s, f, size, SetSize(s, f, size))
<1>1. PICK m : m = s.mem
  OBVIOUS
<1>2. s \in StType /\ m \in DiskType /\ Sound(m) /\ f \in Refs(m) /\ f \in Owners(m)
  BY <1>1 DEF Fine, Good, Owners
<1>3. FileAt(m, f) \in FileType /\ FileAt(m, f).size \in Nat /\ BlkIs(m, f)
  BY <1>2, SlotType, BlkForms DEF SlotOk, FileType
<1>4. PICK t : t = IF FileAt(m, f).size > size THEN TruncateBlocks(s, f, size) ELSE s
  OBVIOUS
<1>5. TruncPost(s, f, size, t)
  <2>1. CASE FileAt(m, f).size > size
    <3>1. size <= NDIRECT /\ size <= FileAt(m, f).size
      BY <1>1, <1>3, <2>1, Sizes
    <3> QED BY <1>1, <1>2, <1>4, <2>1, <3>1, TruncateIs
  <2>2. CASE ~(FileAt(m, f).size > size)
    <3>1. size >= FileAt(m, f).size
      BY <1>3, <2>2
    <3>2. ASSUME NEW n \in 0 .. MaxSize - 1, n >= size PROVE Blk(m, f, n) = 0
      <4>1. n >= FileAt(m, f).size
        BY <1>3, <3>1, <3>2, Sizes
      <4> QED BY <1>2, <4>1, WithinIs DEF Sound
    <3>3. Cut(m, m, f, size)
      BY <1>2, <3>2 DEF Cut
    <3> QED BY <1>1, <1>2, <1>4, <2>2, <3>3 DEF TruncPost
  <2> QED BY <2>1, <2>2
<1>6. t \in StType /\ t.disk = s.disk /\ t.todo = s.todo /\ Cut(m, t.mem, f, size)
  BY <1>1, <1>5 DEF TruncPost
<1>7. PICK v : v = t.mem
  OBVIOUS
<1>8. v \in DiskType /\ FileAt(v, f) \in FileType
  <2>1. f.b \in Block /\ f.j \in 1 .. BLKFILES
    BY <1>2, SlotType DEF SlotOk
  <2>2. v \in DiskType
    BY <1>6, <1>7 DEF Cut
  <2> QED BY <1>6, <1>7, <2>1, <2>2, FileAtType DEF Cut
<1>9. PICK file : file = [FileAt(v, f) EXCEPT !.size = size]
  OBVIOUS
<1>10. file \in FileType /\ file.size = size /\ file.direct = FileAt(v, f).direct
       /\ file.indirect = FileAt(v, f).indirect
  BY <1>8, <1>9 DEF FileType
<1>11. PICK x : x = PutFile(v, f, file)
  OBVIOUS
<1>12. x \in DiskType /\ FileAt(x, f) = file /\ Shrunk(m, x, f)
  BY <1>2, <1>6, <1>7, <1>10, <1>11, CutShrunk
<1>13. PICK u : u = [t EXCEPT !.mem[f.b].files[f.j].size = size]
  OBVIOUS
<1>14. u = [t EXCEPT !.mem = x]
  BY <1>7, <1>9, <1>11, <1>13 DEF PutFile, FileAt
<1>15. Flushed(d0, u, f.b, FlushBlock(u, f.b)) /\ u.mem = x /\ Refs(x) = Refs(m)
  BY <1>1, <1>2, <1>6, <1>12, <1>14, ShrinkFine
<1>16. SetSize(s, f, size) = FlushBlock(u, f.b)
  BY <1>1, <1>4, <1>13 DEF SetSize
<1> QED BY <1>1, <1>2, <1>10, <1>12, <1>15, <1>16 DEF SizePost, Keeps, Flushed, Owners

\* The second of two changes of a slot counts.
LEMMA PutTwice ==
  ASSUME NEW m \in DiskType, NEW f \in Owners(m), NEW old \in FileType, NEW file \in FileType
  PROVE  PutFile(PutFile(m, f, old), f, file) = PutFile(m, f, file)
<1>1. f.b \in Block /\ f.j \in 1 .. BLKFILES
  BY SlotType DEF SlotOk
<1>2. m[f.b] \in BlockType /\ m[f.b].files \in [1 .. BLKFILES -> FileType]
  BY <1>1 DEF DiskType, BlockType
<1>3. PICK fs : fs = [m[f.b].files EXCEPT ![f.j] = old]
  OBVIOUS
<1>4. PICK gs : gs = [m[f.b].files EXCEPT ![f.j] = file]
  OBVIOUS
<1>5. gs = [fs EXCEPT ![f.j] = file]
  BY <1>1, <1>2, <1>3, <1>4
<1>6. PICK x : x = [m[f.b] EXCEPT !.files = fs]
  OBVIOUS
<1>7. PICK y : y = [m[f.b] EXCEPT !.files = gs]
  OBVIOUS
<1>8. x.files = fs /\ y = [x EXCEPT !.files = gs]
  BY <1>2, <1>6, <1>7 DEF BlockType
<1>9. PICK w : w = [m EXCEPT ![f.b] = x]
  OBVIOUS
<1>10. w[f.b] = x /\ [w EXCEPT ![f.b] = y] = [m EXCEPT ![f.b] = y]
  BY <1>1, <1>9 DEF DiskType
<1>11. PutFile(m, f, old) = w /\ PutFile(m, f, file) = [m EXCEPT ![f.b] = y]
  BY <1>3, <1>4, <1>6, <1>7, <1>9 DEF PutFile
<1>12. PutFile(w, f, file) = [w EXCEPT ![f.b] = y]
  BY <1>5, <1>8, <1>10 DEF PutFile
<1> QED BY <1>10, <1>11, <1>12

\* file_remove of the slot that was found.
LEMMA RemovedIs ==
  ASSUME NEW d0, NEW r, Fine(d0, r.s), r.ok => r.f = NoRef \/ r.f \in Refs(r.s.mem)
  PROVE  Keeps(d0, r.s, Removed(r).s)
<1>1. CASE ~r.ok \/ r.f = NoRef
  BY <1>1 DEF Removed, Fail, Keeps
<1>2. CASE r.ok /\ r.f # NoRef
  <2>1. PICK s : s = r.s
    OBVIOUS
  <2>2. PICK m : m = s.mem
    OBVIOUS
  <2>3. PICK f : f = r.f
    OBVIOUS
  <2>4. Fine(d0, s) /\ s \in StType /\ m \in DiskType /\ Sound(m) /\ f \in Refs(m) /\ f \in Owners(m)
    BY <1>2, <2>1, <2>2, <2>3 DEF Fine, Good, Owners
  <2>5. PICK t : t = TruncateBlocks(s, f, 0)
    OBVIOUS
  <2>6. TruncPost(s, f, 0, t) /\ FileAt(t.mem, f).indirect = 0
    <3>1. 0 <= NDIRECT /\ 0 <= FileAt(m, f).size
      BY <2>4, SlotType, Sizes DEF SlotOk, FileType
    <3> QED BY <2>2, <2>4, <2>5, <3>1, TruncateIs
  <2>7. PICK v : v = t.mem
    OBVIOUS
  <2>8. t \in StType /\ t.disk = s.disk /\ t.todo = s.todo /\ Cut(m, v, f, 0)
        /\ FileAt(v, f).indirect = 0
    BY <2>2, <2>6, <2>7 DEF TruncPost
  <2>9. v \in DiskType /\ FileAt(v, f) \in FileType
    <3>1. f.b \in Block /\ f.j \in 1 .. BLKFILES
      BY <2>4, SlotType DEF SlotOk
    <3>2. v \in DiskType
      BY <2>8 DEF Cut
    <3> QED BY <3>1, <3>2, FileAtType
  <2>10. PICK file : file = [FileAt(v, f) EXCEPT !.name = NoName, !.size = 0]
    OBVIOUS
  <2>11. file \in FileType /\ file.size = 0 /\ file.direct = FileAt(v, f).direct
         /\ file.indirect = FileAt(v, f).indirect
    BY <2>9, <2>10 DEF FileType
  <2>12. PICK x : x = PutFile(v, f, file)
    OBVIOUS
  <2>13. x \in DiskType /\ Shrunk(m, x, f)
    BY <2>4, <2>8, <2>11, <2>12, CutShrunk
  <2>14. PICK u : u = [t EXCEPT !.mem[f.b].files[f.j].name = NoName,
                                !.mem[f.b].files[f.j].size = 0]
    OBVIOUS
  <2>15. u = [t EXCEPT !.mem = x]
    <3>1. f.b \in Block /\ f.j \in 1 .. BLKFILES /\ v[f.b] \in BlockType
      BY <2>4, <2>9, SlotType DEF SlotOk, DiskType
    <3>2. PICK y : y = PutFile(v, f, [FileAt(v, f) EXCEPT !.name = NoName])
      OBVIOUS
    <3>3. u = [[t EXCEPT !.mem = y] EXCEPT !.mem[f.b].files[f.j].size = 0]
      BY <2>7, <2>14, <3>2 DEF PutFile, FileAt
    <3>4. u = [t EXCEPT !.mem = [y EXCEPT ![f.b].files[f.j].size = 0]]
      BY <2>8, <3>3 DEF StType
    <3>5. [y EXCEPT ![f.b].files[f.j].size = 0] = x
      <4>1. PICK old : old = [FileAt(v, f) EXCEPT !.name = NoName]
        OBVIOUS
      <4>2. old \in FileType /\ file = [old EXCEPT !.size = 0]
        BY <2>9, <2>10, <4>1 DEF FileType
      <4>3. f \in Owners(v)
        BY <2>4, <2>8 DEF Cut
      <4>4. FileAt(y, f) = old
        BY <2>9, <3>2, <4>1, <4>2, <4>3, FilePut DEF PutFileIs
      <4>5. [y EXCEPT ![f.b].files[f.j].size = 0] = PutFile(y, f, file)
        BY <4>2, <4>4 DEF PutFile, FileAt
      <4> QED BY <2>9, <2>11, <2>12, <3>2, <4>1, <4>2, <4>3, <4>5, PutTwice
    <3> QED BY <3>4, <3>5
  <2>16. Flushed(d0, u, f.b, FlushBlock(u, f.b)) /\ u.mem = x /\ Refs(x) = Refs(m)
    BY <2>2, <2>4, <2>8, <2>13, <2>15, ShrinkFine
  <2>17. Removed(r) = [s |-> FlushBlock(u, f.b), ok |-> TRUE]
    BY <1>2, <2>1, <2>3, <2>5, <2>14 DEF Removed, Ok
  <2> QED BY <2>1, <2>2, <2>16, <2>17 DEF Flushed, Keeps, Owners
<1> QED BY <1>1, <1>2

-----------------------------------------------------------------------------
(* file_create and file_write. *)

\* A struct File with the same numbers.
Labelled(m, f, file, w) ==
  /\ w \in DiskType /\ FileAt(w, f) = file
  /\ \A g \in Owners(m) : g # f => FileAt(w, g) = FileAt(m, g)
  /\ \A g \in Owners(m) : \A n : Blk(w, g, n) = Blk(m, g, n) /\ PtrAt(w, g, n) = PtrAt(m, g, n)
  /\ \A b \in Block : w[b].ptrs = m[b].ptrs
  /\ w[BITMAP].free = m[BITMAP].free

\* Naming a slot changes no number.
LEMMA LabelPut ==
  ASSUME NEW m \in DiskType, NEW f \in Owners(m), NEW file \in FileType,
         file.direct = FileAt(m, f).direct, file.indirect = FileAt(m, f).indirect
  PROVE  Labelled(m, f, file, PutFile(m, f, file))
<1>1. PICK w : w = PutFile(m, f, file)
  OBVIOUS
<1>2. PutFileIs(m, f, file, w)
  BY <1>1, FilePut
<1>3. w \in DiskType /\ FileAt(w, f) = file /\ (\A b \in Block : w[b].ptrs = m[b].ptrs)
      /\ w[BITMAP].free = m[BITMAP].free
      /\ \A g \in Owners(m) : g # f => FileAt(w, g) = FileAt(m, g)
  BY <1>2, Sizes DEF PutFileIs
<1>4. ASSUME NEW g \in Owners(m), NEW n
      PROVE  Blk(w, g, n) = Blk(m, g, n) /\ PtrAt(w, g, n) = PtrAt(m, g, n)
  <2>1. FileAt(w, g).direct = FileAt(m, g).direct /\ FileAt(w, g).indirect = FileAt(m, g).indirect
    BY <1>3
  <2>2. FileAt(m, g).indirect # 0 => FileAt(m, g).indirect \in Block
    BY SlotType DEF SlotOk, FileType, BlockNo
  <2> QED BY <1>3, <2>1, <2>2 DEF Blk, PtrAt, BlockIn, PtrIn
<1>5. Labelled(m, f, file, w)
  BY <1>3, <1>4 DEF Labelled
<1> QED BY <1>1, <1>5

\* Another cache that the disk is part of.
LEMMA FinePut ==
  ASSUME NEW d0, NEW s, Fine(d0, s), NEW v, Good(v, s.disk), NEW t, t = [s EXCEPT !.mem = v]
  PROVE  Fine(d0, t) /\ t.mem = v
<1>1. s \in StType /\ v \in DiskType /\ Trail(d0, s.todo, s.disk)
  BY DEF Fine, Good
<1>2. MemIs(s, v, t)
  BY <1>1, MemPut
<1> QED BY <1>1, <1>2 DEF MemIs, Fine

\* The root grows by a block that is not yet there.
LEMMA RootGrows ==
  ASSUME NEW m, NEW d, Good(m, d), NEW file, NEW v,
         file = [FileAt(m, Root) EXCEPT !.size = @ + 1], v = PutFile(m, Root, file)
  PROVE  /\ Good(v, d) /\ Owners(v) = Owners(m)
         /\ FileAt(v, Root).size = FileAt(m, Root).size + 1
         /\ \A n : PtrAt(v, Root, n) = PtrAt(m, Root, n)
<1>1. m \in DiskType /\ Sound(m) /\ Placed(m) /\ Root \in Owners(m)
  BY SoundPlaced, IsRoot DEF Good, RootIs
<1>2. FileAt(m, Root) \in FileType /\ FileAt(m, Root).size \in Nat
  BY <1>1, SlotType DEF SlotOk, FileType
<1>3. file \in FileType /\ file.size = FileAt(m, Root).size + 1
      /\ file.direct = FileAt(m, Root).direct /\ file.indirect = FileAt(m, Root).indirect
  BY <1>2 DEF FileType
<1>4. Labelled(m, Root, file, v)
  BY <1>1, <1>3, LabelPut
<1>5. \A f \in Refs(m) : FileAt(v, f) = FileAt(m, f)
  BY <1>1, <1>4 DEF Labelled, Placed, Owners
<1>6. FileAt(v, Root) = file /\ FileAt(v, Root).size >= FileAt(m, Root).size
  <2>1. FileAt(v, Root) = file
    BY <1>4 DEF Labelled
  <2>2. file.size >= FileAt(m, Root).size
    BY <1>2, <1>3
  <2> QED BY <2>1, <2>2
<1>7. \A f \in Owners(m) : FileAt(v, f).direct = FileAt(m, f).direct
                           /\ FileAt(v, f).indirect = FileAt(m, f).indirect
  BY <1>3, <1>5, <1>6 DEF Owners
<1>8. Relabelled(m, v)
  BY <1>4, <1>5, <1>6, <1>7 DEF Relabelled, Labelled
<1>9. Good(v, d) /\ Owners(v) = Owners(m)
  BY <1>8, GoodLabels
<1> QED BY <1>1, <1>3, <1>4, <1>6, <1>9 DEF Labelled

\* A slot gets a name, whatever it holds.
LEMMA SlotNamed ==
  ASSUME NEW m, NEW d, Good(m, d), NEW f \in Refs(m), NEW name \in Name,
         NEW file, NEW v, file = [FileAt(m, f) EXCEPT !.name = name], v = PutFile(m, f, file)
  PROVE  Good(v, d) /\ Owners(v) = Owners(m)
<1>1. m \in DiskType /\ Sound(m) /\ Placed(m) /\ Root \in Owners(m) /\ f \in Owners(m) /\ f # Root
  BY SoundPlaced, IsRoot DEF Good, RootIs, Owners, Placed
<1>2. FileAt(m, f) \in FileType /\ FileAt(m, Root) \in FileType
  BY <1>1, SlotType DEF SlotOk
<1>3. file \in FileType /\ file.size = FileAt(m, f).size
      /\ file.direct = FileAt(m, f).direct /\ file.indirect = FileAt(m, f).indirect
  BY <1>2 DEF FileType
<1>4. Labelled(m, f, file, v)
  BY <1>1, <1>3, LabelPut
<1>5. FileAt(v, f) = file /\ \A g \in Owners(m) : g # f => FileAt(v, g) = FileAt(m, g)
  BY <1>4 DEF Labelled
<1>6. FileAt(v, Root) = FileAt(m, Root) /\ FileAt(v, Root).size >= FileAt(m, Root).size
  <2>1. FileAt(m, Root).size \in Nat
    BY <1>2 DEF FileType
  <2> QED BY <1>1, <1>5, <2>1
<1>7. \A g \in Owners(m) : FileAt(v, g).direct = FileAt(m, g).direct
                           /\ FileAt(v, g).indirect = FileAt(m, g).indirect
                           /\ FileAt(v, g).size = FileAt(m, g).size
  BY <1>3, <1>5
<1>8. Relabelled(m, v)
  <2>1. \A g \in Refs(m) : FileAt(v, g).size = FileAt(m, g).size
    BY <1>7 DEF Owners
  <2>2. v \in DiskType /\ (\A b \in Block : v[b].ptrs = m[b].ptrs)
        /\ v[BITMAP].free = m[BITMAP].free
    BY <1>4 DEF Labelled
  <2>3. \A g \in Owners(m) : \A n : Blk(v, g, n) = Blk(m, g, n) /\ PtrAt(v, g, n) = PtrAt(m, g, n)
    BY <1>4 DEF Labelled
  <2>4. \A g \in Owners(m) : FileAt(v, g).direct = FileAt(m, g).direct
                             /\ FileAt(v, g).indirect = FileAt(m, g).indirect
    BY <1>7
  <2>5. FileAt(v, Root).size >= FileAt(m, Root).size
    BY <1>6
  <2> QED BY ONLY <2>1, <2>2, <2>3, <2>4, <2>5, Zenon DEF Relabelled
<1> QED BY <1>8, GoodLabels

SlotPost(d0, s, a) ==
  Keeps(d0, s, a.s) /\ (a.ok => a.f \in Refs(a.s.mem))

\* dir_alloc_file, when it succeeds, gives a slot of the directory.
LEMMA DirAllocFileIs ==
  ASSUME NEW d0, NEW s, Fine(d0, s)
  PROVE  SlotPost(d0, s, DirAllocFile(s))
<1>1. PICK r : r = DirFind(s, NoName)
  OBVIOUS
<1>2. Searched(d0, s, NoName, r)
  BY <1>1, DirFindIs
<1>3. PICK n : n = FileAt(s.mem, Root).size
  OBVIOUS
<1>4. DirAllocFile(s) = FreeSlot(r, n)
  BY <1>1, <1>3 DEF DirAllocFile
<1>5. CASE ~r.ok \/ r.f # NoRef
  <2>1. FreeSlot(r, n) = r
    BY <1>5 DEF FreeSlot
  <2> QED BY <1>2, <1>4, <1>5, <2>1 DEF SlotPost, Keeps, Searched
<1>6. CASE r.ok /\ r.f = NoRef
  <2>1. PICK x : x = r.s
    OBVIOUS
  <2>2. PICK m : m = x.mem
    OBVIOUS
  <2>3. Fine(d0, x) /\ x \in StType /\ Good(m, x.disk) /\ m \in DiskType /\ Sound(m)
        /\ FileAt(m, Root).size = n /\ Owners(s.mem) \subseteq Owners(m)
    BY <1>2, <1>3, <2>1, <2>2 DEF Searched, Fine, Good
  <2>4. n \in Nat
    BY <2>3, RootType DEF SlotOk, FileType
  <2>5. PICK file : file = [FileAt(m, Root) EXCEPT !.size = @ + 1]
    OBVIOUS
  <2>6. PICK v : v = PutFile(m, Root, file)
    OBVIOUS
  <2>7. Good(v, x.disk) /\ Owners(v) = Owners(m) /\ FileAt(v, Root).size = n + 1
        /\ \A k : PtrAt(v, Root, k) = PtrAt(m, Root, k)
    BY <2>3, <2>5, <2>6, RootGrows
  <2>8. PICK t : t = [x EXCEPT !.mem[SUPER].files[1].size = @ + 1]
    OBVIOUS
  <2>9. t = [x EXCEPT !.mem = v]
    BY <2>2, <2>5, <2>6, <2>8, IsRoot DEF PutFile, FileAt, RootIs
  <2>10. Fine(d0, t) /\ t.mem = v
    BY <2>3, <2>7, <2>9, FinePut
  <2>11. PICK g : g = GetBlock(t, Root, n)
    OBVIOUS
  <2>12. GetPost(d0, t, Root, n, g)
    <3>1. Root \in Owners(t.mem) /\ n < FileAt(t.mem, Root).size
      BY <2>4, <2>7, <2>10, OwnersAre
    <3> QED BY <2>4, <2>10, <2>11, <3>1, GetBlockIs
  <2>13. PICK a : a = FreeSlot(r, n)
    OBVIOUS
  <2>14. a = [s |-> g.s, ok |-> g.ok, f |-> [b |-> PtrAt(g.s.mem, Root, n), j |-> 1]]
    BY <1>6, <2>1, <2>8, <2>11, <2>13 DEF FreeSlot, Grown
  <2>15. Keeps(d0, s, g.s)
    BY <2>3, <2>7, <2>10, <2>12 DEF Keeps, GetPost
  <2>16. CASE ~g.ok
    BY <1>4, <2>13, <2>14, <2>15, <2>16 DEF SlotPost
  <2>17. CASE g.ok
    <3>1. PICK w : w = g.s.mem
      OBVIOUS
    <3>2. PICK b : b = PtrAt(w, Root, n)
      OBVIOUS
    <3>3. b # 0 /\ FileAt(w, Root).size = n + 1 /\ w \in DiskType
      BY <2>7, <2>10, <2>12, <2>17, <3>1, <3>2 DEF GetPost, Fine, Good
    <3>4. b \in DirBlocks(w)
      <4>1. n < FileAt(w, Root).size
        BY <2>4, <3>3
      <4> QED BY <2>4, <3>2, <3>3, <4>1, DirBlockIs
    <3>5. PICK f : f = [b |-> b, j |-> 1]
      OBVIOUS
    <3>6. f \in Refs(w)
      BY <3>4, <3>5, Sizes DEF Refs
    <3>7. a.s = g.s /\ a.f = f
      BY <2>14, <3>1, <3>2, <3>5
    <3> QED BY <1>4, <2>13, <2>15, <3>1, <3>6, <3>7 DEF SlotPost
  <2> QED BY <2>16, <2>17
<1> QED BY <1>5, <1>6

\* The slot gets its name, and the root is flushed.
LEMMA NamedIs ==
  ASSUME NEW d0, NEW s, NEW a, SlotPost(d0, s, a), NEW name \in Name
  PROVE  Keeps(d0, s, Named(a, name).s)
<1>1. CASE ~a.ok
  BY <1>1 DEF Named, Fail, SlotPost
<1>2. CASE a.ok
  <2>1. PICK x : x = a.s
    OBVIOUS
  <2>2. PICK m : m = x.mem
    OBVIOUS
  <2>3. PICK f : f = a.f
    OBVIOUS
  <2>4. Fine(d0, x) /\ Good(m, x.disk) /\ f \in Refs(m) /\ Owners(s.mem) \subseteq Owners(m)
    BY <1>2, <2>1, <2>2, <2>3 DEF SlotPost, Keeps, Fine
  <2>5. PICK file : file = [FileAt(m, f) EXCEPT !.name = name]
    OBVIOUS
  <2>6. PICK v : v = PutFile(m, f, file)
    OBVIOUS
  <2>7. Good(v, x.disk) /\ Owners(v) = Owners(m)
    BY <2>4, <2>5, <2>6, SlotNamed
  <2>8. PICK t : t = [x EXCEPT !.mem[f.b].files[f.j].name = name]
    OBVIOUS
  <2>9. t = [x EXCEPT !.mem = v]
    BY <2>2, <2>5, <2>6, <2>8 DEF PutFile, FileAt
  <2>10. Fine(d0, t) /\ t.mem = v
    BY <2>4, <2>7, <2>9, FinePut
  <2>11. Fine(d0, FileFlush(t, Root)) /\ FileFlush(t, Root).mem = v
    BY <2>10, FileFlushIs, OwnersAre DEF Written
  <2>12. Named(a, name) = [s |-> FileFlush(t, Root), ok |-> TRUE]
    BY <1>2, <2>1, <2>3, <2>8 DEF Named, Ok
  <2> QED BY <2>4, <2>7, <2>11, <2>12 DEF Keeps
<1> QED BY <1>1, <1>2

\* file_create keeps the trail good, whatever it returns.
LEMMA FileCreateIs ==
  ASSUME NEW d0, NEW s, Fine(d0, s), NEW name \in Name
  PROVE  Keeps(d0, s, FileCreate(s, name).s)
<1>1. PICK r : r = DirFind(s, name)
  OBVIOUS
<1>2. Keeps(d0, s, r.s)
  BY <1>1, DirFindIs DEF Searched, Keeps
<1>3. FileCreate(s, name) = NewName(r, name)
  BY <1>1 DEF FileCreate
<1>4. CASE ~r.ok \/ r.f # NoRef
  BY <1>2, <1>3, <1>4 DEF NewName, Fail
<1>5. CASE r.ok /\ r.f = NoRef
  <2>1. PICK a : a = DirAllocFile(r.s)
    OBVIOUS
  <2>2. SlotPost(d0, r.s, a)
    BY <1>2, <2>1, DirAllocFileIs DEF Keeps
  <2>3. Keeps(d0, r.s, Named(a, name).s)
    BY <2>2, NamedIs
  <2> QED BY <1>2, <1>3, <1>5, <2>1, <2>3 DEF NewName, Keeps
<1> QED BY <1>4, <1>5

\* file_remove keeps the trail good, whatever it returns.
LEMMA FileRemoveIs ==
  ASSUME NEW d0, NEW s, Fine(d0, s), NEW name \in Name
  PROVE  Keeps(d0, s, FileRemove(s, name).s)
<1>1. PICK r : r = DirFind(s, name)
  OBVIOUS
<1>2. Searched(d0, s, name, r)
  BY <1>1, DirFindIs
<1>3. Fine(d0, r.s) /\ (r.f # NoRef => r.f \in Refs(r.s.mem)) /\ Owners(s.mem) \subseteq Owners(r.s.mem)
  BY <1>2 DEF Searched
<1>4. Keeps(d0, r.s, Removed(r).s)
  BY <1>3, RemovedIs
<1> QED BY <1>1, <1>3, <1>4 DEF FileRemove, Keeps

\* The bytes of file_write go to a block of data.
LEMMA StoredIs ==
  ASSUME NEW d0, NEW s, NEW f, NEW n \in Nat, NEW g, GetPost(d0, s, f, n, g), f \in Owners(s.mem),
         NEW val \in Val
  PROVE  Keeps(d0, s, Stored(g, f, n, val).s)
<1>1. CASE ~g.ok
  BY <1>1 DEF Stored, GetPost, Keeps
<1>2. CASE g.ok
  <2>1. PICK x : x = g.s
    OBVIOUS
  <2>2. PICK m : m = x.mem
    OBVIOUS
  <2>3. PICK b : b = PtrAt(m, f, n)
    OBVIOUS
  <2>4. Fine(d0, x) /\ Good(m, x.disk) /\ b # 0 /\ m \in DiskType /\ f \in Owners(m)
        /\ Owners(s.mem) \subseteq Owners(m)
    BY <1>2, <2>1, <2>2, <2>3 DEF GetPost, Fine, Good
  <2>5. b \in Block
    <3>1. FileAt(m, f) \in FileType
      BY <2>4, SlotType DEF SlotOk
    <3>2. b \in BlockNo
      BY <2>3, <2>4, <3>1, PtrType DEF PtrAt
    <3> QED BY <2>4, <3>2 DEF BlockNo
  <2>6. m[b] \in BlockType
    BY <2>4, <2>5 DEF DiskType
  <2>7. PICK y : y = [m[b] EXCEPT !.data = val]
    OBVIOUS
  <2>8. y \in BlockType /\ y.files = m[b].files /\ y.ptrs = m[b].ptrs /\ y.free = m[b].free
    BY <2>6, <2>7 DEF BlockType
  <2>9. PICK v : v = [m EXCEPT ![b] = y]
    OBVIOUS
  <2>10. v \in DiskType /\ v[b] = y /\ \A c \in Block : c # b => v[c] = m[c]
    BY <2>4, <2>5, <2>8, <2>9 DEF DiskType
  <2>11. Alike(m, v) /\ v[BITMAP].free = m[BITMAP].free
    BY <2>8, <2>10, Sizes DEF Alike
  <2>12. Good(v, x.disk)
    BY <2>4, <2>11, GoodData
  <2>13. PICK t : t = [x EXCEPT !.mem[b].data = val]
    OBVIOUS
  <2>14. t = [x EXCEPT !.mem = v]
    BY <2>2, <2>7, <2>9, <2>13
  <2>15. Fine(d0, t) /\ t.mem = v /\ Owners(v) = Owners(m)
    BY <2>4, <2>11, <2>12, <2>14, FinePut, AlikeSame DEF Same
  <2>16. Stored(g, f, n, val) = [s |-> t, ok |-> TRUE]
    BY <1>2, <2>1, <2>2, <2>3, <2>13 DEF Stored, Ok
  <2> QED BY <2>4, <2>15, <2>16 DEF Keeps
<1> QED BY <1>1, <1>2

\* file_write keeps the trail good, whatever it returns.
LEMMA FileWriteIs ==
  ASSUME NEW d0, NEW s, Fine(d0, s), NEW f \in Refs(s.mem), NEW n \in Nat, NEW val \in Val
  PROVE  Keeps(d0, s, FileWrite(s, f, n, val).s)
<1>1. PICK m : m = s.mem
  OBVIOUS
<1>2. FileAt(m, f).size \in Nat
  <2>1. m \in DiskType /\ f \in Owners(m)
    BY <1>1 DEF Fine, Good, Owners
  <2> QED BY <2>1, SlotType DEF SlotOk, FileType
<1>3. PICK t : t = IF n + 1 > FileAt(m, f).size THEN SetSize(s, f, n + 1) ELSE s
  OBVIOUS
<1>4. Keeps(d0, s, t) /\ f \in Refs(t.mem) /\ n < FileAt(t.mem, f).size
  <2>1. CASE n + 1 > FileAt(m, f).size
    <3>1. PICK size : size = n + 1
      OBVIOUS
    <3>2. size \in Nat /\ size >= FileAt(m, f).size /\ n < size
      BY <1>2, <2>1, <3>1
    <3>3. SizePost(d0, s, f, size, SetSize(s, f, size))
      BY <1>1, <3>2, SetSizeIs
    <3> QED BY <1>3, <2>1, <3>1, <3>2, <3>3 DEF SizePost
  <2>2. CASE ~(n + 1 > FileAt(m, f).size)
    <3>1. n < FileAt(m, f).size
      BY <1>2, <2>2
    <3> QED BY <1>1, <1>3, <2>2, <3>1 DEF Keeps
  <2> QED BY <2>1, <2>2
<1>5. f \in Owners(t.mem)
  BY <1>4 DEF Owners
<1>6. GetPost(d0, t, f, n, GetBlock(t, f, n))
  BY <1>4, <1>5, GetBlockIs DEF Keeps
<1>7. Keeps(d0, t, Stored(GetBlock(t, f, n), f, n, val).s)
  BY <1>5, <1>6, StoredIs
<1>8. FileWrite(s, f, n, val) = Stored(GetBlock(t, f, n), f, n, val)
  BY <1>1, <1>3 DEF FileWrite
<1> QED BY <1>4, <1>7, <1>8 DEF Keeps

-----------------------------------------------------------------------------
(* The inductive invariant: a trail of good disks starts at the disk and  *)
(* ends where the writes under way are done.  What a disk must satisfy to *)
(* be good is asked of every slot, named or not: a client may go on with  *)
(* a file that has been removed.                                          *)

IInv ==
  /\ mem \in DiskType /\ disk \in DiskType /\ todo \in Seq(WriteType)
  /\ \E d : Good(mem, d) /\ Trail(disk, todo, d)
  /\ gone \subseteq Refs(mem)    \* a removed file keeps its slot

\* Between two operations the server is where an operation may start.
LEMMA StateFine ==
  ASSUME IInv, todo = << >>
  PROVE  Fine(disk, State) /\ State.mem = mem
<1>1. PICK d : Good(mem, d) /\ Trail(disk, todo, d)
  BY DEF IInv
<1>2. d = disk
  BY <1>1, TrailEnds DEF IInv
<1>3. Trail(disk, << >>, disk) /\ Good(mem, disk)
  BY <1>1, <1>2
<1>4. State \in StType
  BY DEF State, StType, IInv
<1> QED BY <1>3, <1>4 DEF State, Fine

\* Whatever an operation asks for, every disk on the way is good.
LEMMA StartKeeps ==
  ASSUME IInv, NEW s, Fine(disk, s), Owners(mem) \subseteq Owners(s.mem),
         mem' = s.mem, todo' = s.todo, disk' = disk,
         gone' = (gone \cup Files(mem)) \ Files(s.mem)
  PROVE  IInv'
<1>1. s \in StType /\ Good(s.mem, s.disk) /\ Trail(disk, s.todo, s.disk)
  BY DEF Fine
<1>2. mem' \in DiskType /\ todo' \in Seq(WriteType) /\ disk' \in DiskType
  BY <1>1 DEF StType, IInv
<1>3. \E d : Good(mem', d) /\ Trail(disk', todo', d)
  BY <1>1
<1>4. Refs(mem) \subseteq Refs(s.mem)
  <2>1. Root \notin Refs(mem)
    <3>1. mem \in DiskType /\ Sound(mem)
      BY DEF IInv, Good
    <3> QED BY <3>1, SoundPlaced DEF Placed
  <2> QED BY <2>1 DEF Owners
<1>5. gone' \subseteq Refs(mem')
  BY <1>4 DEF IInv, Files
<1> QED BY <1>2, <1>3, <1>5 DEF IInv

\* The disk that fsformat makes is good.
LEMMA InitIInv == Init => IInv
<1> SUFFICES ASSUME Init PROVE IInv
  OBVIOUS
<1>1. PICK m : m = mem
  OBVIOUS
<1>2. PICK bits : bits = [ZeroBlock EXCEPT !.free = 3 .. NBLOCKS - 1]
  OBVIOUS
<1>3. bits \in BlockType /\ bits.free = 3 .. NBLOCKS - 1 /\ bits.files = ZeroBlock.files
  BY <1>2, ZeroFile, DiskAssumption DEF BlockType, Block
<1>4. m = [b \in Block |-> IF b = BITMAP THEN bits ELSE ZeroBlock]
  BY <1>1, <1>2 DEF Init
<1>5. m \in DiskType
  BY <1>3, <1>4, ZeroFile DEF DiskType
<1>6. m[SUPER] = ZeroBlock /\ m[BITMAP] = bits
  BY <1>4, Sizes
<1>7. FileAt(m, Root) = NewFile
  BY <1>6, ZeroFile, Sizes, IsRoot DEF FileAt, RootIs
<1>8. NewFile.size = 0 /\ NewFile.indirect = 0 /\ \A n \in 0 .. NDIRECT - 1 : NewFile.direct[n] = 0
  BY ZeroFile DEF Empty
<1>9. BlkIs(m, Root)
  BY <1>5, RootType, BlkForms DEF SlotOk
<1>10. DirBlocks(m) = {}
  <2>1. FileAt(m, Root).size = 0
    BY <1>7, <1>8
  <2>2. \A n \in Nat : ~(n < 0)
    OBVIOUS
  <2>3. \A b \in DirBlocks(m) : FALSE
    <3>1. \A b \in DirBlocks(m) : \E n \in 0 .. MaxSize - 1 : n < FileAt(m, Root).size
      BY <1>5, DirBlockIs
    <3>2. \A n \in 0 .. MaxSize - 1 : ~(n < 0)
      BY Sizes
    <3> QED BY <2>1, <3>1, <3>2
  <2> QED BY <2>3
<1>11. Refs(m) = {} /\ Owners(m) = {Root}
  BY <1>10 DEF Refs, Owners
<1>12. \A n \in 0 .. MaxSize : Blk(m, Root, n) = 0
  <2>1. ASSUME NEW n \in 0 .. NDIRECT - 1 PROVE Blk(m, Root, n) = 0
    BY <1>7, <1>8, <1>9, BlkParts
  <2>2. ASSUME NEW n \in 0 .. NINDIRECT - 1 PROVE Blk(m, Root, NDIRECT + n) = 0
    BY <1>7, <1>8, <1>9, BlkParts
  <2>3. Blk(m, Root, MaxSize) = 0
    BY <1>7, <1>8, <1>9, BlkParts
  <2> QED BY <2>1, <2>2, <2>3, Ways
<1>13. \A n \in 0 .. MaxSize - 1 : n \in 0 .. MaxSize /\ PtrAt(m, Root, n) = Blk(m, Root, n)
  BY <1>9, Sizes DEF BlkIs
<1>14. m[BITMAP].free \subseteq Block \ {SUPER, BITMAP}
  BY <1>3, <1>6, DiskAssumption DEF Block, SUPER, BITMAP
<1>15. InUse(m)
  <2>1. UsedIs(m)
    BY <1>11, <1>12 DEF UsedIs
  <2> QED BY <2>1, InUseIs
<1>16. Distinct(m)
  BY <1>11, <1>12 DEF Distinct
<1>17. WithinSize(m)
  <2>1. SUFFICES ASSUME NEW n \in 0 .. MaxSize - 1 PROVE PtrAt(m, Root, n) = 0
    BY <1>7, <1>8, <1>11 DEF WithinSize
  <2> QED BY <1>12, <1>13
<1>18. Sound(m)
  BY <1>14, <1>15, <1>16, <1>17 DEF Sound
<1>19. RootUnder(m, m)
  <2>1. FileAt(m, Root).size = 0 /\ 0 <= 0
    BY <1>7, <1>8
  <2>2. \A n \in 0 .. MaxSize - 1 : Blk(m, Root, n) = 0
    BY <1>12, <1>13
  <2> QED BY <2>1, <2>2 DEF RootUnder
<1>20. Under(m, m)
  <2>1. \A f \in Owners(m) : SlotUnder(m, m, f)
    BY DEF SlotUnder
  <2> QED BY <1>11, <1>19, <2>1 DEF Under
<1>21. Good(m, m)
  BY <1>5, <1>18, <1>20 DEF Good
<1>22. disk = m /\ todo = << >> /\ gone = {}
  BY <1>1 DEF Init
<1>23. Trail(m, << >>, m)
  BY <1>21, TrailNone
<1>24. \E d : Good(mem, d) /\ Trail(disk, todo, d)
  BY <1>1, <1>21, <1>22, <1>23
<1>25. todo \in Seq(WriteType) /\ gone \subseteq Refs(mem)
  BY <1>22
<1> QED BY <1>1, <1>5, <1>22, <1>24, <1>25 DEF IInv

\* Every operation of the server starts with a good trail to its last write.
LEMMA OperationIInv ==
  ASSUME IInv, Operation(PoliteSize)
  PROVE  IInv'
<1>1. ASSUME NEW r, NEW now, NEW kept, Start(r, now, kept),
             todo = << >> => Keeps(disk, State, r.s)
      PROVE  IInv'
  <2>1. Fine(disk, r.s) /\ Owners(mem) \subseteq Owners(r.s.mem)
    BY <1>1, StateFine DEF Start, Keeps
  <2>2. mem' = r.s.mem /\ todo' = r.s.todo /\ disk' = disk
        /\ gone' = (gone \cup Files(mem)) \ Files(r.s.mem)
    BY <1>1 DEF Start
  <2> QED BY <2>1, <2>2, StartKeeps
<1>2. ASSUME NEW name \in Name, Create(name) PROVE IInv'
  <2>1. PICK r : r = FileCreate(State, name)
    OBVIOUS
  <2>2. todo = << >> => Keeps(disk, State, r.s)
    BY <2>1, StateFine, FileCreateIs
  <2> QED BY <1>1, <1>2, <2>1, <2>2 DEF Create, StartNamed
<1>3. ASSUME NEW name \in Name, Remove(name) PROVE IInv'
  <2>1. PICK r : r = FileRemove(State, name)
    OBVIOUS
  <2>2. todo = << >> => Keeps(disk, State, r.s)
    BY <2>1, StateFine, FileRemoveIs
  <2> QED BY <1>1, <1>3, <2>1, <2>2 DEF Remove, StartNamed
<1>4. ASSUME NEW name \in Name, Lookup(name) PROVE IInv'
  <2>1. PICK r : r = DirFind(State, name)
    OBVIOUS
  <2>2. todo = << >> => Keeps(disk, State, r.s)
    BY <2>1, StateFine, DirFindIs DEF Searched, Keeps
  <2> QED BY <1>1, <1>4, <2>1, <2>2 DEF Lookup
<1>5. Files(mem) \cup gone \subseteq Refs(mem)
  BY DEF IInv, Files
<1>6. ASSUME NEW f \in Refs(mem), NEW size \in PoliteSize(f), SetLength(f, size) PROVE IInv'
  <2>1. PICK r : r = [s |-> SetSize(State, f, size)]
    OBVIOUS
  <2>2. size \in Nat /\ (size <= NDIRECT \/ size >= FileAt(mem, f).size)
    <3>1. size \in AnySize(f) /\ Polite(f, size)
      BY <1>6 DEF PoliteSize
    <3>2. size \in 0 .. MaxSize + 1 /\ MaxSize \in Nat
      BY <3>1, Sizes DEF AnySize
    <3>3. size \in Nat
      BY <3>2
    <3> QED BY <3>1, <3>3 DEF Polite
  <2>3. todo = << >> => Keeps(disk, State, r.s)
    <3>1. SUFFICES ASSUME todo = << >> PROVE Keeps(disk, State, SetSize(State, f, size))
      BY <2>1
    <3>2. Fine(disk, State) /\ State.mem = mem
      BY <3>1, StateFine
    <3>3. SizePost(disk, State, f, size, SetSize(State, f, size))
      BY <2>2, <3>2, SetSizeIs
    <3> QED BY <3>3 DEF SizePost
  <2> QED BY <1>1, <1>6, <2>1, <2>3 DEF SetLength
<1>7. ASSUME NEW f \in Refs(mem), NEW n \in Index, NEW v \in Val \ {Zero}, Write(f, n, v) PROVE IInv'
  <2>1. PICK r : r = FileWrite(State, f, n, v)
    OBVIOUS
  <2>2. n \in Nat
    BY <1>7, Sizes DEF Index
  <2>3. todo = << >> => Keeps(disk, State, r.s)
    BY <1>7, <2>1, <2>2, StateFine, FileWriteIs
  <2> QED BY <1>1, <1>7, <2>1, <2>3 DEF Write
<1>8. ASSUME NEW f \in Refs(mem), NEW n \in Index, Read(f, n) PROVE IInv'
  <2>1. PICK r : r = GetBlock(State, f, n)
    OBVIOUS
  <2>2. n \in Nat /\ f \in Owners(mem) /\ n < FileAt(mem, f).size
    BY <1>8, Sizes DEF Index, Owners, Read
  <2>3. todo = << >> => Keeps(disk, State, r.s)
    <3>1. SUFFICES ASSUME todo = << >> PROVE Keeps(disk, State, r.s)
      OBVIOUS
    <3>2. Fine(disk, State) /\ State.mem = mem
      BY <3>1, StateFine
    <3>3. GetPost(disk, State, f, n, r)
      BY <2>1, <2>2, <3>2, GetBlockIs
    <3> QED BY <3>3 DEF GetPost, Keeps
  <2> QED BY <1>1, <1>8, <2>1, <2>3 DEF Read
<1>9. ASSUME NEW f \in Refs(mem), Flush(f) PROVE IInv'
  <2>1. PICK r : r = [s |-> FileFlush(State, f)]
    OBVIOUS
  <2>2. todo = << >> => Keeps(disk, State, r.s)
    <3>1. SUFFICES ASSUME todo = << >> PROVE Keeps(disk, State, FileFlush(State, f))
      BY <2>1
    <3>2. Fine(disk, State) /\ State.mem = mem /\ f \in Owners(mem)
      BY <1>9, <3>1, StateFine DEF Owners
    <3> QED BY <3>2, FileFlushIs DEF Written, Keeps
  <2> QED BY <1>1, <1>9, <2>1, <2>2 DEF Flush
<1>10. ASSUME Sync PROVE IInv'
  <2>1. PICK r : r = [s |-> FsSync(State)]
    OBVIOUS
  <2>2. todo = << >> => Keeps(disk, State, r.s)
    BY <2>1, StateFine, FsSyncIs DEF Written, Keeps
  <2> QED BY <1>1, <1>10, <2>1, <2>2 DEF Sync
<1> QED BY <1>2, <1>3, <1>4, <1>5, <1>6, <1>7, <1>8, <1>9, <1>10 DEF Operation

\* Every step keeps a good trail; a crash leaves its first disk.
LEMMA NextIInv ==
  ASSUME IInv, [Next]_vars
  PROVE  IInv'
<1>1. CASE Operation(PoliteSize)
  BY <1>1, OperationIInv
<1>2. CASE DiskWrite
  <2>1. PICK d : Good(mem, d) /\ Trail(disk, todo, d)
    BY DEF IInv
  <2>2. todo \in Seq(WriteType) /\ todo # << >> /\ mem' = mem /\ gone' = gone /\ todo' = Tail(todo)
        /\ disk' = [disk EXCEPT ![Head(todo).block] = Head(todo).data]
    BY <1>2 DEF DiskWrite, IInv
  <2>3. Trail(disk', todo', d)
    BY <2>1, <2>2, TrailStep
  <2>4. todo' \in Seq(WriteType)
    BY <2>2
  <2>5. disk' \in DiskType
    BY <2>3, <2>4, TrailEnds DEF Good
  <2>6. gone' \subseteq Refs(mem')
    BY <2>2 DEF IInv
  <2> QED BY <2>1, <2>2, <2>3, <2>4, <2>5, <2>6 DEF IInv
<1>3. CASE Crash
  <2>1. PICK d : Good(mem, d) /\ Trail(disk, todo, d)
    BY DEF IInv
  <2>2. Good(disk, disk)
    BY <2>1, TrailEnds DEF IInv
  <2>3. Trail(disk, << >>, disk)
    BY <2>2, TrailNone
  <2>4. mem' = disk /\ disk' = disk /\ todo' = << >> /\ gone' = {}
    BY <1>3 DEF Crash
  <2>5. Good(mem', disk) /\ Trail(disk', todo', disk)
    BY <2>2, <2>3, <2>4
  <2>6. mem' \in DiskType /\ disk' \in DiskType /\ todo' \in Seq(WriteType) /\ gone' \subseteq Refs(mem')
    BY <2>4 DEF IInv
  <2> QED BY <2>5, <2>6 DEF IInv
<1>4. CASE UNCHANGED vars
  BY <1>4 DEF vars, IInv
<1> QED BY <1>1, <1>2, <1>3, <1>4 DEF Next

\* What a reader of the invariant sees: the cache and the disk are sound.
LEMMA IInvGood ==
  ASSUME IInv
  PROVE  Sound(mem) /\ Sound(disk) /\ mem \in DiskType /\ disk \in DiskType
<1>1. PICK d : Good(mem, d) /\ Trail(disk, todo, d)
  BY DEF IInv
<1>2. Good(disk, disk)
  BY <1>1, TrailEnds DEF IInv
<1> QED BY <1>1, <1>2 DEF Good

\* At every moment of every run the cache is sound, and so is each disk that a
\* crash may find between here and the last write under way (fs.c, bc.c), with
\* clients that go on with the files they removed (serv.c).
THEOREM AlwaysIInv == Spec => []IInv
<1>1. IInv /\ [Next]_vars => IInv'
  BY NextIInv
<1> QED BY InitIInv, <1>1, PTL DEF Spec

\* The block a file points to is marked in use, in the cache and on the disk at
\* any moment, as alloc_block writes the bitmap first and nothing else is early.
THEOREM AlwaysOwnedInUse == Spec => []OwnedInUse
<1>1. IInv => OwnedInUse
  BY IInvGood DEF OwnedInUse, Sound
<1> QED BY AlwaysIInv, <1>1, PTL

\* No file, named or removed, has a block beyond its size, in the cache or on the
\* disk at any moment:
\* what file_set_size cut off never comes back.
THEOREM AlwaysNothingBeyondSize == Spec => []NothingBeyondSize
<1>1. IInv => NothingBeyondSize
  BY IInvGood DEF NothingBeyondSize, Sound
<1> QED BY AlwaysIInv, <1>1, PTL

\* Counting the numbers in use: no two owners have the same.
LEMMA DistinctOnce ==
  ASSUME NEW m \in DiskType, Sound(m)
  PROVE  OneOwner(m)
<1> DEFINE owned == Owned(m)
           nos == {o[3] : o \in owned}
<1>1. \A o \in owned : \E f \in Owners(m), n \in 0 .. MaxSize :
        o = <<f, n, Blk(m, f, n)>> /\ o[3] = Blk(m, f, n) /\ Blk(m, f, n) # 0
  <2>1. TAKE o \in owned
  <2>2. PICK f \in Owners(m), n \in 0 .. MaxSize : o = <<f, n, Blk(m, f, n)>> /\ o[3] # 0
    BY DEF Owned, Blk
  <2>3. o[3] = Blk(m, f, n)
    BY <2>2
  <2> QED BY <2>2, <2>3
<1> HIDE DEF owned
<1>2. ASSUME NEW o \in owned, NEW p \in owned, o[3] = p[3]
      PROVE  o = p
  <2>1. PICK f \in Owners(m), n \in 0 .. MaxSize :
          o = <<f, n, Blk(m, f, n)>> /\ o[3] = Blk(m, f, n) /\ Blk(m, f, n) # 0
    BY <1>1
  <2>2. PICK g \in Owners(m), k \in 0 .. MaxSize :
          p = <<g, k, Blk(m, g, k)>> /\ p[3] = Blk(m, g, k) /\ Blk(m, g, k) # 0
    BY <1>1
  <2>3. Blk(m, f, n) = Blk(m, g, k)
    BY <1>2, <2>1, <2>2
  <2>4. f = g /\ n = k
    BY <2>1, <2>3 DEF Sound, Distinct
  <2> QED BY <2>1, <2>2, <2>4
<1>3. IsFiniteSet(nos)
  <2>1. nos \in SUBSET (0 .. NBLOCKS - 1)
    <3>1. ASSUME NEW o \in owned PROVE o[3] \in 0 .. NBLOCKS - 1
      <4>1. PICK f \in Owners(m), n \in 0 .. MaxSize : o[3] = Blk(m, f, n)
        BY <1>1
      <4>2. Blk(m, f, n) \in BlockNo
        BY SlotType, BlkForms DEF SlotOk, BlkIs
      <4> QED BY <4>1, <4>2, DiskAssumption DEF BlockNo, Block
    <3> QED BY <3>1
  <2>2. IsFiniteSet(0 .. NBLOCKS - 1)
    BY DiskAssumption, FS_Interval
  <2> QED BY <2>1, <2>2, FS_Subset
<1>4. PICK G : G = [x \in nos |-> CHOOSE o \in owned : o[3] = x]
  OBVIOUS
<1>5. \A x \in nos : G[x] \in owned /\ G[x][3] = x
  BY <1>4
<1>6. G \in Injection(nos, owned)
  <2>1. G \in [nos -> owned] /\ DOMAIN G = nos
    BY <1>4, <1>5
  <2>2. \A x, y \in nos : G[x] = G[y] => x = y
    BY <1>5
  <2> QED BY <2>1, <2>2 DEF Injection, IsInjective
<1>7. G \in Surjection(nos, owned)
  <2>1. G \in [nos -> owned]
    BY <1>4, <1>5
  <2>2. ASSUME NEW o \in owned PROVE \E x \in nos : G[x] = o
    <3>1. o[3] \in nos
      OBVIOUS
    <3>2. G[o[3]] \in owned /\ G[o[3]][3] = o[3]
      BY <1>5, <3>1
    <3>3. G[o[3]] = o
      BY <1>2, <3>2
    <3> QED BY <3>1, <3>3
  <2> QED BY <2>1, <2>2 DEF Surjection
<1>8. ExistsBijection(nos, owned)
  BY <1>6, <1>7 DEF ExistsBijection, Bijection
<1> HIDE DEF nos
<1>9. Cardinality(owned) = Cardinality(nos)
  BY <1>3, <1>8, FS_Bijection
<1> QED BY <1>9 DEF OneOwner, owned, nos

\* No block belongs to two files, or twice to one, in the cache or on the disk at
\* any moment of file_flush, fs_sync or a crash.
THEOREM AlwaysNoBlockTwice == Spec => []NoBlockTwice
<1>1. IInv => NoBlockTwice
  BY IInvGood, DistinctOnce DEF NoBlockTwice
<1> QED BY AlwaysIInv, <1>1, PTL

=============================================================================
