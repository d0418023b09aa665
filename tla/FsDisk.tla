-------------------------------- MODULE FsDisk --------------------------------
(***************************************************************************)
(* The file system of fs/fs.c above the block cache of fs/bc.c, and what a *)
(* crash finds on the disk.                                                *)
(*                                                                         *)
(* The server runs one operation at a time.  What an operation leaves in   *)
(* the cache is computed at once, by operators that follow the C functions *)
(* on a record s; the block writes of its flush_block calls, in order and  *)
(* with the contents of their moment, are then carried out one by one, and *)
(* a crash may come between any two: the cache is lost, and the server     *)
(* starts again from the disk.                                             *)
(*                                                                         *)
(* Sizes and offsets are in blocks, a block of data is one value, and a    *)
(* block is a record with one field per use, so that memset is one value.  *)
(* Paths have one element, as fsformat makes no other directory than the   *)
(* root.  A block is written whole or not at all.                          *)
(***************************************************************************)
EXTENDS Integers, Sequences, FiniteSets

CONSTANTS
  Name,      \* file names
  NoName,    \* the empty f_name of a free directory slot
  NBLOCKS,   \* s_nblocks; block 1 is the superblock, block 2 the bitmap
  NDIRECT, NINDIRECT,
  BLKFILES,  \* files in a block of a directory
  Val, Zero, \* what a data block holds; Zero after memset
  NoFile     \* no file of that name

Block == 1 .. NBLOCKS - 1
SUPER == 1
BITMAP == 2
MaxSize == NDIRECT + NINDIRECT
Index == 0 .. MaxSize     \* filebno; no block is there for the last

ASSUME DiskAssumption ==
  /\ NBLOCKS \in Nat /\ NBLOCKS > 3
  /\ NDIRECT \in Nat \ {0} /\ NINDIRECT \in Nat \ {0} /\ BLKFILES \in Nat \ {0}
  /\ NoName \notin Name /\ Zero \in Val

\* struct File, and a block seen as each thing it can be.
NewFile == [name |-> NoName, size |-> 0,
            direct |-> [n \in 0 .. NDIRECT - 1 |-> 0], indirect |-> 0]
ZeroBlock == [free |-> {},                               \* bits set in the bitmap
              files |-> [j \in 1 .. BLKFILES |-> NewFile],
              ptrs |-> [n \in 0 .. NINDIRECT - 1 |-> 0],
              data |-> Zero]

VARIABLES
  mem,       \* [Block -> contents] as the server sees them, cached or not
  disk,      \* [Block -> contents] on the disk
  todo,      \* block writes of the operation still to be made
  gone,      \* removed files that a client may have open: o_file is kept
  tainted,   \* ghost: a removed file has been changed through a descriptor
  synced,    \* ghost: the names whose state a crash must not change
  promised   \* ghost: ... when todo is done

vars == <<mem, disk, todo, gone, tainted, synced, promised>>

-----------------------------------------------------------------------------
(* The block cache: bc.c.  s.mem is the cache, s.disk the disk as it will be *)
(* when s.todo has been written.                                             *)

\* flush_block: a block that differs from the disk is written.
FlushBlock(s, b) ==
  IF s.mem[b] = s.disk[b] THEN s
  ELSE [s EXCEPT !.disk[b] = s.mem[b],
                 !.todo = Append(@, [block |-> b, data |-> s.mem[b]])]

-----------------------------------------------------------------------------
(* The bitmap: fs.c. *)

Free(s) == s.mem[BITMAP].free

FreeBlock(s, b) == [s EXCEPT !.mem[BITMAP].free = @ \cup {b}]

\* The first free block is taken out of the bitmap.
Take(s) ==
  LET b == CHOOSE x \in Free(s) : \A y \in Free(s) : x <= y
  IN [s |-> [s EXCEPT !.mem[BITMAP].free = @ \ {b}], block |-> b]

\* A mutant of AllocBlock: the bitmap reaches the disk some other time.
AllocBlockLazily(s) == IF Free(s) = {} THEN [s |-> s, block |-> 0] ELSE Take(s)

\* alloc_block flushes the bitmap at once; block 0 stands for E_NO_DISK.
AllocBlock(s) ==
  IF Free(s) = {} THEN [s |-> s, block |-> 0]
  ELSE [Take(s) EXCEPT !.s = FlushBlock(@, BITMAP)]

-----------------------------------------------------------------------------
(* Files.  A struct File is named by where it is: slot j of block b. *)

Root == [b |-> SUPER, j |-> 1]
FileAt(m, f) == m[f.b].files[f.j]

\* The block number in a struct File's slot for block n; 0 also without an
\* indirect block, and for a block that no file can have.
PtrIn(m, file, n) ==
  IF n < NDIRECT THEN file.direct[n]
  ELSE IF file.indirect = 0 \/ n >= MaxSize THEN 0
  ELSE m[file.indirect].ptrs[n - NDIRECT]
PtrAt(m, f, n) == PtrIn(m, FileAt(m, f), n)

SetPtr(s, f, n, b) ==
  IF n < NDIRECT THEN [s EXCEPT !.mem[f.b].files[f.j].direct[n] = b]
  ELSE [s EXCEPT !.mem[FileAt(s.mem, f).indirect].ptrs[n - NDIRECT] = b]

Ok(s) == [s |-> s, ok |-> TRUE]
Fail(s) == [s |-> s, ok |-> FALSE]

\* A newly allocated block is cleared, and flushed.
Fresh(s, b) == FlushBlock([s EXCEPT !.mem[b] = ZeroBlock], b)

\* file_block_walk with alloc: the indirect block exists when n needs it.
NewIndirect(a, f) ==
  IF a.block = 0 THEN Fail(a.s)
  ELSE Ok(Fresh([a.s EXCEPT !.mem[f.b].files[f.j].indirect = a.block], a.block))
BlockWalk(s, f, n) ==
  IF n >= MaxSize THEN Fail(s)
  ELSE IF n < NDIRECT \/ FileAt(s.mem, f).indirect # 0 THEN Ok(s)
  ELSE NewIndirect(AllocBlock(s), f)

\* file_get_block: block n of f, allocated when it is missing.
NewBlock(a, f, n) ==
  IF a.block = 0 THEN Fail(a.s)
  ELSE Ok(Fresh(SetPtr(a.s, f, n, a.block), a.block))
Missing(w, f, n) ==
  IF ~w.ok \/ PtrAt(w.s.mem, f, n) # 0 THEN w ELSE NewBlock(AllocBlock(w.s), f, n)
GetBlock(s, f, n) == Missing(BlockWalk(s, f, n), f, n)

\* A mutant of FreeFileBlock: the slot keeps the number of the freed block.
FreeFileBlockOnly(s, f, n) ==
  IF PtrAt(s.mem, f, n) = 0 THEN s ELSE FreeBlock(s, PtrAt(s.mem, f, n))

\* file_free_block.
FreeFileBlock(s, f, n) ==
  IF PtrAt(s.mem, f, n) = 0 THEN s
  ELSE SetPtr(FreeBlock(s, PtrAt(s.mem, f, n)), f, n, 0)

\* Blocks a to b - 1 of f are given up, in order.
GiveUp(s, f, a, b) ==
  LET given[n \in a .. b] ==
        IF n = a THEN s ELSE FreeFileBlock(given[n - 1], f, n - 1)
  IN given[b]

DropIndirect(s, f) ==
  LET ind == FileAt(s.mem, f).indirect IN
  IF ind = 0 THEN s
  ELSE [FreeBlock(s, ind) EXCEPT !.mem[f.b].files[f.j].indirect = 0]

\* A mutant of TruncateBlocks: the first block to give up is kept.
TruncateBlocksShort(s, f, size) ==
  LET old == FileAt(s.mem, f).size
      t == IF size = old THEN s ELSE GiveUp(s, f, size + 1, old)
  IN IF size <= NDIRECT THEN DropIndirect(t, f) ELSE t

\* file_truncate_blocks: gives up the blocks from size on, and the indirect
\* block when direct ones are enough.
TruncateBlocks(s, f, size) ==
  LET t == GiveUp(s, f, size, FileAt(s.mem, f).size)
  IN IF size <= NDIRECT THEN DropIndirect(t, f) ELSE t

SetSize(s, f, size) ==
  LET t == IF FileAt(s.mem, f).size > size THEN TruncateBlocks(s, f, size) ELSE s
  IN FlushBlock([t EXCEPT !.mem[f.b].files[f.j].size = size], f.b)

\* The data blocks of f that have a number, in order.
FlushPtr(s, f, n) ==
  IF PtrAt(s.mem, f, n) = 0 THEN s ELSE FlushBlock(s, PtrAt(s.mem, f, n))
FlushData(s, f) ==
  LET size == FileAt(s.mem, f).size
      flushed[n \in 0 .. size] ==
        IF n = 0 THEN s ELSE FlushPtr(flushed[n - 1], f, n - 1)
  IN flushed[size]

\* A mutant of FileFlush: the indirect block is forgotten.
FileFlushDirect(s, f) == FlushBlock(FlushData(s, f), f.b)

\* file_flush: data, then the struct File, then the indirect block.
FileFlush(s, f) ==
  LET t == FlushBlock(FlushData(s, f), f.b)
      ind == FileAt(s.mem, f).indirect
  IN IF ind = 0 THEN t ELSE FlushBlock(t, ind)

-----------------------------------------------------------------------------
(* The root directory. *)

NoRef == [b |-> 0, j |-> 0]

\* dir_lookup of a name, and dir_alloc_file's search for a free slot: the
\* blocks of the directory in order, each allocated when it is missing.
InBlock(g, b, name) ==
  LET slots == {j \in 1 .. BLKFILES : g.s.mem[b].files[j].name = name} IN
  [s |-> g.s, ok |-> TRUE,
   f |-> IF slots = {} THEN NoRef
         ELSE [b |-> b, j |-> CHOOSE j \in slots : \A k \in slots : j <= k]]
NextBlock(g, n, name) ==
  IF g.ok THEN InBlock(g, PtrAt(g.s.mem, Root, n), name)
  ELSE [s |-> g.s, ok |-> FALSE, f |-> NoRef]
Looked(r, n, name) ==
  IF ~r.ok \/ r.f # NoRef THEN r ELSE NextBlock(GetBlock(r.s, Root, n), n, name)
DirFind(s, name) ==
  LET size == FileAt(s.mem, Root).size
      found[n \in 0 .. size] ==
        IF n = 0 THEN [s |-> s, ok |-> TRUE, f |-> NoRef]
        ELSE Looked(found[n - 1], n - 1, name)
  IN found[size]

\* dir_alloc_file: without a free slot, the directory grows by a block; it
\* keeps its new size when there is no block.
Grown(g, n) ==
  [s |-> g.s, ok |-> g.ok, f |-> [b |-> PtrAt(g.s.mem, Root, n), j |-> 1]]
FreeSlot(r, n) ==
  IF ~r.ok \/ r.f # NoRef THEN r
  ELSE Grown(GetBlock([r.s EXCEPT !.mem[SUPER].files[1].size = @ + 1], Root, n), n)
DirAllocFile(s) == FreeSlot(DirFind(s, NoName), FileAt(s.mem, Root).size)

\* file_create.
Named(a, name) ==
  IF ~a.ok THEN Fail(a.s)
  ELSE Ok(FileFlush([a.s EXCEPT !.mem[a.f.b].files[a.f.j].name = name], Root))
NewName(r, name) ==
  IF ~r.ok \/ r.f # NoRef THEN Fail(r.s) ELSE Named(DirAllocFile(r.s), name)
FileCreate(s, name) == NewName(DirFind(s, name), name)

\* file_remove.
Removed(r) ==
  IF ~r.ok \/ r.f = NoRef THEN Fail(r.s)
  ELSE Ok(FlushBlock([TruncateBlocks(r.s, r.f, 0) EXCEPT
                        !.mem[r.f.b].files[r.f.j].name = NoName,
                        !.mem[r.f.b].files[r.f.j].size = 0], r.f.b))
FileRemove(s, name) == Removed(DirFind(s, name))

\* file_write of one block; a file that grew stays grown when it fails.
Stored(g, f, n, v) ==
  IF g.ok THEN Ok([g.s EXCEPT !.mem[PtrAt(g.s.mem, f, n)].data = v]) ELSE g
FileWrite(s, f, n, v) ==
  LET t == IF n + 1 > FileAt(s.mem, f).size THEN SetSize(s, f, n + 1) ELSE s
  IN Stored(GetBlock(t, f, n), f, n, v)

\* fs_sync: every block in order.
FsSync(s) ==
  LET flushed[n \in 0 .. NBLOCKS - 1] ==
        IF n = 0 THEN s ELSE FlushBlock(flushed[n - 1], n)
  IN flushed[NBLOCKS - 1]

-----------------------------------------------------------------------------
(* The server between two crashes. *)

\* The files of a name in a cache or on a disk.
DirBlocks(m) == {PtrAt(m, Root, n) : n \in 0 .. FileAt(m, Root).size - 1} \ {0}
Refs(m) == {[b |-> b, j |-> j] : b \in DirBlocks(m), j \in 1 .. BLKFILES}
Files(m) == {f \in Refs(m) : FileAt(m, f).name # NoName}

\* mkfs: an empty root directory.
Init ==
  LET formatted == [b \in Block |->
        IF b = BITMAP THEN [ZeroBlock EXCEPT !.free = 3 .. NBLOCKS - 1]
        ELSE ZeroBlock]
  IN /\ mem = formatted /\ disk = formatted
     /\ todo = << >>
     /\ gone = {} /\ tainted = FALSE
     /\ synced = Name /\ promised = Name

\* An operation with result r starts: now leaves the synced names, and the
\* names in kept are synced when its writes are done.
Start(r, now, kept) ==
  /\ todo = << >>
  /\ mem' = r.s.mem /\ todo' = r.s.todo
  /\ gone' = (gone \cup Files(mem)) \ Files(r.s.mem)
  /\ UNCHANGED disk
  /\ promised' = kept
  /\ synced' = IF r.s.todo = << >> THEN kept ELSE synced \ now

State == [mem |-> mem, disk |-> disk, todo |-> << >>]

\* An operation on a name that ends on the disk, unless it failed.  The slot
\* that file_create names may hold what a client wrote after it was removed:
\* that is left for a flush.
Bare(m, name) == \A f \in Files(m) : FileAt(m, f).name = name => FileAt(m, f).size = 0
StartNamed(r, name) ==
  LET now == IF r.ok THEN {name} ELSE {}
      done == IF Bare(r.s.mem, name) THEN now ELSE {}
  IN Start(r, now, (synced \ now) \cup done) /\ UNCHANGED tainted

Create(name) == StartNamed(FileCreate(State, name), name)

Remove(name) == StartNamed(FileRemove(State, name), name)

Lookup(name) == Start(DirFind(State, name), {}, synced) /\ UNCHANGED tainted

\* Through the o_file of an open file, which may have been removed.
NameOf(f) == {FileAt(mem, f).name} \cap Name
Taint(f) == tainted' = (tainted \/ f \in gone)

SetLength(f, size) ==
  Taint(f) /\ Start([s |-> SetSize(State, f, size)], NameOf(f), synced)

Write(f, n, v) ==
  Taint(f) /\ Start(FileWrite(State, f, n, v), NameOf(f), synced \ NameOf(f))

\* file_read fills holes with blocks.
Read(f, n) ==
  /\ n < FileAt(mem, f).size
  /\ Start(GetBlock(State, f, n), {}, synced) /\ UNCHANGED tainted

Flush(f) ==
  /\ Start([s |-> FileFlush(State, f)], {}, synced \cup NameOf(f))
  /\ UNCHANGED tainted

Sync == Start([s |-> FsSync(State)], {}, Name) /\ UNCHANGED tainted

\* One block reaches the disk.
DiskWrite ==
  /\ todo # << >>
  /\ disk' = [disk EXCEPT ![Head(todo).block] = Head(todo).data]
  /\ todo' = Tail(todo)
  /\ synced' = IF Len(todo) = 1 THEN promised ELSE synced
  /\ UNCHANGED <<mem, gone, tainted, promised>>

\* The machine stops; the server starts again with an empty cache, and nothing
\* is open.
Crash ==
  /\ mem' = disk
  /\ todo' = << >>
  /\ gone' = {}
  /\ synced' = Name /\ promised' = Name
  /\ UNCHANGED <<disk, tainted>>

\* fs/serv.c and the clients truncate to sizes direct blocks hold (O_TRUNC).
Polite(f, size) == size <= NDIRECT \/ size >= FileAt(mem, f).size

Operation(sizes(_)) ==
  \/ \E name \in Name : Create(name) \/ Remove(name) \/ Lookup(name)
  \/ \E f \in Files(mem) \cup gone :
       \/ \E size \in sizes(f) : SetLength(f, size)
       \/ \E n \in Index, v \in Val \ {Zero} : Write(f, n, v)
       \/ \E n \in Index : Read(f, n)
       \/ Flush(f)
  \/ Sync

AnySize(f) == 0 .. MaxSize + 1
PoliteSize(f) == {size \in AnySize(f) : Polite(f, size)}

Next == Operation(PoliteSize) \/ DiskWrite \/ Crash
AnyNext == Operation(AnySize) \/ DiskWrite \/ Crash

Spec == Init /\ [][Next]_vars
AnySpec == Init /\ [][AnyNext]_vars
-----------------------------------------------------------------------------
(* Properties. *)

\* The block numbers in use: <<f, n, b>> when block n of slot f of the directory,
\* which a removed file may still use, or of the root is b; n = MaxSize for the
\* indirect block.
Owners(m) == Refs(m) \cup {Root}
BlockIn(m, file, n) == IF n = MaxSize THEN file.indirect ELSE PtrIn(m, file, n)
Owned(m) ==
  {o \in {<<f, n, BlockIn(m, FileAt(m, f), n)>> : f \in Owners(m), n \in 0 .. MaxSize} :
     o[3] # 0}

\* No block belongs to two files, or twice to one, in the cache or, at any
\* moment of a flush, on the disk: the next server would write one file's data
\* into the other.
OneOwner(m) ==
  LET owned == Owned(m) IN Cardinality({o[3] : o \in owned}) = Cardinality(owned)
NoBlockTwice == OneOwner(mem) /\ OneOwner(disk)

\* "A block is allocated iff its value is != 0" (inc/fs.h), the half that
\* keeps files whole: a block that a file points to is in use in the bitmap,
\* in the cache and on the disk at any moment.
InUse(m) ==
  \A o \in Owned(m) : o[3] \notin m[BITMAP].free \cup {SUPER, BITMAP}
OwnedInUse == InUse(mem) /\ InUse(disk)

\* The same, on the disk, when programs truncate to any size.
DiskOwnedInUse == InUse(disk)

\* A file has no block beyond its size, on the disk either: old data never
\* comes back when the file grows.
WithinSize(m) ==
  \A f \in Owners(m) :
    \A n \in FileAt(m, f).size .. MaxSize - 1 : PtrAt(m, f, n) = 0
NothingBeyondSize == WithinSize(mem) /\ WithinSize(disk)

\* The files of every name as a client reads them.
Content(m, file) ==
  [i \in 1 .. file.size |->
     IF PtrIn(m, file, i - 1) = 0 THEN Zero ELSE m[PtrIn(m, file, i - 1)].data]
Contents(m) ==
  LET all == {FileAt(m, f) : f \in Files(m)}
      named(name) == {Content(m, file) : file \in {g \in all : g.name = name}}
  IN [name \in Name |->
        IF \A file \in all : file.name # name THEN NoFile
        ELSE CHOOSE c \in named(name) : TRUE]

\* What the slots without a name hold.
Leftovers(m) == {Content(m, FileAt(m, f)) : f \in Refs(m) \ Files(m)}

\* Every operation changes the one file it names, a file is created empty unless
\* a client went on with a removed one, and a crash loses nothing of a file that
\* was created empty, removed or flushed and not written since.
Store == INSTANCE FileStore WITH files <- Contents(mem), leftovers <- Leftovers(mem),
                                 MaxSize <- MaxSize + 1
ImplementsFileStore == Store!Spec
=============================================================================
