----------------------------- MODULE OsfsExtent -----------------------------
(***************************************************************************)
(* Lab4_Template_Optimize: osfs with extents.  A file owns Extent blocks   *)
(* in a row, the root directory owns block 0.  The data blocks are one     *)
(* array of cells, which directory entries and files share: an entry takes *)
(* two cells, its name and its inode number, and BLOCK_SIZE is counted in  *)
(* cells.  Nothing stops the directory at the end of its block, nor a long *)
(* name at the end of its entry.                                           *)
(*                                                                         *)
(* ->create runs under the directory's lock, ->write under none: creates   *)
(* and writes meet in the inode table, the bitmap and the cells.  Each of  *)
(* their accesses is a step, but for the scan of the bitmap: no bit is     *)
(* ever cleared, so the scan finds what it would find at once when it      *)
(* leaves its last occupied run.  nr_free_inodes and nr_free_blocks, which *)
(* nothing reads here, are left out.                                       *)
(***************************************************************************)
EXTENDS Integers

CONSTANTS INODE_COUNT, DATA_BLOCK_COUNT, BLOCK_SIZE,
          Extent,                          \* blocks create asks for
          Names, Bytes,                    \* file names, bytes users write
          Reach,                           \* per name, the cells strncpy writes
          Fds, Creator,                    \* the tasks: a descriptor has one user
          Lengths, Positions,              \* of the writes, reads and seeks
          UserFaults                       \* may user memory be unmapped

ASSUME ExtentAssumption ==
  /\ INODE_COUNT \in Nat /\ INODE_COUNT > 2
  /\ BLOCK_SIZE \in Nat \ {0} /\ Extent \in Nat \ {0}
  /\ DATA_BLOCK_COUNT \in Nat /\ DATA_BLOCK_COUNT > Extent
  /\ 2 * (INODE_COUNT - 2) <= (Extent + 1) * BLOCK_SIZE
  /\ Names \subseteq Nat \ {0} /\ Bytes \subseteq Nat \ {0}
  /\ Reach \in [Names -> Nat \ {0}] /\ Creator \notin Fds
  /\ Lengths \subseteq Nat /\ Positions \subseteq Nat
  /\ UserFaults \in BOOLEAN

ROOT_INODE == 1
Inodes == 1 .. INODE_COUNT - 1             \* osfs_get_osfs_inode refuses the others
Blocks == 0 .. DATA_BLOCK_COUNT - 1
Cells == 0 .. DATA_BLOCK_COUNT * BLOCK_SIZE - 1
MAX_DIR_ENTRIES == BLOCK_SIZE \div 2
Garbled == 0                               \* a name that is no user's
Letters == INODE_COUNT                     \* of a name: no byte 0, no inode's number
Uncached == 0
Closed == [ino |-> 0, pos |-> 0]
NoCreate == [name |-> 0, ino |-> 0]
NoRun == [start |-> 0, marked |-> 0]
Tasks == Fds \cup {Creator}

VARIABLES
  inode_bitmap, block_bitmap,              \* sets of the bits that are set
  inode_table,                             \* i_size, and the extent: ee_start, ee_len
  data_blocks,                             \* the cells
  dcache,                                  \* per name, the inode of its hashed dentry
  fds,                                     \* open files
  creating,                                \* the ->create that holds the directory's lock
  pc, alloc,                               \* per task: its step, and its run of blocks
  astray                                   \* for the properties: was a file opened by a
                                           \* number that no create has taken?

bitmaps == <<inode_bitmap, block_bitmap>>
tasks   == <<fds, creating, pc, alloc>>
vars    == <<inode_bitmap, block_bitmap, inode_table, data_blocks, dcache, fds, creating,
             pc, alloc, astray>>

NewOsfsInode == [i_size |-> 0, ee_start |-> 0, ee_len |-> 0]

(* osfs_fill_super: the root has inode 1 and an extent of one block, the first. *)
Init == /\ inode_bitmap = {ROOT_INODE} /\ block_bitmap = {0}
        /\ inode_table = [ino \in Inodes |->
                            IF ino = ROOT_INODE THEN [NewOsfsInode EXCEPT !.ee_len = 1]
                                                ELSE NewOsfsInode]
        /\ data_blocks = [c \in Cells |-> 0]
        /\ dcache = [n \in Names |-> Uncached]
        /\ fds = [fd \in Fds |-> Closed] /\ creating = NoCreate
        /\ pc = [t \in Tasks |-> "idle"] /\ alloc = [t \in Tasks |-> NoRun]
        /\ astray = FALSE
-----------------------------------------------------------------------------
count == inode_table[ROOT_INODE].i_size              \* counted in entries
NameCell(e) == 2 * e
InoCell(e) == 2 * e + 1
FirstCell(ino) == inode_table[ino].ee_start * BLOCK_SIZE

(* osfs_lookup: the first entry with the name; ELSE an entry that is not there *)
Matches(n, e) == e \in 0 .. count - 1 /\ data_blocks[NameCell(e)] = n
OnDisk(n) == \E e \in 0 .. count - 1 : Matches(n, e)
Found(n, e) == Matches(n, e) /\ \A x \in 0 .. e - 1 : ~Matches(n, x)

(* The kernel reclaims a dentry nobody has open. *)
Shrink(n) == /\ dcache[n] # Uncached /\ \A fd \in Fds : fds[fd].ino # dcache[n]
             /\ dcache' = [dcache EXCEPT ![n] = Uncached]
             /\ UNCHANGED <<bitmaps, inode_table, data_blocks, tasks, astray>>

(* The inode a task works on, and what it does when it has no blocks to look for. *)
InodeAt(t) == IF t = Creator THEN creating.ino ELSE fds[t].ino
Onward(t) == IF t = Creator THEN "name" ELSE "copy"
-----------------------------------------------------------------------------
(* osfs_alloc_extent, for create and for the first write: one bit at a time. *)
Run(b, n) == b .. b + n - 1
IsFreeRunShort(b) == b + Extent < DATA_BLOCK_COUNT /\ Run(b, Extent) \cap block_bitmap = {}
IsFreeRun(b) == b + Extent <= DATA_BLOCK_COUNT /\ Run(b, Extent) \cap block_bitmap = {}
LowestFreeRun(b) == IsFreeRun(b) /\ \A c \in Blocks : IsFreeRun(c) => b <= c

(* Without a free run ->write fails, and ->create goes on. *)
Scan(t) ==
  /\ pc[t] = "scan"
  /\ \/ \E b \in Blocks :
          /\ LowestFreeRun(b)
          /\ alloc' = [alloc EXCEPT ![t].start = b]
          /\ pc' = [pc EXCEPT ![t] = "mark"]
     \/ /\ \A b \in Blocks : ~IsFreeRun(b)
        /\ pc' = [pc EXCEPT ![t] = IF t = Creator THEN "name" ELSE "idle"]
        /\ UNCHANGED alloc
  /\ UNCHANGED <<bitmaps, inode_table, data_blocks, dcache, fds, creating, astray>>

MarkShort(t) ==
  /\ pc[t] = "mark" /\ alloc[t].marked < Extent
  /\ alloc' = [alloc EXCEPT ![t].marked = Extent]
  /\ block_bitmap' = block_bitmap \cup {alloc[t].start}
  /\ UNCHANGED <<inode_bitmap, inode_table, data_blocks, dcache, fds, creating, pc, astray>>
Mark(t) ==
  /\ pc[t] = "mark" /\ alloc[t].marked < Extent
  /\ alloc' = [alloc EXCEPT ![t].marked = @ + 1]
  /\ block_bitmap' = block_bitmap \cup {alloc[t].start + alloc[t].marked}
  /\ UNCHANGED <<inode_bitmap, inode_table, data_blocks, dcache, fds, creating, pc, astray>>

StoreStart(t) ==
  /\ pc[t] = "mark" /\ alloc[t].marked = Extent
  /\ inode_table' = [inode_table EXCEPT ![InodeAt(t)].ee_start = alloc[t].start]
  /\ pc' = [pc EXCEPT ![t] = "extent"]
  /\ alloc' = [alloc EXCEPT ![t] = NoRun]
  /\ UNCHANGED <<bitmaps, data_blocks, dcache, fds, creating, astray>>
StoreLen(t) ==
  /\ pc[t] = "extent"
  /\ inode_table' = [inode_table EXCEPT ![InodeAt(t)].ee_len = Extent]
  /\ pc' = [pc EXCEPT ![t] = Onward(t)]
  /\ UNCHANGED <<bitmaps, data_blocks, dcache, fds, creating, alloc, astray>>
-----------------------------------------------------------------------------
(* osfs_create: a new inode, then a run for it, then the entry. *)
FreeInodes == Inodes \ inode_bitmap
TakeInode(ino) == /\ ino \in FreeInodes /\ \A x \in FreeInodes : ino <= x
                  /\ inode_bitmap' = inode_bitmap \cup {ino}

Create(n) ==
  /\ pc[Creator] = "idle" /\ dcache[n] = Uncached /\ ~OnDisk(n)
  /\ \E ino \in Inodes :
       /\ TakeInode(ino)
       /\ inode_table' = [inode_table EXCEPT ![ino] = NewOsfsInode]
       /\ creating' = [name |-> n, ino |-> ino]
  /\ pc' = [pc EXCEPT ![Creator] = "scan"]
  /\ UNCHANGED <<block_bitmap, data_blocks, dcache, fds, alloc, astray>>

(* strncpy copies the whole name and no final '\0'.  Over bytes of a file the name is
   another; one that is longer than its field runs into the number behind it, and is
   found only if that number reads as its last letter. *)
EntryName(n) == {n} \cup (IF data_blocks[NameCell(count)] = 0 /\ Reach[n] = 1
                          THEN {} ELSE {Garbled})
PutName ==
  /\ pc[Creator] = "name"
  /\ \E name \in EntryName(creating.name) :
       data_blocks' = [c \in Cells |->
         IF c = NameCell(count) THEN name
         ELSE IF c - NameCell(count) \in 1 .. Reach[creating.name] - 1 THEN Letters
         ELSE data_blocks[c]]
  /\ pc' = [pc EXCEPT ![Creator] = "number"]
  /\ UNCHANGED <<bitmaps, inode_table, dcache, fds, creating, alloc, astray>>

(* The new inode has no file operations: open(O_CREAT) fails on it, and its dentry is
   not hashed. *)
PutNumber ==
  /\ pc[Creator] = "number"
  /\ data_blocks' = [data_blocks EXCEPT ![InoCell(count)] = creating.ino]
  /\ inode_table' = [inode_table EXCEPT ![ROOT_INODE].i_size = @ + 1]
  /\ creating' = NoCreate
  /\ pc' = [pc EXCEPT ![Creator] = "idle"]
  /\ UNCHANGED <<bitmaps, dcache, fds, alloc, astray>>
-----------------------------------------------------------------------------
(* The VFS opens what the hashed dentry says.  A name that has none it looks up, under
   the directory's lock: osfs_iget of the number in the entry, which refuses a number
   out of range. *)
Open(fd, n) ==
  \E ino \in Inodes \ {ROOT_INODE} :
    /\ fds[fd] = Closed
    /\ \/ dcache[n] = ino
       \/ /\ dcache[n] = Uncached /\ pc[Creator] = "idle"
          /\ \E e \in 0 .. count - 1 : Found(n, e) /\ data_blocks[InoCell(e)] = ino
    /\ fds' = [fds EXCEPT ![fd].ino = ino]
    /\ dcache' = [dcache EXCEPT ![n] = ino]
    /\ astray' = (astray \/ ino \notin inode_bitmap)
    /\ UNCHANGED <<bitmaps, inode_table, data_blocks, creating, pc, alloc>>

(* The VFS: close and seek. *)
Idle(fd) == fds[fd].ino # 0 /\ pc[fd] = "idle"

Close(fd) == /\ Idle(fd)
             /\ fds' = [fds EXCEPT ![fd] = Closed]
             /\ UNCHANGED <<bitmaps, inode_table, data_blocks, dcache, creating, pc, alloc, astray>>
Seek(fd, p) == /\ Idle(fd)
               /\ fds' = [fds EXCEPT ![fd].pos = p]
               /\ UNCHANGED <<bitmaps, inode_table, data_blocks, dcache, creating, pc, alloc, astray>>

InodeOf(fd) == inode_table[fds[fd].ino]
Capacity(fd) == InodeOf(fd).ee_len * BLOCK_SIZE
Smaller(x, y) == IF x < y THEN x ELSE y

(* osfs_read: nothing past i_size or without an extent *)
ReadLen(fd, len) ==
  IF fds[fd].pos >= InodeOf(fd).i_size \/ InodeOf(fd).ee_len = 0 THEN 0
  ELSE Smaller(len, InodeOf(fd).i_size - fds[fd].pos)
Read(fd, len) == /\ Idle(fd)
                 /\ fds' = [fds EXCEPT ![fd].pos = @ + ReadLen(fd, len)]
                 /\ UNCHANGED <<bitmaps, inode_table, data_blocks, dcache, creating, pc, alloc, astray>>

(* osfs_write, its first part: a file without an extent is to get one. *)
Begin(fd) ==
  /\ Idle(fd)
  /\ pc' = [pc EXCEPT ![fd] = IF InodeOf(fd).ee_len = 0 THEN "scan" ELSE "copy"]
  /\ UNCHANGED <<bitmaps, inode_table, data_blocks, dcache, fds, creating, alloc, astray>>

ClampedToNothing(fd, len) == len
Clamped(fd, len) == Smaller(len, Capacity(fd) - fds[fd].pos)
WithinExtent(fd) == fds[fd].pos <= Capacity(fd)

CopyInUnscaled(fd, f) ==
  LET c0 == inode_table[fds[fd].ino].ee_start + fds[fd].pos
  IN  data_blocks' = [c \in Cells |-> IF c - c0 \in DOMAIN f THEN f[c - c0]
                                                          ELSE data_blocks[c]]
CopyIn(fd, f) ==
  LET c0 == FirstCell(fds[fd].ino) + fds[fd].pos
  IN  data_blocks' = [c \in Cells |-> IF c - c0 \in DOMAIN f THEN f[c - c0]
                                                          ELSE data_blocks[c]]

(* The data are copied up to the end of the extent, and the position moves. *)
Write(fd, len, byte) ==
  LET n == Clamped(fd, len)
  IN  /\ pc[fd] = "copy" /\ WithinExtent(fd)
      /\ CopyIn(fd, [j \in 0 .. n - 1 |-> byte])
      /\ fds' = [fds EXCEPT ![fd].pos = @ + n]
      /\ pc' = [pc EXCEPT ![fd] = "compare"]
      /\ UNCHANGED <<bitmaps, inode_table, dcache, creating, alloc, astray>>

(* Past the extent the length is a huge size_t, which copy_from_user refuses. *)
WriteBeyond(fd) ==
  /\ pc[fd] = "copy" /\ ~WithinExtent(fd)
  /\ pc' = [pc EXCEPT ![fd] = "idle"]
  /\ UNCHANGED <<bitmaps, inode_table, data_blocks, dcache, fds, creating, alloc, astray>>

(* copy_from_user stops after k cells and zeroes the rest. *)
WriteFault(fd, len, byte, k) ==
  LET n == Clamped(fd, len)
  IN  /\ UserFaults /\ pc[fd] = "copy" /\ WithinExtent(fd) /\ k < n
      /\ CopyIn(fd, [j \in 0 .. n - 1 |-> IF j < k THEN byte ELSE 0])
      /\ pc' = [pc EXCEPT ![fd] = "idle"]
      /\ UNCHANGED <<bitmaps, inode_table, dcache, fds, creating, alloc, astray>>

(* osfs_write, its last part: the file grows to the position. *)
Compare(fd) ==
  /\ pc[fd] = "compare"
  /\ pc' = [pc EXCEPT ![fd] = IF fds[fd].pos > InodeOf(fd).i_size THEN "store" ELSE "idle"]
  /\ UNCHANGED <<bitmaps, inode_table, data_blocks, dcache, fds, creating, alloc, astray>>
Store(fd) ==
  /\ pc[fd] = "store"
  /\ inode_table' = [inode_table EXCEPT ![fds[fd].ino].i_size = fds[fd].pos]
  /\ pc' = [pc EXCEPT ![fd] = "idle"]
  /\ UNCHANGED <<bitmaps, data_blocks, dcache, fds, creating, alloc, astray>>

Next == \/ \E n \in Names : Create(n) \/ Shrink(n)
        \/ PutName \/ PutNumber
        \/ \E t \in Tasks : Scan(t) \/ Mark(t) \/ StoreStart(t) \/ StoreLen(t)
        \/ \E fd \in Fds :
             \/ \E n \in Names : Open(fd, n)
             \/ \E p \in Positions : Seek(fd, p)
             \/ Close(fd) \/ Begin(fd) \/ WriteBeyond(fd) \/ Compare(fd) \/ Store(fd)
             \/ \E len \in Lengths :
                  \/ Read(fd, len)
                  \/ \E byte \in Bytes : \/ Write(fd, len, byte)
                                         \/ \E k \in Lengths : WriteFault(fd, len, byte, k)

Spec == Init /\ [][Next]_vars
-----------------------------------------------------------------------------
Steps == {"idle", "scan", "mark", "extent", "name", "number", "copy", "compare", "store"}
TypeOK ==
  /\ inode_bitmap \subseteq Inodes /\ block_bitmap \subseteq Blocks
  /\ inode_table \in [Inodes -> [i_size : Nat, ee_start : Blocks, ee_len : {0, 1, Extent}]]
  /\ data_blocks \in [Cells -> Nat]
  /\ dcache \in [Names -> {Uncached} \cup Inodes]
  /\ fds \in [Fds -> [ino : {0} \cup Inodes, pos : Nat]]
  /\ creating \in [name : {0} \cup Names, ino : {0} \cup Inodes]
  /\ pc \in [Tasks -> Steps]
  /\ alloc \in [Tasks -> [start : Blocks, marked : 0 .. Extent]]
  /\ astray \in BOOLEAN

(* What the three properties below rest on: no entry lies past the directory's block,
   or nobody has yet opened a file by a number that users wrote over one. *)
Sound == count <= MAX_DIR_ENTRIES \/ ~astray

BlocksOf(ino) == Run(inode_table[ino].ee_start, inode_table[ino].ee_len)

(* While the file system is sound no two inodes share a block and every block of an
   extent is marked, whoever allocates meanwhile. *)
ExtentsDisjoint ==
  Sound => \A x, y \in Inodes : /\ BlocksOf(x) \subseteq block_bitmap
                               /\ x # y => BlocksOf(x) \cap BlocksOf(y) = {}

(* While the file system is sound no file gets a size past the end of its extent,
   where a read would return another file's cells; however its writers overlap. *)
SizeWithinExtent ==
  Sound => \A ino \in Inodes \ {ROOT_INODE} :
             inode_table[ino].i_size <= inode_table[ino].ee_len * BLOCK_SIZE

(* A file that create left without an extent keeps waiting: no free run will turn
   up, and the allocation at the first write cannot succeed. *)
ExtentlessForGood ==
  \A ino \in inode_bitmap \ {creating.ino}, b \in Blocks :
    inode_table[ino].ee_len = 0 /\ b + Extent <= DATA_BLOCK_COUNT =>
      Run(b, Extent) \cap block_bitmap # {}

CellsOf(ino) == FirstCell(ino) .. FirstCell(ino) + inode_table[ino].ee_len * BLOCK_SIZE - 1

(* While the file system is sound, the cells of a file are changed by a ->write that has
   the file open.  A create changes them in two cases only: its entry lies past the
   directory's block, and the file is the one whose extent follows that block; or its
   name is so long that it reaches past its entry, as far as that. *)
DamageConfined ==
  [][Sound => \A ino \in Inodes \ {ROOT_INODE} : \A c \in CellsOf(ino) :
       data_blocks'[c] # data_blocks[c]
       => \/ \E fd \in Fds : fds[fd].ino = ino /\ pc[fd] = "copy" /\ pc'[fd] # "copy"
          \/ /\ pc[Creator] \in {"name", "number"} /\ pc'[Creator] # pc[Creator]
             /\ \/ /\ count >= MAX_DIR_ENTRIES /\ c \in NameCell(count) .. InoCell(count)
                   /\ inode_table[ino].ee_start = 1
                \/ /\ pc[Creator] = "name"
                   /\ c \in InoCell(count) .. NameCell(count) + Reach[creating.name] - 1]_vars
=============================================================================
