------------------------- MODULE OsfsExtent_proofs -------------------------
(***************************************************************************)
(* What holds of OsfsExtent for every size of the file system and of the   *)
(* extents, any number of descriptors, any reach of the names, and with    *)
(* unmapped user memory.                                                   *)
(*                                                                         *)
(* Blocks are never given back and inodes are taken in order, so that the  *)
(* marked inodes are those of the directory and its files, and the first   *)
(* extent starts at block 1, right behind the directory.  While nobody has *)
(* gone astray, every open inode is one that a create has finished: either *)
(* it has an extent, which no step changes, or no run of blocks is free.   *)
(* So the first writes find nothing to allocate, the create in progress is *)
(* the only one that does, and nobody marks a bit between its test and its *)
(* set_bit.  Going astray takes an entry past the directory's block: the   *)
(* numbers of the others lie in block 0, which no ->write reaches.         *)
(***************************************************************************)
EXTENDS OsfsExtent, TLAPS

CreateSteps == {"scan", "mark", "extent", "name", "number"}
WriteSteps == {"scan", "mark", "extent", "copy", "compare", "store"}

Made == inode_bitmap \ {creating.ino}      \* by a create that has returned, or the root
NothingFree == \A b \in Blocks : ~IsFreeRun(b)

Reserved ==
  /\ count \in Nat /\ 0 \in block_bitmap
  /\ inode_table[ROOT_INODE].ee_start = 0 /\ inode_table[ROOT_INODE].ee_len = 1
  /\ \/ pc[Creator] = "idle" /\ creating.ino = 0 /\ inode_bitmap = 1 .. count + 1
     \/ /\ pc[Creator] \in CreateSteps /\ creating.name \in Names
        /\ creating.ino = count + 2 /\ inode_bitmap = 1 .. count + 2

InArea == \A t \in Tasks : alloc[t].start + Extent <= DATA_BLOCK_COUNT

Extentless ==
  /\ \A ino \in Made : inode_table[ino].ee_len = 0 => NothingFree
  /\ pc[Creator] \in {"name", "number"} =>
       inode_table[creating.ino].ee_len # 0 \/ NothingFree

Opened == \A fd \in Fds : /\ fds[fd].ino # ROOT_INODE
                          /\ pc[fd] # "idle" => pc[fd] \in WriteSteps /\ fds[fd].ino # 0

Known == /\ \A n \in Names : dcache[n] \in {Uncached} \cup Made
         /\ \A fd \in Fds : fds[fd].ino \in {0} \cup Made
Waiting == \A fd \in Fds : /\ pc[fd] \notin {"mark", "extent"}
                           /\ pc[fd] = "scan" => NothingFree
WritersWithin == \A fd \in Fds : pc[fd] \in {"compare", "store"} => fds[fd].pos <= Capacity(fd)
SizesWithin == \A ino \in Inodes \ {ROOT_INODE} :
                 inode_table[ino].i_size <= inode_table[ino].ee_len * BLOCK_SIZE

Apart == \A x, y \in Inodes : /\ BlocksOf(x) \subseteq block_bitmap
                              /\ x # y => BlocksOf(x) \cap BlocksOf(y) = {}
Aligned ==
  \A ino \in Inodes \ {ROOT_INODE} :
    inode_table[ino].ee_len # 0 => \/ inode_table[ino].ee_start = 1
                                   \/ inode_table[ino].ee_start > Extent

(* A run that no inode has: the first, or one behind it. *)
Reservable(b) == /\ b = 1 \/ (b > Extent /\ Run(1, Extent) \subseteq block_bitmap)
                 /\ \A x \in Inodes : BlocksOf(x) \cap Run(b, Extent) = {}
Allocating ==
  /\ pc[Creator] # "mark" => alloc[Creator].marked = 0
  /\ pc[Creator] \in {"scan", "mark", "extent"} => inode_table[creating.ino].ee_len = 0
  /\ pc[Creator] = "mark" =>
       /\ Reservable(alloc[Creator].start)
       /\ \A c \in Run(alloc[Creator].start, Extent) :
            c \in block_bitmap <=> c < alloc[Creator].start + alloc[Creator].marked
  /\ pc[Creator] = "extent" =>
       /\ Reservable(inode_table[creating.ino].ee_start)
       /\ Run(inode_table[creating.ino].ee_start, Extent) \subseteq block_bitmap
  /\ pc[Creator] # "mark" => block_bitmap = {0} \/ Run(1, Extent) \subseteq block_bitmap

Calm == /\ Known /\ Waiting /\ WritersWithin /\ SizesWithin
        /\ Apart /\ Aligned /\ Allocating

EntriesOwn == \A e \in 0 .. count - 1 : data_blocks[InoCell(e)] \in 1 .. count + 1

IInv == /\ TypeOK /\ Reserved /\ InArea /\ Extentless /\ Opened
        /\ ~astray => Calm
        /\ count <= MAX_DIR_ENTRIES => EntriesOwn /\ ~astray
-----------------------------------------------------------------------------
(* What the assumption says of the sizes. *)
LEMMA Sizes == /\ INODE_COUNT \in Nat /\ INODE_COUNT > 2
               /\ BLOCK_SIZE \in Nat /\ BLOCK_SIZE > 0 /\ Extent \in Nat /\ Extent > 0
               /\ DATA_BLOCK_COUNT \in Nat /\ DATA_BLOCK_COUNT > Extent
               /\ ROOT_INODE = 1 /\ ROOT_INODE \in Inodes /\ 0 \in Blocks /\ 1 \in Blocks
               /\ Creator \in Tasks /\ Creator \notin Fds
               /\ \A fd \in Fds : fd \in Tasks /\ fd # Creator
BY ExtentAssumption DEF ROOT_INODE, Inodes, Blocks, Tasks

(* More blocks have more cells. *)
LEMMA Scaled == ASSUME NEW a \in Nat, NEW b \in Nat, a <= b
                PROVE  a * BLOCK_SIZE \in Nat /\ a * BLOCK_SIZE <= b * BLOCK_SIZE
<1>1. PICK d \in Nat : b = a + d
  <2>1. b - a \in Nat /\ b = a + (b - a)
    OBVIOUS
  <2> QED
    BY <2>1
<1>2. BLOCK_SIZE \in Nat
  BY Sizes
<1>3. b * BLOCK_SIZE = a * BLOCK_SIZE + d * BLOCK_SIZE
  BY <1>1, <1>2
<1>4. a * BLOCK_SIZE \in Nat /\ d * BLOCK_SIZE \in Nat
  BY <1>1, <1>2
<1> QED
  BY <1>3, <1>4

(* The inodes of the files, and the next one. *)
LEMMA Inode ==
  ASSUME IInv
  PROVE  /\ count \in Nat /\ Made = 1 .. count + 1 /\ Made \subseteq inode_bitmap
         /\ inode_bitmap \subseteq Inodes /\ ROOT_INODE \in Made
         /\ pc[Creator] = "idle" => inode_bitmap = Made
         /\ pc[Creator] # "idle" => /\ creating.ino = count + 2 /\ creating.name \in Names
                                    /\ creating.ino \in Inodes \ {ROOT_INODE}
                                    /\ creating.ino \notin Made
                                    /\ inode_bitmap = Made \cup {creating.ino}
<1>1. Reserved /\ TypeOK /\ count \in Nat /\ inode_bitmap \subseteq Inodes
  BY DEF IInv, Reserved, TypeOK
<1>2. CASE pc[Creator] = "idle"
  <2>1. creating.ino = 0 /\ inode_bitmap = 1 .. count + 1
    BY <1>1, <1>2 DEF Reserved, CreateSteps
  <2> QED
    BY <1>1, <1>2, <2>1, Sizes DEF Made
<1>3. CASE pc[Creator] # "idle"
  <2>1. creating.ino = count + 2 /\ inode_bitmap = 1 .. count + 2 /\ creating.name \in Names
    BY <1>1, <1>3 DEF Reserved
  <2>2. Made = 1 .. count + 1
    BY <1>1, <2>1 DEF Made
  <2> QED
    BY <1>1, <1>3, <2>1, <2>2, Sizes
<1> QED
  BY <1>2, <1>3

(* The record of an inode. *)
LEMMA Record ==
  ASSUME IInv, NEW x \in Inodes
  PROVE  /\ inode_table[x] \in [i_size : Nat, ee_start : Blocks, ee_len : {0, 1, Extent}]
         /\ inode_table[x].ee_start \in Nat /\ inode_table[x].ee_len \in Nat
         /\ inode_table[x].i_size \in Nat
<1>1. inode_table[x] \in [i_size : Nat, ee_start : Blocks, ee_len : {0, 1, Extent}]
  BY DEF IInv, TypeOK
<1> QED
  BY <1>1, Sizes DEF Blocks

(* A file's extent lies behind the block of the directory. *)
LEMMA BehindDirectory ==
  ASSUME IInv, Aligned, NEW ino \in Inodes \ {ROOT_INODE}, inode_table[ino].ee_len # 0
  PROVE  inode_table[ino].ee_start >= 1
<1>1. inode_table[ino].ee_start = 1 \/ inode_table[ino].ee_start > Extent
  BY DEF Aligned
<1> QED
  BY <1>1, Record, Sizes

(* Files share no cell, with one another or with the directory. *)
LEMMA CellsApart ==
  ASSUME IInv, Apart, NEW x \in Inodes, NEW y \in Inodes, x # y,
         NEW c \in CellsOf(x)
  PROVE  c \notin CellsOf(y)
<1> DEFINE a == inode_table[x].ee_start
           l == inode_table[x].ee_len
           b == inode_table[y].ee_start
           m == inode_table[y].ee_len
<1>1. a \in Nat /\ l \in Nat /\ b \in Nat /\ m \in Nat
  BY Record
<1>2. l # 0 /\ m # 0 => a + l <= b \/ b + m <= a
  <2>1. SUFFICES ASSUME l # 0, m # 0, a + l > b, b + m > a PROVE FALSE
    BY <1>1
  <2>2. BlocksOf(x) \cap BlocksOf(y) = {}
    BY DEF Apart
  <2>3. CASE a <= b
    BY <1>1, <2>1, <2>2, <2>3 DEF BlocksOf, Run
  <2>4. CASE b <= a
    BY <1>1, <2>1, <2>2, <2>4 DEF BlocksOf, Run
  <2> QED
    BY <1>1, <2>3, <2>4
<1>3. BLOCK_SIZE \in Nat
  BY Sizes
<1>4. /\ (a + l) * BLOCK_SIZE = a * BLOCK_SIZE + l * BLOCK_SIZE
      /\ (b + m) * BLOCK_SIZE = b * BLOCK_SIZE + m * BLOCK_SIZE
  BY <1>1, <1>3
<1>5. /\ a * BLOCK_SIZE \in Nat /\ l * BLOCK_SIZE \in Nat
      /\ b * BLOCK_SIZE \in Nat /\ m * BLOCK_SIZE \in Nat
  BY <1>1, <1>3
<1>6. /\ c >= a * BLOCK_SIZE /\ c < a * BLOCK_SIZE + l * BLOCK_SIZE /\ c \in Int
  BY <1>5 DEF CellsOf, FirstCell
<1>7. SUFFICES ASSUME c >= b * BLOCK_SIZE, c < b * BLOCK_SIZE + m * BLOCK_SIZE PROVE FALSE
  BY <1>5, <1>6 DEF CellsOf, FirstCell
<1>8. l # 0 /\ m # 0
  BY <1>3, <1>5, <1>6, <1>7
<1>9. CASE a + l <= b
  BY <1>1, <1>4, <1>5, <1>6, <1>7, <1>9, Scaled
<1>10. CASE b + m <= a
  BY <1>1, <1>4, <1>5, <1>6, <1>7, <1>10, Scaled
<1> QED
  BY <1>2, <1>8, <1>9, <1>10
-----------------------------------------------------------------------------
(* The steps that leave the bitmaps, the inode table and the create in progress alone:
   those of the descriptors, but for the allocation and the store of i_size. *)
LEMMA TableKept ==
  ASSUME IInv, UNCHANGED <<bitmaps, inode_table, creating, alloc>>, pc'[Creator] = pc[Creator],
         TypeOK', Opened',
         ~astray' => /\ ~astray
                     /\ Calm => Known' /\ Waiting' /\ WritersWithin',
         count <= MAX_DIR_ENTRIES => EntriesOwn' /\ ~astray'
  PROVE  IInv'
<1>1. /\ inode_bitmap' = inode_bitmap /\ block_bitmap' = block_bitmap
      /\ inode_table' = inode_table /\ creating' = creating /\ alloc' = alloc
      /\ pc'[Creator] = pc[Creator]
  BY DEF bitmaps
<1>2. count' = count /\ Reserved' /\ InArea'
  BY <1>1 DEF IInv, Reserved, InArea, count
<1>3. Extentless'
  BY <1>1 DEF IInv, Extentless, Made, NothingFree, IsFreeRun
<1>4. ASSUME ~astray' PROVE Calm'
  <2>1. Calm /\ Known' /\ Waiting' /\ WritersWithin'
    BY <1>4 DEF IInv
  <2>2. SizesWithin' /\ Apart' /\ Aligned'
    BY <1>1, <2>1 DEF Calm, SizesWithin, Apart, Aligned, BlocksOf
  <2>3. Allocating'
    BY <1>1, <2>1 DEF Calm, Allocating, Reservable, BlocksOf
  <2> QED
    BY <2>1, <2>2, <2>3 DEF Calm
<1> QED
  BY <1>2, <1>3, <1>4 DEF IInv

(* The steps of one descriptor that leave the data alone too. *)
LEMMA DescriptorStep ==
  ASSUME IInv, NEW fd \in Fds, NEW f \in [ino : {0} \cup Inodes, pos : Nat],
         NEW s \in {"idle", "scan", "copy", "compare", "store"},
         fds' = [fds EXCEPT ![fd] = f], pc' = [pc EXCEPT ![fd] = s],
         f.ino \in {0, fds[fd].ino}, s # "idle" => f.ino # 0,
         s = "scan" => inode_table[fds[fd].ino].ee_len = 0 /\ f.ino = fds[fd].ino,
         s \in {"compare", "store"} => pc[fd] = "compare" /\ f = fds[fd],
         UNCHANGED <<bitmaps, inode_table, data_blocks, dcache, creating, alloc, astray>>
  PROVE  IInv'
<1>1. TypeOK /\ Opened
  BY DEF IInv
<1>2. /\ fds'[fd] = f /\ \A x \in Fds \ {fd} : fds'[x] = fds[x]
      /\ pc'[fd] = s /\ \A x \in Tasks \ {fd} : pc'[x] = pc[x]
  BY <1>1, Sizes DEF TypeOK
<1>3. Opened'
  BY <1>1, <1>2, Sizes DEF Opened, WriteSteps
<1>4. TypeOK'
  <2>1. fds' \in [Fds -> [ino : {0} \cup Inodes, pos : Nat]]
    BY <1>1 DEF TypeOK
  <2>2. pc' \in [Tasks -> Steps]
    BY <1>1, Sizes DEF TypeOK, Steps
  <2> QED
    BY <1>1, <2>1, <2>2 DEF TypeOK, bitmaps
<1>5. ASSUME Calm PROVE Known' /\ Waiting' /\ WritersWithin'
  <2>1. Known'
    BY <1>2, <1>5 DEF Calm, Known, Made, bitmaps
  <2>2. s = "scan" => NothingFree
    BY <1>1, <1>2, <1>5 DEF Calm, Known, IInv, Extentless, Opened
  <2>3. NothingFree' <=> NothingFree
    BY DEF NothingFree, IsFreeRun, bitmaps
  <2>4. Waiting'
    BY <1>2, <1>5, <2>2, <2>3, Sizes DEF Calm, Waiting
  <2>5. WritersWithin'
    BY <1>2, <1>5, Sizes DEF Calm, WritersWithin, Capacity, InodeOf
  <2> QED
    BY <2>1, <2>4, <2>5
<1>6. count <= MAX_DIR_ENTRIES => EntriesOwn' /\ ~astray'
  BY DEF IInv, EntriesOwn, count
<1> QED
  BY <1>2, <1>3, <1>4, <1>5, <1>6, Sizes, TableKept

(* A file's capacity is a number, and its descriptor one of a file. *)
LEMMA InCall ==
  ASSUME IInv, NEW fd \in Fds, fds[fd].ino # 0
  PROVE  /\ fds[fd].ino \in Inodes \ {ROOT_INODE}
         /\ Capacity(fd) \in Nat /\ fds[fd].pos \in Nat
         /\ FirstCell(fds[fd].ino) \in Nat
         /\ CellsOf(fds[fd].ino) = FirstCell(fds[fd].ino) .. FirstCell(fds[fd].ino) + Capacity(fd) - 1
<1>1. fds[fd].ino \in Inodes \ {ROOT_INODE} /\ fds[fd].pos \in Nat
  BY DEF IInv, TypeOK, Opened
<1>2. inode_table[fds[fd].ino].ee_len \in Nat /\ inode_table[fds[fd].ino].ee_start \in Nat
  BY <1>1, Record
<1>3. Capacity(fd) \in Nat /\ FirstCell(fds[fd].ino) \in Nat
  BY <1>2, Sizes DEF Capacity, InodeOf, FirstCell
<1>4. CellsOf(fds[fd].ino) = FirstCell(fds[fd].ino) .. FirstCell(fds[fd].ino) + Capacity(fd) - 1
  BY DEF CellsOf, Capacity, InodeOf
<1> QED
  BY <1>1, <1>3, <1>4

(* The record of a descriptor, and a step of a task that is one. *)
LEMMA Descriptor ==
  ASSUME IInv, NEW fd \in Fds
  PROVE  /\ fds[fd] \in [ino : {0} \cup Inodes, pos : Nat]
         /\ fds = [fds EXCEPT ![fd] = fds[fd]] /\ pc = [pc EXCEPT ![fd] = pc[fd]]
         /\ pc[fd] # "idle" => fds[fd].ino # 0
BY Sizes DEF IInv, TypeOK, Opened

LEMMA CloseStep == ASSUME IInv, NEW fd \in Fds, Close(fd) PROVE IInv'
<1>1. Closed \in [ino : {0} \cup Inodes, pos : Nat] /\ Closed.ino = 0
  BY DEF Closed
<1>2. fds' = [fds EXCEPT ![fd] = Closed] /\ pc' = [pc EXCEPT ![fd] = "idle"]
  BY Descriptor DEF Close, Idle
<1>3. UNCHANGED <<bitmaps, inode_table, data_blocks, dcache, creating, alloc, astray>>
  BY DEF Close
<1> QED
  BY <1>1, <1>2, <1>3, DescriptorStep

LEMMA SeekStep == ASSUME IInv, NEW fd \in Fds, NEW p \in Positions, Seek(fd, p) PROVE IInv'
<1> DEFINE f == [fds[fd] EXCEPT !.pos = p]
<1>1. p \in Nat
  BY ExtentAssumption
<1>2. f \in [ino : {0} \cup Inodes, pos : Nat] /\ f.ino = fds[fd].ino
  BY <1>1, Descriptor
<1>3. fds' = [fds EXCEPT ![fd] = f] /\ pc' = [pc EXCEPT ![fd] = "idle"]
  BY Descriptor DEF Seek, Idle
<1>4. UNCHANGED <<bitmaps, inode_table, data_blocks, dcache, creating, alloc, astray>>
  BY DEF Seek
<1> HIDE DEF f
<1> QED
  BY <1>2, <1>3, <1>4, DescriptorStep

LEMMA ReadStep == ASSUME IInv, NEW fd \in Fds, NEW len \in Lengths, Read(fd, len) PROVE IInv'
<1> DEFINE f == [fds[fd] EXCEPT !.pos = @ + ReadLen(fd, len)]
<1>1. len \in Nat
  BY ExtentAssumption
<1>2. fds[fd].ino \in Inodes
  BY InCall DEF Read, Idle
<1>3. ReadLen(fd, len) \in Nat
  <2>1. InodeOf(fd).i_size \in Nat /\ fds[fd].pos \in Nat
    BY <1>2, Record, Descriptor DEF InodeOf
  <2> QED
    BY <1>1, <2>1 DEF ReadLen, Smaller
<1>4. f \in [ino : {0} \cup Inodes, pos : Nat] /\ f.ino = fds[fd].ino
  BY <1>3, Descriptor
<1>5. fds' = [fds EXCEPT ![fd] = f] /\ pc' = [pc EXCEPT ![fd] = "idle"]
  BY Descriptor DEF Read, Idle
<1>6. UNCHANGED <<bitmaps, inode_table, data_blocks, dcache, creating, alloc, astray>>
  BY DEF Read
<1> HIDE DEF f
<1> QED
  BY <1>4, <1>5, <1>6, DescriptorStep

(* The steps of a ->write that move nothing but the descriptor's step. *)
LEMMA OnwardStep ==
  ASSUME IInv, NEW fd \in Fds, Begin(fd) \/ WriteBeyond(fd) \/ Compare(fd) PROVE IInv'
<1> DEFINE s == pc'[fd]
<1>1. /\ fds' = [fds EXCEPT ![fd] = fds[fd]] /\ fds[fd] \in [ino : {0} \cup Inodes, pos : Nat]
      /\ UNCHANGED <<bitmaps, inode_table, data_blocks, dcache, creating, alloc, astray>>
  BY Descriptor DEF Begin, WriteBeyond, Compare
<1>2. /\ pc' = [pc EXCEPT ![fd] = s] /\ s \in {"idle", "scan", "copy", "compare", "store"}
      /\ s = "scan" => inode_table[fds[fd].ino].ee_len = 0
      /\ s \in {"compare", "store"} => pc[fd] = "compare"
  <2>1. pc \in [Tasks -> Steps] /\ fd \in Tasks
    BY Sizes DEF IInv, TypeOK
  <2> QED
    BY <2>1 DEF Begin, WriteBeyond, Compare, InodeOf
<1>3. fds[fd].ino # 0
  BY Descriptor DEF Begin, WriteBeyond, Compare, Idle
<1> HIDE DEF s
<1>4. PICK g : g = s
  OBVIOUS
<1> QED
  BY <1>1, <1>2, <1>3, <1>4, DescriptorStep

LEMMA ShrinkStep == ASSUME IInv, NEW n \in Names, Shrink(n) PROVE IInv'
<1>1. TypeOK /\ Opened
  BY DEF IInv
<1>2. dcache' = [dcache EXCEPT ![n] = Uncached] /\ fds' = fds /\ pc' = pc /\ astray' = astray
      /\ UNCHANGED <<bitmaps, inode_table, data_blocks, creating, alloc>>
  BY DEF Shrink, tasks
<1>3. TypeOK' /\ Opened'
  BY <1>1, <1>2 DEF TypeOK, Opened, bitmaps
<1>4. ASSUME Calm PROVE Known' /\ Waiting' /\ WritersWithin'
  <2>1. Known'
    BY <1>1, <1>2, <1>4 DEF Calm, Known, Made, TypeOK, bitmaps
  <2>2. Waiting' /\ WritersWithin'
    BY <1>2, <1>4 DEF Calm, Waiting, WritersWithin, Capacity, InodeOf, NothingFree, IsFreeRun,
                      bitmaps
  <2> QED
    BY <2>1, <2>2
<1>5. count <= MAX_DIR_ENTRIES => EntriesOwn' /\ ~astray'
  BY <1>2 DEF IInv, EntriesOwn, count
<1> QED
  BY <1>2, <1>3, <1>4, <1>5, TableKept

(* An entry that lies within the directory's block names an inode that was made. *)
LEMMA OpenStep == ASSUME IInv, NEW fd \in Fds, NEW n \in Names, Open(fd, n) PROVE IInv'
<1>1. TypeOK /\ Opened
  BY DEF IInv
<1>2. PICK ino \in Inodes \ {ROOT_INODE} :
        /\ fds[fd] = Closed
        /\ \/ dcache[n] = ino
           \/ /\ dcache[n] = Uncached /\ pc[Creator] = "idle"
              /\ \E e \in 0 .. count - 1 : Found(n, e) /\ data_blocks[InoCell(e)] = ino
        /\ fds' = [fds EXCEPT ![fd].ino = ino]
        /\ dcache' = [dcache EXCEPT ![n] = ino]
        /\ astray' = (astray \/ ino \notin inode_bitmap)
        /\ UNCHANGED <<bitmaps, inode_table, data_blocks, creating, pc, alloc>>
  BY DEF Open
<1>3. ino # 0 /\ ino # ROOT_INODE
  BY DEF Inodes
<1>4. /\ \A x \in Fds \ {fd} : fds'[x] = fds[x]
      /\ fds'[fd].ino = ino /\ pc[fd] = "idle"
  BY <1>1, <1>2 DEF TypeOK, Closed, Opened
<1>5. ASSUME Calm, ino \in inode_bitmap PROVE ino \in Made
  <2>1. CASE dcache[n] = ino
    BY <1>3, <1>5, <2>1 DEF Calm, Known, Uncached
  <2>2. CASE pc[Creator] = "idle"
    BY <1>5, <2>2, Inode
  <2> QED
    BY <1>2, <2>1, <2>2
<1>6. TypeOK' /\ Opened'
  <2>1. fds' \in [Fds -> [ino : {0} \cup Inodes, pos : Nat]]
    BY <1>1, <1>2 DEF TypeOK
  <2>2. dcache' \in [Names -> {Uncached} \cup Inodes]
    BY <1>1, <1>2 DEF TypeOK
  <2>3. TypeOK'
    BY <1>1, <1>2, <2>1, <2>2 DEF TypeOK, bitmaps
  <2> QED
    BY <1>1, <1>2, <1>3, <1>4, <2>3 DEF Opened
<1>7. ASSUME ~astray' PROVE ~astray /\ (Calm => Known' /\ Waiting' /\ WritersWithin')
  <2>1. ~astray /\ ino \in inode_bitmap
    BY <1>2, <1>7
  <2>2. SUFFICES ASSUME Calm PROVE Known' /\ Waiting' /\ WritersWithin'
    BY <2>1
  <2>3. ino \in Made /\ Made' = Made
    BY <1>2, <1>5, <2>1, <2>2 DEF Made, bitmaps
  <2>4. Known'
    BY <1>1, <1>2, <1>4, <2>2, <2>3 DEF Calm, Known, TypeOK
  <2>5. Waiting'
    BY <1>2, <2>2 DEF Calm, Waiting, NothingFree, IsFreeRun, bitmaps
  <2>6. WritersWithin'
    BY <1>2, <1>4, <2>2 DEF Calm, WritersWithin, Capacity, InodeOf
  <2> QED
    BY <2>4, <2>5, <2>6
<1>8. ASSUME count <= MAX_DIR_ENTRIES PROVE EntriesOwn' /\ ~astray'
  <2>1. EntriesOwn /\ ~astray /\ Calm
    BY <1>8 DEF IInv
  <2>2. ino \in Made
    BY <1>2, <1>3, <2>1, Inode DEF Calm, Known, EntriesOwn, Uncached
  <2> QED
    BY <1>2, <2>1, <2>2, Inode DEF EntriesOwn, count
<1> QED
  BY <1>2, <1>6, <1>7, <1>8, TableKept
-----------------------------------------------------------------------------
(* What a step that marks or finds blocks, or changes the record of one inode, keeps of
   the rest. *)
LEMMA FreeStays ==
  ASSUME IInv, block_bitmap \subseteq block_bitmap', NothingFree PROVE NothingFree'
BY DEF NothingFree, IsFreeRun

(* A free run lies behind the directory's block: it is the first or behind the first. *)
LEMMA RunFound ==
  ASSUME IInv, Calm, pc[Creator] = "scan", NEW b \in Blocks, LowestFreeRun(b)
  PROVE  Reservable(b) /\ Run(b, Extent) \cap block_bitmap = {}
<1>1. /\ 0 \in block_bitmap /\ Run(b, Extent) \cap block_bitmap = {}
      /\ b + Extent <= DATA_BLOCK_COUNT /\ \A c \in Blocks : IsFreeRun(c) => b <= c
  BY DEF IInv, Reserved, LowestFreeRun, IsFreeRun
<1>2. b \in Run(b, Extent) /\ b \in Nat /\ b # 0
  BY <1>1, Sizes DEF Run, Blocks
<1>3. ASSUME block_bitmap = {0} PROVE b = 1
  <2>1. IsFreeRun(1)
    BY <1>3, Sizes DEF IsFreeRun, Run
  <2> QED
    BY <2>1, <1>1, <1>2, Sizes
<1>4. ASSUME Run(1, Extent) \subseteq block_bitmap PROVE b > Extent
  <2>1. b \notin Run(1, Extent)
    BY <1>1, <1>2, <1>4
  <2> QED
    BY <2>1, <1>2, Sizes DEF Run
<1>5. block_bitmap = {0} \/ Run(1, Extent) \subseteq block_bitmap
  BY DEF Calm, Allocating
<1>6. \A x \in Inodes : BlocksOf(x) \cap Run(b, Extent) = {}
  BY <1>1 DEF Calm, Apart
<1> QED
  BY <1>1, <1>3, <1>4, <1>5, <1>6 DEF Reservable

LEMMA ScanStep == ASSUME IInv, NEW t \in Tasks, Scan(t) PROVE IInv'
<1>1. TypeOK /\ Reserved /\ Opened /\ pc[t] = "scan"
      /\ UNCHANGED <<bitmaps, inode_table, data_blocks, dcache, fds, creating, astray>>
  BY DEF IInv, Scan
<1>2. /\ inode_bitmap' = inode_bitmap /\ block_bitmap' = block_bitmap /\ count' = count
      /\ NothingFree' = NothingFree /\ Made' = Made
  BY <1>1 DEF bitmaps, count, NothingFree, IsFreeRun, Made
<1>3. \/ \E b \in Blocks : /\ LowestFreeRun(b)
                           /\ alloc' = [alloc EXCEPT ![t].start = b]
                           /\ pc' = [pc EXCEPT ![t] = "mark"]
      \/ /\ NothingFree /\ alloc' = alloc
         /\ pc' = [pc EXCEPT ![t] = IF t = Creator THEN "name" ELSE "idle"]
  BY DEF Scan, NothingFree
<1>4. /\ pc' \in [Tasks -> Steps] /\ \A x \in Tasks \ {t} : pc'[x] = pc[x]
      /\ pc'[t] \in {"mark"} \cup (IF t = Creator THEN {"name"} ELSE {"idle"})
  BY <1>1, <1>3 DEF TypeOK, Steps
<1>5. TypeOK' /\ InArea'
  <2>1. /\ alloc' \in [Tasks -> [start : Blocks, marked : 0 .. Extent]]
        /\ \A x \in Tasks : alloc'[x].start + Extent <= DATA_BLOCK_COUNT
    <3>1. alloc \in [Tasks -> [start : Blocks, marked : 0 .. Extent]]
          /\ \A x \in Tasks : alloc[x].start + Extent <= DATA_BLOCK_COUNT
      BY DEF IInv, TypeOK, InArea
    <3>2. ASSUME NEW b \in Blocks, LowestFreeRun(b), alloc' = [alloc EXCEPT ![t].start = b]
          PROVE  /\ alloc' \in [Tasks -> [start : Blocks, marked : 0 .. Extent]]
                 /\ \A x \in Tasks : alloc'[x].start + Extent <= DATA_BLOCK_COUNT
      <4>1. b + Extent <= DATA_BLOCK_COUNT
        BY <3>2 DEF LowestFreeRun, IsFreeRun
      <4>2. alloc'[t].start = b /\ \A x \in Tasks \ {t} : alloc'[x] = alloc[x]
        BY <3>1, <3>2
      <4>3. alloc' \in [Tasks -> [start : Blocks, marked : 0 .. Extent]]
        BY <3>1, <3>2
      <4> QED
        BY <3>1, <4>1, <4>2, <4>3
    <3> QED
      BY <1>3, <3>1, <3>2
  <2> QED
    BY <1>1, <1>4, <2>1 DEF TypeOK, bitmaps, InArea
<1>6. Reserved'
  <2>1. pc'[Creator] # "idle" <=> pc[Creator] # "idle"
    BY <1>1, <1>4, Sizes
  <2>2. pc[Creator] # "idle" => pc'[Creator] \in CreateSteps
    BY <1>1, <1>4, Sizes DEF CreateSteps, Reserved
  <2> QED
    BY <1>1, <1>2, <2>1, <2>2 DEF Reserved, CreateSteps
<1>7. Opened'
  BY <1>1, <1>4, Sizes DEF Opened, WriteSteps
<1>8. Extentless'
  <2>1. pc'[Creator] \in {"name", "number"} => pc[Creator] \in {"name", "number"} \/ NothingFree
    BY <1>1, <1>3, <1>4, Sizes DEF TypeOK
  <2> QED
    BY <1>1, <1>2, <2>1 DEF IInv, Extentless
<1>9. ASSUME ~astray' PROVE Calm'
  <2>1. Calm
    BY <1>1, <1>9 DEF IInv
  <2>2. Known' /\ SizesWithin' /\ Apart' /\ Aligned'
    BY <1>1, <1>2, <2>1 DEF Calm, Known, SizesWithin, Apart, Aligned, BlocksOf
  <2>3. t # Creator => NothingFree
    BY <1>1, <2>1 DEF Calm, Waiting, Tasks
  <2>4. t # Creator => pc'[t] = "idle"
    BY <1>3, <2>3, <1>1 DEF NothingFree, LowestFreeRun, TypeOK
  <2>5. Waiting' /\ WritersWithin'
    BY <1>1, <1>2, <1>4, <2>1, <2>4, Sizes DEF Calm, Waiting, WritersWithin, Capacity, InodeOf
  <2>6. CASE t # Creator
    <3>1. alloc' = alloc /\ pc'[Creator] = pc[Creator]
      BY <1>3, <1>4, <2>3, <2>6, Sizes DEF NothingFree, LowestFreeRun
    <3> QED
      BY <1>1, <1>2, <2>1, <2>2, <2>5, <3>1 DEF Calm, Allocating, Reservable, BlocksOf
  <2>7. CASE t = Creator
    <3>1. /\ inode_table[creating.ino].ee_len = 0
          /\ block_bitmap = {0} \/ Run(1, Extent) \subseteq block_bitmap
      BY <1>1, <2>1, <2>7 DEF Calm, Allocating
    <3>2. ASSUME alloc' = alloc, pc'[Creator] = "name" PROVE Allocating'
      BY <1>1, <1>2, <2>1, <2>7, <3>1, <3>2 DEF Calm, Allocating
    <3>3. ASSUME NEW b \in Blocks, LowestFreeRun(b), alloc' = [alloc EXCEPT ![t].start = b],
                 pc'[Creator] = "mark"
          PROVE  Allocating'
      <4>1. Reservable(b) /\ Run(b, Extent) \cap block_bitmap = {}
        BY <1>1, <2>1, <2>7, <3>3, RunFound
      <4>2. alloc[t].marked = 0 => \A c \in Run(b, Extent) : ~(c < b + alloc[t].marked)
        BY Sizes DEF Run, Blocks
      <4>3. alloc'[Creator].start = b /\ alloc'[Creator].marked = alloc[Creator].marked
        BY <1>1, <2>7, <3>3 DEF TypeOK
      <4>4. alloc[Creator].marked = 0
        BY <1>1, <2>7, <2>1 DEF Calm, Allocating
      <4>5. Reservable(b)'
        BY <1>1, <1>2, <4>1 DEF Reservable, BlocksOf
      <4> QED
        BY <1>1, <1>2, <2>7, <3>1, <3>3, <4>1, <4>2, <4>3, <4>4, <4>5 DEF Allocating
    <3>4. \/ \E b \in Blocks : /\ LowestFreeRun(b) /\ alloc' = [alloc EXCEPT ![t].start = b]
                              /\ pc'[Creator] = "mark"
          \/ alloc' = alloc /\ pc'[Creator] = "name"
      BY <1>1, <1>3, <2>7 DEF TypeOK
    <3>5. Allocating'
      BY <3>2, <3>3, <3>4
    <3> QED
      BY <2>2, <2>5, <3>5 DEF Calm
  <2> QED
    BY <2>6, <2>7
<1>10. count <= MAX_DIR_ENTRIES => EntriesOwn' /\ ~astray'
  BY <1>1, <1>2 DEF IInv, EntriesOwn
<1> QED
  BY <1>2, <1>5, <1>6, <1>7, <1>8, <1>9, <1>10 DEF IInv
-----------------------------------------------------------------------------
(* A bit that is set: by the create in the run it found free, unless somebody is astray. *)
LEMMA MarkStep == ASSUME IInv, NEW t \in Tasks, Mark(t) PROVE IInv'
<1>1. TypeOK /\ Reserved /\ pc[t] = "mark" /\ alloc[t].marked < Extent
      /\ UNCHANGED <<inode_bitmap, inode_table, data_blocks, dcache, fds, creating, pc, astray>>
      /\ alloc' = [alloc EXCEPT ![t].marked = @ + 1]
      /\ block_bitmap' = block_bitmap \cup {alloc[t].start + alloc[t].marked}
  BY DEF IInv, Mark
<1>2. /\ alloc[t] \in [start : Blocks, marked : 0 .. Extent]
      /\ alloc[t].start \in Nat /\ alloc[t].marked \in Nat
      /\ alloc[t].start + Extent <= DATA_BLOCK_COUNT
  BY <1>1 DEF IInv, TypeOK, InArea, Blocks
<1>3. /\ alloc'[t].start = alloc[t].start /\ alloc'[t].marked = alloc[t].marked + 1
      /\ \A x \in Tasks \ {t} : alloc'[x] = alloc[x]
  BY <1>1 DEF TypeOK
<1>4. count' = count /\ Made' = Made /\ block_bitmap \subseteq block_bitmap'
  BY <1>1 DEF count, Made
<1>5. TypeOK'
  <2>1. alloc[t].start + alloc[t].marked \in Blocks
    BY <1>1, <1>2, Sizes DEF Blocks
  <2>2. alloc[t].marked + 1 \in 0 .. Extent
    BY <1>1, <1>2, Sizes
  <2>3. alloc' \in [Tasks -> [start : Blocks, marked : 0 .. Extent]]
    BY <1>1, <2>2 DEF TypeOK
  <2> QED
    BY <1>1, <2>1, <2>3 DEF TypeOK
<1>6. InArea'
  BY <1>3 DEF IInv, InArea
<1>7. Reserved' /\ Opened'
  BY <1>1, <1>4 DEF IInv, Reserved, Opened
<1>8. Extentless'
  BY <1>1, <1>4, FreeStays DEF IInv, Extentless
<1>9. ASSUME ~astray' PROVE Calm'
  <2>1. Calm
    BY <1>1, <1>9 DEF IInv
  <2>2. t = Creator
    BY <1>1, <2>1 DEF Calm, Waiting, Tasks
  <2>3. Known' /\ SizesWithin' /\ Aligned' /\ WritersWithin'
    BY <1>1, <1>4, <2>1 DEF Calm, Known, SizesWithin, Aligned, WritersWithin, Capacity, InodeOf
  <2>4. Waiting'
    BY <1>1, <1>4, <2>1, FreeStays DEF Calm, Waiting
  <2>5. Apart'
    BY <1>1, <1>4, <2>1 DEF Calm, Apart, BlocksOf
  <2>6. Allocating'
    <3>1. /\ inode_table[creating.ino].ee_len = 0 /\ Reservable(alloc[t].start)
          /\ \A c \in Run(alloc[t].start, Extent) :
               c \in block_bitmap <=> c < alloc[t].start + alloc[t].marked
      BY <1>1, <2>1, <2>2 DEF Calm, Allocating
    <3>2. Reservable(alloc[t].start)'
      BY <1>1, <1>3, <1>4, <3>1 DEF Reservable, BlocksOf
    <3>3. \A c \in Run(alloc[t].start, Extent) :
            c \in block_bitmap' <=> c < alloc[t].start + (alloc[t].marked + 1)
      BY <1>1, <1>2, <3>1, Sizes DEF Run
    <3> QED
      BY <1>1, <1>3, <2>2, <3>1, <3>2, <3>3 DEF Allocating
  <2> QED
    BY <2>3, <2>4, <2>5, <2>6 DEF Calm
<1>10. count <= MAX_DIR_ENTRIES => EntriesOwn' /\ ~astray'
  BY <1>1, <1>4 DEF IInv, EntriesOwn
<1> QED
  BY <1>4, <1>5, <1>6, <1>7, <1>8, <1>9, <1>10 DEF IInv

(* A task that allocates has an inode that is no directory; it is the one of the
   create, unless somebody is astray. *)
LEMMA Allocator ==
  ASSUME IInv, NEW t \in Tasks, pc[t] \in {"mark", "extent"}
  PROVE  /\ InodeAt(t) \in Inodes \ {ROOT_INODE}
         /\ Calm => t = Creator /\ InodeAt(t) = creating.ino
<1>1. CASE t = Creator
  BY <1>1, Inode DEF InodeAt
<1>2. CASE t # Creator
  <2>1. t \in Fds /\ fds[t].ino # 0
    BY <1>2 DEF Tasks, IInv, Opened
  <2> QED
    BY <1>2, <2>1, InCall DEF InodeAt, Calm, Waiting
<1> QED
  BY <1>1, <1>2

LEMMA StoreStartStep == ASSUME IInv, NEW t \in Tasks, StoreStart(t) PROVE IInv'
<1>0. PICK ino : ino = InodeAt(t)
  OBVIOUS
<1>1. TypeOK /\ Reserved /\ pc[t] = "mark" /\ alloc[t].marked = Extent
      /\ UNCHANGED <<inode_bitmap, block_bitmap, data_blocks, dcache, fds, creating, astray>>
      /\ inode_table' = [inode_table EXCEPT ![ino].ee_start = alloc[t].start]
      /\ pc' = [pc EXCEPT ![t] = "extent"] /\ alloc' = [alloc EXCEPT ![t] = NoRun]
  BY <1>0 DEF IInv, StoreStart, bitmaps
<1>2. ino \in Inodes \ {ROOT_INODE} /\ (Calm => t = Creator /\ ino = creating.ino)
  BY <1>0, <1>1, Allocator
<1>3. /\ alloc[t].start \in Blocks /\ alloc'[t].marked = 0
      /\ \A x \in Tasks \ {t} : alloc'[x] = alloc[x]
      /\ alloc' \in [Tasks -> [start : Blocks, marked : 0 .. Extent]]
      /\ \A x \in Tasks : alloc'[x].start + Extent <= DATA_BLOCK_COUNT
  <2>1. NoRun \in [start : Blocks, marked : 0 .. Extent] /\ NoRun.marked = 0
        /\ NoRun.start + Extent <= DATA_BLOCK_COUNT
    BY Sizes DEF NoRun
  <2>2. alloc \in [Tasks -> [start : Blocks, marked : 0 .. Extent]]
        /\ \A x \in Tasks : alloc[x].start + Extent <= DATA_BLOCK_COUNT
    BY DEF IInv, TypeOK, InArea
  <2> QED
    BY <1>1, <2>1, <2>2
<1>4. /\ \A x \in Inodes : /\ inode_table'[x].i_size = inode_table[x].i_size
                           /\ inode_table'[x].ee_len = inode_table[x].ee_len
                           /\ x # ino => inode_table'[x] = inode_table[x]
      /\ inode_table'[ino].ee_start = alloc[t].start
      /\ inode_table' \in [Inodes -> [i_size : Nat, ee_start : Blocks, ee_len : {0, 1, Extent}]]
  BY <1>1, <1>2, <1>3 DEF TypeOK
<1>5. /\ pc' \in [Tasks -> Steps] /\ pc'[t] = "extent" /\ \A x \in Tasks \ {t} : pc'[x] = pc[x]
  BY <1>1 DEF TypeOK, Steps
<1>6. TypeOK' /\ InArea'
  BY <1>1, <1>3, <1>4, <1>5 DEF TypeOK, InArea
<1>7. count' = count /\ Made' = Made /\ NothingFree' = NothingFree
  BY <1>1, <1>2, <1>4, Sizes DEF count, Made, NothingFree, IsFreeRun
<1>8. Reserved'
  <2>1. pc[Creator] # "idle" => pc'[Creator] \in CreateSteps
    BY <1>1, <1>5, Sizes DEF Reserved, CreateSteps
  <2>2. pc[Creator] = "idle" => pc'[Creator] = "idle"
    BY <1>1, <1>5, Sizes
  <2> QED
    BY <1>1, <1>2, <1>4, <1>7, <2>1, <2>2, Sizes DEF Reserved, CreateSteps
<1>9. Opened'
  BY <1>1, <1>5, Sizes DEF IInv, Opened, WriteSteps
<1>10. Extentless'
  <2>1. pc'[Creator] \in {"name", "number"} => pc[Creator] \in {"name", "number"}
    BY <1>1, <1>5, Sizes
  <2>2. pc[Creator] \in {"name", "number"} => creating.ino \in Inodes
    BY Inode
  <2>3. Made \subseteq Inodes
    BY Inode
  <2> QED
    BY <1>1, <1>4, <1>7, <2>1, <2>2, <2>3 DEF IInv, Extentless
<1>11. ASSUME ~astray' PROVE Calm'
  <2>1. Calm /\ t = Creator /\ ino = creating.ino
    BY <1>1, <1>2, <1>11 DEF IInv
  <2>2. /\ inode_table[ino].ee_len = 0 /\ Reservable(alloc[t].start)
        /\ \A c \in Run(alloc[t].start, Extent) :
             c \in block_bitmap <=> c < alloc[t].start + alloc[t].marked
    BY <1>1, <2>1 DEF Calm, Allocating
  <2>3. Run(alloc[t].start, Extent) \subseteq block_bitmap
    BY <1>1, <1>3, <2>2, Sizes DEF Run, Blocks
  <2>4. \A x \in Inodes : BlocksOf(x)' = BlocksOf(x)
    <3>1. BlocksOf(ino)' = {} /\ BlocksOf(ino) = {}
      <4>1. \A b \in Nat : Run(b, 0) = {}
        BY DEF Run
      <4>2. inode_table'[ino].ee_start \in Nat /\ inode_table[ino].ee_start \in Nat
        BY <1>2, <1>3, <1>4, Record, Sizes DEF Blocks
      <4> QED
        BY <1>2, <1>4, <2>2, <4>1, <4>2 DEF BlocksOf
    <3> QED
      BY <1>4, <3>1 DEF BlocksOf
  <2>5. Known' /\ SizesWithin' /\ Apart' /\ Aligned'
    BY <1>1, <1>4, <1>7, <2>1, <2>2, <2>4 DEF Calm, Known, SizesWithin, Apart, Aligned
  <2>6. WritersWithin'
    <3>1. SUFFICES ASSUME NEW x \in Fds, pc[x] \in {"compare", "store"}
                   PROVE  fds[x].pos <= inode_table'[fds[x].ino].ee_len * BLOCK_SIZE
      BY <1>1, <1>5, <2>1, Sizes DEF WritersWithin, Capacity, InodeOf
    <3>2. fds[x].ino \in Inodes
      BY <3>1, Descriptor, InCall
    <3> QED
      BY <1>4, <2>1, <3>1, <3>2 DEF Calm, WritersWithin, Capacity, InodeOf
  <2>7. Waiting'
    BY <1>5, <1>7, <2>1, Sizes DEF Calm, Waiting
  <2>8. Run(1, Extent) \subseteq block_bitmap
    BY <2>2, <2>3 DEF Reservable
  <2>9. Reservable(inode_table[ino].ee_start)'
    BY <1>1, <1>4, <2>2, <2>4 DEF Reservable
  <2>10. Allocating'
    BY <1>1, <1>3, <1>4, <1>5, <2>1, <2>2, <2>3, <2>8, <2>9 DEF Allocating
  <2> QED
    BY <2>5, <2>6, <2>7, <2>10 DEF Calm
<1>12. count <= MAX_DIR_ENTRIES => EntriesOwn' /\ ~astray'
  BY <1>1, <1>7 DEF IInv, EntriesOwn
<1> QED
  BY <1>6, <1>7, <1>8, <1>9, <1>10, <1>11, <1>12 DEF IInv

(* From here on the run belongs to the inode: the create's, unless somebody is astray. *)
LEMMA StoreLenStep == ASSUME IInv, NEW t \in Tasks, StoreLen(t) PROVE IInv'
<1>0. PICK ino : ino = InodeAt(t)
  OBVIOUS
<1>1. TypeOK /\ Reserved /\ pc[t] = "extent"
      /\ UNCHANGED <<inode_bitmap, block_bitmap, data_blocks, dcache, fds, creating, alloc, astray>>
      /\ inode_table' = [inode_table EXCEPT ![ino].ee_len = Extent]
      /\ pc' = [pc EXCEPT ![t] = Onward(t)]
  BY <1>0 DEF IInv, StoreLen, bitmaps
<1>2. ino \in Inodes \ {ROOT_INODE} /\ (Calm => t = Creator /\ ino = creating.ino)
  BY <1>0, <1>1, Allocator
<1>3. /\ \A x \in Inodes : /\ inode_table'[x].i_size = inode_table[x].i_size
                           /\ inode_table'[x].ee_start = inode_table[x].ee_start
                           /\ x # ino => inode_table'[x] = inode_table[x]
      /\ inode_table'[ino].ee_len = Extent
      /\ inode_table' \in [Inodes -> [i_size : Nat, ee_start : Blocks, ee_len : {0, 1, Extent}]]
  BY <1>1, <1>2 DEF TypeOK
<1>4. /\ pc' \in [Tasks -> Steps] /\ \A x \in Tasks \ {t} : pc'[x] = pc[x]
      /\ pc'[t] = IF t = Creator THEN "name" ELSE "copy"
  BY <1>1 DEF TypeOK, Steps, Onward
<1>5. TypeOK' /\ InArea'
  BY <1>1, <1>3, <1>4 DEF IInv, TypeOK, InArea
<1>6. count' = count /\ Made' = Made /\ NothingFree' = NothingFree
  BY <1>1, <1>2, <1>3, Sizes DEF count, Made, NothingFree, IsFreeRun
<1>7. Reserved'
  <2>1. pc[Creator] # "idle" => pc'[Creator] \in CreateSteps
    BY <1>1, <1>4, Sizes DEF Reserved, CreateSteps
  <2>2. pc[Creator] = "idle" => pc'[Creator] = "idle"
    BY <1>1, <1>4, Sizes
  <2> QED
    BY <1>1, <1>2, <1>3, <1>6, <2>1, <2>2, Sizes DEF Reserved, CreateSteps
<1>8. Opened'
  BY <1>1, <1>4, Sizes DEF IInv, Opened, WriteSteps
<1>9. Extentless'
  <2>1. ASSUME NEW x \in Inodes, inode_table'[x].ee_len = 0 PROVE inode_table[x].ee_len = 0
    <3>1. x # ino
      <4>1. inode_table'[ino].ee_len # 0
        BY <1>3, Sizes
      <4> QED
        BY <2>1, <4>1
    <3> QED
      BY <1>3, <2>1, <3>1
  <2>2. ASSUME pc'[Creator] \in {"name", "number"}
        PROVE  inode_table'[creating.ino].ee_len # 0 \/ NothingFree
    <3>1. CASE t = Creator
      <4>1. ino = creating.ino
        BY <1>0, <3>1 DEF InodeAt
      <4> QED
        BY <1>3, <4>1, Sizes
    <3>2. CASE t # Creator
      <4>1. pc[Creator] \in {"name", "number"}
        BY <1>4, <2>2, <3>2, Sizes
      <4>2. creating.ino \in Inodes
        BY <4>1, Inode
      <4> QED
        BY <2>1, <4>1, <4>2 DEF IInv, Extentless
    <3> QED
      BY <3>1, <3>2
  <2>3. Made \subseteq Inodes
    BY Inode
  <2> QED
    BY <1>1, <1>6, <2>1, <2>2, <2>3 DEF IInv, Extentless
<1>10. ASSUME ~astray' PROVE Calm'
  <2>1. Calm /\ t = Creator /\ ino = creating.ino /\ ino \notin Made
    BY <1>1, <1>2, <1>10, Inode, Sizes DEF IInv
  <2>2. PICK b : b = inode_table[ino].ee_start
    OBVIOUS
  <2>3. /\ inode_table[ino].ee_len = 0 /\ Reservable(b)
        /\ Run(b, Extent) \subseteq block_bitmap
    BY <1>1, <2>1, <2>2 DEF Calm, Allocating
  <2>4. BlocksOf(ino)' = Run(b, Extent) /\ \A x \in Inodes \ {ino} : BlocksOf(x)' = BlocksOf(x)
    BY <1>2, <1>3, <2>2 DEF BlocksOf
  <2>5. Apart'
    <3>1. SUFFICES ASSUME NEW x \in Inodes, NEW y \in Inodes
                   PROVE  /\ BlocksOf(x)' \subseteq block_bitmap
                          /\ x # y => BlocksOf(x)' \cap BlocksOf(y)' = {}
      BY <1>1 DEF Apart
    <3>2. BlocksOf(x) \subseteq block_bitmap /\ (x # y => BlocksOf(x) \cap BlocksOf(y) = {})
      BY <2>1 DEF Calm, Apart
    <3>3. BlocksOf(x) \cap Run(b, Extent) = {} /\ BlocksOf(y) \cap Run(b, Extent) = {}
      BY <2>3 DEF Reservable
    <3> QED
      BY <2>3, <2>4, <3>2, <3>3
  <2>6. Aligned'
    BY <1>2, <1>3, <2>1, <2>2, <2>3 DEF Calm, Aligned, Reservable
  <2>7. Known' /\ Waiting'
    BY <1>1, <1>4, <1>6, <2>1, Sizes DEF Calm, Known, Waiting
  <2>8. WritersWithin'
    <3>1. SUFFICES ASSUME NEW x \in Fds, pc[x] \in {"compare", "store"}
                   PROVE  fds[x].pos <= inode_table'[fds[x].ino].ee_len * BLOCK_SIZE
      BY <1>1, <1>4, <2>1, Sizes DEF WritersWithin, Capacity, InodeOf
    <3>2. fds[x].ino \in Inodes /\ fds[x].ino # ino
      BY <2>1, <3>1, Descriptor, InCall DEF Calm, Known
    <3> QED
      BY <1>3, <2>1, <3>1, <3>2 DEF Calm, WritersWithin, Capacity, InodeOf
  <2>9. SizesWithin'
    <3>1. SUFFICES ASSUME NEW x \in Inodes \ {ROOT_INODE}
                   PROVE  inode_table'[x].i_size <= inode_table'[x].ee_len * BLOCK_SIZE
      BY DEF SizesWithin
    <3>2. inode_table[x].i_size <= inode_table[x].ee_len * BLOCK_SIZE
      BY <2>1 DEF Calm, SizesWithin
    <3>3. CASE x = ino
      <4>1. inode_table[x].i_size <= 0 * BLOCK_SIZE /\ inode_table[x].i_size \in Nat
        BY <2>3, <3>2, <3>3, Record
      <4>2. inode_table[x].i_size = 0 /\ Extent * BLOCK_SIZE \in Nat
        BY <4>1, Sizes
      <4> QED
        BY <1>3, <3>3, <4>2
    <3>4. CASE x # ino
      BY <1>3, <3>2, <3>4
    <3> QED
      BY <3>3, <3>4
  <2>10. Run(1, Extent) \subseteq block_bitmap
    BY <2>3 DEF Reservable
  <2>11. Allocating'
    BY <1>1, <1>4, <2>1, <2>10 DEF Calm, Allocating
  <2> QED
    BY <2>5, <2>6, <2>7, <2>8, <2>9, <2>11 DEF Calm
<1>11. count <= MAX_DIR_ENTRIES => EntriesOwn' /\ ~astray'
  BY <1>1, <1>6 DEF IInv, EntriesOwn
<1> QED
  BY <1>5, <1>6, <1>7, <1>8, <1>9, <1>10, <1>11 DEF IInv
-----------------------------------------------------------------------------
(* A create takes the next inode and empties its record. *)
LEMMA Created ==
  ASSUME IInv, NEW n \in Names, Create(n)
  PROVE  \E ino \in Inodes \ {ROOT_INODE} :
           /\ ino = count + 2 /\ inode_bitmap' = 1 .. count + 2
           /\ inode_table' = [inode_table EXCEPT ![ino] = NewOsfsInode]
           /\ creating' = [name |-> n, ino |-> ino]
<1>1. PICK ino \in Inodes : /\ TakeInode(ino)
                            /\ inode_table' = [inode_table EXCEPT ![ino] = NewOsfsInode]
                            /\ creating' = [name |-> n, ino |-> ino]
  BY DEF Create
<1>2. count \in Nat /\ inode_bitmap = 1 .. count + 1
  BY Inode DEF Create
<1>3. ino \in FreeInodes /\ \A x \in FreeInodes : ino <= x
  BY <1>1 DEF TakeInode
<1>4. ino >= count + 2
  BY <1>3, <1>2 DEF FreeInodes, Inodes
<1>5. count + 2 \in FreeInodes
  BY <1>4, <1>2, Sizes DEF FreeInodes, Inodes
<1>6. ino = count + 2
  BY <1>3, <1>4, <1>5, <1>2, Sizes DEF Inodes
<1>7. inode_bitmap' = 1 .. count + 2
  BY <1>1, <1>2, <1>6 DEF TakeInode
<1>8. ino \in Inodes \ {ROOT_INODE}
  BY <1>2, <1>6, Sizes
<1> QED
  BY <1>1, <1>6, <1>7, <1>8, Zenon

LEMMA CreateStep == ASSUME IInv, NEW n \in Names, Create(n) PROVE IInv'
<1>1. PICK ino \in Inodes \ {ROOT_INODE} :
        /\ ino = count + 2 /\ inode_bitmap' = 1 .. count + 2
        /\ inode_table' = [inode_table EXCEPT ![ino] = NewOsfsInode]
        /\ creating' = [name |-> n, ino |-> ino]
  BY Created
<1>2. TypeOK /\ Reserved /\ pc[Creator] = "idle"
      /\ UNCHANGED <<block_bitmap, data_blocks, dcache, fds, alloc, astray>>
      /\ pc' = [pc EXCEPT ![Creator] = "scan"]
  BY DEF IInv, Create
<1>3. /\ \A x \in Inodes \ {ino} : inode_table'[x] = inode_table[x]
      /\ inode_table'[ino] = NewOsfsInode
      /\ inode_table' \in [Inodes -> [i_size : Nat, ee_start : Blocks, ee_len : {0, 1, Extent}]]
  <2>1. NewOsfsInode \in [i_size : Nat, ee_start : Blocks, ee_len : {0, 1, Extent}]
    BY Sizes DEF NewOsfsInode
  <2> QED
    BY <1>1, <1>2, <2>1 DEF TypeOK
<1>4. /\ pc' \in [Tasks -> Steps] /\ pc'[Creator] = "scan"
      /\ \A x \in Tasks \ {Creator} : pc'[x] = pc[x]
  BY <1>2, Sizes DEF TypeOK, Steps
<1>5. /\ count \in Nat /\ Made = 1 .. count + 1 /\ ino \notin Made
      /\ count' = count /\ Made' = Made /\ NothingFree' = NothingFree
  <2>1. count' = count /\ count \in Nat /\ Made = 1 .. count + 1
    BY <1>1, <1>3, Inode, Sizes DEF count
  <2>2. creating'.ino = count + 2
    BY <1>1
  <2>3. Made' = 1 .. count + 1
    BY <1>1, <2>1, <2>2 DEF Made
  <2> QED
    BY <1>1, <1>2, <2>1, <2>3 DEF NothingFree, IsFreeRun
<1>6. TypeOK' /\ InArea'
  <2>1. inode_bitmap' \subseteq Inodes
    BY <1>1, <1>5, Sizes DEF Inodes
  <2>2. creating' \in [name : {0} \cup Names, ino : {0} \cup Inodes]
    BY <1>1
  <2> QED
    BY <1>2, <1>3, <1>4, <2>1, <2>2 DEF IInv, TypeOK, InArea
<1>7. Reserved'
  BY <1>1, <1>2, <1>3, <1>4, <1>5, Sizes DEF Reserved, CreateSteps
<1>8. Opened'
  BY <1>2, <1>4, Sizes DEF IInv, Opened
<1>9. Extentless'
  BY <1>3, <1>4, <1>5, Inode DEF IInv, Extentless
<1>10. ASSUME ~astray' PROVE Calm'
  <2>1. Calm
    BY <1>2, <1>10 DEF IInv
  <2>2. Known' /\ Waiting'
    BY <1>2, <1>4, <1>5, <2>1, Sizes DEF Calm, Known, Waiting
  <2>3. WritersWithin'
    <3>1. SUFFICES ASSUME NEW x \in Fds, pc[x] \in {"compare", "store"}
                   PROVE  fds[x].pos <= inode_table'[fds[x].ino].ee_len * BLOCK_SIZE
      BY <1>2, <1>4, Sizes DEF WritersWithin, Capacity, InodeOf
    <3>2. fds[x].ino \in Inodes /\ fds[x].ino # ino
      BY <1>5, <2>1, <3>1, Descriptor, InCall DEF Calm, Known
    <3> QED
      BY <1>3, <2>1, <3>1, <3>2 DEF Calm, WritersWithin, Capacity, InodeOf
  <2>4. inode_table'[ino].i_size = 0 /\ inode_table'[ino].ee_len = 0 /\ BlocksOf(ino)' = {}
    BY <1>3 DEF NewOsfsInode, BlocksOf, Run
  <2>5. \A x \in Inodes \ {ino} : BlocksOf(x)' = BlocksOf(x)
    BY <1>3 DEF BlocksOf
  <2>6. SizesWithin' /\ Aligned'
    BY <1>3, <2>1, <2>4, Sizes DEF Calm, SizesWithin, Aligned
  <2>7. Apart'
    BY <1>2, <2>1, <2>4, <2>5 DEF Calm, Apart
  <2>8. Allocating'
    BY <1>1, <1>2, <1>4, <2>1, <2>4 DEF Calm, Allocating
  <2> QED
    BY <2>2, <2>3, <2>6, <2>7, <2>8 DEF Calm
<1>11. count <= MAX_DIR_ENTRIES => EntriesOwn' /\ ~astray'
  BY <1>2, <1>5 DEF IInv, EntriesOwn
<1> QED
  BY <1>5, <1>6, <1>7, <1>8, <1>9, <1>10, <1>11 DEF IInv

(* The name goes into cells behind the numbers of the entries before it. *)
LEMMA NamePut ==
  ASSUME IInv, PutName
  PROVE  /\ data_blocks' \in [Cells -> Nat]
         /\ \A c \in Cells : data_blocks'[c] # data_blocks[c] =>
              c \in NameCell(count) .. NameCell(count) + Reach[creating.name] - 1
<1>1. PICK name \in EntryName(creating.name) :
        data_blocks' = [c \in Cells |->
          IF c = NameCell(count) THEN name
          ELSE IF c - NameCell(count) \in 1 .. Reach[creating.name] - 1 THEN Letters
          ELSE data_blocks[c]]
  BY DEF PutName
<1>2. creating.name \in Names /\ Reach[creating.name] \in Nat \ {0} /\ count \in Nat
  BY Inode, ExtentAssumption DEF PutName
<1>3. name \in Nat /\ Letters \in Nat /\ data_blocks \in [Cells -> Nat]
  BY <1>1, <1>2, ExtentAssumption DEF EntryName, Garbled, Letters, IInv, TypeOK
<1>4. data_blocks' \in [Cells -> Nat]
  BY <1>1, <1>3
<1>5. ASSUME NEW c \in Cells, data_blocks'[c] # data_blocks[c]
      PROVE  c \in NameCell(count) .. NameCell(count) + Reach[creating.name] - 1
  <2>1. c = NameCell(count) \/ c - NameCell(count) \in 1 .. Reach[creating.name] - 1
    BY <1>1, <1>5
  <2>2. c \in Int /\ NameCell(count) \in Int
    BY <1>2 DEF Cells, NameCell
  <2> QED
    BY <1>2, <2>1, <2>2
<1> QED
  BY <1>4, <1>5

LEMMA PutNameStep == ASSUME IInv, PutName PROVE IInv'
<1>1. TypeOK /\ Reserved /\ pc[Creator] = "name"
      /\ UNCHANGED <<inode_bitmap, block_bitmap, inode_table, dcache, fds, creating, alloc, astray>>
      /\ pc' = [pc EXCEPT ![Creator] = "number"]
  BY DEF IInv, PutName, bitmaps
<1>2. /\ pc' \in [Tasks -> Steps] /\ pc'[Creator] = "number"
      /\ \A x \in Tasks \ {Creator} : pc'[x] = pc[x]
  BY <1>1, Sizes DEF TypeOK, Steps
<1>3. /\ count' = count /\ count \in Nat /\ Made' = Made /\ NothingFree' = NothingFree
      /\ \A x : BlocksOf(x)' = BlocksOf(x)
  BY <1>1 DEF count, Made, NothingFree, IsFreeRun, BlocksOf, Reserved
<1>4. TypeOK' /\ InArea' /\ Reserved' /\ Opened'
  <2>1. TypeOK' /\ InArea'
    BY <1>1, <1>2, NamePut DEF IInv, TypeOK, InArea
  <2>2. Reserved'
    BY <1>1, <1>2, <1>3 DEF Reserved, CreateSteps
  <2>3. Opened'
    BY <1>1, <1>2, Sizes DEF IInv, Opened
  <2> QED
    BY <2>1, <2>2, <2>3
<1>5. Extentless'
  BY <1>1, <1>2, <1>3 DEF IInv, Extentless
<1>6. ASSUME ~astray' PROVE Calm'
  <2>1. Calm
    BY <1>1, <1>6 DEF IInv
  <2>2. Known' /\ Waiting' /\ WritersWithin' /\ SizesWithin'
    BY <1>1, <1>2, <1>3, <2>1, Sizes
      DEF Calm, Known, Waiting, WritersWithin, Capacity, InodeOf, SizesWithin
  <2>3. Apart' /\ Aligned'
    BY <1>1, <1>3, <2>1 DEF Calm, Apart, Aligned
  <2>4. Allocating'
    BY <1>1, <1>2, <2>1 DEF Calm, Allocating
  <2> QED
    BY <2>2, <2>3, <2>4 DEF Calm
<1>7. ASSUME count <= MAX_DIR_ENTRIES PROVE EntriesOwn' /\ ~astray'
  <2>1. EntriesOwn /\ ~astray
    BY <1>7 DEF IInv
  <2>2. ASSUME NEW e \in 0 .. count - 1 PROVE data_blocks'[InoCell(e)] = data_blocks[InoCell(e)]
    <3>1. InoCell(e) < NameCell(count) /\ InoCell(e) \in Nat /\ NameCell(count) \in Nat
      BY <1>3, <2>2 DEF InoCell, NameCell
    <3>2. InoCell(e) \in Cells
      <4>1. InoCell(e) < BLOCK_SIZE
        BY <1>3, <1>7, <2>2, Sizes DEF InoCell, MAX_DIR_ENTRIES
      <4>2. BLOCK_SIZE <= DATA_BLOCK_COUNT * BLOCK_SIZE /\ DATA_BLOCK_COUNT * BLOCK_SIZE \in Nat
        BY Sizes, 1 <= DATA_BLOCK_COUNT, Scaled
      <4> QED
        BY <3>1, <4>1, <4>2, Sizes DEF Cells
    <3> QED
      BY <3>1, <3>2, NamePut
  <2> QED
    BY <1>1, <1>3, <2>1, <2>2 DEF EntriesOwn
<1> QED
  BY <1>3, <1>4, <1>5, <1>6, <1>7 DEF IInv

(* The number completes the entry, and the inode is made. *)
LEMMA PutNumberStep == ASSUME IInv, PutNumber PROVE IInv'
<1>0. PICK ino : ino = creating.ino
  OBVIOUS
<1>1. TypeOK /\ Reserved /\ Opened /\ pc[Creator] = "number"
      /\ UNCHANGED <<inode_bitmap, block_bitmap, dcache, fds, alloc, astray>>
      /\ data_blocks' = [data_blocks EXCEPT ![InoCell(count)] = ino]
      /\ inode_table' = [inode_table EXCEPT ![ROOT_INODE].i_size = @ + 1]
      /\ creating' = NoCreate /\ pc' = [pc EXCEPT ![Creator] = "idle"]
  BY <1>0 DEF IInv, PutNumber, bitmaps
<1>2. /\ count \in Nat /\ Made = 1 .. count + 1 /\ ino = count + 2 /\ ino \in Inodes
      /\ inode_bitmap = Made \cup {ino}
  BY <1>0, <1>1, Inode
<1>3. /\ pc' \in [Tasks -> Steps] /\ pc'[Creator] = "idle"
      /\ \A x \in Tasks \ {Creator} : pc'[x] = pc[x]
  BY <1>1, Sizes DEF TypeOK, Steps
<1>4. /\ \A x \in Inodes : /\ inode_table'[x].ee_start = inode_table[x].ee_start
                           /\ inode_table'[x].ee_len = inode_table[x].ee_len
                           /\ x # ROOT_INODE => inode_table'[x] = inode_table[x]
      /\ count' = count + 1
      /\ inode_table' \in [Inodes -> [i_size : Nat, ee_start : Blocks, ee_len : {0, 1, Extent}]]
  BY <1>1, Sizes DEF TypeOK, count
<1>5. creating'.ino = 0 /\ creating' \in [name : {0} \cup Names, ino : {0} \cup Inodes]
  BY <1>1 DEF NoCreate
<1>6. Made' = 1 .. count + 2 /\ NothingFree' = NothingFree
  <2>1. Made' = inode_bitmap
    BY <1>1, <1>2, <1>5 DEF Made, Inodes
  <2> QED
    BY <1>1, <1>2, <2>1 DEF NothingFree, IsFreeRun
<1>7. TypeOK' /\ InArea'
  <2>1. data_blocks' \in [Cells -> Nat]
    <3>1. ino \in Nat /\ data_blocks \in [Cells -> Nat]
      BY <1>1, <1>2 DEF TypeOK
    <3> QED
      BY <1>1, <3>1
  <2> QED
    BY <1>1, <1>3, <1>4, <1>5, <2>1 DEF IInv, TypeOK, InArea
<1>8. Reserved'
  <2>1. inode_bitmap' = 1 .. count' + 1
    BY <1>1, <1>2, <1>4
  <2> QED
    BY <1>1, <1>2, <1>3, <1>4, <1>5, <2>1, Sizes DEF Reserved
<1>9. Opened'
  BY <1>1, <1>3, Sizes DEF Opened
<1>10. Extentless'
  <2>1. \A x \in Made \cup {ino} : inode_table[x].ee_len = 0 => NothingFree
    BY <1>0, <1>1 DEF IInv, Extentless
  <2>2. Made \cup {ino} \subseteq Inodes /\ Made' = Made \cup {ino}
    BY <1>2, <1>6, Inode
  <2> QED
    BY <1>3, <1>4, <1>6, <2>1, <2>2 DEF Extentless
<1>11. ASSUME ~astray' PROVE Calm'
  <2>1. Calm
    BY <1>1, <1>11 DEF IInv
  <2>2. Known' /\ Waiting'
    BY <1>1, <1>2, <1>3, <1>6, <2>1, Sizes DEF Calm, Known, Waiting
  <2>3. WritersWithin'
    <3>1. SUFFICES ASSUME NEW x \in Fds, pc[x] \in {"compare", "store"}
                   PROVE  fds[x].pos <= inode_table'[fds[x].ino].ee_len * BLOCK_SIZE
      BY <1>1, <1>3, Sizes DEF WritersWithin, Capacity, InodeOf
    <3>2. fds[x].ino \in Inodes
      BY <3>1, Descriptor, InCall
    <3> QED
      BY <1>4, <2>1, <3>1, <3>2 DEF Calm, WritersWithin, Capacity, InodeOf
  <2>4. \A x \in Inodes : BlocksOf(x)' = BlocksOf(x)
    BY <1>4 DEF BlocksOf
  <2>5. SizesWithin' /\ Aligned' /\ Apart'
    BY <1>1, <1>4, <2>1, <2>4 DEF Calm, SizesWithin, Aligned, Apart
  <2>6. Allocating'
    BY <1>1, <1>3, <2>1 DEF Calm, Allocating
  <2> QED
    BY <2>2, <2>3, <2>5, <2>6 DEF Calm
<1>12. ASSUME (count <= MAX_DIR_ENTRIES)' PROVE EntriesOwn' /\ ~astray'
  <2>1. count < MAX_DIR_ENTRIES /\ 2 * count + 1 < BLOCK_SIZE /\ MAX_DIR_ENTRIES \in Int
    BY <1>2, <1>4, <1>12, Sizes DEF MAX_DIR_ENTRIES
  <2>2. EntriesOwn /\ ~astray
    BY <1>2, <2>1 DEF IInv
  <2>3. InoCell(count) \in Cells
    <3>1. BLOCK_SIZE <= DATA_BLOCK_COUNT * BLOCK_SIZE /\ DATA_BLOCK_COUNT * BLOCK_SIZE \in Nat
      BY Sizes, 1 <= DATA_BLOCK_COUNT, Scaled
    <3> QED
      BY <1>2, <2>1, <3>1, Sizes DEF InoCell, Cells
  <2>4. ASSUME NEW e \in 0 .. count PROVE data_blocks'[InoCell(e)] \in 1 .. count + 2
    <3>1. CASE e = count
      BY <1>1, <1>2, <2>3, <3>1 DEF TypeOK
    <3>2. CASE e # count
      <4>1. InoCell(e) # InoCell(count) /\ e \in 0 .. count - 1
        BY <1>2, <2>4, <3>2 DEF InoCell
      <4>2. data_blocks'[InoCell(e)] = data_blocks[InoCell(e)]
        BY <1>1, <4>1 DEF TypeOK
      <4> QED
        BY <1>2, <2>2, <4>1, <4>2 DEF EntriesOwn
    <3> QED
      BY <3>1, <3>2
  <2> QED
    BY <1>1, <1>2, <1>4, <2>2, <2>4 DEF EntriesOwn
<1> QED
  BY <1>7, <1>8, <1>9, <1>10, <1>11, <1>12 DEF IInv
-----------------------------------------------------------------------------
(* What is copied in stays within the file's extent. *)
LEMMA CopyWithin ==
  ASSUME IInv, NEW fd \in Fds, fds[fd].ino # 0, WithinExtent(fd),
         NEW n \in Nat, fds[fd].pos + n <= Capacity(fd),
         NEW f \in [0 .. n - 1 -> Nat], CopyIn(fd, f)
  PROVE  /\ data_blocks' \in [Cells -> Nat]
         /\ \A c \in Cells : data_blocks'[c] # data_blocks[c] => c \in CellsOf(fds[fd].ino)
<1> DEFINE c0 == FirstCell(fds[fd].ino) + fds[fd].pos
<1>1. data_blocks' = [c \in Cells |-> IF c - c0 \in DOMAIN f THEN f[c - c0] ELSE data_blocks[c]]
  BY DEF CopyIn
<1>2. data_blocks \in [Cells -> Nat]
  BY DEF IInv, TypeOK
<1>3. data_blocks' \in [Cells -> Nat]
  BY <1>1, <1>2
<1>4. ASSUME NEW c \in Cells, data_blocks'[c] # data_blocks[c]
      PROVE  c \in CellsOf(fds[fd].ino)
  <2>1. c - c0 \in 0 .. n - 1
    BY <1>1, <1>4
  <2>2. c \in Int
    BY DEF Cells
  <2> QED
    BY <2>1, <2>2, InCall
<1> QED
  BY <1>3, <1>4

(* A copy, whole or faulting, keeps the directory's entries and the rest. *)
LEMMA CopyStep ==
  ASSUME IInv, NEW fd \in Fds, pc[fd] = "copy", WithinExtent(fd),
         NEW n \in Nat, fds[fd].pos + n <= Capacity(fd),
         NEW f \in [0 .. n - 1 -> Nat], CopyIn(fd, f),
         NEW g \in [ino : {0} \cup Inodes, pos : Nat], NEW s \in {"idle", "compare"},
         fds' = [fds EXCEPT ![fd] = g], g.ino = fds[fd].ino, g.pos <= Capacity(fd),
         pc' = [pc EXCEPT ![fd] = s],
         UNCHANGED <<bitmaps, inode_table, dcache, creating, alloc, astray>>
  PROVE  IInv'
<1>1. TypeOK /\ Opened /\ fds[fd].ino # 0
  BY DEF IInv, Opened
<1>2. /\ data_blocks' \in [Cells -> Nat]
      /\ \A c \in Cells : data_blocks'[c] # data_blocks[c] => c \in CellsOf(fds[fd].ino)
  BY <1>1, CopyWithin
<1>3. /\ fds'[fd] = g /\ \A x \in Fds \ {fd} : fds'[x] = fds[x]
      /\ pc'[fd] = s /\ \A x \in Tasks \ {fd} : pc'[x] = pc[x]
  BY <1>1, Sizes DEF TypeOK
<1>4. TypeOK'
  <2>1. fds' \in [Fds -> [ino : {0} \cup Inodes, pos : Nat]] /\ pc' \in [Tasks -> Steps]
    BY <1>1, Sizes DEF TypeOK, Steps
  <2> QED
    BY <1>1, <1>2, <2>1 DEF TypeOK, bitmaps
<1>5. Opened'
  BY <1>1, <1>3, Sizes DEF Opened, WriteSteps
<1>6. ASSUME Calm PROVE Known' /\ Waiting' /\ WritersWithin'
  <2>1. Known'
    BY <1>3, <1>6 DEF Calm, Known, Made, bitmaps
  <2>2. Waiting'
    BY <1>3, <1>6, Sizes DEF Calm, Waiting, NothingFree, IsFreeRun, bitmaps
  <2>3. WritersWithin'
    BY <1>3, <1>6, Sizes DEF Calm, WritersWithin, Capacity, InodeOf
  <2> QED
    BY <2>1, <2>2, <2>3
<1>7. ASSUME count <= MAX_DIR_ENTRIES PROVE EntriesOwn' /\ ~astray'
  <2>1. EntriesOwn /\ ~astray /\ Apart
    BY <1>7 DEF IInv, Calm
  <2>2. ASSUME NEW e \in 0 .. count - 1 PROVE data_blocks'[InoCell(e)] = data_blocks[InoCell(e)]
    <3>1. InoCell(e) \in 0 .. BLOCK_SIZE - 1 /\ count \in Nat
      BY <1>7, <2>2, Sizes DEF InoCell, MAX_DIR_ENTRIES, IInv, Reserved
    <3>2. InoCell(e) \in Cells
      <4>1. BLOCK_SIZE <= DATA_BLOCK_COUNT * BLOCK_SIZE /\ DATA_BLOCK_COUNT * BLOCK_SIZE \in Nat
        BY Sizes, 1 <= DATA_BLOCK_COUNT, Scaled
      <4> QED
        BY <3>1, <4>1, Sizes DEF Cells
    <3>3. InoCell(e) \in CellsOf(ROOT_INODE)
      BY <3>1, Sizes DEF CellsOf, FirstCell, IInv, Reserved
    <3>4. InoCell(e) \notin CellsOf(fds[fd].ino)
      BY <1>1, <2>1, <3>3, CellsApart, InCall, Sizes
    <3> QED
      BY <1>2, <3>2, <3>4
  <2> QED
    BY <2>1, <2>2 DEF EntriesOwn, count
<1> QED
  BY <1>3, <1>4, <1>5, <1>6, <1>7, Sizes, TableKept

(* A descriptor that copies is open, and what it copies fits. *)
LEMMA CopySize ==
  ASSUME IInv, NEW fd \in Fds, pc[fd] = "copy", WithinExtent(fd), NEW len \in Nat
  PROVE  /\ fds[fd].ino # 0 /\ fds[fd].pos <= Capacity(fd)
         /\ Clamped(fd, len) \in Nat /\ fds[fd].pos + Clamped(fd, len) <= Capacity(fd)
<1>1. fds[fd].ino # 0
  BY DEF IInv, Opened
<1>2. Capacity(fd) \in Nat /\ fds[fd].pos \in Nat
  BY <1>1, InCall
<1> QED
  BY <1>1, <1>2 DEF WithinExtent, Clamped, Smaller

LEMMA WriteStep ==
  ASSUME IInv, NEW fd \in Fds, NEW len \in Lengths, NEW byte \in Bytes, Write(fd, len, byte)
  PROVE  IInv'
<1> DEFINE n == Clamped(fd, len)
           f == [j \in 0 .. n - 1 |-> byte]
           g == [fds[fd] EXCEPT !.pos = @ + n]
<1>1. len \in Nat /\ byte \in Nat
  BY ExtentAssumption
<1>2. pc[fd] = "copy" /\ WithinExtent(fd) /\ CopyIn(fd, f)
      /\ UNCHANGED <<bitmaps, inode_table, dcache, creating, alloc, astray>>
      /\ fds' = [fds EXCEPT ![fd] = g] /\ pc' = [pc EXCEPT ![fd] = "compare"]
  BY DEF Write
<1>3. n \in Nat /\ fds[fd].pos + n <= Capacity(fd)
  BY <1>1, <1>2, CopySize
<1>4. f \in [0 .. n - 1 -> Nat]
  BY <1>1
<1>5. /\ g \in [ino : {0} \cup Inodes, pos : Nat]
      /\ g.ino = fds[fd].ino /\ g.pos <= Capacity(fd)
  <2> HIDE DEF n
  <2>1. fds[fd] \in [ino : {0} \cup Inodes, pos : Nat]
    BY Descriptor
  <2>2. g.ino = fds[fd].ino /\ g.pos = fds[fd].pos + n
    BY <2>1
  <2> QED
    BY <1>3, <2>1, <2>2
<1> HIDE DEF n, f, g
<1> QED
  BY <1>2, <1>3, <1>4, <1>5, CopyStep

LEMMA WriteFaultStep ==
  ASSUME IInv, NEW fd \in Fds, NEW len \in Lengths, NEW byte \in Bytes, NEW k \in Lengths,
         WriteFault(fd, len, byte, k)
  PROVE  IInv'
<1> DEFINE n == Clamped(fd, len)
           f == [j \in 0 .. n - 1 |-> IF j < k THEN byte ELSE 0]
<1>1. len \in Nat /\ byte \in Nat
  BY ExtentAssumption
<1>2. pc[fd] = "copy" /\ WithinExtent(fd) /\ CopyIn(fd, f)
      /\ UNCHANGED <<bitmaps, inode_table, dcache, creating, alloc, astray>>
      /\ fds' = [fds EXCEPT ![fd] = fds[fd]] /\ pc' = [pc EXCEPT ![fd] = "idle"]
  BY Descriptor DEF WriteFault
<1>3. n \in Nat /\ fds[fd].pos + n <= Capacity(fd) /\ fds[fd].pos <= Capacity(fd)
  BY <1>1, <1>2, CopySize
<1>4. f \in [0 .. n - 1 -> Nat]
  BY <1>1
<1>5. fds[fd] \in [ino : {0} \cup Inodes, pos : Nat]
  BY Descriptor
<1> HIDE DEF n, f
<1> QED
  BY <1>2, <1>3, <1>4, <1>5, CopyStep

(* The store of i_size: the position it stores is within the extent. *)
LEMMA StoreStep == ASSUME IInv, NEW fd \in Fds, Store(fd) PROVE IInv'
<1>0. PICK ino : ino = fds[fd].ino
  OBVIOUS
<1>1. TypeOK /\ Reserved /\ Opened /\ pc[fd] = "store"
      /\ UNCHANGED <<inode_bitmap, block_bitmap, data_blocks, dcache, fds, creating, alloc, astray>>
      /\ inode_table' = [inode_table EXCEPT ![ino].i_size = fds[fd].pos]
      /\ pc' = [pc EXCEPT ![fd] = "idle"]
  BY <1>0 DEF IInv, Store, bitmaps
<1>2. ino \in Inodes \ {ROOT_INODE} /\ fds[fd].pos \in Nat
  BY <1>0, <1>1, InCall, Descriptor
<1>3. /\ \A x \in Inodes : /\ inode_table'[x].ee_start = inode_table[x].ee_start
                           /\ inode_table'[x].ee_len = inode_table[x].ee_len
                           /\ x # ino => inode_table'[x] = inode_table[x]
      /\ inode_table'[ino].i_size = fds[fd].pos
      /\ inode_table' \in [Inodes -> [i_size : Nat, ee_start : Blocks, ee_len : {0, 1, Extent}]]
  BY <1>1, <1>2 DEF TypeOK
<1>4. /\ pc' \in [Tasks -> Steps] /\ pc'[fd] = "idle" /\ pc'[Creator] = pc[Creator]
      /\ \A x \in Tasks \ {fd} : pc'[x] = pc[x]
  BY <1>1, Sizes DEF TypeOK, Steps
<1>5. count' = count /\ Made' = Made /\ NothingFree' = NothingFree
  BY <1>1, <1>2, <1>3, Sizes DEF count, Made, NothingFree, IsFreeRun
<1>6. TypeOK' /\ InArea' /\ Reserved' /\ Opened'
  <2>1. TypeOK' /\ InArea'
    BY <1>1, <1>3, <1>4 DEF IInv, TypeOK, InArea
  <2>2. Reserved'
    BY <1>1, <1>3, <1>4, <1>5, Sizes DEF Reserved
  <2>3. Opened'
    BY <1>1, <1>4, Sizes DEF Opened
  <2> QED
    BY <2>1, <2>2, <2>3
<1>7. Extentless'
  <2>1. Made \subseteq Inodes /\ (pc[Creator] \in {"name", "number"} => creating.ino \in Inodes)
    BY Inode
  <2> QED
    BY <1>1, <1>3, <1>4, <1>5, <2>1 DEF IInv, Extentless
<1>8. ASSUME ~astray' PROVE Calm'
  <2>1. Calm
    BY <1>1, <1>8 DEF IInv
  <2>2. Known' /\ Waiting'
    BY <1>1, <1>4, <1>5, <2>1, Sizes DEF Calm, Known, Waiting
  <2>3. WritersWithin'
    <3>1. SUFFICES ASSUME NEW x \in Fds, pc[x] \in {"compare", "store"}
                   PROVE  fds[x].pos <= inode_table'[fds[x].ino].ee_len * BLOCK_SIZE
      BY <1>1, <1>4, Sizes DEF WritersWithin, Capacity, InodeOf
    <3>2. fds[x].ino \in Inodes
      BY <3>1, Descriptor, InCall
    <3> QED
      BY <1>3, <2>1, <3>1, <3>2 DEF Calm, WritersWithin, Capacity, InodeOf
  <2>4. SizesWithin'
    <3>1. fds[fd].pos <= inode_table[ino].ee_len * BLOCK_SIZE
      BY <1>0, <1>1, <2>1 DEF Calm, WritersWithin, Capacity, InodeOf
    <3> QED
      BY <1>3, <2>1, <3>1 DEF Calm, SizesWithin
  <2>5. \A x \in Inodes : BlocksOf(x)' = BlocksOf(x)
    BY <1>3 DEF BlocksOf
  <2>6. Apart' /\ Aligned'
    BY <1>1, <1>3, <2>1, <2>5 DEF Calm, Apart, Aligned
  <2>7. pc[Creator] # "idle" => creating.ino \in Inodes
    BY Inode
  <2>8. Allocating'
    <3>1. \A b : Reservable(b) => Reservable(b)'
      BY <1>1, <2>5 DEF Reservable
    <3>2. Allocating
      BY <2>1 DEF Calm
    <3>3. pc[Creator] \in {"scan", "mark", "extent"} =>
            /\ inode_table'[creating.ino].ee_len = inode_table[creating.ino].ee_len
            /\ inode_table'[creating.ino].ee_start = inode_table[creating.ino].ee_start
      BY <1>3, <2>7
    <3>4. pc[Creator] = "mark" => Reservable(alloc[Creator].start)'
      BY <1>1, <2>5, <3>2 DEF Allocating, Reservable
    <3>5. pc[Creator] = "extent" => Reservable(inode_table[creating.ino].ee_start)'
      BY <1>1, <2>5, <3>2, <3>3 DEF Allocating, Reservable
    <3> QED
      BY <1>1, <1>4, <3>2, <3>3, <3>4, <3>5 DEF Allocating
  <2> QED
    BY <2>2, <2>3, <2>4, <2>6, <2>8 DEF Calm
<1>9. count <= MAX_DIR_ENTRIES => EntriesOwn' /\ ~astray'
  BY <1>1, <1>5 DEF IInv, EntriesOwn
<1> QED
  BY <1>5, <1>6, <1>7, <1>8, <1>9 DEF IInv
-----------------------------------------------------------------------------
LEMMA InitIInv == Init => IInv
<1> SUFFICES ASSUME Init PROVE IInv
  OBVIOUS
<1>1. /\ \A x \in Inodes \ {ROOT_INODE} : inode_table[x] = NewOsfsInode
      /\ inode_table[ROOT_INODE] = [NewOsfsInode EXCEPT !.ee_len = 1]
      /\ \A fd \in Fds : fds[fd].ino = 0 /\ fds[fd].pos = 0 /\ pc[fd] = "idle"
      /\ \A t \in Tasks : pc[t] = "idle" /\ alloc[t] = NoRun
      /\ count = 0 /\ pc[Creator] = "idle" /\ alloc[Creator].marked = 0
  BY Sizes DEF Init, Closed, count, NewOsfsInode, NoRun
<1>2. TypeOK
  <2>1. inode_table \in [Inodes -> [i_size : Nat, ee_start : Blocks, ee_len : {0, 1, Extent}]]
    BY Sizes DEF Init, NewOsfsInode
  <2>2. /\ fds \in [Fds -> [ino : {0} \cup Inodes, pos : Nat]]
        /\ alloc \in [Tasks -> [start : Blocks, marked : 0 .. Extent]]
        /\ creating \in [name : {0} \cup Names, ino : {0} \cup Inodes]
        /\ pc \in [Tasks -> Steps] /\ astray \in BOOLEAN
    <3>1. fds \in [Fds -> [ino : {0} \cup Inodes, pos : Nat]]
      BY DEF Init, Closed
    <3>2. alloc \in [Tasks -> [start : Blocks, marked : 0 .. Extent]]
      <4>1. NoRun \in [start : Blocks, marked : 0 .. Extent]
        BY Sizes DEF NoRun
      <4> QED
        BY <4>1 DEF Init
    <3>3. creating \in [name : {0} \cup Names, ino : {0} \cup Inodes] /\ astray \in BOOLEAN
      BY DEF Init, NoCreate
    <3>4. pc \in [Tasks -> Steps]
      BY DEF Init, Steps
    <3> QED
      BY <3>1, <3>2, <3>3, <3>4
  <2>3. /\ inode_bitmap \subseteq Inodes /\ block_bitmap \subseteq Blocks
        /\ data_blocks \in [Cells -> Nat]
        /\ dcache \in [Names -> {Uncached} \cup Inodes]
    BY Sizes DEF Init
  <2> QED
    BY <2>1, <2>2, <2>3 DEF TypeOK
<1>3. Reserved
  <2>1. inode_bitmap = 1 .. count + 1 /\ 0 \in block_bitmap /\ creating.ino = 0
    BY <1>1, Sizes DEF Init, NoCreate
  <2>2. inode_table[ROOT_INODE].ee_start = 0 /\ inode_table[ROOT_INODE].ee_len = 1
    BY <1>1 DEF NewOsfsInode
  <2> QED
    BY <1>1, <2>1, <2>2 DEF Reserved
<1>4. InArea
  BY <1>1, Sizes DEF InArea, NoRun
<1>5. Extentless
  <2>1. \A x \in inode_bitmap : inode_table[x].ee_len # 0
    BY <1>1, Sizes DEF Init, NewOsfsInode
  <2> QED
    BY <1>1, <2>1 DEF Extentless, Made
<1>6. Opened
  BY <1>1, Sizes DEF Opened
<1>7. Calm
  <2>1. Known /\ Waiting /\ WritersWithin
    BY <1>1 DEF Init, Known, Waiting, WritersWithin
  <2>2. SizesWithin /\ Aligned
    BY <1>1, Sizes DEF SizesWithin, Aligned, NewOsfsInode
  <2>3. Apart
    BY <1>1, Sizes DEF Init, Apart, BlocksOf, Run, NewOsfsInode
  <2>4. Allocating
    BY <1>1 DEF Init, Allocating
  <2> QED
    BY <2>1, <2>2, <2>3, <2>4 DEF Calm
<1>8. EntriesOwn /\ ~astray
  BY <1>1 DEF Init, EntriesOwn
<1> QED
  BY <1>2, <1>3, <1>4, <1>5, <1>6, <1>7, <1>8 DEF IInv

LEMMA NextIInv == IInv /\ [Next]_vars => IInv'
<1> SUFFICES ASSUME IInv, [Next]_vars PROVE IInv'
  OBVIOUS
<1>1. ASSUME NEW n \in Names, Create(n) \/ Shrink(n) PROVE IInv'
  BY <1>1, CreateStep, ShrinkStep
<1>2. ASSUME PutName \/ PutNumber PROVE IInv'
  BY <1>2, PutNameStep, PutNumberStep
<1>3. ASSUME NEW t \in Tasks, Scan(t) \/ Mark(t) \/ StoreStart(t) \/ StoreLen(t) PROVE IInv'
  BY <1>3, ScanStep, MarkStep, StoreStartStep, StoreLenStep
<1>4. ASSUME NEW fd \in Fds, NEW n \in Names, Open(fd, n) PROVE IInv'
  BY <1>4, OpenStep
<1>5. ASSUME NEW fd \in Fds, NEW p \in Positions, Seek(fd, p) PROVE IInv'
  BY <1>5, SeekStep
<1>6. ASSUME NEW fd \in Fds,
             Close(fd) \/ Begin(fd) \/ WriteBeyond(fd) \/ Compare(fd) \/ Store(fd)
      PROVE  IInv'
  BY <1>6, CloseStep, OnwardStep, StoreStep
<1>7. ASSUME NEW fd \in Fds, NEW len \in Lengths,
             \/ Read(fd, len)
             \/ \E byte \in Bytes : \/ Write(fd, len, byte)
                                    \/ \E k \in Lengths : WriteFault(fd, len, byte, k)
      PROVE  IInv'
  BY <1>7, ReadStep, WriteStep, WriteFaultStep
<1>8. CASE UNCHANGED vars
  <2>1. /\ UNCHANGED <<bitmaps, inode_table, data_blocks, creating, alloc>>
        /\ dcache' = dcache /\ fds' = fds /\ pc' = pc /\ astray' = astray
    BY <1>8 DEF vars, bitmaps
  <2>2. TypeOK' /\ Opened'
    BY <2>1 DEF IInv, TypeOK, Opened, bitmaps
  <2>3. Calm => Known' /\ Waiting' /\ WritersWithin'
    BY <2>1 DEF Calm, Known, Waiting, WritersWithin, Capacity, InodeOf, NothingFree, IsFreeRun,
                Made, bitmaps
  <2>4. count <= MAX_DIR_ENTRIES => EntriesOwn' /\ ~astray'
    BY <2>1 DEF IInv, EntriesOwn, count
  <2> QED
    BY <2>1, <2>2, <2>3, <2>4, TableKept
<1> QED
  BY <1>1, <1>2, <1>3, <1>4, <1>5, <1>6, <1>7, <1>8 DEF Next

LEMMA Invariance == Spec => []IInv
BY InitIInv, NextIInv, PTL DEF Spec

LEMMA Sounded == IInv /\ Sound => Calm
BY DEF IInv, Sound
-----------------------------------------------------------------------------
(* Every variable keeps its type. *)
THEOREM TypeCorrect == Spec => []TypeOK
<1>1. IInv => TypeOK
  BY DEF IInv
<1> QED
  BY <1>1, Invariance, PTL

(* However creates and first writes interleave, bit by bit, no block belongs to two
   files, or to a file and the directory, and every block of an extent is marked; until
   a number that users wrote over an entry past the directory's block opens a file. *)
THEOREM Disjoint == Spec => []ExtentsDisjoint
<1>1. IInv => ExtentsDisjoint
  BY Sounded DEF Calm, Apart, ExtentsDisjoint
<1> QED
  BY <1>1, Invariance, PTL

(* Until then overlapping writers leave no file with a size past its extent. *)
THEOREM WithinExtents == Spec => []SizeWithinExtent
<1>1. IInv => SizeWithinExtent
  BY Sounded DEF Calm, SizesWithin, SizeWithinExtent
<1> QED
  BY <1>1, Invariance, PTL

(* A file that create left without an extent never gets one. *)
THEOREM NeverAnExtent == Spec => []ExtentlessForGood
<1>1. IInv => ExtentlessForGood
  BY DEF IInv, Extentless, Made, NothingFree, IsFreeRun, ExtentlessForGood
<1> QED
  BY <1>1, Invariance, PTL

(* Extents lie in the data area. *)
LEMMA CellsInside == ASSUME IInv, Apart, NEW x \in Inodes PROVE CellsOf(x) \subseteq Cells
<1> DEFINE a == inode_table[x].ee_start
           l == inode_table[x].ee_len
<1>1. a \in Nat /\ l \in Nat
  BY Record
<1>2. BlocksOf(x) \subseteq Blocks
  BY DEF IInv, Apart, TypeOK
<1>3. CASE l = 0
  BY <1>1, <1>3, Sizes DEF CellsOf, FirstCell
<1>4. CASE l # 0
  <2>1. a + l - 1 \in Run(a, l)
    BY <1>1, <1>4 DEF Run
  <2>2. a + l <= DATA_BLOCK_COUNT
    BY <2>1, <1>1, <1>2, Sizes DEF BlocksOf, Blocks
  <2>3. (a + l) * BLOCK_SIZE <= DATA_BLOCK_COUNT * BLOCK_SIZE
    BY <2>2, <1>1, Sizes, Scaled
  <2>4. /\ (a + l) * BLOCK_SIZE = a * BLOCK_SIZE + l * BLOCK_SIZE
        /\ a * BLOCK_SIZE \in Nat /\ l * BLOCK_SIZE \in Nat
        /\ DATA_BLOCK_COUNT * BLOCK_SIZE \in Nat
    BY <1>1, Sizes
  <2> QED
    BY <2>3, <2>4 DEF CellsOf, FirstCell, Cells
<1> QED
  BY <1>3, <1>4

(* The two cells of an entry past the directory's block lie in the first extent. *)
LEMMA EntryDamage ==
  ASSUME IInv, Calm, pc[Creator] # "idle", NEW ino \in Inodes \ {ROOT_INODE},
         NEW c \in CellsOf(ino), c \in NameCell(count) .. InoCell(count)
  PROVE  count >= MAX_DIR_ENTRIES /\ inode_table[ino].ee_start = 1
<1> DEFINE a == inode_table[ino].ee_start
           l == inode_table[ino].ee_len
<1>1. count \in Nat /\ count + 2 \in Inodes
  BY Inode
<1>2. c = 2 * count \/ c = 2 * count + 1
  BY <1>1 DEF NameCell, InoCell
<1>3. a \in Nat /\ l \in Nat
  BY Record
<1>4. a * BLOCK_SIZE \in Nat /\ l * BLOCK_SIZE \in Nat /\ (Extent + 1) * BLOCK_SIZE \in Nat
  BY <1>3, Sizes
<1>5. c >= a * BLOCK_SIZE /\ c < a * BLOCK_SIZE + l * BLOCK_SIZE
  BY <1>4 DEF CellsOf, FirstCell
<1>6. l # 0
  BY <1>2, <1>1, <1>4, <1>5, Sizes
<1>7. c >= BLOCK_SIZE
  <2>1. a >= 1
    BY <1>6, BehindDirectory DEF Calm
  <2>2. 1 * BLOCK_SIZE <= a * BLOCK_SIZE
    BY <2>1, <1>3, Scaled
  <2> QED
    BY <2>2, <1>1, <1>2, <1>4, <1>5, Sizes
<1>8. count >= MAX_DIR_ENTRIES
  BY <1>1, <1>2, <1>7, Sizes DEF MAX_DIR_ENTRIES
<1>9. ~(a > Extent)
  <2>1. SUFFICES ASSUME a >= Extent + 1 PROVE FALSE
    BY <1>3, Sizes
  <2>2. (Extent + 1) * BLOCK_SIZE <= a * BLOCK_SIZE
    BY <2>1, <1>3, Sizes, Scaled
  <2>3. 2 * (INODE_COUNT - 2) <= (Extent + 1) * BLOCK_SIZE
    BY ExtentAssumption
  <2>4. count + 2 <= INODE_COUNT - 1
    BY <1>1 DEF Inodes
  <2>5. 2 * count + 1 < 2 * (INODE_COUNT - 2)
    BY <2>4, <1>1, Sizes
  <2>6. c < (Extent + 1) * BLOCK_SIZE
    BY <2>3, <2>5, <1>1, <1>2, <1>4, Sizes
  <2> QED
    BY <2>2, <2>6, <1>1, <1>2, <1>4, <1>5
<1>10. a = 1
  BY <1>6, <1>9 DEF Calm, Aligned
<1> QED
  BY <1>8, <1>10

(* Whatever is written changes the file it is written to, and no other, but for the
   entries that a create puts past the directory's block and the names that reach past
   their entry. *)
THEOREM Confined == Spec => DamageConfined
<1> DEFINE ByWrite(ino) == \E fd \in Fds : fds[fd].ino = ino /\ pc[fd] = "copy" /\ pc'[fd] # "copy"
           ByCreate(ino, c) ==
             /\ pc[Creator] \in {"name", "number"} /\ pc'[Creator] # pc[Creator]
             /\ \/ /\ count >= MAX_DIR_ENTRIES /\ c \in NameCell(count) .. InoCell(count)
                   /\ inode_table[ino].ee_start = 1
                \/ /\ pc[Creator] = "name"
                   /\ c \in InoCell(count) .. NameCell(count) + Reach[creating.name] - 1
           A == Sound => \A ino \in Inodes \ {ROOT_INODE} : \A c \in CellsOf(ino) :
                  data_blocks'[c] # data_blocks[c]
                  => \/ \E fd \in Fds : fds[fd].ino = ino /\ pc[fd] = "copy" /\ pc'[fd] # "copy"
                     \/ /\ pc[Creator] \in {"name", "number"} /\ pc'[Creator] # pc[Creator]
                        /\ \/ /\ count >= MAX_DIR_ENTRIES /\ c \in NameCell(count) .. InoCell(count)
                              /\ inode_table[ino].ee_start = 1
                           \/ /\ pc[Creator] = "name"
                              /\ c \in InoCell(count) .. NameCell(count) + Reach[creating.name] - 1
<1>1. ASSUME IInv, [Next]_vars PROVE A
  <2>1. SUFFICES ASSUME Sound, NEW ino \in Inodes \ {ROOT_INODE}, NEW c \in CellsOf(ino),
                        data_blocks'[c] # data_blocks[c]
                 PROVE  ByWrite(ino) \/ ByCreate(ino, c)
    OBVIOUS
  <2>2. Calm /\ c \in Cells /\ pc \in [Tasks -> Steps]
    <3>1. Calm
      BY <1>1, <2>1, Sounded
    <3>2. Apart
      BY <3>1 DEF Calm
    <3> QED
      BY <1>1, <2>1, <3>1, <3>2, CellsInside DEF IInv, TypeOK
  <2>3. ASSUME PutName PROVE ByCreate(ino, c)
    <3>1. pc[Creator] = "name" /\ pc'[Creator] = "number"
      BY <2>2, <2>3, Sizes DEF PutName
    <3>2. c \in NameCell(count) .. NameCell(count) + Reach[creating.name] - 1
      BY <1>1, <2>1, <2>2, <2>3, NamePut
    <3>3. count \in Nat
      BY <1>1, Inode
    <3>4. CASE c = NameCell(count)
      <4>1. c \in NameCell(count) .. InoCell(count)
        BY <3>3, <3>4 DEF NameCell, InoCell
      <4> QED
        BY <1>1, <2>1, <2>2, <3>1, <4>1, EntryDamage
    <3>5. CASE c # NameCell(count)
      <4>1. c \in InoCell(count) .. NameCell(count) + Reach[creating.name] - 1
        BY <3>2, <3>3, <3>5 DEF NameCell, InoCell
      <4> QED
        BY <3>1, <4>1
    <3> QED
      BY <3>4, <3>5
  <2>4. ASSUME PutNumber PROVE ByCreate(ino, c)
    <3>1. pc[Creator] = "number" /\ pc'[Creator] = "idle" /\ count \in Nat
      BY <1>1, <2>2, <2>4, Inode, Sizes DEF PutNumber
    <3>2. data_blocks' = [data_blocks EXCEPT ![InoCell(count)] = creating.ino]
          /\ data_blocks \in [Cells -> Nat]
      BY <1>1, <2>4 DEF PutNumber, IInv, TypeOK
    <3>3. c = InoCell(count)
      BY <2>1, <2>2, <3>2
    <3>4. c \in NameCell(count) .. InoCell(count)
      BY <3>1, <3>3 DEF NameCell, InoCell
    <3> QED
      BY <1>1, <2>1, <2>2, <3>1, <3>4, EntryDamage
  <2>5. ASSUME NEW fd \in Fds, NEW len \in Lengths, NEW byte \in Bytes,
               Write(fd, len, byte) \/ \E k \in Lengths : WriteFault(fd, len, byte, k)
        PROVE  ByWrite(ino)
    <3>1. len \in Nat /\ byte \in Nat /\ pc[fd] = "copy" /\ WithinExtent(fd)
      BY <2>5, ExtentAssumption DEF Write, WriteFault
    <3>2. pc'[fd] # "copy"
      BY <2>2, <2>5, Sizes DEF Write, WriteFault
    <3>3. /\ fds[fd].ino # 0 /\ Clamped(fd, len) \in Nat
          /\ fds[fd].pos + Clamped(fd, len) <= Capacity(fd)
      BY <1>1, <3>1, CopySize
    <3>4. \E f \in [0 .. Clamped(fd, len) - 1 -> Nat] : CopyIn(fd, f)
      <4>1. CASE Write(fd, len, byte)
        BY <4>1, <3>1 DEF Write
      <4>2. ASSUME NEW k \in Lengths, WriteFault(fd, len, byte, k)
            PROVE  \E f \in [0 .. Clamped(fd, len) - 1 -> Nat] : CopyIn(fd, f)
        <5> DEFINE f == [j \in 0 .. Clamped(fd, len) - 1 |-> IF j < k THEN byte ELSE 0]
        <5>1. CopyIn(fd, f)
          BY <4>2 DEF WriteFault
        <5>2. f \in [0 .. Clamped(fd, len) - 1 -> Nat]
          BY <3>1
        <5> HIDE DEF f
        <5> QED
          BY <5>1, <5>2
      <4> QED
        BY <2>5, <4>1, <4>2
    <3>5. c \in CellsOf(fds[fd].ino)
      BY <1>1, <2>1, <2>2, <3>1, <3>3, <3>4, CopyWithin
    <3>6. fds[fd].ino \in Inodes /\ Apart
      BY <1>1, <2>2, <3>3, InCall DEF Calm
    <3>7. fds[fd].ino = ino
      BY <1>1, <2>1, <3>5, <3>6, CellsApart
    <3> QED
      BY <3>1, <3>2, <3>7
  <2>6. \/ PutName \/ PutNumber
        \/ \E fd \in Fds, len \in Lengths, byte \in Bytes :
             Write(fd, len, byte) \/ \E k \in Lengths : WriteFault(fd, len, byte, k)
        \/ data_blocks' = data_blocks
    BY <1>1 DEF Next, vars, Create, Shrink, Scan, Mark, StoreStart, StoreLen, Open, Seek, Close,
                Begin, WriteBeyond, Compare, Store, Read
  <2> QED
    BY <2>1, <2>3, <2>4, <2>5, <2>6
<1>2. IInv /\ [Next]_vars => [A]_vars
  BY <1>1
<1> QED
  BY <1>2, Invariance, PTL DEF Spec, DamageConfined
=============================================================================
