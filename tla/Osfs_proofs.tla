---------------------------- MODULE Osfs_proofs ----------------------------
(***************************************************************************)
(* Proofs about Osfs for all sizes of the file system, any number of       *)
(* descriptors, and with or without failures.                              *)
(***************************************************************************)
EXTENDS Osfs, FiniteSetTheorems, SequenceTheorems, TLAPS

(* The root's inode and block are never given to a file. *)
RootReserved == ROOT_INODE \in inode_bitmap /\ 0 \in block_bitmap

(* An open descriptor refers to a file of the directory. *)
FdsLive == \A fd \in Fds : IsOpen(fd) => fds[fd].ino \in Live

(* Calls run on open files, and a write that got so far ends within the block. *)
CallsOpen == \A fd \in Fds : /\ ~At(fd, "idle") => IsOpen(fd)
                             /\ Writing(fd) => fds[fd].pos <= BLOCK_SIZE
CallRecords == [at : Steps, end : 0 .. MaxPos]

IInv == /\ TypeOK
        /\ RootReserved
        /\ BlocksAccounted
        /\ DirConsistent
        /\ FileHasBlock
        /\ SizeWithinBlock
        /\ FdsLive
        /\ CallsOpen
-----------------------------------------------------------------------------
(* The sizes are such that the root has its inode and its block. *)
LEMMA Sizes == /\ INODE_COUNT \in Nat /\ INODE_COUNT >= 2
               /\ DATA_BLOCK_COUNT \in Nat /\ DATA_BLOCK_COUNT >= 1
               /\ MAX_DIR_ENTRIES \in Nat /\ BLOCK_SIZE \in Nat
               /\ UintMod \in Nat /\ UintMod > INODE_COUNT
               /\ ROOT_INODE \in Inodes /\ 0 \in Blocks
<1>1. INODE_COUNT \in Nat /\ INODE_COUNT >= 2
  BY OsfsAssumption
<1>2. DATA_BLOCK_COUNT \in Nat /\ DATA_BLOCK_COUNT >= 1
  BY OsfsAssumption
<1>3. ROOT_INODE \in Inodes
  BY <1>1 DEF ROOT_INODE, Inodes
<1>4. 0 \in Blocks
  BY <1>2 DEF Blocks
<1> QED
  BY <1>1, <1>2, <1>3, <1>4, OsfsAssumption

(* The blocks are finitely many, so the free ones can be counted. *)
LEMMA BlocksFinite ==
  ASSUME NEW S \in SUBSET Blocks
  PROVE  /\ IsFiniteSet(S) /\ Cardinality(S) \in 0 .. DATA_BLOCK_COUNT
         /\ \A b \in S : Cardinality(S \ {b}) = Cardinality(S) - 1
         /\ S # {} => Cardinality(S) > 0
<1>1. IsFiniteSet(Blocks) /\ Cardinality(Blocks) = DATA_BLOCK_COUNT
  BY FS_Interval, Sizes DEF Blocks
<1>2. IsFiniteSet(S) /\ Cardinality(S) <= DATA_BLOCK_COUNT /\ Cardinality(S) \in Nat
  BY <1>1, FS_Subset, FS_CardinalityType
<1>3. \A b \in S : Cardinality(S \ {b}) = Cardinality(S) - 1
  BY <1>2, FS_RemoveElement
<1>4. S # {} => Cardinality(S) # 0
  BY <1>2, FS_EmptySet
<1> QED
  BY <1>2, <1>3, <1>4, Sizes

(* A block taken from the bitmap was free and keeps the counter exact. *)
LEMMA AllocKeepsCount ==
  ASSUME TypeOK, BlocksAccounted, NEW b, AllocDataBlock(b)
  PROVE  /\ BlocksAccounted'
         /\ block_bitmap' \subseteq Blocks
         /\ nr_free_blocks' \in 0 .. DATA_BLOCK_COUNT
         /\ b \in Blocks \ block_bitmap
<1>1. b \in FreeBlocks /\ FreeBlocks' = FreeBlocks \ {b}
  BY DEF AllocDataBlock, First, FreeBlocks, TypeOK, Blocks
<1>2. Cardinality(FreeBlocks') = Cardinality(FreeBlocks) - 1
  BY <1>1, BlocksFinite DEF FreeBlocks
<1>3. nr_free_blocks # 0
  BY <1>1, BlocksFinite DEF FreeBlocks, BlocksAccounted
<1>4. nr_free_blocks' = nr_free_blocks - 1
  BY <1>3 DEF AllocDataBlock, Dec
<1>5. BlocksAccounted'
  BY <1>2, <1>4 DEF BlocksAccounted
<1>6. b \in Blocks \ block_bitmap /\ block_bitmap' \subseteq Blocks
  BY DEF AllocDataBlock, First, FreeBlocks, TypeOK
<1>7. nr_free_blocks' \in 0 .. DATA_BLOCK_COUNT
  BY <1>5, <1>6, BlocksFinite DEF BlocksAccounted, FreeBlocks
<1> QED
  BY <1>5, <1>6, <1>7

(* The invariant holds on a fresh mount. *)
LEMMA InitIInv == Init => IInv
<1> SUFFICES ASSUME Init PROVE IInv
  OBVIOUS
<1>1. /\ inode_bitmap = {ROOT_INODE} /\ block_bitmap = {0}
      /\ nr_free_inodes = INODE_COUNT - 1 /\ nr_free_blocks = DATA_BLOCK_COUNT - 1
      /\ dir_entries = <<>>
  BY DEF Init, RootMarked, InitialFree
<1>2. /\ inode_table = [ino \in Inodes |-> [i_size |-> 0, i_blocks |-> 0, i_block |-> 0]]
      /\ vfs_size = [ino \in Inodes |-> IF ino = ROOT_INODE THEN 0 ELSE NotCached]
      /\ data_blocks = [b \in Blocks |-> Zeroed] /\ fds = [fd \in Fds |-> Closed]
      /\ call = [fd \in Fds |-> Idle] /\ met = {} /\ late = {}
  BY DEF Init
<1>3. Len(dir_entries) = 0 /\ DOMAIN dir_entries = {}
      /\ dir_entries \in Seq([filename : Names, inode_no : Inodes])
  BY <1>1, EmptySeq
<1>4. dir_entry_count = 0 /\ vfs_size[ROOT_INODE] = 0
  BY <1>2, Sizes DEF dir_entry_count
<1>5. TypeOK
  <2>1. inode_bitmap \subseteq Inodes /\ block_bitmap \subseteq Blocks
    BY <1>1, Sizes
  <2>2. nr_free_inodes \in 0 .. UintMod - 1 /\ nr_free_blocks \in 0 .. DATA_BLOCK_COUNT
    BY <1>1, Sizes
  <2>3. data_blocks \in [Blocks -> [1 .. BLOCK_SIZE -> Byte]]
    BY <1>2 DEF Zeroed, Byte
  <2>4. inode_table \in [Inodes -> [i_size : Nat, i_blocks : {0, 1}, i_block : Blocks]]
    BY <1>2, Sizes
  <2>5. vfs_size \in [Inodes -> Nat \cup {NotCached}] /\ fds \in [Fds -> Descriptors]
    BY <1>2 DEF Descriptors
  <2>6. call \in [Fds -> [at : Steps, end : 0 .. MaxPos]] /\ met \subseteq Inodes
        /\ late \subseteq Fds
    BY <1>2, Sizes DEF Idle, Steps, MaxPos
  <2> QED
    BY <1>3, <2>1, <2>2, <2>3, <2>4, <2>5, <2>6 DEF TypeOK
<1>6. BlocksAccounted
  <2>1. Cardinality(Blocks) = DATA_BLOCK_COUNT
    BY FS_Interval, Sizes DEF Blocks
  <2>2. Cardinality(Blocks \ {0}) = Cardinality(Blocks) - 1
    BY BlocksFinite, Sizes
  <2> QED
    BY <1>1, <2>1, <2>2 DEF BlocksAccounted, FreeBlocks
<1>7. DirConsistent
  BY <1>3, <1>4, Sizes DEF DirConsistent
<1>8. FileHasBlock /\ SizeWithinBlock
  BY <1>3 DEF FileHasBlock, SizeWithinBlock, Live
<1>9. RootReserved /\ FdsLive /\ CallsOpen
  BY <1>1, <1>2 DEF RootReserved, FdsLive, IsOpen, CallsOpen, At, Writing, Idle
<1> QED
  BY <1>5, <1>6, <1>7, <1>8, <1>9 DEF IInv
-----------------------------------------------------------------------------
(* What the invariant says of the disk alone, the root's VFS size included. *)
DiskInv == /\ inode_bitmap \subseteq Inodes /\ block_bitmap \subseteq Blocks
           /\ nr_free_inodes \in 0 .. UintMod - 1
           /\ nr_free_blocks \in 0 .. DATA_BLOCK_COUNT
           /\ inode_table \in [Inodes -> [i_size : Nat, i_blocks : {0, 1}, i_block : Blocks]]
           /\ data_blocks \in [Blocks -> [1 .. BLOCK_SIZE -> Byte]]
           /\ dir_entries \in Seq([filename : Names, inode_no : Inodes])
           /\ RootReserved /\ BlocksAccounted /\ FileHasBlock /\ SizeWithinBlock

(* What it says of the VFS around it. *)
VfsInv == /\ vfs_size \in [Inodes -> Nat \cup {NotCached}]
          /\ fds \in [Fds -> Descriptors]
          /\ call \in [Fds -> CallRecords] /\ met \subseteq Inodes /\ late \subseteq Fds
          /\ FdsLive /\ CallsOpen

(* The invariant is those two and the consistency of the directory, which
   relates them; so it is after a step. *)
LEMMA Parts == /\ IInv <=> DiskInv /\ VfsInv /\ DirConsistent
               /\ IInv' <=> DiskInv' /\ VfsInv' /\ DirConsistent'
  BY DEF IInv, DiskInv, VfsInv, TypeOK, CallRecords

(* A call that leaves the disk alone keeps what is said of the disk. *)
LEMMA SameDisk == ASSUME DiskInv, UNCHANGED diskvars PROVE DiskInv'
  BY DEF DiskInv, diskvars, sbvars, RootReserved, BlocksAccounted, FreeBlocks,
     FileHasBlock, SizeWithinBlock, Live

(* ... and of the directory, if it leaves the root's VFS inode alone too. *)
LEMMA SameDir ==
  ASSUME DirConsistent, UNCHANGED diskvars,
         vfs_size'[ROOT_INODE] = vfs_size[ROOT_INODE]
  PROVE  DirConsistent'
  BY DEF DirConsistent, diskvars, sbvars, dir_entry_count

(* An open descriptor and the inode it leads to. *)
LEMMA OpenFile ==
  ASSUME IInv, NEW fd \in Fds, IsOpen(fd)
  PROVE  /\ fds[fd] \in [name : Names, ino : Inodes, pos : 0 .. MaxPos,
                         own : BOOLEAN, size : 0 .. BLOCK_SIZE]
         /\ fds[fd].ino \in Live
         /\ fds[fd].ino # ROOT_INODE
         /\ InodeOf(fd).i_size \in 0 .. BLOCK_SIZE
         /\ InodeOf(fd).i_block \in Blocks
<1>1. fds[fd] \in Descriptors /\ fds[fd] # Closed /\ fds[fd].ino \in Live
  BY DEF IInv, TypeOK, FdsLive, IsOpen
<1>2. fds[fd] \in [name : Names, ino : Inodes, pos : 0 .. MaxPos,
                   own : BOOLEAN, size : 0 .. BLOCK_SIZE]
  BY <1>1 DEF Descriptors
<1>3. fds[fd].ino # ROOT_INODE
  BY <1>1 DEF IInv, DirConsistent, Live
<1>4. inode_table[fds[fd].ino] \in [i_size : Nat, i_blocks : {0, 1}, i_block : Blocks]
  BY <1>2 DEF IInv, TypeOK
<1>5. inode_table[fds[fd].ino].i_size <= BLOCK_SIZE
  BY <1>1 DEF IInv, SizeWithinBlock
<1> QED
  BY <1>1, <1>2, <1>3, <1>4, <1>5, Sizes DEF InodeOf

(* What a call on an open file, or a step of one, does around the disk: the descriptor
   gets another position, its private inode another size, its call another step, the
   hashed VFS inode another size. *)
FileStep(fd, pos, size, c) ==
  /\ IsOpen(fd) /\ UNCHANGED <<sbvars, dir_entries>>
  /\ fds' = [fds EXCEPT ![fd] = [fds[fd] EXCEPT !.pos = pos, !.size = size]]
  /\ call' = [call EXCEPT ![fd] = c]
  /\ c.at \in {"compare", "store", "store_vfs"} => pos <= BLOCK_SIZE
  /\ \/ UNCHANGED vfs_size
     \/ \E s \in 0 .. BLOCK_SIZE : vfs_size' = [vfs_size EXCEPT ![fds[fd].ino] = s]
  /\ met' \subseteq Inodes /\ late' \subseteq Fds

(* What such a step leaves, of the descriptors and of the calls *)
LEMMA FileStepParts ==
  ASSUME IInv, NEW fd \in Fds, NEW pos \in 0 .. MaxPos, NEW size \in 0 .. BLOCK_SIZE,
         NEW c \in CallRecords, FileStep(fd, pos, size, c)
  PROVE  /\ fds'[fd] = [fds[fd] EXCEPT !.pos = pos, !.size = size]
         /\ fds'[fd].pos = pos /\ fds'[fd].size = size
         /\ fds'[fd].name = fds[fd].name /\ fds'[fd].ino = fds[fd].ino
         /\ fds'[fd].own = fds[fd].own
         /\ call'[fd] = c
         /\ \A g \in Fds \ {fd} : fds'[g] = fds[g] /\ call'[g] = call[g]
         /\ \A g \in Fds : IsOpen(g)' <=> IsOpen(g)
<1>1. fds[fd] \in [name : Names, ino : Inodes, pos : 0 .. MaxPos,
                   own : BOOLEAN, size : 0 .. BLOCK_SIZE]
      /\ fds[fd].ino \in Live /\ fds[fd].ino # ROOT_INODE
  BY OpenFile DEF FileStep
<1>2. fds \in [Fds -> Descriptors] /\ call \in [Fds -> CallRecords]
  BY DEF IInv, TypeOK, CallRecords
<1> DEFINE new == [fds[fd] EXCEPT !.pos = pos, !.size = size]
<1>3. /\ new.pos = pos /\ new.size = size /\ new.name = fds[fd].name
      /\ new.ino = fds[fd].ino /\ new.own = fds[fd].own
  BY <1>1
<1>4. fds' = [fds EXCEPT ![fd] = new] /\ call' = [call EXCEPT ![fd] = c] /\ IsOpen(fd)
  BY DEF FileStep
<1>5. new # Closed
  <2>1. new.ino # Closed.ino
    BY <1>1, <1>3, Sizes DEF Closed, Inodes
  <2> QED
    BY <2>1
<1> HIDE DEF new
<1>6. fds'[fd] = new /\ \A g \in Fds \ {fd} : fds'[g] = fds[g]
  BY <1>2, <1>4
<1>7. call'[fd] = c /\ \A g \in Fds \ {fd} : call'[g] = call[g]
  BY <1>2, <1>4
<1>8. \A g \in Fds : IsOpen(g)' <=> IsOpen(g)
  BY <1>4, <1>5, <1>6 DEF IsOpen
<1> QED
  BY <1>3, <1>6, <1>7, <1>8 DEF new

LEMMA FileStepKeeps ==
  ASSUME IInv, NEW fd \in Fds, NEW pos \in 0 .. MaxPos, NEW size \in 0 .. BLOCK_SIZE,
         NEW c \in CallRecords, FileStep(fd, pos, size, c)
  PROVE  VfsInv' /\ vfs_size'[ROOT_INODE] = vfs_size[ROOT_INODE]
<1>1. fds[fd] \in [name : Names, ino : Inodes, pos : 0 .. MaxPos,
                   own : BOOLEAN, size : 0 .. BLOCK_SIZE]
      /\ fds[fd].ino \in Live /\ fds[fd].ino # ROOT_INODE
  BY OpenFile DEF FileStep
<1>2. /\ fds \in [Fds -> Descriptors] /\ vfs_size \in [Inodes -> Nat \cup {NotCached}]
      /\ call \in [Fds -> CallRecords]
  BY DEF IInv, TypeOK, CallRecords
<1>3. fds' \in [Fds -> Descriptors] /\ call' \in [Fds -> CallRecords]
  BY <1>1, <1>2 DEF Descriptors, FileStep
<1>4. FdsLive'
  <2>1. Live' = Live
    BY DEF Live, FileStep
  <2>2. \A g \in Fds : fds'[g].ino = fds[g].ino /\ (IsOpen(g)' <=> IsOpen(g))
    BY FileStepParts
  <2> QED
    BY <2>1, <2>2 DEF IInv, FdsLive
<1>5. CallsOpen'
  <2>1. \A g \in Fds \ {fd} : fds'[g] = fds[g] /\ call'[g] = call[g]
    BY FileStepParts
  <2>2. /\ fds'[fd].pos = pos /\ call'[fd] = c
        /\ \A g \in Fds : IsOpen(g)' <=> IsOpen(g)
    <3>1. fds'[fd].pos = pos
      BY FileStepParts
    <3>2. call'[fd] = c
      BY <1>2 DEF FileStep
    <3>3. \A g \in Fds : IsOpen(g)' <=> IsOpen(g)
      BY FileStepParts
    <3> QED
      BY <3>1, <3>2, <3>3
  <2>3. IsOpen(fd) /\ (c.at \in {"compare", "store", "store_vfs"} => pos <= BLOCK_SIZE)
    BY DEF FileStep
  <2> QED
    BY <2>1, <2>2, <2>3 DEF IInv, CallsOpen, At, Writing
<1>6. vfs_size' \in [Inodes -> Nat \cup {NotCached}]
      /\ vfs_size'[ROOT_INODE] = vfs_size[ROOT_INODE]
  BY <1>1, <1>2, Sizes DEF FileStep
<1> QED
  BY <1>3, <1>4, <1>5, <1>6 DEF VfsInv, FileStep
-----------------------------------------------------------------------------
(* Calls refused before they take anything. *)
LEMMA QuietKeeps == ASSUME IInv, UNCHANGED <<diskvars, vfs_size, fds, callvars>> PROVE IInv'
<1>1. DiskInv' /\ DirConsistent'
  BY Parts, SameDisk, SameDir
<1>2. VfsInv'
  BY Parts DEF VfsInv, FdsLive, CallsOpen, IsOpen, At, Writing, Live, diskvars, callvars
<1> QED
  BY <1>1, <1>2, Parts

(* lookup, and the reclaim of a dentry *)
LEMMA DcacheKeeps ==
  ASSUME IInv, (\E n \in Names : LookupHit(n)) \/ (\E ino \in Inodes : Shrink(ino))
  PROVE  IInv'
<1>1. PICK ino \in Inodes \ {ROOT_INODE}, v \in Nat \cup {NotCached} :
        vfs_size' = [vfs_size EXCEPT ![ino] = v]
  <2>1. ASSUME NEW n \in Names, LookupHit(n)
        PROVE  \E ino \in Inodes \ {ROOT_INODE}, v \in Nat \cup {NotCached} :
                 vfs_size' = [vfs_size EXCEPT ![ino] = v]
    <3>1. PICK e \in DOMAIN dir_entries : Iget(dir_entries[e].inode_no)
      BY <2>1 DEF LookupHit
    <3>2. dir_entries[e].inode_no \in Inodes \ {ROOT_INODE}
      BY <3>1 DEF IInv, TypeOK, DirConsistent
    <3>3. inode_table[dir_entries[e].inode_no].i_size \in Nat
      BY <3>2 DEF IInv, TypeOK
    <3> QED
      BY <3>1, <3>2, <3>3 DEF Iget
  <2>2. ASSUME NEW ino \in Inodes, Shrink(ino)
        PROVE  ino # ROOT_INODE /\ vfs_size' = [vfs_size EXCEPT ![ino] = NotCached]
    BY <2>2 DEF Shrink
  <2> QED
    BY <2>1, <2>2
<1>2. UNCHANGED <<diskvars, fds, callvars>>
  BY DEF LookupHit, Shrink
<1>3. vfs_size' \in [Inodes -> Nat \cup {NotCached}]
      /\ vfs_size'[ROOT_INODE] = vfs_size[ROOT_INODE]
  BY <1>1, Parts, Sizes DEF VfsInv
<1>4. DiskInv' /\ DirConsistent'
  BY <1>2, <1>3, Parts, SameDisk, SameDir
<1>5. VfsInv'
  BY <1>2, <1>3, Parts DEF VfsInv, FdsLive, CallsOpen, IsOpen, At, Writing, Live, diskvars,
     callvars
<1> QED
  BY <1>4, <1>5, Parts

(* open and close of a file there is *)
LEMMA OpenCloseKeeps ==
  ASSUME IInv, NEW fd \in Fds, Close(fd) \/ \E n \in Names : Open(fd, n)
  PROVE  IInv'
<1>1. UNCHANGED <<diskvars, vfs_size, callvars>>
  BY DEF Open, Close
<1>2. DiskInv' /\ DirConsistent'
  BY <1>1, Parts, SameDisk, SameDir
<1>3. /\ fds \in [Fds -> Descriptors] /\ call \in [Fds -> CallRecords]
      /\ FdsLive /\ CallsOpen
  BY DEF IInv, TypeOK, CallRecords
<1>4. Live' = Live
  BY <1>1 DEF Live, diskvars
<1>5. At(fd, "idle")
  BY <1>3 DEF Close, Open, Ready, CallsOpen, IsOpen
<1>6. CASE Close(fd)
  <2>1. fds' = [fds EXCEPT ![fd] = Closed]
    BY <1>6 DEF Close
  <2>2. fds' \in [Fds -> Descriptors] /\ FdsLive'
    BY <2>1, <1>3, <1>4 DEF Descriptors, FdsLive, IsOpen
  <2>3. CallsOpen'
    BY <2>1, <1>1, <1>3, <1>5 DEF CallsOpen, IsOpen, At, Writing, callvars
  <2> QED
    BY <1>1, <1>2, <2>2, <2>3, Parts DEF VfsInv, callvars
<1>7. ASSUME NEW n \in Names, Open(fd, n) PROVE VfsInv'
  <2>1. PICK e \in DOMAIN dir_entries :
          fds' = [fds EXCEPT ![fd] = [Closed EXCEPT !.name = n,
                                                    !.ino = dir_entries[e].inode_no]]
    BY <1>7 DEF Open
  <2>2. dir_entries[e].inode_no \in Inodes /\ dir_entries[e].inode_no \in Live
    BY DEF IInv, TypeOK, DirConsistent, Live
  <2>3. fds'[fd] = [name |-> n, ino |-> dir_entries[e].inode_no, pos |-> 0,
                    own |-> FALSE, size |-> 0]
    BY <2>1, <1>3 DEF Closed
  <2>4. fds'[fd] \in Descriptors
    BY <2>2, <2>3, Sizes DEF Descriptors, MaxPos
  <2>5. fds' \in [Fds -> Descriptors]
    BY <2>1, <2>4, <1>3
  <2>6. FdsLive'
    BY <2>1, <2>2, <2>3, <1>3, <1>4 DEF FdsLive, IsOpen
  <2>7. CallsOpen'
    BY <2>1, <1>1, <1>3, <1>5 DEF CallsOpen, IsOpen, At, Writing, callvars
  <2> QED
    BY <1>1, <2>5, <2>6, <2>7, Parts DEF VfsInv, callvars
<1> QED
  BY <1>2, <1>6, <1>7, Parts

-----------------------------------------------------------------------------
(* An inode number taken from the bitmap was free and belongs to no file. *)
LEMMA TakenIsNew ==
  ASSUME IInv, NEW ino, TakeInode(ino)
  PROVE  /\ ino \in Inodes \ inode_bitmap /\ ino # ROOT_INODE /\ ino \notin Live
         /\ inode_bitmap' = inode_bitmap \cup {ino}
<1>1. ino \in Inodes \ inode_bitmap /\ inode_bitmap' = inode_bitmap \cup {ino}
  BY DEF TakeInode, First, FreeInodes
<1> QED
  BY <1>1 DEF IInv, RootReserved, DirConsistent, Live

(* The counter stays a uint32_t. *)
LEMMA DecInRange ==
  ASSUME NEW x \in 0 .. UintMod - 1 PROVE Dec(x) \in 0 .. UintMod - 1
  BY Sizes DEF Dec

(* new_inode failed, or a block or a directory slot was missing: an inode number is
   taken that no file has, and all that files consist of is what it was. *)
LEMMA Failed ==
  ASSUME IInv, NEW n \in Names, CreateNoMem(n) \/ CreateLeaks(n)
  PROVE  /\ UNCHANGED <<data_blocks, dir_entries, vfs_size, fds, callvars>>
         /\ Live' = Live /\ Live \subseteq Inodes
         /\ \E ino \in Inodes \ inode_bitmap :
              /\ TakeInode(ino) /\ ino # ROOT_INODE /\ ino \notin Live
              /\ inode_bitmap' = inode_bitmap \cup {ino}
              /\ inode_table' \in [Inodes -> [i_size : Nat, i_blocks : {0, 1}, i_block : Blocks]]
              /\ \A x \in Inodes : x # ino => inode_table'[x] = inode_table[x]
<1>1. PICK ino \in Inodes : TakeInode(ino) /\
        \E v : inode_table' = inode_table \/
               /\ v \in [i_size : Nat, i_blocks : {0, 1}, i_block : Blocks]
               /\ inode_table' = [inode_table EXCEPT ![ino] = v]
  <2>1. ASSUME NEW b \in Blocks
        PROVE  NewOsfsInode(b) \in [i_size : Nat, i_blocks : {0, 1}, i_block : Blocks]
    BY DEF NewOsfsInode
  <2> QED
    BY <2>1 DEF CreateNoMem, CreateLeaks, NewInode
<1>2. ino \in Inodes \ inode_bitmap /\ ino # ROOT_INODE /\ ino \notin Live
      /\ inode_bitmap' = inode_bitmap \cup {ino}
  BY <1>1, TakenIsNew
<1>3. UNCHANGED <<data_blocks, dir_entries, vfs_size, fds, callvars>>
  BY DEF CreateNoMem, CreateLeaks
<1>4. /\ inode_table' \in [Inodes -> [i_size : Nat, i_blocks : {0, 1}, i_block : Blocks]]
      /\ \A x \in Inodes : x # ino => inode_table'[x] = inode_table[x]
  BY <1>1 DEF IInv, TypeOK
<1>5. Live' = Live /\ Live \subseteq Inodes
  BY <1>3 DEF Live, IInv, TypeOK, DirConsistent
<1> QED
  BY <1>1, <1>2, <1>3, <1>4, <1>5

LEMMA FailedCreateKeeps ==
  ASSUME IInv, NEW n \in Names, CreateNoMem(n) \/ CreateLeaks(n)
  PROVE  IInv'
<1>1. UNCHANGED <<data_blocks, dir_entries, vfs_size, fds, callvars>>
      /\ Live' = Live /\ Live \subseteq Inodes
  BY Failed
<1>2. PICK ino \in Inodes \ inode_bitmap :
        /\ ino # ROOT_INODE /\ ino \notin Live
        /\ inode_bitmap' = inode_bitmap \cup {ino}
        /\ inode_table' \in [Inodes -> [i_size : Nat, i_blocks : {0, 1}, i_block : Blocks]]
        /\ \A x \in Inodes : x # ino => inode_table'[x] = inode_table[x]
  BY Failed
<1>3. /\ block_bitmap \subseteq block_bitmap' /\ block_bitmap' \subseteq Blocks
      /\ BlocksAccounted' /\ nr_free_blocks' \in 0 .. DATA_BLOCK_COUNT
  <2>1. CASE UNCHANGED <<block_bitmap, nr_free_blocks>>
    BY <2>1 DEF IInv, TypeOK, BlocksAccounted, FreeBlocks
  <2>2. CASE \E b \in Blocks : AllocDataBlock(b)
    <3>1. PICK b \in Blocks : AllocDataBlock(b)
      BY <2>2
    <3>2. TypeOK /\ BlocksAccounted
      BY DEF IInv
    <3> QED
      BY <3>1, <3>2, AllocKeepsCount DEF AllocDataBlock
  <2> QED
    BY <2>1, <2>2 DEF CreateNoMem, CreateLeaks, NewInode
<1>4. nr_free_inodes' \in 0 .. UintMod - 1
  <2>1. nr_free_inodes' = Dec(nr_free_inodes) \/ nr_free_inodes' = Dec(Dec(nr_free_inodes))
    BY DEF CreateNoMem, CreateLeaks, NewInode
  <2> QED
    BY <2>1, DecInRange DEF IInv, TypeOK
<1>5. FileHasBlock' /\ SizeWithinBlock'
  BY <1>2, <1>1, <1>3 DEF IInv, FileHasBlock, SizeWithinBlock
<1>6. DiskInv'
  BY <1>2, <1>1, <1>3, <1>4, <1>5 DEF DiskInv, IInv, TypeOK, RootReserved
<1>7. VfsInv'
  BY <1>1, Parts DEF VfsInv, FdsLive, CallsOpen, IsOpen, At, Writing, callvars
<1>8. DirConsistent'
  <2>1. dir_entry_count' = dir_entry_count
    BY <1>2, Sizes DEF dir_entry_count
  <2> QED
    BY <1>2, <1>1, <2>1 DEF IInv, DirConsistent
<1> QED
  BY <1>6, <1>7, <1>8, Parts

(* A successful create: the new file gets an inode and a block no other has, and
   its entry follows those there are. *)
Creation(fd, n, ino, b) ==
  /\ NewInode(ino, b) /\ ino # ROOT_INODE /\ ino \notin Live
  /\ inode_bitmap' = inode_bitmap \cup {ino}
  /\ block_bitmap' = block_bitmap \cup {b} /\ block_bitmap' \subseteq Blocks
  /\ BlocksAccounted' /\ nr_free_blocks' \in 0 .. DATA_BLOCK_COUNT
  /\ inode_table'[ino] = [i_size |-> 0, i_blocks |-> 1, i_block |-> b]
  /\ inode_table'[ROOT_INODE] = [inode_table[ROOT_INODE] EXCEPT !.i_size = @ + 1]
  /\ \A x \in Inodes \ {ino, ROOT_INODE} : inode_table'[x] = inode_table[x]
  /\ inode_table' \in [Inodes -> [i_size : Nat, i_blocks : {0, 1}, i_block : Blocks]]
  /\ dir_entry_count' = dir_entry_count + 1 /\ dir_entry_count \in Nat
  /\ dir_entries' \in Seq([filename : Names, inode_no : Inodes])
  /\ Len(dir_entries') = Len(dir_entries) + 1 /\ Len(dir_entries) \in Nat
  /\ DOMAIN dir_entries = 1 .. Len(dir_entries)
  /\ DOMAIN dir_entries' = 1 .. Len(dir_entries) + 1
  /\ \A x \in 1 .. Len(dir_entries) : dir_entries'[x] = dir_entries[x]
  /\ dir_entries'[Len(dir_entries) + 1] = [filename |-> n, inode_no |-> ino]
  /\ fds' = [fds EXCEPT ![fd] = [name |-> n, ino |-> ino, pos |-> 0,
                                 own |-> TRUE, size |-> 0]]
  /\ Live' = Live \cup {ino} /\ Live \subseteq Inodes \ {ROOT_INODE}

LEMMA Created ==
  ASSUME IInv, NEW fd \in Fds, NEW n \in Names, CreateOk(fd, n)
  PROVE  \E ino \in Inodes \ inode_bitmap, b \in Blocks \ block_bitmap :
           Creation(fd, n, ino, b)
<1> DEFINE entry(ino) == [filename |-> n, inode_no |-> ino]
<1>1. PICK ino \in Inodes, b \in Blocks :
        /\ NewInode(ino, b)
        /\ inode_table' = [inode_table EXCEPT ![ino] = NewOsfsInode(b),
                                              ![ROOT_INODE].i_size = @ + 1]
        /\ dir_entries' = Append(dir_entries, entry(ino))
        /\ fds' = [fds EXCEPT ![fd] = [name |-> n, ino |-> ino, pos |-> 0,
                                       own |-> TRUE, size |-> 0]]
  BY DEF CreateOk
<1>2. /\ ino \in Inodes \ inode_bitmap /\ ino # ROOT_INODE /\ ino \notin Live
      /\ inode_bitmap' = inode_bitmap \cup {ino}
  BY <1>1, TakenIsNew DEF NewInode
<1>3. /\ b \in Blocks \ block_bitmap /\ block_bitmap' = block_bitmap \cup {b}
      /\ block_bitmap' \subseteq Blocks
      /\ BlocksAccounted' /\ nr_free_blocks' \in 0 .. DATA_BLOCK_COUNT
  <2>1. AllocDataBlock(b) /\ TypeOK /\ BlocksAccounted
    BY <1>1 DEF NewInode, IInv
  <2> QED
    BY <2>1, AllocKeepsCount DEF AllocDataBlock
<1>4. /\ inode_table \in [Inodes -> [i_size : Nat, i_blocks : {0, 1}, i_block : Blocks]]
      /\ vfs_size \in [Inodes -> Nat \cup {NotCached}]
      /\ fds \in [Fds -> Descriptors]
      /\ dir_entries \in Seq([filename : Names, inode_no : Inodes])
  BY DEF IInv, TypeOK
<1>5. /\ inode_table'[ino] = [i_size |-> 0, i_blocks |-> 1, i_block |-> b]
      /\ inode_table'[ROOT_INODE] = [inode_table[ROOT_INODE] EXCEPT !.i_size = @ + 1]
      /\ \A x \in Inodes \ {ino, ROOT_INODE} : inode_table'[x] = inode_table[x]
      /\ inode_table' \in [Inodes -> [i_size : Nat, i_blocks : {0, 1}, i_block : Blocks]]
  <2> DEFINE R == [i_size : Nat, i_blocks : {0, 1}, i_block : Blocks]
             v == [i_size |-> 0, i_blocks |-> 1, i_block |-> b]
             r == [inode_table[ROOT_INODE] EXCEPT !.i_size = @ + 1]
  <2>1. v \in R
    BY <1>3
  <2>2. r \in R
    <3>1. inode_table[ROOT_INODE] \in R
      BY <1>4, Sizes
    <3> QED
      BY <3>1
  <2>3. inode_table' = [inode_table EXCEPT ![ino] = v, ![ROOT_INODE] = r]
    <3>1. NewOsfsInode(b) = v
      BY DEF NewOsfsInode
    <3> HIDE DEF v
    <3> QED
      BY <1>1, <1>2, <1>4, <3>1, Sizes
  <2> HIDE DEF v, r, R
  <2>4. inode_table \in [Inodes -> R]
    BY <1>4 DEF R
  <2>5. inode_table' \in [Inodes -> R] /\ inode_table'[ino] = v /\ inode_table'[ROOT_INODE] = r
        /\ \A x \in Inodes \ {ino, ROOT_INODE} : inode_table'[x] = inode_table[x]
    BY <1>2, <2>1, <2>2, <2>3, <2>4, Sizes
  <2> QED
    BY <2>5 DEF v, r, R
<1>6. dir_entry_count' = dir_entry_count + 1 /\ dir_entry_count \in Nat
  BY <1>4, <1>5, Sizes DEF dir_entry_count
<1>7. /\ dir_entries' \in Seq([filename : Names, inode_no : Inodes])
      /\ Len(dir_entries') = Len(dir_entries) + 1
      /\ \A x \in 1 .. Len(dir_entries) : dir_entries'[x] = dir_entries[x]
      /\ dir_entries'[Len(dir_entries) + 1] = entry(ino)
  <2>1. entry(ino) \in [filename : Names, inode_no : Inodes]
    OBVIOUS
  <2> QED
    BY <1>1, <1>4, <2>1, AppendProperties
<1>8. /\ DOMAIN dir_entries = 1 .. Len(dir_entries) /\ Len(dir_entries) \in Nat
      /\ DOMAIN dir_entries' = 1 .. Len(dir_entries) + 1
  BY <1>4, <1>7, LenProperties
<1>9. Live' = Live \cup {ino}
  BY <1>7, <1>8 DEF Live
<1>10. Live \subseteq Inodes \ {ROOT_INODE}
  <2>1. ASSUME NEW x \in DOMAIN dir_entries
        PROVE  dir_entries[x].inode_no \in Inodes \ {ROOT_INODE}
    BY DEF IInv, TypeOK, DirConsistent
  <2> QED
    BY <2>1 DEF Live
<1> QED
  BY <1>1, <1>2, <1>3, <1>5, <1>6, <1>7, <1>8, <1>9, <1>10 DEF Creation

LEMMA CreateKeeps ==
  ASSUME IInv, NEW fd \in Fds, NEW n \in Names, CreateOk(fd, n)
  PROVE  IInv'
<1>1. PICK ino \in Inodes \ inode_bitmap, b \in Blocks \ block_bitmap :
        Creation(fd, n, ino, b)
  BY Created
<1>2. Live' = Live \cup {ino} /\ Live \subseteq Inodes \ {ROOT_INODE}
  BY <1>1 DEF Creation
<1>3. FileHasBlock' /\ SizeWithinBlock'
  <2>1. ASSUME NEW x \in Live PROVE inode_table'[x] = inode_table[x]
    BY <1>1, <1>2 DEF Creation
  <2>2. \A x \in Live : /\ inode_table[x].i_blocks = 1
                        /\ inode_table[x].i_block \in block_bitmap \ {0}
                        /\ inode_table[x].i_size <= BLOCK_SIZE
    BY DEF IInv, FileHasBlock, SizeWithinBlock
  <2>3. b # 0
    BY DEF IInv, RootReserved
  <2>4. /\ inode_table'[ino] = [i_size |-> 0, i_blocks |-> 1, i_block |-> b]
        /\ block_bitmap' = block_bitmap \cup {b}
    BY <1>1 DEF Creation
  <2>5. FileHasBlock'
    BY <1>2, <2>1, <2>2, <2>3, <2>4 DEF IInv, FileHasBlock
  <2>6. SizeWithinBlock'
    BY <1>2, <2>1, <2>2, <2>4, Sizes DEF SizeWithinBlock
  <2> QED
    BY <2>5, <2>6
<1>4. DiskInv'
  <2>1. data_blocks' = data_blocks /\ nr_free_inodes' = Dec(Dec(nr_free_inodes))
    BY <1>1 DEF CreateOk, Creation, NewInode
  <2>2. nr_free_inodes' \in 0 .. UintMod - 1
    BY <2>1, DecInRange DEF IInv, TypeOK
  <2> QED
    BY <1>1, <1>3, <2>1, <2>2 DEF Creation, DiskInv, IInv, TypeOK, RootReserved
<1>5. VfsInv'
  <2>1. /\ vfs_size \in [Inodes -> Nat \cup {NotCached}]
        /\ fds \in [Fds -> Descriptors] /\ FdsLive
    BY DEF IInv, TypeOK
  <2>2. vfs_size' \in [Inodes -> Nat \cup {NotCached}]
    <3>1. vfs_size[ROOT_INODE] = dir_entry_count /\ dir_entry_count \in Nat
      BY <1>1 DEF IInv, DirConsistent, Creation
    <3>2. vfs_size' = [vfs_size EXCEPT ![ROOT_INODE] = @ + 1]
      BY DEF CreateOk
    <3> QED
      BY <2>1, <3>1, <3>2, Sizes
  <2>3. fds' = [fds EXCEPT ![fd] = [name |-> n, ino |-> ino, pos |-> 0,
                                    own |-> TRUE, size |-> 0]]
    BY <1>1 DEF Creation
  <2>4. fds'[fd] \in Descriptors /\ fds'[fd].ino = ino
    BY <2>1, <2>3, Sizes DEF Descriptors, MaxPos
  <2>5. fds' \in [Fds -> Descriptors]
    BY <2>1, <2>3, <2>4
  <2>6. FdsLive'
    BY <1>2, <2>1, <2>3, <2>4 DEF FdsLive, IsOpen
  <2>7. CallsOpen' /\ UNCHANGED callvars
    <3>1. UNCHANGED callvars /\ fds[fd] = Closed
      BY DEF CreateOk
    <3>2. CallsOpen /\ call \in [Fds -> CallRecords]
      BY DEF IInv, TypeOK, CallRecords
    <3> QED
      BY <2>1, <2>3, <3>1, <3>2 DEF CallsOpen, IsOpen, At, Writing, callvars
  <2> QED
    BY <2>2, <2>5, <2>6, <2>7, Parts DEF VfsInv, callvars
<1>6. DirConsistent'
  <2>1. /\ Len(dir_entries) = dir_entry_count /\ ~DirFull /\ ~Exists(n)
        /\ vfs_size' = [vfs_size EXCEPT ![ROOT_INODE] = @ + 1]
        /\ vfs_size[ROOT_INODE] = dir_entry_count
    BY DEF CreateOk, MayCreate, IInv, DirConsistent
  <2>2. /\ dir_entry_count' = dir_entry_count + 1 /\ dir_entry_count \in Nat
        /\ Len(dir_entries') = Len(dir_entries) + 1 /\ Len(dir_entries) \in Nat
        /\ DOMAIN dir_entries = 1 .. Len(dir_entries)
        /\ DOMAIN dir_entries' = 1 .. Len(dir_entries) + 1
        /\ \A x \in 1 .. Len(dir_entries) : dir_entries'[x] = dir_entries[x]
        /\ dir_entries'[Len(dir_entries) + 1] = [filename |-> n, inode_no |-> ino]
        /\ inode_bitmap' = inode_bitmap \cup {ino} /\ ino # ROOT_INODE /\ ino \notin Live
    BY <1>1 DEF Creation
  <2>3. Len(dir_entries') = dir_entry_count' /\ dir_entry_count' <= MAX_DIR_ENTRIES
    BY <2>1, <2>2, Sizes DEF DirFull
  <2>4. vfs_size'[ROOT_INODE] = dir_entry_count'
    BY <2>1, <2>2, Sizes DEF IInv, TypeOK
  <2>5. \A x \in DOMAIN dir_entries : dir_entries[x].filename # n
    BY <2>1, <2>2 DEF Exists, Named
  <2>6. \A x \in DOMAIN dir_entries : dir_entries[x].inode_no # ino
    BY <2>2 DEF Live
  <2>7. ASSUME NEW x \in DOMAIN dir_entries', NEW y \in DOMAIN dir_entries'
        PROVE  /\ dir_entries'[x].inode_no \in inode_bitmap' \ {ROOT_INODE}
               /\ x # y => /\ dir_entries'[x].filename # dir_entries'[y].filename
                           /\ dir_entries'[x].inode_no # dir_entries'[y].inode_no
    BY <2>2, <2>5, <2>6 DEF IInv, DirConsistent
  <2> QED
    BY <2>3, <2>4, <2>7 DEF DirConsistent
<1> QED
  BY <1>4, <1>5, <1>6, Parts
-----------------------------------------------------------------------------
(* What is left of a write's bytes fits between the position and the end of the
   block. *)
LEMMA ClampedFits ==
  ASSUME NEW fd, fds[fd].pos \in 0 .. BLOCK_SIZE, NEW d \in Data
  PROVE  /\ Clamped(fd, d) \in Seq(Bytes)
         /\ DOMAIN Clamped(fd, d) = 1 .. Len(Clamped(fd, d))
         /\ Len(Clamped(fd, d)) \in Nat
         /\ fds[fd].pos + Len(Clamped(fd, d)) \in 0 .. BLOCK_SIZE
<1>1. PICK l \in 0 .. BLOCK_SIZE : d \in [1 .. l -> Bytes]
  BY DEF Data
<1>2. d \in Seq(Bytes) /\ Len(d) = l
  BY <1>1, Sizes
<1> DEFINE m == Smaller(Len(d), BLOCK_SIZE - fds[fd].pos)
<1>3. m \in 0 .. l /\ fds[fd].pos + m \in 0 .. BLOCK_SIZE
  BY <1>1, <1>2, Sizes DEF Smaller
<1>4. SubSeq(d, 1, m) \in Seq(Bytes) /\ Len(SubSeq(d, 1, m)) = m
  BY <1>1, <1>3, SubSeqProperties
<1> QED
  BY <1>3, <1>4, LenProperties DEF Clamped

(* Copying bytes into the block of an open file leaves blocks of bytes. *)
LEMMA CopyKeepsType ==
  ASSUME IInv, NEW fd \in Fds, IsOpen(fd), NEW d, CopyIn(fd, d),
         \A j \in DOMAIN d : d[j] \in Byte
  PROVE  data_blocks' \in [Blocks -> [1 .. BLOCK_SIZE -> Byte]]
<1>1. InodeOf(fd).i_block \in Blocks
  BY OpenFile
<1>2. data_blocks \in [Blocks -> [1 .. BLOCK_SIZE -> Byte]]
  BY DEF IInv, TypeOK
<1> DEFINE new == [j \in 1 .. BLOCK_SIZE |->
                     IF j - fds[fd].pos \in DOMAIN d THEN d[j - fds[fd].pos]
                     ELSE data_blocks[InodeOf(fd).i_block][j]]
<1>3. new \in [1 .. BLOCK_SIZE -> Byte]
  BY <1>1, <1>2
<1>4. data_blocks' = [data_blocks EXCEPT ![InodeOf(fd).i_block] = new]
  BY DEF CopyIn
<1> HIDE DEF new
<1> QED
  BY <1>1, <1>2, <1>3, <1>4

(* The calls on an open file, and the steps of a read and of a write *)
FileCall(fd) == \/ \E p \in 0 .. MaxPos : Seek(fd, p)
                \/ \E s \in 0 .. BLOCK_SIZE : Truncate(fd, s)
                \/ \E len \in 0 .. BLOCK_SIZE : Read(fd, len)
                \/ \E d \in Data : Write(fd, d) \/ \E c \in 0 .. Len(d) : WriteFault(fd, d, c)
                \/ CopyOut(fd) \/ ReadFault(fd)
                \/ Compare(fd) \/ Store(fd) \/ StoreVfs(fd)

LEMMA FileCallOpen == ASSUME IInv, NEW fd \in Fds, FileCall(fd) PROVE IsOpen(fd)
<1>1. At(fd, "idle") \/ IsOpen(fd)
  BY DEF IInv, CallsOpen
<1> QED
  BY <1>1 DEF FileCall, Seek, Truncate, Read, Write, WriteFault, CopyOut, ReadFault, Compare,
     Store, StoreVfs, Ready, At

LEMMA FileSteps ==
  ASSUME IInv, NEW fd \in Fds, FileCall(fd)
  PROVE  \E pos \in 0 .. MaxPos, size \in 0 .. BLOCK_SIZE, c \in CallRecords :
           FileStep(fd, pos, size, c)
<1>1. IsOpen(fd)
  BY FileCallOpen
<1>2. /\ fds[fd] \in [name : Names, ino : Inodes, pos : 0 .. MaxPos,
                      own : BOOLEAN, size : 0 .. BLOCK_SIZE]
      /\ InodeOf(fd).i_size \in 0 .. BLOCK_SIZE
  BY <1>1, OpenFile
<1>3. /\ fds \in [Fds -> Descriptors] /\ call \in [Fds -> CallRecords]
      /\ met \subseteq Inodes /\ late \subseteq Fds
      /\ Writing(fd) => fds[fd].pos <= BLOCK_SIZE
  BY DEF IInv, TypeOK, CallRecords, CallsOpen
<1> DEFINE keeps(pos, size) == fds' = [fds EXCEPT ![fd] = [fds[fd] EXCEPT !.pos = pos,
                                                                      !.size = size]]
           becomes(c) == call' = [call EXCEPT ![fd] = c]
           sized == \/ UNCHANGED vfs_size
                    \/ \E s \in 0 .. BLOCK_SIZE : vfs_size' = [vfs_size EXCEPT ![fds[fd].ino] = s]
<1>4. /\ UNCHANGED fds => keeps(fds[fd].pos, fds[fd].size)
      /\ UNCHANGED call => becomes(call[fd])
      /\ \A pos : MoveTo(fd, pos) => keeps(pos, fds[fd].size)
  BY <1>2, <1>3 DEF MoveTo
<1>5. ASSUME NEW s \in 0 .. BLOCK_SIZE, VfsResize(fd, s)
      PROVE  sized /\ \E size \in 0 .. BLOCK_SIZE : keeps(fds[fd].pos, size)
  <2>1. sized
    BY <1>5 DEF VfsResize
  <2>2. CASE fds[fd].own
    BY <1>2, <1>3, <1>5, <2>2 DEF VfsResize
  <2>3. CASE ~fds[fd].own
    BY <1>2, <1>3, <1>5, <2>3 DEF VfsResize
  <2> QED
    BY <2>1, <2>2, <2>3
<1>6. /\ call[fd] \in CallRecords
      /\ call[fd].at \in {"compare", "store", "store_vfs"} => fds[fd].pos <= BLOCK_SIZE
      /\ fds[fd].pos \in 0 .. MaxPos /\ fds[fd].size \in 0 .. BLOCK_SIZE
  BY <1>2, <1>3 DEF Writing
<1>7. Idle \in CallRecords /\ Idle.at = "idle"
      /\ \A at \in Steps, end \in 0 .. MaxPos :
           [at |-> at, end |-> end] \in CallRecords
  BY Sizes DEF Idle, CallRecords, Steps, MaxPos
<1>8. 0 \in 0 .. MaxPos /\ {"copy", "compare", "store", "store_vfs"} \subseteq Steps
  BY Sizes DEF MaxPos, Steps
<1> HIDE DEF keeps, becomes, sized
<1>9. ASSUME NEW pos \in 0 .. MaxPos, NEW size \in 0 .. BLOCK_SIZE, NEW c \in CallRecords,
             keeps(pos, size), becomes(c), sized, UNCHANGED <<sbvars, dir_entries>>,
             c.at \in {"compare", "store", "store_vfs"} => pos <= BLOCK_SIZE,
             met' \subseteq Inodes, late' \subseteq Fds
      PROVE  FileStep(fd, pos, size, c)
  BY <1>1, <1>9 DEF keeps, becomes, sized, FileStep
<1>10. ASSUME NEW p \in 0 .. MaxPos, Seek(fd, p)
       PROVE  FileStep(fd, p, fds[fd].size, call[fd])
  <2>1. ~Writing(fd)
    BY <1>10 DEF Seek, Ready, At, Writing
  <2>2. /\ MoveTo(fd, p) /\ UNCHANGED <<call, met, late, vfs_size, sbvars, dir_entries>>
    BY <1>10 DEF Seek, callvars, diskvars
  <2> QED
    BY <1>3, <1>4, <1>6, <1>9, <2>1, <2>2 DEF Writing, sized
<1>11. ASSUME NEW s \in 0 .. BLOCK_SIZE, Truncate(fd, s)
       PROVE  \E size \in 0 .. BLOCK_SIZE : FileStep(fd, fds[fd].pos, size, call[fd])
  <2>1. /\ VfsResize(fd, s) /\ UNCHANGED <<call, met, late, sbvars, dir_entries>>
    BY <1>11 DEF Truncate, callvars, diskvars
  <2> QED
    BY <1>3, <1>4, <1>5, <1>6, <1>9, <2>1
<1>12. ASSUME NEW len \in 0 .. BLOCK_SIZE, Read(fd, len)
       PROVE  \E c \in CallRecords : FileStep(fd, fds[fd].pos, fds[fd].size, c)
  <2> DEFINE end == fds[fd].pos + ReadLen(fd, len)
  <2>1. end \in 0 .. MaxPos
    BY <1>2, Sizes DEF ReadLen, Smaller, MaxPos
  <2>2. becomes([at |-> "copy", end |-> end])
        /\ UNCHANGED <<fds, met, vfs_size, sbvars, dir_entries>> /\ late' \subseteq Fds
    BY <1>3, <1>12 DEF Read, Goes, becomes, diskvars
  <2> HIDE DEF end
  <2>3. [at |-> "copy", end |-> end] \in CallRecords
    BY <1>7, <1>8, <2>1
  <2> QED
    BY <1>3, <1>4, <1>6, <1>9, <2>2, <2>3 DEF sized
<1>13. ASSUME CopyOut(fd) PROVE FileStep(fd, call[fd].end, fds[fd].size, Idle)
  <2>1. MoveTo(fd, call[fd].end) /\ becomes(Idle)
        /\ UNCHANGED <<met, vfs_size, sbvars, dir_entries>> /\ late' \subseteq Fds
    BY <1>3, <1>13 DEF CopyOut, Ends, becomes, diskvars
  <2>2. call[fd].end \in 0 .. MaxPos
    BY <1>6 DEF CallRecords
  <2> QED
    BY <1>3, <1>4, <1>6, <1>7, <1>9, <2>1, <2>2 DEF sized
<1>14. ASSUME ReadFault(fd) PROVE FileStep(fd, fds[fd].pos, fds[fd].size, Idle)
  <2>1. becomes(Idle) /\ UNCHANGED <<fds, met, vfs_size, sbvars, dir_entries>>
        /\ late' \subseteq Fds
    BY <1>3, <1>14 DEF ReadFault, Ends, becomes, diskvars
  <2> QED
    BY <1>3, <1>4, <1>6, <1>7, <1>9, <2>1 DEF sized
<1>15. ASSUME NEW d \in Data, Write(fd, d)
       PROVE  \E pos \in 0 .. MaxPos, c \in CallRecords : FileStep(fd, pos, fds[fd].size, c)
  <2> DEFINE pos == fds[fd].pos + Len(Clamped(fd, d))
  <2>1. fds[fd].pos \in 0 .. BLOCK_SIZE
    BY <1>2, <1>15, Sizes DEF Write, MaxPos
  <2>2. pos \in 0 .. MaxPos /\ pos <= BLOCK_SIZE
    <3>1. pos \in 0 .. BLOCK_SIZE
      BY <2>1, ClampedFits
    <3> HIDE DEF pos
    <3> QED
      BY <3>1, Sizes DEF MaxPos
  <2>3. MoveTo(fd, pos) /\ becomes([at |-> "compare", end |-> 0])
        /\ UNCHANGED <<vfs_size, sbvars, dir_entries>>
    BY <1>15 DEF Write, Goes, becomes
  <2>4. met' \subseteq Inodes /\ late' \subseteq Fds
    BY <1>2, <1>3, <1>15 DEF Write, Readers
  <2> HIDE DEF pos
  <2>5. [at |-> "compare", end |-> 0] \in CallRecords
    BY <1>7, <1>8
  <2> QED
    BY <1>4, <1>6, <1>9, <2>2, <2>3, <2>4, <2>5 DEF sized
<1>16. ASSUME NEW d \in Data, NEW c \in 0 .. Len(d), WriteFault(fd, d, c)
       PROVE  FileStep(fd, fds[fd].pos, fds[fd].size, call[fd])
  <2>1. UNCHANGED <<fds, call, met, late, vfs_size, sbvars, dir_entries>>
    BY <1>16 DEF WriteFault, callvars
  <2> QED
    BY <1>3, <1>4, <1>6, <1>9, <2>1 DEF sized
<1>17. ASSUME Compare(fd) PROVE \E c \in CallRecords : FileStep(fd, fds[fd].pos, fds[fd].size, c)
  <2>1. fds[fd].pos <= BLOCK_SIZE
    BY <1>3, <1>17 DEF Compare, At, Writing
  <2>2. UNCHANGED <<fds, met, late, vfs_size, sbvars, dir_entries>>
        /\ (becomes(Idle) \/ becomes([at |-> "store", end |-> 0]))
    BY <1>17 DEF Compare, Goes, Ends, becomes, diskvars
  <2>3. [at |-> "store", end |-> 0] \in CallRecords
    BY <1>7, <1>8
  <2> QED
    BY <1>3, <1>4, <1>6, <1>7, <1>9, <2>1, <2>2, <2>3 DEF sized
<1>18. ASSUME Store(fd) PROVE \E c \in CallRecords : FileStep(fd, fds[fd].pos, fds[fd].size, c)
  <2>1. fds[fd].pos <= BLOCK_SIZE
    BY <1>3, <1>18 DEF Store, At, Writing
  <2>2. UNCHANGED <<fds, met, late, vfs_size, sbvars, dir_entries>>
        /\ becomes([at |-> "store_vfs", end |-> 0])
    BY <1>18 DEF Store, Goes, becomes
  <2>3. [at |-> "store_vfs", end |-> 0] \in CallRecords
    BY <1>7, <1>8
  <2> QED
    BY <1>3, <1>4, <1>6, <1>9, <2>1, <2>2, <2>3 DEF sized
<1>19. ASSUME StoreVfs(fd)
       PROVE  \E size \in 0 .. BLOCK_SIZE : FileStep(fd, fds[fd].pos, size, Idle)
  <2>1. fds[fd].pos \in 0 .. BLOCK_SIZE
    BY <1>2, <1>3, <1>19, Sizes DEF StoreVfs, At, Writing, MaxPos
  <2>2. VfsResize(fd, fds[fd].pos) /\ becomes(Idle) /\ UNCHANGED <<met, late, sbvars, dir_entries>>
    BY <1>19 DEF StoreVfs, Ends, becomes, diskvars
  <2> QED
    BY <1>3, <1>5, <1>6, <1>7, <1>9, <2>1, <2>2
<1>20. call[fd].end \in 0 .. MaxPos
  BY <1>6 DEF CallRecords
<1> QED
  BY <1>6, <1>7, <1>10, <1>11, <1>12, <1>13, <1>14, <1>15, <1>16, <1>17, <1>18, <1>19, <1>20
     DEF FileCall

(* What the step that copies a write's bytes does to the disk, whether the user's buffer
   can be read or not: the block of the file gets them. *)
LEMMA Copied ==
  ASSUME IInv, NEW fd \in Fds, NEW d \in Data,
         Write(fd, d) \/ \E c \in 0 .. Len(d) : WriteFault(fd, d, c)
  PROVE  /\ IsOpen(fd) /\ fds[fd].ino \in Live
         /\ UNCHANGED <<sbvars, inode_table, dir_entries, vfs_size>>
         /\ data_blocks' \in [Blocks -> [1 .. BLOCK_SIZE -> Byte]]
         /\ \A b \in Blocks \ {InodeOf(fd).i_block} : data_blocks'[b] = data_blocks[b]
<1>1. /\ IsOpen(fd) /\ fds[fd].pos <= BLOCK_SIZE
      /\ UNCHANGED <<sbvars, inode_table, dir_entries, vfs_size>>
  BY DEF Write, WriteFault, Ready
<1>2. fds[fd].ino \in Live /\ fds[fd].pos \in 0 .. BLOCK_SIZE
  BY <1>1, OpenFile, Sizes DEF MaxPos
<1> DEFINE w == Clamped(fd, d)
<1>3. w \in Seq(Bytes) /\ DOMAIN w = 1 .. Len(w) /\ Len(w) \in Nat
  BY <1>2, ClampedFits
<1>4. data_blocks' \in [Blocks -> [1 .. BLOCK_SIZE -> Byte]]
  <2>1. CASE Write(fd, d)
    <3>1. \A j \in DOMAIN w : w[j] \in Byte
      BY <1>3, ElementOfSeq DEF Byte
    <3> QED
      BY <2>1, <3>1, <1>1, CopyKeepsType DEF Write
  <2>2. ASSUME NEW c \in 0 .. Len(d), WriteFault(fd, d, c)
        PROVE  data_blocks' \in [Blocks -> [1 .. BLOCK_SIZE -> Byte]]
    <3> DEFINE z == [j \in DOMAIN w |-> IF j <= c THEN d[j] ELSE 0]
    <3>1. CopyIn(fd, z) /\ c < Len(w)
      BY <2>2 DEF WriteFault
    <3>2. \A j \in 1 .. Len(w) : d[j] \in Bytes
      <4>1. PICK l \in 0 .. BLOCK_SIZE : d \in [1 .. l -> Bytes]
        BY DEF Data
      <4>2. Len(d) = l
        BY <4>1, Sizes
      <4>3. Len(w) <= l
        <5>1. Smaller(Len(d), BLOCK_SIZE - fds[fd].pos) \in 0 .. l
          BY <1>2, <4>1, <4>2, Sizes DEF Smaller
        <5> QED
          BY <4>1, <5>1, SubSeqProperties DEF Clamped
      <4> QED
        BY <1>3, <4>1, <4>3
    <3>3. \A j \in DOMAIN z : z[j] \in Byte
      BY <1>3, <3>2 DEF Byte
    <3> HIDE DEF z
    <3> QED
      BY <1>1, <3>1, <3>3, CopyKeepsType
  <2> QED
    BY <2>1, <2>2
<1>5. \A b \in Blocks \ {InodeOf(fd).i_block} : data_blocks'[b] = data_blocks[b]
  <2>1. PICK new : data_blocks' = [data_blocks EXCEPT ![InodeOf(fd).i_block] = new]
    BY DEF Write, WriteFault, CopyIn
  <2> QED
    BY <2>1 DEF IInv, TypeOK
<1> QED
  BY <1>1, <1>2, <1>4, <1>5

(* ... and the step that stores the size: the file's osfs_inode gets it. *)
LEMMA Stored ==
  ASSUME IInv, NEW fd \in Fds, Store(fd)
  PROVE  /\ fds[fd].ino \in Live \ {ROOT_INODE} /\ fds[fd].pos \in 0 .. BLOCK_SIZE
         /\ UNCHANGED <<sbvars, data_blocks, dir_entries, vfs_size, fds, met>>
         /\ inode_table' \in [Inodes -> [i_size : Nat, i_blocks : {0, 1}, i_block : Blocks]]
         /\ \A x \in Inodes : /\ inode_table'[x].i_block = inode_table[x].i_block
                              /\ inode_table'[x].i_blocks = inode_table[x].i_blocks
                              /\ x # fds[fd].ino => inode_table'[x] = inode_table[x]
         /\ inode_table'[fds[fd].ino].i_size = fds[fd].pos
<1>1. IsOpen(fd) /\ fds[fd].pos <= BLOCK_SIZE
  BY DEF IInv, CallsOpen, Store, At, Writing
<1>2. /\ fds[fd].ino \in Live \ {ROOT_INODE} /\ fds[fd].ino \in Inodes
      /\ fds[fd].pos \in 0 .. BLOCK_SIZE
  BY <1>1, OpenFile, Sizes DEF MaxPos
<1>3. inode_table \in [Inodes -> [i_size : Nat, i_blocks : {0, 1}, i_block : Blocks]]
  BY DEF IInv, TypeOK
<1>4. inode_table[fds[fd].ino] \in [i_size : Nat, i_blocks : {0, 1}, i_block : Blocks]
  BY <1>2, <1>3
<1>5. inode_table' = [inode_table EXCEPT ![fds[fd].ino].i_size = fds[fd].pos]
      /\ UNCHANGED <<sbvars, data_blocks, dir_entries, vfs_size, fds, met>>
  BY DEF Store
<1> QED
  BY <1>2, <1>3, <1>4, <1>5

LEMMA FileCallKeeps == ASSUME IInv, NEW fd \in Fds, FileCall(fd) PROVE IInv'
<1>1. PICK pos \in 0 .. MaxPos, size \in 0 .. BLOCK_SIZE, c \in CallRecords :
        FileStep(fd, pos, size, c)
  BY FileSteps
<1>2. VfsInv' /\ vfs_size'[ROOT_INODE] = vfs_size[ROOT_INODE]
  BY <1>1, FileStepKeeps
<1>3. Live' = Live /\ Live \subseteq Inodes
  <2>1. \A x \in DOMAIN dir_entries : dir_entries[x].inode_no \in Inodes
    BY DEF IInv, TypeOK, DirConsistent
  <2> QED
    BY <1>1, <2>1 DEF Live, FileStep
<1>4. CASE UNCHANGED diskvars
  BY <1>2, <1>4, Parts, SameDisk, SameDir
<1>5. ASSUME NEW d \in Data, Write(fd, d) \/ \E k \in 0 .. Len(d) : WriteFault(fd, d, k)
      PROVE  IInv'
  <2>1. UNCHANGED <<sbvars, inode_table, dir_entries>>
        /\ data_blocks' \in [Blocks -> [1 .. BLOCK_SIZE -> Byte]]
    BY <1>5, Copied
  <2>2. DiskInv'
    BY <1>3, <2>1, Parts DEF DiskInv, sbvars, RootReserved, BlocksAccounted, FreeBlocks,
       FileHasBlock, SizeWithinBlock
  <2>3. DirConsistent'
    BY <1>2, <2>1 DEF IInv, DirConsistent, dir_entry_count, sbvars
  <2> QED
    BY <1>2, <2>2, <2>3, Parts
<1>6. CASE Store(fd)
  <2>1. /\ fds[fd].ino \in Live \ {ROOT_INODE} /\ fds[fd].pos \in 0 .. BLOCK_SIZE
        /\ UNCHANGED <<sbvars, data_blocks, dir_entries>>
        /\ inode_table' \in [Inodes -> [i_size : Nat, i_blocks : {0, 1}, i_block : Blocks]]
        /\ \A x \in Inodes : /\ inode_table'[x].i_block = inode_table[x].i_block
                             /\ inode_table'[x].i_blocks = inode_table[x].i_blocks
                             /\ x # fds[fd].ino => inode_table'[x] = inode_table[x]
        /\ inode_table'[fds[fd].ino].i_size = fds[fd].pos
    BY <1>6, Stored
  <2>2. RootReserved' /\ BlocksAccounted'
    BY <2>1 DEF IInv, RootReserved, BlocksAccounted, FreeBlocks, sbvars
  <2>3. FileHasBlock'
    BY <1>3, <2>1 DEF IInv, FileHasBlock, sbvars
  <2>4. SizeWithinBlock'
    BY <1>3, <2>1, Sizes DEF IInv, SizeWithinBlock
  <2>5. DiskInv'
    BY <2>1, <2>2, <2>3, <2>4 DEF DiskInv, IInv, TypeOK, sbvars
  <2>6. DirConsistent'
    <3>1. dir_entry_count' = dir_entry_count
      BY <2>1, Sizes DEF dir_entry_count
    <3> QED
      BY <1>2, <2>1, <3>1 DEF IInv, DirConsistent, sbvars
  <2> QED
    BY <1>2, <2>5, <2>6, Parts
<1> QED
  BY <1>4, <1>5, <1>6 DEF FileCall, Seek, Truncate, Read, CopyOut, ReadFault, Compare, StoreVfs
-----------------------------------------------------------------------------
(* Every step keeps the invariant. *)
LEMMA Step == ASSUME IInv, [Next]_vars PROVE IInv'
<1>1. CASE UNCHANGED vars
  BY <1>1, QuietKeeps DEF vars, diskvars, sbvars, callvars
<1>2. ASSUME NEW n \in Names, CreateTooLong(n) \/ CreateRefused(n) PROVE IInv'
  BY <1>2, QuietKeeps DEF CreateTooLong, CreateRefused
<1>3. ASSUME NEW fd \in Fds, WriteBeyond(fd) PROVE IInv'
  BY <1>3, QuietKeeps DEF WriteBeyond
<1>4. ASSUME NEW fd \in Fds, FileCall(fd) PROVE IInv'
  BY <1>4, FileCallKeeps
<1> QED
  BY <1>1, <1>2, <1>3, <1>4, DcacheKeeps, OpenCloseKeeps, FailedCreateKeeps, CreateKeeps
     DEF Next, FileCall

(* Which steps change the disk *)
LEMMA StepKinds ==
  ASSUME [Next]_vars
  PROVE  \/ \E n \in Names : CreateLeaks(n) \/ CreateNoMem(n)
         \/ \E fd \in Fds, n \in Names : CreateOk(fd, n)
         \/ \E fd \in Fds, d \in Data :
              Write(fd, d) \/ \E c \in 0 .. Len(d) : WriteFault(fd, d, c)
         \/ \E fd \in Fds : Store(fd)
         \/ UNCHANGED diskvars
  BY DEF Next, vars, diskvars, sbvars, CreateTooLong, CreateRefused, LookupHit, Open,
     Shrink, Close, WriteBeyond, Seek, Truncate, Read, CopyOut, ReadFault, Compare, StoreVfs

(* IInv is an invariant of the file system. *)
THEOREM Invariance == Spec => []IInv
  BY InitIInv, Step, PTL DEF Spec

(* Every variable of the file system keeps its type: positions stay on or just
   past the block, sizes on it, the counters in their width. *)
THEOREM TypeCorrect == Spec => []TypeOK
<1>1. IInv => TypeOK
  BY DEF IInv
<1> QED
  BY <1>1, Invariance, PTL

(* nr_free_blocks always counts the clear bits of the block bitmap. *)
THEOREM FreeBlocksExact == Spec => []BlocksAccounted
<1>1. IInv => BlocksAccounted
  BY DEF IInv
<1> QED
  BY <1>1, Invariance, PTL

(* The directory's entries, its size and the inode bitmap agree. *)
THEOREM Directory == Spec => []DirConsistent
<1>1. IInv => DirConsistent
  BY DEF IInv
<1> QED
  BY <1>1, Invariance, PTL

(* No two files ever share a block, and none has the directory's. *)
THEOREM OwnBlock == Spec => []FileHasBlock
<1>1. IInv => FileHasBlock
  BY DEF IInv
<1> QED
  BY <1>1, Invariance, PTL

(* No file ever outgrows its block. *)
THEOREM WithinBlock == Spec => []SizeWithinBlock
<1>1. IInv => SizeWithinBlock
  BY DEF IInv
<1> QED
  BY <1>1, Invariance, PTL
-----------------------------------------------------------------------------
(* nr_free_inodes is odd until new_inode fails: it starts at INODE_COUNT - 1 and goes
   down by two, round an even modulus.  Inode numbers are taken with a block or
   without, never the other way round, so that new_inode's failures stay on record. *)
Odd == nr_free_inodes \in 0 .. UintMod - 1 /\ nr_free_inodes % 2 = 1
NoMoreBlocks == Cardinality(block_bitmap) <= Cardinality(inode_bitmap)
Parity == NoMoreBlocks /\ (EveryInodeHasBlock => Odd)

LEMMA DecTwiceOdd ==
  ASSUME NEW x \in 0 .. UintMod - 1, x % 2 = 1
  PROVE  Dec(Dec(x)) \in 0 .. UintMod - 1 /\ Dec(Dec(x)) % 2 = 1
<1>1. UintMod \in Nat /\ UintMod % 2 = 0 /\ UintMod >= 2
  BY OsfsAssumption
<1>2. x # 0 /\ Dec(x) = x - 1
  BY DEF Dec
<1>3. CASE x = 1
  BY <1>1, <1>2, <1>3 DEF Dec
<1>4. CASE x # 1
  BY <1>1, <1>2, <1>4 DEF Dec
<1> QED
  BY <1>3, <1>4

(* Taking an inode number, or a block, adds one to the bitmap's bits. *)
LEMMA InodeTaken ==
  ASSUME IInv, NEW ino \in Inodes, TakeInode(ino)
  PROVE  /\ Cardinality(inode_bitmap) \in Nat
         /\ Cardinality(inode_bitmap') = Cardinality(inode_bitmap) + 1
<1>1. IsFiniteSet(Inodes)
  BY Sizes, FS_Interval DEF Inodes
<1>2. inode_bitmap \subseteq Inodes
  BY DEF IInv, TypeOK
<1>3. IsFiniteSet(inode_bitmap)
  BY <1>1, <1>2, FS_Subset
<1>4. ino \notin inode_bitmap /\ inode_bitmap' = inode_bitmap \cup {ino}
  BY DEF TakeInode, First, FreeInodes
<1> QED
  BY <1>3, <1>4, FS_AddElement, FS_CardinalityType

LEMMA BlockTaken ==
  ASSUME IInv, NEW b \in Blocks, AllocDataBlock(b)
  PROVE  /\ Cardinality(block_bitmap) \in Nat
         /\ Cardinality(block_bitmap') = Cardinality(block_bitmap) + 1
<1>1. block_bitmap \subseteq Blocks
  BY DEF IInv, TypeOK
<1>2. IsFiniteSet(block_bitmap)
  BY <1>1, BlocksFinite
<1>3. b \notin block_bitmap /\ block_bitmap' = block_bitmap \cup {b}
  BY DEF AllocDataBlock, First, FreeBlocks
<1> QED
  BY <1>2, <1>3, FS_AddElement, FS_CardinalityType

(* What a step takes: nothing, an inode number with its block, or in CreateNoMem an
   inode number alone. *)
LEMMA Taken ==
  ASSUME IInv, [Next]_vars
  PROVE  \/ UNCHANGED <<inode_bitmap, block_bitmap, nr_free_inodes>>
         \/ \E ino \in Inodes, b \in Blocks : NewInode(ino, b)
         \/ \E ino \in Inodes : TakeInode(ino) /\ UNCHANGED block_bitmap
<1>1. ASSUME NEW n \in Names, CreateLeaks(n)
      PROVE  \E ino \in Inodes, b \in Blocks : NewInode(ino, b)
  <2>1. FreeBlocks = {} => nr_free_blocks = 0
    BY FS_EmptySet DEF IInv, BlocksAccounted
  <2> QED
    BY <1>1, <2>1 DEF CreateLeaks, MayAllocate
<1>2. \/ \E n \in Names : CreateLeaks(n) \/ CreateNoMem(n)
      \/ \E fd \in Fds, n \in Names : CreateOk(fd, n)
      \/ UNCHANGED <<inode_bitmap, block_bitmap, nr_free_inodes>>
  BY DEF Next, vars, CreateTooLong, CreateRefused, LookupHit, Open,
     Shrink, Close, WriteBeyond, Seek, Truncate, Read, CopyOut, ReadFault, Write, WriteFault,
     Compare, Store, StoreVfs, diskvars, sbvars
<1> QED
  BY <1>1, <1>2 DEF CreateNoMem, CreateOk

(* So the failures of new_inode stay on record, and without one the counter is odd. *)
LEMMA CountStep ==
  ASSUME IInv, NoMoreBlocks, [Next]_vars
  PROVE  /\ NoMoreBlocks'
         /\ EveryInodeHasBlock' => EveryInodeHasBlock /\ (Odd => Odd')
<1>1. ASSUME NEW ino \in Inodes, NEW b \in Blocks, NewInode(ino, b)
      PROVE  /\ NoMoreBlocks' /\ (Odd => Odd')
             /\ EveryInodeHasBlock' => EveryInodeHasBlock
  <2>1. TakeInode(ino) /\ AllocDataBlock(b) /\ nr_free_inodes' = Dec(Dec(nr_free_inodes))
    BY <1>1 DEF NewInode
  <2>2. /\ Cardinality(inode_bitmap) \in Nat /\ Cardinality(block_bitmap) \in Nat
        /\ Cardinality(inode_bitmap') = Cardinality(inode_bitmap) + 1
        /\ Cardinality(block_bitmap') = Cardinality(block_bitmap) + 1
    BY <2>1, InodeTaken, BlockTaken
  <2>3. Odd => Odd'
    BY <2>1, DecTwiceOdd DEF Odd
  <2> QED
    BY <2>2, <2>3 DEF NoMoreBlocks, EveryInodeHasBlock
<1>2. ASSUME NEW ino \in Inodes, TakeInode(ino), UNCHANGED block_bitmap
      PROVE  NoMoreBlocks' /\ ~EveryInodeHasBlock'
  <2>1. /\ Cardinality(inode_bitmap) \in Nat
        /\ Cardinality(inode_bitmap') = Cardinality(inode_bitmap) + 1
    BY <1>2, InodeTaken
  <2>2. Cardinality(block_bitmap) \in Nat
    BY BlocksFinite, FS_CardinalityType DEF IInv, TypeOK
  <2> QED
    BY <1>2, <2>1, <2>2 DEF NoMoreBlocks, EveryInodeHasBlock
<1>3. CASE UNCHANGED <<inode_bitmap, block_bitmap, nr_free_inodes>>
  BY <1>3 DEF NoMoreBlocks, EveryInodeHasBlock, Odd
<1> QED
  BY <1>1, <1>2, <1>3, Taken

LEMMA InitCounts ==
  ASSUME Init
  PROVE  /\ NoMoreBlocks
         /\ inode_bitmap = {ROOT_INODE} /\ nr_free_inodes = INODE_COUNT - 1
<1>1. inode_bitmap = {ROOT_INODE} /\ block_bitmap = {0} /\ nr_free_inodes = INODE_COUNT - 1
  BY DEF Init, InitialFree, RootMarked
<1>2. Cardinality({ROOT_INODE}) = 1 /\ Cardinality({0}) = 1
  BY FS_Singleton
<1>3. Cardinality(inode_bitmap) = 1 /\ Cardinality(block_bitmap) = 1
  BY <1>1, <1>2, Zenon
<1> QED
  BY <1>1, <1>3 DEF NoMoreBlocks

(* Counting every inode twice never makes a create fail: with an even number of
   inodes (20 in the code), until new_inode fails, a create is refused at the
   counters only when inodes or blocks have really run out. *)
THEOREM NoFalseAlarm ==
  ASSUME INODE_COUNT % 2 = 0 PROVE Spec => []NoSpuriousEnospc
<1>1. Init => Parity
  <2>1. INODE_COUNT - 1 \in 0 .. UintMod - 1 /\ (INODE_COUNT - 1) % 2 = 1
    BY Sizes
  <2> QED
    BY <2>1, InitCounts DEF Parity, Odd
<1>2. IInv /\ Parity /\ [Next]_vars => Parity'
  BY CountStep DEF Parity
<1>3. IInv /\ Parity => NoSpuriousEnospc
  <2>1. Odd => nr_free_inodes # 0
    BY DEF Odd
  <2>2. ASSUME IInv, FreeBlocks # {} PROVE nr_free_blocks # 0
    <3>1. FreeBlocks \in SUBSET Blocks
      BY DEF FreeBlocks
    <3>2. IsFiniteSet(FreeBlocks)
      BY <3>1, BlocksFinite
    <3>3. Cardinality(FreeBlocks) # 0
      BY <3>2, <2>2, FS_EmptySet
    <3> QED
      BY <3>3, <2>2 DEF IInv, BlocksAccounted
  <2> QED
    BY <2>1, <2>2 DEF NoSpuriousEnospc, MayAllocate, Parity
<1> QED
  BY <1>1, <1>2, <1>3, Invariance, PTL DEF Spec

(* An inode number that belongs to no file was taken by a create in a full directory,
   or new_inode has failed; and a directory once full stays so. *)
THEOREM OnlyFullLeaks == Spec => []OrphansOnlyWhenDirFull
<1> DEFINE Counts == NoMoreBlocks /\ OrphansOnlyWhenDirFull
<1>1. Init => Counts
  <2> SUFFICES ASSUME Init PROVE Counts
    OBVIOUS
  <2>1. dir_entries = <<>>
    BY DEF Init
  <2>2. Live = {}
    BY <2>1 DEF Live
  <2> QED
    BY <2>2, InitCounts DEF OrphansOnlyWhenDirFull
<1>2. IInv /\ Counts /\ [Next]_vars => Counts'
  <2> SUFFICES ASSUME IInv, Counts, [Next]_vars PROVE Counts'
    OBVIOUS
  <2>1. NoMoreBlocks' /\ (EveryInodeHasBlock' => EveryInodeHasBlock)
    BY CountStep
  <2>2. ASSUME NEW fd \in Fds, NEW n \in Names, CreateOk(fd, n)
        PROVE  OrphansOnlyWhenDirFull'
    <3>1. PICK ino \in Inodes, b \in Blocks : Creation(fd, n, ino, b)
      BY <2>2, Created
    <3>2. /\ inode_bitmap' = inode_bitmap \cup {ino} /\ Live' = Live \cup {ino}
          /\ dir_entry_count' = dir_entry_count + 1 /\ dir_entry_count \in Nat
      BY <3>1 DEF Creation
    <3> QED
      BY <2>1, <3>2, Sizes DEF OrphansOnlyWhenDirFull
  <2>3. ASSUME NEW n \in Names, CreateLeaks(n) PROVE OrphansOnlyWhenDirFull'
    <3>1. dir_entry_count >= MAX_DIR_ENTRIES
      <4>1. FreeBlocks = {} => nr_free_blocks = 0
        BY FS_EmptySet DEF IInv, BlocksAccounted
      <4> QED
        BY <2>3, <4>1 DEF CreateLeaks, MayAllocate, DirFull
    <3>2. dir_entry_count' = dir_entry_count
      <4>1. PICK ino \in Inodes : /\ ino # ROOT_INODE
                                  /\ \A x \in Inodes : x # ino => inode_table'[x] = inode_table[x]
        BY <2>3, Failed
      <4> QED
        BY <4>1, Sizes DEF dir_entry_count
    <3> QED
      BY <3>1, <3>2, Sizes DEF OrphansOnlyWhenDirFull, dir_entry_count, IInv, TypeOK
  <2>4. ASSUME NEW n \in Names, CreateNoMem(n) PROVE ~EveryInodeHasBlock'
    <3>1. PICK ino \in Inodes : TakeInode(ino) /\ UNCHANGED block_bitmap
      BY <2>4 DEF CreateNoMem
    <3>2. /\ Cardinality(inode_bitmap) \in Nat
          /\ Cardinality(inode_bitmap') = Cardinality(inode_bitmap) + 1
      BY <3>1, InodeTaken
    <3>3. Cardinality(block_bitmap) \in Nat
      BY BlocksFinite, FS_CardinalityType DEF IInv, TypeOK
    <3> QED
      BY <3>1, <3>2, <3>3 DEF NoMoreBlocks, EveryInodeHasBlock
  <2>5. CASE UNCHANGED diskvars
    BY <2>1, <2>5 DEF OrphansOnlyWhenDirFull, EveryInodeHasBlock, diskvars, sbvars, Live,
       dir_entry_count
  <2>6. ASSUME NEW fd \in Fds, NEW d \in Data,
               Write(fd, d) \/ \E c \in 0 .. Len(d) : WriteFault(fd, d, c)
        PROVE  OrphansOnlyWhenDirFull'
    <3>1. UNCHANGED <<sbvars, inode_table, dir_entries>>
      BY <2>6, Copied
    <3> QED
      BY <3>1 DEF OrphansOnlyWhenDirFull, EveryInodeHasBlock, sbvars, Live, dir_entry_count
  <2>7. ASSUME NEW fd \in Fds, Store(fd) PROVE OrphansOnlyWhenDirFull'
    <3>1. fds[fd].ino # ROOT_INODE /\ UNCHANGED <<sbvars, dir_entries>>
          /\ \A x \in Inodes : x # fds[fd].ino => inode_table'[x] = inode_table[x]
      BY <2>7, Stored
    <3>2. dir_entry_count' = dir_entry_count
      BY <3>1, Sizes DEF dir_entry_count
    <3> QED
      BY <3>1, <3>2 DEF OrphansOnlyWhenDirFull, EveryInodeHasBlock, sbvars, Live
  <2> QED
    BY <2>1, <2>2, <2>3, <2>4, <2>5, <2>6, <2>7, StepKinds DEF OrphansOnlyWhenDirFull
<1>3. Counts => OrphansOnlyWhenDirFull
  OBVIOUS
<1> QED
  BY <1>1, <1>2, <1>3, Invariance, PTL DEF Spec
-----------------------------------------------------------------------------
(* What the calls that are under way have to do with is left alone by whatever is no
   step of theirs. *)
LEMMA CallsFrame ==
  ASSUME IInv, [Next]_vars, ~ \E fd \in Fds : FileCall(fd)
  PROVE  /\ UNCHANGED <<callvars, data_blocks>>
         /\ \A fd \in Fds : ~At(fd, "idle") =>
              /\ fds'[fd] = fds[fd] /\ fds[fd].ino \in Live
              /\ inode_table'[fds[fd].ino] = inode_table[fds[fd].ino]
<1>1. fds \in [Fds -> Descriptors]
      /\ \A fd \in Fds : ~At(fd, "idle") =>
           /\ IsOpen(fd) /\ fds[fd].ino \in Live
           /\ fds[fd].ino \in Inodes /\ fds[fd].ino # ROOT_INODE
  BY OpenFile DEF IInv, TypeOK, CallsOpen
<1>2. CASE UNCHANGED <<diskvars, fds, callvars>>
  BY <1>1, <1>2 DEF diskvars
<1>3. ASSUME NEW g \in Fds, Close(g) \/ \E n \in Names : Open(g, n)
      PROVE  /\ UNCHANGED <<callvars, diskvars>>
             /\ \A fd \in Fds : ~At(fd, "idle") => fds'[fd] = fds[fd]
  <2>1. At(g, "idle")
    BY <1>3, <1>1 DEF Close, Open, Ready, IsOpen
  <2>2. \A fd \in Fds \ {g} : fds'[fd] = fds[fd]
    BY <1>1, <1>3 DEF Close, Open
  <2> QED
    BY <1>3, <2>1, <2>2 DEF Close, Open
<1>4. ASSUME NEW n \in Names, CreateNoMem(n) \/ CreateLeaks(n)
      PROVE  /\ UNCHANGED <<callvars, data_blocks, fds>>
             /\ \A x \in Live : inode_table'[x] = inode_table[x]
  BY <1>4, Failed
<1>5. ASSUME NEW g \in Fds, NEW n \in Names, CreateOk(g, n)
      PROVE  /\ UNCHANGED <<callvars, data_blocks>>
             /\ \A fd \in Fds : ~At(fd, "idle") => fds'[fd] = fds[fd]
             /\ \A x \in Live : inode_table'[x] = inode_table[x]
  <2>1. PICK ino \in Inodes \ inode_bitmap, b \in Blocks \ block_bitmap :
          Creation(g, n, ino, b)
    BY <1>5, Created
  <2>2. /\ UNCHANGED <<callvars, data_blocks>> /\ fds[g] = Closed
        /\ \A fd \in Fds \ {g} : fds'[fd] = fds[fd]
    BY <1>1, <1>5, <2>1 DEF CreateOk, Creation
  <2>3. At(g, "idle")
    BY <1>1, <2>2 DEF IsOpen
  <2>4. \A x \in Live : inode_table'[x] = inode_table[x]
    BY <2>1 DEF Creation
  <2> QED
    BY <2>2, <2>3, <2>4
<1>6. \/ UNCHANGED vars
      \/ \E n \in Names : CreateTooLong(n) \/ CreateRefused(n) \/ LookupHit(n)
      \/ \E ino \in Inodes : Shrink(ino)
      \/ \E fd \in Fds : WriteBeyond(fd)
      => UNCHANGED <<diskvars, fds, callvars>>
  BY DEF vars, diskvars, sbvars, callvars, CreateTooLong, CreateRefused, LookupHit, Shrink,
     WriteBeyond
<1>7. CASE \E g \in Fds : Close(g) \/ \E n \in Names : Open(g, n)
  BY <1>1, <1>3, <1>7 DEF diskvars
<1>8. CASE \E n \in Names : CreateNoMem(n) \/ CreateLeaks(n)
  BY <1>1, <1>4, <1>8
<1>9. CASE \E g \in Fds, n \in Names : CreateOk(g, n)
  BY <1>1, <1>5, <1>9
<1> QED
  BY <1>2, <1>6, <1>7, <1>8, <1>9 DEF Next, FileCall

(* While no two writes of a file have met, its writer is alone, and what it has found
   about the size is still so: it is behind the position until the writer stores that. *)
Turns == \A fd \in Fds : Writing(fd) /\ fds[fd].ino \notin met =>
  /\ \A g \in Fds \ {fd} : Writing(g) => fds[g].ino # fds[fd].ino
  /\ At(fd, "store") => Grows(fd)
  /\ At(fd, "store_vfs") => ~Grows(fd)

LEMMA TurnsFrame ==
  ASSUME Turns, met \subseteq met',
         \A fd \in Fds : Writing(fd)' =>
           /\ Writing(fd) /\ call'[fd] = call[fd]
           /\ fds'[fd].ino = fds[fd].ino /\ fds'[fd].pos = fds[fd].pos
           /\ inode_table'[fds[fd].ino].i_size = inode_table[fds[fd].ino].i_size
  PROVE  Turns'
<1> SUFFICES ASSUME NEW fd \in Fds, Writing(fd)', fds'[fd].ino \notin met'
             PROVE  /\ \A g \in Fds \ {fd} : Writing(g)' => fds'[g].ino # fds'[fd].ino
                    /\ At(fd, "store")' => Grows(fd)'
                    /\ At(fd, "store_vfs")' => ~Grows(fd)'
  BY DEF Turns
<1>1. Writing(fd) /\ fds[fd].ino \notin met
  OBVIOUS
<1>2. \A g \in Fds \ {fd} : Writing(g)' => fds'[g].ino # fds'[fd].ino
  BY <1>1 DEF Turns
<1>3. Grows(fd)' <=> Grows(fd)
  BY DEF Grows, InodeOf
<1>4. At(fd, "store")' = At(fd, "store") /\ At(fd, "store_vfs")' = At(fd, "store_vfs")
  BY DEF At
<1> QED
  BY <1>1, <1>2, <1>3, <1>4 DEF Turns

LEMMA TurnsKept == ASSUME IInv, Turns, [Next]_vars PROVE Turns'
<1>1. /\ fds \in [Fds -> Descriptors] /\ call \in [Fds -> CallRecords]
      /\ \A fd \in Fds : Writing(fd) => ~At(fd, "idle") /\ IsOpen(fd)
  BY DEF IInv, TypeOK, CallRecords, CallsOpen, At, Writing
<1>2. CASE ~ \E fd \in Fds : FileCall(fd)
  <2>1. /\ UNCHANGED <<call, met>>
        /\ \A fd \in Fds : ~At(fd, "idle") =>
             /\ fds'[fd] = fds[fd]
             /\ inode_table'[fds[fd].ino] = inode_table[fds[fd].ino]
    BY <1>2, CallsFrame DEF callvars
  <2>2. \A fd \in Fds : Writing(fd)' <=> Writing(fd)
    BY <2>1 DEF Writing
  <2> QED
    BY <1>1, <2>1, <2>2, TurnsFrame
<1>3. ASSUME NEW fd \in Fds, FileCall(fd) PROVE Turns'
  <2>1. PICK pos \in 0 .. MaxPos, size \in 0 .. BLOCK_SIZE, c \in CallRecords :
          FileStep(fd, pos, size, c)
    BY <1>3, FileSteps
  <2>2. /\ fds'[fd].ino = fds[fd].ino
        /\ \A g \in Fds \ {fd} : fds'[g] = fds[g] /\ call'[g] = call[g]
    BY <2>1, FileStepParts
  <2>3. IsOpen(fd) /\ fds[fd] \in [name : Names, ino : Inodes, pos : 0 .. MaxPos,
                                   own : BOOLEAN, size : 0 .. BLOCK_SIZE]
    BY <1>3, FileCallOpen, OpenFile
  <2>4. \A g \in Fds \ {fd} : /\ Writing(g)' <=> Writing(g)
                              /\ \A step : At(g, step)' <=> At(g, step)
    BY <2>2 DEF Writing, At
  <2>5. ASSUME UNCHANGED inode_table, met \subseteq met',
               Writing(fd)' => /\ Writing(fd) /\ call'[fd] = call[fd]
                               /\ fds'[fd].pos = fds[fd].pos
        PROVE  Turns'
    BY <2>2, <2>4, <2>5, TurnsFrame
  <2>6. ASSUME NEW p \in 0 .. MaxPos, Seek(fd, p) PROVE Turns'
    <3>1. ~Writing(fd)' /\ UNCHANGED <<inode_table, met>>
      BY <2>6 DEF Seek, Ready, At, Writing, callvars, diskvars
    <3> QED
      BY <2>5, <3>1
  <2>7. ASSUME NEW z \in 0 .. BLOCK_SIZE, Truncate(fd, z) PROVE Turns'
    <3>1. UNCHANGED <<inode_table, met, call>> /\ fds'[fd].pos = fds[fd].pos
      BY <1>1, <2>3, <2>7 DEF Truncate, VfsResize, callvars, diskvars
    <3> QED
      BY <2>5, <3>1 DEF Writing
  <2>8. ASSUME \/ \E len \in 0 .. BLOCK_SIZE : Read(fd, len)
               \/ CopyOut(fd) \/ ReadFault(fd) \/ StoreVfs(fd)
        PROVE  Turns'
    <3>1. UNCHANGED <<inode_table, met>>
      BY <2>8 DEF Read, CopyOut, ReadFault, StoreVfs, diskvars
    <3>2. call'[fd].at \in {"copy", "idle"}
      BY <1>1, <2>8 DEF Read, CopyOut, ReadFault, StoreVfs, Goes, Ends, Idle
    <3> QED
      BY <2>5, <3>1, <3>2 DEF Writing
  <2>9. ASSUME NEW d \in Data, NEW k \in 0 .. Len(d), WriteFault(fd, d, k) PROVE Turns'
    <3>1. UNCHANGED <<inode_table, met, call, fds>>
      BY <2>9 DEF WriteFault, callvars
    <3> QED
      BY <2>5, <3>1 DEF Writing
  <2>10. ASSUME NEW d \in Data, Write(fd, d) PROVE Turns'
    <3>1. /\ UNCHANGED inode_table /\ call'[fd] = [at |-> "compare", end |-> 0]
          /\ met' = IF Writers(fds[fd].ino) = {} THEN met ELSE met \cup {fds[fd].ino}
          /\ ~Writing(fd)
      BY <1>1, <2>10 DEF Write, Goes, Ready, At, Writing
    <3>2. At(fd, "compare")' /\ ~At(fd, "store")' /\ ~At(fd, "store_vfs")'
      BY <3>1 DEF At
    <3>3. \A g \in Fds \ {fd} : Writing(g) /\ fds[g].ino = fds[fd].ino => fds[fd].ino \in met'
      BY <3>1 DEF Writers
    <3>4. met \subseteq met'
      BY <3>1
    <3>5. ASSUME NEW g \in Fds \ {fd}, Writing(g)', fds'[g].ino \notin met'
          PROVE  /\ \A h \in Fds \ {g} : Writing(h)' => fds'[h].ino # fds'[g].ino
                 /\ At(g, "store")' => Grows(g)'
                 /\ At(g, "store_vfs")' => ~Grows(g)'
      <4>1. Writing(g) /\ fds[g].ino \notin met' /\ fds[g].ino \notin met
        BY <2>2, <2>4, <3>4, <3>5
      <4>2. \A h \in Fds \ {g} : Writing(h)' => fds'[h].ino # fds'[g].ino
        <5>1. fds'[fd].ino # fds'[g].ino
          BY <2>2, <3>3, <4>1
        <5> QED
          BY <2>2, <2>4, <4>1, <5>1 DEF Turns
      <4>3. Grows(g)' <=> Grows(g)
        BY <2>2, <3>1 DEF Grows, InodeOf
      <4> QED
        BY <2>4, <4>1, <4>2, <4>3 DEF Turns
    <3>6. ASSUME fds'[fd].ino \notin met'
          PROVE  \A h \in Fds \ {fd} : Writing(h)' => fds'[h].ino # fds'[fd].ino
      BY <2>2, <2>4, <3>3, <3>6
    <3> QED
      BY <3>2, <3>5, <3>6 DEF Turns
  <2>11. CASE Compare(fd)
    <3>1. /\ UNCHANGED <<inode_table, fds, met>> /\ At(fd, "compare")
          /\ call'[fd] = IF Grows(fd) THEN [at |-> "store", end |-> 0] ELSE Idle
      BY <1>1, <2>11 DEF Compare, Goes, Ends, diskvars
    <3>2. Writing(fd) /\ ~At(fd, "store_vfs")' /\ (At(fd, "store")' => Grows(fd))
      BY <3>1 DEF At, Writing, Idle
    <3>3. \A g \in Fds : (Grows(g)' <=> Grows(g)) /\ (Writing(g)' => Writing(g))
      BY <2>4, <3>1, <3>2 DEF Grows, InodeOf
    <3> QED
      BY <2>4, <3>1, <3>2, <3>3 DEF Turns
  <2>12. CASE Store(fd)
    <3>1. /\ UNCHANGED <<fds, met>>
          /\ \A x \in Inodes : x # fds[fd].ino => inode_table'[x] = inode_table[x]
          /\ inode_table'[fds[fd].ino].i_size = fds[fd].pos
      BY <2>12, Stored
    <3>2. call'[fd].at = "store_vfs" /\ At(fd, "store")
      BY <1>1, <2>12 DEF Store, Goes
    <3>3. Writing(fd) /\ ~At(fd, "store")'
      BY <3>2 DEF At, Writing
    <3>4. ~Grows(fd)'
      BY <2>3, <3>1, Sizes DEF Grows, InodeOf, MaxPos
    <3>5. ASSUME NEW g \in Fds \ {fd}, Writing(g)', fds'[g].ino \notin met'
          PROVE  /\ \A h \in Fds \ {g} : Writing(h)' => fds'[h].ino # fds'[g].ino
                 /\ At(g, "store")' => Grows(g)'
                 /\ At(g, "store_vfs")' => ~Grows(g)'
      <4>1. Writing(g) /\ fds[g].ino \notin met /\ fds'[g] = fds[g]
        BY <2>2, <2>4, <3>1, <3>5
      <4>2. fds[fd].ino # fds[g].ino
        BY <3>3, <4>1 DEF Turns
      <4>3. fds[g].ino \in Inodes
        BY <1>1, <4>1, OpenFile
      <4>4. Grows(g)' <=> Grows(g)
        BY <3>1, <4>2, <4>3 DEF Grows, InodeOf
      <4>5. \A h \in Fds \ {g} : Writing(h)' => Writing(h)
        BY <2>4, <3>3
      <4> QED
        BY <2>4, <3>1, <4>1, <4>4, <4>5 DEF Turns
    <3>6. ASSUME fds'[fd].ino \notin met'
          PROVE  \A h \in Fds \ {fd} : Writing(h)' => fds'[h].ino # fds'[fd].ino
      BY <2>4, <3>1, <3>3, <3>6 DEF Turns
    <3> QED
      BY <3>3, <3>4, <3>5, <3>6 DEF Turns
  <2> QED
    BY <1>3, <2>6, <2>7, <2>8, <2>9, <2>10, <2>11, <2>12 DEF FileCall
<1> QED
  BY <1>2, <1>3

LEMMA InitTurns == Init => Turns
<1> SUFFICES ASSUME Init, NEW fd \in Fds PROVE ~Writing(fd)
  BY DEF Turns
<1>1. call = [g \in Fds |-> Idle]
  BY DEF Init
<1> QED
  BY <1>1 DEF Writing, Idle

(* A VFS inode never has a size its file has not, unless two writes of the file have met:
   one that lookup made had the file's size then, and files only grow; a creator's own
   grows with the file.  Numbers that are free have no hashed VFS inode that would tell
   an old size. *)
Lags == /\ \A ino \in Inodes \ {ROOT_INODE} : ino \notin met =>
             vfs_size[ino] <= inode_table[ino].i_size
        /\ \A ino \in Inodes : vfs_size[ino] # NotCached => ino \in inode_bitmap
        /\ \A fd \in Fds : IsOpen(fd) /\ fds[fd].own /\ fds[fd].ino \notin met =>
             fds[fd].size <= InodeOf(fd).i_size

(* No such file shrinks, and no inode number is given back. *)
NoneShrinks ==
  /\ inode_bitmap \subseteq inode_bitmap' /\ met \subseteq met'
  /\ \A x \in Inodes : inode_table'[x].i_size \in Nat
  /\ \A x \in inode_bitmap \ {ROOT_INODE} :
       x \notin met => inode_table'[x].i_size >= inode_table[x].i_size

LEMMA SameInodes ==
  ASSUME IInv, UNCHANGED <<inode_bitmap, inode_table>>, met \subseteq met' PROVE NoneShrinks
<1>1. inode_table \in [Inodes -> [i_size : Nat, i_blocks : {0, 1}, i_block : Blocks]]
      /\ inode_bitmap \subseteq Inodes
  BY DEF IInv, TypeOK
<1>2. \A x \in Inodes : inode_table[x].i_size \in Nat
  BY <1>1
<1> QED
  BY <1>1, <1>2 DEF NoneShrinks

(* A step keeps that if it shrinks no file, and gives a VFS inode the size it had, or
   none beyond that of its file, or takes it from the cache. *)
LEMMA LagsKept ==
  ASSUME IInv, Lags, NoneShrinks,
         \A x \in Inodes \ {ROOT_INODE} :
           \/ vfs_size'[x] \in {vfs_size[x], NotCached}
           \/ x \in inode_bitmap /\ (x \notin met => vfs_size'[x] <= inode_table'[x].i_size),
         \A fd \in Fds : (IsOpen(fd) /\ fds[fd].own)' =>
           \/ IsOpen(fd) /\ fds[fd].own /\ fds'[fd].ino = fds[fd].ino
                         /\ fds'[fd].size = fds[fd].size
           \/ fds'[fd].ino \notin met => fds'[fd].size <= inode_table'[fds'[fd].ino].i_size
  PROVE  Lags'
<1>1. /\ vfs_size \in [Inodes -> Nat \cup {NotCached}]
      /\ inode_table \in [Inodes -> [i_size : Nat, i_blocks : {0, 1}, i_block : Blocks]]
      /\ ROOT_INODE \in inode_bitmap
  BY DEF IInv, TypeOK, RootReserved
<1> USE DEF NoneShrinks
<1>2. ASSUME NEW x \in Inodes \ {ROOT_INODE}, x \notin met'
      PROVE  vfs_size'[x] <= inode_table'[x].i_size
  <2>0. x \notin met
    BY <1>2
  <2>1. CASE vfs_size'[x] = vfs_size[x]
    <3>1. CASE x \in inode_bitmap
      BY <1>1, <2>0, <2>1, <3>1 DEF Lags, NotCached
    <3>2. CASE x \notin inode_bitmap
      BY <1>1, <2>1, <3>2 DEF Lags, NotCached
    <3> QED
      BY <3>1, <3>2
  <2>2. CASE vfs_size'[x] = NotCached
    BY <2>2 DEF NotCached
  <2> QED
    BY <2>0, <2>1, <2>2
<1>3. ASSUME NEW x \in Inodes, vfs_size'[x] # NotCached PROVE x \in inode_bitmap'
  BY <1>1, <1>3 DEF Lags
<1>4. ASSUME NEW fd \in Fds, (IsOpen(fd) /\ fds[fd].own)', fds'[fd].ino \notin met'
      PROVE  fds'[fd].size <= inode_table'[fds'[fd].ino].i_size
  <2>1. CASE IsOpen(fd) /\ fds[fd].own /\ fds'[fd].ino = fds[fd].ino
             /\ fds'[fd].size = fds[fd].size
    <3>1. fds[fd].ino \in Live /\ fds[fd].ino # ROOT_INODE /\ fds[fd].ino \in Inodes
          /\ fds[fd].size \in 0 .. BLOCK_SIZE
      BY <2>1, OpenFile
    <3>2. fds[fd].ino \in inode_bitmap
      BY <3>1 DEF IInv, DirConsistent, Live
    <3>3. fds[fd].ino \notin met /\ fds[fd].size <= inode_table[fds[fd].ino].i_size
      BY <1>4, <2>1 DEF Lags, InodeOf
    <3> QED
      BY <1>1, <2>1, <3>1, <3>2, <3>3, Sizes
  <2> QED
    BY <1>4, <2>1
<1> QED
  BY <1>2, <1>3, <1>4 DEF Lags, InodeOf

LEMMA LagsStep == ASSUME IInv, Turns, Lags, ~Truncates, [Next]_vars PROVE Lags'
<1>1. /\ vfs_size \in [Inodes -> Nat \cup {NotCached}] /\ fds \in [Fds -> Descriptors]
      /\ inode_table \in [Inodes -> [i_size : Nat, i_blocks : {0, 1}, i_block : Blocks]]
  BY DEF IInv, TypeOK
<1>2. CASE UNCHANGED <<diskvars, vfs_size, fds, callvars>>
  BY <1>2 DEF Lags, diskvars, sbvars, callvars, IsOpen, InodeOf
<1>3. ASSUME NEW n \in Names, LookupHit(n) PROVE Lags'
  <2>1. PICK e \in DOMAIN dir_entries : Iget(dir_entries[e].inode_no)
    BY <1>3 DEF LookupHit
  <2>2. dir_entries[e].inode_no \in inode_bitmap \cap Inodes
    BY <2>1 DEF IInv, TypeOK, DirConsistent
  <2>3. UNCHANGED <<inode_bitmap, inode_table, fds, met>>
    BY <1>3 DEF LookupHit, diskvars, sbvars, callvars
  <2>4. \A x \in Inodes \ {ROOT_INODE} :
           \/ vfs_size'[x] = vfs_size[x]
           \/ vfs_size'[x] <= inode_table'[x].i_size /\ x \in inode_bitmap
    BY <1>1, <2>1, <2>2, <2>3 DEF Iget
  <2>5. NoneShrinks
    BY <2>3, SameInodes
  <2> QED
    BY <2>3, <2>4, <2>5, LagsKept DEF IsOpen
<1>4. ASSUME NEW ino \in Inodes, Shrink(ino) PROVE Lags'
  <2>1. UNCHANGED <<inode_bitmap, inode_table, fds, met>>
        /\ vfs_size' = [vfs_size EXCEPT ![ino] = NotCached]
    BY <1>4 DEF Shrink, diskvars, sbvars, callvars
  <2>2. \A x \in Inodes : vfs_size'[x] \in {vfs_size[x], NotCached}
    BY <1>1, <2>1
  <2>3. NoneShrinks
    BY <2>1, SameInodes
  <2> QED
    BY <2>1, <2>2, <2>3, LagsKept DEF IsOpen
<1>5. ASSUME NEW fd \in Fds, Close(fd) \/ \E n \in Names : Open(fd, n) PROVE Lags'
  <2>1. UNCHANGED <<inode_bitmap, inode_table, vfs_size, met>>
    BY <1>5 DEF Close, Open, diskvars, sbvars, callvars
  <2>2. \A g \in Fds : (IsOpen(g) /\ fds[g].own)' => fds'[g] = fds[g]
    BY <1>1, <1>5 DEF Close, Open, Closed, IsOpen
  <2>3. NoneShrinks
    BY <2>1, SameInodes
  <2>4. \A g \in Fds : (IsOpen(g) /\ fds[g].own)' =>
           IsOpen(g) /\ fds[g].own /\ fds'[g].ino = fds[g].ino /\ fds'[g].size = fds[g].size
    BY <2>2 DEF IsOpen
  <2>5. \A x \in Inodes : vfs_size'[x] \in {vfs_size[x], NotCached}
    BY <2>1
  <2> QED
    BY <2>3, <2>4, <2>5, LagsKept
<1>6. ASSUME NEW fd \in Fds, \/ \E p \in 0 .. MaxPos : Seek(fd, p)
                             \/ \E len \in 0 .. BLOCK_SIZE : Read(fd, len)
                             \/ CopyOut(fd) \/ ReadFault(fd) \/ Compare(fd)
                             \/ \E d \in Data : \/ Write(fd, d)
                                                \/ \E c \in 0 .. Len(d) : WriteFault(fd, d, c)
      PROVE  Lags'
  <2>1. UNCHANGED <<inode_bitmap, inode_table, vfs_size>> /\ met \subseteq met'
    BY <1>6 DEF Seek, Read, CopyOut, ReadFault, Compare, Write, WriteFault, diskvars, sbvars,
       callvars
  <2>2. fds' = fds \/ \E pos : MoveTo(fd, pos)
    BY <1>6 DEF Seek, Read, CopyOut, ReadFault, Compare, Write, WriteFault
  <2>3. IsOpen(fd)
    BY <1>6, FileCallOpen DEF FileCall
  <2>4. \A g \in Fds : (IsOpen(g) /\ fds[g].own)' =>
           IsOpen(g) /\ fds[g].own /\ fds'[g].ino = fds[g].ino /\ fds'[g].size = fds[g].size
    <3>1. fds[fd] \in [name : Names, ino : Inodes, pos : 0 .. MaxPos,
                       own : BOOLEAN, size : 0 .. BLOCK_SIZE]
      BY <2>3, OpenFile
    <3> QED
      BY <1>1, <2>2, <2>3, <3>1 DEF IsOpen, MoveTo
  <2>5. NoneShrinks
    BY <2>1, SameInodes
  <2>6. \A x \in Inodes : vfs_size'[x] \in {vfs_size[x], NotCached}
    BY <2>1
  <2> QED
    BY <2>4, <2>5, <2>6, LagsKept
<1>7. ASSUME NEW n \in Names, CreateNoMem(n) \/ CreateLeaks(n) PROVE Lags'
  <2>1. PICK ino \in Inodes \ inode_bitmap :
          /\ inode_bitmap' = inode_bitmap \cup {ino}
          /\ inode_table' \in [Inodes -> [i_size : Nat, i_blocks : {0, 1}, i_block : Blocks]]
          /\ \A x \in Inodes : x # ino => inode_table'[x] = inode_table[x]
    BY <1>7, Failed
  <2>2. UNCHANGED <<vfs_size, fds, met>>
    BY <1>7, Failed DEF callvars
  <2>3. NoneShrinks
    <3>1. inode_bitmap \subseteq Inodes /\ \A x \in Inodes : inode_table[x].i_size \in Nat
      BY <1>1 DEF IInv, TypeOK
    <3> QED
      BY <2>1, <2>2, <3>1 DEF NoneShrinks
  <2> QED
    BY <2>2, <2>3, LagsKept DEF IsOpen
<1>8. ASSUME NEW fd \in Fds, NEW n \in Names, CreateOk(fd, n) PROVE Lags'
  <2>1. PICK ino \in Inodes \ inode_bitmap, b \in Blocks : Creation(fd, n, ino, b)
    BY <1>8, Created
  <2>2. /\ inode_bitmap' = inode_bitmap \cup {ino}
        /\ inode_table' \in [Inodes -> [i_size : Nat, i_blocks : {0, 1}, i_block : Blocks]]
        /\ inode_table'[ino].i_size = 0
        /\ \A x \in Inodes \ {ino, ROOT_INODE} : inode_table'[x] = inode_table[x]
        /\ fds' = [fds EXCEPT ![fd] = [name |-> n, ino |-> ino, pos |-> 0,
                                       own |-> TRUE, size |-> 0]]
    BY <2>1 DEF Creation
  <2>3. vfs_size' = [vfs_size EXCEPT ![ROOT_INODE] = @ + 1] /\ UNCHANGED met
    BY <1>8 DEF CreateOk, callvars
  <2>4. NoneShrinks
    <3>1. inode_bitmap \subseteq Inodes /\ \A x \in Inodes : inode_table[x].i_size \in Nat
      BY <1>1 DEF IInv, TypeOK
    <3> QED
      BY <2>2, <2>3, <3>1 DEF NoneShrinks
  <2>5. \A g \in Fds : \/ fds'[g] = fds[g]
                       \/ fds'[g].size = 0 /\ fds'[g].ino = ino
    BY <1>1, <2>2
  <2>6. \A x \in Inodes \ {ROOT_INODE} : vfs_size'[x] = vfs_size[x]
    BY <1>1, <2>3
  <2>7. \A g \in Fds : (IsOpen(g) /\ fds[g].own)' =>
           \/ IsOpen(g) /\ fds[g].own /\ fds'[g].ino = fds[g].ino
                        /\ fds'[g].size = fds[g].size
           \/ fds'[g].size <= inode_table'[fds'[g].ino].i_size
    BY <2>2, <2>5 DEF IsOpen
  <2> QED
    BY <2>4, <2>6, <2>7, LagsKept
<1>9. ASSUME NEW fd \in Fds, Store(fd) PROVE Lags'
  <2>1. /\ fds[fd].ino \in Live \ {ROOT_INODE} /\ fds[fd].pos \in 0 .. BLOCK_SIZE
        /\ UNCHANGED <<sbvars, vfs_size, fds, met>>
        /\ inode_table' \in [Inodes -> [i_size : Nat, i_blocks : {0, 1}, i_block : Blocks]]
        /\ \A x \in Inodes : x # fds[fd].ino => inode_table'[x] = inode_table[x]
        /\ inode_table'[fds[fd].ino].i_size = fds[fd].pos
    BY <1>9, Stored
  <2>2. fds[fd].ino \notin met => fds[fd].pos > inode_table[fds[fd].ino].i_size
    BY <1>9 DEF Turns, Store, At, Writing, Grows, InodeOf
  <2>3. NoneShrinks
    <3>1. inode_bitmap \subseteq Inodes /\ \A x \in Inodes : inode_table[x].i_size \in Nat
      BY <1>1 DEF IInv, TypeOK
    <3>2. \A x \in Inodes : inode_table'[x].i_size \in Nat
      BY <2>1
    <3>3. \A x \in Inodes : x \notin met => inode_table'[x].i_size >= inode_table[x].i_size
      BY <2>1, <2>2, <3>1, Sizes
    <3> QED
      BY <2>1, <3>1, <3>2, <3>3 DEF NoneShrinks, sbvars
  <2> QED
    BY <2>1, <2>3, LagsKept DEF IsOpen
<1>10. ASSUME NEW fd \in Fds, StoreVfs(fd) PROVE Lags'
  <2>1. UNCHANGED <<inode_bitmap, inode_table, met>> /\ VfsResize(fd, fds[fd].pos)
    BY <1>10 DEF StoreVfs, diskvars, sbvars
  <2>2. IsOpen(fd)
    BY <1>10, FileCallOpen DEF FileCall
  <2>3. /\ fds[fd] \in [name : Names, ino : Inodes, pos : 0 .. MaxPos,
                        own : BOOLEAN, size : 0 .. BLOCK_SIZE]
        /\ fds[fd].ino \in Live /\ InodeOf(fd).i_size \in 0 .. BLOCK_SIZE
    BY <2>2, OpenFile
  <2>4. fds[fd].ino \in inode_bitmap
    BY <2>3 DEF IInv, DirConsistent, Live
  <2>5. fds[fd].ino \notin met => fds[fd].pos <= inode_table'[fds[fd].ino].i_size
    <3>1. fds[fd].ino \notin met => ~(fds[fd].pos > InodeOf(fd).i_size)
      BY <1>10 DEF Turns, StoreVfs, At, Writing, Grows
    <3> QED
      BY <2>1, <2>3, <3>1, Sizes DEF InodeOf, MaxPos
  <2>6. NoneShrinks
    BY <2>1, SameInodes
  <2>7. \A x \in Inodes : \/ vfs_size'[x] = vfs_size[x]
                          \/ /\ x \in inode_bitmap
                             /\ x \notin met => vfs_size'[x] <= inode_table'[x].i_size
    BY <1>1, <2>1, <2>3, <2>4, <2>5 DEF VfsResize
  <2>8. /\ fds'[fd].ino = fds[fd].ino /\ fds'[fd].own = fds[fd].own
        /\ fds[fd].own => fds'[fd].size = fds[fd].pos
        /\ \A g \in Fds \ {fd} : fds'[g] = fds[g]
    BY <1>1, <2>1, <2>3 DEF VfsResize
  <2>9. \A g \in Fds : (IsOpen(g) /\ fds[g].own)' =>
           \/ IsOpen(g) /\ fds[g].own /\ fds'[g].ino = fds[g].ino
                        /\ fds'[g].size = fds[g].size
           \/ fds'[g].ino \notin met => fds'[g].size <= inode_table'[fds'[g].ino].i_size
    BY <2>2, <2>5, <2>8 DEF IsOpen
  <2> QED
    BY <2>6, <2>7, <2>9, LagsKept
<1>11. \A fd \in Fds, s \in 0 .. BLOCK_SIZE : ~Truncate(fd, s)
  BY DEF Truncate
<1>12. \/ \E n \in Names : CreateTooLong(n) \/ CreateRefused(n)
       \/ \E fd \in Fds : WriteBeyond(fd)
       \/ UNCHANGED vars
       => UNCHANGED <<diskvars, vfs_size, fds, callvars>>
  BY DEF CreateTooLong, CreateRefused, WriteBeyond, vars, diskvars, sbvars, callvars
<1> QED
  BY <1>2, <1>3, <1>4, <1>5, <1>6, <1>7, <1>8, <1>9, <1>10, <1>11, <1>12 DEF Next

(* Where nobody truncates, the size the VFS has for an open file never exceeds the file's
   own, until two writes of the file have met, through whatever descriptors: SEEK_END and
   append never leave a hole. *)
THEOREM NoHole == ASSUME ~Truncates PROVE Spec => []VfsSizeNeverAhead
<1>1. Init => Lags
  <2> SUFFICES ASSUME Init PROVE Lags
    OBVIOUS
  <2>1. /\ inode_bitmap = {ROOT_INODE} /\ fds = [fd \in Fds |-> Closed]
        /\ inode_table = [ino \in Inodes |-> [i_size |-> 0, i_blocks |-> 0, i_block |-> 0]]
        /\ vfs_size = [ino \in Inodes |-> IF ino = ROOT_INODE THEN 0 ELSE NotCached]
    BY DEF Init, RootMarked
  <2>2. \A ino \in Inodes \ {ROOT_INODE} :
           vfs_size[ino] = NotCached /\ inode_table[ino].i_size = 0
    BY <2>1
  <2>3. \A fd \in Fds : ~IsOpen(fd)
    BY <2>1 DEF IsOpen
  <2> QED
    BY <2>1, <2>2, <2>3 DEF Lags, NotCached
<1>2. IInv /\ Turns /\ Lags /\ [Next]_vars => Turns' /\ Lags'
  BY TurnsKept, LagsStep
<1>3. IInv /\ Lags => VfsSizeNeverAhead
  <2> SUFFICES ASSUME IInv, Lags, NEW fd \in Fds, IsOpen(fd), fds[fd].ino \notin met
               PROVE  VfsSize(fd) <= InodeOf(fd).i_size
    BY DEF VfsSizeNeverAhead
  <2>1. fds[fd].ino \in Inodes \ {ROOT_INODE}
    BY OpenFile
  <2> QED
    BY <2>1 DEF Lags, VfsSize, InodeOf
<1> QED
  BY <1>1, <1>2, <1>3, InitTurns, Invariance, PTL DEF Spec
-----------------------------------------------------------------------------
(* Entries are never moved, renamed or removed. *)
LEMMA EntriesStay ==
  ASSUME IInv, [Next]_vars, NEW e \in DOMAIN dir_entries
  PROVE  e \in DOMAIN dir_entries' /\ dir_entries'[e] = dir_entries[e]
<1>1. CASE UNCHANGED dir_entries
  BY <1>1
<1>2. ASSUME NEW fd \in Fds, NEW n \in Names, CreateOk(fd, n)
      PROVE  e \in DOMAIN dir_entries' /\ dir_entries'[e] = dir_entries[e]
  <2>1. PICK ino \in Inodes, b \in Blocks : Creation(fd, n, ino, b)
    BY <1>2, Created
  <2>2. /\ Len(dir_entries) \in Nat /\ DOMAIN dir_entries = 1 .. Len(dir_entries)
        /\ DOMAIN dir_entries' = 1 .. Len(dir_entries) + 1
        /\ \A x \in 1 .. Len(dir_entries) : dir_entries'[x] = dir_entries[x]
    BY <2>1 DEF Creation
  <2> QED
    BY <2>2
<1> QED
  BY <1>1, <1>2, StepKinds DEF CreateLeaks, CreateNoMem, Write, WriteFault, Store, diskvars

(* A descriptor keeps the name and the file it was opened with, which are those of an
   entry of the directory. *)
FdsNamed == \A fd \in Fds : IsOpen(fd) =>
  \E e \in DOMAIN dir_entries :
    dir_entries[e] = [filename |-> fds[fd].name, inode_no |-> fds[fd].ino]

LEMMA FdsStep ==
  ASSUME IInv, [Next]_vars, NEW fd \in Fds, IsOpen(fd)'
  PROVE  \/ /\ IsOpen(fd)
            /\ fds'[fd].name = fds[fd].name /\ fds'[fd].ino = fds[fd].ino
         \/ \E e \in DOMAIN dir_entries' :
              dir_entries'[e] = [filename |-> fds'[fd].name, inode_no |-> fds'[fd].ino]
<1>1. fds \in [Fds -> Descriptors]
      /\ dir_entries \in Seq([filename : Names, inode_no : Inodes])
  BY DEF IInv, TypeOK
<1>2. CASE UNCHANGED fds
  BY <1>2 DEF IsOpen
<1>3. ASSUME NEW g \in Fds, NEW n \in Names, CreateOk(g, n)
      PROVE  \/ fds'[fd] = fds[fd]
             \/ \E e \in DOMAIN dir_entries' :
                  dir_entries'[e] = [filename |-> fds'[fd].name, inode_no |-> fds'[fd].ino]
  <2>1. PICK ino \in Inodes, b \in Blocks : Creation(g, n, ino, b)
    BY <1>3, Created
  <2>2. /\ Len(dir_entries) + 1 \in DOMAIN dir_entries'
        /\ dir_entries'[Len(dir_entries) + 1] = [filename |-> n, inode_no |-> ino]
        /\ fds' = [fds EXCEPT ![g] = [name |-> n, ino |-> ino, pos |-> 0,
                                      own |-> TRUE, size |-> 0]]
    BY <2>1 DEF Creation
  <2>3. fd = g => fds'[fd].name = n /\ fds'[fd].ino = ino
    BY <1>1, <2>2
  <2> QED
    BY <1>1, <2>2, <2>3
<1>4. ASSUME NEW g \in Fds, NEW n \in Names, Open(g, n)
      PROVE  \/ fds'[fd] = fds[fd]
             \/ \E e \in DOMAIN dir_entries' :
                  dir_entries'[e] = [filename |-> fds'[fd].name, inode_no |-> fds'[fd].ino]
  <2>1. PICK e \in DOMAIN dir_entries :
          /\ dir_entries[e].filename = n
          /\ fds' = [fds EXCEPT ![g] = [Closed EXCEPT !.name = n,
                                                      !.ino = dir_entries[e].inode_no]]
    BY <1>4 DEF Open, Named
  <2>2. dir_entries' = dir_entries
    BY <1>4 DEF Open, diskvars
  <2>3. dir_entries[e] \in [filename : Names, inode_no : Inodes]
    BY <1>1, LenProperties, ElementOfSeq
  <2>4. fd = g => fds'[fd].name = n /\ fds'[fd].ino = dir_entries[e].inode_no
    BY <1>1, <2>1 DEF Closed
  <2> QED
    BY <1>1, <2>1, <2>2, <2>3, <2>4
<1>5. ASSUME NEW g \in Fds, Close(g) PROVE fds'[fd] = fds[fd]
  BY <1>1, <1>5 DEF Close, IsOpen
<1>6. ASSUME NEW g \in Fds, FileCall(g)
      PROVE  IsOpen(fd) /\ fds'[fd].name = fds[fd].name /\ fds'[fd].ino = fds[fd].ino
  <2>1. PICK pos \in 0 .. MaxPos, size \in 0 .. BLOCK_SIZE, c \in CallRecords :
          FileStep(g, pos, size, c)
    BY <1>6, FileSteps
  <2>2. /\ fds'[g].name = fds[g].name /\ fds'[g].ino = fds[g].ino
        /\ \A h \in Fds \ {g} : fds'[h] = fds[h]
        /\ \A h \in Fds : IsOpen(h)' <=> IsOpen(h)
    BY <2>1, FileStepParts
  <2> QED
    BY <2>2
<1>7. \/ UNCHANGED fds
      \/ \E g \in Fds, n \in Names : CreateOk(g, n) \/ Open(g, n)
      \/ \E g \in Fds : Close(g) \/ FileCall(g)
  BY DEF Next, vars, CreateTooLong, CreateRefused, CreateNoMem, CreateLeaks, LookupHit,
     Shrink, WriteBeyond, FileCall
<1> QED
  BY <1>2, <1>3, <1>4, <1>5, <1>6, <1>7 DEF IsOpen

LEMMA FdsNamedKept == ASSUME IInv, FdsNamed, [Next]_vars PROVE FdsNamed'
<1> SUFFICES ASSUME NEW fd \in Fds, IsOpen(fd)'
             PROVE  \E e \in DOMAIN dir_entries' :
                      dir_entries'[e] = [filename |-> fds'[fd].name, inode_no |-> fds'[fd].ino]
  BY DEF FdsNamed
<1>1. CASE /\ IsOpen(fd)
           /\ fds'[fd].name = fds[fd].name /\ fds'[fd].ino = fds[fd].ino
  BY <1>1, EntriesStay DEF FdsNamed
<1> QED
  BY <1>1, FdsStep

LEMMA InitFdsNamed == Init => FdsNamed
  BY DEF Init, FdsNamed, IsOpen

(* A write to one file leaves the block of every other, *)
LEMMA WriteElsewhere ==
  ASSUME IInv, NEW fd \in Fds, NEW d \in Data,
         Write(fd, d) \/ \E c \in 0 .. Len(d) : WriteFault(fd, d, c),
         NEW x \in Live, fds[fd].ino # x
  PROVE  /\ inode_table' = inode_table
         /\ data_blocks'[inode_table[x].i_block] = data_blocks[inode_table[x].i_block]
<1>1. x \in Inodes
  BY DEF Live, IInv, TypeOK, DirConsistent
<1>2. /\ fds[fd].ino \in Live /\ inode_table' = inode_table
      /\ \A b \in Blocks \ {InodeOf(fd).i_block} : data_blocks'[b] = data_blocks[b]
  BY Copied
<1>3. inode_table[x].i_block # InodeOf(fd).i_block
  BY <1>2 DEF IInv, FileHasBlock, InodeOf
<1>4. inode_table[x].i_block \in Blocks
  BY <1>1 DEF IInv, TypeOK
<1> QED
  BY <1>2, <1>3, <1>4

(* and only a write to a file changes what its block holds and what its osfs_inode says. *)
LEMMA FileKept ==
  ASSUME IInv, [Next]_vars, NEW x \in Live,
         ~ \E fd \in Fds : fds[fd].ino = x /\ Store(fd),
         ~ \E fd \in Fds, d \in Data :
             /\ fds[fd].ino = x
             /\ Write(fd, d) \/ \E c \in 0 .. Len(d) : WriteFault(fd, d, c)
  PROVE  /\ inode_table'[x] = inode_table[x]
         /\ data_blocks'[inode_table[x].i_block] = data_blocks[inode_table[x].i_block]
<1>1. x \in Inodes /\ x # ROOT_INODE
  BY DEF Live, IInv, TypeOK, DirConsistent
<1>2. x \in inode_bitmap
  BY DEF IInv, DirConsistent, Live
<1>3. CASE UNCHANGED diskvars
  BY <1>3 DEF diskvars
<1>4. ASSUME NEW n \in Names, CreateLeaks(n) \/ CreateNoMem(n)
      PROVE  data_blocks' = data_blocks /\ inode_table'[x] = inode_table[x]
  BY <1>1, <1>4, Failed
<1>5. ASSUME NEW fd \in Fds, NEW n \in Names, CreateOk(fd, n)
      PROVE  data_blocks' = data_blocks /\ inode_table'[x] = inode_table[x]
  <2>1. PICK ino \in Inodes \ inode_bitmap, b \in Blocks \ block_bitmap :
          Creation(fd, n, ino, b)
    BY <1>5, Created
  <2>2. ino # x
    BY <1>2, <2>1
  <2>3. \A y \in Inodes \ {ROOT_INODE, ino} : inode_table'[y] = inode_table[y]
    BY <2>1 DEF Creation
  <2>4. data_blocks' = data_blocks
    BY <1>5 DEF CreateOk
  <2> QED
    BY <1>1, <2>2, <2>3, <2>4
<1>6. ASSUME NEW fd \in Fds, NEW d \in Data,
             Write(fd, d) \/ \E c \in 0 .. Len(d) : WriteFault(fd, d, c)
      PROVE  /\ inode_table'[x] = inode_table[x]
             /\ data_blocks'[inode_table[x].i_block] = data_blocks[inode_table[x].i_block]
  BY <1>6, WriteElsewhere
<1>7. ASSUME NEW fd \in Fds, Store(fd)
      PROVE  data_blocks' = data_blocks /\ inode_table'[x] = inode_table[x]
  BY <1>1, <1>7, Stored
<1> QED
  BY <1>3, <1>4, <1>5, <1>6, <1>7, StepKinds

(* What a file holds changes only as a write by its name copies its bytes, or stores the
   size: not by a write to another file, not by a create, not by one that fails half-way. *)
THEOREM FilesIsolated == Spec => Isolation
<1> DEFINE Step1 == \A n \in Names : \A e \in DOMAIN dir_entries :
             LET ino == dir_entries[e].inode_no
             IN  Named(n, e) /\ Content(ino)' # Content(ino) =>
                   \/ ret'.call = "write" /\ ret'.name = n
                   \/ \E fd \in Fds : fds[fd].name = n /\ At(fd, "store") /\ At(fd, "store_vfs")'
<1>1. IInv /\ FdsNamed /\ [Next]_vars => [Step1]_vars
  <2> SUFFICES ASSUME IInv, FdsNamed, [Next]_vars, NEW n \in Names,
                      NEW e \in DOMAIN dir_entries, Named(n, e),
                      Content(dir_entries[e].inode_no)' # Content(dir_entries[e].inode_no)
               PROVE  \/ ret'.call = "write" /\ ret'.name = n
                      \/ \E fd \in Fds : /\ fds[fd].name = n
                                         /\ At(fd, "store") /\ At(fd, "store_vfs")'
    OBVIOUS
  <2>1. dir_entries'[e] = dir_entries[e]
    BY EntriesStay
  <2>2. PICK x \in Live : x = dir_entries[e].inode_no
    BY DEF Live
  <2>3. Content(x)' # Content(x)
    BY <2>1, <2>2 DEF Content
  <2>4. ASSUME NEW fd \in Fds, IsOpen(fd), fds[fd].ino = x PROVE fds[fd].name = n
    <3>1. PICK f \in DOMAIN dir_entries :
            dir_entries[f] = [filename |-> fds[fd].name, inode_no |-> fds[fd].ino]
      BY <2>4 DEF FdsNamed
    <3>2. f = e
      BY <2>2, <2>4, <3>1 DEF IInv, DirConsistent
    <3> QED
      BY <3>1, <3>2 DEF Named
  <2>5. ASSUME NEW fd \in Fds, NEW d \in Data, fds[fd].ino = x,
               Write(fd, d) \/ \E c \in 0 .. Len(d) : WriteFault(fd, d, c)
        PROVE  ret'.call = "write" /\ ret'.name = n
    <3>1. IsOpen(fd) /\ \E err, w : ret' = Result("write", fds[fd].name, err, w)
      BY <2>5 DEF Write, WriteFault, Returns, Ready
    <3> QED
      BY <2>4, <2>5, <3>1 DEF Result
  <2>6. ASSUME NEW fd \in Fds, fds[fd].ino = x, Store(fd)
        PROVE  fds[fd].name = n /\ At(fd, "store") /\ At(fd, "store_vfs")'
    <3>1. IsOpen(fd)
      BY <2>6, FileCallOpen DEF FileCall
    <3>2. call \in [Fds -> CallRecords] /\ At(fd, "store") /\ Goes(fd, "store_vfs", 0)
      BY <2>6 DEF Store, IInv, TypeOK, CallRecords
    <3>3. call'[fd] = [at |-> "store_vfs", end |-> 0]
      BY <3>2 DEF Goes
    <3> QED
      BY <2>4, <2>6, <3>1, <3>2, <3>3 DEF At
  <2>7. \/ \E fd \in Fds : fds[fd].ino = x /\ Store(fd)
        \/ \E fd \in Fds, d \in Data :
             /\ fds[fd].ino = x
             /\ Write(fd, d) \/ \E c \in 0 .. Len(d) : WriteFault(fd, d, c)
    <3>1. ~ /\ inode_table'[x] = inode_table[x]
            /\ data_blocks'[inode_table[x].i_block] = data_blocks[inode_table[x].i_block]
      BY <2>3 DEF Content
    <3> QED
      BY <3>1, FileKept
  <2> QED
    BY <2>5, <2>6, <2>7
<1>2. IInv /\ FdsNamed /\ [Next]_vars => FdsNamed'
  BY FdsNamedKept
<1> QED
  BY <1>1, <1>2, InitFdsNamed, Invariance, PTL DEF Spec, Isolation
-----------------------------------------------------------------------------
(* What the step of a write that copies its bytes does to the file: they take their
   places in the block, and the descriptor moves behind them. *)
LEMMA WroteBytes ==
  ASSUME IInv, NEW fd \in Fds, NEW d \in Data, Write(fd, d)
  PROVE  LET w == Clamped(fd, d)
             b == InodeOf(fd).i_block
         IN  /\ w \in Data /\ DOMAIN w = 1 .. Len(w) /\ Len(w) \in Nat
             /\ fds[fd].pos \in 0 .. BLOCK_SIZE /\ fds[fd].pos + Len(w) \in 0 .. BLOCK_SIZE
             /\ inode_table' = inode_table /\ b \in Blocks /\ fds[fd].ino \in Live
             /\ \A j \in 1 .. BLOCK_SIZE :
                  data_blocks'[b][j] = IF j - fds[fd].pos \in 1 .. Len(w)
                                       THEN w[j - fds[fd].pos] ELSE data_blocks[b][j]
             /\ \A c \in Blocks \ {b} : data_blocks'[c] = data_blocks[c]
             /\ fds'[fd].pos = fds[fd].pos + Len(w) /\ fds'[fd].ino = fds[fd].ino
             /\ fds'[fd].name = fds[fd].name
             /\ call'[fd] = [at |-> "compare", end |-> 0]
             /\ \A g \in Fds \ {fd} : fds'[g] = fds[g] /\ call'[g] = call[g]
<1> DEFINE w == Clamped(fd, d)
           b == InodeOf(fd).i_block
           new == [j \in 1 .. BLOCK_SIZE |->
                     IF j - fds[fd].pos \in DOMAIN w THEN w[j - fds[fd].pos]
                     ELSE data_blocks[b][j]]
<1>1. /\ IsOpen(fd) /\ fds[fd].pos <= BLOCK_SIZE
      /\ data_blocks' = [data_blocks EXCEPT ![b] = new] /\ inode_table' = inode_table
      /\ fds' = [fds EXCEPT ![fd].pos = fds[fd].pos + Len(w)]
      /\ call' = [call EXCEPT ![fd] = [at |-> "compare", end |-> 0]]
  BY DEF Write, CopyIn, Ready, MoveTo, Goes
<1>2. /\ fds[fd].ino \in Live /\ fds[fd].pos \in 0 .. BLOCK_SIZE /\ b \in Blocks
      /\ fds[fd] \in [name : Names, ino : Inodes, pos : 0 .. MaxPos,
                      own : BOOLEAN, size : 0 .. BLOCK_SIZE]
  BY <1>1, OpenFile, Sizes DEF MaxPos
<1>3. /\ w \in Seq(Bytes) /\ DOMAIN w = 1 .. Len(w) /\ Len(w) \in Nat
      /\ fds[fd].pos + Len(w) \in 0 .. BLOCK_SIZE
  BY <1>2, ClampedFits
<1>4. w \in Data
  <2>1. Len(w) \in 0 .. BLOCK_SIZE
    BY <1>2, <1>3, Sizes
  <2>2. w \in [1 .. Len(w) -> Bytes]
    BY <1>3, LenProperties
  <2> HIDE DEF w
  <2> QED
    BY <2>1, <2>2 DEF Data
<1>5. /\ data_blocks \in [Blocks -> [1 .. BLOCK_SIZE -> Byte]]
      /\ fds \in [Fds -> Descriptors] /\ call \in [Fds -> CallRecords]
  BY DEF IInv, TypeOK, CallRecords
<1> HIDE DEF w, b
<1>6. \A j \in 1 .. BLOCK_SIZE :
        data_blocks'[b][j] = IF j - fds[fd].pos \in 1 .. Len(w)
                             THEN w[j - fds[fd].pos] ELSE data_blocks[b][j]
  BY <1>1, <1>2, <1>3, <1>5
<1>7. \A c \in Blocks \ {b} : data_blocks'[c] = data_blocks[c]
  BY <1>1, <1>5
<1>8. /\ fds'[fd].pos = fds[fd].pos + Len(w) /\ fds'[fd].ino = fds[fd].ino
      /\ fds'[fd].name = fds[fd].name
      /\ \A g \in Fds \ {fd} : fds'[g] = fds[g]
  BY <1>1, <1>2, <1>5
<1>9. /\ call'[fd] = [at |-> "compare", end |-> 0]
      /\ \A g \in Fds \ {fd} : call'[g] = call[g]
  <2>1. PICK c : c = [at |-> "compare", end |-> 0]
    OBVIOUS
  <2> QED
    BY <1>1, <1>5, <2>1
<1> QED
  BY <1>1, <1>2, <1>3, <1>4, <1>6, <1>7, <1>8, <1>9 DEF w, b

(* Where no two writes have met, the end of a file is that of the write that has still to
   store it, or else its size. *)
EndsAre ==
  \A x \in Live \ met :
    /\ End(x) \in 0 .. BLOCK_SIZE
    /\ \A fd \in Growing(x) : End(x) = fds[fd].pos
    /\ Growing(x) = {} => End(x) = inode_table[x].i_size

LEMMA FileEnds == IInv /\ Turns => EndsAre
<1> SUFFICES ASSUME IInv, Turns, NEW x \in Live, x \notin met
             PROVE  /\ End(x) \in 0 .. BLOCK_SIZE
                    /\ \A fd \in Growing(x) : End(x) = fds[fd].pos
                    /\ Growing(x) = {} => End(x) = inode_table[x].i_size
  BY DEF EndsAre
<1>1. inode_table[x].i_size \in 0 .. BLOCK_SIZE
  <2>1. x \in Inodes
    BY DEF Live, IInv, TypeOK, DirConsistent
  <2>2. inode_table[x] \in [i_size : Nat, i_blocks : {0, 1}, i_block : Blocks]
    BY <2>1 DEF IInv, TypeOK
  <2> QED
    BY <2>2, Sizes DEF IInv, SizeWithinBlock
<1>2. CASE Growing(x) = {}
  BY <1>1, <1>2 DEF End
<1>3. ASSUME NEW fd \in Growing(x) PROVE End(x) = fds[fd].pos /\ End(x) \in 0 .. BLOCK_SIZE
  <2>1. PICK g : g = CHOOSE h \in Growing(x) : TRUE
    OBVIOUS
  <2>2. g \in Growing(x)
    BY <1>3, <2>1
  <2>3. fd \in Fds /\ g \in Fds /\ Writing(fd) /\ Writing(g)
        /\ fds[fd].ino = x /\ fds[g].ino = x
    BY <1>3, <2>2 DEF Growing, Writers
  <2>4. g = fd
    BY <2>3 DEF Turns
  <2>5. End(x) = fds[g].pos
    BY <1>3, <2>1 DEF End
  <2>6. IsOpen(fd) /\ fds[fd].pos <= BLOCK_SIZE
    BY <2>3 DEF IInv, CallsOpen, Writing, At
  <2>7. fds[fd].pos \in 0 .. BLOCK_SIZE
    BY <2>3, <2>6, OpenFile, Sizes DEF MaxPos
  <2> QED
    BY <2>4, <2>5, <2>7
<1> QED
  BY <1>2, <1>3

LEMMA FileEndsAfter == IInv' /\ Turns' => EndsAre'
  BY FileEnds, PTL

(* The end of a file stays where it is while the same writes have still to store it, and
   no size is stored. *)
LEMMA EndSame ==
  ASSUME IInv, IInv', Turns, Turns', NEW x \in Live, x \notin met, x \in Live', x \notin met',
         \A fd \in Fds : fd \in Growing(x) <=> fd \in Growing(x)',
         \A fd \in Growing(x) : fds'[fd].pos = fds[fd].pos,
         inode_table'[x].i_size = inode_table[x].i_size
  PROVE  End(x)' = End(x)
<1>1. EndsAre /\ EndsAre'
  BY FileEnds, FileEndsAfter
<1>2. Growing(x) \subseteq Fds /\ Growing(x)' \subseteq Fds
  BY DEF Growing, Writers
<1>3. CASE Growing(x) = {}
  BY <1>1, <1>2, <1>3 DEF EndsAre
<1>4. ASSUME NEW fd \in Growing(x) PROVE End(x)' = End(x)
  BY <1>1, <1>2, <1>4 DEF EndsAre
<1> QED
  BY <1>3, <1>4

(* Two writes meet as the second of them starts; a file is created, and stays. *)
LEMMA MetStep ==
  ASSUME [Next]_vars
  PROVE  /\ met \subseteq met'
         /\ \/ met' = met
            \/ \E fd \in Fds, d \in Data :
                 /\ Write(fd, d) /\ Writers(fds[fd].ino) # {}
                 /\ met' = met \cup {fds[fd].ino}
  BY DEF Next, vars, callvars, CreateTooLong, CreateRefused, CreateNoMem, CreateLeaks,
     CreateOk, LookupHit, Open, Shrink, Close, WriteBeyond, Seek, Truncate, Read, CopyOut,
     ReadFault, Write, WriteFault, Compare, Store, StoreVfs

LEMMA LiveStays == ASSUME IInv, [Next]_vars PROVE Live \subseteq Live'
  BY EntriesStay DEF Live

(* A step that is no write of the file moves its end neither, not even one that stores
   the size. *)
LEMMA EndStep ==
  ASSUME ~UserFaults, IInv, IInv', Turns, Turns', [Next]_vars, NEW x \in Live, x \notin met',
         ~ \E fd \in Fds, d \in Data : fds[fd].ino = x /\ Write(fd, d)
  PROVE  End(x)' = End(x)
<1>1. x \notin met /\ x \in Live' /\ x \in Inodes
  BY MetStep, LiveStays DEF Live, IInv, TypeOK, DirConsistent
<1>2. /\ fds \in [Fds -> Descriptors] /\ call \in [Fds -> CallRecords]
      /\ \A fd \in Fds : Writing(fd) => ~At(fd, "idle") /\ IsOpen(fd)
  BY DEF IInv, TypeOK, CallRecords, CallsOpen, At, Writing
<1>3. ASSUME NEW fd \in Fds, Store(fd), fds[fd].ino = x PROVE End(x)' = End(x)
  <2>1. At(fd, "store") /\ Writing(fd) /\ Grows(fd)
    BY <1>1, <1>3 DEF Store, At, Writing, Turns
  <2>2. fd \in Growing(x)
    BY <1>3, <2>1 DEF Growing, Writers, At
  <2>3. /\ fds' = fds /\ inode_table'[x].i_size = fds[fd].pos
    BY <1>3, Stored
  <2>4. call'[fd].at = "store_vfs" /\ \A h \in Fds \ {fd} : call'[h] = call[h]
    BY <1>2, <1>3 DEF Store, Goes
  <2>5. Growing(x)' = {}
    <3> SUFFICES ASSUME NEW h \in Growing(x)' PROVE FALSE
      OBVIOUS
    <3>1. h \in Fds /\ fds[h].ino = x /\ Writing(h)' /\ ~At(h, "store_vfs")'
      BY <2>3 DEF Growing, Writers
    <3>2. h # fd /\ Writing(h)
      BY <2>4, <3>1 DEF At, Writing
    <3> QED
      BY <1>1, <1>3, <2>1, <3>1, <3>2 DEF Turns
  <2> QED
    BY <1>1, <2>2, <2>3, <2>5, FileEnds, FileEndsAfter DEF EndsAre
<1>4. CASE ~ \E fd \in Fds : fds[fd].ino = x /\ Store(fd)
  <2>1. inode_table'[x].i_size = inode_table[x].i_size
    <3>1. \A fd \in Fds, d \in Data : \A c \in 0 .. Len(d) : ~WriteFault(fd, d, c)
      BY DEF WriteFault
    <3>2. inode_table'[x] = inode_table[x]
      BY <1>4, <3>1, FileKept
    <3> QED
      BY <3>2
  <2>2. ASSUME NEW fd \in Fds,
               /\ Writing(fd) <=> Writing(fd)'
               /\ fds'[fd].ino = fds[fd].ino
               /\ Writing(fd) /\ fds[fd].ino = x =>
                    /\ fds'[fd].pos = fds[fd].pos
                    /\ At(fd, "store_vfs") <=> At(fd, "store_vfs")'
        PROVE  /\ fd \in Growing(x) <=> fd \in Growing(x)'
               /\ fd \in Growing(x) => fds'[fd].pos = fds[fd].pos
    BY <2>1, <2>2 DEF Growing, Writers, Grows, InodeOf
  <2>3. CASE ~ \E fd \in Fds : FileCall(fd)
    <3>1. /\ UNCHANGED call
          /\ \A fd \in Fds : ~At(fd, "idle") => fds'[fd] = fds[fd]
      BY <2>3, CallsFrame DEF callvars
    <3>2. \A fd \in Fds : Writing(fd) <=> Writing(fd)'
      BY <3>1 DEF Writing
    <3>3. \A fd \in Fds : /\ fd \in Growing(x) <=> fd \in Growing(x)'
                          /\ fd \in Growing(x) => fds'[fd].pos = fds[fd].pos
      BY <1>2, <2>1, <3>1, <3>2 DEF Growing, Writers, Grows, InodeOf, At
    <3>4. Growing(x) \subseteq Fds
      BY DEF Growing, Writers
    <3> QED
      BY <1>1, <2>1, <3>3, <3>4, EndSame
  <2>4. ASSUME NEW g \in Fds, FileCall(g) PROVE End(x)' = End(x)
    <3>1. PICK pos \in 0 .. MaxPos, size \in 0 .. BLOCK_SIZE, c \in CallRecords :
            FileStep(g, pos, size, c)
      BY <2>4, FileSteps
    <3>2. /\ fds'[g].ino = fds[g].ino
          /\ \A h \in Fds \ {g} : fds'[h] = fds[h] /\ call'[h] = call[h]
      BY <3>1, FileStepParts
    <3>3. \A h \in Fds \ {g} : /\ h \in Growing(x) <=> h \in Growing(x)'
                               /\ h \in Growing(x) => fds'[h].pos = fds[h].pos
      BY <2>2, <3>2 DEF Writing, At
    <3>4. fds[g] \in [name : Names, ino : Inodes, pos : 0 .. MaxPos,
                      own : BOOLEAN, size : 0 .. BLOCK_SIZE]
      BY <2>4, FileCallOpen, OpenFile
    <3>5. /\ g \in Growing(x) <=> g \in Growing(x)'
          /\ g \in Growing(x) => fds'[g].pos = fds[g].pos
      <4>1. CASE fds[g].ino # x
        BY <3>2, <4>1 DEF Growing, Writers
      <4>2. CASE fds[g].ino = x
        <5>1. CASE \/ \E p \in 0 .. MaxPos : Seek(g, p)
                   \/ \E len \in 0 .. BLOCK_SIZE : Read(g, len)
                   \/ CopyOut(g) \/ ReadFault(g)
          <6>1. call[g].at \in {"idle", "copy"}
            BY <5>1 DEF Seek, Read, CopyOut, ReadFault, Ready, At
          <6>2. call'[g].at \in {"idle", "copy"}
            BY <1>2, <5>1, <6>1 DEF Seek, Read, CopyOut, ReadFault, Goes, Ends, Idle, callvars
          <6> QED
            BY <6>1, <6>2 DEF Growing, Writers, Writing
        <5>2. ASSUME NEW s \in 0 .. BLOCK_SIZE, Truncate(g, s)
              PROVE  call' = call /\ fds'[g].pos = fds[g].pos
          BY <1>2, <3>4, <5>2 DEF Truncate, VfsResize, callvars
        <5>3. CASE Compare(g)
          <6>1. /\ fds' = fds /\ At(g, "compare")
                /\ call'[g] = IF Grows(g) THEN [at |-> "store", end |-> 0] ELSE Idle
            BY <1>2, <5>3 DEF Compare, Goes, Ends
          <6>2. Grows(g)' <=> Grows(g)
            BY <2>1, <4>2, <6>1 DEF Grows, InodeOf
          <6> QED
            BY <6>1, <6>2 DEF Growing, Writers, Writing, At, Idle
        <5>4. CASE StoreVfs(g)
          <6>1. At(g, "store_vfs") /\ call'[g] = Idle
            BY <1>2, <5>4 DEF StoreVfs, Ends
          <6> QED
            BY <6>1 DEF Growing, Writers, Writing, At, Idle
        <5>5. \A d \in Data : ~Write(g, d)
          BY <4>2
        <5>6. \A d \in Data : \A k \in 0 .. Len(d) : ~WriteFault(g, d, k)
          BY DEF WriteFault
        <5>7. ASSUME NEW s \in 0 .. BLOCK_SIZE, Truncate(g, s)
              PROVE  /\ g \in Growing(x) <=> g \in Growing(x)'
                     /\ g \in Growing(x) => fds'[g].pos = fds[g].pos
          BY <2>2, <3>2, <5>2, <5>7 DEF Writing, At
        <5> QED
          BY <1>4, <2>4, <4>2, <5>1, <5>3, <5>4, <5>5, <5>6, <5>7 DEF FileCall
      <4> QED
        BY <4>1, <4>2
    <3>6. Growing(x) \subseteq Fds
      BY DEF Growing, Writers
    <3> QED
      BY <1>1, <2>1, <3>3, <3>5, <3>6, EndSame
  <2> QED
    BY <2>3, <2>4
<1> QED
  BY <1>3, <1>4

(* A write of the file that meets no other moves its end to where the bytes end, if that
   is further. *)
LEMMA EndWritten ==
  ASSUME IInv, IInv', Turns, Turns', NEW fd \in Fds, NEW d \in Data, Write(fd, d),
         NEW x \in Live, x = fds[fd].ino, x \notin met'
  PROVE  End(x)' = IF fds'[fd].pos > End(x) THEN fds'[fd].pos ELSE End(x)
<1>1. Writers(x) = {} /\ x \notin met
  BY DEF Write
<1>2. Live' = Live
  BY DEF Live, Write
<1>3. /\ inode_table' = inode_table /\ fds'[fd].ino = x
      /\ call'[fd] = [at |-> "compare", end |-> 0]
      /\ \A g \in Fds \ {fd} : fds'[g] = fds[g] /\ call'[g] = call[g]
  BY WroteBytes
<1>4. Growing(x) = {}
  BY <1>1 DEF Growing
<1>5. End(x) = inode_table[x].i_size
  BY <1>1, <1>4, FileEnds DEF EndsAre
<1>6. Growing(x)' \subseteq {fd}
  <2> SUFFICES ASSUME NEW g \in Growing(x)', g # fd PROVE FALSE
    OBVIOUS
  <2>1. g \in Fds /\ fds'[g].ino = x /\ Writing(g)'
    BY DEF Growing, Writers
  <2>2. g \in Writers(x)
    BY <1>3, <2>1 DEF Writers, Writing
  <2> QED
    BY <1>1, <2>2
<1>7. fd \in Growing(x)' <=> fds'[fd].pos > inode_table[x].i_size
  <2>1. Writing(fd)' /\ ~At(fd, "store_vfs")'
    BY <1>3 DEF Writing, At
  <2> QED
    BY <1>3, <2>1 DEF Growing, Writers, Grows, InodeOf
<1>8. /\ \A g \in Growing(x)' : End(x)' = fds'[g].pos
      /\ Growing(x)' = {} => End(x)' = inode_table'[x].i_size
  BY <1>2, FileEndsAfter DEF EndsAre
<1>9. CASE fds'[fd].pos > End(x)
  BY <1>5, <1>7, <1>8, <1>9
<1>10. CASE ~(fds'[fd].pos > End(x))
  BY <1>3, <1>5, <1>6, <1>7, <1>8, <1>10
<1> QED
  BY <1>9, <1>10
-----------------------------------------------------------------------------
(* Blocks that are free, and the part of a file's block behind its end, hold zeros: a
   new file is empty, and a gap before a write reads as zeros. *)
ZeroTail ==
  /\ \A b \in FreeBlocks : \A j \in 1 .. BLOCK_SIZE : data_blocks[b][j] = 0
  /\ \A x \in Live \ met : \A j \in 1 .. BLOCK_SIZE :
       j > End(x) => data_blocks[inode_table[x].i_block][j] = 0

(* A new file is one that a create has made. *)
LEMMA NewLive ==
  ASSUME IInv, [Next]_vars, NEW x \in Live' \ Live
  PROVE  \E fd \in Fds, n \in Names, b \in Blocks \ block_bitmap :
           CreateOk(fd, n) /\ Creation(fd, n, x, b)
<1>1. dir_entries' # dir_entries
  BY DEF Live
<1>2. PICK fd \in Fds, n \in Names : CreateOk(fd, n)
  BY <1>1, StepKinds, Failed DEF Write, WriteFault, Store, diskvars
<1>3. PICK ino \in Inodes \ inode_bitmap, b \in Blocks \ block_bitmap :
        Creation(fd, n, ino, b)
  BY <1>2, Created
<1>4. ino = x
  BY <1>3 DEF Creation
<1> QED
  BY <1>2, <1>3, <1>4

LEMMA FreeStay ==
  ASSUME IInv, [Next]_vars
  PROVE  /\ FreeBlocks' \subseteq FreeBlocks
         /\ \A b \in FreeBlocks : data_blocks'[b] = data_blocks[b]
<1>1. CASE UNCHANGED diskvars
  BY <1>1 DEF FreeBlocks, diskvars, sbvars
<1>2. ASSUME NEW n \in Names, CreateLeaks(n) \/ CreateNoMem(n)
      PROVE  data_blocks' = data_blocks /\ FreeBlocks' \subseteq FreeBlocks
  BY <1>2 DEF CreateLeaks, CreateNoMem, NewInode, AllocDataBlock, FreeBlocks
<1>3. ASSUME NEW fd \in Fds, NEW n \in Names, CreateOk(fd, n)
      PROVE  data_blocks' = data_blocks /\ FreeBlocks' \subseteq FreeBlocks
  BY <1>3 DEF CreateOk, NewInode, AllocDataBlock, FreeBlocks
<1>4. ASSUME NEW fd \in Fds, Store(fd) PROVE UNCHANGED <<data_blocks, block_bitmap>>
  BY <1>4 DEF Store, sbvars
<1>5. ASSUME NEW fd \in Fds, NEW d \in Data,
             Write(fd, d) \/ \E c \in 0 .. Len(d) : WriteFault(fd, d, c)
      PROVE  /\ UNCHANGED block_bitmap
             /\ \A b \in FreeBlocks : data_blocks'[b] = data_blocks[b]
  <2>1. /\ UNCHANGED sbvars /\ fds[fd].ino \in Live
        /\ \A b \in Blocks \ {InodeOf(fd).i_block} : data_blocks'[b] = data_blocks[b]
    BY <1>5, Copied
  <2>2. InodeOf(fd).i_block \in block_bitmap
    BY <2>1 DEF IInv, FileHasBlock, InodeOf
  <2> QED
    BY <2>1, <2>2 DEF FreeBlocks, sbvars
<1> QED
  BY <1>1, <1>2, <1>3, <1>4, <1>5, StepKinds DEF FreeBlocks

(* A step that is no write of the file leaves its block and what the block holds. *)
LEMMA BlockKept ==
  ASSUME ~UserFaults, IInv, [Next]_vars, NEW x \in Live,
         ~ \E fd \in Fds, d \in Data : fds[fd].ino = x /\ Write(fd, d)
  PROVE  /\ inode_table'[x].i_block = inode_table[x].i_block
         /\ data_blocks'[inode_table[x].i_block] = data_blocks[inode_table[x].i_block]
<1>1. \A fd \in Fds, d \in Data : \A c \in 0 .. Len(d) : ~WriteFault(fd, d, c)
  BY DEF WriteFault
<1>2. CASE \E fd \in Fds : Store(fd)
  <2>1. x \in Inodes
    BY DEF Live, IInv, TypeOK, DirConsistent
  <2> QED
    BY <1>2, <2>1, Stored
<1>3. CASE ~ \E fd \in Fds : Store(fd)
  <2>1. /\ inode_table'[x] = inode_table[x]
        /\ data_blocks'[inode_table[x].i_block] = data_blocks[inode_table[x].i_block]
    BY <1>1, <1>3, FileKept
  <2> QED
    BY <2>1
<1> QED
  BY <1>2, <1>3

LEMMA ZeroTailKept ==
  ASSUME ~UserFaults, IInv, IInv', Turns, Turns', ZeroTail, [Next]_vars PROVE ZeroTail'
<1>1. \A b \in FreeBlocks' : \A j \in 1 .. BLOCK_SIZE : data_blocks'[b][j] = 0
  BY FreeStay DEF ZeroTail
<1>2. ASSUME NEW x \in Live', x \notin met', NEW j \in 1 .. BLOCK_SIZE, j > End(x)'
      PROVE  data_blocks'[inode_table'[x].i_block][j] = 0
  <2>1. CASE x \notin Live
    <3>1. PICK fd \in Fds, n \in Names, b \in Blocks \ block_bitmap :
            CreateOk(fd, n) /\ Creation(fd, n, x, b)
      BY <2>1, NewLive
    <3>2. inode_table'[x].i_block = b /\ data_blocks' = data_blocks /\ b \in FreeBlocks
      BY <3>1 DEF Creation, CreateOk, FreeBlocks
    <3> QED
      BY <3>2 DEF ZeroTail
  <2>2. CASE x \in Live /\ ~ \E fd \in Fds, d \in Data : fds[fd].ino = x /\ Write(fd, d)
    <3>1. x \in Live \ met /\ End(x)' = End(x)
      BY <1>2, <2>2, EndStep, MetStep
    <3>2. /\ inode_table'[x].i_block = inode_table[x].i_block
          /\ data_blocks'[inode_table[x].i_block] = data_blocks[inode_table[x].i_block]
      BY <2>2, BlockKept
    <3>3. data_blocks[inode_table[x].i_block][j] = 0
      BY <1>2, <3>1 DEF ZeroTail
    <3> QED
      BY <3>2, <3>3
  <2>3. ASSUME NEW fd \in Fds, NEW d \in Data, fds[fd].ino = x, Write(fd, d), x \in Live
        PROVE  data_blocks'[inode_table'[x].i_block][j] = 0
    <3> DEFINE w == Clamped(fd, d)
               b == InodeOf(fd).i_block
               p == fds[fd].pos
    <3>1. /\ inode_table' = inode_table /\ p \in 0 .. BLOCK_SIZE /\ Len(w) \in Nat
          /\ fds'[fd].pos = p + Len(w)
          /\ data_blocks'[b][j] = IF j - p \in 1 .. Len(w) THEN w[j - p] ELSE data_blocks[b][j]
      BY <2>3, WroteBytes
    <3>2. x \in Live \ met /\ End(x)' = IF fds'[fd].pos > End(x) THEN fds'[fd].pos ELSE End(x)
      BY <1>2, <2>3, EndWritten, MetStep
    <3>3. End(x) \in 0 .. BLOCK_SIZE
      BY <3>2, FileEnds DEF EndsAre
    <3> HIDE DEF w, p, b
    <3>4. j > End(x) /\ j > p + Len(w)
      BY <1>2, <3>1, <3>2, <3>3, Sizes
    <3>5. data_blocks[inode_table[x].i_block][j] = 0
      BY <3>2, <3>4 DEF ZeroTail
    <3>6. ~(j - p \in 1 .. Len(w))
      BY <3>1, <3>4, Sizes
    <3>7. inode_table'[x].i_block = b /\ inode_table[x].i_block = b
      BY <2>3, <3>1 DEF b, InodeOf
    <3> QED
      BY <3>1, <3>5, <3>6, <3>7
  <2> QED
    BY <2>1, <2>2, <2>3
<1> QED
  BY <1>1, <1>2 DEF ZeroTail

LEMMA InitZeroTail == Init => ZeroTail
<1> SUFFICES ASSUME Init PROVE ZeroTail
  OBVIOUS
<1>1. dir_entries = <<>> /\ data_blocks = [b \in Blocks |-> Zeroed]
  BY DEF Init
<1>2. Live = {}
  BY <1>1 DEF Live
<1> QED
  BY <1>1, <1>2 DEF ZeroTail, FreeBlocks, Zeroed
-----------------------------------------------------------------------------
(* What a file holds, as a sequence of bytes *)
HeldAre ==
  \A x \in Live \ met :
    /\ Held(x) \in [1 .. End(x) -> Byte] /\ Len(Held(x)) = End(x)
    /\ \A j \in 1 .. End(x) : Held(x)[j] = data_blocks[inode_table[x].i_block][j]

LEMMA FileHolds == IInv /\ Turns => HeldAre
<1> SUFFICES ASSUME IInv, Turns, NEW x \in Live, x \notin met
             PROVE  /\ Held(x) \in [1 .. End(x) -> Byte] /\ Len(Held(x)) = End(x)
                    /\ \A j \in 1 .. End(x) :
                         Held(x)[j] = data_blocks[inode_table[x].i_block][j]
  BY DEF HeldAre
<1> DEFINE n == End(x)
           block == data_blocks[inode_table[x].i_block]
<1>1. x \in Inodes
  BY DEF Live, IInv, TypeOK, DirConsistent
<1>2. inode_table[x] \in [i_size : Nat, i_blocks : {0, 1}, i_block : Blocks]
  BY <1>1 DEF IInv, TypeOK
<1>3. block \in [1 .. BLOCK_SIZE -> Byte]
  BY <1>2 DEF IInv, TypeOK
<1>4. n \in 0 .. BLOCK_SIZE
  BY FileEnds DEF EndsAre
<1>5. Held(x) = SubSeq(block, 1, n)
  BY DEF Held
<1> HIDE DEF n, block
<1>6. \A j \in 1 .. n : block[j] \in Byte
  BY <1>3, <1>4, Sizes
<1>7. /\ SubSeq(block, 1, n) \in Seq(Byte) /\ Len(SubSeq(block, 1, n)) = n
      /\ \A j \in 1 .. n : SubSeq(block, 1, n)[j] = block[j]
  <2>1. 1 \in Int /\ n \in Int /\ (1 <= n => n - 1 + 1 = n) /\ (~(1 <= n) => n = 0)
    BY <1>4, Sizes
  <2>2. /\ SubSeq(block, 1, n) \in Seq(Byte)
        /\ Len(SubSeq(block, 1, n)) = IF 1 <= n THEN n - 1 + 1 ELSE 0
        /\ \A j \in 1 .. n - 1 + 1 : SubSeq(block, 1, n)[j] = block[1 + j - 1]
    BY <1>6, <2>1, SubSeqProperties
  <2> QED
    BY <2>1, <2>2
<1>8. Held(x) \in [1 .. n -> Byte]
  BY <1>5, <1>7, LenProperties
<1> QED
  BY <1>5, <1>7, <1>8 DEF n, block

LEMMA FileHoldsAfter == IInv' /\ Turns' => HeldAre'
  BY FileHolds, PTL

(* Only a write of the file changes it, *)
LEMMA HeldKept ==
  ASSUME ~UserFaults, IInv, IInv', Turns, Turns', [Next]_vars, NEW x \in Live, x \notin met',
         ~ \E fd \in Fds, d \in Data : fds[fd].ino = x /\ Write(fd, d)
  PROVE  Held(x)' = Held(x)
<1>1. End(x)' = End(x)
  BY EndStep
<1>2. /\ inode_table'[x].i_block = inode_table[x].i_block
      /\ data_blocks'[inode_table[x].i_block] = data_blocks[inode_table[x].i_block]
  BY BlockKept
<1> QED
  BY <1>1, <1>2 DEF Held

(* and it patches it, as it copies its bytes. *)
LEMMA WritePatches ==
  ASSUME IInv, IInv', Turns, Turns', ZeroTail, [Next]_vars,
         NEW fd \in Fds, NEW d \in Data, Write(fd, d),
         NEW x \in Live, x = fds[fd].ino, x \notin met'
  PROVE  Held(x)' = Flat!Patch(Held(x), fds[fd].pos, Clamped(fd, d))
<1> DEFINE w == Clamped(fd, d)
           p == fds[fd].pos
           end == p + Len(w)
           b == InodeOf(fd).i_block
           old == End(x)
           size == IF end > old THEN end ELSE old
<1>1. x \in Live \ met /\ x \in Live'
  BY MetStep, LiveStays
<1>2. /\ p \in 0 .. BLOCK_SIZE /\ end \in 0 .. BLOCK_SIZE /\ Len(w) \in Nat
      /\ inode_table' = inode_table /\ fds'[fd].pos = end
      /\ \A j \in 1 .. BLOCK_SIZE :
           data_blocks'[b][j] = IF j - p \in 1 .. Len(w) THEN w[j - p] ELSE data_blocks[b][j]
  BY WroteBytes
<1>3. inode_table[x].i_block = b /\ inode_table'[x].i_block = b
  BY <1>2 DEF InodeOf
<1>4. /\ old \in 0 .. BLOCK_SIZE /\ Len(Held(x)) = old
      /\ \A j \in 1 .. old : Held(x)[j] = data_blocks[b][j]
  BY <1>1, <1>3, FileEnds, FileHolds DEF EndsAre, HeldAre
<1>5. End(x)' = size
  BY <1>2, EndWritten
<1>6. /\ Held(x)' \in [1 .. size -> Byte]
      /\ \A j \in 1 .. size : Held(x)'[j] = data_blocks'[b][j]
  <2>1. /\ Held(x)' \in [1 .. End(x)' -> Byte]
        /\ \A j \in 1 .. End(x)' : Held(x)'[j] = data_blocks'[inode_table'[x].i_block][j]
    BY <1>1, FileHoldsAfter DEF HeldAre
  <2> HIDE DEF size, b
  <2> QED
    BY <1>3, <1>5, <2>1
<1>7. \A j \in 1 .. BLOCK_SIZE : j > old => data_blocks[b][j] = 0
  BY <1>1, <1>3 DEF ZeroTail
<1> HIDE DEF w, b, old, p
<1>8. size \in 0 .. BLOCK_SIZE
  BY <1>2, <1>4, Sizes
<1>9. \A j \in 1 .. size :
        Held(x)'[j] = IF j - p \in 1 .. Len(w) THEN w[j - p]
                      ELSE IF j <= Len(Held(x)) THEN Held(x)[j] ELSE 0
  <2> SUFFICES ASSUME NEW j \in 1 .. size
               PROVE  Held(x)'[j] = IF j - p \in 1 .. Len(w) THEN w[j - p]
                                    ELSE IF j <= Len(Held(x)) THEN Held(x)[j] ELSE 0
    OBVIOUS
  <2>1. j \in 1 .. BLOCK_SIZE /\ (j <= old \/ j > old) /\ (j <= old => j \in 1 .. old)
    <3> HIDE DEF size
    <3> QED
      BY <1>4, <1>8, Sizes
  <2>2. Held(x)'[j] = data_blocks'[b][j]
    BY <1>6
  <2>3. data_blocks'[b][j] = IF j - p \in 1 .. Len(w) THEN w[j - p] ELSE data_blocks[b][j]
    BY <1>2, <2>1
  <2>4. data_blocks[b][j] = IF j <= Len(Held(x)) THEN Held(x)[j] ELSE 0
    BY <1>4, <1>7, <2>1
  <2> QED
    BY <2>2, <2>3, <2>4
<1>10. Flat!Patch(Held(x), p, w)
         = [j \in 1 .. size |-> IF j - p \in 1 .. Len(w) THEN w[j - p]
                                ELSE IF j <= Len(Held(x)) THEN Held(x)[j] ELSE 0]
  BY <1>4 DEF Flat!Patch
<1> HIDE DEF size
<1>11. Held(x)' = Flat!Patch(Held(x), p, w)
  BY <1>6, <1>9, <1>10
<1> QED
  BY <1>11 DEF w, p
-----------------------------------------------------------------------------
(* Two writes can only have met in a file there is: a new one starts with none. *)
MetLive == met \subseteq Live

LEMMA MetLiveKept == ASSUME IInv, MetLive, [Next]_vars PROVE MetLive'
<1>1. ASSUME NEW fd \in Fds, NEW d \in Data, Write(fd, d) PROVE fds[fd].ino \in Live
  BY <1>1, Copied
<1> QED
  BY <1>1, MetStep, LiveStays DEF MetLive

(* What becomes of a call as it takes a step *)
LEMMA CallStep ==
  ASSUME IInv, NEW fd \in Fds, FileCall(fd)
  PROVE  \/ call' = call /\ (At(fd, "idle") \/ \E s \in 0 .. BLOCK_SIZE : Truncate(fd, s))
         \/ call'[fd].at = "copy" /\ \E len \in 0 .. BLOCK_SIZE : Read(fd, len)
         \/ call'[fd].at = "compare" /\ \E d \in Data : Write(fd, d)
         \/ call'[fd] = Idle
         \/ Writing(fd) /\ Writing(fd)' /\ ~At(fd, "copy")'
<1>1. call \in [Fds -> CallRecords]
  BY DEF IInv, TypeOK, CallRecords
<1>2. ASSUME NEW step, NEW end, Goes(fd, step, end) PROVE call'[fd].at = step
  BY <1>1, <1>2 DEF Goes
<1>3. Ends(fd) => call'[fd] = Idle
  BY <1>1 DEF Ends
<1>4. (\E p \in 0 .. MaxPos : Seek(fd, p))
      \/ (\E d \in Data : \E c \in 0 .. Len(d) : WriteFault(fd, d, c))
      => call' = call /\ At(fd, "idle")
  BY DEF Seek, WriteFault, Ready, callvars
<1>5. \A s \in 0 .. BLOCK_SIZE : Truncate(fd, s) => call' = call
  BY DEF Truncate, callvars
<1>6. \A len \in 0 .. BLOCK_SIZE : Read(fd, len) => call'[fd].at = "copy"
  BY <1>2 DEF Read
<1>7. \A d \in Data : Write(fd, d) => call'[fd].at = "compare"
  BY <1>2 DEF Write
<1>8. CopyOut(fd) \/ ReadFault(fd) \/ StoreVfs(fd) => call'[fd] = Idle
  BY <1>3 DEF CopyOut, ReadFault, StoreVfs
<1>9. Compare(fd) \/ Store(fd) =>
        \/ call'[fd] = Idle
        \/ Writing(fd) /\ call'[fd].at \in {"store", "store_vfs"}
  BY <1>2, <1>3 DEF Compare, Store, Writing, At
<1> QED
  BY <1>4, <1>5, <1>6, <1>7, <1>8, <1>9 DEF FileCall, Writing, At

(* A read that no write has come between has loaded the size the file still has. *)
Timely == \A fd \in Fds : At(fd, "copy") /\ fd \notin late /\ fds[fd].ino \notin met =>
  /\ Writers(fds[fd].ino) = {}
  /\ \E len \in 0 .. BLOCK_SIZE : call[fd].end = fds[fd].pos + ReadLen(fd, len)

LEMMA TimelyKept == ASSUME IInv, Timely, [Next]_vars PROVE Timely'
<1>1. /\ fds \in [Fds -> Descriptors] /\ call \in [Fds -> CallRecords]
      /\ \A fd \in Fds : ~At(fd, "idle") => IsOpen(fd)
  BY DEF IInv, TypeOK, CallRecords, CallsOpen
<1> SUFFICES ASSUME NEW fd \in Fds, At(fd, "copy")', fd \notin late', fds'[fd].ino \notin met'
             PROVE  /\ Writers(fds[fd].ino)' = {}
                    /\ \E len \in 0 .. BLOCK_SIZE :
                         call'[fd].end = fds'[fd].pos + ReadLen(fd, len)'
  BY DEF Timely
<1>2. ASSUME At(fd, "copy"), fd \notin late, fds'[fd].ino = fds[fd].ino,
             fds'[fd].pos = fds[fd].pos, call'[fd] = call[fd],
             inode_table'[fds[fd].ino] = inode_table[fds[fd].ino],
             Writers(fds[fd].ino) = {} => Writers(fds[fd].ino)' = {}
      PROVE  /\ Writers(fds[fd].ino)' = {}
             /\ \E len \in 0 .. BLOCK_SIZE :
                  call'[fd].end = fds'[fd].pos + ReadLen(fd, len)'
  <2>1. fds[fd].ino \notin met
    BY <1>2, MetStep
  <2>2. /\ Writers(fds[fd].ino) = {}
        /\ \E len \in 0 .. BLOCK_SIZE : call[fd].end = fds[fd].pos + ReadLen(fd, len)
    BY <1>2, <2>1 DEF Timely
  <2>3. \A len : ReadLen(fd, len)' = ReadLen(fd, len)
    BY <1>2 DEF ReadLen, InodeOf
  <2>4. Writers(fds[fd].ino)' = {}
    BY <1>2, <2>2
  <2> QED
    BY <1>2, <2>2, <2>3, <2>4
<1>3. CASE ~ \E g \in Fds : FileCall(g)
  <2>1. /\ call' = call /\ late' = late
        /\ \A g \in Fds : ~At(g, "idle") =>
             /\ fds'[g] = fds[g]
             /\ inode_table'[fds[g].ino] = inode_table[fds[g].ino]
    BY <1>3, CallsFrame DEF callvars
  <2>2. At(fd, "copy") /\ ~At(fd, "idle")
    BY <2>1 DEF At
  <2>3. \A g \in Fds : Writing(g)' => Writing(g) /\ ~At(g, "idle")
    BY <2>1 DEF Writing, At
  <2>4. PICK x : x = fds[fd].ino
    OBVIOUS
  <2>5. Writers(x)' \subseteq Writers(x)
    BY <2>1, <2>3 DEF Writers
  <2> QED
    BY <1>2, <2>1, <2>2, <2>4, <2>5
<1>4. ASSUME NEW g \in Fds, FileCall(g)
      PROVE  /\ Writers(fds[fd].ino)' = {}
             /\ \E len \in 0 .. BLOCK_SIZE :
                  call'[fd].end = fds'[fd].pos + ReadLen(fd, len)'
  <2>1. PICK pos \in 0 .. MaxPos, size \in 0 .. BLOCK_SIZE, c \in CallRecords :
          FileStep(g, pos, size, c)
    BY <1>4, FileSteps
  <2>2. /\ fds'[g].ino = fds[g].ino
        /\ \A h \in Fds \ {g} : fds'[h] = fds[h] /\ call'[h] = call[h]
    BY <2>1, FileStepParts
  <2>3. fds[g] \in [name : Names, ino : Inodes, pos : 0 .. MaxPos,
                    own : BOOLEAN, size : 0 .. BLOCK_SIZE]
    BY <1>4, FileCallOpen, OpenFile
  <2>4. PICK x : x = fds[fd].ino
    OBVIOUS
  <2>5. \A h \in Fds \ {g} : h \in Writers(x)' <=> h \in Writers(x)
    BY <2>2 DEF Writers, Writing
  <2>6. Writers(x) \subseteq Fds /\ Writers(x)' \subseteq Fds
    BY DEF Writers
  <2>7. ASSUME NEW len \in 0 .. BLOCK_SIZE, Read(g, len), g = fd
        PROVE  /\ Writers(fds[fd].ino)' = {}
               /\ \E l \in 0 .. BLOCK_SIZE : call'[fd].end = fds'[fd].pos + ReadLen(fd, l)'
    <3>1. /\ UNCHANGED <<inode_table, fds>> /\ Writers(x) = {}
          /\ call' = [call EXCEPT ![fd] = [at |-> "copy", end |-> fds[fd].pos + ReadLen(fd, len)]]
      BY <2>4, <2>7 DEF Read, Goes, diskvars
    <3>2. call'[fd].end = fds[fd].pos + ReadLen(fd, len)
      BY <1>1, <3>1
    <3>3. ReadLen(fd, len)' = ReadLen(fd, len)
      BY <3>1 DEF ReadLen, InodeOf
    <3>4. g \notin Writers(x)'
      BY <2>7 DEF Writers, Writing, At
    <3>5. Writers(x)' = {}
      BY <2>5, <2>6, <3>1, <3>4
    <3> QED
      BY <2>4, <3>1, <3>2, <3>3, <3>5
  <2>8. ASSUME NEW s \in 0 .. BLOCK_SIZE, Truncate(g, s)
        PROVE  /\ Writers(fds[fd].ino)' = {}
               /\ \E len \in 0 .. BLOCK_SIZE :
                    call'[fd].end = fds'[fd].pos + ReadLen(fd, len)'
    <3>1. /\ UNCHANGED <<inode_table, call, late>> /\ fds'[g].pos = fds[g].pos
      BY <1>1, <2>3, <2>8 DEF Truncate, VfsResize, callvars, diskvars
    <3>2. At(fd, "copy") /\ fd \notin late
      BY <3>1 DEF At
    <3>3. g \in Writers(x)' <=> g \in Writers(x)
      BY <2>2, <3>1 DEF Writers, Writing
    <3>4. Writers(x) = {} => Writers(x)' = {}
      BY <2>5, <2>6, <3>3
    <3> QED
      BY <1>2, <2>2, <2>4, <3>1, <3>2, <3>4
  <2>9. CASE g = fd /\ (~ \E len \in 0 .. BLOCK_SIZE : Read(g, len))
                    /\ (~ \E s \in 0 .. BLOCK_SIZE : Truncate(g, s))
    <3>1. ~At(fd, "copy")'
      BY <1>4, <2>9, CallStep DEF At, Idle
    <3> QED
      BY <3>1
  <2>10. CASE g # fd /\ ~ \E s \in 0 .. BLOCK_SIZE : Truncate(g, s)
    <3>1. /\ fds'[fd] = fds[fd] /\ call'[fd] = call[fd] /\ At(fd, "copy")
      BY <2>2, <2>10 DEF At
    <3>2. fd \notin late
      BY <1>4, <2>10 DEF FileCall, Seek, Read, Write, WriteFault, CopyOut, ReadFault, Compare,
         Store, StoreVfs, callvars
    <3>3. x \in Inodes /\ x \notin met
      <4>1. IsOpen(fd)
        BY <1>1, <3>1 DEF At
      <4> QED
        BY <2>4, <3>1, <4>1, MetStep, OpenFile
    <3>4. Writers(x) = {}
      BY <2>4, <3>1, <3>2, <3>3 DEF Timely
    <3>5. CASE fds[g].ino # x
      <4>1. g \notin Writers(x)'
        BY <2>2, <3>5 DEF Writers
      <4>2. Writers(x)' = {}
        BY <2>5, <2>6, <3>4, <4>1
      <4>3. inode_table'[x] = inode_table[x]
        <5>1. CASE Store(g)
          BY <3>3, <3>5, <5>1, Stored
        <5>2. CASE ~Store(g)
          BY <1>4, <2>10, <5>2 DEF FileCall, Seek, Read, Write, WriteFault, CopyOut, ReadFault,
             Compare, StoreVfs, diskvars
        <5> QED
          BY <5>1, <5>2
      <4> QED
        BY <1>2, <2>4, <3>1, <3>2, <4>2, <4>3
    <3>6. CASE fds[g].ino = x
      <4>1. ~Writing(g)
        BY <3>4, <3>6 DEF Writers
      <4>2. \A d \in Data : ~Write(g, d)
        <5> SUFFICES ASSUME NEW d \in Data, Write(g, d) PROVE FALSE
          OBVIOUS
        <5>1. fd \in Readers(x) /\ late' = late \cup Readers(x)
          BY <2>4, <3>1, <3>6 DEF Readers, Write
        <5> QED
          BY <5>1
      <4>3. ~Writing(g)'
        BY <1>4, <2>10, <4>1, <4>2, CallStep DEF Writing, Idle, At
      <4>4. inode_table' = inode_table
        BY <1>4, <2>10, <4>1, <4>2 DEF FileCall, Seek, Read, WriteFault, CopyOut, ReadFault,
           Compare, Store, StoreVfs, At, Writing, diskvars
      <4>5. g \notin Writers(x)'
        BY <4>3 DEF Writers
      <4>6. Writers(x)' = {}
        BY <2>5, <2>6, <3>4, <4>5
      <4> QED
        BY <1>2, <2>4, <3>1, <3>2, <4>4, <4>6
    <3> QED
      BY <3>5, <3>6
  <2> QED
    BY <2>7, <2>8, <2>9, <2>10
<1> QED
  BY <1>3, <1>4
-----------------------------------------------------------------------------
(* The files of the abstract file system are the entries of the directory, each with
   what its inode holds, but for those in which two writes have met. *)
Entries == DOMAIN dir_entries
FilesByEntry ==
  /\ Files = [n \in DOMAIN Files |-> Files[n]]
  /\ DOMAIN Files = {dir_entries[e].filename :
                       e \in {f \in Entries : dir_entries[f].inode_no \notin met}}
  /\ Met = {dir_entries[e].filename : e \in {f \in Entries : dir_entries[f].inode_no \in met}}
  /\ \A e \in Entries : dir_entries[e].inode_no \notin met =>
       Files[dir_entries[e].filename] = Held(dir_entries[e].inode_no)

LEMMA FilesAre == IInv => FilesByEntry
<1> SUFFICES ASSUME IInv PROVE FilesByEntry
  OBVIOUS
<1>1. dir_entries \in Seq([filename : Names, inode_no : Inodes])
      /\ DOMAIN dir_entries = 1 .. dir_entry_count
  BY LenProperties DEF IInv, TypeOK, DirConsistent
<1>2. \A n : \A e \in Entries : Named(n, e) <=> dir_entries[e].filename = n
  BY <1>1 DEF Named, Entries
<1>3. \A e \in Entries : dir_entries[e].filename \in Names
  <2>1. \A e \in Entries : dir_entries[e] \in [filename : Names, inode_no : Inodes]
    BY <1>1, LenProperties, ElementOfSeq DEF Entries
  <2> QED
    BY <2>1
<1>4. \A n : Exists(n) <=> \E e \in Entries : dir_entries[e].filename = n
  BY <1>2 DEF Exists, Entries
<1>5. ASSUME NEW e \in Entries
      PROVE  InodeNamed(dir_entries[e].filename) = dir_entries[e].inode_no
  <2> DEFINE n == dir_entries[e].filename
             f == CHOOSE x \in DOMAIN dir_entries : Named(n, x)
  <2>1. f \in Entries /\ Named(n, f)
    BY <1>2 DEF Entries
  <2>2. f = e
    BY <1>2, <2>1 DEF IInv, DirConsistent, Entries
  <2> QED
    BY <2>2 DEF InodeNamed
<1>6. Met = {dir_entries[e].filename : e \in {f \in Entries : dir_entries[f].inode_no \in met}}
  <2>1. \A n : n \in Met <=> n \in Names /\ Exists(n) /\ InodeNamed(n) \in met
    BY DEF Met
  <2> QED
    BY <1>3, <1>4, <1>5, <2>1
<1>7. DOMAIN Files = {n \in Names : Exists(n)} \ Met
  BY DEF Files
<1>8. \A e, f \in Entries : dir_entries[e].filename = dir_entries[f].filename => e = f
  BY DEF IInv, DirConsistent, Entries
<1>9. DOMAIN Files = {dir_entries[e].filename :
                        e \in {f \in Entries : dir_entries[f].inode_no \notin met}}
  BY <1>3, <1>4, <1>6, <1>7, <1>8
<1>10. ASSUME NEW e \in Entries, dir_entries[e].inode_no \notin met
       PROVE  Files[dir_entries[e].filename] = Held(dir_entries[e].inode_no)
  <2>1. dir_entries[e].filename \in {n \in Names : Exists(n)} \ Met
    BY <1>7, <1>9, <1>10
  <2> QED
    BY <1>5, <2>1 DEF Files
<1>11. Files = [n \in DOMAIN Files |-> Files[n]]
  BY DEF Files
<1> QED
  BY <1>6, <1>9, <1>10, <1>11 DEF FilesByEntry

LEMMA FilesAfter == IInv' => FilesByEntry'
  BY FilesAre, PTL

(* Where no entry is added and no contents change, the files are the same. *)
LEMMA FilesKept ==
  ASSUME IInv, IInv', UNCHANGED <<dir_entries, met>>, \A x \in Live \ met : Held(x)' = Held(x)
  PROVE  Files' = Files /\ Met' = Met
<1>1. FilesByEntry /\ FilesByEntry' /\ Entries' = Entries
  BY FilesAre, FilesAfter DEF Entries
<1>2. DOMAIN Files' = DOMAIN Files /\ Met' = Met
  BY <1>1 DEF FilesByEntry
<1>3. ASSUME NEW n \in DOMAIN Files PROVE Files'[n] = Files[n]
  <2>1. PICK e \in Entries : n = dir_entries[e].filename /\ dir_entries[e].inode_no \notin met
    BY <1>1, <1>3 DEF FilesByEntry
  <2>2. PICK x \in Live : x = dir_entries[e].inode_no
    BY DEF Live, Entries
  <2>3. Files[n] = Held(x)
    BY <1>1, <2>1, <2>2 DEF FilesByEntry
  <2>4. Files'[n] = Held(x)'
    BY <1>1, <2>1, <2>2 DEF FilesByEntry, Held
  <2> QED
    BY <2>1, <2>2, <2>3, <2>4
<1> QED
  BY <1>1, <1>2, <1>3 DEF FilesByEntry

(* An entry's file is where its inode number says. *)
LEMMA EntryOf ==
  ASSUME IInv, FdsNamed, NEW fd \in Fds, IsOpen(fd)
  PROVE  /\ fds[fd].name \in Names /\ fds[fd].ino \in Live
         /\ fds[fd].name \in DOMAIN Files \cup Met
         /\ fds[fd].name \in Met <=> fds[fd].ino \in met
         /\ fds[fd].name \in DOMAIN Files <=> fds[fd].ino \notin met
         /\ fds[fd].ino \notin met => Files[fds[fd].name] = Held(fds[fd].ino)
         /\ \A e \in Entries : dir_entries[e].filename = fds[fd].name
                                 <=> dir_entries[e].inode_no = fds[fd].ino
<1>1. PICK e \in Entries :
        dir_entries[e] = [filename |-> fds[fd].name, inode_no |-> fds[fd].ino]
  BY DEF FdsNamed, Entries
<1>2. FilesByEntry
  BY FilesAre
<1>3. fds[fd].name \in Names /\ fds[fd].ino \in Live
  BY OpenFile
<1>4. dir_entries[e].filename = fds[fd].name /\ dir_entries[e].inode_no = fds[fd].ino
  BY <1>1
<1>5. \A f \in Entries : f # e => /\ dir_entries[f].filename # fds[fd].name
                                  /\ dir_entries[f].inode_no # fds[fd].ino
  BY <1>4 DEF IInv, DirConsistent, Entries
<1>6. fds[fd].name \in Met <=> fds[fd].ino \in met
  BY <1>2, <1>4, <1>5 DEF FilesByEntry
<1>7. fds[fd].name \in DOMAIN Files <=> fds[fd].ino \notin met
  BY <1>2, <1>4, <1>5 DEF FilesByEntry
<1>8. fds[fd].ino \notin met => Files[fds[fd].name] = Held(fds[fd].ino)
  BY <1>2, <1>4 DEF FilesByEntry
<1> QED
  BY <1>3, <1>4, <1>5, <1>6, <1>7, <1>8

(* Two descriptors have the same file if they were opened by the same name. *)
LEMMA SameFile ==
  ASSUME IInv, FdsNamed, NEW fd \in Fds, IsOpen(fd), NEW g \in Fds, IsOpen(g)
  PROVE  fds[fd].name = fds[g].name <=> fds[fd].ino = fds[g].ino
<1>1. PICK e \in Entries :
        dir_entries[e] = [filename |-> fds[g].name, inode_no |-> fds[g].ino]
  BY DEF FdsNamed, Entries
<1>2. \A f \in Entries : dir_entries[f].filename = fds[fd].name
                           <=> dir_entries[f].inode_no = fds[fd].ino
  BY EntryOf
<1> QED
  BY <1>1, <1>2

(* The calls of the abstract file system *)
LEMMA CallsAre ==
  /\ Calls = [fd \in Fds |-> Calls[fd]]
  /\ \A fd \in Fds :
       /\ Writing(fd) => Calls[fd] = Flat!Call("write", fds[fd].name)
       /\ At(fd, "copy") => Calls[fd] = Flat!Call(IF fd \in late THEN "late" ELSE "read",
                                                  fds[fd].name)
       /\ ~Writing(fd) /\ ~At(fd, "copy") => Calls[fd] = Flat!None
  BY DEF Calls, Flat!Call, Flat!None, At, Writing

LEMMA CallsAfter ==
  /\ Calls' = [fd \in Fds |-> Calls'[fd]]
  /\ \A fd \in Fds :
       /\ Writing(fd)' => Calls'[fd] = Flat!Call("write", fds'[fd].name)
       /\ At(fd, "copy")' => Calls'[fd] = Flat!Call(IF fd \in late' THEN "late" ELSE "read",
                                                    fds'[fd].name)
       /\ ~Writing(fd)' /\ ~At(fd, "copy")' => Calls'[fd] = Flat!None
  BY DEF Calls, Flat!Call, Flat!None, At, Writing

(* A step of one descriptor's call is none of another's. *)
LEMMA OtherCalls ==
  ASSUME IInv, NEW fd \in Fds, FileCall(fd), late' \ {fd} = late \ {fd},
         NEW g \in Fds, g # fd
  PROVE  Calls'[g] = Calls[g]
<1>1. PICK pos \in 0 .. MaxPos, size \in 0 .. BLOCK_SIZE, c \in CallRecords :
        FileStep(fd, pos, size, c)
  BY FileSteps
<1>2. fds'[g] = fds[g] /\ call'[g] = call[g]
  BY <1>1, FileStepParts
<1>3. g \in late' <=> g \in late
  OBVIOUS
<1> QED
  BY <1>2, <1>3 DEF Calls, At, Writing

LEMMA CallsKept ==
  ASSUME IInv, NEW fd \in Fds, FileCall(fd), late' \ {fd} = late \ {fd}, Calls'[fd] = Calls[fd]
  PROVE  Calls' = Calls
<1>1. \A g \in Fds : Calls'[g] = Calls[g]
  BY OtherCalls
<1> QED
  BY <1>1, CallsAre, CallsAfter

LEMMA OneCall ==
  ASSUME IInv, NEW fd \in Fds, FileCall(fd), late' \ {fd} = late \ {fd},
         NEW v, Calls'[fd] = v
  PROVE  Calls' = [Calls EXCEPT ![fd] = v]
<1>1. \A g \in Fds : g # fd => Calls'[g] = Calls[g]
  BY OtherCalls
<1>2. Calls = [g \in Fds |-> Calls[g]] /\ Calls' = [g \in Fds |-> Calls'[g]]
  BY CallsAre, CallsAfter
<1> QED
  BY <1>1, <1>2

LEMMA CallsStay ==
  ASSUME IInv, [Next]_vars, ~ \E fd \in Fds : FileCall(fd) PROVE Calls' = Calls
<1>1. /\ call' = call /\ late' = late
      /\ \A fd \in Fds : ~At(fd, "idle") => fds'[fd] = fds[fd]
  BY CallsFrame DEF callvars
<1>2. \A fd \in Fds : Calls'[fd] = Calls[fd]
  BY <1>1 DEF Calls, At, Writing
<1> QED
  BY <1>2, CallsAre, CallsAfter
-----------------------------------------------------------------------------
(* A step that neither creates nor writes changes no file. *)
LEMMA FilesFixed ==
  ASSUME ~UserFaults, IInv, IInv', Turns, Turns', [Next]_vars, UNCHANGED dir_entries,
         ~ \E fd \in Fds, d \in Data : Write(fd, d)
  PROVE  Files' = Files /\ Met' = Met
<1>1. met' = met
  BY MetStep
<1>2. ASSUME NEW x \in Live \ met PROVE Held(x)' = Held(x)
  <2>1. x \in Live /\ x \notin met'
    BY <1>1, <1>2
  <2> QED
    BY <2>1, HeldKept
<1> QED
  BY <1>1, <1>2, FilesKept

(* A call refused, or one that breaks off, is a failure of the flat file system. *)
LEMMA FailsAsFlat ==
  ASSUME ~UserFaults, IInv, IInv', Turns, Turns', [Next]_vars,
         ~ \E fd \in Fds : FileCall(fd), NEW n \in Names,
         \/ CreateTooLong(n) \/ CreateRefused(n) \/ CreateNoMem(n) \/ CreateLeaks(n)
         \/ \E fd \in Fds : WriteBeyond(fd) /\ fds[fd].name = n
  PROVE  Flat!Next
<1>1. UNCHANGED dir_entries
  BY DEF CreateTooLong, CreateRefused, CreateNoMem, CreateLeaks, WriteBeyond, diskvars
<1>2. Files' = Files /\ Met' = Met
  BY <1>1, FilesFixed DEF FileCall
<1>3. Calls' = Calls
  BY CallsStay
<1>4. PICK what \in {"create", "write"}, err \in {-12, -14, -28, -36} :
        ret' = Result(what, n, err, <<>>)
  BY DEF CreateTooLong, CreateRefused, CreateNoMem, CreateLeaks, WriteBeyond, Returns,
         ENOMEM, EFAULT, ENOSPC, ENAMETOOLONG
<1>5. Flat!Fail(what, n, err)
  BY <1>2, <1>3, <1>4 DEF Flat!Fail, Flat!Result, Result
<1> QED
  BY <1>4, <1>5 DEF Flat!Next

(* A create that succeeds adds an empty file of that name. *)
LEMMA CreatesAsFlat ==
  ASSUME ~UserFaults, IInv, IInv', Turns, Turns', MetLive, [Next]_vars,
         ~ \E g \in Fds : FileCall(g), NEW fd \in Fds, NEW n \in Names, CreateOk(fd, n)
  PROVE  Flat!Create(n)
<1>1. PICK ino \in Inodes \ inode_bitmap, b \in Blocks \ block_bitmap :
        Creation(fd, n, ino, b)
  BY Created
<1> DEFINE k == Len(dir_entries)
<1>2. /\ k \in Nat /\ Entries = 1 .. k /\ Entries' = 1 .. k + 1
      /\ \A x \in 1 .. k : dir_entries'[x] = dir_entries[x]
      /\ dir_entries'[k + 1] = [filename |-> n, inode_no |-> ino]
      /\ Live' = Live \cup {ino} /\ ino \notin Live
      /\ inode_table'[ino] = [i_size |-> 0, i_blocks |-> 1, i_block |-> b]
  BY <1>1 DEF Creation, Entries
<1> HIDE DEF k
<1>3. FilesByEntry /\ FilesByEntry'
  BY FilesAre, FilesAfter
<1>4. met' = met /\ ino \notin met /\ Calls' = Calls
  BY <1>2, CallsStay DEF CreateOk, callvars, MetLive
<1>5. n \notin DOMAIN Files \cup Met /\ Met' = Met
  <2>1. \A e \in 1 .. k : dir_entries[e].filename # n
    <3>1. \A e \in DOMAIN dir_entries : e \in 1 .. dir_entry_count
      BY LenProperties DEF IInv, TypeOK, DirConsistent
    <3> QED
      BY <1>2, <3>1 DEF CreateOk, MayCreate, Exists, Named, Entries
  <2>2. n \notin DOMAIN Files \cup Met
    BY <1>2, <1>3, <2>1 DEF FilesByEntry
  <2>3. {f \in Entries' : dir_entries'[f].inode_no \in met'}
          = {f \in Entries : dir_entries[f].inode_no \in met}
    BY <1>2, <1>4
  <2>4. Met' = {dir_entries'[e].filename :
                  e \in {f \in Entries' : dir_entries'[f].inode_no \in met'}}
    BY <1>3 DEF FilesByEntry
  <2>5. Met = {dir_entries[e].filename :
                 e \in {f \in Entries : dir_entries[f].inode_no \in met}}
    BY <1>3 DEF FilesByEntry
  <2> QED
    BY <1>2, <2>2, <2>3, <2>4, <2>5
<1>6. DOMAIN Files' = DOMAIN Files \cup {n}
  <2>1. {f \in Entries' : dir_entries'[f].inode_no \notin met'}
          = {f \in Entries : dir_entries[f].inode_no \notin met} \cup {k + 1}
    BY <1>2, <1>4
  <2>2. DOMAIN Files' = {dir_entries'[e].filename :
                           e \in {f \in Entries' : dir_entries'[f].inode_no \notin met'}}
    BY <1>3 DEF FilesByEntry
  <2>3. DOMAIN Files = {dir_entries[e].filename :
                          e \in {f \in Entries : dir_entries[f].inode_no \notin met}}
    BY <1>3 DEF FilesByEntry
  <2> QED
    BY <1>2, <2>1, <2>2, <2>3
<1>7. Files'[n] = <<>>
  <2>1. Files'[n] = Held(ino)'
    <3>1. k + 1 \in Entries' /\ dir_entries'[k + 1].filename = n
          /\ dir_entries'[k + 1].inode_no = ino /\ ino \notin met'
      BY <1>2, <1>4
    <3>2. PICK e : e = k + 1
      OBVIOUS
    <3>3. e \in Entries' /\ n = dir_entries'[e].filename /\ ino = dir_entries'[e].inode_no
      BY <3>1, <3>2
    <3> QED
      BY <1>3, <3>1, <3>3 DEF FilesByEntry, Held
  <2>2. Growing(ino)' = {}
    <3> SUFFICES ASSUME NEW g \in Growing(ino)' PROVE FALSE
      OBVIOUS
    <3>1. g \in Fds /\ fds'[g].ino = ino /\ Writing(g)'
      BY DEF Growing, Writers
    <3>2. ~At(g, "idle") /\ Writing(g)
      BY <3>1, CallsFrame DEF Writing, At, callvars
    <3>3. fds[g].ino \in Live /\ fds'[g] = fds[g]
      BY <3>1, <3>2, CallsFrame
    <3> QED
      BY <1>2, <3>1, <3>3
  <2>3. End(ino)' = 0
    BY <1>2, <2>2 DEF End
  <2>4. Held(ino)' = SubSeq(data_blocks'[b], 1, 0)
    BY <1>2, <2>3 DEF Held
  <2> QED
    BY <2>1, <2>4, SubSeqEmpty
<1>8. ASSUME NEW m \in DOMAIN Files PROVE Files'[m] = Files[m]
  <2>1. PICK e \in 1 .. k : m = dir_entries[e].filename /\ dir_entries[e].inode_no \notin met
    BY <1>2, <1>3, <1>8 DEF FilesByEntry
  <2>2. PICK x \in Live : x = dir_entries[e].inode_no
    BY <1>2 DEF Live, Entries
  <2>3. Held(x)' = Held(x)
    BY <1>4, <2>1, <2>2, HeldKept DEF FileCall
  <2>4. Files[m] = Held(x) /\ Files'[m] = Held(x)'
    <3>1. e \in Entries /\ e \in Entries' /\ dir_entries'[e] = dir_entries[e]
      BY <1>2
    <3> QED
      BY <1>3, <1>4, <2>1, <2>2, <3>1 DEF FilesByEntry, Held
  <2> QED
    BY <2>3, <2>4
<1>9. Files' = [m \in DOMAIN Files \cup {n} |-> IF m = n THEN <<>> ELSE Files[m]]
  BY <1>3, <1>5, <1>6, <1>7, <1>8 DEF FilesByEntry
<1>10. ret' = Result("create", n, 0, <<>>)
  BY DEF CreateOk, Returns
<1> QED
  BY <1>4, <1>5, <1>9, <1>10 DEF Flat!Create, Flat!Result, Result

LEMMA CallsDiffer ==
  /\ \A s, t, n, m : Flat!Call(s, n) = Flat!Call(t, m) => s = t /\ n = m
  /\ Flat!None = Flat!Call("none", "")
<1>1. ASSUME NEW s, NEW t, NEW n, NEW m, Flat!Call(s, n) = Flat!Call(t, m)
      PROVE  s = t /\ n = m
  <2>1. Flat!Call(s, n).what = Flat!Call(t, m).what /\ Flat!Call(s, n).name = Flat!Call(t, m).name
    BY <1>1
  <2> QED
    BY <2>1 DEF Flat!Call
<1> QED
  BY <1>1 DEF Flat!None

(* A write puts its bytes into that file and no other, and what another write of the
   file has met is promised no more; the reads of it that are under way are late. *)
LEMMA WritesAsFlat ==
  ASSUME ~UserFaults, IInv, IInv', Turns, Turns', FdsNamed, ZeroTail, [Next]_vars,
         NEW fd \in Fds, NEW d \in Data, Write(fd, d)
  PROVE  Flat!Next
<1> DEFINE n == fds[fd].name
           p == fds[fd].pos
           w == Clamped(fd, d)
<1>1. IsOpen(fd) /\ ~Writing(fd) /\ ~At(fd, "copy") /\ UNCHANGED dir_entries
  BY DEF Write, Ready, Writing, At
<1>2. PICK x \in Live : x = fds[fd].ino
  BY <1>1, EntryOf
<1>3. /\ n \in Names /\ n \in DOMAIN Files \cup Met
      /\ n \in Met <=> x \in met
      /\ n \in DOMAIN Files <=> x \notin met
      /\ x \notin met => Files[n] = Held(x)
      /\ \A e \in Entries : dir_entries[e].filename = n <=> dir_entries[e].inode_no = x
  BY <1>1, <1>2, EntryOf
<1>4. /\ w \in Data /\ p \in 0 .. BLOCK_SIZE /\ p + Len(w) \in 0 .. BLOCK_SIZE
      /\ fds'[fd].name = n /\ call'[fd] = [at |-> "compare", end |-> 0]
      /\ \A g \in Fds \ {fd} : fds'[g] = fds[g] /\ call'[g] = call[g]
  BY WroteBytes
<1>5. /\ met' = IF Writers(x) = {} THEN met ELSE met \cup {x}
      /\ late' = late \cup Readers(x)
      /\ ret' = Result("write", n, 0, w)
  BY <1>2 DEF Write, Returns
<1>6. FilesByEntry /\ FilesByEntry' /\ Entries' = Entries
  BY <1>1, FilesAre, FilesAfter DEF Entries
<1>7. \A g \in Fds : ~At(g, "idle") => (fds[g].name = n <=> fds[g].ino = x)
  <2>1. ASSUME NEW g \in Fds, ~At(g, "idle") PROVE fds[g].name = n <=> fds[g].ino = x
    <3>1. IsOpen(g)
      BY <2>1 DEF IInv, CallsOpen
    <3> QED
      BY <1>1, <1>2, <3>1, SameFile
  <2> QED
    BY <2>1
<1> HIDE DEF n, p, w
<1>8. Calls[fd] = Flat!None
  BY <1>1, CallsAre
<1>9. Flat!Written(n) <=> Writers(x) # {}
  <2>1. \A g \in Fds : Calls[g] = Flat!Call("write", n) <=> Writing(g) /\ fds[g].name = n
    <3> SUFFICES ASSUME NEW g \in Fds
                 PROVE  Calls[g] = Flat!Call("write", n) <=> Writing(g) /\ fds[g].name = n
      OBVIOUS
    <3>1. Writing(g) => Calls[g] = Flat!Call("write", fds[g].name)
      BY CallsAre
    <3>2. ~Writing(g) => \/ Calls[g] = Flat!Call("none", "")
                         \/ \E what \in {"late", "read"} :
                              Calls[g] = Flat!Call(what, fds[g].name)
      BY CallsAre, CallsDiffer
    <3>3. \A what, m : what # "write" => Flat!Call(what, m) # Flat!Call("write", n)
      BY CallsDiffer
    <3>4. \A m : Flat!Call("write", m) = Flat!Call("write", n) => m = n
      BY CallsDiffer
    <3> QED
      BY <3>1, <3>2, <3>3, <3>4
  <2>2. \A g \in Fds : Writing(g) => ~At(g, "idle")
    BY DEF Writing, At
  <2> QED
    BY <1>7, <2>1, <2>2 DEF Flat!Written, Writers
<1>10. Calls' = [g \in Fds |-> IF g = fd THEN Flat!Call("write", n)
                               ELSE IF Calls[g] = Flat!Call("read", n) THEN Flat!Call("late", n)
                               ELSE Calls[g]]
  <2>1. Calls'[fd] = Flat!Call("write", n)
    <3>1. Writing(fd)'
      BY <1>4 DEF Writing
    <3> QED
      BY <1>4, <3>1, CallsAfter
  <2>2. ASSUME NEW g \in Fds, g # fd
        PROVE  Calls'[g] = IF Calls[g] = Flat!Call("read", n) THEN Flat!Call("late", n)
                           ELSE Calls[g]
    <3>1. (Writing(g)' <=> Writing(g)) /\ (At(g, "copy")' <=> At(g, "copy"))
      BY <1>4, <2>2 DEF Writing, At
    <3>2. fds'[g] = fds[g]
      BY <1>4, <2>2
    <3>3. CASE At(g, "copy")
      <4>1. ~At(g, "idle") /\ ~Writing(g)
        BY <3>3 DEF At, Writing
      <4>2. g \in Readers(x) <=> fds[g].name = n
        BY <1>7, <3>3, <4>1 DEF Readers
      <4>3. /\ Calls[g] = Flat!Call(IF g \in late THEN "late" ELSE "read", fds[g].name)
            /\ Calls'[g] = Flat!Call(IF g \in late' THEN "late" ELSE "read", fds[g].name)
        BY <3>1, <3>2, <3>3, CallsAre, CallsAfter
      <4>4. g \in late' <=> g \in late \/ fds[g].name = n
        BY <1>5, <4>2
      <4> QED
        BY <4>3, <4>4 DEF Flat!Call
    <3>4. CASE ~At(g, "copy")
      <4>1. Calls'[g] = Calls[g]
        BY <3>1, <3>2, <3>4, CallsAre, CallsAfter
      <4>2. Calls[g] # Flat!Call("read", n)
        <5>1. \/ Calls[g] = Flat!Call("write", fds[g].name)
              \/ Calls[g] = Flat!Call("none", "")
          BY <3>4, CallsAre, CallsDiffer
        <5>2. \A m : Flat!Call("write", m) # Flat!Call("read", n)
          BY CallsDiffer
        <5>3. Flat!Call("none", "") # Flat!Call("read", n)
          BY CallsDiffer
        <5> QED
          BY <5>1, <5>2, <5>3
      <4> QED
        BY <4>1, <4>2
    <3> QED
      BY <3>3, <3>4
  <2> QED
    BY <2>1, <2>2, CallsAfter
<1>11. ASSUME NEW m \in DOMAIN Files, m # n PROVE Files'[m] = Files[m]
  <2>1. PICK f \in Entries : m = dir_entries[f].filename /\ dir_entries[f].inode_no \notin met
    BY <1>6, <1>11 DEF FilesByEntry
  <2>2. PICK y \in Live : y = dir_entries[f].inode_no
    BY DEF Live, Entries
  <2>3. y # x /\ y \notin met /\ y \notin met'
    BY <1>3, <1>5, <1>11, <2>1, <2>2
  <2>4. Held(y)' = Held(y)
    <3>1. \A g \in Fds, e \in Data : Write(g, e) => fds[g].ino # y
      <4> SUFFICES ASSUME NEW g \in Fds, NEW e \in Data, Write(g, e), fds[g].ino = y PROVE FALSE
        OBVIOUS
      <4>1. g # fd
        BY <1>2, <2>3
      <4>2. call'[g].at = "compare" /\ At(g, "idle")
        <5>1. call'[g] = [at |-> "compare", end |-> 0]
          BY WroteBytes
        <5> QED
          BY <5>1 DEF Write, Ready
      <4> QED
        BY <1>4, <4>1, <4>2 DEF At
    <3> QED
      BY <2>3, <3>1, HeldKept
  <2>5. Files[m] = Held(y) /\ Files'[m] = Held(y)'
    BY <1>1, <1>6, <2>1, <2>2, <2>3 DEF FilesByEntry, Held
  <2> QED
    BY <2>4, <2>5
<1>12. CASE n \in Met \/ Flat!Written(n)
  <2>1. met' = met \cup {x}
    BY <1>3, <1>5, <1>9, <1>12
  <2>2. {f \in Entries : dir_entries[f].inode_no \in met'}
          = {f \in Entries : dir_entries[f].inode_no \in met \/ dir_entries[f].filename = n}
    BY <1>3, <2>1
  <2>3. n \in {dir_entries[e].filename : e \in Entries}
    BY <1>3, <1>6 DEF FilesByEntry
  <2>4. Met' = {dir_entries[e].filename : e \in {f \in Entries : dir_entries[f].inode_no \in met'}}
    BY <1>1, <1>6 DEF FilesByEntry
  <2>5. Met' = Met \cup {n}
    BY <1>6, <2>2, <2>3, <2>4 DEF FilesByEntry
  <2>6. DOMAIN Files' = {dir_entries[e].filename :
                           e \in {f \in Entries : dir_entries[f].inode_no \notin met'}}
    BY <1>1, <1>6 DEF FilesByEntry
  <2>7. DOMAIN Files' = DOMAIN Files \ {n}
    BY <1>3, <1>6, <2>1, <2>6 DEF FilesByEntry
  <2>8. Files' = [m \in DOMAIN Files \ {n} |-> Files[m]]
    BY <1>6, <1>11, <2>7 DEF FilesByEntry
  <2>9. Flat!Write(fd, n, p, w)
    BY <1>3, <1>4, <1>5, <1>8, <1>10, <1>12, <2>5, <2>8 DEF Flat!Write, Flat!Result, Result
  <2> QED
    BY <1>3, <1>4, <2>9 DEF Flat!Next
<1>13. CASE ~(n \in Met \/ Flat!Written(n))
  <2>1. met' = met /\ x \notin met' /\ x \notin met
    BY <1>3, <1>5, <1>9, <1>13
  <2>2. Met' = Met /\ DOMAIN Files' = DOMAIN Files
    BY <1>1, <1>6, <2>1 DEF FilesByEntry
  <2>3. Held(x)' = Flat!Patch(Held(x), p, w)
    BY <1>2, <2>1, WritePatches DEF p, w
  <2>4. PICK e \in Entries : dir_entries[e].filename = n /\ dir_entries[e].inode_no = x
    BY <1>3, <1>6, <2>1 DEF FilesByEntry
  <2>5. Files'[n] = Held(x)'
    BY <1>1, <1>6, <2>1, <2>4 DEF FilesByEntry, Held
  <2>6. Files' = [Files EXCEPT ![n] = Flat!Patch(@, p, w)]
    BY <1>3, <1>6, <1>11, <2>1, <2>2, <2>3, <2>5 DEF FilesByEntry
  <2>7. Flat!Write(fd, n, p, w)
    BY <1>3, <1>4, <1>5, <1>8, <1>10, <1>13, <2>2, <2>6 DEF Flat!Write, Flat!Result, Result
  <2> QED
    BY <1>3, <1>4, <2>7 DEF Flat!Next
<1> QED
  BY <1>12, <1>13
-----------------------------------------------------------------------------
(* Only a read can be late. *)
LateReads == \A fd \in late : At(fd, "copy")

LEMMA LateReadsKept == ASSUME IInv, LateReads, [Next]_vars PROVE LateReads'
<1> SUFFICES ASSUME NEW fd \in late' PROVE At(fd, "copy")'
  BY DEF LateReads
<1>1. CASE ~ \E g \in Fds : FileCall(g)
  BY <1>1, CallsFrame DEF LateReads, At, callvars
<1>2. ASSUME NEW g \in Fds, FileCall(g) PROVE At(fd, "copy")'
  <2>1. /\ call \in [Fds -> CallRecords] /\ late \subseteq Fds
        /\ \A x : Readers(x) \subseteq Fds /\ \A h \in Readers(x) : At(h, "copy")
    BY DEF IInv, TypeOK, CallRecords, Readers
  <2>2. \A h \in Fds \ {g} : call'[h] = call[h]
    <3>1. PICK pos \in 0 .. MaxPos, size \in 0 .. BLOCK_SIZE, c \in CallRecords :
            FileStep(g, pos, size, c)
      BY <1>2, FileSteps
    <3> QED
      BY <3>1, FileStepParts
  <2>3. CASE \E len \in 0 .. BLOCK_SIZE : Read(g, len)
    <3>1. call'[g].at = "copy" /\ (fd = g \/ fd \in late)
      BY <2>1, <2>3 DEF Read, Goes
    <3> QED
      BY <2>1, <2>2, <3>1 DEF LateReads, At
  <2>4. CASE \E d \in Data : Write(g, d)
    <3>1. At(g, "idle") /\ \E x : fd \in late \cup Readers(x)
      BY <2>4 DEF Write, Ready
    <3>2. At(fd, "copy") /\ fd \in Fds
      BY <2>1, <3>1 DEF LateReads
    <3> QED
      BY <2>2, <3>1, <3>2 DEF At
  <2>5. CASE CopyOut(g) \/ ReadFault(g)
    <3>1. fd \in late /\ fd # g
      BY <2>5 DEF CopyOut, ReadFault
    <3> QED
      BY <2>1, <2>2, <3>1 DEF LateReads, At
  <2>6. CASE Compare(g) \/ Store(g) \/ StoreVfs(g)
    <3>1. fd \in late /\ ~At(g, "copy")
      BY <2>6 DEF Compare, Store, StoreVfs, At
    <3>2. fd # g
      BY <3>1 DEF LateReads
    <3> QED
      BY <2>1, <2>2, <3>1, <3>2 DEF LateReads, At
  <2>7. CASE \/ \E p \in 0 .. MaxPos : Seek(g, p)
             \/ \E s \in 0 .. BLOCK_SIZE : Truncate(g, s)
             \/ \E d \in Data : \E c \in 0 .. Len(d) : WriteFault(g, d, c)
    BY <2>7 DEF Seek, Truncate, WriteFault, callvars, LateReads, At
  <2> QED
    BY <1>2, <2>3, <2>4, <2>5, <2>6, <2>7 DEF FileCall
<1> QED
  BY <1>1, <1>2

(* A write of a name is under way if its file has a writer. *)
LEMMA WrittenIs ==
  ASSUME IInv, FdsNamed, NEW fd \in Fds, IsOpen(fd)
  PROVE  Flat!Written(fds[fd].name) <=> Writers(fds[fd].ino) # {}
<1> DEFINE n == fds[fd].name
<1>1. \A g \in Fds : Calls[g] = Flat!Call("write", n) <=> Writing(g) /\ fds[g].name = n
  <2> SUFFICES ASSUME NEW g \in Fds
               PROVE  Calls[g] = Flat!Call("write", n) <=> Writing(g) /\ fds[g].name = n
    OBVIOUS
  <2>1. Writing(g) => Calls[g] = Flat!Call("write", fds[g].name)
    BY CallsAre
  <2>2. ~Writing(g) => \/ Calls[g] = Flat!Call("none", "")
                       \/ \E what \in {"late", "read"} :
                            Calls[g] = Flat!Call(what, fds[g].name)
    BY CallsAre, CallsDiffer
  <2>3. \A what, m : what # "write" => Flat!Call(what, m) # Flat!Call("write", n)
    BY CallsDiffer
  <2>4. \A m : Flat!Call("write", m) = Flat!Call("write", n) => m = n
    BY CallsDiffer
  <2> HIDE DEF n
  <2> QED
    BY <2>1, <2>2, <2>3, <2>4
<1>2. \A g \in Fds : Writing(g) => (fds[g].name = n <=> fds[g].ino = fds[fd].ino)
  <2>1. ASSUME NEW g \in Fds, Writing(g) PROVE fds[g].name = n <=> fds[g].ino = fds[fd].ino
    <3>1. IsOpen(g)
      BY <2>1 DEF IInv, CallsOpen, Writing, At
    <3> QED
      BY <3>1, SameFile
  <2> QED
    BY <2>1
<1> QED
  BY <1>1, <1>2 DEF Flat!Written, Writers

(* A write ends as it has stored the size, in both inodes, or found nothing to store;
   what comes before that does not show. *)
LEMMA StoresAsFlat ==
  ASSUME ~UserFaults, IInv, IInv', Turns, Turns', FdsNamed, [Next]_vars,
         ~ \E g \in Fds, d \in Data : Write(g, d),
         NEW fd \in Fds, Compare(fd) \/ Store(fd) \/ StoreVfs(fd)
  PROVE  Flat!Next \/ UNCHANGED <<Files, Met, Calls, ret>>
<1> DEFINE n == fds[fd].name
<1>1. /\ UNCHANGED <<dir_entries, late, ret>> /\ Writing(fd) /\ ~At(fd, "copy")
  BY DEF Compare, Store, StoreVfs, diskvars, At, Writing
<1>2. FileCall(fd) /\ IsOpen(fd)
  BY FileCallOpen DEF FileCall
<1>3. n \in Names
  BY <1>2, OpenFile
<1>4. Files' = Files /\ Met' = Met
  BY <1>1, FilesFixed
<1>5. fds'[fd].name = n
  <2>1. PICK pos \in 0 .. MaxPos, size \in 0 .. BLOCK_SIZE, c \in CallRecords :
          FileStep(fd, pos, size, c)
    BY <1>2, FileSteps
  <2> QED
    BY <2>1, FileStepParts
<1>6. Calls[fd] = Flat!Call("write", n)
  BY <1>1, CallsAre
<1> HIDE DEF n
<1>7. CASE Writing(fd)'
  <2>1. Calls'[fd] = Flat!Call("write", n)
    BY <1>5, <1>7, CallsAfter
  <2>2. Calls' = Calls
    BY <1>1, <1>2, <1>6, <2>1, CallsKept
  <2> QED
    BY <1>1, <1>4, <2>2
<1>8. CASE ~Writing(fd)'
  <2>1. call'[fd] = Idle
    <3>1. call \in [Fds -> CallRecords]
      BY DEF IInv, TypeOK, CallRecords
    <3>2. Goes(fd, "store", 0) => call'[fd].at = "store"
      BY <3>1 DEF Goes
    <3>3. Goes(fd, "store_vfs", 0) => call'[fd].at = "store_vfs"
      BY <3>1 DEF Goes
    <3>4. Ends(fd) => call'[fd] = Idle
      BY <3>1 DEF Ends
    <3> QED
      BY <1>8, <3>2, <3>3, <3>4 DEF Compare, Store, StoreVfs, Writing
  <2>2. Calls'[fd] = Flat!None
    BY <1>8, <2>1, CallsAfter DEF At, Idle
  <2>3. Calls' = [Calls EXCEPT ![fd] = Flat!None]
    BY <1>1, <1>2, <2>2, OneCall
  <2>4. Flat!EndWrite(fd, n)
    BY <1>1, <1>4, <1>6, <2>3 DEF Flat!EndWrite
  <2> QED
    BY <1>3, <2>4 DEF Flat!Next
<1> QED
  BY <1>7, <1>8

LEMMA ReadsAsFlat ==
  ASSUME ~UserFaults, IInv, IInv', Turns, Turns', FdsNamed, LateReads, [Next]_vars,
         ~ \E g \in Fds, d \in Data : Write(g, d),
         NEW fd \in Fds, NEW len \in 0 .. BLOCK_SIZE, Read(fd, len)
  PROVE  Flat!Next
<1> DEFINE n == fds[fd].name
           x == fds[fd].ino
<1>1. /\ UNCHANGED <<dir_entries, fds, ret>> /\ IsOpen(fd) /\ At(fd, "idle")
      /\ late' = IF Writers(x) = {} THEN late ELSE late \cup {fd}
  BY DEF Read, Ready, diskvars
<1>2. n \in Names /\ n \in DOMAIN Files \cup Met
  BY <1>1, EntryOf
<1>3. Files' = Files /\ Met' = Met
  BY <1>1, FilesFixed
<1>4. Flat!Written(n) <=> Writers(x) # {}
  BY <1>1, WrittenIs
<1>5. fd \in late' <=> Writers(x) # {}
  <2>1. fd \notin late
    BY <1>1 DEF LateReads, At
  <2> QED
    BY <1>1, <2>1
<1>6. call'[fd].at = "copy"
  <2>1. call \in [Fds -> CallRecords]
    BY DEF IInv, TypeOK, CallRecords
  <2> QED
    BY <2>1 DEF Read, Goes
<1>7. Calls[fd] = Flat!None
  BY <1>1, CallsAre DEF At, Writing
<1>8. Calls'[fd] = Flat!Call(IF Flat!Written(n) THEN "late" ELSE "read", n)
  <2>1. At(fd, "copy")'
    BY <1>6 DEF At
  <2>2. Calls'[fd] = Flat!Call(IF fd \in late' THEN "late" ELSE "read", fds'[fd].name)
    BY <2>1, CallsAfter
  <2> QED
    BY <1>1, <1>4, <1>5, <2>2
<1> HIDE DEF n, x
<1>9. Calls' = [Calls EXCEPT ![fd] = Flat!Call(IF Flat!Written(n) THEN "late" ELSE "read", n)]
  <2>1. FileCall(fd) /\ late' \ {fd} = late \ {fd}
    BY <1>1 DEF FileCall
  <2> QED
    BY <1>8, <2>1, OneCall
<1>10. Flat!Read(fd, n)
  BY <1>1, <1>2, <1>3, <1>7, <1>9 DEF Flat!Read
<1> QED
  BY <1>2, <1>10 DEF Flat!Next

(* Equal stretches of two sequences *)
LEMMA SameStretch ==
  ASSUME NEW S, NEW a, NEW c, NEW i \in Int, NEW k \in Int,
         \A j \in i .. k : a[j] \in S /\ a[j] = c[j]
  PROVE  SubSeq(a, i, k) = SubSeq(c, i, k)
<1>1. /\ SubSeq(a, i, k) \in Seq(S) /\ SubSeq(c, i, k) \in Seq(S)
      /\ Len(SubSeq(a, i, k)) = IF i <= k THEN k - i + 1 ELSE 0
      /\ Len(SubSeq(c, i, k)) = IF i <= k THEN k - i + 1 ELSE 0
      /\ \A j \in 1 .. k - i + 1 : /\ SubSeq(a, i, k)[j] = a[i + j - 1]
                                   /\ SubSeq(c, i, k)[j] = c[i + j - 1]
  BY SubSeqProperties
<1>2. ASSUME NEW j \in 1 .. Len(SubSeq(a, i, k))
      PROVE  SubSeq(a, i, k)[j] = SubSeq(c, i, k)[j]
  <2>1. j \in 1 .. k - i + 1 /\ i + j - 1 \in i .. k
    BY <1>1
  <2> QED
    BY <1>1, <2>1
<1> QED
  BY <1>1, <1>2, SeqEqual

(* A read that is not late returns the bytes of the file from the position on, as far as
   they go. *)
LEMMA CopiesOut ==
  ASSUME IInv, Turns, FdsNamed, Timely, NEW fd \in Fds, CopyOut(fd), fd \notin late,
         fds[fd].ino \notin met
  PROVE  \E p \in 0 .. BLOCK_SIZE + 1, l \in 0 .. BLOCK_SIZE : Flat!Returns(fds[fd].name, p, l)
<1> DEFINE n == fds[fd].name
           p == fds[fd].pos
           x == fds[fd].ino
           c == Files[n]
           block == data_blocks[InodeOf(fd).i_block]
           size == InodeOf(fd).i_size
           end == call[fd].end
<1>1. At(fd, "copy") /\ ret' = Result("read", n, 0, SubSeq(block, p + 1, end))
  BY DEF CopyOut, Returns
<1>2. IsOpen(fd)
  BY <1>1 DEF IInv, CallsOpen, At
<1>3. /\ x \in Live \ met /\ c = Held(x) /\ p \in 0 .. BLOCK_SIZE + 1
      /\ size \in 0 .. BLOCK_SIZE /\ InodeOf(fd).i_blocks = 1
  BY <1>2, EntryOf, OpenFile DEF MaxPos, IInv, FileHasBlock, InodeOf
<1>4. PICK len \in 0 .. BLOCK_SIZE : Writers(x) = {} /\ end = p + ReadLen(fd, len)
  BY <1>1, <1>3 DEF Timely
<1>5. End(x) = size
  <2>1. Growing(x) = {}
    BY <1>4 DEF Growing
  <2> QED
    BY <2>1 DEF End, InodeOf
<1>6. /\ Len(c) = size /\ c \in [1 .. size -> Byte]
      /\ \A j \in 1 .. size : c[j] = block[j]
  <2> HIDE DEF size
  <2> QED
    BY <1>3, <1>5, FileHolds DEF HeldAre, InodeOf
<1> DEFINE last == IF p + len > Len(c) THEN Len(c) ELSE p + len
<1>7. SubSeq(block, p + 1, end) = SubSeq(c, p + 1, last)
  <2> HIDE DEF c, block, p, size, end, x
  <2>1. CASE p >= size
    <3>1. end < p + 1 /\ last < p + 1 /\ end \in Int /\ last \in Int /\ p + 1 \in Int
      BY <1>3, <1>4, <1>6, <2>1, Sizes DEF ReadLen, p, size
    <3> HIDE DEF last
    <3>2. SubSeq(block, p + 1, end) = <<>> /\ SubSeq(c, p + 1, last) = <<>>
      BY <3>1, SubSeqEmpty
    <3> QED
      BY <3>2
  <2>2. CASE p < size
    <3>1. end = last /\ end <= size /\ end \in Int /\ p + 1 \in Int
      BY <1>3, <1>4, <1>6, <2>2, Sizes DEF ReadLen, Smaller, p, size
    <3> HIDE DEF last
    <3>2. \A j \in p + 1 .. end : c[j] \in Byte /\ c[j] = block[j]
      BY <1>3, <1>6, <3>1, Sizes
    <3>3. PICK i \in Int, k \in Int : i = p + 1 /\ k = end
      BY <3>1
    <3>4. \A j \in i .. k : c[j] \in Byte /\ c[j] = block[j]
      BY <3>2, <3>3
    <3>5. SubSeq(c, i, k) = SubSeq(block, i, k)
      BY <3>4, SameStretch
    <3> QED
      BY <3>1, <3>3, <3>5
  <2>3. p >= size \/ p < size
    BY <1>3, Sizes
  <2> QED
    BY <2>1, <2>2, <2>3
<1> HIDE DEF block, end, p
<1>8. Flat!Returns(n, p, len)
  BY <1>1, <1>7 DEF Flat!Returns, Flat!Result, Result
<1> QED
  BY <1>3, <1>8

LEMMA CopiesAsFlat ==
  ASSUME ~UserFaults, IInv, IInv', Turns, Turns', FdsNamed, Timely, [Next]_vars,
         ~ \E g \in Fds, d \in Data : Write(g, d), NEW fd \in Fds, CopyOut(fd)
  PROVE  Flat!Next
<1> DEFINE n == fds[fd].name
<1>1. /\ UNCHANGED dir_entries /\ At(fd, "copy") /\ late' = late \ {fd} /\ Ends(fd)
      /\ \E v : ret' = Result("read", n, 0, v)
  BY DEF CopyOut, Returns, diskvars
<1>2. IsOpen(fd) /\ FileCall(fd)
  BY <1>1 DEF IInv, CallsOpen, At, FileCall
<1>3. n \in Names /\ (n \in DOMAIN Files <=> fds[fd].ino \notin met)
  BY <1>2, EntryOf
<1>4. Files' = Files /\ Met' = Met
  BY <1>1, FilesFixed
<1>5. Calls[fd] = Flat!Call(IF fd \in late THEN "late" ELSE "read", n)
  BY <1>1, CallsAre
<1>6. Calls'[fd] = Flat!None
  <2>1. call'[fd] = Idle
    BY <1>1 DEF Ends, IInv, TypeOK
  <2> QED
    BY <2>1, CallsAfter DEF At, Writing, Idle
<1>7. Calls' = [Calls EXCEPT ![fd] = Flat!None]
  BY <1>1, <1>2, <1>6, OneCall
<1>8. ret'.call = "read" /\ ret'.name = n
  BY <1>1 DEF Result
<1>9. fd \notin late /\ n \in DOMAIN Files =>
        \E p \in 0 .. BLOCK_SIZE + 1, l \in 0 .. BLOCK_SIZE : Flat!Returns(n, p, l)
  BY <1>3, CopiesOut
<1> HIDE DEF n
<1>10. Flat!EndRead(fd, n)
  <2>1. CASE fd \in late
    BY <1>4, <1>5, <1>7, <1>8, <2>1 DEF Flat!EndRead
  <2>2. CASE fd \notin late
    BY <1>4, <1>5, <1>7, <1>8, <1>9, <2>2 DEF Flat!EndRead
  <2> QED
    BY <2>1, <2>2
<1> QED
  BY <1>3, <1>10 DEF Flat!Next

(* A seek and a truncation are nothing to the flat file system. *)
LEMMA MovesAsFlat ==
  ASSUME ~UserFaults, IInv, IInv', Turns, Turns', [Next]_vars,
         ~ \E g \in Fds, d \in Data : Write(g, d), NEW fd \in Fds,
         \/ \E p \in 0 .. MaxPos : Seek(fd, p)
         \/ \E s \in 0 .. BLOCK_SIZE : Truncate(fd, s)
  PROVE  UNCHANGED <<Files, Met, Calls, ret>>
<1>1. /\ UNCHANGED <<dir_entries, call, late, ret>> /\ FileCall(fd)
      /\ fds'[fd].name = fds[fd].name
  <2>1. fds \in [Fds -> Descriptors] /\ IsOpen(fd)
    BY DEF IInv, TypeOK, Seek, Truncate, Ready
  <2>2. \/ \E p \in 0 .. MaxPos : MoveTo(fd, p)
        \/ \E s \in 0 .. BLOCK_SIZE : VfsResize(fd, s)
    BY DEF Seek, Truncate
  <2>3. fds'[fd].name = fds[fd].name
    BY <2>1, <2>2 DEF MoveTo, VfsResize, Descriptors, Closed
  <2> QED
    BY <2>3 DEF Seek, Truncate, diskvars, callvars, FileCall
<1>2. Calls'[fd] = Calls[fd]
  BY <1>1 DEF Calls, At, Writing
<1>3. Calls' = Calls
  BY <1>1, <1>2, CallsKept
<1> QED
  BY <1>1, <1>3, FilesFixed

(* Nor is what is done to the caches and the descriptors alone. *)
LEMMA CachesAsFlat ==
  ASSUME ~UserFaults, IInv, IInv', Turns, Turns', [Next]_vars,
         ~ \E fd \in Fds : FileCall(fd), UNCHANGED <<dir_entries, ret>>
  PROVE  UNCHANGED <<Files, Met, Calls, ret>>
<1>1. Files' = Files /\ Met' = Met
  BY FilesFixed DEF FileCall
<1> QED
  BY <1>1, CallsStay

(* A step of the file system is one of the flat file system, or none. *)
LEMMA StepsAsFlat ==
  ASSUME ~UserFaults, IInv, IInv', Turns, Turns', FdsNamed, MetLive, ZeroTail, Timely,
         LateReads, [Next]_vars
  PROVE  Flat!Next \/ UNCHANGED <<Files, Met, Calls, ret>>
<1>1. CASE \E fd \in Fds, d \in Data : Write(fd, d)
  BY <1>1, WritesAsFlat
<1>2. CASE /\ ~ \E fd \in Fds, d \in Data : Write(fd, d)
           /\ \E fd \in Fds : FileCall(fd)
  <2>1. PICK fd \in Fds : FileCall(fd)
    BY <1>2
  <2>2. ~ReadFault(fd) /\ ~ \E d \in Data : \E c \in 0 .. Len(d) : WriteFault(fd, d, c)
    BY DEF ReadFault, WriteFault
  <2>3. CASE \/ \E p \in 0 .. MaxPos : Seek(fd, p)
             \/ \E s \in 0 .. BLOCK_SIZE : Truncate(fd, s)
    BY <1>2, <2>3, MovesAsFlat
  <2>4. CASE \E len \in 0 .. BLOCK_SIZE : Read(fd, len)
    BY <1>2, <2>4, ReadsAsFlat
  <2>5. CASE CopyOut(fd)
    BY <1>2, <2>5, CopiesAsFlat
  <2>6. CASE Compare(fd) \/ Store(fd) \/ StoreVfs(fd)
    BY <1>2, <2>6, StoresAsFlat
  <2> QED
    BY <1>2, <2>1, <2>2, <2>3, <2>4, <2>5, <2>6 DEF FileCall
<1>3. CASE ~ \E fd \in Fds : FileCall(fd)
  <2>1. ASSUME NEW n \in Names, \/ CreateTooLong(n) \/ CreateRefused(n)
                                \/ CreateNoMem(n) \/ CreateLeaks(n)
        PROVE  Flat!Next
    BY <1>3, <2>1, FailsAsFlat
  <2>2. ASSUME NEW fd \in Fds, WriteBeyond(fd) PROVE Flat!Next
    <3>1. IsOpen(fd)
      BY <2>2 DEF WriteBeyond, Ready
    <3>2. fds[fd].name \in Names
      BY <3>1, OpenFile
    <3> QED
      BY <1>3, <2>2, <3>2, FailsAsFlat
  <2>3. ASSUME NEW fd \in Fds, NEW n \in Names, CreateOk(fd, n) PROVE Flat!Next
    BY <1>3, <2>3, CreatesAsFlat DEF Flat!Next
  <2>4. \/ UNCHANGED vars
        \/ \E n \in Names : LookupHit(n)
        \/ \E fd \in Fds, n \in Names : Open(fd, n)
        \/ \E ino \in Inodes : Shrink(ino)
        \/ \E fd \in Fds : Close(fd)
        => UNCHANGED <<dir_entries, ret>>
    BY DEF vars, diskvars, LookupHit, Open, Shrink, Close
  <2>5. CASE UNCHANGED <<dir_entries, ret>>
    BY <1>3, <2>5, CachesAsFlat
  <2> QED
    BY <1>3, <2>1, <2>2, <2>3, <2>4, <2>5 DEF Next, FileCall
<1> QED
  BY <1>1, <1>2, <1>3

LEMMA InitAsFlat == Init => Flat!Init
<1> SUFFICES ASSUME Init PROVE Flat!Init
  OBVIOUS
<1>1. /\ dir_entries = <<>> /\ ret = Result("none", "", 0, <<>>)
      /\ call = [fd \in Fds |-> Idle]
  BY DEF Init
<1>2. \A n : ~Exists(n)
  <2>1. dir_entries = <<>>
    BY <1>1
  <2>2. Len(dir_entries) = 0 /\ DOMAIN dir_entries = {}
    BY <2>1, EmptySeq
  <2> QED
    BY <2>2 DEF Exists
<1>3. Met = {}
  BY <1>2 DEF Met
<1>4. Files = <<>>
  BY <1>2, <1>3 DEF Files
<1>5. \A fd \in Fds : ~Writing(fd) /\ ~At(fd, "copy")
  BY <1>1 DEF Writing, At, Idle
<1>6. Calls = [fd \in Fds |-> Flat!None]
  BY <1>5, CallsAre
<1> QED
  BY <1>1, <1>3, <1>4, <1>6 DEF Flat!Init, Result

(* Unless user memory is unmapped under a call, osfs implements the flat file system, in
   which a file is a name and a sequence of bytes and a write takes effect as it starts:
   inodes, blocks, the directory, what lookup caches, what a failed create leaves behind
   and a size that is still to be stored never show, but in a file in which two writes
   have met. *)
THEOREM FlatRefinement == ASSUME ~UserFaults PROVE Spec => FlatSpec
<1> DEFINE J == IInv /\ Turns /\ FdsNamed /\ MetLive /\ ZeroTail /\ Timely /\ LateReads
<1>1. Init => J
  <2>1. Init => \A fd \in Fds : ~At(fd, "copy")
    <3> SUFFICES ASSUME Init, NEW fd \in Fds PROVE call[fd].at # "copy"
      BY DEF At
    <3>1. call = [g \in Fds |-> Idle]
      BY DEF Init
    <3> QED
      BY <3>1 DEF Idle
  <2>2. Init => met = {} /\ late = {}
    BY DEF Init
  <2>3. Init => MetLive /\ Timely /\ LateReads
    BY <2>1, <2>2 DEF MetLive, Timely, LateReads
  <2> QED
    BY <2>3, InitIInv, InitTurns, InitFdsNamed, InitZeroTail
<1>2. J /\ [Next]_vars => J'
  <2> SUFFICES ASSUME J, [Next]_vars PROVE J'
    OBVIOUS
  <2>1. IInv' /\ Turns'
    BY Step, TurnsKept
  <2>2. FdsNamed' /\ MetLive' /\ Timely' /\ LateReads'
    BY FdsNamedKept, MetLiveKept, TimelyKept, LateReadsKept
  <2> QED
    BY <2>1, <2>2, ZeroTailKept
<1>3. J /\ J' /\ [Next]_vars => [Flat!Next]_(Flat!fvars)
  BY StepsAsFlat DEF Flat!fvars
<1> QED
  BY <1>1, <1>2, <1>3, InitAsFlat, PTL DEF Spec, FlatSpec, Flat!Spec
=============================================================================
