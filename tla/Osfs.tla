-------------------------------- MODULE Osfs --------------------------------
(***************************************************************************)
(* Lab4_Template_Done: the in-memory file system osfs, one action per      *)
(* handler the kernel calls.  It has one directory, the root, whose        *)
(* entries fill block 0, and every file owns one block.  create() and      *)
(* lookup() run under the directory's lock, so each is one step.  read()   *)
(* and write() hold no lock of the file's: they take the steps between     *)
(* which those of another descriptor come.                                 *)
(*                                                                         *)
(* The VFS around it is modelled as far as the handlers see it: an open    *)
(* file has a position and a VFS inode with an i_size of its own.  lookup  *)
(* hashes the dentry it is given; create only instantiates the one it is   *)
(* given, which stays unhashed, so that the creator's VFS inode is private *)
(* to its file descriptor and later lookups make another.                  *)
(***************************************************************************)
EXTENDS Integers, Sequences, FiniteSets

CONSTANTS Names, LongNames,                \* file names; those over MAX_FILENAME_LEN
          INODE_COUNT, DATA_BLOCK_COUNT, MAX_DIR_ENTRIES, BLOCK_SIZE,
          UintMod,                         \* 2^32, the width of the counters
          Bytes,                           \* the non-zero bytes users write
          Fds,                             \* file descriptors
          NoMem, UserFaults, Truncates     \* may new_inode fail, user memory be
                                           \* unmapped, a file be truncated

ASSUME OsfsAssumption ==
  /\ LongNames \subseteq Names
  /\ INODE_COUNT \in Nat \ {0, 1} /\ DATA_BLOCK_COUNT \in Nat \ {0}
  /\ MAX_DIR_ENTRIES \in Nat /\ BLOCK_SIZE \in Nat
  /\ UintMod \in Nat /\ UintMod > INODE_COUNT /\ UintMod % 2 = 0
  /\ Bytes \subseteq Nat \ {0}
  /\ NoMem \in BOOLEAN /\ UserFaults \in BOOLEAN /\ Truncates \in BOOLEAN

ROOT_INODE == 1
Inodes == 1 .. INODE_COUNT - 1             \* osfs_get_osfs_inode refuses the others
Blocks == 0 .. DATA_BLOCK_COUNT - 1
Byte == Bytes \cup {0}
Data == UNION {[1 .. l -> Bytes] : l \in 0 .. BLOCK_SIZE}
Zeroed == [j \in 1 .. BLOCK_SIZE |-> 0]
MaxPos == BLOCK_SIZE + 1                   \* bound on the positions of the model

ENOMEM == -12
EFAULT == -14
ENOSPC == -28
ENAMETOOLONG == -36

VARIABLES
  inode_bitmap, block_bitmap,              \* sets of the bits that are set
  nr_free_inodes, nr_free_blocks,
  inode_table,                             \* osfs_inode: i_size, i_blocks, i_block
  data_blocks,
  dir_entries,                             \* what block 0 holds
  vfs_size,                                \* i_size of the hashed VFS inodes
  fds,                                     \* open files
  call,                                    \* the read or write each is in
  met,                                     \* files in which two writes met (history)
  late,                                    \* reads that a write came between (history)
  ret                                      \* result of the last create, read, write

sbvars   == <<inode_bitmap, block_bitmap, nr_free_inodes, nr_free_blocks>>
diskvars == <<sbvars, inode_table, data_blocks, dir_entries>>
callvars == <<call, met, late>>
vars     == <<inode_bitmap, block_bitmap, nr_free_inodes, nr_free_blocks,
              inode_table, data_blocks, dir_entries, vfs_size, fds, call, met, late, ret>>

NotCached == -1                            \* no hashed VFS inode for this number
Closed == [name |-> "", ino |-> 0, pos |-> 0, own |-> FALSE, size |-> 0]
Idle == [at |-> "idle", end |-> 0]
NewOsfsInode(b) == [i_size |-> 0, i_blocks |-> 1, i_block |-> b]

Result(what, n, err, d) == [call |-> what, name |-> n, err |-> err, data |-> d]
Returns(what, n, err, d) == ret' = Result(what, n, err, d)

UsableInodes == INODE_COUNT - 2
InitialFree == INODE_COUNT - 1
RootUnmarked == {}
RootMarked == {ROOT_INODE}                 \* set_bit(ROOT_INODE, inode_bitmap)

(* osfs_fill_super: the root directory takes inode 1 and block 0. *)
Init == /\ inode_bitmap = RootMarked /\ block_bitmap = {0}
        /\ nr_free_inodes = InitialFree
        /\ nr_free_blocks = DATA_BLOCK_COUNT - 1
        /\ inode_table = [ino \in Inodes |-> [i_size |-> 0, i_blocks |-> 0, i_block |-> 0]]
        /\ data_blocks = [b \in Blocks |-> Zeroed]
        /\ dir_entries = <<>>
        /\ vfs_size = [ino \in Inodes |-> IF ino = ROOT_INODE THEN 0 ELSE NotCached]
        /\ fds = [fd \in Fds |-> Closed] /\ call = [fd \in Fds |-> Idle]
        /\ met = {} /\ late = {}
        /\ ret = Result("none", "", 0, <<>>)
-----------------------------------------------------------------------------
dir_entry_count == inode_table[ROOT_INODE].i_size   \* counted in entries
Named(n, e) == e \in 1 .. dir_entry_count /\ dir_entries[e].filename = n
Exists(n) == \E e \in DOMAIN dir_entries : Named(n, e)

FreeInodes == Inodes \ inode_bitmap
FreeBlocks == Blocks \ block_bitmap
First(x, S) == x \in S /\ \A y \in S : x <= y      \* the first clear bit
Dec(x) == IF x = 0 THEN UintMod - 1 ELSE x - 1    \* uint32_t --
DirAlmostFull == dir_entry_count >= MAX_DIR_ENTRIES - 1
DirFull == dir_entry_count >= MAX_DIR_ENTRIES      \* osfs_add_dir_entry refuses

AllocAnyBlock(b) == /\ b \in Blocks
                    /\ block_bitmap' = block_bitmap \cup {b}
                    /\ nr_free_blocks' = Dec(nr_free_blocks)
(* osfs_alloc_data_block *)
AllocDataBlock(b) == /\ First(b, FreeBlocks)
                     /\ block_bitmap' = block_bitmap \cup {b}
                     /\ nr_free_blocks' = Dec(nr_free_blocks)
-----------------------------------------------------------------------------
(* osfs_create, called for a name the locked directory does not have: the same
   name is never found by osfs_add_dir_entry. *)
MayCreate(n) == ~Exists(n) /\ n \notin LongNames
MayAllocate == nr_free_inodes # 0 /\ nr_free_blocks # 0 /\ FreeInodes # {}

CreateTooLong(n) == /\ ~Exists(n) /\ n \in LongNames
                    /\ Returns("create", n, ENAMETOOLONG, <<>>)
                    /\ UNCHANGED <<diskvars, vfs_size, fds, callvars>>

CreateRefused(n) == /\ MayCreate(n) /\ ~MayAllocate
                    /\ Returns("create", n, ENOSPC, <<>>)
                    /\ UNCHANGED <<diskvars, vfs_size, fds, callvars>>

TakeInode(ino) == /\ First(ino, FreeInodes)
                  /\ inode_bitmap' = inode_bitmap \cup {ino}

(* new_inode fails when the inode number is taken already; it stays taken. *)
CreateNoMem(n) == /\ NoMem /\ MayCreate(n) /\ MayAllocate
                  /\ \E ino \in Inodes : TakeInode(ino)
                  /\ nr_free_inodes' = Dec(nr_free_inodes)
                  /\ Returns("create", n, ENOMEM, <<>>)
                  /\ UNCHANGED <<block_bitmap, nr_free_blocks, inode_table,
                                 data_blocks, dir_entries, vfs_size, fds, callvars>>

(* osfs_new_inode with inode number ino and block b; nr_free_inodes goes down
   in osfs_get_free_inode and again at the end. *)
NewInode(ino, b) == /\ TakeInode(ino) /\ AllocDataBlock(b)
                    /\ nr_free_inodes' = Dec(Dec(nr_free_inodes))

(* The inode number is taken and then something fails; what was taken stays so.
   osfs_alloc_data_block cannot (BlocksAccounted); osfs_add_dir_entry does when
   the directory is full. *)
CreateLeaks(n) ==
  /\ MayCreate(n) /\ MayAllocate
  /\ \E ino \in Inodes, b \in Blocks :
       /\ inode_table' = [inode_table EXCEPT ![ino] = NewOsfsInode(b)]
       /\ IF FreeBlocks = {}
          THEN /\ b = 0 /\ TakeInode(ino) /\ nr_free_inodes' = Dec(nr_free_inodes)
               /\ UNCHANGED <<block_bitmap, nr_free_blocks>>
          ELSE DirFull /\ NewInode(ino, b)
  /\ Returns("create", n, ENOSPC, <<>>)
  /\ UNCHANGED <<data_blocks, dir_entries, vfs_size, fds, callvars>>

(* Success: open(O_CREAT) keeps the inode osfs_create instantiated. *)
CreateOk(fd, n) ==
  /\ MayCreate(n) /\ MayAllocate /\ fds[fd] = Closed /\ ~DirFull
  /\ \E ino \in Inodes, b \in Blocks :
       /\ NewInode(ino, b)
       /\ inode_table' = [inode_table EXCEPT ![ino] = NewOsfsInode(b),
                                             ![ROOT_INODE].i_size = @ + 1]
       /\ dir_entries' = Append(dir_entries, [filename |-> n, inode_no |-> ino])
       /\ fds' = [fds EXCEPT ![fd] = [name |-> n, ino |-> ino, pos |-> 0,
                                      own |-> TRUE, size |-> 0]]
  /\ vfs_size' = [vfs_size EXCEPT ![ROOT_INODE] = @ + 1]
  /\ Returns("create", n, 0, <<>>)
  /\ UNCHANGED <<data_blocks, callvars>>
-----------------------------------------------------------------------------
(* osfs_lookup of a name whose dentry is not hashed: osfs_iget makes a VFS
   inode with the i_size of the moment.  A name there is not gets no dentry. *)
Iget(ino) == vfs_size' = [vfs_size EXCEPT ![ino] = inode_table[ino].i_size]

LookupHit(n) == \E e \in DOMAIN dir_entries :
                  /\ Named(n, e) /\ vfs_size[dir_entries[e].inode_no] = NotCached
                  /\ Iget(dir_entries[e].inode_no)
                  /\ UNCHANGED <<diskvars, fds, callvars, ret>>

(* open of a name whose dentry is hashed *)
Open(fd, n) == \E e \in DOMAIN dir_entries :
  /\ fds[fd] = Closed
  /\ Named(n, e) /\ vfs_size[dir_entries[e].inode_no] # NotCached
  /\ fds' = [fds EXCEPT ![fd] = [Closed EXCEPT !.name = n,
                                               !.ino = dir_entries[e].inode_no]]
  /\ UNCHANGED <<diskvars, vfs_size, callvars, ret>>

IsOpen(fd) == fds[fd] # Closed
At(fd, step) == call[fd].at = step         \* what fd's call does next
Ready(fd) == IsOpen(fd) /\ At(fd, "idle")  \* f_pos_lock is free

(* The last reference to a creator's inode goes with its descriptor, which a call
   still holds. *)
Close(fd) == /\ Ready(fd)
             /\ fds' = [fds EXCEPT ![fd] = Closed]
             /\ UNCHANGED <<diskvars, vfs_size, callvars, ret>>

(* The kernel reclaims an unused dentry; osfs_destroy_inode leaves the
   osfs_inode as it is. *)
Shrink(ino) == /\ ino # ROOT_INODE /\ vfs_size[ino] # NotCached
               /\ \A fd \in Fds : fds[fd].ino = ino => fds[fd].own
               /\ vfs_size' = [vfs_size EXCEPT ![ino] = NotCached]
               /\ UNCHANGED <<diskvars, fds, callvars, ret>>

(* i_size of the VFS inode behind fd *)
VfsSize(fd) == IF fds[fd].own THEN fds[fd].size ELSE vfs_size[fds[fd].ino]

(* The VFS inode behind fd gets size s. *)
VfsResize(fd, s) ==
  /\ fds' = [fds EXCEPT ![fd].size = IF fds[fd].own THEN s ELSE @]
  /\ vfs_size' = IF fds[fd].own THEN vfs_size
                 ELSE [vfs_size EXCEPT ![fds[fd].ino] = s]
MoveTo(fd, pos) == fds' = [fds EXCEPT ![fd].pos = pos]

(* default_llseek; SEEK_END goes by the VFS i_size, one of these positions *)
Seek(fd, pos) == /\ Ready(fd)
                 /\ MoveTo(fd, pos)
                 /\ UNCHANGED <<diskvars, vfs_size, callvars, ret>>

(* O_TRUNC and ftruncate reach simple_setattr, for want of a setattr of osfs:
   only the VFS i_size changes.  They wait for no call. *)
Truncate(fd, s) == /\ Truncates /\ IsOpen(fd)
                   /\ VfsResize(fd, s)
                   /\ UNCHANGED <<diskvars, callvars, ret>>
-----------------------------------------------------------------------------
InodeOf(fd) == inode_table[fds[fd].ino]
Smaller(x, y) == IF x < y THEN x ELSE y

Goes(fd, step, end) == call' = [call EXCEPT ![fd] = [at |-> step, end |-> end]]
Ends(fd) == call' = [call EXCEPT ![fd] = Idle]
Writing(fd) == call[fd].at \in {"compare", "store", "store_vfs"}
Writers(ino) == {fd \in Fds : fds[fd].ino = ino /\ Writing(fd)}
Readers(ino) == {fd \in Fds : fds[fd].ino = ino /\ At(fd, "copy")}

ReadLenPastEnd(fd, len) ==
  IF InodeOf(fd).i_blocks = 0 \/ fds[fd].pos >= BLOCK_SIZE THEN 0
  ELSE Smaller(len, BLOCK_SIZE - fds[fd].pos)
(* What osfs_read makes of len: nothing at or past the end of the file. *)
ReadLen(fd, len) ==
  IF InodeOf(fd).i_blocks = 0 \/ fds[fd].pos >= InodeOf(fd).i_size THEN 0
  ELSE Smaller(len, InodeOf(fd).i_size - fds[fd].pos)

(* osfs_read loads i_size, then copies what it made of len. *)
Read(fd, len) == /\ Ready(fd)
                 /\ Goes(fd, "copy", fds[fd].pos + ReadLen(fd, len))
                 /\ late' = IF Writers(fds[fd].ino) = {} THEN late ELSE late \cup {fd}
                 /\ UNCHANGED <<diskvars, vfs_size, fds, met, ret>>

CopyOut(fd) ==
  /\ At(fd, "copy")
  /\ Returns("read", fds[fd].name, 0,
             SubSeq(data_blocks[InodeOf(fd).i_block], fds[fd].pos + 1, call[fd].end))
  /\ MoveTo(fd, call[fd].end) /\ Ends(fd) /\ late' = late \ {fd}
  /\ UNCHANGED <<diskvars, vfs_size, met>>

ReadFault(fd) == /\ UserFaults /\ At(fd, "copy") /\ call[fd].end > fds[fd].pos
                 /\ Returns("read", fds[fd].name, EFAULT, <<>>)
                 /\ Ends(fd) /\ late' = late \ {fd}
                 /\ UNCHANGED <<diskvars, vfs_size, fds, met>>

(* The bytes d of a write, cut to what fits between pos and the block's end *)
Clamped(fd, d) == SubSeq(d, 1, Smaller(Len(d), BLOCK_SIZE - fds[fd].pos))

(* copy_from_user to the position of fd *)
CopyIn(fd, d) ==
  data_blocks' = [data_blocks EXCEPT ![InodeOf(fd).i_block] =
    [j \in 1 .. BLOCK_SIZE |->
       IF j - fds[fd].pos \in DOMAIN d THEN d[j - fds[fd].pos] ELSE @[j]]]

(* osfs_write, up to *ppos += len; what it will return is settled.  A file has its
   block from creation on (FileHasBlock), so that the allocation in osfs_write
   never runs. *)
Write(fd, d) ==
  /\ Ready(fd) /\ fds[fd].pos <= BLOCK_SIZE
  /\ CopyIn(fd, Clamped(fd, d))
  /\ MoveTo(fd, fds[fd].pos + Len(Clamped(fd, d)))
  /\ Goes(fd, "compare", 0)
  /\ met' = IF Writers(fds[fd].ino) = {} THEN met ELSE met \cup {fds[fd].ino}
  /\ late' = late \cup Readers(fds[fd].ino)
  /\ Returns("write", fds[fd].name, 0, Clamped(fd, d))
  /\ UNCHANGED <<sbvars, inode_table, dir_entries, vfs_size>>

(* if the position is beyond osfs_inode->i_size *)
Grows(fd) == fds[fd].pos > InodeOf(fd).i_size
ComparedForVfs(fd) == /\ At(fd, "compare")
                      /\ IF Grows(fd) THEN Goes(fd, "store_vfs", 0) ELSE Ends(fd)
                      /\ UNCHANGED <<diskvars, vfs_size, fds, met, late, ret>>
Compare(fd) == /\ At(fd, "compare")
               /\ IF Grows(fd) THEN Goes(fd, "store", 0) ELSE Ends(fd)
               /\ UNCHANGED <<diskvars, vfs_size, fds, met, late, ret>>

(* osfs_inode->i_size takes the position *)
Store(fd) == /\ At(fd, "store")
             /\ inode_table' = [inode_table EXCEPT ![fds[fd].ino].i_size = fds[fd].pos]
             /\ Goes(fd, "store_vfs", 0)
             /\ UNCHANGED <<sbvars, data_blocks, dir_entries, vfs_size, fds, met, late, ret>>

(* ... and inode->i_size *)
StoreVfs(fd) == /\ At(fd, "store_vfs")
                /\ VfsResize(fd, fds[fd].pos)
                /\ Ends(fd)
                /\ UNCHANGED <<diskvars, met, late, ret>>

(* Beyond the block, block_size - pos is a huge size_t and copy_from_user
   refuses it before it touches the block. *)
WriteBeyond(fd) == /\ Ready(fd) /\ fds[fd].pos > BLOCK_SIZE
                   /\ Returns("write", fds[fd].name, EFAULT, <<>>)
                   /\ UNCHANGED <<diskvars, vfs_size, fds, callvars>>

(* copy_from_user stops after c bytes and zeroes the rest of its target. *)
WriteFault(fd, d, c) ==
  /\ UserFaults /\ Ready(fd) /\ fds[fd].pos <= BLOCK_SIZE
  /\ c < Len(Clamped(fd, d))
  /\ CopyIn(fd, [j \in DOMAIN Clamped(fd, d) |-> IF j <= c THEN d[j] ELSE 0])
  /\ Returns("write", fds[fd].name, EFAULT, <<>>)
  /\ UNCHANGED <<sbvars, inode_table, dir_entries, vfs_size, fds, callvars>>

Next == \/ \E n \in Names : \/ CreateTooLong(n) \/ CreateRefused(n)
                            \/ CreateNoMem(n) \/ CreateLeaks(n) \/ LookupHit(n)
        \/ \E fd \in Fds, n \in Names : CreateOk(fd, n) \/ Open(fd, n)
        \/ \E ino \in Inodes : Shrink(ino)
        \/ \E fd \in Fds :
             \/ Close(fd) \/ WriteBeyond(fd)
             \/ CopyOut(fd) \/ ReadFault(fd)
             \/ Compare(fd) \/ Store(fd) \/ StoreVfs(fd)
             \/ \E p \in 0 .. MaxPos : Seek(fd, p)
             \/ \E s \in 0 .. BLOCK_SIZE : Truncate(fd, s)
             \/ \E len \in 0 .. BLOCK_SIZE : Read(fd, len)
             \/ \E d \in Data : Write(fd, d) \/ \E c \in 0 .. Len(d) : WriteFault(fd, d, c)

Spec == Init /\ [][Next]_vars
-----------------------------------------------------------------------------
Descriptors == [name : Names, ino : Inodes, pos : 0 .. MaxPos,
                own : BOOLEAN, size : 0 .. BLOCK_SIZE] \cup {Closed}
Steps == {"idle", "copy", "compare", "store", "store_vfs"}

TypeOK ==
  /\ inode_bitmap \subseteq Inodes /\ block_bitmap \subseteq Blocks
  /\ nr_free_inodes \in 0 .. UintMod - 1 /\ nr_free_blocks \in 0 .. DATA_BLOCK_COUNT
  /\ inode_table \in [Inodes -> [i_size : Nat, i_blocks : {0, 1}, i_block : Blocks]]
  /\ data_blocks \in [Blocks -> [1 .. BLOCK_SIZE -> Byte]]
  /\ dir_entries \in Seq([filename : Names, inode_no : Inodes])
  /\ vfs_size \in [Inodes -> Nat \cup {NotCached}]
  /\ fds \in [Fds -> Descriptors]
  /\ call \in [Fds -> [at : Steps, end : 0 .. MaxPos]]
  /\ met \subseteq Inodes /\ late \subseteq Fds

(* nr_free_blocks is the number of clear bits of the block bitmap. *)
BlocksAccounted == nr_free_blocks = Cardinality(FreeBlocks)

(* The directory: its size counts its entries, in the osfs_inode and in the VFS
   inode; no two entries share a name or an inode number; none names the root. *)
DirConsistent ==
  /\ Len(dir_entries) = dir_entry_count /\ dir_entry_count <= MAX_DIR_ENTRIES
  /\ vfs_size[ROOT_INODE] = dir_entry_count
  /\ \A x, y \in DOMAIN dir_entries :
       /\ dir_entries[x].inode_no \in inode_bitmap \ {ROOT_INODE}
       /\ x # y => /\ dir_entries[x].filename # dir_entries[y].filename
                   /\ dir_entries[x].inode_no # dir_entries[y].inode_no

Live == {dir_entries[e].inode_no : e \in DOMAIN dir_entries}

(* Every file has a block of its own, marked used, and never the directory's. *)
FileHasBlock ==
  \A x \in Live : /\ inode_table[x].i_blocks = 1
                  /\ inode_table[x].i_block \in block_bitmap \ {0}
                  /\ \A y \in Live : inode_table[x].i_block = inode_table[y].i_block => x = y

(* No file grows past its block. *)
SizeWithinBlock == \A x \in Live : inode_table[x].i_size <= BLOCK_SIZE

(* new_inode has not failed yet: every inode number that is taken came with a block. *)
EveryInodeHasBlock == Cardinality(inode_bitmap) = Cardinality(block_bitmap)

(* Although it goes down twice per file, nr_free_inodes (odd from the start, and
   of even modulus) never reaches zero, so no create is refused on its account
   while an inode and a block are there; until new_inode fails, which makes the
   counter even. *)
NoSpuriousEnospc == EveryInodeHasBlock /\ FreeInodes # {} /\ FreeBlocks # {} => MayAllocate

(* Unless new_inode fails, inodes and blocks are lost only to a create in a full
   directory. *)
OrphansOnlyWhenDirFull ==
  EveryInodeHasBlock /\ dir_entry_count < MAX_DIR_ENTRIES => inode_bitmap = Live \cup {ROOT_INODE}

(* The VFS may lag behind the size of a file written through another VFS inode,
   but without a truncation, and where no two writes of the file have met, it
   never runs ahead of it: SEEK_END leaves no hole. *)
VfsSizeNeverAhead ==
  \A fd \in Fds : IsOpen(fd) /\ fds[fd].ino \notin met => VfsSize(fd) <= InodeOf(fd).i_size

Content(ino) == SubSeq(data_blocks[inode_table[ino].i_block], 1, inode_table[ino].i_size)

(* What a file holds changes only as a write through a descriptor of that file copies
   its bytes, or stores the size; whatever fails. *)
Isolation == [][\A n \in Names : \A e \in DOMAIN dir_entries :
   LET ino == dir_entries[e].inode_no
   IN  Named(n, e) /\ Content(ino)' # Content(ino) =>
         \/ ret'.call = "write" /\ ret'.name = n
         \/ \E fd \in Fds : fds[fd].name = n /\ At(fd, "store") /\ At(fd, "store_vfs")']_vars

(* osfs implements the flat file system.  A write that has copied its bytes counts,
   though it has still to store the size. *)
Growing(ino) == {fd \in Writers(ino) : ~At(fd, "store_vfs") /\ Grows(fd)}
End(ino) == IF Growing(ino) = {} THEN inode_table[ino].i_size
            ELSE fds[CHOOSE fd \in Growing(ino) : TRUE].pos
Held(ino) == SubSeq(data_blocks[inode_table[ino].i_block], 1, End(ino))
InodeNamed(n) == dir_entries[CHOOSE e \in DOMAIN dir_entries : Named(n, e)].inode_no
Met == {n \in Names : Exists(n) /\ InodeNamed(n) \in met}
Files == [n \in {m \in Names : Exists(m)} \ Met |-> Held(InodeNamed(n))]
Calls == [fd \in Fds |->
            IF Writing(fd) THEN [what |-> "write", name |-> fds[fd].name]
            ELSE IF At(fd, "copy")
            THEN [what |-> IF fd \in late THEN "late" ELSE "read", name |-> fds[fd].name]
            ELSE [what |-> "none", name |-> ""]]

Flat == INSTANCE FlatFS WITH Cap <- BLOCK_SIZE, out <- ret, files <- Files, muddled <- Met,
                             calls <- Calls, Clients <- Fds
FlatSpec == Flat!Spec
=============================================================================
