# Verification of the OS lab programs

TLA+ models of the programs of the 2025 operating systems lab, the TLC runs that
check them on small instances, and proofs of their safety properties for all
sizes. Source paths below are relative to the repository. `Lab4/…/x.c` stands for
`Lab4/Lab4_Template_Done/x.c`.

## The system

The repository holds independent programs; nothing links one lab to another.

| component | state | operations | what is hard |
|---|---|---|---|
| Lab1 `sender.c`, `receiver.c`: one-slot mailbox | System V objects that outlive the processes: message queue or shared segment, semaphore set `empty`/`full` | create or attach, initialise, `send`, `receive`, remove | two processes, two launch orders and a race, left-over objects, a killed process, an in-band end marker |
| Lab2 `shell.c`: pipelines (`fork_cmd_node`) | pipes, descriptor table of every process, children | make pipes, fork, dup2, close, exec, wait | who holds which pipe end when; end of file, SIGPIPE; a failing call half-way |
| Lab2 `shell.c`, `command.c`, `builtin.c`: prompt, history, splitting, redirection, built-ins | history ring, command list, the shell's own descriptors | read a line, split it, run it with descriptors redirected and put back | ring and argument array at their limits, output buffered across a redirection |
| Lab3 `1_2.c`: counter under an `xchg` spin lock | lock word, counter | lock, load, store, unlock, create, join | every interleaving of the instructions |
| Lab3 `1_1.c`, `2_2.c`, `3_1.c`: other threaded programs | counter or matrix, library spin lock | partial sums by two threads | disjoint or locked accumulation |
| Lab3 `3_2.c` and the kernel modules of `3_1`, `3_2` | one kernel buffer shared by all readers and writers of a `/proc` file | read, write | no lock around the buffer |
| Lab4 `Lab4_Template_Done`: the file system osfs | bitmaps, free counters, inode table, blocks, directory entries; VFS inodes, open files | mount, unmount, lookup, create, iterate, read, write, truncate and seek by the VFS | resources taken before a failure, wrapping counters, several copies of a size, reads and writes without a lock, limits of the one block, mounts that overlap and fail |
| Lab4 `Lab4_Template_Optimize`: extent variant | the same, with runs of blocks | the same | contiguous allocation without a lock, a directory and names without a limit |

Generated files (`*.mod.c`, `*.cmd`), prebuilt binaries, makefiles and editor
settings hold no logic of their own. `Lab3/2/2_1.c` starts one thread and waits for it.

What makes each of them correct:

- Lab1: the slot is never read while it is written; messages arrive once and in
  order; both programs end; the receiver says "Sender exit!" only when that is so.
- Lab2 pipelines: data pass whole and in order, the prompt returns from every
  pipeline that can end, no program is left behind.
- Lab2 shell: every command ends in a prompt with the shell's own descriptors back,
  output goes where the command was told, `record` lists the last lines.
- Lab3: no addition is lost, the reported total is the full one, nobody spins for
  ever.
- Lab4: counters and bitmaps agree, files do not share blocks, a read returns what
  was last written where writes do not meet, a failing call leaves other files alone; a listing has every entry
  once; a mount gives back the memory it took, and only that, unless the kernel stops it.

## Modules

| module | models |
|---|---|
| `SpinLock` | `Lab3/1/1_2/1_2.c`, one action per instruction on shared memory |
| `AtomicCounter` | what it promises: indivisible additions and a report of the total |
| `Mailbox` | `Lab1/sender.c` and `Lab1/receiver.c` with the kernel objects between them |
| `Channel` | what they promise: a channel with one slot |
| `MCMailbox` | the files that the runs send |
| `Pipeline` | `fork_cmd_node` and the processes it starts |
| `MCPipeline` | the pipelines of the run |
| `ProcFile` | `Lab3/3/3_2/3_2.c` built with two threads, and its kernel module's buffer |
| `ProcFile_proofs` | proofs about `ProcFile` |
| `Osfs`, `MCOsfs` | osfs: superblock, allocation, directory, files, and the VFS as far as its handlers see it; a run's symmetry |
| `FlatFS` | what it promises: named files, a read returns what was written, unless calls meet |
| `Osfs_proofs` | proofs about `Osfs` |
| `OsfsDir` | `osfs_iterate` beside creates |
| `OsfsExtent`, `MCOsfsExtent`, `OsfsExtent_proofs` | `Lab4_Template_Optimize`: extents; the run's names and symmetry; proofs |
| `OsfsMount` | `super.c` and `osfs_init.c` of both variants: mount, unmount, loading |
| `Shell`, `MCShell` | the loop of `shell()` with `command.c` and `builtin.c`; the lines of the run |
| `Accumulate`, `Accumulate_proofs` | `1_1.c`, `2_2.c` and `3_1.c`; proofs |
| `Mailbox_proofs`, `Pipeline_proofs`, `Shell_proofs` | proofs about `Mailbox`, `Pipeline` and `Shell` |
| `Small_proofs` | proofs about `SpinLock`, `OsfsDir` and `OsfsMount` |

Each osfs module looks at the same structures from another side: `Osfs` at allocation and
data of one mounted file system, `OsfsDir` at its directory while it is listed,
`OsfsMount` at several file systems from mount to unmount, `OsfsExtent` at the variant.
`Shell` takes a pipeline as one step whose inside is `Pipeline`.

Operators whose names tell a defect (`PEmptyUnguarded`, `TakeRunFirstBlock`, …) stand
before the definition they vary and are used by no specification. They record,
for every checked property, a mistake in the code that the property would catch.

### SpinLock

`pc[t]` is the next instruction of thread t and `eax[t]` its scratch register. The
actions `MovLock`, `Xchg`, `Jz` are `spin_lock`, `Load` and `Store` are `a = a + 1`
on a volatile, `MovUnlock` and `XchgUnlock` are `spin_unlock`; `Create`, `Join` and
`Fprintf` are `main`. `mov` and `xchg` are separate steps, since a spinner swaps its
0 into the lock word over and over while another thread owns it. The mutex of the
program is initialised and destroyed but never used, and left out.

### Mailbox

A process is at a program counter: `start` (storage), `semget`, `set0` and `set1`
(the two `SETVAL`), then `P`, the copy, `V`, and for the receiver `rmid`, `rmsem`.
The copy of shared memory mode takes two steps, one per half of the buffer, so that
an overlap shows as a message made of two. `None` is an object that does not exist.
`MayStart` is the user's order of launching: the second program when the first is set
up, or both at once (`any`). A killed process is launched again; `sem_flg` is 0, so
that its semaphore operations stay. A session ends when both processes have; the
next one inherits the objects that are left. Lines are members of a set. `fgets`
splits lines of 1024 characters or more into several messages: to the mailbox those
are more lines.

### Pipeline

`fds[p]` are the pipe ends process p has open through the inherited `pipes` array;
`stdin[p]`, `stdout[p]` what `dup2` made of its standard descriptors. `Readers(c)` and
`Writers(c)` are who holds an end of pipe c, which decides between waiting, end of
file and SIGPIPE. A loop over the pipes takes one step per round, so that a child may
run, and end, while the shell still forks. `CallFails` is `perror` and `exit` after a
failing `pipe()` or `fork()`. The programs are external: a bounded writer, an endless
one, a copier, one that stops after one item, and one that cannot be executed. The child
of the last kind leaves by `exit(1)`, which writes what it inherited in the buffer of the
shell's standard output, into its pipe if it is not the last: `leftover`, chosen in
`Init`, says whether there is anything (a prompt, when standard output is no terminal or
the shell's next line was in its input buffer already). Such a child is a source of one
item, `Stale`, or of none (`Makes`).
`fork_cmd_node` ignores `<` and `>` and does not call `spawn_proc`, although the comment
at `shell.c:104` says it does; the model follows the code.

### Shell

`pc` follows `shell()` from `read_line` (`ReadLine`, `EndOfFile`) through the choice
between built-in command, external command and pipeline (`Search`) to the prompt.
`fds` is the shell's descriptor table, `in` and `out` the copies that `dup` made, or −1,
`lost` the descriptors that were redirected while they had no copy and stay so, `buf`
what stdio still holds of standard output, `child` the process `spawn_proc` forked, with
a table and a copy of the buffer of its own. `files` is what each file holds, `want` what
the commands were told to write there; an item of output is the number of its line and
whether it ends in a newline. `terminal` decides whether the stream is line buffered; it
is chosen in `Init`. `split_line` works on words. Prompts and standard error are left out.
At the end of the file `read_line` returns a buffer nobody wrote: no words, or one that is
no command. A line with as many arguments as `args` has pointers may crash the shell
(`Overlong`), one with a redirection and no command does. A failing `open` ends the shell
itself when the command is built in. `split_line` is a fold: `Take` is one round of its
loop over the words. A file is a sequence of items: offsets, which a file truncated while
the shell has it as lost output would need, are left out. Of a pipeline `Shell` has the
output: the last program's, the flush of a last child that is not executed, and that of an
earlier one where the programs behind pass it on (`PassedOn`).

### Accumulate

`program` is chosen in `Init`; `First`, `End`, `KFirst`, `KEnd` are the loop bounds of
each thread in each program. `z[r][k]` counts how often term k was added to sum r, on top
of what `malloc` left there, since `main` never clears the matrix; one column stands for
all. An addition is a `Load` and a `Store`. `1_1.c` and `2_2.c` hold a library spin lock
over all of it (`Spin` is the waiting), `3_1.c` has disjoint rows instead, while `main`
reads the `/proc` file: `Visit` is `Myread`'s walk over the threads.

### ProcFile

The threads' program counters, `row` and `acc` are the loops over `z`; one load and one
store stand for the `+=` of a row, so that overlapping halves would lose additions.
`buf` is the kernel module's buffer, in four cells: what the greetings share, the digit
in which they differ, the rest, the `'\0'`. `Mywrite` stores and `MyreadCopy` loads one
cell per step, since nothing orders `copy_from_user` and `snprintf` of two threads; a
read stops at the first `'\0'`. `k` and `temp` are local to the call in progress.
`offset` belongs to the streams `fptr4` and `fptr5`, opened before the threads exist.
`open` for writing may fail, and the buffer may hold what an earlier run left. The
module is loaded (otherwise the streams are NULL). `z` comes from `malloc` and is never
cleared: `z[r]` counts what is added to whatever was there. The line with PID, TID and
time comes from `current`, which is the reading thread, and is left out.

### Osfs

One action per outcome of a handler: `CreateTooLong`, `CreateRefused`, `CreateNoMem`,
`CreateLeaks`, `CreateOk` are the ways out of `osfs_create`, with `TakeInode`
(`osfs_get_free_inode`) and `AllocDataBlock` inside; `LookupHit` is `osfs_lookup` with
`osfs_iget`. The VFS contributes `Open`, `Close`, `Seek`, `Truncate` and `Shrink`
(reclaim of a dentry). `create` and `lookup` run under the directory's lock and are
single steps.

`osfs_read` and `osfs_write` hold no lock of the file's, and `call[fd]` is where a call
through fd has got to. A read computes its length from `i_size` (`Read`) and then copies
(`CopyOut`, `ReadFault`). A write copies and moves the position (`Write`), compares that with
`i_size` (`Compare`), and where the file grows stores the size in the `osfs_inode` (`Store`)
and in the VFS inode (`StoreVfs`); `WriteBeyond` and `WriteFault` are its failures. Between
these steps come those of the other descriptors. Calls through one descriptor do not meet:
the kernel's `f_pos_lock` is theirs until they end. `pread` and `pwrite`, which do without
it, are left out. A read loads `i_size` once, as the build does, and a copy is one step.
Two history variables remember what met: `met` are the files in which a write began while
another was under way, `late` the reads that a write came between. `Truncate` waits for
none of them.

`FlatFS` promises what the lock-free calls can keep. A write takes effect as it starts; a
read that no write of the file comes between returns the bytes of the file; one that is
late may return anything; and of a file in which two writes have met (`muddled`) nothing
is promised any more. Under the refinement a file's contents reach to the end a writer is
about to store (`End`, `Held`).

`osfs_lookup` does not hash a dentry for a name it does not find, and `d_instantiate`
does not hash the one that `create` gets. The inode of an open creator is therefore
known to its descriptor only (`fds[fd].own`, with a size of its own), and a lookup makes
a second VFS inode (`vfs_size`). All of them point at the one `osfs_inode`.

The directory's size counts entries instead of bytes, and what block 0 holds is
`dir_entries`. `BLOCK_SIZE` is a parameter: with `osfs.h:14` commented out it is the
kernel's 1024, which makes three directory entries. Modes, owners and times are left
out. In `CreateLeaks` the branch of a failing block allocation is there for
faithfulness; the counter is exact (`FreeBlocksExact`), so it never runs.

### OsfsDir

A stream's position is what `ctx->pos` is, and after a sequence of calls the number of
items it was given: ".", "..", entries. `Getdents` is one call with a buffer of `room`
items, under the directory's shared lock; creates fall between two calls. `Seek` goes
back to where `telldir` has been. `Before` is what a stream reads that stopped after ".":
the loop's index is then −1 (`dir.c:84`), and what `dir_emit` makes of those bytes is
open. Names of the greatest length fit, since their final `'\0'` falls into the entry's
padding. The loop of the extent variant is the same.

### OsfsExtent

`data_blocks` is one array of cells that directory entries and files share; an entry takes
two, its name and its inode number. The directory has block 0 and no limit: the entry
after `MAX_DIR_ENTRIES` lands in the next extent, and a file's bytes may be taken for
names (`Garbled`) and inode numbers. `create` does not check the length of a name either:
`Reach[n]` are the cells that `strncpy` writes, and one that is too long overwrites the
number of its own entry, which `PutNumber` then puts right, and what lies behind.

`->create` runs under the directory's lock and `->write` under none, so each is cut where
they share something. The task `Creator` stands for whoever holds the directory's lock: it
takes an inode (`Create`), looks for a run (`Scan`), sets its bits one by one (`Mark`), stores
`ee_start` and `ee_len` (`StoreStart`, `StoreLen`), and puts name and number into its entry
(`PutName`, `PutNumber`). A writer tests `ee_len` (`Begin`), for a file without an extent goes
through the same `Scan` to `StoreLen`, then copies (`Write`, `WriteBeyond`, `WriteFault`),
compares and stores (`Compare`, `Store`). The scan is one step because no bit is ever
cleared: what it finds free when it passes the last occupied run is what it would find at
once then. A descriptor has one user. `osfs_create` ignores a scan that finds nothing and
leaves a file without an extent (`ee_len` 0). The inode that `create` instantiates has no
file operations, so that `open(O_CREAT)` fails on it, and its dentry is not hashed: files are
opened by `lookup`, under the directory's lock, or by the dentry that left.

Once the directory has outgrown its block, users may write any number where an entry's
inode number is. `astray` records that a file was opened by a number no create had taken:
such an inode has no extent, its first write allocates beside the directory's lock, and
a create may be handed the same run, or take the same inode. `Sound` says that it has not
come to that, or that no entry lies past the block; three of the properties are claimed
under it, and the fourth is not. `ExtentAssumption` says that all entries there can ever be
end inside the extent behind the directory: in the code 18 entries of 260 bytes, 4680 of
6 × 1024.

### OsfsMount

A superblock is used once, from `Mount` to `KillSuperblock`. `Vmalloc`, `NewInode`,
`MakeRoot` are the allocations of `osfs_fill_super`, each with its failure; those of two
mounts interleave. `allocated` are the regions between `vmalloc` and `vfree`, `s_fs_info`
is a superblock's pointer to one, right or stale, and a freed address may be the next one
returned. `i_count` counts the references to the root inode: `Lab4_Template_Done` puts it
once more after `d_make_root` did, which the mounting process may not survive (`oops`): its
superblock is never killed and keeps its region. `variant` and whether memory is `scarce`
are chosen in `Init`.

## Runs

| run | shows | bounds |
|---|---|---|
| `spinlock` | exclusion, no lost addition, refinement of `AtomicCounter` with its fairness: both threads finish, `main` prints the total | 2 threads as in the code, 4 rounds each: every pair of rounds overlaps in every way |
| `mailbox` | exclusive slot, one token, order, both ends, refinement of `Channel` | 3 lines, 3 sessions of either kind: every session after the first meets what another left |
| `mailbox_kill` | lines of the file, none repeated or reordered | 2 kills of the receiver at any step, a file with a line `exit` |
| `pipeline` | data of the last source whole and in order, a prefix of them where something stops early, no stray pipe end, the prompt returns, nobody is left | all 125 pipelines of 3 programs: a first, an inner and a last one; pipes of one item, so that every writer blocks; failing calls; a shell that forks with text in its buffer or without |
| `shell` | descriptors restored unless a `dup` failed, `record` right, on a terminal output in its place and once, every command ends in a prompt | 4 lines out of 27: each kind of command, each way a redirection can go; a ring of 2, which wraps twice; every `dup`, `open` and `fork` that can fail does |
| `proc_file` | whole greetings, never crossed, complete product, termination | the two threads, 5 rows: halves of different size; every content an earlier run leaves |
| `accumulate` | every addition is printed once, each program ends | 3 rows, 3 terms: odd, so that halves differ |
| `osfs_alloc` | bitmaps, counters, directory and block ownership agree; operations on one file leave the others alone | 3 usable names for 2 directory slots, 4 inodes and 5 blocks for files, blocks of 1 byte, counters modulo 10 that wrap; every call that can fail does, files are truncated |
| `osfs_data` | refinement of `FlatFS`, sizes | 1 file, 2 descriptors, whose calls meet in every way; block of 2 bytes, so that there is a gap before a write and a part of one; positions up to one past it |
| `osfs_dir` | a listing has every entry once and in place | 3 entries as in the code and a fourth name, 2 streams, buffers for 0, 1, 2 and 4 items |
| `osfs_extent` | extents disjoint, sizes inside them, no late extent, damage confined | 3 files, 2 runs of 2 blocks for them; blocks of 3 cells, so that the second entry lies across the end of the directory's; a name that reaches past it from the first; a creator and 2 writers, of whole extents or nothing; a written byte that is an inode number |
| `osfs_mount` | a region is left behind by an oops only, none lost unless a mount failed, root released by the variant | 3 mounts for 2 regions: an address goes from one to another |

Deadlock is checked but in three runs. In `mailbox_kill` a receiver killed between its `P`
and its `V` takes the token along and the pair stops for good. In `osfs_mount` every
superblock is used once, and all may be gone, or stopped in an oops. In `osfs_extent` the
names of all entries may be garbled and the inodes used up. `osfs_data` and `osfs_extent`
treat the two descriptors as interchangeable; they check no liveness, and no property or
action names one of them.

Fairness. `SpinLock`, `ProcFile`, `Accumulate`: weak fairness of each thread and of
`main`, since the kernel schedules every runnable thread. It suffices where threads
compete for a lock because there are two and each takes it finitely often: when one is
done the other finds the lock free. `Mailbox`: weak fairness of both programs and none of
the user, who may never start another session. `Pipeline`: weak fairness of the shell and
of every child, none of `CallFails`. `Shell`: weak fairness of the shell and of its child,
none of the user. The osfs modules state none: every handler returns on its own, and
nothing is waited for.

## What the code does not keep

Statements of the repository that the models show to be untrue. Four are
operators of the modules (`RedirectedOutput`, `OnlyEntries`, `RegionKept`, `RootReleased`); add one as an `INVARIANT` to the module's configuration, and
TLC prints the behaviour.

- `Shell!RedirectedOutput`, `shell.c:203`: "Redirect command's stdin and stdout to the
  specified file descriptor". What `echo -n x > o` prints is still in the stdio buffer
  when standard output is put back, and goes where the shell's own goes. Where that is
  no terminal, so does all output of built-in commands.
- `shell.c:205`: "recover shell stdin and stdout". The shell goes on after a failing `dup`
  (`shell.c:201`): the `dup2` from −1 fails too, and a descriptor that was redirected stays
  redirected for good (`lost`). `DescriptorsRestored` says that nothing else is lost.
- `shell.c:103`: "Use "pipe()" to create a communication bridge between processes". What a
  command reads need not be what a command wrote: when the one before it cannot be executed
  it is the shell's own unwritten output (`shell.c:160`, `Stale`), for every such command
  once more. `Delivered` says that it is never mixed with other data.
- `OsfsDir!OnlyEntries`, `dir.c:84`: a reader whose buffer has room for "." alone comes
  back at position 1, never gets ".." and reads the entry at index −1.
- `OsfsMount!RegionKept`, `super.c:86`: a failing `osfs_fill_super` frees the region and
  leaves `s_fs_info`, and `osfs_kill_superblock` frees it again; by then it may belong to
  another mount.
- `OsfsMount!RootReleased`: `osfs_kill_superblock` of `Lab4_Template_Done` never shuts the
  superblock down, so that root dentry and inode stay. On a failing `d_make_root` the inode
  is put twice (`super.c:124`); where the kernel stops that process with an oops, the region
  is never freed either and the module stays loaded. `LeaksOnlyByOops` says that this is the
  only way to lose one.
- `nr_free_inodes` drops twice per file, in `osfs_get_free_inode` (`inode.c:40`) and in
  `osfs_new_inode` (`dir.c:194`). Starting odd at 19 it steps over zero and wraps
  (`NoSpuriousEnospc`); a failing `new_inode` makes it even, and it may then refuse creates
  that could succeed.
- A create in a full directory fails with inodes and blocks free and keeps one of each
  (`CreateLeaks`). A truncation never reaches `osfs_inode.i_size`: a read after `O_TRUNC`
  returns the old bytes. `osfs_iget`, said to create or retrieve an inode, always creates
  one. An inode's memory is not freed, since `destroy_inode` is set without `free_inode`.
- Two writes of one file that overlap (`file.c:93`, `file.c:43` of the extent variant): both compare before
  either stores, and the one with the smaller position may store last. `i_size` shrinks,
  bytes that a write has acknowledged are no longer read, and in `Lab4_Template_Done` a VFS
  inode is left with a size ahead of the file's. Without `met` in them `VfsSizeNeverAhead`
  and `FlatSpec` would be false. A read that overlaps a write may mix old and new, or find
  the size before and the bytes after. In the extent variant, after a write beyond the end,
  the gap shows what the block held before.
- The extent variant does not check its directory against its block although `osfs.h:18`
  defines `MAX_DIR_ENTRIES`, nor a name against `MAX_FILENAME_LEN` (`dir.c:53`, which
  `Lab4_Template_Done` does at `dir.c:266`); `DamageConfined` says how far either reaches.
  Once a damaged entry has led somewhere (`astray`), the same run of blocks may be handed to
  two files. Its `new_inode` is not checked (`dir.c:33`). The comment at `dir.c:44` speaks of
  one block where the code asks for five.
- The end marker of the mailbox is a line like any other: a file with a line `exit` makes
  the receiver say "Sender exit!" while the sender runs. Both programs launched at once
  (`Orders` with "any"): the receiver's late `SETVAL` lets the sender pass `P(empty)` on a
  full slot.
- The tenth argument of a command leaves `args` without a final NULL, and the eleventh
  is written past it (`command.c:82`).

## Proofs

Every theorem is for all values of the constants that meet the named assumptions.

`Small_proofs`, about `SpinLock`: `TypeCorrect`, `Exclusion`, `LockWord`, `NoLost`,
`Answer`, and `Refinement`, which maps every step of the program to a step or a stutter of
`AtomicCounter`. Mutual exclusion is not inductive: a thread at `jz` has decided the race
already and only its register knows. `Holds(t)` names that state, and the invariant says
that the lock word is free exactly when nobody holds, that at most one thread does, what
each register contains (0 before a swap, the counter's value before a store) and that the
counter equals the additions made.

About `OsfsDir`: `Listing`. A stream's position counts the items it was given, and an
entry never moves: whatever is created meanwhile comes behind.

About `OsfsMount`, for any number of mounts and regions: `LeaksByOopsOnly`, `RegionsKept`,
`RootsReleased`. Every allocated region is at the address some superblock still has, and
a superblock has none before its `vmalloc` and none after its kill; the module stays as
long as one is under way. A superblock that is not killed any more is in an oops, which
takes Lab4_Template_Done and a failing allocation. That accounts for every region even if mounts fail, as an
address kept too long does no harm to this count. What failures do break is that an
address belongs to one superblock (`Own`), which therefore is claimed only where memory is
not `scarce`.

`Mailbox_proofs`: `Exclusive`, `Token`, `Ordered`, and `Refinement` of the safety part of
`Channel`, for any file and any number of sessions. They hold under `Assumed`: nobody is
killed, the programs are not launched at once, no line of the file is the end marker. The
invariant accounts for the token: from the sender's initialisation on, `empty`, `full` and
the process between its `P` and its `V` have one together, and which of them has it says
whether the slot holds the sender's last line. Across sessions it says that the `full`
of a set that is left over is 0, so that the receiver waits until the sender has sent.

`Subsequence` drops two of these assumptions: under `ReceiverKilled` the receiver may be
killed in any step, any number of times, and lines may read `exit`; the sender is set up
first. The token may then be lost, with the receiver that had it, but never doubled
(`AtMostOneToken`). What has been received are lines of the file at increasing positions, and
while a message is under way its position comes after all of them (`Indices`).

`Pipeline_proofs`, for a pipeline of any length: `TypeCorrect`, `NoStray`, `Neighbours`.
How far a process has come in its loop says exactly which ends it holds; of that the two
properties are consequences, but only together with what the shell has not yet closed.
`AllDelivered` is about a source, a bounded writer or a command that cannot be executed, and
programs behind it that forward, whatever is in front of it, for any number of items and
pipes of any size. There are counts w[p] of the items each program has written such that what
a program holds and what is in the pipe before it are the source's items after w[p] (`Flow`).
That alone makes the output a prefix, whatever stops. For the whole of it, where all programs
copy, that a program has ended means that it has written all there is and so has the one
before it (`Ended`): by `Neighbours` a copy sees end of file only when the writer is gone, and
SIGPIPE would need a reader that is gone, hence a writer that is.

`Shell_proofs`, for any lines, any number of them, programs, files and a ring of any size:
`OwnDescriptors`, `LatestRecorded`, `InPlace`, `NeverTwice`. What the descriptor table
holds is known at every step (`Table`), for the child too, up to the descriptors that are
`lost`; without standard output only the place of the output is unknown, not its order or
that it comes once (`Placed`). A ring slot holds the last line
that was stored there, which is line c at (c - 1) % MAX_RECORD_NUM for every c that is not
overwritten (`Ring`); what `record` prints follows with a lemma on remainders. The two
properties of the output rest on the buffer of standard output: on a terminal it holds one
item at most, of an `echo -n`, and only until the next line is read (`Buffered`). So no child
inherits an item, and a command that is about to print finds nothing of its own line in any
file (`Ahead`).

`ProcFile_proofs`, for every number of rows: `TypeCorrect`, `Product`, `Whole`,
`NotCrossed`. The matrix part says that a row has been added once exactly if one of the
threads has left it behind. The buffer part rests on what all greetings have in common:
a cell once written is never blank again, so that a thread that has finished its own
write reads up to the last cell. The digit left in the buffer is that of a thread that
wrote in this run, and since each writes once and reads afterwards, that thread can only
have met its own: this is the strengthening `OwnDigit` and `LastDigit` state.

`Accumulate_proofs`: `Sum`, in the three programs alike. The loop variables of a thread
say which additions it has made (`Did`), and a sum has one for every thread that made it.
Between load and store the value loaded must still be there: where there is a lock, since
only its owner is in the loops, and in `3_1.c` since the other thread is in other rows.

`Osfs_proofs`, for all sizes of the file system, any number of descriptors, with and
without failures: `TypeCorrect`, `FreeBlocksExact`, `Directory`, `OwnBlock`,
`WithinBlock`. They share one inductive invariant: besides the properties themselves it
says that inode 1 and block 0 stay reserved and that open descriptors name files of
the directory. That a new file gets a block nobody has follows from every live file's
block being marked; that the entries' inode numbers differ from their being marked
too. The others need more:

- `NoFalseAlarm` needs `Parity`, and INODE_COUNT even (20 in the code): no more blocks are
  taken than inode numbers, and as long as the two are as many, `nr_free_inodes` is odd,
  as it starts odd, drops by two, and wraps at an even modulus.
- `OnlyFullLeaks` counts too: as `nr_free_blocks` is exact, the branch of a failing block
  allocation never runs; and as blocks never outnumber inode numbers, a number that a failing
  `new_inode` took without a block stays on record.
- `NoHole` says that no size in the VFS is ahead of the file's own. Until two writes of a
  file have met, a writer is alone with it and what it found out about the size stays true
  (`Turns`). A VFS inode copies the size when `lookup` makes it, files only grow, and a free
  inode number has no hashed VFS inode with an old size (`Lags`). It assumes that nobody
  truncates, since a truncation changes only the VFS's size.
- `FilesIsolated`: a step that changes what a file holds is a write by that file's name, or
  its store of the size. A descriptor keeps the name and the inode of one directory entry
  (`FdsNamed`), and two files have different blocks.
- `FlatRefinement`: every step of osfs is a step or a stutter of `FlatFS`, in which there are
  no inodes, blocks or caches. For a new file to be empty, and a gap before a write to read
  as zeros, free blocks and the rest of a file's block must hold zeros (`ZeroTail`), up to
  the end that is still to be stored; by `Turns` there is one such end at most. A read that
  is not late copies as much as the file still has (`Timely`). A write that faults half-way
  leaves bytes behind the file's end, so it assumes that user memory is mapped.

`OsfsExtent_proofs`: `TypeCorrect`, `Disjoint`, `WithinExtents`, `NeverAnExtent`,
`Confined`, for names of any length. Between a scan and its `set_bit`s nothing locks the
bitmap, and `Disjoint` rests on who can be there at all. An inode that a create has finished
either has an extent, which no step changes again, or was left without one because no run was
free, and then none ever is (`Extentless`). While nobody has gone astray every open inode is
one of those, so that no writer's scan finds anything (`Waiting`) and the create that holds
the directory's lock allocates alone (`Allocating`). Going astray takes an entry past the
directory's block, as the numbers of all others lie in block 0, where no writer writes
(`EntriesOwn`). `Confined` needs besides that inode numbers are taken in order, that there are
no more entries than inodes and that the first extent begins at block 1 (`Aligned`): so an
entry past the directory's block lies in that one.

Assumptions are those the modules name: `NAssumption` and `RowsAssumption` (natural
numbers), `AccumulateAssumption` (at least one row), `MailboxAssumption`,
`PipelineAssumption`, `OsfsAssumption` (sizes are naturals, at least two inodes and one
block, the counters' modulus is even and exceeds the number of inodes), `DirAssumption`,
`ExtentAssumption` (see the module), `MountAssumption` (no region is at address 0) and
`ShellAssumption` (a ring of one line at least; programs are no built-in commands and do not
have the name that stands for the unwritten line; no file is called like the standard output;
a line the user types is not empty: `Blank` stands for those).

Only model-checked: liveness (`Termination` of `ProcFile` and `Accumulate`, `SessionEnds`,
`ShellReturns`, `NobodyLeft`, `PromptAgain`) and the fairness parts of the refinements of
`AtomicCounter` and `Channel`, which are out of the prover's reach. Every safety property
and action property of the runs is a theorem.

## Not modelled

- `2_1.c`, one thread while `main` waits; `3_2.c` built with one thread, where `main` joins
  a thread it never created; reading the input matrices, and the values of products and
  sums.
- Formatting, PIDs, times; loading and unloading of the `/proc` modules.
- The working directory `cd` changes; the two `test_` functions, which nobody calls.
- Lines of 1024 characters or more: to the mailbox they are more lines. A sender that is
  killed and launched again, and clears what the receiver waits for (`sender.c:128`).
- Seeks past the directory's end; failing allocations of VFS inodes in the extent variant,
  where `create` would follow a null pointer; modes, owners and times of inodes.
- Generated files, build scripts, editor settings.

## What is left to do

A sender that is killed, with a statement of what the receiver may then rely on.
