----------------------------- MODULE OsfsMount -----------------------------
(***************************************************************************)
(* Lab4, super.c and osfs_init.c of both variants: superblocks from mount  *)
(* to unmount and the memory region each gets from vmalloc().  Several     *)
(* users mount at once, and nothing orders one osfs_fill_super with        *)
(* another: its allocations are steps of their own.  An address that was   *)
(* freed may be the next that vmalloc() returns.  When a mount fails, the  *)
(* kernel calls ->kill_sb as it does for an unmount.                       *)
(*                                                                         *)
(* What the region holds after the mount is module Osfs, or OsfsExtent.    *)
(***************************************************************************)
EXTENDS Integers

CONSTANTS Superblocks,                     \* one for each mount(2)
          Regions                          \* addresses vmalloc may return

NULL == "NULL"
ASSUME MountAssumption == NULL \notin Regions

VARIABLES
  variant,                                 \* "Done" or "Optimize"
  scarce,                                  \* may new_inode and d_make_root fail
  registered,                              \* the module is loaded
  allocated,                               \* regions between vmalloc and vfree
  sb                                       \* per superblock: next step, s_fs_info, has it
                                           \* an s_root, references to the root inode

kernel == <<variant, scarce>>
mountVars == <<variant, scarce, registered, allocated, sb>>

Fresh == [pc |-> "new", s_fs_info |-> NULL, s_root |-> FALSE, i_count |-> 0]

MountInit == /\ variant \in {"Done", "Optimize"}
             /\ scarce \in BOOLEAN
             /\ registered = FALSE
             /\ allocated = {}
             /\ sb = [s \in Superblocks |-> Fresh]

(* osfs_init, and osfs_exit: the kernel unloads no module that is in use. *)
Register == /\ ~registered /\ registered' = TRUE
            /\ UNCHANGED <<kernel, allocated, sb>>
Unregister == /\ registered /\ registered' = FALSE
              /\ \A s \in Superblocks : sb[s].pc \in {"new", "gone"}
              /\ UNCHANGED <<kernel, allocated, sb>>
-----------------------------------------------------------------------------
At(s, step) == sb[s].pc = step
Proceed(s, step) == sb' = [sb EXCEPT ![s].pc = step]
vfree(r) == allocated' = allocated \ {r}

(* osfs_mount: mount_nodev makes a superblock and calls osfs_fill_super. *)
Mount(s) == /\ registered /\ At(s, "new")
            /\ Proceed(s, "vmalloc")
            /\ UNCHANGED <<kernel, registered, allocated>>

Vmalloc(s) == \E r \in Regions \ allocated :
  /\ At(s, "vmalloc")
  /\ allocated' = allocated \cup {r}
  /\ sb' = [sb EXCEPT ![s].pc = "new_inode", ![s].s_fs_info = r]
  /\ UNCHANGED <<kernel, registered>>
VmallocFails(s) == /\ At(s, "vmalloc")
                   /\ Proceed(s, "kill")
                   /\ UNCHANGED <<kernel, registered, allocated>>

NewInode(s) == /\ At(s, "new_inode")
               /\ sb' = [sb EXCEPT ![s].pc = "make_root", ![s].i_count = 1]
               /\ UNCHANGED <<kernel, registered, allocated>>
(* s_fs_info goes on pointing at the region. *)
NewInodeFails(s) == /\ scarce /\ At(s, "new_inode")
                    /\ vfree(sb[s].s_fs_info)
                    /\ Proceed(s, "kill")
                    /\ UNCHANGED <<kernel, registered>>

MakeRootUnchecked(s) == /\ At(s, "make_root")
                        /\ vfree(sb[s].s_fs_info)
                        /\ sb' = [sb EXCEPT ![s].pc = "mounted", ![s].s_root = TRUE]
                        /\ UNCHANGED <<kernel, registered>>
MakeRoot(s) == /\ At(s, "make_root")
               /\ sb' = [sb EXCEPT ![s].pc = "mounted", ![s].s_root = TRUE]
               /\ UNCHANGED <<kernel, registered, allocated>>
(* A failing d_make_root has put the inode; Lab4_Template_Done puts it again, which
   the kernel may notice and stop for good, or not. *)
PutsOnFailureBoth == 2
PutsOnFailure == IF variant = "Done" THEN 2 ELSE 1
MakeRootFails(s) ==
  /\ scarce /\ At(s, "make_root")
  /\ \/ /\ vfree(sb[s].s_fs_info)
        /\ sb' = [sb EXCEPT ![s].pc = "kill", ![s].i_count = @ - PutsOnFailure]
     \/ /\ PutsOnFailure > 1
        /\ sb' = [sb EXCEPT ![s].pc = "oops", ![s].i_count = @ - PutsOnFailure]
        /\ UNCHANGED allocated
  /\ UNCHANGED <<kernel, registered>>

(* umount(2) of a file system nobody uses *)
Umount(s) == /\ At(s, "mounted")
             /\ Proceed(s, "kill")
             /\ UNCHANGED <<kernel, registered, allocated>>

(* osfs_kill_superblock.  That of Lab4_Template_Optimize ends in kill_litter_super,
   which drops the root dentry and with it the inode. *)
ShutDown(b) == IF variant = "Optimize" /\ b.s_root
               THEN [b EXCEPT !.s_root = FALSE, !.i_count = @ - 1] ELSE b
KillWithoutVfree(s) ==
  /\ At(s, "kill")
  /\ sb' = [sb EXCEPT ![s] = ShutDown([@ EXCEPT !.pc = "gone", !.s_fs_info = NULL])]
  /\ UNCHANGED <<kernel, registered, allocated>>
KillSuperblock(s) ==
  /\ At(s, "kill")
  /\ vfree(sb[s].s_fs_info)
  /\ sb' = [sb EXCEPT ![s] = ShutDown([@ EXCEPT !.pc = "gone", !.s_fs_info = NULL])]
  /\ UNCHANGED <<kernel, registered>>

MountNext == \/ Register \/ Unregister
             \/ \E s \in Superblocks :
                  \/ Mount(s) \/ Vmalloc(s) \/ VmallocFails(s) \/ NewInode(s) \/ NewInodeFails(s)
                  \/ MakeRoot(s) \/ MakeRootFails(s) \/ Umount(s) \/ KillSuperblock(s)

MountSpec == MountInit /\ [][MountNext]_mountVars
-----------------------------------------------------------------------------
(* The steps of a superblock that has a region, before the one that frees it *)
WillFree(s) == sb[s].pc \in {"new_inode", "make_root", "mounted", "kill"}
Held(r) == \E s \in Superblocks : sb[s].s_fs_info = r /\ WillFree(s)

(* Whatever fails, and whoever frees what: an allocated region has a superblock whose
   own step will free it, or one that stopped for good in the second iput of a failing
   mount, which keeps its region.  The latter takes Lab4_Template_Done and a failing
   d_make_root; the module can then not be unloaded, and one that is leaves no memory
   behind. *)
LeaksOnlyByOops ==
  /\ \A r \in allocated : \/ Held(r)
                          \/ \E s \in Superblocks : sb[s].s_fs_info = r /\ At(s, "oops")
  /\ variant = "Optimize" \/ ~scarce => \A r \in allocated : Held(r)
  /\ ~registered => allocated = {}

Uses(s) == sb[s].pc \in {"new_inode", "make_root", "mounted"}

(* "Cleans up and releases the superblock of the filesystem", its own: while a file
   system is mounted or being mounted, nobody frees its region or gets it too.  It is
   not so: when NewInodeFails has freed a region, another mount may have it by the time
   KillSuperblock frees it again. *)
RegionKept ==
  \A s \in Superblocks : Uses(s) =>
    /\ sb[s].s_fs_info \in allocated
    /\ \A u \in Superblocks \ {s} : Uses(u) => sb[u].s_fs_info # sb[s].s_fs_info

(* It takes a mount that fails after its vmalloc() to put another one at risk: as long
   as none does, every file system keeps its region, however mounts overlap. *)
RegionKeptUnlessScarce == scarce \/ RegionKept

(* "Cleans up and releases": a superblock that is gone has let go of its root.  In
   Lab4_Template_Done it has not. *)
RootReleased == \A s \in Superblocks : At(s, "gone") => ~sb[s].s_root

(* In Lab4_Template_Optimize that is so, and the root inode is put as often as it was
   taken, after failing mounts too. *)
OptimizeReleasesRoot ==
  variant = "Optimize" => RootReleased /\ \A s \in Superblocks :
                                            At(s, "gone") => sb[s].i_count = 0
=============================================================================
