------------------------------ MODULE OsfsDir ------------------------------
(***************************************************************************)
(* Lab4_Template_Done, dir.c: the root directory as those see it who list  *)
(* it while others create files.  create() holds the directory's lock and  *)
(* osfs_iterate a shared one, so that a getdents() is one step; but a      *)
(* listing takes as many of them as the reader's buffer is small.          *)
(*                                                                         *)
(* Position 0 of a stream is ".", 1 is "..", 2 is the first entry.  Where  *)
(* inodes and blocks come from is module Osfs.                             *)
(***************************************************************************)
EXTENDS Naturals, Sequences

CONSTANTS Names, MAX_DIR_ENTRIES,
          Streams,                 \* open directories
          Rooms                    \* entries that fit a reader's buffer

ASSUME DirAssumption == MAX_DIR_ENTRIES \in Nat /\ Rooms \subseteq Nat

VARIABLES dir_entries,             \* the names in block 0
          pos,                     \* ctx->pos of each stream
          listed                   \* what each got on its way from 0 to pos

dirVars == <<dir_entries, pos, listed>>

Before == ""                       \* the bytes in front of block 0, read as an entry

DirInit == /\ dir_entries = <<>>
           /\ pos = [s \in Streams |-> 0]
           /\ listed = [s \in Streams |-> <<>>]
-----------------------------------------------------------------------------
(* osfs_add_dir_entry *)
AddDirEntry(n) ==
  /\ \A e \in DOMAIN dir_entries : dir_entries[e] # n
  /\ Len(dir_entries) < MAX_DIR_ENTRIES
  /\ dir_entries' = Append(dir_entries, n)
  /\ UNCHANGED <<pos, listed>>

(* osfs_iterate.  A stream that stopped after "." does not come to "..": the index
   of what it reads next is -1. *)
ItemFromFirst(s, q) == CASE q = 0 -> "."
                         [] q = 1 -> IF pos[s] = 0 THEN ".." ELSE Before
                         [] OTHER -> dir_entries[IF pos[s] < 2 THEN q - 1 ELSE q - pos[s] + 1]
Item(s, q) == CASE q = 0 -> "."
                [] q = 1 -> IF pos[s] = 0 THEN ".." ELSE Before
                [] OTHER -> dir_entries[q - 1]

(* dir_emit refuses what does not fit the buffer, and may refuse what is no name. *)
Last(s, room) == LET end == Len(dir_entries) + 2
                 IN  IF pos[s] + room <= end THEN pos[s] + room ELSE end
Getdents(s, room) ==
  \E last \in {Last(s, room)} \cup (IF pos[s] = 1 THEN {1} ELSE {}) :
    /\ pos' = [pos EXCEPT ![s] = last]
    /\ listed' = [listed EXCEPT ![s] =
                    @ \o [j \in 1 .. last - pos[s] |-> Item(s, pos[s] + j - 1)]]
    /\ UNCHANGED dir_entries

(* generic_file_llseek to where telldir() has been: rewinddir() and seekdir() *)
Seek(s, p) == /\ p < pos[s]
              /\ pos' = [pos EXCEPT ![s] = p]
              /\ listed' = [listed EXCEPT ![s] = SubSeq(@, 1, p)]
              /\ UNCHANGED dir_entries

DirNext == \/ \E n \in Names : AddDirEntry(n)
           \/ \E s \in Streams : \/ \E room \in Rooms : Getdents(s, room)
                                 \/ \E p \in 0 .. MAX_DIR_ENTRIES + 1 : Seek(s, p)

DirSpec == DirInit /\ [][DirNext]_dirVars
-----------------------------------------------------------------------------
(* A listing has every entry once and in its place, however many calls it took,
   from where it was taken up again, and whatever was created meanwhile. *)
ListedOnce ==
  \A s \in Streams : /\ Len(listed[s]) = pos[s] /\ pos[s] <= Len(dir_entries) + 2
                     /\ \A q \in 2 .. pos[s] - 1 : listed[s][q + 1] = dir_entries[q - 1]

(* "Iterates over the entries in a directory": what a listing has is in it.  It is not
   so for a buffer with room for one entry: the second call reads the index -1. *)
OnlyEntries ==
  \A s \in Streams : \A j \in DOMAIN listed[s] :
    listed[s][j] \in {".", ".."} \cup {dir_entries[e] : e \in DOMAIN dir_entries}
=============================================================================
