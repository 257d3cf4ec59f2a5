---------------------------- MODULE Small_proofs ----------------------------
(***************************************************************************)
(* Theorems about the three modules whose proofs are short, one after the  *)
(* other: the spin lock of Lab3 (SpinLock), the listings of a directory    *)
(* (OsfsDir) and the mounts (OsfsMount) of Lab4.  The modules share no     *)
(* name, and no proof of one uses another.                                 *)
(***************************************************************************)
EXTENDS SpinLock, OsfsDir, OsfsMount, SequenceTheorems, TLAPS

(***************************************************************************)
(* SpinLock, for every N.  TypeOK and the properties of the runs are not   *)
(* inductive by themselves: IInv adds what the registers hold between two  *)
(* instructions, who owns the lock word, and what main knows after each    *)
(* pthread_join.                                                           *)
(***************************************************************************)

(* At most one thread owns the lock, from its winning xchg to its releasing
   one. *)
OneOwner == \A s, t \in Threads : Holds(s) /\ Holds(t) => s = t

(* What the scratch register holds between the instructions that use it. *)
RegOK == \A t \in Threads :
           /\ pc[t] = "xchg"  => eax[t] = LOCK
           /\ pc[t] = "jz"    => eax[t] \in {LOCK, UNLOCK}
           /\ pc[t] = "store" => eax[t] = a
           /\ pc[t] = "uxchg" => eax[t] = UNLOCK

(* Where a thread stands in its loop. *)
LoopOK == \A t \in Threads :
            /\ pc[t] = "new" => i[t] = 0
            /\ pc[t] = "done" => i[t] = N
            /\ pc[t] \notin {"new", "for", "done"} => i[t] < N

(* What main knows of the threads at each of its calls. *)
MainOK == /\ mainpc = "create1" => pc[1] = "new"
          /\ mainpc \in {"create1", "create2"} => pc[2] = "new"
          /\ mainpc \in {"join2", "fprintf", "exit"} => pc[1] = "done"
          /\ mainpc \in {"fprintf", "exit"} => pc[2] = "done"
          /\ IF mainpc = "exit" THEN printed = a ELSE printed = None

IInv == /\ TypeOK
        /\ OneOwner
        /\ LockWordTracksOwner
        /\ RegOK
        /\ LoopOK
        /\ NoLostUpdate
        /\ MainOK
-----------------------------------------------------------------------------
(* The invariant holds before main creates the first thread. *)
LEMMA InitIInv == Init => IInv
  BY NAssumption DEF Init, IInv, TypeOK, OneOwner, LockWordTracksOwner, RegOK,
     LoopOK, NoLostUpdate, MainOK, Holds, Added, Threads, LOCK, UNLOCK, None,
     ThreadPC, MainPC

(* Every instruction of a thread preserves the invariant. *)
LEMMA ThreadIInv == ASSUME IInv, NEW t \in Threads, Thread(t) PROVE IInv'
<1> USE NAssumption DEF IInv, TypeOK, OneOwner, LockWordTracksOwner, RegOK,
     LoopOK, NoLostUpdate, MainOK, Holds, Added, Threads, LOCK, UNLOCK, None,
     ThreadPC, MainPC, Goto, SetEax, mainVars
<1>1. CASE ForTest(t)
  BY <1>1 DEF Thread, ForTest
<1>2. CASE MovLock(t)
  BY <1>2 DEF Thread, MovLock
<1>3. CASE Xchg(t)
  BY <1>3 DEF Thread, Xchg
<1>4. CASE Jz(t)
  BY <1>4 DEF Thread, Jz
<1>5. CASE Load(t)
  BY <1>5 DEF Thread, Load
<1>6. CASE Store(t)
  BY <1>6 DEF Thread, Store
<1>7. CASE MovUnlock(t)
  BY <1>7 DEF Thread, MovUnlock
<1>8. CASE XchgUnlock(t)
  BY <1>8 DEF Thread, XchgUnlock
<1> QED
  BY <1>1, <1>2, <1>3, <1>4, <1>5, <1>6, <1>7, <1>8 DEF Thread

(* Every call of main preserves the invariant. *)
LEMMA MainIInv == ASSUME IInv, Main PROVE IInv'
<1> USE NAssumption DEF IInv, TypeOK, OneOwner, LockWordTracksOwner, RegOK,
     LoopOK, NoLostUpdate, MainOK, Holds, Added, Threads, LOCK, UNLOCK, None,
     ThreadPC, MainPC, MainGoto, threadVars
<1>1. CASE Create(1)
  BY <1>1 DEF Create
<1>2. CASE Create(2)
  BY <1>2 DEF Create
<1>3. CASE Join(1)
  BY <1>3 DEF Join
<1>4. CASE Join(2)
  BY <1>4 DEF Join
<1>5. CASE Fprintf
  BY <1>5 DEF Fprintf
<1> QED
  BY <1>1, <1>2, <1>3, <1>4, <1>5 DEF Main

(* A step that changes no variable preserves the invariant. *)
LEMMA StutterIInv == ASSUME IInv, UNCHANGED vars PROVE IInv'
  BY DEF vars, IInv, TypeOK, OneOwner, LockWordTracksOwner, RegOK, LoopOK,
     NoLostUpdate, MainOK, Holds, Added

(* IInv is an invariant of the program. *)
THEOREM Invariance == SafetySpec => []IInv
<1>1. IInv /\ [Next]_vars => IInv'
  BY ThreadIInv, MainIInv, StutterIInv DEF Next, Terminated
<1> QED
  BY InitIInv, <1>1, PTL DEF SafetySpec

(* The registers, counters and program counters keep their ranges; in
   particular a never passes 2 * N and no thread runs a further iteration. *)
THEOREM TypeCorrect == SafetySpec => []TypeOK
<1>1. IInv => TypeOK
  BY DEF IInv
<1> QED
  BY Invariance, <1>1, PTL

(* The xchg loop is a lock: never two threads between spin_lock and the release. *)
THEOREM Exclusion == SafetySpec => []MutualExclusion
<1>1. IInv => MutualExclusion
  BY DEF IInv, OneOwner, MutualExclusion, Holds, InCritical
<1> QED
  BY Invariance, <1>1, PTL

(* The lock word tells whether the lock is owned: no release is lost and no
   spinner frees the lock of another thread. *)
THEOREM LockWord == SafetySpec => []LockWordTracksOwner
<1>1. IInv => LockWordTracksOwner
  BY DEF IInv
<1> QED
  BY Invariance, <1>1, PTL

(* No increment of a is lost to the interleaving of the two threads. *)
THEOREM NoLost == SafetySpec => []NoLostUpdate
<1>1. IInv => NoLostUpdate
  BY DEF IInv
<1> QED
  BY Invariance, <1>1, PTL

(* What main prints is 2 * N, for every N: with N = 10000 the 20000 of
   1_ans.txt. *)
THEOREM Answer == SafetySpec => []AnswerIsTotal
<1>1. IInv => AnswerIsTotal
  BY NAssumption DEF IInv, MainOK, LoopOK, NoLostUpdate, AnswerIsTotal, Added,
     Threads, TypeOK, None
<1> QED
  BY Invariance, <1>1, PTL
-----------------------------------------------------------------------------
(* The initial state is one of the abstract counter. *)
LEMMA RefineInit == Init => AC!Init
  BY NAssumption DEF Init, AC!Init, AC!NotReported, None, Added, Threads

(* A Store is an abstract Increment, Fprintf is the Report, and every other
   step leaves the abstract counter alone. *)
LEMMA RefineStep == ASSUME IInv, [Next]_vars PROVE [AC!Next]_(AC!avars)
<1> USE NAssumption DEF Threads, AC!avars
<1>1. ASSUME NEW t \in Threads, Store(t), UNCHANGED mainVars
      PROVE  AC!Increment(t)
  <2>1. /\ pc[t] = "store" /\ pc' = [pc EXCEPT ![t] = "umov"]
        /\ a' = a + 1 /\ UNCHANGED <<i, printed>>
    BY <1>1 DEF Store, Goto, mainVars, IInv, RegOK
  <2>2. i[t] \in 0 .. N /\ i[t] < N
    BY <2>1 DEF IInv, TypeOK, LoopOK
  <2> DEFINE left == [s \in Threads |-> N - Added(s)]
  <2>3. left[t] > 0
    BY <2>1, <2>2 DEF Added
  <2>4. left' = [left EXCEPT ![t] = @ - 1]
    <3>1. \A s \in Threads : left'[s] = IF s = t THEN left[s] - 1 ELSE left[s]
      BY <2>1, <2>2 DEF IInv, TypeOK, Added
    <3> QED
      BY <3>1
  <2> QED
    BY <2>1, <2>3, <2>4 DEF AC!Increment
<1>2. CASE Fprintf
  <2>1. \A t \in Threads : Added(t) = N
    BY <1>2 DEF Fprintf, MainGoto, IInv, MainOK, LoopOK, Added
  <2>2. AC!Report
    BY <1>2, <2>1 DEF Fprintf, MainGoto, IInv, MainOK, TypeOK, AC!Report,
       AC!NotReported, Added, threadVars, None
  <2> QED
    BY <2>2 DEF AC!Next
<1>3. ASSUME NEW t \in Threads, Thread(t), ~Store(t) PROVE UNCHANGED AC!avars
  BY <1>3 DEF Thread, ForTest, MovLock, Xchg, Jz, Load, MovUnlock, XchgUnlock,
     Goto, SetEax, mainVars, IInv, TypeOK, Added, ThreadPC
<1>4. ASSUME NEW t \in Threads, Create(t) \/ Join(t) PROVE UNCHANGED AC!avars
  BY <1>4 DEF Create, Join, MainGoto, threadVars, IInv, TypeOK, MainOK, Added,
     ThreadPC
<1>5. CASE UNCHANGED vars
  BY <1>5 DEF vars, Added
<1> QED
  BY <1>1, <1>2, <1>3, <1>4, <1>5 DEF Next, Main, Thread, Terminated, AC!Next

(* The spin-locked program implements the counter with indivisible additions. *)
THEOREM Refinement == SafetySpec => CounterSafety
<1>1. IInv /\ [Next]_vars => [AC!Next]_(AC!avars)
  BY RefineStep
<1> QED
  BY RefineInit, <1>1, Invariance, PTL DEF SafetySpec, CounterSafety, AC!SafetySpec
-----------------------------------------------------------------------------
(***************************************************************************)
(* OsfsDir, for any number of names, entries and readers, and buffers of   *)
(* any size. A stream's position is the number of items it has been given, *)
(* whatever stopped the last call, and an entry never moves: these two     *)
(* facts carry a listing from one call to the next.                        *)
(***************************************************************************)

DirItems == Names \cup {".", "..", Before}

DirTypeOK == /\ dir_entries \in Seq(Names)
             /\ pos \in [Streams -> Nat]
             /\ listed \in [Streams -> Seq(DirItems)]

DirInv == DirTypeOK /\ ListedOnce

LEMMA InitDir == DirInit => DirInv
<1>1. ASSUME DirInit PROVE DirInv
  <2>1. /\ dir_entries = <<>> /\ pos = [s \in Streams |-> 0]
        /\ listed = [s \in Streams |-> <<>>]
    BY <1>1 DEF DirInit
  <2>2. /\ dir_entries \in Seq(Names) /\ Len(dir_entries) = 0
        /\ \A s \in Streams : /\ listed[s] \in Seq(DirItems) /\ Len(listed[s]) = 0
                              /\ pos[s] = 0
    BY <2>1, EmptySeq
  <2>3. DirTypeOK
    BY <2>1, <2>2 DEF DirTypeOK
  <2>4. ListedOnce
    BY <2>2 DEF ListedOnce
  <2> QED
    BY <2>3, <2>4 DEF DirInv
<1> QED
  BY <1>1

(* A new entry goes behind those there are. *)
LEMMA AddKeeps ==
  ASSUME DirInv, NEW n \in Names, AddDirEntry(n)
  PROVE  DirInv'
<1>1. /\ dir_entries' = Append(dir_entries, n) /\ pos' = pos /\ listed' = listed
      /\ dir_entries \in Seq(Names) /\ Len(dir_entries) \in Nat
  BY LenProperties DEF DirInv, DirTypeOK, AddDirEntry
<1>2. /\ dir_entries' \in Seq(Names) /\ Len(dir_entries') = Len(dir_entries) + 1
      /\ \A j \in 1 .. Len(dir_entries) : dir_entries'[j] = dir_entries[j]
  BY <1>1, AppendProperties
<1>3. DirTypeOK'
  BY <1>1, <1>2 DEF DirInv, DirTypeOK
<1>4. ASSUME NEW s \in Streams
      PROVE  /\ Len(listed'[s]) = pos'[s] /\ pos'[s] <= Len(dir_entries') + 2
             /\ \A q \in 2 .. pos'[s] - 1 : listed'[s][q + 1] = dir_entries'[q - 1]
  <2>1. /\ pos[s] \in Nat /\ Len(listed[s]) = pos[s] /\ pos[s] <= Len(dir_entries) + 2
        /\ \A q \in 2 .. pos[s] - 1 : listed[s][q + 1] = dir_entries[q - 1]
    BY DEF DirInv, DirTypeOK, ListedOnce
  <2>2. \A q \in 2 .. pos[s] - 1 : q - 1 \in 1 .. Len(dir_entries)
    BY <1>1, <2>1
  <2> QED
    BY <1>1, <1>2, <2>1, <2>2
<1> QED
  BY <1>3, <1>4 DEF DirInv, ListedOnce

(* A call adds the items from the stream's position on. *)
LEMMA GetdentsKeeps ==
  ASSUME DirInv, NEW s \in Streams, NEW room \in Rooms, Getdents(s, room)
  PROVE  DirInv'
<1> DEFINE end == Len(dir_entries) + 2
           p == pos[s]
<1>1. /\ dir_entries \in Seq(Names) /\ Len(dir_entries) \in Nat
      /\ p \in Nat /\ listed[s] \in Seq(DirItems) /\ Len(listed[s]) = p
      /\ p <= end /\ room \in Nat
  BY DirAssumption, LenProperties DEF DirInv, DirTypeOK, ListedOnce
<1>2. PICK last \in {Last(s, room)} \cup (IF p = 1 THEN {1} ELSE {}) :
        /\ pos' = [pos EXCEPT ![s] = last]
        /\ listed' = [listed EXCEPT ![s] =
                        @ \o [j \in 1 .. last - p |-> Item(s, p + j - 1)]]
        /\ dir_entries' = dir_entries
  BY DEF Getdents
<1>3. last \in Nat /\ p <= last /\ last <= end
  BY <1>1, <1>2 DEF Last
<1> DEFINE items == [j \in 1 .. last - p |-> Item(s, p + j - 1)]
<1>4. ASSUME NEW j \in 1 .. last - p PROVE Item(s, p + j - 1) \in DirItems
  <2>1. p + j - 1 \in Nat /\ p + j - 1 < end
    BY <1>1, <1>3
  <2>2. CASE p + j - 1 \in {0, 1}
    BY <2>2 DEF Item, DirItems
  <2>3. CASE p + j - 1 \notin {0, 1}
    <3>1. (p + j - 1) - 1 \in 1 .. Len(dir_entries)
      BY <1>1, <2>1, <2>3
    <3>2. Item(s, p + j - 1) = dir_entries[(p + j - 1) - 1]
      BY <2>3 DEF Item
    <3> QED
      BY <1>1, <3>1, <3>2, ElementOfSeq DEF DirItems
  <2> QED
    BY <2>2, <2>3
<1>5. last - p \in Nat
  BY <1>1, <1>3
<1>6. items \in Seq(DirItems) /\ Len(items) = last - p
  BY <1>4, <1>5
<1>7. \A j \in 1 .. last - p : items[j] = Item(s, p + j - 1)
  OBVIOUS
<1> HIDE DEF items
<1> DEFINE joined == listed[s] \o items
<1>8. /\ joined \in Seq(DirItems) /\ Len(joined) = last
      /\ \A j \in 1 .. last : joined[j] =
                                 IF j <= p THEN listed[s][j] ELSE items[j - p]
  <2>1. /\ joined \in Seq(DirItems)
        /\ Len(joined) = Len(listed[s]) + Len(items)
        /\ \A j \in 1 .. Len(listed[s]) + Len(items) : joined[j] =
              IF j <= Len(listed[s]) THEN listed[s][j] ELSE items[j - Len(listed[s])]
    BY <1>1, <1>6, ConcatProperties
  <2>2. Len(listed[s]) + Len(items) = last
    BY <1>1, <1>3, <1>6
  <2> QED
    BY <1>1, <2>1, <2>2
<1> HIDE DEF joined
<1>9. /\ pos' \in [Streams -> Nat] /\ pos'[s] = last
      /\ listed' \in [Streams -> Seq(DirItems)] /\ listed'[s] = joined
      /\ \A u \in Streams \ {s} : pos'[u] = pos[u] /\ listed'[u] = listed[u]
  BY <1>2, <1>3, <1>8 DEF DirInv, DirTypeOK, items, joined
<1>10. DirTypeOK'
  BY <1>1, <1>2, <1>9 DEF DirTypeOK
<1>11. ASSUME NEW q \in 2 .. last - 1
       PROVE  joined[q + 1] = dir_entries[q - 1]
  <2>1. q + 1 \in 1 .. last /\ q \in Nat /\ q >= 2
    BY <1>3
  <2>2. CASE q + 1 <= p
    <3>1. q \in 2 .. p - 1
      BY <1>1, <2>1, <2>2
    <3>2. listed[s][q + 1] = dir_entries[q - 1]
      BY <3>1 DEF DirInv, ListedOnce
    <3> QED
      BY <1>8, <2>1, <2>2, <3>2
  <2>3. CASE ~(q + 1 <= p)
    <3>1. (q + 1) - p \in 1 .. last - p /\ p + ((q + 1) - p) - 1 = q
      <4>1. p \in Nat /\ last \in Nat /\ q \in Nat /\ q + 1 <= last /\ ~(q + 1 <= p)
        BY <1>1, <1>3, <2>1, <2>3
      <4> HIDE DEF p
      <4> QED
        BY <4>1
    <3>2. items[(q + 1) - p] = Item(s, p + ((q + 1) - p) - 1)
      BY <1>7, <3>1
    <3>3. Item(s, q) = dir_entries[q - 1]
      BY <2>1 DEF Item
    <3>4. joined[q + 1] = items[(q + 1) - p]
      BY <1>8, <2>1, <2>3
    <3> QED
      BY <3>1, <3>2, <3>3, <3>4
  <2> QED
    BY <2>2, <2>3
<1>12. ASSUME NEW u \in Streams
       PROVE  /\ Len(listed'[u]) = pos'[u] /\ pos'[u] <= Len(dir_entries') + 2
              /\ \A q \in 2 .. pos'[u] - 1 : listed'[u][q + 1] = dir_entries'[q - 1]
  <2>1. CASE u = s
    BY <1>2, <1>3, <1>8, <1>9, <1>11, <2>1
  <2>2. CASE u # s
    BY <1>2, <1>9, <2>2 DEF DirInv, ListedOnce
  <2> QED
    BY <2>1, <2>2
<1> QED
  BY <1>10, <1>12 DEF DirInv, ListedOnce

(* Going back forgets what was listed from there on. *)
LEMMA SeekKeeps ==
  ASSUME DirInv, NEW s \in Streams, NEW p \in 0 .. MAX_DIR_ENTRIES + 1, Seek(s, p)
  PROVE  DirInv'
<1>1. /\ p \in Nat /\ p < pos[s] /\ dir_entries' = dir_entries
      /\ pos' = [pos EXCEPT ![s] = p]
      /\ listed' = [listed EXCEPT ![s] = SubSeq(listed[s], 1, p)]
  BY DirAssumption DEF Seek
<1>2. /\ listed[s] \in Seq(DirItems) /\ pos[s] \in Nat /\ Len(listed[s]) = pos[s]
      /\ pos[s] <= Len(dir_entries) + 2 /\ Len(dir_entries) \in Nat
      /\ \A q \in 2 .. pos[s] - 1 : listed[s][q + 1] = dir_entries[q - 1]
  BY LenProperties DEF DirInv, DirTypeOK, ListedOnce
<1>3. \A j \in 1 .. p : listed[s][j] \in DirItems
  <2>1. \A j \in 1 .. p : j \in 1 .. Len(listed[s])
    BY <1>1, <1>2
  <2> QED
    BY <1>2, <2>1, ElementOfSeq
<1>4. /\ SubSeq(listed[s], 1, p) \in Seq(DirItems) /\ Len(SubSeq(listed[s], 1, p)) = p
      /\ \A j \in 1 .. p : SubSeq(listed[s], 1, p)[j] = listed[s][j]
  <2>1. /\ SubSeq(listed[s], 1, p) \in Seq(DirItems)
        /\ Len(SubSeq(listed[s], 1, p)) = IF 1 <= p THEN p - 1 + 1 ELSE 0
        /\ \A j \in 1 .. p - 1 + 1 : SubSeq(listed[s], 1, p)[j] = listed[s][1 + j - 1]
    BY <1>1, <1>3, SubSeqProperties
  <2> QED
    BY <1>1, <2>1
<1>5. /\ pos' \in [Streams -> Nat] /\ pos'[s] = p
      /\ listed' \in [Streams -> Seq(DirItems)]
      /\ listed'[s] = SubSeq(listed[s], 1, p)
      /\ \A u \in Streams \ {s} : pos'[u] = pos[u] /\ listed'[u] = listed[u]
  BY <1>1, <1>4 DEF DirInv, DirTypeOK
<1>6. DirTypeOK'
  BY <1>1, <1>5 DEF DirInv, DirTypeOK
<1>7. \A q \in 2 .. p - 1 : SubSeq(listed[s], 1, p)[q + 1] = dir_entries[q - 1]
  <2>1. ASSUME NEW q \in 2 .. p - 1
        PROVE  q + 1 \in 1 .. p /\ q \in 2 .. pos[s] - 1
    BY <1>1, <1>2
  <2> QED
    BY <1>2, <1>4, <2>1
<1>8. ASSUME NEW u \in Streams
      PROVE  /\ Len(listed'[u]) = pos'[u] /\ pos'[u] <= Len(dir_entries') + 2
             /\ \A q \in 2 .. pos'[u] - 1 : listed'[u][q + 1] = dir_entries'[q - 1]
  <2>1. CASE u = s
    BY <1>1, <1>2, <1>4, <1>5, <1>7, <2>1
  <2>2. CASE u # s
    BY <1>1, <1>5, <2>2 DEF DirInv, ListedOnce
  <2> QED
    BY <2>1, <2>2
<1> QED
  BY <1>6, <1>8 DEF DirInv, ListedOnce
-----------------------------------------------------------------------------
(* Every reader of the directory gets each entry once and in its place, whatever the
   sizes of the buffers, of the directory, and the creates between two calls. *)
THEOREM Listing == DirSpec => []ListedOnce
<1>1. DirInv /\ [DirNext]_dirVars => DirInv'
  <2>1. ASSUME DirInv, DirNext PROVE DirInv'
    BY <2>1, AddKeeps, GetdentsKeeps, SeekKeeps DEF DirNext
  <2>2. ASSUME DirInv, UNCHANGED dirVars PROVE DirInv'
    BY <2>2 DEF dirVars, DirInv, DirTypeOK, ListedOnce
  <2> QED
    BY <2>1, <2>2
<1>2. DirInv => ListedOnce
  BY DEF DirInv
<1> QED
  BY InitDir, <1>1, <1>2, PTL DEF DirSpec
-----------------------------------------------------------------------------
(***************************************************************************)
(* OsfsMount, for any number of mounts and regions.  A superblock has an   *)
(* address from its vmalloc() until it is killed, every allocated region   *)
(* is at one of them, and only a superblock in an oops is never killed     *)
(* (MountInv).  Failing mounts break the ownership of an address (Own).    *)
(***************************************************************************)

(* Where a superblock is, and what it has there: a region from its vmalloc() to its
   kill, of which it keeps the address even when a failing mount has freed it. *)
MountSteps == {"new", "vmalloc", "new_inode", "make_root", "mounted", "kill", "oops", "gone"}
Idle == {"new", "vmalloc", "gone"}

MountTypeOK ==
  /\ allocated \subseteq Regions /\ scarce \in BOOLEAN /\ registered \in BOOLEAN
  /\ sb \in [Superblocks -> [pc : MountSteps, s_fs_info : Regions \cup {NULL},
                             s_root : BOOLEAN, i_count : Int]]

Info(s) == sb[s].s_fs_info

(* As long as no mount fails after its vmalloc(), an address a superblock has is
   allocated and its own. *)
Own == \A s \in Superblocks : Info(s) # NULL =>
         Info(s) \in allocated /\ \A u \in Superblocks \ {s} : Info(u) # Info(s)

(* What Lab4_Template_Optimize has of the root at each step *)
RootAt(b) ==
  CASE b.pc \in {"new", "vmalloc", "new_inode", "gone"} -> ~b.s_root /\ b.i_count = 0
    [] b.pc = "make_root" -> ~b.s_root /\ b.i_count = 1
    [] b.pc = "mounted" -> b.s_root /\ b.i_count = 1
    [] b.pc = "kill" -> b.i_count = IF b.s_root THEN 1 ELSE 0
    [] OTHER -> FALSE

MountInv ==
  /\ MountTypeOK
  /\ \A r \in allocated : \E s \in Superblocks : Info(s) = r
  /\ \A s \in Superblocks : sb[s].pc \in Idle => Info(s) = NULL
  /\ ~registered => \A s \in Superblocks : sb[s].pc \in {"new", "gone"}
  /\ ~scarce => /\ Own
                /\ \A s \in Superblocks : /\ Uses(s) => Info(s) # NULL
                                          /\ sb[s].pc # "oops"
  /\ variant = "Optimize" => \A s \in Superblocks : RootAt(sb[s])

LEMMA InitMount == MountInit => MountInv
<1> SUFFICES ASSUME MountInit PROVE MountInv
  OBVIOUS
<1>1. /\ \A s \in Superblocks : sb[s] = Fresh
      /\ allocated = {} /\ registered = FALSE
      /\ sb \in [Superblocks -> {Fresh}] /\ scarce \in BOOLEAN
  BY DEF MountInit
<1>2. /\ Fresh.pc = "new" /\ Fresh.s_fs_info = NULL /\ Fresh.s_root = FALSE
      /\ Fresh.i_count = 0
      /\ Fresh \in [pc : MountSteps, s_fs_info : Regions \cup {NULL},
                    s_root : BOOLEAN, i_count : Int]
  BY DEF Fresh, MountSteps
<1>3. MountTypeOK
  BY <1>1, <1>2 DEF MountTypeOK
<1>4. \A s \in Superblocks : Info(s) = NULL /\ sb[s].pc = "new" /\ RootAt(sb[s])
  BY <1>1, <1>2 DEF Info, RootAt
<1>5. Own /\ \A s \in Superblocks : ~Uses(s) /\ sb[s].pc # "oops"
  BY <1>4 DEF Own, Uses
<1> QED
  BY <1>1, <1>3, <1>4, <1>5 DEF MountInv

(* A step of one superblock: what it does to the regions and to the superblock *)
LEMMA SbStep ==
  ASSUME MountInv, NEW s \in Superblocks, NEW b, sb' = [sb EXCEPT ![s] = b],
         UNCHANGED kernel, UNCHANGED registered, registered,
         b \in [pc : MountSteps, s_fs_info : Regions \cup {NULL},
                s_root : BOOLEAN, i_count : Int],
         b.pc \in Idle => b.s_fs_info = NULL,
         variant = "Optimize" => RootAt(b),
         \/ b.s_fs_info = Info(s) /\ allocated' = allocated
              /\ (~scarce /\ b.pc \in {"new_inode", "make_root", "mounted"} => Uses(s))
         \/ Info(s) = NULL /\ b.s_fs_info \in Regions \ allocated
              /\ allocated' = allocated \cup {b.s_fs_info}
         \/ scarce /\ b.s_fs_info = Info(s) /\ allocated' = allocated \ {Info(s)}
         \/ b.s_fs_info = NULL /\ allocated' = allocated \ {Info(s)}
              /\ b.pc \notin {"new_inode", "make_root", "mounted"},
         ~scarce => b.pc # "oops"
  PROVE  MountInv'
<1>1. sb'[s] = b /\ \A u \in Superblocks \ {s} : sb'[u] = sb[u]
  BY DEF MountInv, MountTypeOK
<1>2. MountTypeOK'
  BY DEF MountInv, MountTypeOK, kernel
<1>3. Info(s)' = b.s_fs_info /\ \A u \in Superblocks \ {s} : Info(u)' = Info(u)
  BY <1>1 DEF Info
<1>4. \A r \in allocated' : \E u \in Superblocks : Info(u)' = r
  <2>1. \A r \in allocated : r # NULL /\ \E u \in Superblocks : Info(u) = r
    BY MountAssumption DEF MountInv, MountTypeOK
  <2> QED
    BY <1>3, <2>1
<1>5. \A u \in Superblocks : sb'[u].pc \in Idle => Info(u)' = NULL
  BY <1>1, <1>3 DEF MountInv
<1>6. ASSUME ~scarce'
      PROVE  Own' /\ \A u \in Superblocks : (Uses(u)' => Info(u)' # NULL) /\ sb'[u].pc # "oops"
  <2>1. /\ ~scarce /\ Own
        /\ \A u \in Superblocks : (Uses(u) => Info(u) # NULL) /\ sb[u].pc # "oops"
    BY <1>6 DEF MountInv, kernel
  <2>2. \A u \in Superblocks \ {s} : Uses(u)' => Uses(u)
    BY <1>1 DEF Uses
  <2>3. \A u \in Superblocks : Uses(u)' => Info(u)' # NULL
    BY <1>1, <1>3, <2>1, <2>2, MountAssumption DEF Uses
  <2>4. Own'
    BY <1>3, <2>1, MountAssumption DEF Own
  <2>5. \A u \in Superblocks : sb'[u].pc # "oops"
    BY <1>1, <2>1
  <2> QED
    BY <2>3, <2>4, <2>5
<1>7. variant' = "Optimize" => \A u \in Superblocks : RootAt(sb'[u])
  BY <1>1 DEF MountInv, kernel
<1> QED
  BY <1>2, <1>4, <1>5, <1>6, <1>7 DEF MountInv

LEMMA MountStep == ASSUME MountInv, [MountNext]_mountVars PROVE MountInv'
<1> DEFINE R == [pc : MountSteps, s_fs_info : Regions \cup {NULL},
                 s_root : BOOLEAN, i_count : Int]
<1>1. CASE UNCHANGED mountVars
  BY <1>1 DEF mountVars, kernel, MountInv, MountTypeOK, Own, Info, Uses
<1>2. CASE Register
  BY <1>2 DEF Register, kernel, MountInv, MountTypeOK, Own, Info, Uses
<1>3. CASE Unregister
  BY <1>3 DEF Unregister, kernel, MountInv, MountTypeOK, Own, Info, Uses
<1>4. ASSUME NEW s \in Superblocks,
             \/ Mount(s) \/ Vmalloc(s) \/ VmallocFails(s) \/ NewInode(s) \/ NewInodeFails(s)
             \/ MakeRoot(s) \/ MakeRootFails(s) \/ Umount(s) \/ KillSuperblock(s)
      PROVE  MountInv'
  <2>1. /\ sb[s] \in R /\ sb \in [Superblocks -> R] /\ UNCHANGED <<kernel, registered>>
        /\ sb[s].pc \in Idle => Info(s) = NULL
        /\ ~scarce /\ Uses(s) => Info(s) # NULL
        /\ variant = "Optimize" => RootAt(sb[s])
    BY <1>4 DEF MountInv, MountTypeOK, Mount, Vmalloc, VmallocFails, NewInode, NewInodeFails,
       MakeRoot, MakeRootFails, Umount, KillSuperblock
  <2>2. registered
    BY <1>4 DEF MountInv, MountTypeOK, Mount, Vmalloc, VmallocFails, NewInode, NewInodeFails,
       MakeRoot, MakeRootFails, Umount, KillSuperblock, At
  <2> DEFINE Moved(b) ==
        \/ b.s_fs_info = Info(s) /\ allocated' = allocated
             /\ (~scarce /\ b.pc \in {"new_inode", "make_root", "mounted"} => Uses(s))
        \/ Info(s) = NULL /\ b.s_fs_info \in Regions \ allocated
             /\ allocated' = allocated \cup {b.s_fs_info}
        \/ scarce /\ b.s_fs_info = Info(s) /\ allocated' = allocated \ {Info(s)}
        \/ b.s_fs_info = NULL /\ allocated' = allocated \ {Info(s)}
             /\ b.pc \notin {"new_inode", "make_root", "mounted"}
      Good(b) == /\ sb' = [sb EXCEPT ![s] = b] /\ b \in R
                 /\ b.pc \in Idle => b.s_fs_info = NULL
                 /\ variant = "Optimize" => RootAt(b)
                 /\ Moved(b) /\ (~scarce => b.pc # "oops")
  <2>3. ASSUME NEW b, Good(b) PROVE MountInv'
    BY <2>1, <2>2, <2>3, SbStep
  <2> HIDE DEF R
  <2> USE DEF At, Proceed, vfree, Info, Idle, Uses, RootAt
  <2>4. CASE Mount(s)
    <3> DEFINE b == [sb[s] EXCEPT !.pc = "vmalloc"]
    <3>1. sb' = [sb EXCEPT ![s] = b] /\ b \in R
      BY <2>1, <2>4 DEF Mount, R, MountSteps
    <3>2. Good(b)
      BY <2>1, <2>4, <3>1 DEF Mount, R
    <3> QED
      BY <2>3, <3>2
  <2>5. CASE Vmalloc(s)
    <3>1. PICK r \in Regions \ allocated :
            /\ allocated' = allocated \cup {r}
            /\ sb' = [sb EXCEPT ![s].pc = "new_inode", ![s].s_fs_info = r]
      BY <2>5 DEF Vmalloc
    <3> DEFINE b == [sb[s] EXCEPT !.pc = "new_inode", !.s_fs_info = r]
    <3>2. sb' = [sb EXCEPT ![s] = b] /\ b \in R
      BY <2>1, <3>1 DEF R, MountSteps
    <3>3. Good(b)
      BY <2>1, <2>5, <3>1, <3>2 DEF Vmalloc, R
    <3> QED
      BY <2>3, <3>3
  <2>6. CASE VmallocFails(s)
    <3> DEFINE b == [sb[s] EXCEPT !.pc = "kill"]
    <3>1. sb' = [sb EXCEPT ![s] = b] /\ b \in R
      BY <2>1, <2>6 DEF VmallocFails, R, MountSteps
    <3>2. Good(b)
      BY <2>1, <2>6, <3>1 DEF VmallocFails, R
    <3> QED
      BY <2>3, <3>2
  <2>7. CASE NewInode(s)
    <3> DEFINE b == [sb[s] EXCEPT !.pc = "make_root", !.i_count = 1]
    <3>1. sb[s] \in R /\ sb[s].pc = "new_inode" /\ allocated' = allocated
          /\ sb' = [sb EXCEPT ![s] = b]
      BY <2>1, <2>7 DEF NewInode
    <3>2. b \in R
      <4>1. "make_root" \in MountSteps /\ 1 \in Int
        BY DEF MountSteps
      <4> QED
        BY <3>1, <4>1 DEF R
    <3>3. /\ b.pc = "make_root" /\ b.s_fs_info = sb[s].s_fs_info
          /\ b.s_root = sb[s].s_root /\ b.i_count = 1
      BY <3>1 DEF R
    <3> HIDE DEF b
    <3>4. Good(b)
      BY <2>1, <3>1, <3>2, <3>3
    <3> QED
      BY <2>3, <3>4
  <2>8. CASE NewInodeFails(s)
    <3> DEFINE b == [sb[s] EXCEPT !.pc = "kill"]
    <3>1. sb' = [sb EXCEPT ![s] = b] /\ b \in R
      BY <2>1, <2>8 DEF NewInodeFails, R, MountSteps
    <3>2. Good(b)
      BY <2>1, <2>8, <3>1 DEF NewInodeFails, R
    <3> QED
      BY <2>3, <3>2
  <2>9. CASE MakeRoot(s)
    <3> DEFINE b == [sb[s] EXCEPT !.pc = "mounted", !.s_root = TRUE]
    <3>1. sb' = [sb EXCEPT ![s] = b] /\ b \in R
      BY <2>1, <2>9 DEF MakeRoot, R, MountSteps
    <3>2. Good(b)
      BY <2>1, <2>9, <3>1 DEF MakeRoot, R
    <3> QED
      BY <2>3, <3>2
  <2>10. CASE MakeRootFails(s)
    <3>1. PICK step \in {"kill", "oops"} :
            /\ sb' = [sb EXCEPT ![s].pc = step, ![s].i_count = @ - PutsOnFailure]
            /\ step = "oops" => PutsOnFailure > 1
            /\ allocated' = IF step = "kill" THEN allocated \ {sb[s].s_fs_info} ELSE allocated
            /\ scarce /\ sb[s].pc = "make_root"
      BY <2>10 DEF MakeRootFails
    <3>2. PutsOnFailure \in {1, 2} /\ (variant = "Optimize" => PutsOnFailure = 1)
      BY DEF PutsOnFailure
    <3> HIDE DEF RootAt
    <3> DEFINE b == [sb[s] EXCEPT !.pc = step, !.i_count = @ - PutsOnFailure]
    <3>3. sb' = [sb EXCEPT ![s] = b] /\ b \in R
      BY <2>1, <3>1, <3>2 DEF R, MountSteps
    <3>4. variant = "Optimize" => RootAt(b)
      <4>1. variant = "Optimize" => step = "kill" /\ ~sb[s].s_root /\ sb[s].i_count = 1
        BY <2>1, <3>1, <3>2 DEF RootAt
      <4>2. b.pc = step /\ b.s_root = sb[s].s_root /\ b.i_count = sb[s].i_count - PutsOnFailure
        BY <2>1 DEF R
      <4> QED
        BY <3>2, <4>1, <4>2 DEF RootAt
    <3>5. Good(b)
      BY <2>1, <3>1, <3>3, <3>4 DEF R
    <3> QED
      BY <2>3, <3>5
  <2>11. CASE Umount(s)
    <3> DEFINE b == [sb[s] EXCEPT !.pc = "kill"]
    <3>1. sb' = [sb EXCEPT ![s] = b] /\ b \in R
      BY <2>1, <2>11 DEF Umount, R, MountSteps
    <3>2. Good(b)
      BY <2>1, <2>11, <3>1 DEF Umount, R
    <3> QED
      BY <2>3, <3>2
  <2>12. CASE KillSuperblock(s)
    <3> DEFINE g == [sb[s] EXCEPT !.pc = "gone", !.s_fs_info = NULL]
               b == ShutDown(g)
    <3>1. sb' = [sb EXCEPT ![s] = b] /\ sb[s].pc = "kill"
          /\ (variant = "Optimize" => sb[s].i_count = IF sb[s].s_root THEN 1 ELSE 0)
          /\ allocated' = allocated \ {sb[s].s_fs_info}
      BY <2>12, <2>1 DEF KillSuperblock
    <3>2. /\ g \in R /\ g.pc = "gone" /\ g.s_fs_info = NULL
          /\ g.s_root = sb[s].s_root /\ g.i_count = sb[s].i_count
      BY <2>1 DEF R, MountSteps
    <3> HIDE DEF g
    <3>3. /\ b \in R /\ b.pc = "gone" /\ b.s_fs_info = NULL
          /\ variant = "Optimize" => ~b.s_root /\ b.i_count = 0
      <4>1. CASE variant = "Optimize" /\ g.s_root
        <5>1. b = [g EXCEPT !.s_root = FALSE, !.i_count = @ - 1]
          BY <4>1 DEF ShutDown
        <5>2. /\ b \in R /\ b.pc = "gone" /\ b.s_fs_info = NULL
              /\ b.s_root = FALSE /\ b.i_count = g.i_count - 1
          <6>1. b = [pc |-> "gone", s_fs_info |-> NULL, s_root |-> FALSE,
                     i_count |-> g.i_count - 1]
            BY <3>2, <5>1 DEF R
          <6>2. g.i_count - 1 \in Int
            BY <3>2 DEF R
          <6> HIDE DEF b
          <6> QED
            BY <6>1, <6>2 DEF R, MountSteps
        <5> QED
          BY <3>1, <3>2, <4>1, <5>2
      <4>2. CASE ~(variant = "Optimize" /\ g.s_root)
        <5>1. b = g
          BY <4>2 DEF ShutDown
        <5> QED
          BY <3>1, <3>2, <4>2, <5>1
      <4> QED
        BY <4>1, <4>2
    <3> HIDE DEF b
    <3>4. Good(b)
      BY <3>1, <3>3
    <3> QED
      BY <2>3, <3>4
  <2> QED
    BY <1>4, <2>4, <2>5, <2>6, <2>7, <2>8, <2>9, <2>10, <2>11, <2>12
<1> QED
  BY <1>1, <1>2, <1>3, <1>4 DEF MountNext

LEMMA MountInvariance == MountSpec => []MountInv
  BY InitMount, MountStep, PTL DEF MountSpec

(* However many mounts there are, and however many of them fail: every region that is
   allocated has a superblock that will free it or one in an oops, the latter in
   Lab4_Template_Done only, and none is left when the module is unloaded. *)
THEOREM LeaksByOopsOnly == MountSpec => []LeaksOnlyByOops
<1>1. ASSUME MountInv PROVE LeaksOnlyByOops
  <2>1. ~registered => allocated = {}
    BY <1>1, MountAssumption DEF MountInv, MountTypeOK, Info, Idle
  <2>2. variant = "Optimize" \/ ~scarce => \A s \in Superblocks : sb[s].pc # "oops"
    BY <1>1 DEF MountInv, RootAt
  <2>3. ASSUME NEW r \in allocated
        PROVE  \E s \in Superblocks : sb[s].s_fs_info = r /\ (WillFree(s) \/ At(s, "oops"))
    <3>1. PICK s \in Superblocks : Info(s) = r
      BY <1>1, <2>3 DEF MountInv
    <3>2. sb[s].pc \in MountSteps \ Idle
      BY <1>1, <2>3, <3>1, MountAssumption DEF MountInv, MountTypeOK
    <3> QED
      BY <3>1, <3>2 DEF Info, MountSteps, Idle, WillFree, At
  <2> QED
    BY <2>1, <2>2, <2>3 DEF LeaksOnlyByOops, Held, At
<1> QED
  BY <1>1, MountInvariance, PTL

(* As long as new_inode and d_make_root do not fail, no mount loses its region or shares
   it, whatever mounts and unmounts beside it. *)
THEOREM RegionsKept == MountSpec => []RegionKeptUnlessScarce
<1>1. MountInv => RegionKeptUnlessScarce
  BY DEF MountInv, Own, RegionKeptUnlessScarce, RegionKept, Info
<1> QED
  BY <1>1, MountInvariance, PTL

(* Lab4_Template_Optimize lets go of every root and puts every root inode as often as
   it was taken. *)
THEOREM RootsReleased == MountSpec => []OptimizeReleasesRoot
<1>1. MountInv => OptimizeReleasesRoot
  BY DEF MountInv, RootAt, OptimizeReleasesRoot, RootReleased, At
<1> QED
  BY <1>1, MountInvariance, PTL
=============================================================================
