----------------------------- MODULE Accumulate -----------------------------
(***************************************************************************)
(* Three programs of Lab 3 in which two threads add up terms in memory     *)
(* they share, each with another way to keep the additions apart:          *)
(*   1_1.c   both add Terms times 1 to a counter, under a spin lock;       *)
(*   2_2.c   each adds one half of the terms of every matrix element,      *)
(*           under a spin lock held over the whole product;                *)
(*   3_1.c   each adds all terms of one half of the rows, without a lock,  *)
(*           while main reads the list of threads from /proc.              *)
(* One column stands for those of the matrix.  A sum is modelled by how    *)
(* often each term has been added to it; malloc() leaves in z what it will *)
(* (main never clears it), and the sums count what is added to that.       *)
(***************************************************************************)
EXTENDS Integers

CONSTANTS Rows,                \* matrix_row_x
          Terms                \* matrix_row_y; for 1_1.c its 10000 rounds
ASSUME AccumulateAssumption == Rows \in Nat \ {0} /\ Terms \in Nat

Programs == {"1_1", "2_2", "3_1"}
Threads == {1, 2}
Row == 0 .. Rows - 1
Term == 0 .. Terms - 1
Free == 0                      \* nobody has the lock

VARIABLES program,             \* the program that runs
          lock,                \* pthread_spinlock_t: its owner
          z,                   \* the sums, a counter's in row 0
          pc, i, k, acc,       \* per thread: next step, loop variables, value loaded
          mainpc,
          unread,              \* threads main's read of /proc has still to visit
          printed              \* the sums in the output file

threadVars == <<lock, z, pc, i, k, acc>>
vars == <<program, lock, z, pc, i, k, acc, mainpc, unread, printed>>

Zero == [r \in Row |-> [x \in Term |-> 0]]

(* The loops of thread t: First <= i < End, KFirst <= k < KEnd *)
First(t) == IF program = "3_1" /\ t = 2 THEN Rows \div 2 ELSE 0
End(t) == CASE program = "1_1" -> 1
            [] program = "2_2" -> Rows
            [] program = "3_1" -> IF t = 1 THEN Rows \div 2 ELSE Rows
KFirst(t) == IF program = "2_2" /\ t = 2 THEN Terms \div 2 ELSE 0
KEndBothHalves(t) == Terms
KEnd(t) == IF program = "2_2" /\ t = 1 THEN Terms \div 2 ELSE Terms

Init == /\ program \in Programs
        /\ lock = Free                            \* pthread_spin_init
        /\ z = Zero
        /\ pc = [t \in Threads |-> "new"]
        /\ i = [t \in Threads |-> First(t)]
        /\ k = [t \in Threads |-> KFirst(t)]
        /\ acc = [t \in Threads |-> [x \in Term |-> 0]]
        /\ mainpc = "create1"
        /\ unread = Threads
        /\ printed = Zero

Goto(t, from, to) == pc[t] = from /\ pc' = [pc EXCEPT ![t] = to]
-----------------------------------------------------------------------------
(* pthread_spin_lock and pthread_spin_unlock *)
LockAlways(t) == /\ Goto(t, "lock", "for")
                 /\ lock' = t
                 /\ UNCHANGED <<z, i, k, acc>>
Lock(t) == /\ Goto(t, "lock", "for")
           /\ lock = Free
           /\ lock' = t
           /\ UNCHANGED <<z, i, k, acc>>
Spin(t) == pc[t] = "lock" /\ lock # Free /\ UNCHANGED vars
UnlockForgotten(t) == Goto(t, "unlock", "done") /\ UNCHANGED <<lock, z, i, k, acc>>
Unlock(t) == /\ Goto(t, "unlock", "done")
             /\ lock' = Free
             /\ UNCHANGED <<z, i, k, acc>>

(* a = a + 1, z[i][j] += x[i][k] * y[k][j]: a load and a store *)
Load(t) == /\ Goto(t, "for", "store")
           /\ i[t] < End(t) /\ k[t] < KEnd(t)
           /\ acc' = [acc EXCEPT ![t] = z[i[t]]]
           /\ UNCHANGED <<lock, z, i, k>>

Store(t) == /\ Goto(t, "store", "for")
            /\ z' = [z EXCEPT ![i[t]] = [acc[t] EXCEPT ![k[t]] = @ + 1]]
            /\ k' = [k EXCEPT ![t] = @ + 1]
            /\ UNCHANGED <<lock, i, acc>>

NextRow(t) == /\ Goto(t, "for", "for")
              /\ i[t] < End(t) /\ k[t] >= KEnd(t)
              /\ i' = [i EXCEPT ![t] = @ + 1]
              /\ k' = [k EXCEPT ![t] = KFirst(t)]
              /\ UNCHANGED <<lock, z, acc>>

LoopDone(t) == /\ Goto(t, "for", IF program = "3_1" THEN "done" ELSE "unlock")
               /\ i[t] >= End(t)
               /\ UNCHANGED <<lock, z, i, k, acc>>

Thread(t) == /\ \/ Lock(t) \/ Unlock(t) \/ Load(t) \/ Store(t)
                \/ NextRow(t) \/ LoopDone(t)
             /\ UNCHANGED <<program, mainpc, unread, printed>>
-----------------------------------------------------------------------------
MainGoto(from, to) == mainpc = from /\ mainpc' = to

Create(t) ==
  /\ MainGoto(<<"create1", "create2">>[t],
              <<"create2", IF program = "3_1" THEN "read" ELSE "join1">>[t])
  /\ pc' = [pc EXCEPT ![t] = IF program = "3_1" THEN "for" ELSE "lock"]
  /\ UNCHANGED <<program, lock, z, i, k, acc, unread, printed>>

(* 3_1.c: Myread goes through the threads of the process, none of which waits for
   it, and a second read of the file meets its end. *)
Visit(t) == /\ mainpc = "read" /\ t \in unread
            /\ unread' = unread \ {t}
            /\ UNCHANGED <<program, threadVars, mainpc, printed>>
EndOfFile == /\ MainGoto("read", "join1") /\ unread = {}
             /\ UNCHANGED <<program, threadVars, unread, printed>>

Join(t) == /\ MainGoto(<<"join1", "join2">>[t], <<"join2", "fprintf">>[t])
           /\ pc[t] = "done"
           /\ UNCHANGED <<program, threadVars, unread, printed>>

Fprintf == /\ MainGoto("fprintf", "exit")
           /\ printed' = z
           /\ UNCHANGED <<program, threadVars, unread>>

Main == EndOfFile \/ Fprintf \/ \E t \in Threads : Create(t) \/ Visit(t) \/ Join(t)

(* The process has exited. *)
Terminated == mainpc = "exit" /\ UNCHANGED vars

Next == Main \/ Terminated \/ \E t \in Threads : Thread(t) \/ Spin(t)

(* The kernel schedules every runnable thread again and again; a thread that spins
   gets the lock when it is free, for its owner takes it once only. *)
Fairness == WF_vars(Main) /\ \A t \in Threads : WF_vars(Thread(t))

SafetySpec == Init /\ [][Next]_vars
Spec == SafetySpec /\ Fairness
-----------------------------------------------------------------------------
Summed == {rx \in Row \X Term : program = "1_1" => rx[1] = 0}
Adders == IF program = "1_1" THEN 2 ELSE 1     \* that add one term to one sum

(* What main prints has every term, from each thread that adds it, exactly once:
   no addition overwrites another, the halves meet without gap or overlap, and main
   waits for both threads. *)
SumPrinted == mainpc = "exit" => \A rx \in Summed : printed[rx[1]][rx[2]] = Adders

(* The program ends. *)
Termination == <>(mainpc = "exit")
=============================================================================
