------------------------------ MODULE SpinLock ------------------------------
(***************************************************************************)
(* Lab3/1/1_2: two threads add to the shared counter a under a spin lock   *)
(* written with xchg.  One action per machine instruction that touches     *)
(* shared memory or decides a branch; eax[t] is the scratch register of    *)
(* thread t, in the lock code and in the load/add/store of a = a + 1.      *)
(***************************************************************************)
EXTENDS Integers

CONSTANT N                     \* iterations of each thread (10000 in the code)
ASSUME NAssumption == N \in Nat

Threads == {1, 2}
LOCK   == 0
UNLOCK == 1
None   == -1                   \* nothing written to 1.txt yet

VARIABLES lock, a,             \* the two shared integers
          pc, eax, i,          \* per thread: next instruction, register, loop count
          mainpc, printed      \* main: next call, and what fprintf wrote

threadVars == <<lock, a, pc, eax, i>>
mainVars   == <<mainpc, printed>>
vars       == <<lock, a, pc, eax, i, mainpc, printed>>

ThreadPC == {"new", "for", "mov", "xchg", "jz",
             "load", "store", "umov", "uxchg", "done"}
MainPC   == {"create1", "create2", "join1", "join2", "fprintf", "exit"}

Init == /\ lock = UNLOCK
        /\ a = 0
        /\ pc = [t \in Threads |-> "new"]
        /\ eax = [t \in Threads |-> 0]
        /\ i = [t \in Threads |-> 0]
        /\ mainpc = "create1"
        /\ printed = None

Goto(t, from, to) == pc[t] = from /\ pc' = [pc EXCEPT ![t] = to]
SetEax(t, v) == eax' = [eax EXCEPT ![t] = v]
-----------------------------------------------------------------------------
(* for (i = 0; i < N; i++) *)
ForTest(t) == /\ Goto(t, "for", IF i[t] < N THEN "mov" ELSE "done")
              /\ UNCHANGED <<lock, a, eax, i>>

(* spin_lock: mov $0, eax; xchg eax, lock; test eax, eax; jz loop *)
MovLock(t) == /\ Goto(t, "mov", "xchg")
              /\ SetEax(t, LOCK)
              /\ UNCHANGED <<lock, a, i>>

XchgReadsOnly(t) == /\ Goto(t, "xchg", "jz")
                    /\ SetEax(t, lock)
                    /\ UNCHANGED <<lock, a, i>>
Xchg(t) == /\ Goto(t, "xchg", "jz")
           /\ SetEax(t, lock)
           /\ lock' = eax[t]
           /\ UNCHANGED <<a, i>>

JzNotTaken(t) == /\ Goto(t, "jz", "load")
                 /\ UNCHANGED <<lock, a, eax, i>>
Jz(t) == /\ Goto(t, "jz", IF eax[t] = 0 THEN "mov" ELSE "load")
         /\ UNCHANGED <<lock, a, eax, i>>

(* a = a + 1 on a volatile int: a load and a store *)
Load(t) == /\ Goto(t, "load", "store")
           /\ SetEax(t, a)
           /\ UNCHANGED <<lock, a, i>>

Store(t) == /\ Goto(t, "store", "umov")
            /\ a' = eax[t] + 1
            /\ SetEax(t, eax[t] + 1)
            /\ UNCHANGED <<lock, i>>

(* spin_unlock: mov $1, eax; xchg eax, lock; then the loop's i++ *)
MovLockAgain(t) == /\ Goto(t, "umov", "uxchg")
                   /\ SetEax(t, LOCK)
                   /\ UNCHANGED <<lock, a, i>>
MovUnlock(t) == /\ Goto(t, "umov", "uxchg")
                /\ SetEax(t, UNLOCK)
                /\ UNCHANGED <<lock, a, i>>

XchgUnlock(t) == /\ Goto(t, "uxchg", "for")
                 /\ SetEax(t, lock)
                 /\ lock' = eax[t]
                 /\ i' = [i EXCEPT ![t] = @ + 1]
                 /\ UNCHANGED a

Thread(t) == /\ \/ ForTest(t) \/ MovLock(t) \/ Xchg(t) \/ Jz(t)
                \/ Load(t) \/ Store(t) \/ MovUnlock(t) \/ XchgUnlock(t)
             /\ UNCHANGED mainVars
-----------------------------------------------------------------------------
MainGoto(from, to) == mainpc = from /\ mainpc' = to

Create(t) == /\ MainGoto(<<"create1", "create2">>[t], <<"create2", "join1">>[t])
             /\ pc' = [pc EXCEPT ![t] = "for"]
             /\ UNCHANGED <<lock, a, eax, i, printed>>

JoinNoWait(t) == /\ MainGoto(<<"join1", "join2">>[t], <<"join2", "fprintf">>[t])
                 /\ UNCHANGED <<threadVars, printed>>
Join(t) == /\ MainGoto(<<"join1", "join2">>[t], <<"join2", "fprintf">>[t])
           /\ pc[t] = "done"
           /\ UNCHANGED <<threadVars, printed>>

Fprintf == /\ MainGoto("fprintf", "exit")
           /\ printed' = a
           /\ UNCHANGED threadVars

Main == Fprintf \/ \E t \in Threads : Create(t) \/ Join(t)

(* The process has exited. *)
Terminated == mainpc = "exit" /\ UNCHANGED vars

Next == Main \/ Terminated \/ \E t \in Threads : Thread(t)

(* The kernel schedules every runnable thread again and again. *)
Fairness == WF_vars(Main) /\ \A t \in Threads : WF_vars(Thread(t))

SafetySpec == Init /\ [][Next]_vars
Spec == SafetySpec /\ Fairness
-----------------------------------------------------------------------------
TypeOK == /\ lock \in {LOCK, UNLOCK}
          /\ a \in 0 .. 2 * N
          /\ pc \in [Threads -> ThreadPC]
          /\ eax \in [Threads -> 0 .. 2 * N + 1]
          /\ i \in [Threads -> 0 .. N]
          /\ mainpc \in MainPC
          /\ printed \in {None} \cup (0 .. 2 * N)

(* Thread t owns the lock: its xchg took UNLOCK out of the lock word and its
   own releasing xchg has not put it back. *)
Holds(t) == \/ pc[t] = "jz" /\ eax[t] = UNLOCK
            \/ pc[t] \in {"load", "store", "umov", "uxchg"}

InCritical(t) == pc[t] \in {"load", "store", "umov", "uxchg"}

(* At most one thread is between the end of spin_lock and the xchg of
   spin_unlock. *)
MutualExclusion == \A s, t \in Threads : InCritical(s) /\ InCritical(t) => s = t

(* The lock word is UNLOCK exactly when no thread owns it: the losing xchg of a
   spinner never frees a held lock, and no release is ever swallowed by one. *)
LockWordTracksOwner == (lock = UNLOCK) <=> \A t \in Threads : ~Holds(t)

(* Additions thread t has written to a. *)
Added(t) == i[t] + IF pc[t] \in {"umov", "uxchg"} THEN 1 ELSE 0

(* Every a = a + 1 counts once, whatever the interleaving of the two loads and
   stores. *)
NoLostUpdate == a = Added(1) + Added(2)

(* The number written to 1.txt is the full total (20000 in 1_ans.txt). *)
AnswerIsTotal == printed # None => printed = 2 * N

(* The program implements the counter with indivisible additions; a thread's
   addition takes effect at its store.  Every addition is made in the end, and main
   gets past both joins and prints: no thread spins for ever. *)
AC == INSTANCE AtomicCounter WITH cnt <- a,
                                  left <- [t \in Threads |-> N - Added(t)],
                                  out <- printed
CounterSpec == AC!Spec
CounterSafety == AC!SafetySpec
=============================================================================
