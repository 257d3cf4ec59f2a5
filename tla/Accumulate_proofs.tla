------------------------- MODULE Accumulate_proofs -------------------------
(***************************************************************************)
(* The three programs of Accumulate add every term exactly once, for every *)
(* number of rows and of terms.                                            *)
(*                                                                         *)
(* Each thread goes through its part of the terms in order, so that its    *)
(* loop variables tell what it has added (Did), and every sum is the       *)
(* number of threads that have added the term.  A value loaded is still    *)
(* there when it is stored: because of the lock in two of the programs,    *)
(* and because the threads are at different rows in the third.             *)
(***************************************************************************)
EXTENDS Accumulate, TLAPS

TypeOK ==
  /\ program \in Programs
  /\ z \in [Row -> [Term -> Nat]]
  /\ pc \in [Threads -> {"new", "lock", "for", "store", "unlock", "done"}]
  /\ i \in [Threads -> Nat] /\ k \in [Threads -> Nat]
  /\ acc \in [Threads -> [Term -> Nat]]

(* The loop variables stay in the thread's part. *)
InPart == \A t \in Threads :
  /\ First(t) <= i[t] /\ i[t] <= End(t) /\ KFirst(t) <= k[t] /\ k[t] <= KEnd(t)
  /\ pc[t] = "store" => i[t] < End(t) /\ k[t] < KEnd(t)
  /\ pc[t] \in {"unlock", "done"} => i[t] = End(t)

Mine(t, r, x) == First(t) <= r /\ r < End(t) /\ KFirst(t) <= x /\ x < KEnd(t)
Did(t, r, x) == Mine(t, r, x) /\ (r < i[t] \/ (r = i[t] /\ x < k[t]))
Added(t, r, x) == IF Did(t, r, x) THEN 1 ELSE 0
Sums == \A r \in Row, x \in Term : z[r][x] = Added(1, r, x) + Added(2, r, x)

Owner == program # "3_1" => \A t \in Threads : pc[t] \in {"for", "store", "unlock"} => lock = t
Loaded == \A t \in Threads : pc[t] = "store" => acc[t] = z[i[t]]

Joined == /\ mainpc \in {"join2", "fprintf", "exit"} => pc[1] = "done"
          /\ mainpc \in {"fprintf", "exit"} => pc[2] = "done"
          /\ mainpc = "exit" => printed = z

IInv == TypeOK /\ InPart /\ Sums /\ Owner /\ Loaded /\ Joined
-----------------------------------------------------------------------------
(* The parts are within the matrix, and one thread's rows end where those of the
   other begin when there is no lock. *)
LEMMA Parts ==
  ASSUME program \in Programs
  PROVE  /\ \A t \in Threads :
              /\ First(t) \in Nat /\ End(t) \in Nat /\ First(t) <= End(t) /\ End(t) <= Rows
              /\ KFirst(t) \in Nat /\ KEnd(t) \in Nat /\ KFirst(t) <= KEnd(t) /\ KEnd(t) <= Terms
         /\ program = "3_1" => End(1) = First(2)
         /\ Rows \in Nat /\ Terms \in Nat
<1>1. Rows \in Nat /\ Rows >= 1 /\ Terms \in Nat
  BY AccumulateAssumption
<1>2. /\ Rows \div 2 \in Nat /\ Rows \div 2 <= Rows
      /\ Terms \div 2 \in Nat /\ Terms \div 2 <= Terms
  BY <1>1
<1>3. ASSUME NEW t \in Threads
      PROVE  /\ First(t) \in Nat /\ End(t) \in Nat /\ First(t) <= End(t) /\ End(t) <= Rows
             /\ KFirst(t) \in Nat /\ KEnd(t) \in Nat /\ KFirst(t) <= KEnd(t) /\ KEnd(t) <= Terms
  BY <1>1, <1>2 DEF Programs, Threads, First, End, KFirst, KEnd
<1>4. program = "3_1" => End(1) = First(2)
  BY DEF End, First
<1> QED
  BY <1>1, <1>3, <1>4

LEMMA InitIInv == Init => IInv
<1> SUFFICES ASSUME Init PROVE IInv
  OBVIOUS
<1>1. program \in Programs
  BY DEF Init
<1>2. \A t \in Threads : /\ First(t) \in Nat /\ KFirst(t) \in Nat
                         /\ i[t] = First(t) /\ k[t] = KFirst(t) /\ pc[t] = "new"
  BY <1>1, Parts DEF Init
<1>3. TypeOK
  BY <1>1, <1>2 DEF Init, TypeOK, Zero
<1>4. InPart
  BY <1>1, <1>2, Parts DEF InPart
<1>5. Sums
  <2>1. SUFFICES ASSUME NEW r \in Row, NEW x \in Term
                 PROVE  z[r][x] = Added(1, r, x) + Added(2, r, x)
    BY DEF Sums
  <2>2. r \in Int /\ x \in Int
    BY DEF Row, Term
  <2>3. ASSUME NEW t \in Threads PROVE Added(t, r, x) = 0
    BY <1>2, <2>2 DEF Added, Did, Mine
  <2>4. z[r][x] = 0
    BY DEF Init, Zero
  <2> QED
    BY <2>3, <2>4 DEF Threads
<1>6. Owner /\ Loaded /\ Joined
  BY <1>2 DEF Init, Owner, Loaded, Joined
<1> QED
  BY <1>3, <1>4, <1>5, <1>6 DEF IInv
-----------------------------------------------------------------------------
(* A step that moves thread t only, and neither the sums nor what t has added. *)
LEMMA MoveStep ==
  ASSUME IInv, NEW t \in Threads,
         NEW to \in {"for", "store", "unlock", "done"}, Goto(t, pc[t], to),
         UNCHANGED <<program, z, i, k, mainpc, printed>>,
         acc' \in [Threads -> [Term -> Nat]], \A u \in Threads \ {t} : acc'[u] = acc[u],
         to = "store" => i[t] < End(t) /\ k[t] < KEnd(t) /\ acc'[t] = z[i[t]],
         to \in {"unlock", "done"} => i[t] = End(t),
         program # "3_1" => \/ lock' = t /\ lock \in {Free, t}
                            \/ to = "done" /\ lock = t,
         pc[t] # "done"
  PROVE  IInv'
<1>1. TypeOK /\ pc' = [pc EXCEPT ![t] = to]
  BY DEF IInv, Goto
<1>2. pc'[t] = to /\ \A u \in Threads \ {t} : pc'[u] = pc[u]
  BY <1>1 DEF TypeOK
<1>3. \A u \in Threads : First(u)' = First(u) /\ End(u)' = End(u)
                         /\ KFirst(u)' = KFirst(u) /\ KEnd(u)' = KEnd(u)
  BY DEF First, End, KFirst, KEnd
<1>4. TypeOK'
  BY <1>1 DEF TypeOK
<1>5. InPart'
  BY <1>2, <1>3 DEF IInv, InPart
<1>6. Sums'
  <2>1. \A u \in Threads, r \in Row, x \in Term : Added(u, r, x)' = Added(u, r, x)
    BY <1>3 DEF Added, Did, Mine
  <2> QED
    BY <2>1 DEF IInv, Sums, Threads
<1>7. Owner'
  BY <1>2 DEF IInv, Owner, Threads, Free
<1>8. Loaded'
  BY <1>1, <1>2 DEF IInv, Loaded, TypeOK
<1>9. Joined'
  BY <1>1, <1>2 DEF IInv, Joined, Threads
<1> QED
  BY <1>4, <1>5, <1>6, <1>7, <1>8, <1>9 DEF IInv

LEMMA LockSteps ==
  ASSUME IInv, NEW t \in Threads, Lock(t) \/ Unlock(t),
         UNCHANGED <<program, mainpc, unread, printed>>
  PROVE  IInv'
<1>0. acc \in [Threads -> [Term -> Nat]]
  BY DEF IInv, TypeOK
<1>1. CASE Lock(t)
  <2>1. /\ Goto(t, pc[t], "for") /\ pc[t] # "done" /\ lock' = t /\ lock = Free
        /\ UNCHANGED <<program, z, i, k, mainpc, printed>> /\ acc' = acc
    BY <1>1 DEF Lock, Goto
  <2> QED
    BY <1>0, <2>1, MoveStep
<1>2. CASE Unlock(t)
  <2>1. /\ Goto(t, pc[t], "done") /\ pc[t] = "unlock"
        /\ UNCHANGED <<program, z, i, k, mainpc, printed>> /\ acc' = acc
    BY <1>2 DEF Unlock, Goto
  <2>2. i[t] = End(t)
    BY <2>1 DEF IInv, InPart
  <2>3. program # "3_1" => lock = t
    BY <2>1 DEF IInv, Owner
  <2> QED
    BY <1>0, <2>1, <2>2, <2>3, MoveStep
<1> QED
  BY <1>1, <1>2

LEMMA LoadStep ==
  ASSUME IInv, NEW t \in Threads, Load(t), UNCHANGED <<program, mainpc, unread, printed>>
  PROVE  IInv'
<1>1. Goto(t, pc[t], "store") /\ pc[t] = "for" /\ lock' = lock
      /\ UNCHANGED <<program, z, i, k, mainpc, printed>>
      /\ acc' = [acc EXCEPT ![t] = z[i[t]]]
      /\ i[t] < End(t) /\ k[t] < KEnd(t)
  BY DEF Load, Goto
<1>2. /\ acc'[t] = z[i[t]] /\ \A u \in Threads \ {t} : acc'[u] = acc[u]
      /\ acc' \in [Threads -> [Term -> Nat]]
  <2>1. TypeOK /\ i[t] \in Row
    BY <1>1, Parts DEF IInv, TypeOK, Row
  <2> QED
    BY <1>1, <2>1 DEF TypeOK
<1>3. program # "3_1" => lock = t
  BY <1>1 DEF IInv, Owner
<1> QED
  BY <1>1, <1>2, <1>3, MoveStep

LEMMA LoopDoneStep ==
  ASSUME IInv, NEW t \in Threads, LoopDone(t), UNCHANGED <<program, mainpc, unread, printed>>
  PROVE  IInv'
<1> DEFINE to == IF program = "3_1" THEN "done" ELSE "unlock"
<1>1. Goto(t, pc[t], to) /\ pc[t] = "for" /\ i[t] >= End(t)
      /\ UNCHANGED <<program, lock, z, i, k, acc, mainpc, printed>>
  BY DEF LoopDone, Goto
<1>2. i[t] = End(t)
  <2>1. program \in Programs /\ i[t] \in Nat
    BY DEF IInv, TypeOK
  <2>2. End(t) \in Nat /\ i[t] <= End(t)
    BY <2>1, Parts DEF IInv, InPart
  <2> QED
    BY <1>1, <2>1, <2>2
<1>3. program # "3_1" => lock = t
  BY <1>1 DEF IInv, Owner
<1>4. to \in {"unlock", "done"} /\ acc \in [Threads -> [Term -> Nat]]
  BY DEF IInv, TypeOK
<1> HIDE DEF to
<1> QED
  BY <1>1, <1>2, <1>3, <1>4, MoveStep

(* The end of a row: what remains of it is nothing. *)
LEMMA NextRowStep ==
  ASSUME IInv, NEW t \in Threads, NextRow(t), UNCHANGED <<program, mainpc, unread, printed>>
  PROVE  IInv'
<1>1. TypeOK /\ program \in Programs
  BY DEF IInv, TypeOK
<1>2. /\ pc[t] = "for" /\ pc' = pc /\ i[t] < End(t) /\ k[t] >= KEnd(t)
      /\ i' = [i EXCEPT ![t] = @ + 1] /\ k' = [k EXCEPT ![t] = KFirst(t)]
      /\ UNCHANGED <<program, lock, z, acc, mainpc, printed>>
  BY <1>1 DEF NextRow, Goto, TypeOK
<1>3. /\ \A u \in Threads \ {t} : i'[u] = i[u] /\ k'[u] = k[u]
      /\ i'[t] = i[t] + 1 /\ k'[t] = KFirst(t)
  BY <1>1, <1>2 DEF TypeOK
<1>4. \A u \in Threads : First(u)' = First(u) /\ End(u)' = End(u)
                         /\ KFirst(u)' = KFirst(u) /\ KEnd(u)' = KEnd(u)
  BY <1>2 DEF First, End, KFirst, KEnd
<1>5. TypeOK'
  <2>1. i' \in [Threads -> Nat] /\ k' \in [Threads -> Nat]
    BY <1>1, <1>2, Parts DEF TypeOK
  <2> QED
    BY <1>1, <1>2, <2>1 DEF TypeOK
<1>6. InPart'
  <2>1. SUFFICES ASSUME NEW u \in Threads
                 PROVE  /\ First(u) <= i'[u] /\ i'[u] <= End(u)
                        /\ KFirst(u) <= k'[u] /\ k'[u] <= KEnd(u)
                        /\ pc[u] = "store" => i'[u] < End(u) /\ k'[u] < KEnd(u)
                        /\ pc[u] \in {"unlock", "done"} => i'[u] = End(u)
    BY <1>2, <1>4 DEF InPart
  <2>2. CASE u = t
    BY <2>2, <1>1, <1>2, <1>3, Parts DEF IInv, InPart, TypeOK
  <2>3. CASE u # t
    BY <2>3, <1>3 DEF IInv, InPart
  <2> QED
    BY <2>2, <2>3
<1>7. Sums'
  <2>1. SUFFICES ASSUME NEW r \in Row, NEW x \in Term, NEW u \in Threads
                 PROVE  Added(u, r, x)' = Added(u, r, x)
    BY <1>2 DEF IInv, Sums, Threads
  <2>2. r \in Int /\ x \in Int
    BY DEF Row, Term
  <2>3. Mine(u, r, x)' <=> Mine(u, r, x)
    BY <1>4 DEF Mine
  <2>4. CASE u = t
    <3>1. Mine(t, r, x) => x < k[t] /\ ~(x < KFirst(t))
      BY <1>1, <1>2, <2>2, Parts DEF Mine, TypeOK
    <3>2. i[t] \in Nat
      BY <1>1 DEF TypeOK
    <3>3. Did(t, r, x)' <=> Mine(t, r, x) /\ r < i[t] + 1
      <4>1. Did(t, r, x)' <=> Mine(t, r, x)' /\ (r < i'[t] \/ (r = i'[t] /\ x < k'[t]))
        BY DEF Did
      <4> QED
        BY <4>1, <1>3, <2>3, <2>4, <3>1
    <3>4. Did(t, r, x)' <=> Did(t, r, x)
      BY <2>2, <3>1, <3>2, <3>3 DEF Did
    <3> QED
      BY <2>4, <3>4 DEF Added
  <2>5. CASE u # t
    BY <2>5, <2>3, <1>3 DEF Added, Did
  <2> QED
    BY <2>4, <2>5
<1>8. Owner'
  BY <1>2 DEF IInv, Owner
<1>9. Loaded'
  BY <1>2, <1>3 DEF IInv, Loaded
<1>10. Joined'
  BY <1>2 DEF IInv, Joined
<1> QED
  BY <1>5, <1>6, <1>7, <1>8, <1>9, <1>10 DEF IInv

(* A store adds the term that its thread is at, to a sum nobody changed meanwhile. *)
LEMMA StoreStep ==
  ASSUME IInv, NEW t \in Threads, Store(t), UNCHANGED <<program, mainpc, unread, printed>>
  PROVE  IInv'
<1>1. TypeOK /\ program \in Programs
  BY DEF IInv, TypeOK
<1>2. PICK r0, x0 : r0 = i[t] /\ x0 = k[t]
  OBVIOUS
<1>3. /\ pc[t] = "store" /\ pc' = [pc EXCEPT ![t] = "for"]
      /\ z' = [z EXCEPT ![r0] = [acc[t] EXCEPT ![x0] = @ + 1]]
      /\ k' = [k EXCEPT ![t] = @ + 1]
      /\ UNCHANGED <<program, lock, i, acc, mainpc, printed>>
  BY <1>2 DEF Store, Goto
<1>4. /\ First(t) <= r0 /\ r0 < End(t) /\ KFirst(t) <= x0 /\ x0 < KEnd(t)
      /\ acc[t] = z[r0]
  BY <1>2, <1>3 DEF IInv, InPart, Loaded
<1>5. r0 \in Nat /\ x0 \in Nat /\ r0 \in Row /\ x0 \in Term
  BY <1>1, <1>2, <1>4, Parts DEF TypeOK, Row, Term
<1>6. /\ \A r \in Row, x \in Term : (r # r0 \/ x # x0) => z'[r][x] = z[r][x]
      /\ z'[r0][x0] = z[r0][x0] + 1
      /\ \A r \in Row : r # r0 => z'[r] = z[r]
      /\ z' \in [Row -> [Term -> Nat]]
  <2>1. z[r0] \in [Term -> Nat]
    BY <1>1, <1>5 DEF TypeOK
  <2> QED
    BY <1>1, <1>3, <1>4, <1>5, <2>1 DEF TypeOK
<1>7. /\ pc'[t] = "for" /\ k'[t] = x0 + 1
      /\ \A u \in Threads \ {t} : pc'[u] = pc[u] /\ k'[u] = k[u]
  BY <1>1, <1>2, <1>3 DEF TypeOK
<1>8. \A u \in Threads : First(u)' = First(u) /\ End(u)' = End(u)
                         /\ KFirst(u)' = KFirst(u) /\ KEnd(u)' = KEnd(u)
  BY <1>3 DEF First, End, KFirst, KEnd
<1>9. TypeOK'
  BY <1>1, <1>3, <1>6 DEF TypeOK
<1>10. InPart'
  <2>1. SUFFICES ASSUME NEW u \in Threads
                 PROVE  /\ First(u) <= i[u] /\ i[u] <= End(u)
                        /\ KFirst(u) <= k'[u] /\ k'[u] <= KEnd(u)
                        /\ pc'[u] = "store" => i[u] < End(u) /\ k'[u] < KEnd(u)
                        /\ pc'[u] \in {"unlock", "done"} => i[u] = End(u)
    BY <1>3, <1>8 DEF InPart
  <2>2. CASE u = t
    BY <2>2, <1>1, <1>4, <1>5, <1>7, Parts DEF IInv, InPart
  <2>3. CASE u # t
    BY <2>3, <1>7 DEF IInv, InPart
  <2> QED
    BY <2>2, <2>3
<1>11. Sums'
  <2>1. SUFFICES ASSUME NEW r \in Row, NEW x \in Term
                 PROVE  z'[r][x] = Added(1, r, x)' + Added(2, r, x)'
    BY DEF Sums
  <2>2. r \in Int /\ x \in Int
    BY DEF Row, Term
  <2>3. \A u \in Threads : Mine(u, r, x)' <=> Mine(u, r, x)
    BY <1>8 DEF Mine
  <2>4. ASSUME NEW u \in Threads, u # t PROVE Added(u, r, x)' = Added(u, r, x)
    BY <2>3, <2>4, <1>3, <1>7 DEF Added, Did
  <2>5. CASE r = r0 /\ x = x0
    <3>1. Mine(t, r, x)
      BY <2>5, <1>4 DEF Mine
    <3>2. ~Did(t, r, x) /\ Did(t, r, x)'
      BY <3>1, <2>3, <2>5, <1>2, <1>3, <1>5, <1>7 DEF Did
    <3>3. Added(t, r, x) = 0 /\ Added(t, r, x)' = 1
      BY <3>2 DEF Added
    <3> QED
      BY <3>3, <2>4, <2>5, <1>6 DEF IInv, Sums, Added, Threads
  <2>6. CASE r # r0 \/ x # x0
    <3>1. Did(t, r, x)' <=> Did(t, r, x)
      BY <2>2, <2>3, <2>6, <1>2, <1>3, <1>5, <1>7 DEF Did
    <3>2. Added(t, r, x)' = Added(t, r, x)
      BY <3>1 DEF Added
    <3> QED
      BY <3>2, <2>4, <2>6, <1>6 DEF IInv, Sums, Threads
  <2> QED
    BY <2>5, <2>6
<1>12. Owner'
  BY <1>3, <1>7 DEF IInv, Owner
<1>13. Loaded'
  <2>1. SUFFICES ASSUME NEW u \in Threads, u # t, pc[u] = "store"
                 PROVE  acc[u] = z'[i[u]]
    BY <1>3, <1>7 DEF Loaded
  <2>2. program = "3_1"
    BY <2>1, <1>3 DEF IInv, Owner
  <2>3. i[u] \in Nat /\ First(u) <= i[u] /\ i[u] < End(u)
    BY <2>1, <1>1 DEF IInv, InPart, TypeOK
  <2>4. i[u] # r0
    BY <2>1, <2>2, <2>3, <1>1, <1>4, <1>5, Parts DEF Threads
  <2>5. i[u] \in Row
    BY <2>1, <2>3, <1>1, Parts DEF Row
  <2> QED
    BY <2>1, <2>4, <2>5, <1>6 DEF IInv, Loaded
<1>14. Joined'
  BY <1>3, <1>7 DEF IInv, Joined, Threads
<1> QED
  BY <1>9, <1>10, <1>11, <1>12, <1>13, <1>14 DEF IInv
-----------------------------------------------------------------------------
(* main starts a thread at the lock, or at its loop when there is no lock. *)
LEMMA CreateStep == ASSUME IInv, NEW t \in Threads, Create(t) PROVE IInv'
<1> DEFINE to == IF program = "3_1" THEN "for" ELSE "lock"
<1>1. TypeOK
  BY DEF IInv
<1>2. pc' = [pc EXCEPT ![t] = to] /\ UNCHANGED <<program, lock, z, i, k, acc, printed>>
  BY DEF Create
<1>3. pc'[t] = to /\ \A u \in Threads \ {t} : pc'[u] = pc[u]
  BY <1>1, <1>2 DEF TypeOK
<1>4. \A u \in Threads : First(u)' = First(u) /\ End(u)' = End(u)
                         /\ KFirst(u)' = KFirst(u) /\ KEnd(u)' = KEnd(u)
  BY <1>2 DEF First, End, KFirst, KEnd
<1>5. mainpc' \in {"create2", "read", "join1"}
  <2>1. CASE t = 1
    BY <2>1 DEF Create, MainGoto
  <2>2. CASE t = 2
    BY <2>2 DEF Create, MainGoto
  <2> QED
    BY <2>1, <2>2 DEF Threads
<1>6. TypeOK'
  BY <1>1, <1>2 DEF TypeOK
<1>7. InPart'
  BY <1>2, <1>3, <1>4 DEF IInv, InPart
<1>8. Sums'
  <2>1. \A u \in Threads, r \in Row, x \in Term : Added(u, r, x)' = Added(u, r, x)
    BY <1>2, <1>4 DEF Added, Did, Mine
  <2> QED
    BY <2>1, <1>2 DEF IInv, Sums, Threads
<1>9. Owner' /\ Loaded'
  BY <1>2, <1>3 DEF IInv, Owner, Loaded
<1>10. Joined'
  BY <1>5 DEF Joined
<1> QED
  BY <1>6, <1>7, <1>8, <1>9, <1>10 DEF IInv

(* The rest of main reads and waits: the threads' variables stay as they are. *)
LEMMA MainStep ==
  ASSUME IInv, UNCHANGED <<program, threadVars>>, Joined' PROVE IInv'
<1>1. UNCHANGED <<program, lock, z, pc, i, k, acc>>
  BY DEF threadVars
<1>2. \A u \in Threads : First(u)' = First(u) /\ End(u)' = End(u)
                         /\ KFirst(u)' = KFirst(u) /\ KEnd(u)' = KEnd(u)
  BY <1>1 DEF First, End, KFirst, KEnd
<1>3. \A u \in Threads, r \in Row, x \in Term : Added(u, r, x)' = Added(u, r, x)
  BY <1>1, <1>2 DEF Added, Did, Mine
<1>4. Sums'
  BY <1>1, <1>3 DEF IInv, Sums, Threads
<1>5. TypeOK' /\ InPart' /\ Owner' /\ Loaded'
  BY <1>1, <1>2 DEF IInv, TypeOK, InPart, Owner, Loaded
<1> QED
  BY <1>4, <1>5 DEF IInv

LEMMA NextIInv == IInv /\ [Next]_vars => IInv'
<1> SUFFICES ASSUME IInv, [Next]_vars PROVE IInv'
  OBVIOUS
<1>1. ASSUME NEW t \in Threads, Thread(t) PROVE IInv'
  BY <1>1, LockSteps, LoadStep, StoreStep, NextRowStep, LoopDoneStep DEF Thread
<1>2. ASSUME NEW t \in Threads, Create(t) PROVE IInv'
  BY <1>2, CreateStep
<1>3. ASSUME EndOfFile \/ (\E t \in Threads : Visit(t)) PROVE IInv'
  <2>1. UNCHANGED <<program, threadVars, printed>> /\ mainpc' \in {mainpc, "join1"}
    BY <1>3 DEF EndOfFile, Visit, MainGoto
  <2>2. Joined'
    BY <2>1 DEF IInv, Joined, threadVars
  <2> QED
    BY <2>1, <2>2, MainStep
<1>4. ASSUME NEW t \in Threads, Join(t) PROVE IInv'
  <2>1. /\ UNCHANGED <<program, threadVars, printed>> /\ pc[t] = "done"
        /\ \/ t = 1 /\ mainpc' = "join2"
           \/ t = 2 /\ mainpc = "join2" /\ mainpc' = "fprintf"
    BY <1>4 DEF Join, MainGoto, Threads
  <2>2. Joined'
    BY <2>1 DEF IInv, Joined, threadVars
  <2> QED
    BY <2>1, <2>2, MainStep
<1>5. ASSUME Fprintf PROVE IInv'
  <2>1. /\ UNCHANGED <<program, threadVars>> /\ mainpc = "fprintf" /\ mainpc' = "exit"
        /\ printed' = z
    BY <1>5 DEF Fprintf, MainGoto
  <2>2. Joined'
    BY <2>1 DEF IInv, Joined, threadVars
  <2> QED
    BY <2>1, <2>2, MainStep
<1>6. CASE UNCHANGED vars
  <2>1. UNCHANGED <<program, threadVars, mainpc, printed>>
    BY <1>6 DEF vars, threadVars
  <2>2. Joined'
    BY <2>1 DEF IInv, Joined, threadVars
  <2> QED
    BY <2>1, <2>2, MainStep
<1> QED
  BY <1>1, <1>2, <1>3, <1>4, <1>5, <1>6 DEF Next, Main, Terminated, Spin
-----------------------------------------------------------------------------
(* The sums that main prints are complete, for every number of rows and terms. *)
THEOREM Sum == SafetySpec => []SumPrinted
<1>1. SafetySpec => []IInv
  BY InitIInv, NextIInv, PTL DEF SafetySpec
<1>2. IInv => SumPrinted
  <2>1. SUFFICES ASSUME IInv, mainpc = "exit", NEW rx \in Summed
                 PROVE  printed[rx[1]][rx[2]] = Adders
    BY DEF SumPrinted
  <2>2. PICK r \in Row, x \in Term : rx = <<r, x>> /\ (program = "1_1" => r = 0)
    BY DEF Summed
  <2>3. printed[r][x] = Added(1, r, x) + Added(2, r, x)
    BY <2>1 DEF IInv, Joined, Sums
  <2>4. /\ r \in Nat /\ r < Rows /\ x \in Nat /\ x < Terms /\ program \in Programs
        /\ Rows \in Nat /\ Terms \in Nat /\ Rows \div 2 \in Nat /\ Terms \div 2 \in Nat
    BY <2>1, AccumulateAssumption DEF Row, Term, IInv, TypeOK
  <2>5. \A t \in Threads : Did(t, r, x) <=> Mine(t, r, x)
    <3>1. \A t \in Threads : i[t] = End(t)
      BY <2>1 DEF IInv, Joined, InPart, Threads
    <3> QED
      BY <3>1 DEF Did, Mine
  <2>6. CASE program = "1_1"
    BY <2>2, <2>3, <2>4, <2>5, <2>6 DEF Added, Mine, First, End, KFirst, KEnd, Adders, Threads
  <2>7. CASE program = "2_2"
    BY <2>2, <2>3, <2>4, <2>5, <2>7 DEF Added, Mine, First, End, KFirst, KEnd, Adders, Threads
  <2>8. CASE program = "3_1"
    BY <2>2, <2>3, <2>4, <2>5, <2>8 DEF Added, Mine, First, End, KFirst, KEnd, Adders, Threads
  <2> QED
    BY <2>4, <2>6, <2>7, <2>8 DEF Programs
<1> QED
  BY <1>1, <1>2, PTL
=============================================================================
