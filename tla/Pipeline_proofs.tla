-------------------------- MODULE Pipeline_proofs --------------------------
(***************************************************************************)
(* Which process holds which pipe end, in a pipeline of any length, of any *)
(* programs, and whatever call fails; and what comes out of it.            *)
(*                                                                         *)
(* How far a process has come says what it holds: the shell the pipes it   *)
(* has made, then all, then those it has not closed yet; a child all until *)
(* it closes them, and from its dup2 on the two ends that are its own.     *)
(***************************************************************************)
EXTENDS Pipeline, TLAPS

ShellAt == {"pipe", "fork", "close", "wait", "returned", "zombie"}
ChildAt == {"unborn", "dup", "close", "exec", "run", "zombie"}

TypeOK == /\ pc \in [Procs -> ShellAt \cup ChildAt]
          /\ pc[Shell] \in ShellAt /\ \A p \in Commands : pc[p] \in ChildAt
          /\ i \in [Procs -> Nat]
          /\ fds \in [Procs -> SUBSET (Pipes \X {"r", "w"})]
          /\ stdin \in [Procs -> Nat] /\ stdout \in [Procs -> Nat]

(* In its pipes array p has exactly the ends of the pipes in S. *)
Has(p, S) == \A c \in Pipes : /\ <<c, "r">> \in fds[p] <=> c \in S
                              /\ <<c, "w">> \in fds[p] <=> c \in S

ShellHas ==
  /\ stdin[Shell] = Tty /\ stdout[Shell] = Tty
  /\ pc[Shell] = "pipe" => i[Shell] \in Pipes /\ Has(Shell, 1 .. i[Shell] - 1)
  /\ pc[Shell] = "fork" => i[Shell] \in Commands /\ Has(Shell, Pipes)
  /\ pc[Shell] = "close" => i[Shell] \in Pipes /\ Has(Shell, i[Shell] .. Count - 1)
  /\ pc[Shell] \in {"wait", "returned", "zombie"} => Has(Shell, {})

Born == /\ pc[Shell] = "fork" => \A p \in Commands : pc[p] = "unborn" <=> p >= i[Shell]
        /\ pc[Shell] = "pipe" => \A p \in Commands : pc[p] = "unborn"
        /\ pc[Shell] \in {"close", "wait", "returned"} => \A p \in Commands : pc[p] # "unborn"

Joins(p) == stdin[p] = p - 1 /\ stdout[p] = IF p < Count THEN p ELSE Tty

ChildHas ==
  \A p \in Commands :
    /\ pc[p] \in {"unborn", "dup", "zombie"} => stdin[p] = Tty /\ stdout[p] = Tty
    /\ pc[p] \in {"unborn", "dup"} => i[p] = 1
    /\ pc[p] = "dup" => Has(p, Pipes)
    /\ pc[p] = "close" => i[p] \in Pipes /\ Has(p, i[p] .. Count - 1)
    /\ pc[p] \in {"unborn", "exec", "run", "zombie"} => Has(p, {})
    /\ pc[p] \in {"close", "exec", "run"} => Joins(p)

IInv == TypeOK /\ ShellHas /\ Born /\ ChildHas
-----------------------------------------------------------------------------
LEMMA Constants ==
  /\ Count \in Nat /\ Count >= 2 /\ Shell = 0 /\ Tty = 0
  /\ Commands = 1 .. Count /\ Pipes = 1 .. Count - 1
  /\ Procs = {Shell} \cup Commands /\ Shell \notin Commands
BY PipelineAssumption DEF Shell, Tty, Commands, Pipes, Procs

(* The two ends of a pipe, taken or closed, are those of that pipe only. *)
LEMMA EndsOf ==
  ASSUME NEW d \in Pipes
  PROVE  /\ Ends(d) \subseteq Pipes \X {"r", "w"}
         /\ \A c \in Pipes : /\ <<c, "r">> \in Ends(d) <=> c = d
                             /\ <<c, "w">> \in Ends(d) <=> c = d
BY DEF Ends

LEMMA InitIInv == Init => IInv
<1> SUFFICES ASSUME Init PROVE IInv
  OBVIOUS
<1>1. /\ pc[Shell] = "pipe" /\ \A p \in Commands : pc[p] = "unborn"
      /\ \A p \in Procs : /\ i[p] = 1 /\ fds[p] = {}
                          /\ stdin[p] = Tty /\ stdout[p] = Tty
  BY Constants DEF Init
<1>2. TypeOK
  BY <1>1, Constants DEF Init, TypeOK, ShellAt, ChildAt
<1>3. ShellHas
  <2>1. 1 \in Pipes /\ Has(Shell, 1 .. 0)
    BY <1>1, Constants DEF Has
  <2> QED
    BY <1>1, <2>1, Constants DEF ShellHas
<1>4. Born
  BY <1>1 DEF Born
<1>5. ChildHas
  BY <1>1, Constants DEF ChildHas, Has
<1> QED
  BY <1>2, <1>3, <1>4, <1>5 DEF IInv

(* A process that ends has nothing open any more. *)
LEMMA ExitStep ==
  ASSUME IInv, NEW p \in Procs, pc[p] # "unborn", Exit(p) PROVE IInv'
<1>1. TypeOK
  BY DEF IInv
<1>2. /\ pc'[p] = "zombie" /\ fds'[p] = {} /\ stdin'[p] = Tty /\ stdout'[p] = Tty
      /\ \A q \in Procs \ {p} : /\ pc'[q] = pc[q] /\ fds'[q] = fds[q]
                                /\ stdin'[q] = stdin[q] /\ stdout'[q] = stdout[q]
      /\ i' = i
  BY <1>1 DEF Exit, Goto, TypeOK
<1>3. TypeOK'
  BY <1>1, <1>2, Constants DEF Exit, Goto, TypeOK, ShellAt, ChildAt
<1>4. ShellHas'
  <2>1. CASE p = Shell
    BY <2>1, <1>2 DEF ShellHas, Has
  <2>2. CASE p # Shell
    BY <2>2, <1>2, Constants DEF IInv, ShellHas, Has
  <2> QED
    BY <2>1, <2>2
<1>5. Born'
  <2>1. CASE p = Shell
    BY <2>1, <1>2 DEF Born
  <2>2. CASE p # Shell
    BY <2>2, <1>2, Constants DEF IInv, Born
  <2> QED
    BY <2>1, <2>2
<1>6. ChildHas'
  <2>1. SUFFICES ASSUME NEW q \in Commands
        PROVE  /\ pc'[q] \in {"unborn", "dup", "zombie"} => stdin'[q] = Tty /\ stdout'[q] = Tty
               /\ pc'[q] \in {"unborn", "dup"} => i'[q] = 1
               /\ pc'[q] = "dup" => Has(q, Pipes)'
               /\ pc'[q] = "close" => i'[q] \in Pipes /\ Has(q, i[q] .. Count - 1)'
               /\ pc'[q] \in {"unborn", "exec", "run", "zombie"} => Has(q, {})'
               /\ pc'[q] \in {"close", "exec", "run"} => Joins(q)'
    BY DEF ChildHas, Has
  <2>2. CASE q = p
    BY <2>2, <1>2 DEF Has
  <2>3. CASE q # p
    BY <2>3, <1>2, Constants DEF IInv, ChildHas, Has, Joins
  <2> QED
    BY <2>2, <2>3
<1> QED
  BY <1>3, <1>4, <1>5, <1>6 DEF IInv

(* A step that leaves the processes alone *)
LEMMA DataStep == ASSUME IInv, UNCHANGED procvars PROVE IInv'
<1>1. UNCHANGED <<pc, i, fds, stdin, stdout>>
  BY DEF procvars
<1>2. TypeOK' /\ Born'
  BY <1>1 DEF IInv, TypeOK, Born
<1>3. ShellHas'
  BY <1>1 DEF IInv, ShellHas, Has
<1>4. ChildHas'
  BY <1>1 DEF IInv, ChildHas, Has, Joins
<1> QED
  BY <1>2, <1>3, <1>4 DEF IInv
-----------------------------------------------------------------------------
(* A step of the shell that leaves its children alone *)
LEMMA ShellOnly ==
  ASSUME IInv, TypeOK', ShellHas', Born',
         \A q \in Commands : /\ pc'[q] = pc[q] /\ i'[q] = i[q] /\ fds'[q] = fds[q]
                             /\ stdin'[q] = stdin[q] /\ stdout'[q] = stdout[q]
  PROVE  IInv'
<1>1. ChildHas'
  BY DEF IInv, ChildHas, Has, Joins
<1> QED
  BY <1>1 DEF IInv

LEMMA MakePipeStep == ASSUME IInv, MakePipe PROVE IInv'
<1>1. PICK n : n = i[Shell]
  OBVIOUS
<1>2. TypeOK /\ pc[Shell] = "pipe" /\ n \in Pipes /\ Has(Shell, 1 .. n - 1)
  BY <1>1 DEF IInv, ShellHas, MakePipe, Loop, At
<1>3. /\ fds' = [fds EXCEPT ![Shell] = @ \cup Ends(n)]
      /\ stdin' = stdin /\ stdout' = stdout
      /\ IF n < Count - 1
         THEN i' = [i EXCEPT ![Shell] = @ + 1] /\ pc' = pc
         ELSE i' = [i EXCEPT ![Shell] = 1] /\ pc' = [pc EXCEPT ![Shell] = "fork"]
  BY <1>1 DEF MakePipe, Loop, Goto
<1>4. /\ \A q \in Commands : pc'[q] = pc[q] /\ i'[q] = i[q] /\ fds'[q] = fds[q]
      /\ fds'[Shell] = fds[Shell] \cup Ends(n)
      /\ IF n < Count - 1 THEN i'[Shell] = n + 1 /\ pc'[Shell] = "pipe"
                          ELSE i'[Shell] = 1 /\ pc'[Shell] = "fork"
  BY <1>1, <1>2, <1>3, Constants DEF TypeOK
<1>5. TypeOK'
  <2>1. fds' \in [Procs -> SUBSET (Pipes \X {"r", "w"})]
    BY <1>2, <1>3, EndsOf DEF TypeOK
  <2>2. i' \in [Procs -> Nat]
    BY <1>2, <1>3 DEF TypeOK
  <2>3. pc' \in [Procs -> ShellAt \cup ChildAt]
    BY <1>2, <1>3 DEF TypeOK, ShellAt
  <2>4. pc'[Shell] \in ShellAt
    BY <1>4 DEF ShellAt
  <2> QED
    BY <2>1, <2>2, <2>3, <2>4, <1>2, <1>3, <1>4 DEF TypeOK
<1>6. Has(Shell, 1 .. n)'
  <2>1. SUFFICES ASSUME NEW c \in Pipes
                 PROVE  /\ <<c, "r">> \in fds'[Shell] <=> c \in 1 .. n
                        /\ <<c, "w">> \in fds'[Shell] <=> c \in 1 .. n
    BY DEF Has
  <2>2. c \in 1 .. n <=> c \in 1 .. n - 1 \/ c = n
    BY <1>2, Constants
  <2> QED
    BY <2>2, <1>2, <1>4, EndsOf DEF Has
<1>7. ShellHas'
  <2>1. stdin'[Shell] = Tty /\ stdout'[Shell] = Tty
    BY <1>3 DEF IInv, ShellHas
  <2>2. CASE n < Count - 1
    <3>1. n = i'[Shell] - 1 /\ i'[Shell] \in Pipes /\ pc'[Shell] = "pipe"
      BY <1>2, <1>4, <2>2, Constants
    <3>2. Has(Shell, 1 .. i[Shell] - 1)'
      BY <3>1, <1>6 DEF Has
    <3> QED
      BY <2>1, <3>1, <3>2 DEF ShellHas
  <2>3. CASE ~(n < Count - 1)
    <3>1. 1 .. n = Pipes /\ 1 \in Commands
      BY <1>2, <2>3, Constants
    <3> QED
      BY <2>1, <2>3, <3>1, <1>4, <1>6 DEF ShellHas
  <2> QED
    BY <2>2, <2>3
<1>8. Born'
  BY <1>2, <1>4, Constants DEF IInv, Born
<1> QED
  BY <1>3, <1>4, <1>5, <1>7, <1>8, ShellOnly

(* A child is born with the shell's pipe ends. *)
LEMMA ForkStep == ASSUME IInv, Fork PROVE IInv'
<1>1. PICK n : n = i[Shell]
  OBVIOUS
<1>2. TypeOK /\ pc[Shell] = "fork" /\ n \in Commands /\ Has(Shell, Pipes)
      /\ \A q \in Commands : pc[q] = "unborn" <=> q >= n
  BY <1>1 DEF IInv, ShellHas, Born, Fork, At
<1>3. /\ pc' = [pc EXCEPT ![n] = "dup", ![Shell] = IF n < Count THEN "fork" ELSE "close"]
      /\ i' = [i EXCEPT ![Shell] = IF n < Count THEN @ + 1 ELSE 1]
      /\ fds' = [fds EXCEPT ![n] = fds[Shell]]
      /\ stdin' = stdin /\ stdout' = stdout
  BY <1>1 DEF Fork
<1>4. pc[n] = "unborn" /\ n # Shell /\ n \in Procs /\ n \in Nat
  BY <1>2, Constants
<1>5. /\ \A q \in Commands \ {n} : pc'[q] = pc[q] /\ fds'[q] = fds[q]
      /\ \A q \in Commands : i'[q] = i[q]
      /\ pc'[n] = "dup" /\ fds'[n] = fds[Shell] /\ fds'[Shell] = fds[Shell]
      /\ IF n < Count THEN pc'[Shell] = "fork" /\ i'[Shell] = n + 1
                      ELSE pc'[Shell] = "close" /\ i'[Shell] = 1
  BY <1>1, <1>2, <1>3, <1>4, Constants DEF TypeOK
<1>6. TypeOK'
  <2>1. fds' \in [Procs -> SUBSET (Pipes \X {"r", "w"})]
    BY <1>2, <1>3, Constants DEF TypeOK
  <2>3. i' \in [Procs -> Nat]
    <3>1. n + 1 \in Nat /\ i \in [Procs -> Nat] /\ i[Shell] = n
      BY <1>1, <1>2, <1>4 DEF TypeOK
    <3> QED
      BY <3>1, <1>3
  <2>4. pc' \in [Procs -> ShellAt \cup ChildAt]
    BY <1>2, <1>3 DEF TypeOK, ShellAt, ChildAt
  <2>2. pc'[Shell] \in ShellAt /\ \A q \in Commands : pc'[q] \in ChildAt
    BY <1>2, <1>5 DEF TypeOK, ShellAt, ChildAt
  <2> QED
    BY <2>1, <2>2, <2>3, <2>4, <1>2, <1>3 DEF TypeOK
<1>7. ShellHas'
  <2>1. stdin'[Shell] = Tty /\ stdout'[Shell] = Tty /\ Has(Shell, Pipes)'
    BY <1>2, <1>3, <1>5 DEF IInv, ShellHas, Has
  <2>2. CASE n < Count
    BY <2>1, <2>2, <1>2, <1>5, Constants DEF ShellHas
  <2>3. CASE ~(n < Count)
    <3>1. i'[Shell] .. Count - 1 = Pipes /\ i'[Shell] \in Pipes
      BY <1>5, <2>3, Constants
    <3>2. Has(Shell, i[Shell] .. Count - 1)'
      BY <2>1, <3>1 DEF Has
    <3> QED
      BY <2>1, <2>3, <3>1, <3>2, <1>5 DEF ShellHas
  <2> QED
    BY <2>2, <2>3
<1>8. Born'
  <2>1. CASE n < Count
    BY <2>1, <1>2, <1>4, <1>5, Constants DEF Born
  <2>2. CASE ~(n < Count)
    BY <2>2, <1>2, <1>4, <1>5, Constants DEF Born
  <2> QED
    BY <2>1, <2>2
<1>9. ChildHas'
  <2>1. SUFFICES ASSUME NEW q \in Commands
        PROVE  /\ pc'[q] \in {"unborn", "dup", "zombie"} => stdin'[q] = Tty /\ stdout'[q] = Tty
               /\ pc'[q] \in {"unborn", "dup"} => i'[q] = 1
               /\ pc'[q] = "dup" => Has(q, Pipes)'
               /\ pc'[q] = "close" => i'[q] \in Pipes /\ Has(q, i[q] .. Count - 1)'
               /\ pc'[q] \in {"unborn", "exec", "run", "zombie"} => Has(q, {})'
               /\ pc'[q] \in {"close", "exec", "run"} => Joins(q)'
    BY DEF ChildHas
  <2>2. CASE q = n
    <3>1. Has(q, Pipes)'
      BY <2>2, <1>2, <1>5 DEF Has
    <3> QED
      BY <2>2, <3>1, <1>3, <1>4, <1>5 DEF IInv, ChildHas
  <2>3. CASE q # n
    BY <2>3, <1>3, <1>5 DEF IInv, ChildHas, Has, Joins
  <2> QED
    BY <2>2, <2>3
<1> QED
  BY <1>6, <1>7, <1>8, <1>9 DEF IInv

(* One round of the loop that closes the pipes, in the shell or in a child: n was the
   first pipe still open. *)
LEMMA Closed ==
  ASSUME IInv, NEW p \in Procs, ClosePipe(p), NEW n, n = i[p],
         n \in Pipes, Has(p, n .. Count - 1)
  PROVE  /\ pc[p] = "close" /\ Has(p, n + 1 .. Count - 1)'
         /\ \A q \in Procs \ {p} : pc'[q] = pc[q] /\ i'[q] = i[q] /\ fds'[q] = fds[q]
         /\ stdin' = stdin /\ stdout' = stdout
         /\ IF n < Count - 1 THEN i'[p] = n + 1 /\ pc'[p] = "close"
                             ELSE i'[p] = 1 /\ pc'[p] = IF p = Shell THEN "wait" ELSE "exec"
         /\ fds' \in [Procs -> SUBSET (Pipes \X {"r", "w"})]
         /\ i' \in [Procs -> Nat] /\ pc' \in [Procs -> ShellAt \cup ChildAt]
<1>1. TypeOK
  BY DEF IInv
<1>2. /\ fds' = [fds EXCEPT ![p] = @ \ Ends(n)]
      /\ pc[p] = "close" /\ stdin' = stdin /\ stdout' = stdout
      /\ IF n < Count - 1
         THEN i' = [i EXCEPT ![p] = @ + 1] /\ pc' = pc
         ELSE i' = [i EXCEPT ![p] = 1]
              /\ pc' = [pc EXCEPT ![p] = IF p = Shell THEN "wait" ELSE "exec"]
  BY DEF ClosePipe, Loop, Goto, At
<1>3. fds' \in [Procs -> SUBSET (Pipes \X {"r", "w"})]
  BY <1>1, <1>2 DEF TypeOK
<1>4. i' \in [Procs -> Nat] /\ pc' \in [Procs -> ShellAt \cup ChildAt]
  <2>1. n + 1 \in Nat /\ i \in [Procs -> Nat] /\ i[p] = n
    BY <1>1, Constants DEF TypeOK
  <2>2. i' \in [Procs -> Nat]
    BY <2>1, <1>2
  <2>3. pc' \in [Procs -> ShellAt \cup ChildAt]
    BY <1>1, <1>2 DEF TypeOK, ShellAt, ChildAt
  <2> QED
    BY <2>2, <2>3
<1>5. fds'[p] = fds[p] \ Ends(n) /\ \A q \in Procs \ {p} : fds'[q] = fds[q]
  BY <1>1, <1>2 DEF TypeOK
<1>6. Has(p, n + 1 .. Count - 1)'
  <2>1. SUFFICES ASSUME NEW c \in Pipes
                 PROVE  /\ <<c, "r">> \in fds'[p] <=> c \in n + 1 .. Count - 1
                        /\ <<c, "w">> \in fds'[p] <=> c \in n + 1 .. Count - 1
    BY DEF Has
  <2>2. c \in n + 1 .. Count - 1 <=> c \in n .. Count - 1 /\ c # n
    BY Constants
  <2> QED
    BY <2>2, <1>5, EndsOf DEF Has
<1>7. \A q \in Procs \ {p} : pc'[q] = pc[q] /\ i'[q] = i[q]
  BY <1>1, <1>2 DEF TypeOK
<1>8. IF n < Count - 1 THEN i'[p] = n + 1 /\ pc'[p] = "close"
                       ELSE i'[p] = 1 /\ pc'[p] = IF p = Shell THEN "wait" ELSE "exec"
  BY <1>1, <1>2 DEF TypeOK
<1> QED
  BY <1>2, <1>3, <1>4, <1>5, <1>6, <1>7, <1>8

LEMMA ShellCloseStep == ASSUME IInv, ClosePipe(Shell) PROVE IInv'
<1>1. PICK n : n = i[Shell]
  OBVIOUS
<1>2. TypeOK /\ Shell \in Procs /\ n \in Pipes /\ Has(Shell, n .. Count - 1)
  BY <1>1, Constants DEF IInv, ShellHas, ClosePipe, Loop, At
<1>3. /\ pc[Shell] = "close" /\ Has(Shell, n + 1 .. Count - 1)'
      /\ \A q \in Procs \ {Shell} : pc'[q] = pc[q] /\ i'[q] = i[q] /\ fds'[q] = fds[q]
      /\ stdin' = stdin /\ stdout' = stdout
      /\ IF n < Count - 1 THEN i'[Shell] = n + 1 /\ pc'[Shell] = "close"
                          ELSE i'[Shell] = 1 /\ pc'[Shell] = "wait"
      /\ fds' \in [Procs -> SUBSET (Pipes \X {"r", "w"})]
      /\ i' \in [Procs -> Nat] /\ pc' \in [Procs -> ShellAt \cup ChildAt]
  BY <1>1, <1>2, Closed
<1>4. TypeOK'
  BY <1>2, <1>3, Constants DEF TypeOK, ShellAt
<1>5. stdin'[Shell] = Tty /\ stdout'[Shell] = Tty
  BY <1>3 DEF IInv, ShellHas
<1>6. ShellHas'
  <2>1. CASE n < Count - 1
    <3>1. i'[Shell] \in Pipes /\ Has(Shell, i[Shell] .. Count - 1)'
      BY <1>2, <1>3, <2>1, Constants DEF Has
    <3> QED
      BY <3>1, <2>1, <1>3, <1>5 DEF ShellHas
  <2>2. CASE ~(n < Count - 1)
    <3>1. n + 1 .. Count - 1 = {}
      BY <1>2, <2>2, Constants
    <3> QED
      BY <3>1, <2>2, <1>3, <1>5 DEF ShellHas
  <2> QED
    BY <2>1, <2>2
<1>7. Born'
  BY <1>3, Constants DEF IInv, Born
<1> QED
  BY <1>3, <1>4, <1>6, <1>7, ShellOnly, Constants

LEMMA WaitStep == ASSUME IInv, Wait PROVE IInv'
<1>1. TypeOK /\ pc[Shell] = "wait"
  BY DEF IInv, Wait, Loop, At
<1>2. /\ fds' = fds /\ stdin' = stdin /\ stdout' = stdout
      /\ i' \in {[i EXCEPT ![Shell] = @ + 1], [i EXCEPT ![Shell] = 1]}
      /\ pc' \in {pc, [pc EXCEPT ![Shell] = "returned"]}
  BY DEF Wait, Loop, Goto
<1>3. /\ \A q \in Commands : pc'[q] = pc[q] /\ i'[q] = i[q]
      /\ pc'[Shell] \in {"wait", "returned"}
  BY <1>1, <1>2, Constants DEF TypeOK
<1>4. TypeOK'
  <2>1. i' \in [Procs -> Nat]
    <3>1. i \in [Procs -> Nat] /\ i[Shell] + 1 \in Nat
      BY <1>1, Constants DEF TypeOK
    <3> QED
      BY <3>1, <1>2
  <2>2. pc' \in [Procs -> ShellAt \cup ChildAt]
    BY <1>1, <1>2 DEF TypeOK, ShellAt
  <2> QED
    BY <2>1, <2>2, <1>1, <1>2, <1>3 DEF TypeOK, ShellAt
<1>5. ShellHas'
  BY <1>1, <1>2, <1>3 DEF IInv, ShellHas, Has
<1>6. Born'
  BY <1>1, <1>3 DEF IInv, Born
<1> QED
  BY <1>2, <1>3, <1>4, <1>5, <1>6, ShellOnly
-----------------------------------------------------------------------------
(* A step of one child that leaves the shell and the other children alone *)
LEMMA ChildOnly ==
  ASSUME IInv, NEW p \in Commands, TypeOK',
         \A q \in Procs \ {p} : /\ pc'[q] = pc[q] /\ i'[q] = i[q] /\ fds'[q] = fds[q]
                                /\ stdin'[q] = stdin[q] /\ stdout'[q] = stdout[q],
         pc[p] # "unborn", pc'[p] \in {"close", "exec", "run"},
         pc'[p] = "close" => i'[p] \in Pipes /\ Has(p, i[p] .. Count - 1)',
         pc'[p] # "close" => Has(p, {})',
         stdin'[p] = p - 1, stdout'[p] = IF p < Count THEN p ELSE Tty
  PROVE  IInv'
<1>1. ShellHas'
  BY Constants DEF IInv, ShellHas, Has
<1>2. Born'
  BY Constants DEF IInv, Born
<1>3. ChildHas'
  <2>1. SUFFICES ASSUME NEW q \in Commands
        PROVE  /\ pc'[q] \in {"unborn", "dup", "zombie"} => stdin'[q] = Tty /\ stdout'[q] = Tty
               /\ pc'[q] \in {"unborn", "dup"} => i'[q] = 1
               /\ pc'[q] = "dup" => Has(q, Pipes)'
               /\ pc'[q] = "close" => i'[q] \in Pipes /\ Has(q, i[q] .. Count - 1)'
               /\ pc'[q] \in {"unborn", "exec", "run", "zombie"} => Has(q, {})'
               /\ pc'[q] \in {"close", "exec", "run"} => Joins(q)'
    BY DEF ChildHas
  <2>2. CASE q = p
    BY <2>2 DEF Joins
  <2>3. CASE q # p
    <3>1. q \in Procs \ {p}
      BY <2>3, Constants
    <3> QED
      BY <3>1 DEF IInv, ChildHas, Has, Joins
  <2> QED
    BY <2>2, <2>3
<1> QED
  BY <1>1, <1>2, <1>3 DEF IInv

LEMMA DupStep == ASSUME IInv, NEW p \in Commands, Dup(p) PROVE IInv'
<1>1. TypeOK /\ pc[p] = "dup" /\ i[p] = 1 /\ Has(p, Pipes) /\ p \in Procs /\ p \in Nat
  BY Constants DEF IInv, ChildHas, Dup, At
<1>2. /\ pc' = [pc EXCEPT ![p] = "close"] /\ i' = i /\ fds' = fds
      /\ stdin' = [stdin EXCEPT ![p] = IF p > 1 THEN p - 1 ELSE Tty]
      /\ stdout' = [stdout EXCEPT ![p] = IF p < Count THEN p ELSE Tty]
  BY DEF Dup, Goto
<1>3. TypeOK'
  <2>1. (IF p > 1 THEN p - 1 ELSE Tty) \in Nat /\ (IF p < Count THEN p ELSE Tty) \in Nat
    BY <1>1, Constants
  <2>2. stdin' \in [Procs -> Nat] /\ stdout' \in [Procs -> Nat]
    BY <1>1, <1>2, <2>1 DEF TypeOK
  <2>3. /\ pc' \in [Procs -> ShellAt \cup ChildAt]
        /\ pc'[Shell] \in ShellAt /\ \A q \in Commands : pc'[q] \in ChildAt
    BY <1>1, <1>2, Constants DEF TypeOK, ChildAt
  <2> QED
    BY <1>1, <1>2, <2>2, <2>3 DEF TypeOK
<1>4. /\ \A q \in Procs \ {p} : /\ pc'[q] = pc[q] /\ stdin'[q] = stdin[q]
                                /\ stdout'[q] = stdout[q]
      /\ pc'[p] = "close" /\ stdin'[p] = p - 1
      /\ stdout'[p] = IF p < Count THEN p ELSE Tty
  <2>1. (IF p > 1 THEN p - 1 ELSE Tty) = p - 1
    BY Constants
  <2> QED
    BY <1>1, <1>2, <2>1 DEF TypeOK
<1>5. i'[p] \in Pipes /\ Has(p, i[p] .. Count - 1)'
  <2>1. i'[p] .. Count - 1 = Pipes /\ i'[p] \in Pipes
    BY <1>1, <1>2, Constants
  <2> QED
    BY <2>1, <1>1, <1>2 DEF Has
<1> QED
  BY <1>1, <1>2, <1>3, <1>4, <1>5, ChildOnly

LEMMA ChildCloseStep == ASSUME IInv, NEW p \in Commands, ClosePipe(p) PROVE IInv'
<1>1. PICK n : n = i[p]
  OBVIOUS
<1>2. /\ TypeOK /\ p \in Procs /\ p # Shell /\ n \in Pipes /\ Has(p, n .. Count - 1)
      /\ stdin[p] = p - 1 /\ stdout[p] = IF p < Count THEN p ELSE Tty
  BY <1>1, Constants DEF IInv, ChildHas, ClosePipe, Loop, At, Joins
<1>3. /\ pc[p] = "close" /\ Has(p, n + 1 .. Count - 1)'
      /\ \A q \in Procs \ {p} : pc'[q] = pc[q] /\ i'[q] = i[q] /\ fds'[q] = fds[q]
      /\ stdin' = stdin /\ stdout' = stdout
      /\ IF n < Count - 1 THEN i'[p] = n + 1 /\ pc'[p] = "close"
                          ELSE i'[p] = 1 /\ pc'[p] = "exec"
      /\ fds' \in [Procs -> SUBSET (Pipes \X {"r", "w"})]
      /\ i' \in [Procs -> Nat] /\ pc' \in [Procs -> ShellAt \cup ChildAt]
  BY <1>1, <1>2, Closed
<1>4. TypeOK'
  BY <1>2, <1>3, Constants DEF TypeOK, ChildAt
<1>5. CASE n < Count - 1
  <2>1. i'[p] \in Pipes /\ Has(p, i[p] .. Count - 1)'
    BY <1>2, <1>3, <1>5, Constants DEF Has
  <2> QED
    BY <2>1, <1>2, <1>3, <1>4, <1>5, ChildOnly
<1>6. CASE ~(n < Count - 1)
  <2>1. n + 1 .. Count - 1 = {}
    BY <1>2, <1>6, Constants
  <2> QED
    BY <2>1, <1>2, <1>3, <1>4, <1>6, ChildOnly
<1> QED
  BY <1>5, <1>6

LEMMA ExecStep == ASSUME IInv, NEW p \in Commands, Exec(p) PROVE IInv'
<1>1. TypeOK /\ pc[p] = "exec" /\ p \in Procs
  BY Constants DEF IInv, Exec, At
<1>2. pc' = [pc EXCEPT ![p] = "run"] /\ UNCHANGED <<i, fds, stdin, stdout>>
  BY DEF Exec, Goto
<1>3. pc'[p] = "run" /\ \A q \in Procs \ {p} : pc'[q] = pc[q]
  BY <1>1, <1>2 DEF TypeOK
<1>4. TypeOK'
  BY <1>1, <1>2, <1>3, Constants DEF TypeOK, ShellAt, ChildAt
<1>5. Has(p, {})' /\ stdin'[p] = p - 1 /\ stdout'[p] = IF p < Count THEN p ELSE Tty
  BY <1>1, <1>2 DEF IInv, ChildHas, Has, Joins
<1> QED
  BY <1>1, <1>2, <1>3, <1>4, <1>5, ChildOnly

LEMMA RunStep ==
  ASSUME IInv, NEW p \in Commands,
         Read(p) \/ EndOfFile(p) \/ Write(p) \/ SigPipe(p) \/ Finish(p)
  PROVE  IInv'
<1>1. p \in Procs
  BY Constants
<1>2. CASE Read(p) \/ Write(p)
  BY <1>2, DataStep DEF Read, Write
<1>3. CASE EndOfFile(p) \/ SigPipe(p) \/ Finish(p)
  <2>1. pc[p] # "unborn" /\ Exit(p)
    BY <1>3 DEF EndOfFile, SigPipe, Finish, Wants, Running, At
  <2> QED
    BY <1>1, <2>1, ExitStep
<1> QED
  BY <1>2, <1>3

LEMMA NextIInv == IInv /\ [Next]_vars => IInv'
<1> SUFFICES ASSUME IInv, [Next]_vars PROVE IInv'
  OBVIOUS
<1>1. CASE ShellStep
  BY <1>1, MakePipeStep, ForkStep, ShellCloseStep, WaitStep DEF ShellStep
<1>2. CASE CallFails
  <2>1. Shell \in Procs /\ pc[Shell] # "unborn" /\ Exit(Shell)
    BY <1>2, Constants DEF CallFails
  <2> QED
    BY <2>1, ExitStep
<1>3. ASSUME NEW p \in Commands, Child(p) PROVE IInv'
  BY <1>3, DupStep, ChildCloseStep, ExecStep, RunStep DEF Child
<1>4. CASE UNCHANGED vars
  BY <1>4, DataStep DEF vars, procvars
<1> QED
  BY <1>1, <1>2, <1>3, <1>4 DEF Next, Terminated

LEMMA Invariance == SafetySpec => []IInv
BY InitIInv, NextIInv, PTL DEF SafetySpec
-----------------------------------------------------------------------------
(* Processes, their pipe ends and their standard descriptors keep their types. *)
THEOREM TypeCorrect == SafetySpec => []TypeOK
<1>1. IInv => TypeOK
  BY DEF IInv
<1> QED
  BY <1>1, Invariance, PTL

(* In pipelines of any length: when the shell waits, an end of a pipe is with the
   program it is for, or with a child that has not closed its copies yet. *)
THEOREM NoStray == SafetySpec => []NoStrayEnds
<1>1. ASSUME IInv PROVE NoStrayEnds
  <2>1. SUFFICES ASSUME pc[Shell] \in {"wait", "returned"}, NEW c \in Pipes, NEW p \in Procs,
                        pc[p] \notin {"dup", "close"}
                 PROVE  (p \in Readers(c) => p = c + 1) /\ (p \in Writers(c) => p = c)
    BY DEF NoStrayEnds
  <2>2. CASE p = Shell
    <3>1. Has(Shell, {}) /\ stdin[Shell] = Tty /\ stdout[Shell] = Tty
      BY <1>1, <2>1 DEF IInv, ShellHas
    <3> QED
      BY <3>1, <2>2, Constants DEF Has, Readers, Writers
  <2>3. CASE p # Shell
    <3>1. p \in Commands /\ pc[p] \in {"unborn", "exec", "run", "zombie"}
      BY <1>1, <2>1, <2>3, Constants DEF IInv, TypeOK, ChildAt
    <3>2. /\ Has(p, {})
          /\ \/ stdin[p] = Tty /\ stdout[p] = Tty
             \/ stdin[p] = p - 1 /\ (stdout[p] = IF p < Count THEN p ELSE Tty)
      BY <1>1, <3>1 DEF IInv, ChildHas, Joins
    <3> QED
      BY <3>1, <3>2, Constants DEF Has, Readers, Writers
  <2> QED
    BY <2>2, <2>3
<1> QED
  BY <1>1, Invariance, PTL

LEMMA NeighbourInv == IInv => NeighbourFirst
<1>1. SUFFICES ASSUME IInv, pc[Shell] # "zombie", pc[Shell] # "pipe", NEW c \in Pipes
               PROVE  /\ pc[c] # "zombie" => Writers(c) # {}
                      /\ pc[c + 1] # "zombie" => Readers(c) # {}
  BY DEF NeighbourFirst, At
<1>2. /\ c \in Commands /\ c + 1 \in Commands /\ c < Count /\ c # Tty
      /\ c \in Procs /\ c + 1 \in Procs /\ Shell \in Procs
  BY Constants
<1>3. CASE pc[Shell] = "fork"
  BY <1>1, <1>2, <1>3 DEF IInv, ShellHas, Has, Readers, Writers
<1>4. CASE pc[Shell] # "fork"
  <2>1. pc[Shell] \in {"close", "wait", "returned"}
    BY <1>1, <1>4 DEF IInv, TypeOK, ShellAt
  <2>2. \A p \in Commands : pc[p] \in {"dup", "close", "exec", "run", "zombie"}
    BY <1>1, <2>1 DEF IInv, Born, TypeOK, ChildAt
  <2>3. ASSUME pc[c] # "zombie" PROVE c \in Writers(c)
    <3>1. CASE pc[c] = "dup"
      BY <1>1, <1>2, <3>1 DEF IInv, ChildHas, Has, Writers
    <3>2. CASE pc[c] # "dup"
      BY <1>1, <1>2, <2>2, <2>3, <3>2 DEF IInv, ChildHas, Joins, Writers
    <3> QED
      BY <3>1, <3>2
  <2>4. ASSUME pc[c + 1] # "zombie" PROVE c + 1 \in Readers(c)
    <3>1. CASE pc[c + 1] = "dup"
      BY <1>1, <1>2, <3>1 DEF IInv, ChildHas, Has, Readers
    <3>2. CASE pc[c + 1] # "dup"
      <4>1. stdin[c + 1] = (c + 1) - 1
        BY <1>1, <1>2, <2>2, <2>4, <3>2 DEF IInv, ChildHas, Joins
      <4>2. stdin[c + 1] = c
        BY <4>1, Constants
      <4> QED
        BY <1>2, <4>2 DEF Readers
    <3> QED
      BY <3>1, <3>2
  <2> QED
    BY <2>3, <2>4
<1> QED
  BY <1>3, <1>4

(* In pipelines of any length: while the shell lives, an end of a pipe is gone only
   when the program it is for has ended. *)
THEOREM Neighbours == SafetySpec => []NeighbourFirst
BY NeighbourInv, Invariance, PTL
-----------------------------------------------------------------------------
(***************************************************************************)
(* What command s sends through programs that forward it.                  *)
(*                                                                         *)
(* w[p] counts the items that p has written.  What lies between p - 1 and  *)
(* p, the item p holds and those in the pipe, are the next ones after      *)
(* w[p].  Where all programs behind s copy, one sees the end of its input  *)
(* only when its neighbour has ended, and with an empty pipe: it has then  *)
(* written all that s makes, as the neighbour has.  No program dies of     *)
(* SIGPIPE, since its reader would have ended first.                       *)
(***************************************************************************)
Texts == Nat \cup {Stale}

DataOK == /\ buf \in [Pipes -> Seq(Texts)] /\ leftover \in BOOLEAN
          /\ held \in [Commands -> Texts \cup {None}] /\ sent \in [Commands -> Nat]

Holds(p) == IF held[p] = None THEN 0 ELSE 1

(* The items of s between p - 1 and p, of which p has written n and p - 1 has written m *)
Stage(s, p, n, m) ==
  /\ m = n + Holds(p) + Len(buf[p - 1])
  /\ held[p] # None => held[p] = Item(prog[s], n + 1)
  /\ \A k \in 1 .. Len(buf[p - 1]) : buf[p - 1][k] = Item(prog[s], n + Holds(p) + k)

Flow(s, w) == /\ w[s] = sent[s] /\ w[s] <= Makes(s)
              /\ \A p \in s .. Count : w[p] <= w[s]
              /\ out = [j \in 1 .. w[Count] |-> Item(prog[s], j)]
              /\ \A p \in s + 1 .. Count : Stage(s, p, w[p], w[p - 1])

Ended(s, w) == \A p \in s .. Count : At(p, "zombie") =>
                 w[p] = Makes(s) /\ (p > s => At(p - 1, "zombie"))

Counts == [Commands -> Nat]
Through == \A s \in Commands : Forwards(s) => \E w \in Counts :
             Flow(s, w) /\ (Copies(s) /\ ~At(Shell, "zombie") => Ended(s, w))

(* The children whose turn has come in the shell's loop have ended. *)
Waited ==
  /\ At(Shell, "wait") => i[Shell] \in Commands /\ \A p \in 1 .. i[Shell] - 1 : At(p, "zombie")
  /\ At(Shell, "returned") => \A p \in Commands : At(p, "zombie")

DInv == IInv /\ DataOK /\ Waited /\ Through
-----------------------------------------------------------------------------
(* The commands behind s, and the pipes in front of them *)
LEMMA Behind ==
  ASSUME NEW s \in Commands
  PROVE  /\ s \in Nat /\ s > 0 /\ s \in s .. Count /\ Count \in s .. Count
         /\ s .. Count \subseteq Commands
         /\ \A p \in s + 1 .. Count : /\ p \in Commands /\ p \in s .. Count /\ p \in Nat
                                      /\ p > s /\ p # s /\ p > 1 /\ p - 1 \in Nat
                                      /\ p - 1 \in s .. Count /\ p - 1 \in Commands
                                      /\ p - 1 \in Pipes /\ p - 1 # Tty /\ p - 1 # p
         /\ \A p \in s .. Count : p # s => p \in s + 1 .. Count
BY Constants

LEMMA InitDInv == Init => DInv
<1> SUFFICES ASSUME Init PROVE DInv
  OBVIOUS
<1>1. IInv
  BY InitIInv
<1>2. /\ \A p \in Procs : pc[p] \in {"pipe", "unborn"}
      /\ \A p \in Commands : held[p] = None /\ sent[p] = 0
      /\ \A c \in Pipes : buf[c] = <<>>
      /\ out = <<>>
  BY Constants DEF Init
<1>3. DataOK
  BY DEF Init, DataOK
<1>4. Waited
  BY <1>2, Constants DEF Waited, At
<1>5. ASSUME NEW s \in Commands
      PROVE  \E w \in Counts : Flow(s, w) /\ (Copies(s) /\ ~At(Shell, "zombie") => Ended(s, w))
  <2> DEFINE w == [p \in Commands |-> 0]
  <2>1. w \in Counts /\ \A p \in Commands : w[p] = 0
    BY DEF Counts
  <2> HIDE DEF w
  <2>2. w[s] = sent[s] /\ out = [j \in 1 .. w[Count] |-> Item(prog[s], j)]
    <3>1. w[Count] = 0 /\ w[s] = 0 /\ sent[s] = 0
      BY <1>2, <2>1, Behind
    <3>2. out = [j \in 1 .. 0 |-> Item(prog[s], j)]
      BY <1>2
    <3> QED
      BY <3>1, <3>2
  <2>3. ASSUME NEW p \in s + 1 .. Count PROVE Stage(s, p, w[p], w[p - 1])
    <3>1. w[p] = 0 /\ w[p - 1] = 0 /\ buf[p - 1] = <<>> /\ held[p] = None
      BY <1>2, <2>1, Behind
    <3> QED
      BY <3>1 DEF Stage, Holds
  <2>4. Flow(s, w)
    <3>1. w[s] <= Makes(s) /\ \A p \in s .. Count : w[p] <= w[s]
      BY <2>1, Behind, PipelineAssumption DEF Makes
    <3> QED
      BY <2>2, <2>3, <3>1 DEF Flow
  <2>5. Ended(s, w)
    <3>1. \A p \in s .. Count : pc[p] # "zombie"
      BY <1>2, Behind, Constants
    <3> QED
      BY <3>1 DEF Ended, At
  <2> QED
    BY <2>1, <2>4, <2>5
<1> QED
  BY <1>1, <1>3, <1>4, <1>5 DEF DInv, Through

LEMMA DataStays == ASSUME DataOK, UNCHANGED <<prog, leftover, datavars>> PROVE DataOK'
BY DEF DataOK, datavars

(* What is behind s, after a step *)
LEMMA AfterStep ==
  ASSUME UNCHANGED <<prog, leftover>>, NEW s \in Commands
  PROVE  /\ Forwards(s)' <=> Forwards(s)
         /\ Copies(s)' <=> Copies(s)
         /\ Makes(s)' = Makes(s)
BY DEF Forwards, Copies, Makes

LEMMA Preserved ==
  ASSUME Through, UNCHANGED <<prog, leftover>>,
         ASSUME NEW s \in Commands, Forwards(s), NEW w \in Counts, Flow(s, w),
                Copies(s) /\ pc[Shell] # "zombie" => Ended(s, w)
         PROVE  \E v \in Counts : /\ Flow(s, v)'
                                  /\ Copies(s) /\ pc'[Shell] # "zombie" => Ended(s, v)'
  PROVE  Through'
<1>1. SUFFICES ASSUME NEW s \in Commands, Forwards(s)'
               PROVE  \E v \in Counts : Flow(s, v)' /\ (Copies(s)' /\ pc'[Shell] # "zombie" => Ended(s, v)')
  BY DEF Through, Counts, Commands, At
<1>2. Forwards(s) /\ (Copies(s)' <=> Copies(s))
  BY <1>1, AfterStep
<1>3. PICK w \in Counts : Flow(s, w) /\ (Copies(s) /\ pc[Shell] # "zombie" => Ended(s, w))
  BY <1>2 DEF Through, At
<1>4. \E v \in Counts : Flow(s, v)' /\ (Copies(s) /\ pc'[Shell] # "zombie" => Ended(s, v)')
  BY <1>2, <1>3
<1> QED
  BY <1>2, <1>4

(* A step that moves no item *)
LEMMA NothingMoved ==
  ASSUME Through, UNCHANGED <<prog, leftover, datavars>>,
         ASSUME NEW s \in Commands, Copies(s), pc'[Shell] # "zombie", NEW w \in Counts, Flow(s, w),
                pc[Shell] # "zombie" => Ended(s, w)
         PROVE  Ended(s, w)'
  PROVE  Through'
<1>1. UNCHANGED <<buf, held, sent, out>> /\ UNCHANGED <<prog, leftover>>
  BY DEF datavars
<1>2. ASSUME NEW s \in Commands, Forwards(s), NEW w \in Counts, Flow(s, w),
             Copies(s) /\ pc[Shell] # "zombie" => Ended(s, w)
      PROVE  \E v \in Counts : Flow(s, v)' /\ (Copies(s) /\ pc'[Shell] # "zombie" => Ended(s, v)')
  <2>1. Flow(s, w)'
    BY <1>1, <1>2 DEF Flow, Stage, Holds, Makes
  <2>2. Copies(s) /\ pc'[Shell] # "zombie" => Ended(s, w)'
    BY <1>2
  <2> QED
    BY <2>1, <2>2
<1> QED
  BY <1>1, <1>2, Preserved

LEMMA SameEnded ==
  ASSUME NEW s \in Commands, NEW w, Ended(s, w), UNCHANGED <<prog, leftover>>,
         \A p \in Commands : pc'[p] = "zombie" <=> pc[p] = "zombie"
  PROVE  Ended(s, w)'
<1>1. \A p \in s .. Count : p \in Commands /\ (p > s => p - 1 \in Commands)
  BY Constants
<1>2. Makes(s)' = Makes(s)
  BY AfterStep
<1> QED
  BY <1>1, <1>2 DEF Ended, At

(* p ends after all has passed it. *)
LEMMA Passed ==
  ASSUME IInv, Through, NEW p \in Commands, Exit(p), UNCHANGED <<prog, leftover, datavars>>,
         pc[p] # "zombie",
         ASSUME NEW s \in Commands, Copies(s), pc[Shell] # "zombie", NEW w \in Counts,
                Flow(s, w), Ended(s, w), p \in s .. Count
         PROVE  w[p] = Makes(s) /\ (p > s => pc[p - 1] = "zombie")
  PROVE  Through'
<1>1. pc'[p] = "zombie" /\ \A q \in Procs \ {p} : pc'[q] = pc[q]
  BY Constants DEF IInv, TypeOK, Exit, Goto
<1>2. ASSUME NEW s \in Commands, Copies(s), pc'[Shell] # "zombie", NEW w \in Counts, Flow(s, w),
             pc[Shell] # "zombie" => Ended(s, w)
      PROVE  Ended(s, w)'
  <2>1. Ended(s, w) /\ pc[Shell] # "zombie"
    BY <1>1, <1>2, Constants
  <2>2. p \in s .. Count => w[p] = Makes(s) /\ (p > s => pc[p - 1] = "zombie")
    BY <1>2, <2>1
  <2>3. SUFFICES ASSUME NEW q \in s .. Count, pc'[q] = "zombie"
                 PROVE  w[q] = Makes(s) /\ (q > s => pc'[q - 1] = "zombie")
    BY <1>2, AfterStep DEF Ended, At
  <2>4. q \in Commands /\ (q > s => q - 1 \in Commands)
    BY Constants
  <2>5. w[q] = Makes(s) /\ (q > s => pc[q - 1] = "zombie")
    BY <1>1, <2>1, <2>2, <2>3, <2>4, Constants DEF Ended, At
  <2> QED
    BY <1>1, <2>4, <2>5, Constants
<1> QED
  BY <1>2, NothingMoved

(* Neither end of file nor SIGPIPE comes before all has passed. *)
LEMMA EndStep ==
  ASSUME DInv, NEW p \in Commands, EndOfFile(p) \/ SigPipe(p) \/ Finish(p)
  PROVE  Through'
<1>1. IInv /\ Through /\ NeighbourFirst
  BY NeighbourInv DEF DInv
<1>2. pc[p] = "run" /\ Exit(p) /\ UNCHANGED <<prog, leftover, datavars>>
  BY DEF EndOfFile, SigPipe, Finish, Wants, Running, At
<1>3. pc[Shell] # "pipe" /\ stdin[p] = p - 1 /\ stdout[p] = IF p < Count THEN p ELSE Tty
  BY <1>1, <1>2 DEF IInv, Born, ChildHas, Joins
<1>4. ASSUME NEW s \in Commands, Copies(s), pc[Shell] # "zombie", NEW w \in Counts,
             Flow(s, w), Ended(s, w), p \in s .. Count
      PROVE  w[p] = Makes(s) /\ (p > s => pc[p - 1] = "zombie")
  <2>1. p \in Nat /\ prog[s] \in {"gen", "fail"} /\ (p # s => p \in s + 1 .. Count /\ prog[p] = "cat")
    BY <1>4, Constants DEF Copies, Sources
  <2>2. CASE EndOfFile(p)
    <3>1. p \in s + 1 .. Count /\ held[p] = None
      BY <2>1, <2>2 DEF EndOfFile, Wants
    <3>2. /\ p - 1 \in Pipes /\ p - 1 \in Commands /\ p - 1 # Tty /\ p > s /\ p - 1 \in s .. Count
          /\ (p - 1) + 1 = p
      BY <3>1, Behind, Constants
    <3>3. buf[p - 1] = <<>> /\ Writers(p - 1) = {}
      BY <1>3, <2>2, <3>2 DEF EndOfFile
    <3>4. pc[p - 1] = "zombie"
      BY <1>1, <1>3, <1>4, <3>2, <3>3 DEF NeighbourFirst, At
    <3>5. w[p - 1] = Makes(s)
      BY <1>4, <3>2, <3>4 DEF Ended, At
    <3>6. w[p - 1] = w[p] + 0 + 0
      BY <1>4, <3>1, <3>2, <3>3 DEF Flow, Stage, Holds
    <3>7. w[p] \in Nat
      BY DEF Counts
    <3> QED
      BY <3>4, <3>5, <3>6, <3>7
  <2>3. CASE SigPipe(p)
    <3>1. p < Count /\ Readers(p) = {}
      BY <1>3, <2>3 DEF SigPipe
    <3>2. p \in Pipes /\ p + 1 \in s .. Count /\ p + 1 > s /\ (p + 1) - 1 = p
      BY <1>4, <2>1, <3>1, Constants
    <3>3. pc[p + 1] = "zombie"
      BY <1>1, <1>3, <1>4, <3>1, <3>2 DEF NeighbourFirst, At
    <3>4. pc[(p + 1) - 1] = "zombie"
      BY <1>4, <3>2, <3>3 DEF Ended, At
    <3> QED
      BY <1>2, <3>2, <3>4
  <2>4. CASE Finish(p)
    <3>1. p = s /\ sent[s] = Makes(s)
      BY <2>1, <2>4, Constants DEF Finish, Sources
    <3>2. ~(p > s)
      BY <2>1, <3>1
    <3> QED
      BY <1>4, <3>1, <3>2 DEF Flow
  <2> QED
    BY <2>2, <2>3, <2>4
<1> QED
  BY <1>1, <1>2, <1>4, Passed

(* Successive items stay so without the first, and with one more. *)
LEMMA Shifted ==
  ASSUME NEW g, NEW s \in Seq(Texts), s # <<>>, NEW n \in Nat,
         \A k \in 1 .. Len(s) : s[k] = Item(g, n + k)
  PROVE  /\ Head(s) = Item(g, n + 1) /\ Len(Tail(s)) = Len(s) - 1
         /\ \A k \in 1 .. Len(Tail(s)) : Tail(s)[k] = Item(g, n + 1 + k)
<1>1. /\ Len(s) \in Nat \ {0} /\ Head(s) = s[1] /\ Len(Tail(s)) = Len(s) - 1
      /\ \A k \in 1 .. Len(s) - 1 : Tail(s)[k] = s[k + 1]
  OBVIOUS
<1>2. ASSUME NEW k \in 1 .. Len(s) - 1 PROVE s[k + 1] = Item(g, n + 1 + k)
  <2>1. k \in Nat /\ k + 1 \in 1 .. Len(s) /\ n + (k + 1) = n + 1 + k
    BY <1>1
  <2>2. s[k + 1] = Item(g, n + (k + 1))
    BY <2>1
  <2> QED
    BY <2>1, <2>2
<1>3. Head(s) = Item(g, n + 1)
  BY <1>1
<1> QED
  BY <1>1, <1>2, <1>3

LEMMA Lengthened ==
  ASSUME NEW g, NEW s \in Seq(Texts), NEW n \in Nat, NEW e \in Texts
  PROVE  /\ Append(s, e) \in Seq(Texts) /\ Len(Append(s, e)) = Len(s) + 1
         /\ /\ \A k \in 1 .. Len(s) : s[k] = Item(g, n + k)
            /\ e = Item(g, n + Len(s) + 1)
            => \A k \in 1 .. Len(Append(s, e)) : Append(s, e)[k] = Item(g, n + k)
<1>1. Len(s) \in Nat
  OBVIOUS
<1>2. /\ Append(s, e) \in Seq(Texts) /\ Len(Append(s, e)) = Len(s) + 1
      /\ \A k \in 1 .. Len(s) : Append(s, e)[k] = s[k]
      /\ Append(s, e)[Len(s) + 1] = e
  BY <1>1
<1>3. ASSUME \A k \in 1 .. Len(s) : s[k] = Item(g, n + k), e = Item(g, n + Len(s) + 1),
             NEW k \in 1 .. Len(s) + 1
      PROVE  Append(s, e)[k] = Item(g, n + k)
  <2>1. CASE k = Len(s) + 1
    <3>1. n + k = n + Len(s) + 1
      BY <1>1, <2>1
    <3> QED
      BY <1>2, <1>3, <2>1, <3>1
  <2>2. CASE k # Len(s) + 1
    <3>1. k \in 1 .. Len(s)
      BY <1>1, <2>2
    <3> QED
      BY <1>2, <1>3, <3>1
  <2> QED
    BY <2>1, <2>2
<1> QED
  BY <1>2, <1>3

LEMMA ItemType == ASSUME NEW g, NEW k \in Nat PROVE Item(g, k) \in Texts /\ Item(g, k) # None
BY DEF Item, Texts, Stale, None

LEMMA ReadStep == ASSUME DInv, NEW p \in Commands, Read(p) PROVE DataOK' /\ Through'
<1>1. PICK c : c = stdin[p]
  OBVIOUS
<1>2. /\ pc[p] = "run" /\ held[p] = None /\ prog[p] \notin Sources /\ c # Tty /\ buf[c] # <<>>
      /\ held' = [held EXCEPT ![p] = Head(buf[c])]
      /\ buf' = [buf EXCEPT ![c] = Tail(@)]
      /\ prog' = prog /\ leftover' = leftover /\ pc' = pc /\ sent' = sent /\ out' = out
  BY <1>1 DEF Read, Wants, Running, At, procvars, Sources
<1>3. IInv /\ DataOK /\ Through
  BY DEF DInv
<1>4. p \in Nat /\ c = p - 1 /\ c \in Pipes /\ p \in Commands \ {1}
  <2>1. stdin[p] = p - 1
    BY <1>2, <1>3 DEF IInv, ChildHas, Joins
  <2> QED
    BY <1>1, <1>2, <2>1, Constants
<1>5. buf[c] \in Seq(Texts) /\ buf \in [Pipes -> Seq(Texts)]
      /\ held \in [Commands -> Texts \cup {None}]
  BY <1>3, <1>4 DEF DataOK
<1>6. Head(buf[c]) \in Texts /\ Tail(buf[c]) \in Seq(Texts) /\ Len(buf[c]) \in Nat
  BY <1>2, <1>5
<1>7. DataOK'
  <2>1. buf' \in [Pipes -> Seq(Texts)] /\ held' \in [Commands -> Texts \cup {None}]
    BY <1>2, <1>5, <1>6
  <2> QED
    BY <1>2, <1>3, <2>1 DEF DataOK
<1>8. /\ buf'[c] = Tail(buf[c]) /\ held'[p] = Head(buf[c]) /\ held'[p] # None
      /\ \A d \in Pipes \ {c} : buf'[d] = buf[d]
      /\ \A q \in Commands \ {p} : held'[q] = held[q]
  BY <1>2, <1>4, <1>5, <1>6 DEF None, Texts, Stale
<1>9. ASSUME NEW s \in Commands, Forwards(s), NEW w \in Counts, Flow(s, w),
             Copies(s) /\ pc[Shell] # "zombie" => Ended(s, w)
      PROVE  \E v \in Counts : Flow(s, v)' /\ (Copies(s) /\ pc'[Shell] # "zombie" => Ended(s, v)')
  <2>1. Copies(s) /\ pc'[Shell] # "zombie" => Ended(s, w)'
    BY <1>2, <1>9 DEF Ended, At, Makes
  <2>2. w[p] \in Nat
    BY <1>9 DEF Counts
  <2>3. ASSUME NEW q \in s + 1 .. Count PROVE Stage(s, q, w[q], w[q - 1])'
    <3>1. /\ Stage(s, q, w[q], w[q - 1]) /\ q \in Nat /\ q - 1 \in Pipes /\ q \in Commands
          /\ (q # p => q - 1 # c)
      BY <1>4, <1>9, Behind DEF Flow
    <3>2. CASE q = p
      <4>1. /\ w[p - 1] = w[p] + Len(buf[c])
            /\ \A k \in 1 .. Len(buf[c]) : buf[c][k] = Item(prog[s], w[p] + k)
        BY <1>2, <1>4, <2>2, <3>1, <3>2 DEF Stage, Holds
      <4>2. /\ Head(buf[c]) = Item(prog[s], w[p] + 1) /\ Len(Tail(buf[c])) = Len(buf[c]) - 1
            /\ \A k \in 1 .. Len(Tail(buf[c])) : Tail(buf[c])[k] = Item(prog[s], w[p] + 1 + k)
        BY <1>2, <1>5, <2>2, <4>1, Shifted
      <4>3. held'[p] = Item(prog[s], w[p] + 1) /\ w[p - 1] = w[p] + 1 + Len(buf'[c])
        BY <1>6, <1>8, <2>2, <4>1, <4>2
      <4>4. \A k \in 1 .. Len(buf'[c]) : buf'[c][k] = Item(prog[s], w[p] + 1 + k)
        BY <1>8, <4>2
      <4> QED
        BY <1>2, <1>4, <1>8, <3>2, <4>3, <4>4 DEF Stage, Holds
    <3>3. CASE q # p
      <4>1. buf'[q - 1] = buf[q - 1] /\ held'[q] = held[q]
        BY <1>8, <3>1, <3>3
      <4> QED
        BY <1>2, <3>1, <4>1 DEF Stage, Holds
    <3> QED
      BY <3>2, <3>3
  <2>4. Flow(s, w)'
    BY <1>2, <1>9, <2>3 DEF Flow, Makes
  <2> QED
    BY <2>1, <2>4
<1> QED
  BY <1>2, <1>3, <1>7, <1>9, Preserved

(* What has come out, with one more item *)
LEMMA OneMore ==
  ASSUME NEW g, NEW n \in Nat
  PROVE  Append([j \in 1 .. n |-> Item(g, j)], Item(g, n + 1)) = [j \in 1 .. n + 1 |-> Item(g, j)]
<1> DEFINE s == [j \in 1 .. n |-> Item(g, j)]
           t == [j \in 1 .. n + 1 |-> Item(g, j)]
<1>1. \A j \in 1 .. n + 1 : Item(g, j) \in Texts
  BY ItemType
<1>2. s \in Seq(Texts) /\ Len(s) = n /\ t \in Seq(Texts) /\ Len(t) = n + 1
  BY <1>1
<1>3. /\ Append(s, Item(g, n + 1)) \in Seq(Texts) /\ Len(Append(s, Item(g, n + 1))) = n + 1
      /\ \A k \in 1 .. n + 1 : Append(s, Item(g, n + 1))[k] = Item(g, k)
  <2>1. \A k \in 1 .. Len(s) : s[k] = Item(g, 0 + k)
    BY <1>2
  <2>2. n + 1 = 0 + Len(s) + 1 /\ n + 1 \in Nat
    BY <1>2
  <2> HIDE DEF s
  <2>3. PICK e : e = Item(g, n + 1)
    OBVIOUS
  <2>4. e \in Texts /\ e = Item(g, 0 + Len(s) + 1)
    BY <2>2, <2>3, ItemType
  <2>5. /\ Append(s, e) \in Seq(Texts) /\ Len(Append(s, e)) = Len(s) + 1
        /\ \A k \in 1 .. Len(Append(s, e)) : Append(s, e)[k] = Item(g, 0 + k)
    BY <1>2, <2>1, <2>4, Lengthened
  <2>6. \A k \in 1 .. n + 1 : 0 + k = k
    OBVIOUS
  <2> QED
    BY <1>2, <2>3, <2>5, <2>6
<1>4. \A k \in 1 .. n + 1 : t[k] = Item(g, k)
  OBVIOUS
<1> QED
  <2> HIDE DEF s, t
  <2>1. Append(s, Item(g, n + 1)) = t
    BY <1>2, <1>3, <1>4
  <2> QED
    BY <2>1 DEF s, t

LEMMA WriteTypes == ASSUME DInv, NEW p \in Commands, Write(p) PROVE DataOK'
<1>1. IInv /\ DataOK /\ p \in Procs /\ p \in Nat
  BY Constants DEF DInv
<1>2. PICK c : c = stdout[p]
  OBVIOUS
<1>3. NextItem(p) \in Texts
  <2>1. CASE prog[p] \in Sources
    <3>1. sent[p] + 1 \in Nat /\ NextItem(p) = Item(prog[p], sent[p] + 1)
      BY <1>1, <2>1 DEF NextItem, DataOK, Sources
    <3> QED
      BY <3>1, ItemType
  <2>2. CASE prog[p] \notin Sources
    BY <1>1, <2>2 DEF Write, Ready, NextItem, DataOK, Endless, Texts
  <2> QED
    BY <2>1, <2>2
<1>4. held' = [held EXCEPT ![p] = None] /\ leftover' = leftover
      /\ sent' = [sent EXCEPT ![p] = IF prog[p] \in Sources THEN @ + 1
                                     ELSE IF prog[p] = "head" THEN 1 ELSE @]
  BY DEF Write
<1>5. held' \in [Commands -> Texts \cup {None}] /\ sent' \in [Commands -> Nat]
  BY <1>1, <1>4 DEF DataOK
<1>6. buf' \in [Pipes -> Seq(Texts)]
  <2>1. CASE c = Tty
    BY <1>1, <1>2, <2>1 DEF Write, DataOK
  <2>2. CASE c # Tty
    <3>1. buf' = [buf EXCEPT ![c] = Append(@, NextItem(p))]
      BY <1>2, <2>2 DEF Write
    <3>2. buf \in [Pipes -> Seq(Texts)]
      BY <1>1 DEF DataOK
    <3>3. stdout[p] = IF p < Count THEN p ELSE Tty
      BY <1>1 DEF IInv, ChildHas, Joins, Write, Running, At
    <3>4. c \in Pipes
      BY <1>1, <1>2, <2>2, <3>3, Constants
    <3>5. Append(buf[c], NextItem(p)) \in Seq(Texts)
      BY <1>3, <3>2, <3>4
    <3> QED
      BY <3>1, <3>2, <3>4, <3>5
  <2> QED
    BY <2>1, <2>2
<1> QED
  BY <1>1, <1>4, <1>5, <1>6 DEF DataOK

(* What p writes goes into the pipe behind it, or out. *)
LEMMA Written ==
  ASSUME DInv, NEW p \in Commands, Write(p)
  PROVE  /\ pc[p] = "run" /\ UNCHANGED <<pc, prog, leftover>>
         /\ held' = [held EXCEPT ![p] = None]
         /\ p < Count => buf' = [buf EXCEPT ![p] = Append(@, NextItem(p))] /\ out' = out
         /\ p = Count => /\ buf' = buf
                         /\ out' = IF NextItem(p) = Endless THEN out
                                                           ELSE Append(out, NextItem(p))
<1>1. pc[p] = "run" /\ UNCHANGED <<pc, prog, leftover>>
  BY DEF Write, Running, At, procvars
<1>2. stdout[p] = IF p < Count THEN p ELSE Tty
  BY <1>1 DEF DInv, IInv, ChildHas, Joins
<1>3. p < Count => p # Tty
  BY Constants
<1>4. p = Count => ~(p < Count)
  BY Constants
<1> QED
  BY <1>1, <1>2, <1>3, <1>4 DEF Write

(* In front of s *)
LEMMA WriteBefore ==
  ASSUME DInv, NEW p \in Commands, Write(p), NEW s \in Commands, p \notin s .. Count,
         NEW w \in Counts, Flow(s, w), Copies(s) /\ pc[Shell] # "zombie" => Ended(s, w)
  PROVE  Flow(s, w)' /\ (Copies(s) /\ pc'[Shell] # "zombie" => Ended(s, w)')
<1>1. DataOK /\ p < Count /\ p < s
  BY Constants DEF DInv
<1>2. /\ UNCHANGED <<pc, prog, leftover, out>> /\ held' = [held EXCEPT ![p] = None]
      /\ buf' = [buf EXCEPT ![p] = Append(@, NextItem(p))]
  BY <1>1, Written
<1>3. sent'[s] = sent[s] /\ Makes(s)' = Makes(s)
  BY <1>1, <1>2, Constants DEF Write, DataOK, Makes
<1>4. ASSUME NEW q \in s + 1 .. Count PROVE Stage(s, q, w[q], w[q - 1])'
  <2>1. q - 1 \in Pipes /\ q - 1 # p /\ q \in Commands /\ q # p
    BY <1>1, Behind, Constants
  <2>2. buf'[q - 1] = buf[q - 1] /\ held'[q] = held[q]
    BY <1>1, <1>2, <2>1 DEF DataOK
  <2>3. Stage(s, q, w[q], w[q - 1])
    BY DEF Flow
  <2> QED
    BY <1>2, <2>2, <2>3 DEF Stage, Holds
<1>5. Flow(s, w)'
  BY <1>2, <1>3, <1>4 DEF Flow
<1>6. Copies(s) /\ pc'[Shell] # "zombie" => Ended(s, w)'
  BY <1>2, <1>3 DEF Ended, At
<1> QED
  BY <1>5, <1>6

(* From s on, the next item of p is the one after those it has written. *)
LEMMA WriteBehind ==
  ASSUME DInv, NEW p \in Commands, Write(p), NEW s \in Commands, p \in s .. Count, Forwards(s),
         NEW w \in Counts, Flow(s, w), Copies(s) /\ pc[Shell] # "zombie" => Ended(s, w)
  PROVE  \E v \in Counts : Flow(s, v)' /\ (Copies(s) /\ pc'[Shell] # "zombie" => Ended(s, v)')
<1>1. IInv /\ DataOK /\ p \in Nat /\ p \in 1 .. Count
  BY Constants DEF DInv
<1>2. /\ pc[p] = "run" /\ UNCHANGED <<pc, prog, leftover>>
      /\ held' = [held EXCEPT ![p] = None] /\ Makes(s)' = Makes(s)
  BY Written DEF Makes
<1>3. prog[s] \in Sources /\ \A q \in s + 1 .. Count : prog[q] \in {"cat", "head"}
  BY DEF Forwards
<1>4. \A q \in Commands : w[q] \in Nat
  BY DEF Counts
<1>5. /\ NextItem(p) = Item(prog[s], w[p] + 1)
      /\ p # s => held[p] # None
  <2>1. CASE p = s
    <3>1. w[s] = sent[s]
      BY DEF Flow
    <3> QED
      BY <1>3, <2>1, <3>1 DEF NextItem, Sources
  <2>2. CASE p # s
    <3>1. prog[p] \in {"cat", "head"} /\ p \in s + 1 .. Count
      BY <1>3, <2>2, Behind
    <3>2. held[p] # None /\ NextItem(p) = held[p]
      BY <3>1 DEF Write, Ready, NextItem, Sources
    <3> QED
      BY <3>1, <3>2 DEF Flow, Stage
  <2> QED
    BY <2>1, <2>2
<1>6. Item(prog[s], w[p] + 1) \in Texts /\ Item(prog[s], w[p] + 1) # Endless
  <2>1. w[p] + 1 \in Nat /\ w[p] + 1 # 0
    BY <1>4
  <2>2. Item(prog[s], w[p] + 1) \in {w[p] + 1, Stale}
    BY DEF Item
  <2> QED
    BY <2>1, <2>2 DEF Stale, Endless, Texts
<1>7. /\ held'[p] = None /\ \A q \in Commands \ {p} : held'[q] = held[q]
      /\ sent'[s] = IF p = s THEN sent[s] + 1 ELSE sent[s]
  <2>1. held'[p] = None /\ \A q \in Commands \ {p} : held'[q] = held[q]
    BY <1>1, <1>2 DEF DataOK
  <2>2. sent'[s] = IF p = s THEN sent[s] + 1 ELSE sent[s]
    BY <1>1, <1>3 DEF Write, DataOK
  <2> QED
    BY <2>1, <2>2
<1>8. /\ p < Count => /\ buf'[p] = Append(buf[p], Item(prog[s], w[p] + 1))
                       /\ \A d \in Pipes \ {p} : buf'[d] = buf[d]
                       /\ out' = out
      /\ p = Count => buf' = buf /\ out' = Append(out, Item(prog[s], w[p] + 1))
  <2>1. CASE p < Count
    <3>1. p \in Pipes /\ p # Count
      BY <1>1, <2>1, Constants
    <3>2. buf' = [buf EXCEPT ![p] = Append(@, NextItem(p))] /\ out' = out
      BY <2>1, Written
    <3> QED
      BY <1>1, <1>5, <2>1, <3>1, <3>2 DEF DataOK
  <2>2. CASE ~(p < Count)
    BY <1>5, <1>6, <2>2, Written
  <2> QED
    BY <2>1, <2>2
<1>9. PICK v : v = [w EXCEPT ![p] = @ + 1]
  OBVIOUS
<1>10. v \in Counts /\ v[p] = w[p] + 1 /\ \A q \in Commands \ {p} : v[q] = w[q]
  BY <1>4, <1>9 DEF Counts
<1>11. v[s] = sent'[s]
  BY <1>7, <1>10 DEF Flow
<1>12. out' = [j \in 1 .. v[Count] |-> Item(prog[s], j)]
  <2>1. CASE p = Count
    <3>1. out = [j \in 1 .. w[p] |-> Item(prog[s], j)]
      BY <2>1 DEF Flow
    <3>2. Append([j \in 1 .. w[p] |-> Item(prog[s], j)], Item(prog[s], w[p] + 1))
            = [j \in 1 .. w[p] + 1 |-> Item(prog[s], j)]
      BY <1>4, OneMore
    <3> QED
      BY <1>8, <1>10, <2>1, <3>1, <3>2
  <2>2. CASE p # Count
    <3>1. p < Count /\ v[Count] = w[Count]
      BY <1>1, <1>10, <2>2, Constants
    <3>2. out = [j \in 1 .. w[Count] |-> Item(prog[s], j)]
      BY DEF Flow
    <3>3. out = [j \in 1 .. v[Count] |-> Item(prog[s], j)]
      BY <3>1, <3>2, Zenon
    <3>4. out' = out
      BY <3>1, Written
    <3> QED
      BY <3>3, <3>4, Zenon
  <2> QED
    BY <2>1, <2>2
<1>13. \A d \in Pipes \ {p} : buf'[d] = buf[d]
  BY <1>1, <1>8, Constants
<1>14. ASSUME NEW q \in s + 1 .. Count PROVE Stage(s, q, v[q], v[q - 1])'
  <2>1. Stage(s, q, w[q], w[q - 1])
    BY DEF Flow
  <2>2. q \in Nat /\ q \in Commands /\ q # s /\ q - 1 \in Pipes /\ q - 1 \in Commands /\ q # q - 1
    BY Behind
  <2>3. buf[q - 1] \in Seq(Texts) /\ Len(buf[q - 1]) \in Nat
    BY <1>1, <2>2 DEF DataOK
  <2>4. CASE q = p
    <3>1. buf'[q - 1] = buf[q - 1]
      BY <1>13, <2>2, <2>4
    <3>2. w[q - 1] = w[q] + 1 + Len(buf[q - 1])
          /\ \A k \in 1 .. Len(buf[q - 1]) : buf[q - 1][k] = Item(prog[s], w[q] + 1 + k)
      BY <1>5, <2>1, <2>2, <2>4 DEF Stage, Holds
    <3>3. v[q] = w[q] + 1 /\ v[q - 1] = w[q - 1] /\ held'[q] = None
      BY <1>7, <1>10, <2>2, <2>4
    <3>4. v[q] = v[q] + 0
      BY <1>4, <2>2, <3>3
    <3> QED
      BY <1>2, <3>1, <3>2, <3>3, <3>4 DEF Stage, Holds
  <2>5. CASE q - 1 = p
    <3>1. p < Count
      BY <2>2, <2>5, Constants
    <3>2. /\ buf'[p] = Append(buf[p], Item(prog[s], w[p] + 1)) /\ v[q] = w[q] /\ v[p] = w[p] + 1
          /\ held'[q] = held[q]
      BY <1>7, <1>8, <1>10, <2>2, <2>5, <3>1
    <3>3. PICK n \in Nat : n = w[q] + Holds(q)
      BY <1>4, <2>2 DEF Holds
    <3>4. n \in Nat
      OBVIOUS
    <3>5. /\ w[p] + 1 = n + Len(buf[p]) + 1
          /\ \A k \in 1 .. Len(buf[p]) : buf[p][k] = Item(prog[s], n + k)
      BY <2>1, <2>5, <3>3 DEF Stage
    <3>6. /\ Len(buf'[p]) = Len(buf[p]) + 1
          /\ \A k \in 1 .. Len(buf'[p]) : buf'[p][k] = Item(prog[s], n + k)
      <4>1. PICK b \in Seq(Texts) : b = buf[p]
        BY <2>3, <2>5
      <4>2. PICK e \in Texts : e = Item(prog[s], w[p] + 1)
        BY <1>6
      <4>3. PICK g : g = prog[s]
        OBVIOUS
      <4>4. /\ e = Item(g, n + Len(b) + 1)
            /\ \A k \in 1 .. Len(b) : b[k] = Item(g, n + k)
        BY <2>5, <3>4, <3>5, <4>1, <4>2, <4>3
      <4>5. /\ Len(Append(b, e)) = Len(b) + 1
            /\ \A k \in 1 .. Len(Append(b, e)) : Append(b, e)[k] = Item(g, n + k)
        <5>1. /\ Len(Append(b, e)) = Len(b) + 1
              /\ /\ \A k \in 1 .. Len(b) : b[k] = Item(g, n + k)
                 /\ e = Item(g, n + Len(b) + 1)
                 => \A k \in 1 .. Len(Append(b, e)) : Append(b, e)[k] = Item(g, n + k)
          BY Lengthened
        <5> QED
          BY <4>4, <5>1, Zenon
      <4> QED
        BY <3>2, <4>1, <4>2, <4>3, <4>5
    <3>7. n = v[q] + Holds(q)'
      BY <3>2, <3>3 DEF Holds
    <3>8. v[p] = n + Len(buf'[p])
      BY <2>3, <2>5, <3>2, <3>4, <3>5, <3>6
    <3>9. held[q] # None => held[q] = Item(prog[s], w[q] + 1)
      BY <2>1 DEF Stage
    <3> QED
      BY <1>2, <2>5, <3>2, <3>6, <3>7, <3>8, <3>9 DEF Stage
  <2>6. CASE q # p /\ q - 1 # p
    <3>1. buf'[q - 1] = buf[q - 1] /\ v[q] = w[q] /\ v[q - 1] = w[q - 1] /\ held'[q] = held[q]
      BY <1>7, <1>10, <1>13, <2>2, <2>6
    <3> QED
      BY <1>2, <2>1, <3>1 DEF Stage, Holds
  <2> QED
    BY <2>4, <2>5, <2>6
<1>15. v[s] <= Makes(s) /\ \A q \in s .. Count : v[q] <= v[s]
  <2>1. /\ s \in s .. Count /\ s .. Count \subseteq Commands /\ w[s] <= Makes(s) /\ Makes(s) \in Nat
        /\ \A q \in s .. Count : w[q] <= w[s]
    BY Behind, PipelineAssumption DEF Flow, Makes
  <2>2. CASE p = s
    <3>1. w[s] < Makes(s)
      BY <1>3, <2>1, <2>2 DEF Write, Ready, Flow
    <3> QED
      BY <1>4, <1>10, <2>1, <2>2, <3>1
  <2>3. CASE p # s
    <3>1. p \in s + 1 .. Count /\ p - 1 \in s .. Count /\ p - 1 \in Commands /\ p - 1 \in Pipes
      BY <2>3, Behind
    <3>2. Stage(s, p, w[p], w[p - 1])
      BY <3>1 DEF Flow
    <3>3. w[p - 1] = w[p] + 1 + Len(buf[p - 1]) /\ Len(buf[p - 1]) \in Nat
      BY <1>1, <1>5, <2>3, <3>1, <3>2 DEF Stage, Holds, DataOK
    <3>4. w[p] + 1 <= w[s]
      BY <1>4, <2>1, <3>1, <3>3
    <3> QED
      BY <1>4, <1>10, <2>1, <2>3, <3>4
  <2> QED
    BY <2>2, <2>3
<1>16. Flow(s, v)'
  BY <1>2, <1>11, <1>12, <1>14, <1>15 DEF Flow
<1>17. ASSUME Copies(s), pc'[Shell] # "zombie" PROVE Ended(s, v)'
  <2>1. Ended(s, w)
    BY <1>2, <1>17
  <2>2. SUFFICES ASSUME NEW q \in s .. Count, pc[q] = "zombie"
                 PROVE  v[q] = Makes(s) /\ (q > s => pc[q - 1] = "zombie")
    BY <1>2 DEF Ended, At
  <2>3. q # p /\ q \in Commands
    BY <1>2, <2>2, Behind
  <2> QED
    BY <1>10, <2>1, <2>2, <2>3 DEF Ended, At
<1> QED
  BY <1>10, <1>16, <1>17

LEMMA WriteStep == ASSUME DInv, NEW p \in Commands, Write(p) PROVE Through'
<1>1. Through /\ UNCHANGED <<prog, leftover>>
  BY Written DEF DInv
<1>2. SUFFICES ASSUME NEW s \in Commands, Forwards(s), NEW w \in Counts, Flow(s, w),
                      Copies(s) /\ pc[Shell] # "zombie" => Ended(s, w)
               PROVE  \E v \in Counts : /\ Flow(s, v)'
                                        /\ Copies(s) /\ pc'[Shell] # "zombie" => Ended(s, v)'
  BY <1>1, Preserved
<1>3. CASE p \in s .. Count
  BY <1>2, <1>3, WriteBehind
<1>4. CASE p \notin s .. Count
  BY <1>2, <1>4, WriteBefore
<1> QED
  BY <1>3, <1>4

LEMMA WaitedStep == ASSUME DInv, [Next]_vars PROVE Waited'
<1>1. IInv /\ Waited /\ i \in [Procs -> Nat] /\ pc \in [Procs -> ShellAt \cup ChildAt]
  BY DEF DInv, IInv, TypeOK
<1>2. ASSUME NEW p \in Commands, Child(p) PROVE Waited'
  <2>1. /\ pc'[Shell] = pc[Shell] /\ i'[Shell] = i[Shell]
        /\ \A q \in Commands : pc[q] = "zombie" => pc'[q] = "zombie"
    BY <1>1, <1>2, Constants DEF Child, Dup, ClosePipe, Loop, Exec, Exit, Goto, At, Read, Write,
       EndOfFile, SigPipe, Finish, Wants, Running, procvars
  <2> QED
    BY <1>1, <2>1, Constants DEF Waited, At
<1>3. CASE MakePipe \/ Fork \/ CallFails
  <2>1. pc'[Shell] \notin {"wait", "returned"}
    BY <1>1, <1>3, Constants DEF MakePipe, Fork, CallFails, Loop, Exit, Goto, At
  <2> QED
    BY <2>1 DEF Waited, At
<1>4. CASE ClosePipe(Shell)
  <2>1. pc'[Shell] \in {"close", "wait"} /\ (pc'[Shell] = "wait" => i'[Shell] = 1)
    BY <1>1, <1>4, Constants DEF ClosePipe, Loop, Goto, At
  <2> QED
    BY <2>1, Constants DEF Waited, At
<1>5. CASE Wait
  <2>1. PICK n : n = i[Shell]
    OBVIOUS
  <2>2. n \in Commands /\ n \in Nat /\ pc[Shell] = "wait" /\ \A p \in 1 .. n : pc[p] = "zombie"
    BY <1>1, <1>5, <2>1, Constants DEF Wait, Loop, Waited, At
  <2>3. /\ \A p \in Commands : pc'[p] = pc[p]
        /\ IF n < Count THEN i'[Shell] = n + 1 /\ pc'[Shell] = "wait"
                        ELSE pc'[Shell] = "returned"
    BY <1>1, <1>5, <2>1, <2>2, Constants DEF Wait, Loop, Goto
  <2> QED
    BY <2>2, <2>3, Constants DEF Waited, At
<1>6. CASE UNCHANGED vars
  BY <1>1, <1>6 DEF vars, Waited, At
<1> QED
  BY <1>2, <1>3, <1>4, <1>5, <1>6 DEF Next, ShellStep, Terminated

LEMMA NextDInv == DInv /\ [Next]_vars => DInv'
<1> SUFFICES ASSUME DInv, [Next]_vars PROVE DInv'
  OBVIOUS
<1>1. /\ IInv /\ DataOK /\ Through
      /\ pc \in [Procs -> ShellAt \cup ChildAt]
  BY DEF DInv, IInv, TypeOK
<1>2. IInv' /\ Waited'
  BY <1>1, NextIInv, WaitedStep
<1>3. CASE ShellStep
  <2>1. UNCHANGED <<prog, leftover, datavars>> /\ pc[Shell] # "zombie"
    BY <1>3 DEF ShellStep, MakePipe, Fork, ClosePipe, Wait, Loop, At
  <2>2. \A p \in Commands : pc'[p] = "zombie" <=> pc[p] = "zombie"
    <3>1. CASE Fork
      <4>1. i[Shell] \in Commands /\ pc[i[Shell]] = "unborn"
        BY <1>1, <3>1, Constants DEF IInv, ShellHas, Born, Fork, At
      <4> QED
        BY <1>1, <3>1, <4>1, Constants DEF Fork
    <3>2. CASE MakePipe \/ ClosePipe(Shell) \/ Wait
      BY <1>1, <3>2, Constants DEF MakePipe, ClosePipe, Wait, Loop, Goto
    <3> QED
      BY <1>3, <3>1, <3>2 DEF ShellStep
  <2>3. Through'
    BY <1>1, <2>1, <2>2, NothingMoved, SameEnded
  <2> QED
    BY <1>1, <1>2, <2>1, <2>3, DataStays DEF DInv
<1>4. CASE CallFails
  <2>1. Through'
    <3>1. UNCHANGED <<prog, leftover, datavars>> /\ pc'[Shell] = "zombie"
      BY <1>1, <1>4, Constants DEF CallFails, Exit, Goto
    <3> QED
      BY <1>1, <3>1, NothingMoved
  <2>2. DataOK'
    BY <1>1, <1>4, DataStays DEF CallFails
  <2> QED
    BY <1>2, <2>1, <2>2 DEF DInv
<1>5. ASSUME NEW p \in Commands, Child(p) PROVE DInv'
  <2>1. CASE Read(p) \/ Write(p)
    BY <1>2, <2>1, ReadStep, WriteTypes, WriteStep DEF DInv
  <2>2. CASE EndOfFile(p) \/ SigPipe(p) \/ Finish(p)
    <3>1. UNCHANGED <<prog, leftover, datavars>>
      BY <2>2 DEF EndOfFile, SigPipe, Finish
    <3> QED
      BY <1>1, <1>2, <2>2, <3>1, DataStays, EndStep DEF DInv
  <2>3. CASE Dup(p) \/ ClosePipe(p) \/ Exec(p)
    <3>1. UNCHANGED <<prog, leftover, datavars>>
      BY <2>3 DEF Dup, ClosePipe, Exec
    <3>2. DataOK'
      BY <1>1, <3>1, DataStays
    <3>3. /\ pc[p] \in {"dup", "close", "exec"} /\ pc'[p] \in {"close", "exec", "run"}
          /\ \A q \in Procs \ {p} : pc'[q] = pc[q]
      BY <1>1, <2>3, Constants DEF Dup, ClosePipe, Exec, Loop, Goto, At
    <3>4. /\ \A q \in Commands : pc'[q] = "zombie" <=> pc[q] = "zombie"
          /\ pc'[Shell] = pc[Shell]
      BY <3>3, Constants
    <3>5. Through'
      BY <1>1, <3>1, <3>4, NothingMoved, SameEnded
    <3> QED
      BY <1>2, <3>2, <3>5 DEF DInv
  <2> QED
    BY <1>5, <2>1, <2>2, <2>3 DEF Child
<1>6. CASE UNCHANGED vars
  <2>1. UNCHANGED <<prog, leftover, datavars>> /\ pc' = pc
    BY <1>6 DEF vars, datavars
  <2>2. Through' /\ DataOK'
    BY <1>1, <2>1, DataStays, NothingMoved, SameEnded
  <2> QED
    BY <1>2, <2>2 DEF DInv
<1> QED
  BY <1>3, <1>4, <1>5, <1>6 DEF Next, Terminated

LEMMA DataInvariance == SafetySpec => []DInv
BY InitDInv, NextDInv, PTL DEF SafetySpec

(* In pipelines of any length and of any programs, with pipes of any size, and whatever
   call fails: what comes out is the beginning of what the last gen sent, once and in
   order, and nothing else; behind a command that cannot be executed it is at most the
   shell's left-over text, once.  Through copies all of it has come out when the shell
   is back. *)
THEOREM AllDelivered == SafetySpec => []Delivered
<1>1. DInv => Delivered
  <2>1. SUFFICES ASSUME DInv, NEW s \in Commands, Forwards(s)
                 PROVE  \E n \in 0 .. Makes(s) :
                          /\ out = [j \in 1 .. n |-> Item(prog[s], j)]
                          /\ Copies(s) /\ At(Shell, "returned") => n = Makes(s)
    BY DEF Delivered
  <2>2. PICK w \in Counts : Flow(s, w) /\ (Copies(s) /\ ~At(Shell, "zombie") => Ended(s, w))
    BY <2>1 DEF DInv, Through
  <2>3. w[Count] \in 0 .. Makes(s)
    <3>1. /\ Makes(s) \in Nat /\ w[s] \in Nat /\ w[Count] \in Nat
          /\ w[Count] <= w[s] /\ w[s] <= Makes(s)
      BY <2>2, Behind, PipelineAssumption DEF Flow, Counts, Makes
    <3> QED
      BY <3>1
  <2>4. Copies(s) /\ At(Shell, "returned") => w[Count] = Makes(s)
    BY <2>1, <2>2, Behind, Constants DEF DInv, Waited, Ended, At
  <2> QED
    BY <2>2, <2>3, <2>4 DEF Flow
<1> QED
  BY <1>1, DataInvariance, PTL
=============================================================================
