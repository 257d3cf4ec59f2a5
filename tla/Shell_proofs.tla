---------------------------- MODULE Shell_proofs ----------------------------
(***************************************************************************)
(* The shell for any lines, any number of them, and a history ring of any  *)
(* size.                                                                   *)
(*                                                                         *)
(* What its descriptor table holds is known at every step (Table), up to   *)
(* the descriptors that a failing dup has lost, and so is                  *)
(* what the ring holds at every slot (Ring).  On a terminal the buffer  *)
(* of stdout holds at most one item, and only from a built-in command to   *)
(* the next line that is read (Buffered): so no child inherits an item,    *)
(* and a command that has not printed is ahead of all that is in the files *)
(* (Unprinted).                                                            *)
(***************************************************************************)
EXTENDS Shell, SequenceTheorems, TLAPS

M == MAX_RECORD_NUM
Items == [line : Nat, nl : BOOLEAN]
ShellSteps == {"prompt", "search", "pipeline", "dup", "redirect", "exec", "restore", "exit",
               "exited", "crashed", "fork", "wait"}
ChildSteps == {"redirect", "exec", "exit", "gone"}

TypeOK == /\ terminal \in BOOLEAN /\ pc \in ShellSteps
          /\ history_count \in Nat /\ history \in [Slots -> Nat]

(* Standard input and output as the shell has them between two commands: its own, unless
   lost *)
OwnIn(f) == f # NULL /\ (0 \notin lost => f = "stdin")
OwnOut(f) == f \in Sinks /\ (1 \notin lost => f = "stdout")
Plain(t) == /\ t = [d \in Descriptors |-> t[d]]
            /\ OwnIn(t[0]) /\ OwnOut(t[1])
            /\ \A d \in {3, 4, 5} : t[d] = NULL

(* Between Dup and Restore *)
Copies == /\ in \in {-1, 3} /\ out \in {-1, IF in = -1 THEN 3 ELSE 4}
          /\ fds = [d \in Descriptors |-> fds[d]]
          /\ in # -1 => OwnIn(fds[in])
          /\ out # -1 => OwnOut(fds[out])
          /\ \A d \in {3, 4, 5} : d \notin {in, out} => fds[d] = NULL

(* A redirected command has the files it names, and the shell's for the rest. *)
Fed(f) == f # NULL /\ (node.in_file = NULL => OwnIn(f))
Sent(f) == f \in Sinks /\ IF node.out_file = NULL THEN OwnOut(f) ELSE f = node.out_file

Table ==
  /\ pc \in {"prompt", "search", "pipeline", "dup", "fork", "wait"} => Plain(fds)
  /\ pc \in {"redirect", "exec", "restore"} => Copies
  /\ pc = "redirect" => OwnIn(fds[0]) /\ OwnOut(fds[1])
  /\ pc \in {"exec", "restore"} => CanOpen /\ Fed(fds[0]) /\ Sent(fds[1])
  /\ pc = "exit" => fds[1] \in Sinks

Children ==
  child = NoChild \/
    /\ pc = "wait" /\ child.pc \in ChildSteps
    /\ child = [pc |-> child.pc, fds |-> child.fds, buf |-> child.buf]
    /\ child.pc = "redirect" => Plain(child.fds)
    /\ child.pc = "exec" => CanOpen /\ Sent(child.fds[1])
    /\ child.pc = "exit" => child.fds[1] \in Sinks

(* The ring has the last lines, each in the slot where ReadLine put it. *)
Ring == \A c \in 1 .. history_count :
          c + M > history_count => history[(c - 1) % M] = c

Kept == IF history_count < M THEN history_count ELSE M
Latest == [j \in 1 .. Kept |-> history_count - Kept + j]
Recorded == pc = "restore" => printed \in {<<>>, Latest}

Base == TypeOK /\ Table /\ Children /\ Ring /\ Recorded
-----------------------------------------------------------------------------
(* Division with remainder *)
LEMMA Division ==
  ASSUME NEW m \in Nat \ {0}, NEW a \in Nat
  PROVE  \E q \in Int : \E r \in 0 .. m - 1 : a = m * q + r /\ a % m = r
<1>1. m \in Int /\ m > 0 /\ a \in Int /\ a >= 0
  OBVIOUS
<1>2. a = m * (a \div m) + (a % m)
  BY <1>1, Z3
<1>3. a \div m \in Int /\ a % m \in 0 .. m - 1
  OBVIOUS
<1> QED
  BY <1>2, <1>3

LEMMA Remainder ==
  ASSUME NEW m \in Nat \ {0}, NEW a \in Nat, NEW q \in Int, NEW r \in 0 .. m - 1, a = m * q + r
  PROVE  a % m = r
  OBVIOUS

LEMMA RoundTheRing ==
  ASSUME NEW m \in Nat \ {0}, NEW a \in Nat
  PROVE  (a + m) % m = a % m
<1>1. PICK q \in Int : \E r \in 0 .. m - 1 : a = m * q + r /\ a % m = r
  BY Division
<1>2. PICK r \in 0 .. m - 1 : a = m * q + r /\ a % m = r
  BY <1>1
<1>3. a + m = m * (q + 1) + r /\ q + 1 \in Int /\ a + m \in Nat
  BY <1>2
<1> QED
  BY <1>2, <1>3, Remainder

(* Less than a round apart, two lines are in different slots. *)
LEMMA Apart ==
  ASSUME NEW m \in Nat \ {0}, NEW a \in Nat, NEW b \in Nat, b < a, a < b + m
  PROVE  a % m # b % m
<1> SUFFICES ASSUME a % m = b % m PROVE FALSE
  OBVIOUS
<1>1. PICK p \in Int : \E r \in 0 .. m - 1 : a = m * p + r /\ a % m = r
  BY Division
<1>2. PICK q \in Int : \E r \in 0 .. m - 1 : b = m * q + r /\ b % m = r
  BY Division
<1>3. a - b = m * (p - q) /\ p - q \in Int
  BY <1>1, <1>2
<1>4. CASE p - q >= 1
  <2>1. m * (p - q) >= m
    BY <1>3, <1>4
  <2> QED
    BY <2>1, <1>3
<1>5. CASE p - q <= 0
  <2>1. m * (p - q) <= 0
    BY <1>3, <1>5
  <2> QED
    BY <2>1, <1>3
<1> QED
  BY <1>3, <1>4, <1>5
-----------------------------------------------------------------------------
LEMMA Tables ==
  /\ Fresh \in [Descriptors -> {"stdin", "stdout", NULL}]
  /\ Fresh[0] = "stdin" /\ Fresh[1] = "stdout"
  /\ Fresh[3] = NULL /\ Fresh[4] = NULL /\ Fresh[5] = NULL
  /\ "stdin" # NULL /\ "stdout" # NULL
  /\ 0 \in Descriptors /\ 1 \in Descriptors /\ 3 \in Descriptors /\ 4 \in Descriptors
  /\ 5 \in Descriptors
  /\ \A d \in Descriptors : d \in {0, 1, 3, 4, 5}
  BY DEF Fresh, Descriptors, NULL

LEMMA Files == NULL \notin Sinks /\ "stdout" \in Sinks
  BY ShellAssumption DEF Sinks, NULL

LEMMA FreshIsPlain == Plain(Fresh)
<1>1. Fresh = [d \in Descriptors |-> Fresh[d]]
  BY DEF Fresh
<1> QED
  BY <1>1, Tables, Files DEF Plain, OwnIn, OwnOut

(* What dup(0), and then dup(1), do to a table *)
LEMMA FirstFree ==
  ASSUME NEW t, t = [d \in Descriptors |-> t[d]], t[0] # NULL, t[1] # NULL
  PROVE  /\ t[3] = NULL => LowestFree(t) = 3
         /\ t[3] # NULL /\ t[4] = NULL => LowestFree(t) = 4
<1>1. ASSUME t[3] = NULL PROVE LowestFree(t) = 3
  BY <1>1, Tables DEF LowestFree
<1>2. ASSUME t[3] # NULL, t[4] = NULL PROVE LowestFree(t) = 4
  BY <1>2, Tables DEF LowestFree
<1> QED
  BY <1>1, <1>2

(* The copies go to descriptors 3 and 4, as far as there are any. *)
LEMMA Dups ==
  ASSUME Plain(fds), Dup
  PROVE  (Copies /\ OwnIn(fds[0]) /\ OwnOut(fds[1]))'
<1>1. lost' = lost /\ \A f : OwnIn(f)' = OwnIn(f) /\ OwnOut(f)' = OwnOut(f)
  BY DEF Dup, OwnIn, OwnOut, Sinks
<1>2. /\ fds = [d \in Descriptors |-> fds[d]] /\ OwnIn(fds[0]) /\ OwnOut(fds[1])
      /\ fds[0] # NULL /\ fds[1] # NULL /\ fds[3] = NULL /\ fds[4] = NULL /\ fds[5] = NULL
  BY Files DEF Plain, OwnIn, OwnOut
<1>3. PICK i \in dup(fds, 0) : \E o \in dup(i.table, 1) :
        in' = i.fd /\ out' = o.fd /\ fds' = o.table
  BY DEF Dup
<1> DEFINE t == i.table
<1>4. PICK o \in dup(t, 1) : in' = i.fd /\ out' = o.fd /\ fds' = o.table
  BY <1>3
<1>5. \/ in' = -1 /\ t = fds
      \/ in' = 3 /\ t = [fds EXCEPT ![3] = fds[0]]
  BY <1>2, <1>4, FirstFree DEF dup
<1>6. /\ t = [d \in Descriptors |-> t[d]]
      /\ t[0] = fds[0] /\ t[1] = fds[1] /\ t[4] = NULL /\ t[5] = NULL
      /\ t[3] = IF in' = -1 THEN NULL ELSE fds[0]
  BY <1>2, <1>5, Tables
<1> HIDE DEF t
<1> DEFINE f == IF in' = -1 THEN 3 ELSE 4
<1>7. LowestFree(t) = f
  BY <1>2, <1>6, FirstFree
<1>8. \/ out' = -1 /\ fds' = t
      \/ out' = f /\ fds' = [t EXCEPT ![f] = t[1]]
  BY <1>4, <1>7 DEF dup
<1>9. in' \in {-1, 3} /\ f \in {3, 4}
  BY <1>5
<1>10. /\ fds' = [d \in Descriptors |-> fds'[d]]
       /\ fds'[0] = fds[0] /\ fds'[1] = fds[1]
       /\ \A d \in {3, 4, 5} : fds'[d] = CASE d = in' -> fds[0] [] d = out' -> fds[1]
                                            [] OTHER -> NULL
  <2>1. CASE out' = -1
    BY <1>2, <1>5, <1>6, <1>8, <1>9, <2>1
  <2>2. CASE out' # -1
    BY <1>2, <1>5, <1>6, <1>8, <1>9, <2>2, Tables
  <2> QED
    BY <2>1, <2>2
<1>11. out' \in {-1, IF in' = -1 THEN 3 ELSE 4}
  BY <1>8
<1>12. /\ in' # -1 => in' \in {3, 4, 5} /\ fds'[in'] = fds[0]
       /\ out' # -1 => out' \in {3, 4, 5} /\ fds'[out'] = fds[1]
  BY <1>9, <1>10, <1>11
<1> QED
  BY <1>1, <1>2, <1>9, <1>10, <1>11, <1>12 DEF Copies

(* A redirected table sends the output where the user wants it. *)
LEMMA Redirections ==
  ASSUME CanOpen, NEW t, t = [d \in Descriptors |-> t[d]], OwnIn(t[0]), OwnOut(t[1])
  PROVE  LET r == Redirected(t) IN
         /\ r = [d \in Descriptors |-> r[d]] /\ \A d \in {3, 4, 5} : r[d] = t[d]
         /\ Fed(r[0]) /\ Sent(r[1])
<1> DEFINE r == Redirected(t)
<1>1. /\ r = [d \in Descriptors |-> r[d]] /\ \A d \in {3, 4, 5} : r[d] = t[d]
      /\ r[0] = IF node.in_file = NULL THEN t[0] ELSE node.in_file
      /\ r[1] = IF node.out_file = NULL THEN t[1] ELSE node.out_file
  BY Tables DEF Redirected
<1>2. node.out_file # NULL => node.out_file \in Sinks
  BY DEF CanOpen, Sinks
<1> HIDE DEF r
<1>3. Fed(r[0]) /\ Sent(r[1])
  BY <1>1, <1>2 DEF Fed, Sent, OwnIn, OwnOut
<1> QED
  BY <1>1, <1>3 DEF r

LEMMA Targets ==
  ASSUME CanOpen
  PROVE  /\ Target \in Sinks
         /\ \A f : Sent(f) => f \in Sinks /\ (1 \notin lost => f = Target)
<1>1. Target \in Sinks
  BY DEF Target, CanOpen, Sinks
<1> QED
  BY <1>1 DEF Sent, Target, OwnOut

(* Restore undoes any redirection it has a copy for, and the others are lost. *)
LEMMA Restored ==
  ASSUME Copies, Fed(fds[0]), Sent(fds[1]), Restore
  PROVE  Plain(fds)'
<1> DEFINE r == Recovered(fds)
<1>1. /\ in \in {-1, 3} /\ out \in {-1, 3, 4}
      /\ fds = [d \in Descriptors |-> fds[d]]
      /\ in # -1 => OwnIn(fds[in])
      /\ out # -1 => OwnOut(fds[out])
      /\ \A d \in {3, 4, 5} : d \notin {in, out} => fds[d] = NULL
  BY DEF Copies
<1>2. /\ \A d \in {3, 4, 5} : r[d] = fds[d]
      /\ r[0] = IF node.in_file # NULL /\ in # -1 THEN fds[in] ELSE fds[0]
      /\ r[1] = IF node.out_file # NULL /\ out # -1 THEN fds[out] ELSE fds[1]
  BY <1>1, Tables DEF Recovered
<1> HIDE DEF r
<1>3. /\ lost' = lost \cup Stuck
      /\ fds' = [d \in Descriptors |-> IF d \in {in, out} THEN NULL ELSE r[d]]
  BY DEF Restore, r
<1>4. /\ 0 \in Stuck <=> node.in_file # NULL /\ in = -1
      /\ 1 \in Stuck <=> node.out_file # NULL /\ out = -1
  BY DEF Stuck
<1>5. fds'[0] = r[0] /\ fds'[1] = r[1] /\ \A d \in {3, 4, 5} : fds'[d] = NULL
  BY <1>1, <1>2, <1>3, Tables
<1>6. r[0] # NULL /\ (0 \notin lost' => r[0] = "stdin")
  BY <1>1, <1>2, <1>3, <1>4 DEF Fed, OwnIn
<1>7. r[1] \in Sinks /\ (1 \notin lost' => r[1] = "stdout")
  BY <1>1, <1>2, <1>3, <1>4 DEF Sent, OwnOut
<1>8. fds' = [d \in Descriptors |-> fds'[d]]
  BY <1>3
<1> QED
  BY <1>5, <1>6, <1>7, <1>8 DEF Plain, OwnIn, OwnOut, Sinks
-----------------------------------------------------------------------------
(* A line goes to the slot that is next, which no line still in the ring has. *)
LEMMA RingKept ==
  ASSUME history_count \in Nat, history \in [Slots -> Nat], Ring,
         history' = [history EXCEPT ![history_count % M] = history_count + 1],
         history_count' = history_count + 1
  PROVE  Ring' /\ history_count' \in Nat /\ history' \in [Slots -> Nat]
<1>1. M \in Nat \ {0} /\ M' = M
  BY ShellAssumption DEF M
<1>2. \A a \in Nat : a % M \in Slots
  BY <1>1 DEF Slots, M
<1>3. ASSUME NEW c \in 1 .. history_count', c + M > history_count'
      PROVE  history'[(c - 1) % M] = c
  <2>1. CASE c = history_count + 1
    BY <1>2, <2>1
  <2>2. CASE c # history_count + 1
    <3>1. c \in 1 .. history_count /\ c + M > history_count /\ c - 1 \in Nat
          /\ c - 1 < history_count /\ history_count < (c - 1) + M
      BY <1>1, <1>3, <2>2
    <3>2. (c - 1) % M # history_count % M
      BY <1>1, <3>1, Apart
    <3>3. history[(c - 1) % M] = c
      BY <3>1 DEF Ring
    <3> QED
      BY <1>2, <3>1, <3>2, <3>3
  <2> QED
    BY <2>1, <2>2
<1>4. history' \in [Slots -> Nat]
  BY <1>2
<1> QED
  BY <1>1, <1>3, <1>4 DEF Ring

LEMMA RecordIs ==
  ASSUME history_count \in Nat, Ring
  PROVE  Record = Latest
<1>1. M \in Nat \ {0}
  BY ShellAssumption DEF M
<1>2. CASE history_count < M
  <2>1. \A j \in 1 .. history_count : history[j - 1] = j
    <3>1. ASSUME NEW j \in 1 .. history_count PROVE history[j - 1] = j
      <4>1. history[(j - 1) % M] = j
        BY <1>1, <1>2 DEF Ring
      <4>2. (j - 1) % M = j - 1
        BY <1>1, <1>2
      <4> QED
        BY <4>1, <4>2
    <3> QED
      BY <3>1
  <2>2. Kept = history_count /\ \A j \in 1 .. history_count : history_count - Kept + j = j
    BY <1>2 DEF Kept
  <2> QED
    BY <1>2, <2>1, <2>2 DEF Record, Latest, M
<1>3. CASE ~(history_count < M)
  <2>1. ASSUME NEW j \in 1 .. M
        PROVE  history[(history_count + j - 1) % M] = history_count - M + j
    <3> DEFINE c == history_count - M + j
    <3>1. /\ c \in 1 .. history_count /\ c + M > history_count
          /\ c - 1 \in Nat /\ history_count + j - 1 = (c - 1) + M
      BY <1>1, <1>3
    <3> HIDE DEF c
    <3>2. history[(c - 1) % M] = c
      BY <3>1 DEF Ring
    <3>3. ((c - 1) + M) % M = (c - 1) % M
      BY <1>1, <3>1, RoundTheRing
    <3> QED
      BY <3>1, <3>2, <3>3 DEF c
  <2>2. Kept = M
    BY <1>3 DEF Kept
  <2> QED
    BY <1>3, <2>1, <2>2 DEF Record, Latest, M
<1> QED
  BY <1>2, <1>3
-----------------------------------------------------------------------------
LEMMA InitBase == Init => Base
<1> SUFFICES ASSUME Init PROVE Base
  OBVIOUS
<1>1. /\ pc = "prompt" /\ history_count = 0 /\ fds = Fresh /\ child = NoChild
      /\ terminal \in BOOLEAN /\ history = [s \in Slots |-> 0]
  BY ShellAssumption DEF Init
<1>2. TypeOK /\ Table /\ Children /\ Recorded
  BY <1>1, FreshIsPlain DEF TypeOK, Table, Children, Recorded, ShellSteps
<1>3. Ring
  BY <1>1 DEF Ring
<1> QED
  BY <1>2, <1>3 DEF Base

(* The shell reads a line, or the end of its input. *)
LEMMA ReadsBase ==
  ASSUME Base, EndOfFile \/ \E line \in Lines : ReadLine(line)
  PROVE  Base'
<1>1. /\ pc = "prompt" /\ pc' \in {"prompt", "search"} /\ terminal' = terminal
      /\ fds' = fds /\ child' = child /\ lost' = lost
      /\ \/ UNCHANGED hist
         \/ /\ history' = [history EXCEPT ![history_count % M] = history_count + 1]
            /\ history_count' = history_count + 1
  BY DEF EndOfFile, ReadLine, M
<1>2. /\ terminal \in BOOLEAN /\ history_count \in Nat /\ history \in [Slots -> Nat] /\ Ring
      /\ Plain(fds) /\ child = NoChild /\ Plain(fds)' = Plain(fds)
  BY <1>1 DEF Base, TypeOK, Table, Children, Plain, OwnIn, OwnOut, Sinks
<1>3. Ring' /\ history_count' \in Nat /\ history' \in [Slots -> Nat]
  <2>1. CASE UNCHANGED hist
    BY <1>2, <2>1 DEF hist, Ring
  <2> QED
    BY <1>1, <1>2, <2>1, RingKept
<1>4. TypeOK' /\ Table' /\ Children' /\ Recorded'
  BY <1>1, <1>2, <1>3 DEF TypeOK, Table, Children, Recorded, ShellSteps
<1> QED
  BY <1>3, <1>4 DEF Base

LEMMA ShellBase ==
  ASSUME Base, ShellStep
  PROVE  Base'
<1>1. /\ UNCHANGED <<terminal, hist, cmd>>
  BY DEF ShellStep, Search, Dup, Redirect, Exec, Restore, Exit, Fork, ForkFails, Wait,
     ForkCmdNode
<1>2. TypeOK /\ Table /\ Children /\ Ring /\ Recorded
  BY DEF Base
<1>3. /\ Ring' /\ Latest' = Latest /\ CanOpen' = CanOpen
      /\ UNCHANGED lost => \A f : /\ OwnIn(f)' = OwnIn(f) /\ OwnOut(f)' = OwnOut(f)
                                  /\ Fed(f)' = Fed(f) /\ Sent(f)' = Sent(f)
                                  /\ Plain(f)' = Plain(f)
  BY <1>1, <1>2 DEF hist, Ring, Latest, Kept, CanOpen, node, OwnIn, OwnOut, Fed, Sent, Sinks,
     Plain
<1>4. pc' \in ShellSteps => TypeOK'
  BY <1>1, <1>2 DEF TypeOK, hist
<1>5. CASE Search
  <2>1. /\ pc = "search" /\ pc' \in {"pipeline", "crashed", "dup", "fork"}
        /\ UNCHANGED <<fds, child, lost>>
    BY <1>5 DEF Search
  <2> QED
    BY <1>2, <1>3, <1>4, <2>1 DEF Base, Table, Children, Recorded, ShellSteps
<1>6. CASE Dup
  <2>1. pc = "dup" /\ pc' = "redirect" /\ child' = child /\ Plain(fds)
    BY <1>2, <1>6 DEF Dup, Table
  <2>2. (Copies /\ OwnIn(fds[0]) /\ OwnOut(fds[1]))'
    BY <1>6, <2>1, Dups
  <2>3. Table'
    BY <2>1, <2>2 DEF Table
  <2> QED
    BY <1>2, <1>3, <1>4, <2>1, <2>3 DEF Base, Children, Recorded, ShellSteps
<1>7. CASE Redirect
  <2>1. /\ pc = "redirect" /\ UNCHANGED <<in, out, lost, child>>
        /\ Copies /\ OwnIn(fds[0]) /\ OwnOut(fds[1])
        /\ \/ CanOpen /\ fds' = Redirected(fds) /\ pc' = "exec"
           \/ fds' = fds /\ pc' = "exit"
    BY <1>2, <1>7 DEF Redirect, Table
  <2>2. CASE CanOpen /\ fds' = Redirected(fds) /\ pc' = "exec"
    <3>1. fds = [d \in Descriptors |-> fds[d]]
      BY <2>1 DEF Copies
    <3>2. /\ fds' = [d \in Descriptors |-> fds'[d]] /\ \A d \in {3, 4, 5} : fds'[d] = fds[d]
          /\ Fed(fds'[0]) /\ Sent(fds'[1])
      BY <2>1, <2>2, <3>1, Redirections
    <3>3. Copies'
      <4>1. in \in {-1, 3, 4, 5} /\ out \in {-1, 3, 4, 5}
        BY <2>1 DEF Copies
      <4> QED
        BY <1>3, <2>1, <3>2, <4>1 DEF Copies
    <3>4. Table'
      BY <1>3, <2>1, <2>2, <3>2, <3>3 DEF Table
    <3> QED
      BY <1>2, <1>3, <1>4, <2>1, <2>2, <3>4 DEF Base, Children, Recorded, ShellSteps
  <2>3. CASE fds' = fds /\ pc' = "exit"
    <3>1. Table'
      BY <1>3, <2>1, <2>3 DEF Table, OwnOut, Sinks
    <3> QED
      BY <1>2, <1>3, <1>4, <2>1, <2>3, <3>1 DEF Base, Children, Recorded, ShellSteps
  <2> QED
    BY <2>1, <2>2, <2>3
<1>8. CASE Exec
  <2>1. /\ pc = "exec" /\ pc' = "restore" /\ UNCHANGED <<fds, in, out, lost, child>>
        /\ printed' \in {<<>>, Record}
    BY <1>8 DEF Exec
  <2>2. Record = Latest
    BY <1>2, RecordIs DEF TypeOK
  <2>3. Table'
    BY <1>2, <1>3, <2>1 DEF Table, Copies
  <2> QED
    BY <1>2, <1>3, <1>4, <2>1, <2>2, <2>3 DEF Base, Children, Recorded, ShellSteps
<1>9. CASE Restore
  <2>1. /\ pc = "restore" /\ pc' \in {"exit", "prompt"} /\ child' = child
        /\ Copies /\ Fed(fds[0]) /\ Sent(fds[1])
    BY <1>2, <1>9 DEF Restore, Table
  <2>2. Plain(fds)'
    BY <1>9, <2>1, Restored
  <2>3. Table'
    BY <2>1, <2>2 DEF Table, Plain, OwnOut
  <2> QED
    BY <1>2, <1>3, <1>4, <2>1, <2>3 DEF Base, Children, Recorded, ShellSteps
<1>10. CASE Exit
  <2>1. pc = "exit" /\ pc' = "exited" /\ child' = child
    BY <1>10 DEF Exit
  <2> QED
    BY <1>2, <1>3, <1>4, <2>1 DEF Base, Table, Children, Recorded, ShellSteps
<1>11. CASE Fork
  <2>1. /\ pc = "fork" /\ pc' = "wait" /\ UNCHANGED <<fds, lost>> /\ Plain(fds)
        /\ child' = [pc |-> "redirect", fds |-> fds, buf |-> buf]
    BY <1>2, <1>11 DEF Fork, Table
  <2>2. Table' /\ Children'
    BY <1>3, <2>1 DEF Table, Children, ChildSteps
  <2> QED
    BY <1>2, <1>3, <1>4, <2>1, <2>2 DEF Base, Recorded, ShellSteps
<1>12. CASE ForkFails
  <2>1. pc = "fork" /\ pc' = "prompt" /\ UNCHANGED <<fds, child, lost>>
    BY <1>2, <1>12 DEF ForkFails
  <2> QED
    BY <1>2, <1>3, <1>4, <2>1 DEF Base, Table, Children, Recorded, ShellSteps
<1>13. CASE Wait
  <2>1. pc = "wait" /\ pc' = "prompt" /\ UNCHANGED <<fds, lost>> /\ child' = NoChild
    BY <1>2, <1>13 DEF Wait
  <2> QED
    BY <1>2, <1>3, <1>4, <2>1 DEF Base, Table, Children, Recorded, ShellSteps
<1>14. CASE ForkCmdNode
  <2>1. /\ pc = "pipeline" /\ pc' \in {"prompt", "exit"} /\ UNCHANGED <<fds, child, lost>>
        /\ Plain(fds)
    BY <1>2, <1>14 DEF ForkCmdNode, Table
  <2> QED
    BY <1>2, <1>3, <1>4, <2>1 DEF Base, Table, Children, Plain, OwnOut, Sinks, Recorded, ShellSteps
<1> QED
  BY <1>5, <1>6, <1>7, <1>8, <1>9, <1>10, <1>11, <1>12, <1>13, <1>14 DEF ShellStep

LEMMA ChildBase ==
  ASSUME Base, ChildStep
  PROVE  Base'
<1>1. /\ UNCHANGED <<terminal, hist, cmd, pc, fds, in, out, lost, printed>>
  BY DEF ChildStep, ChildRedirect, ChildExec, ChildExit
<1>2. TypeOK /\ Table /\ Children /\ Ring /\ Recorded
  BY DEF Base
<1>3. \A f : /\ OwnIn(f)' = OwnIn(f) /\ OwnOut(f)' = OwnOut(f) /\ Plain(f)' = Plain(f)
              /\ Fed(f)' = Fed(f) /\ Sent(f)' = Sent(f) /\ CanOpen' = CanOpen
  BY <1>1 DEF OwnIn, OwnOut, Plain, Fed, Sent, CanOpen, node, Sinks
<1>4. TypeOK' /\ Table' /\ Ring' /\ Recorded'
  BY <1>1, <1>2, <1>3
     DEF TypeOK, Table, Ring, Recorded, Latest, Kept, hist, Copies
<1>5. Children'
  <2>1. child.pc \in {"redirect", "exec", "exit"}
    BY DEF ChildStep, ChildRedirect, ChildExec, ChildExit
  <2>2. NoChild.pc = "none"
    BY DEF NoChild
  <2>3. /\ pc = "wait" /\ child = [pc |-> child.pc, fds |-> child.fds, buf |-> child.buf]
        /\ child.pc = "redirect" => Plain(child.fds)
        /\ child.pc = "exec" => CanOpen /\ Sent(child.fds[1])
    BY <1>2, <2>1, <2>2 DEF Children
  <2> DEFINE Now(p, f, b) == child' = [pc |-> p, fds |-> f, buf |-> b]
  <2>4. ASSUME NEW f, NEW b, \/ Now("exec", f, b) /\ CanOpen /\ Sent(f[1])
                             \/ Now("exit", f, b) /\ f[1] \in Sinks
                             \/ Now("gone", f, b)
        PROVE  Children'
    BY <1>1, <1>3, <2>3, <2>4 DEF Children, ChildSteps, Sinks
  <2>5. CASE ChildRedirect
    <3>1. child.pc = "redirect" /\ Plain(child.fds)
      BY <2>3, <2>5 DEF ChildRedirect
    <3>2. CASE CanOpen
      <4>1. child' = [child EXCEPT !.pc = "exec", !.fds = Redirected(@)]
        BY <2>5, <3>2 DEF ChildRedirect
      <4>2. Now("exec", Redirected(child.fds), child.buf)
        BY <2>3, <3>1, <4>1
      <4>3. Sent(Redirected(child.fds)[1])
        BY <3>1, <3>2, Redirections DEF Plain
      <4> QED
        BY <2>4, <3>2, <4>2, <4>3
    <3>3. CASE ~CanOpen
      <4>1. child' = [child EXCEPT !.pc = "exit"]
        BY <2>5, <3>3 DEF ChildRedirect
      <4>2. Now("exit", child.fds, child.buf)
        BY <2>3, <3>1, <4>1
      <4> QED
        BY <2>4, <3>1, <4>2 DEF Plain, OwnOut
    <3> QED
      BY <3>2, <3>3
  <2>6. CASE ChildExec
    <3>1. child.pc = "exec" /\ CanOpen /\ child.fds[1] \in Sinks
      BY <2>3, <2>6, Targets DEF ChildExec
    <3>2. \/ child' = [child EXCEPT !.pc = "gone", !.buf = <<>>]
          \/ child' = [child EXCEPT !.pc = "exit"]
      BY <2>6 DEF ChildExec, AfterExec
    <3>3. Now("gone", child.fds, <<>>) \/ Now("exit", child.fds, child.buf)
      BY <2>3, <3>2
    <3> QED
      BY <2>4, <3>1, <3>3
  <2>7. CASE ChildExit
    <3>1. child' = [child EXCEPT !.pc = "gone", !.buf = <<>>]
      BY <2>7 DEF ChildExit
    <3>2. Now("gone", child.fds, <<>>)
      BY <2>3, <3>1
    <3> QED
      BY <2>4, <3>2
  <2> QED
    BY <2>5, <2>6, <2>7 DEF ChildStep
<1> QED
  BY <1>4, <1>5 DEF Base

LEMMA BaseStep == Base /\ [Next]_vars => Base'
<1> SUFFICES ASSUME Base, [Next]_vars PROVE Base'
  OBVIOUS
<1>1. CASE Idle \/ UNCHANGED vars
  BY <1>1 DEF Idle, vars, hist, Base, TypeOK, Table, Children, Ring, Recorded, Latest, Kept,
     CanOpen, Copies, Plain, Fed, Sent, OwnIn, OwnOut, node
<1> QED
  BY <1>1, ReadsBase, ShellBase, ChildBase DEF Next

LEMMA BaseInvariance == Spec => []Base
  BY InitBase, BaseStep, PTL DEF Spec

(* At every prompt the shell has no copy left open, and its own standard input and output
   but for those a failing dup has lost, whatever the lines were. *)
THEOREM OwnDescriptors == Spec => []DescriptorsRestored
<1>1. Base => DescriptorsRestored
  <2> SUFFICES ASSUME Base, pc = "prompt"
               PROVE  /\ \A d \in Descriptors \ {0, 1} : fds[d] = NULL
                      /\ \A d \in {0, 1} \ lost : fds[d] = Fresh[d]
    BY DEF DescriptorsRestored
  <2>1. Plain(fds)
    BY DEF Base, Table
  <2> QED
    BY <2>1, Tables DEF Plain, OwnIn, OwnOut
<1> QED
  BY <1>1, BaseInvariance, PTL

(* record lists the last lines, in their order, for a ring of any size and however often
   it has gone round. *)
THEOREM LatestRecorded == Spec => []RecordLatest
<1>1. Base => RecordLatest
  BY DEF Base, Recorded, RecordLatest, Latest, Kept, M
<1> QED
  BY <1>1, BaseInvariance, PTL
-----------------------------------------------------------------------------
(* What is in files F, of which the users wanted W, after n commands *)
Once(F) == \A s, u \in Sinks : \A j \in DOMAIN F[s], l \in DOMAIN F[u] :
             F[s][j] = F[u][l] => s = u /\ j = l
Upto(F, n) == \A s \in Sinks : \A j \in DOMAIN F[s] : F[s][j].line <= n
Misses(F, x) == \A s \in Sinks : \A j \in DOMAIN F[s] : F[s][j] # x
Right(F, W, n) ==
  /\ F \in [Sinks -> Seq(Items)] /\ W \in [Sinks -> Seq(Items)]
  /\ \A s \in Sinks : Whole(F[s]) = Whole(W[s]) /\ InOrder(F[s])
  /\ Upto(F, n) /\ Once(F)

(* A sequence with one more item *)
LEMMA OneMore ==
  ASSUME NEW s \in Seq(Items), NEW x \in Items
  PROVE  /\ s \o <<x>> \in Seq(Items) /\ Len(s) \in Nat /\ DOMAIN s = 1 .. Len(s)
         /\ DOMAIN (s \o <<x>>) = 1 .. Len(s) + 1
         /\ \A j \in 1 .. Len(s) : (s \o <<x>>)[j] = s[j] /\ s[j] \in Items
         /\ (s \o <<x>>)[Len(s) + 1] = x
<1>1. <<x>> \in Seq(Items) /\ Len(<<x>>) = 1 /\ <<x>>[1] = x
  OBVIOUS
<1>2. /\ Len(s) \in Nat /\ DOMAIN s = 1 .. Len(s)
      /\ \A j \in 1 .. Len(s) : s[j] \in Items
  BY LenProperties, ElementOfSeq
<1>3. /\ s \o <<x>> \in Seq(Items) /\ Len(s \o <<x>>) = Len(s) + 1
      /\ \A j \in 1 .. Len(s) + 1 : (s \o <<x>>)[j] = IF j <= Len(s) THEN s[j] ELSE <<x>>[j - Len(s)]
  BY <1>1, ConcatProperties
<1>4. DOMAIN (s \o <<x>>) = 1 .. Len(s) + 1
  BY <1>3, LenProperties
<1>5. \A j \in 1 .. Len(s) : (s \o <<x>>)[j] = s[j]
  BY <1>2, <1>3
<1>6. (s \o <<x>>)[Len(s) + 1] = x
  BY <1>1, <1>2, <1>3
<1> QED
  BY <1>2, <1>3, <1>4, <1>5, <1>6

LEMMA OneMoreLine ==
  ASSUME NEW s \in Seq(Items), NEW x \in Items
  PROVE  /\ x.nl => Whole(s \o <<x>>) = Whole(s) \cup {x}
         /\ ~x.nl => Whole(s \o <<x>>) = Whole(s)
         /\ InOrder(s) /\ (x.nl => \A j \in DOMAIN s : s[j].line < x.line) => InOrder(s \o <<x>>)
<1> DEFINE t == s \o <<x>>
<1>1. /\ t \in Seq(Items) /\ Len(s) \in Nat /\ DOMAIN s = 1 .. Len(s)
      /\ DOMAIN t = 1 .. Len(s) + 1 /\ t[Len(s) + 1] = x
      /\ \A j \in 1 .. Len(s) : t[j] = s[j] /\ s[j] \in Items
  BY OneMore
<1> HIDE DEF t
<1>2. \A j : j \in DOMAIN t <=> j \in DOMAIN s \/ j = Len(s) + 1
  BY <1>1
<1>3. x.nl => Whole(t) = Whole(s) \cup {x}
  BY <1>1, <1>2 DEF Whole
<1>4. ~x.nl => Whole(t) = Whole(s)
  BY <1>1, <1>2 DEF Whole
<1>5. ASSUME InOrder(s), x.nl => \A j \in DOMAIN s : s[j].line < x.line
      PROVE  InOrder(t)
  <2>1. SUFFICES ASSUME NEW j \in DOMAIN t, NEW l \in DOMAIN t, j < l, t[j].nl, t[l].nl
                 PROVE  t[j].line < t[l].line
    BY DEF InOrder
  <2>2. j \in DOMAIN s
    BY <1>1, <2>1
  <2>3. CASE l \in DOMAIN s
    BY <1>1, <1>5, <2>1, <2>2, <2>3 DEF InOrder
  <2>4. CASE l = Len(s) + 1
    BY <1>1, <1>5, <2>1, <2>2, <2>4
  <2> QED
    BY <1>2, <2>3, <2>4
<1> QED
  BY <1>3, <1>4, <1>5 DEF t

(* An item goes to a file: what is wanted there is a line after all others, or it is no
   line and it does not matter where it was wanted. *)
LEMMA RightWrite ==
  ASSUME NEW F, NEW W, NEW V, NEW n \in Nat, NEW m \in Nat, NEW f \in Sinks, NEW x \in Items,
         Right(F, W, n), n <= m, x.line <= m, Misses(F, x),
         \/ x.nl /\ (\A s \in Sinks : \A j \in DOMAIN F[s] : F[s][j].line < x.line)
              /\ V = [W EXCEPT ![f] = @ \o <<x>>]
         \/ ~x.nl /\ (V = W \/ \E g \in Sinks : V = [W EXCEPT ![g] = @ \o <<x>>])
  PROVE  Right([F EXCEPT ![f] = @ \o <<x>>], V, m)
<1> DEFINE G == [F EXCEPT ![f] = @ \o <<x>>]
<1>1. /\ \A s \in Sinks : F[s] \in Seq(Items) /\ W[s] \in Seq(Items)
      /\ F \in [Sinks -> Seq(Items)] /\ W \in [Sinks -> Seq(Items)]
  BY DEF Right
<1>2. G \in [Sinks -> Seq(Items)] /\ G[f] = F[f] \o <<x>> /\ \A s \in Sinks \ {f} : G[s] = F[s]
  BY <1>1, OneMore
<1> HIDE DEF G
<1>3. /\ Len(F[f]) \in Nat /\ DOMAIN F[f] = 1 .. Len(F[f])
      /\ DOMAIN G[f] = 1 .. Len(F[f]) + 1 /\ G[f][Len(F[f]) + 1] = x
      /\ \A j \in DOMAIN F[f] : G[f][j] = F[f][j]
  BY <1>1, <1>2, OneMore
<1> DEFINE e == Len(F[f]) + 1
<1>4. \A s \in Sinks : \A j \in DOMAIN G[s] :
        \/ j \in DOMAIN F[s] /\ G[s][j] = F[s][j]
        \/ s = f /\ j = e /\ G[s][j] = x
  BY <1>2, <1>3
<1>5. Upto(G, m)
  <2>1. \A s \in Sinks : \A j \in DOMAIN F[s] : F[s][j].line <= n /\ F[s][j].line \in Nat
    <3>1. ASSUME NEW s \in Sinks, NEW j \in DOMAIN F[s] PROVE F[s][j] \in Items
      BY <1>1, LenProperties, ElementOfSeq
    <3> QED
      BY <3>1 DEF Right, Upto, Items
  <2> QED
    BY <1>4, <2>1 DEF Upto, Items
<1>6. Once(G)
  <2>1. SUFFICES ASSUME NEW s \in Sinks, NEW u \in Sinks, NEW j \in DOMAIN G[s],
                        NEW l \in DOMAIN G[u], G[s][j] = G[u][l]
                 PROVE  s = u /\ j = l
    BY DEF Once
  <2>2. Once(F)
    BY DEF Right
  <2> HIDE DEF e
  <2> QED
    BY <1>4, <2>1, <2>2 DEF Once, Misses
<1>7. /\ V \in [Sinks -> Seq(Items)]
      /\ \A s \in Sinks : Whole(G[s]) = Whole(V[s]) /\ InOrder(G[s])
  <2>1. \A s \in Sinks : Whole(F[s]) = Whole(W[s]) /\ InOrder(F[s])
    BY DEF Right
  <2>2. x.nl => \A j \in DOMAIN F[f] : F[f][j].line < x.line
    OBVIOUS
  <2>3. \A s \in Sinks : InOrder(G[s])
    BY <1>1, <1>2, <2>1, <2>2, OneMoreLine
  <2>4. CASE x.nl
    <3>1. V = [W EXCEPT ![f] = @ \o <<x>>]
      BY <2>4
    <3>2. V \in [Sinks -> Seq(Items)] /\ V[f] = W[f] \o <<x>> /\ \A s \in Sinks \ {f} : V[s] = W[s]
      BY <1>1, <3>1, OneMore
    <3>3. Whole(G[f]) = Whole(F[f]) \cup {x} /\ Whole(V[f]) = Whole(W[f]) \cup {x}
      BY <1>1, <1>2, <2>4, <3>2, OneMoreLine
    <3> QED
      BY <1>2, <2>1, <2>3, <3>2, <3>3
  <2>5. CASE ~x.nl
    <3>1. V \in [Sinks -> Seq(Items)] /\ \A s \in Sinks : V[s] = W[s] \/ V[s] = W[s] \o <<x>>
      <4>1. CASE V = W
        BY <1>1, <4>1
      <4>2. CASE \E g \in Sinks : V = [W EXCEPT ![g] = @ \o <<x>>]
        BY <1>1, <4>2, OneMore
      <4> QED
        BY <2>5, <4>1, <4>2
    <3>2. \A s \in Sinks : Whole(V[s]) = Whole(W[s])
      BY <1>1, <2>5, <3>1, OneMoreLine
    <3>3. \A s \in Sinks : Whole(G[s]) = Whole(F[s])
      <4>1. Whole(G[f]) = Whole(F[f])
        BY <1>1, <1>2, <2>5, OneMoreLine
      <4> QED
        BY <1>2, <4>1
    <3> QED
      BY <2>1, <2>3, <3>1, <3>2, <3>3
  <2> QED
    BY <2>4, <2>5
<1> QED
  BY <1>2, <1>5, <1>6, <1>7 DEF Right, G

(* The user of echo -n wanted an item that is still in the buffer. *)
LEMMA RightWant ==
  ASSUME NEW F, NEW W, NEW n, NEW f \in Sinks, NEW x \in Items, Right(F, W, n), ~x.nl
  PROVE  Right(F, [W EXCEPT ![f] = @ \o <<x>>], n)
<1> DEFINE V == [W EXCEPT ![f] = @ \o <<x>>]
<1>1. /\ \A s \in Sinks : W[s] \in Seq(Items) /\ W \in [Sinks -> Seq(Items)]
  BY DEF Right
<1>2. V \in [Sinks -> Seq(Items)] /\ V[f] = W[f] \o <<x>> /\ \A s \in Sinks \ {f} : V[s] = W[s]
  BY <1>1, OneMore
<1> HIDE DEF V
<1>3. \A s \in Sinks : Whole(V[s]) = Whole(W[s])
  <2>1. Whole(V[f]) = Whole(W[f])
    BY <1>1, <1>2, OneMoreLine
  <2> QED
    BY <1>2, <2>1
<1> QED
  BY <1>2, <1>3 DEF Right, V

(* A file is emptied, or none. *)
LEMMA RightEmptied ==
  ASSUME NEW F, NEW W, NEW G, NEW V, NEW n, Right(F, W, n),
         G \in [Sinks -> Seq(Items)], V \in [Sinks -> Seq(Items)],
         \A s \in Sinks : \/ G[s] = F[s] /\ V[s] = W[s]
                          \/ G[s] = <<>> /\ V[s] = <<>>
  PROVE  /\ Right(G, V, n)
         /\ \A s \in Sinks : \A j \in DOMAIN G[s] : j \in DOMAIN F[s] /\ G[s][j] = F[s][j]
<1>1. DOMAIN <<>> = {}
  OBVIOUS
<1>2. \A s \in Sinks : \A j \in DOMAIN G[s] : j \in DOMAIN F[s] /\ G[s][j] = F[s][j]
  BY <1>1
<1>3. Upto(G, n) /\ Once(G)
  BY <1>2 DEF Right, Upto, Once
<1>4. InOrder(<<>>)
  BY <1>1 DEF InOrder
<1>5. \A s \in Sinks : Whole(G[s]) = Whole(V[s]) /\ InOrder(G[s])
  BY <1>4 DEF Right
<1> QED
  BY <1>2, <1>3, <1>5 DEF Right
-----------------------------------------------------------------------------
(* No item in a file is of the present command. *)
Ahead == \A s \in Sinks : \A j \in DOMAIN files[s] : files[s][j].line < history_count

(* What EndOfFile found is no command. *)
NoCommand == \E args \in Garbage : cmd = <<[NewNode EXCEPT !.args = args]>>

(* The buffer of stdout has at most the item of an echo -n. *)
Buffered == buf = <<>> \/
  /\ pc \in {"prompt", "restore", "exit"}
  /\ \E x \in Items : buf = <<x>> /\ ~x.nl /\ x.line <= history_count /\ Misses(files, x)

Unprinted ==
  /\ pc \in {"pipeline", "dup", "redirect", "exec"} => Ahead
  /\ pc = "search" => Ahead \/ NoCommand
  /\ pc = "fork" \/ child.pc \in {"redirect", "exec"} => Ahead \/ name \notin Programs

(* W is what went where: as long as standard output is not lost, what was wanted there. *)
Placed(F, W, n) == Right(F, W, n) /\ (1 \notin lost => W = want)
Outputs == /\ \E W : Placed(files, W, history_count)
           /\ Buffered /\ child.buf = <<>> /\ Unprinted

LEMMA NotACommand ==
  ASSUME NoCommand
  PROVE  /\ Len(cmd) = 1 /\ (node.args = <<>> \/ name = "?")
         /\ "?" \notin Programs /\ "?" \notin Builtins
<1>1. PICK args \in Garbage : cmd = <<[NewNode EXCEPT !.args = args]>>
  BY DEF NoCommand
<1>2. Len(cmd) = 1 /\ node = [NewNode EXCEPT !.args = args]
  BY <1>1 DEF node
<1>3. node.args = args
  BY <1>2 DEF NewNode
<1>4. args = <<>> \/ args[1] = "?"
  BY DEF Garbage
<1>5. "?" \notin Programs /\ "?" \notin Builtins
  BY ShellAssumption DEF Builtins
<1> QED
  BY <1>2, <1>3, <1>4, <1>5 DEF name

(* What is written when nothing is buffered *)
LEMMA NothingWritten ==
  ASSUME NEW F \in [Sinks -> Seq(Items)], NEW f \in Sinks
  PROVE  [F EXCEPT ![f] = @ \o <<>>] = F
<1>1. F[f] \o <<>> = F[f]
  BY ConcatEmptySeq
<1> QED
  BY <1>1

LEMMA Commands ==
  ASSUME history_count \in Nat
  PROVE  /\ \A nl \in BOOLEAN : /\ [line |-> history_count, nl |-> nl] \in Items
                                /\ Item(nl) = <<[line |-> history_count, nl |-> nl]>>
         /\ \A args : Printout(args) = <<>> \/ \E nl \in BOOLEAN : Printout(args) = Item(nl)
<1>1. \A nl \in BOOLEAN : /\ [line |-> history_count, nl |-> nl] \in Items
                          /\ Item(nl) = <<[line |-> history_count, nl |-> nl]>>
  BY DEF Items, Item
<1>2. ASSUME NEW args
      PROVE  Printout(args) = <<>> \/ \E nl \in BOOLEAN : Printout(args) = Item(nl)
  <2> DEFINE whole == ~Has(args, 2, "-n")
  <2>1. Printout(args) \in {<<>>, Item(whole), Item(TRUE)}
    BY DEF Printout
  <2> HIDE DEF whole
  <2>2. Item(whole) \in {Item(TRUE), Item(FALSE)}
    <3>1. CASE whole
      <4>1. whole = TRUE
        BY <3>1 DEF whole
      <4> QED
        BY <4>1
    <3>2. CASE ~whole
      <4>1. whole = FALSE
        BY <3>2 DEF whole
      <4> QED
        BY <4>1
    <3> QED
      BY <3>1, <3>2
  <2> QED
    BY <2>1, <2>2
<1> QED
  BY <1>1, <1>2

LEMMA Prints ==
  ASSUME history_count \in Nat, NEW args
  PROVE  \/ Printout(args) = <<>>
         \/ \E x \in Items : /\ Printout(args) = <<x>> /\ x.line = history_count
                             /\ x.nl => Printout(args) = Item(TRUE)
<1> DEFINE x(nl) == [line |-> history_count, nl |-> nl]
<1>1. PICK nl \in BOOLEAN : Printout(args) = <<>> \/ Printout(args) = Item(nl)
  BY Commands
<1>2. CASE nl = TRUE
  <2>1. x(TRUE) \in Items /\ Item(TRUE) = <<x(TRUE)>> /\ x(TRUE).line = history_count
    BY Commands
  <2>2. Printout(args) = <<>> \/ Printout(args) = Item(TRUE)
    BY <1>1, <1>2
  <2> HIDE DEF x, Printout, Item
  <2> QED
    BY <2>1, <2>2
<1>3. CASE nl = FALSE
  <2>1. /\ x(FALSE) \in Items /\ Item(FALSE) = <<x(FALSE)>>
        /\ x(FALSE).line = history_count /\ ~x(FALSE).nl
    BY Commands
  <2>2. Printout(args) = <<>> \/ Printout(args) = Item(FALSE)
    BY <1>1, <1>3
  <2> HIDE DEF x, Printout, Item
  <2> QED
    BY <2>1, <2>2
<1> QED
  BY <1>2, <1>3

(* An item of the present command is in no file yet. *)
LEMMA PrintsNow ==
  ASSUME history_count \in Nat, Ahead, NEW W, Right(files, W, history_count),
         NEW x \in Items, x.line = history_count
  PROVE  Misses(files, x) /\ \A s \in Sinks : \A j \in DOMAIN files[s] : files[s][j].line < x.line
<1>1. ASSUME NEW s \in Sinks, NEW j \in DOMAIN files[s] PROVE files[s][j] \in Items
  BY LenProperties, ElementOfSeq DEF Right
<1>2. \A s \in Sinks : \A j \in DOMAIN files[s] : files[s][j] # x
  BY <1>1 DEF Ahead, Items
<1> QED
  BY <1>2 DEF Misses, Ahead

(* The present command prints a line. *)
LEMMA LineWritten ==
  ASSUME history_count \in Nat, Ahead, NEW W, Right(files, W, history_count), NEW f \in Sinks,
         files' = [files EXCEPT ![f] = @ \o Item(TRUE)], history_count' = history_count
  PROVE  Right(files', [W EXCEPT ![f] = @ \o Item(TRUE)], history_count')
<1> DEFINE x == [line |-> history_count, nl |-> TRUE]
<1>1. x \in Items /\ Item(TRUE) = <<x>> /\ x.nl /\ x.line = history_count
  BY Commands
<1> HIDE DEF x
<1>2. Misses(files, x) /\ \A s \in Sinks : \A j \in DOMAIN files[s] : files[s][j].line < x.line
  BY <1>1, PrintsNow
<1>3. history_count <= history_count /\ x.line <= history_count
  BY <1>1
<1> HIDE DEF Item
<1> DEFINE V == [W EXCEPT ![f] = @ \o Item(TRUE)]
<1>4. files' = [files EXCEPT ![f] = @ \o <<x>>] /\ V = [W EXCEPT ![f] = @ \o <<x>>]
  BY <1>1, Zenon
<1> HIDE DEF V
<1>5. Right([files EXCEPT ![f] = @ \o <<x>>], V, history_count)
  BY <1>1, <1>2, <1>3, <1>4, RightWrite
<1> QED
  BY <1>4, <1>5 DEF V

(* The buffer goes to a file. *)
LEMMA BufferFlushed ==
  ASSUME history_count \in Nat, NEW W, Right(files, W, history_count), Buffered, NEW f \in Sinks
  PROVE  Right([files EXCEPT ![f] = @ \o buf], W, history_count)
<1>1. CASE buf = <<>>
  BY <1>1, NothingWritten DEF Right
<1>2. CASE buf # <<>>
  <2>1. PICK x \in Items : buf = <<x>> /\ ~x.nl /\ x.line <= history_count /\ Misses(files, x)
    BY <1>2 DEF Buffered
  <2>2. W = W /\ history_count <= history_count
    OBVIOUS
  <2>3. Right([files EXCEPT ![f] = @ \o <<x>>], W, history_count)
    BY <2>1, <2>2, RightWrite
  <2> QED
    BY <2>1, <2>3
<1> QED
  BY <1>1, <1>2

(* A redirection empties its file. *)
LEMMA FileEmptied ==
  ASSUME NEW W, Placed(files, W, history_count), Emptied, WantEmptied, lost' = lost,
         history_count' = history_count
  PROVE  /\ \E V : Placed(files, V, history_count)'
         /\ Ahead => Ahead'
<1> DEFINE V == [s \in Sinks |-> IF s = node.out_file THEN <<>> ELSE W[s]]
<1>1. /\ files \in [Sinks -> Seq(Items)] /\ W \in [Sinks -> Seq(Items)] /\ <<>> \in Seq(Items)
  BY EmptySeq DEF Placed, Right
<1>2. /\ files' \in [Sinks -> Seq(Items)]
      /\ \A s \in Sinks : files'[s] = IF s = node.out_file THEN <<>> ELSE files[s]
  BY <1>1 DEF Emptied
<1>3. /\ V \in [Sinks -> Seq(Items)]
      /\ \A s \in Sinks : V[s] = IF s = node.out_file THEN <<>> ELSE W[s]
  BY <1>1
<1>4. W = want => want' = V
  <2>1. CASE node.out_file = NULL
    BY <1>1, <2>1, Files DEF WantEmptied
  <2>2. CASE node.out_file # NULL
    BY <1>1, <2>2 DEF WantEmptied, Target
  <2> QED
    BY <2>1, <2>2
<1>5. \A s \in Sinks : \/ files'[s] = files[s] /\ V[s] = W[s]
                       \/ files'[s] = <<>> /\ V[s] = <<>>
  BY <1>2, <1>3
<1> HIDE DEF V
<1>6. /\ Right(files', V, history_count)
      /\ \A s \in Sinks : \A j \in DOMAIN files'[s] :
                          j \in DOMAIN files[s] /\ files'[s][j] = files[s][j]
  <2> DEFINE G == files'
  <2>1. /\ G \in [Sinks -> Seq(Items)]
        /\ \A s \in Sinks : \/ G[s] = files[s] /\ V[s] = W[s]
                            \/ G[s] = <<>> /\ V[s] = <<>>
    BY <1>2, <1>5
  <2>2. Right(files, W, history_count)
    BY DEF Placed
  <2> HIDE DEF G
  <2>3. /\ Right(G, V, history_count)
        /\ \A s \in Sinks : \A j \in DOMAIN G[s] : j \in DOMAIN files[s] /\ G[s][j] = files[s][j]
    BY <1>3, <2>1, <2>2, RightEmptied
  <2> QED
    BY <2>3 DEF G
<1>7. Right(files', V, history_count') /\ (1 \notin lost' => V = want')
  BY <1>4, <1>6 DEF Placed
<1> QED
  BY <1>6, <1>7 DEF Ahead, Placed

-----------------------------------------------------------------------------
LEMMA InitOutputs == Init => Outputs
<1> SUFFICES ASSUME Init PROVE Outputs
  OBVIOUS
<1>1. /\ files = [s \in Sinks |-> <<>>] /\ want = files /\ buf = <<>> /\ child = NoChild
      /\ pc = "prompt" /\ DOMAIN <<>> = {} /\ <<>> \in Seq(Items)
  BY EmptySeq DEF Init
<1>2. Right(files, want, history_count)
  BY <1>1 DEF Right, Upto, Once, InOrder
<1> QED
  BY <1>1, <1>2 DEF Outputs, Placed, Buffered, Unprinted, NoChild

LEMMA RightLater ==
  ASSUME NEW F, NEW W, NEW n \in Nat, NEW m \in Nat, Right(F, W, n), n <= m
  PROVE  Right(F, W, m) /\ \A s \in Sinks : \A j \in DOMAIN F[s] : n < m => F[s][j].line < m
<1>1. ASSUME NEW s \in Sinks, NEW j \in DOMAIN F[s]
      PROVE  F[s][j].line <= m /\ (n < m => F[s][j].line < m)
  <2>1. F[s][j] \in Items
    BY LenProperties, ElementOfSeq DEF Right
  <2>2. F[s][j].line <= n /\ F[s][j].line \in Nat
    BY <2>1 DEF Right, Upto, Items
  <2> QED
    BY <2>1, <2>2
<1>2. Upto(F, m)
  BY <1>1 DEF Upto
<1> QED
  BY <1>1, <1>2 DEF Right

LEMMA ReadsOutputs ==
  ASSUME Base, terminal, Outputs, EndOfFile \/ \E line \in Lines : ReadLine(line)
  PROVE  Outputs'
<1>1. /\ pc = "prompt" /\ fds[1] \in Sinks /\ child = NoChild
      /\ history_count \in Nat
  BY DEF Base, TypeOK, Table, Plain, OwnOut, Children, EndOfFile, ReadLine
<1> DEFINE f == fds[1]
<1>2. /\ files' = [files EXCEPT ![f] = @ \o buf] /\ buf' = <<>>
      /\ UNCHANGED <<want, child, lost>>
  BY <1>1 DEF EndOfFile, ReadLine, Flushed, WriteTo
<1>3. PICK W : Placed(files, W, history_count)
  BY DEF Outputs
<1> DEFINE F == [files EXCEPT ![f] = @ \o buf]
<1>4. Right(F, W, history_count)
  BY <1>1, <1>3, BufferFlushed DEF Outputs, Placed
<1> HIDE DEF F
<1>5. /\ pc' \in {"prompt", "search"}
      /\ \/ pc' = "search" /\ history_count' = history_count + 1
         \/ pc' = "prompt" /\ history_count' = history_count
         \/ pc' = "search" /\ history_count' = history_count /\ NoCommand'
  BY DEF EndOfFile, ReadLine, hist, NoCommand
<1>6. history_count' \in Nat /\ history_count <= history_count'
  BY <1>1, <1>5
<1>7. /\ Right(F, W, history_count')
      /\ \A s \in Sinks : \A j \in DOMAIN F[s] :
           history_count < history_count' => F[s][j].line < history_count'
  BY <1>1, <1>4, <1>6, RightLater
<1>8. files' = F
  BY <1>2 DEF F
<1>9. Placed(files, W, history_count)'
  BY <1>2, <1>3, <1>7, <1>8 DEF Placed
<1>10. pc' = "search" => Ahead' \/ NoCommand'
  BY <1>1, <1>5, <1>7, <1>8 DEF Ahead
<1> QED
  BY <1>1, <1>2, <1>5, <1>9, <1>10 DEF Outputs, Buffered, Unprinted, NoChild

(* The buffer is empty before a command prints; and no child is left when pc is not wait. *)
LEMMA Quiet ==
  ASSUME Base, Outputs, UNCHANGED <<cmd, history_count>>
  PROVE  /\ pc \notin {"prompt", "restore", "exit"} => buf = <<>>
         /\ pc # "wait" => child = NoChild
         /\ history_count \in Nat
         /\ UNCHANGED files => Ahead' = Ahead
         /\ NoChild.pc = "none" /\ NoChild.buf = <<>>
  BY DEF Base, TypeOK, Children, Outputs, Buffered, Ahead, NoChild

(* Nothing is written, or wanted, in a step. *)
LEMMA StillPlaced ==
  ASSUME NEW W, Placed(files, W, history_count), lost \subseteq lost',
         UNCHANGED <<files, want, history_count>>
  PROVE  \E V : Placed(files, V, history_count)'
<1>1. Placed(files, W, history_count)'
  BY DEF Placed
<1> QED
  BY <1>1

LEMMA ShellOutputs ==
  ASSUME Base, terminal, Outputs, ShellStep
  PROVE  Outputs'
<1>1. /\ UNCHANGED <<terminal, hist, cmd, history_count>> /\ lost \subseteq lost'
  BY DEF ShellStep, Search, Dup, Redirect, Exec, Restore, Exit, Fork, ForkFails, Wait,
     ForkCmdNode, hist
<1>2. /\ pc \notin {"prompt", "restore", "exit"} => buf = <<>>
      /\ pc # "wait" => child = NoChild
      /\ history_count \in Nat
      /\ UNCHANGED files => Ahead' = Ahead
      /\ NoChild.pc = "none" /\ NoChild.buf = <<>>
  BY <1>1, Quiet
<1>3. Table /\ Buffered /\ Unprinted /\ child.buf = <<>>
  BY DEF Base, Outputs
<1> DEFINE StillOut == \E V : Placed(files, V, history_count)'
<1>4. PICK W : Placed(files, W, history_count)
  BY DEF Outputs
<1>5. Right(files, W, history_count) /\ (1 \notin lost' => 1 \notin lost /\ W = want)
  BY <1>1, <1>4 DEF Placed
<1>6. UNCHANGED <<files, want>> => StillOut
  BY <1>1, <1>4, StillPlaced
<1>7. StillOut /\ Buffered' /\ child'.buf = <<>> /\ Unprinted' => Outputs'
  BY DEF Outputs
<1> HIDE DEF StillOut
<1>8. NoCommand' = NoCommand /\ name' = name /\ Target' = Target
  BY <1>1 DEF NoCommand, name, node, Target
<1>9. CASE Search
  <2>1. /\ pc = "search" /\ UNCHANGED io /\ child' = child /\ UNCHANGED <<buf, files, want>>
        /\ pc' \in {"pipeline", "dup", "fork", "crashed"}
    BY <1>9 DEF Search, io
  <2>2. ASSUME NoCommand PROVE pc' \in {"fork", "crashed"} /\ (pc' = "fork" => name \notin Programs)
    <3>1. Len(cmd) = 1 /\ (node.args = <<>> \/ name = "?") /\ "?" \notin Programs \cup Builtins
      BY <2>2, NotACommand
    <3> HIDE DEF Builtins
    <3> QED
      BY <1>9, <3>1 DEF Search
  <2> QED
    BY <1>2, <1>3, <1>6, <1>7, <1>8, <2>1, <2>2 DEF Buffered, Unprinted
<1>10. CASE Dup
  <2>1. pc = "dup" /\ pc' = "redirect" /\ child' = child /\ UNCHANGED <<buf, files, want>>
    BY <1>10 DEF Dup, io
  <2> QED
    BY <1>2, <1>3, <1>6, <1>7, <2>1 DEF Buffered, Unprinted
<1>11. CASE Redirect
  <2>1. /\ pc = "redirect" /\ pc' \in {"exec", "exit"} /\ UNCHANGED <<child, lost, buf>>
        /\ (Emptied /\ WantEmptied) \/ UNCHANGED <<files, want>>
    BY <1>11 DEF Redirect
  <2>2. StillOut /\ (Ahead => Ahead')
    <3>1. CASE Emptied /\ WantEmptied
      BY <1>1, <1>4, <2>1, <3>1, FileEmptied DEF StillOut
    <3>2. CASE UNCHANGED <<files, want>>
      BY <1>2, <1>6, <3>2
    <3> QED
      BY <2>1, <3>1, <3>2
  <2> QED
    BY <1>2, <1>3, <1>7, <2>1, <2>2 DEF Unprinted, Buffered
<1>12. CASE Exec
  <2> DEFINE args == node.args
             items == Printout(args)
             f == fds[1]
  <2> HIDE DEF args, items
  <2>1. /\ pc = "exec" /\ pc' = "restore" /\ UNCHANGED <<child, lost>> /\ child = NoChild
        /\ buf = <<>> /\ Ahead /\ CanOpen /\ Sent(f)
    BY <1>2, <1>3, <1>12 DEF Exec, Table, Unprinted
  <2>2. Target \in Sinks /\ f \in Sinks /\ (1 \notin lost => f = Target)
    BY <2>1, Targets
  <2> HIDE DEF f
  <2>3. \/ items = <<>>
        \/ \E x \in Items : items = <<x>> /\ x.line = history_count /\ (x.nl => items = Item(TRUE))
    BY <1>2, Prints DEF items
  <2>4. /\ IF items # <<>> /\ items[Len(items)].nl
           THEN files' = [files EXCEPT ![f] = @ \o (buf \o items)] /\ buf' = <<>>
           ELSE buf' = buf \o items /\ UNCHANGED files
        /\ want' = [want EXCEPT ![Target] = @ \o items]
    BY <1>12, <2>1 DEF Exec, WriteTo, Wanted, items, args, f
  <2>5. items \in Seq(Items) => buf \o items = items
    BY <2>1, ConcatEmptySeq
  <2> PICK V : V = [W EXCEPT ![f] = @ \o items]
    OBVIOUS
  <2> PICK U : U = [W EXCEPT ![Target] = @ \o items]
    OBVIOUS
  <2>6. 1 \notin lost' => want' = V /\ want' = U
    BY <1>5, <2>2, <2>4
  <2>7. CASE items = <<>>
    <3>1. UNCHANGED files /\ buf' = <<>>
      BY <2>4, <2>5, <2>7, EmptySeq
    <3>2. V = W
      BY <1>5, <2>2, <2>7, NothingWritten DEF Right
    <3>3. Placed(files, W, history_count)'
      BY <1>1, <1>5, <2>6, <3>1, <3>2 DEF Placed
    <3> QED
      BY <1>2, <1>7, <2>1, <3>1, <3>3 DEF StillOut, Unprinted, Buffered
  <2>8. ASSUME NEW x \in Items, items = <<x>>, x.line = history_count, x.nl => items = Item(TRUE)
        PROVE  Outputs'
    <3>1. items \in Seq(Items) /\ items # <<>> /\ items[Len(items)] = x
      BY <2>8
    <3>2. buf \o items = items
      BY <2>5, <3>1
    <3>3. CASE x.nl
      <4>1. files' = [files EXCEPT ![f] = @ \o Item(TRUE)] /\ buf' = <<>>
        BY <2>4, <2>8, <3>1, <3>2, <3>3
      <4>2. V = [W EXCEPT ![f] = @ \o Item(TRUE)]
        BY <2>8, <3>3
      <4>3. Right(files', V, history_count')
        BY <1>1, <1>2, <1>5, <2>1, <2>2, <4>1, <4>2, LineWritten
      <4>4. Placed(files, V, history_count)'
        BY <2>6, <4>3 DEF Placed
      <4> QED
        BY <1>2, <1>7, <2>1, <4>1, <4>4 DEF StillOut, Unprinted, Buffered
    <3>4. CASE ~x.nl
      <4>1. UNCHANGED files /\ buf' = <<x>>
        BY <2>4, <2>8, <3>1, <3>2, <3>4
      <4>2. U = [W EXCEPT ![Target] = @ \o <<x>>]
        BY <2>8
      <4>3. Right(files, U, history_count)
        <5>1. Right(files, [W EXCEPT ![Target] = @ \o <<x>>], history_count)
          BY <1>5, <2>2, <3>4, RightWant
        <5> QED
          BY <4>2, <5>1
      <4>4. Placed(files, U, history_count)'
        BY <1>1, <2>6, <4>1, <4>3 DEF Placed
      <4>5. Misses(files, x) /\ x.line <= history_count
        BY <1>2, <1>5, <2>1, <2>8, PrintsNow
      <4>6. Buffered'
        BY <1>1, <2>1, <3>4, <4>1, <4>5 DEF Buffered, Misses
      <4> QED
        BY <1>2, <1>7, <2>1, <4>4, <4>6 DEF StillOut, Unprinted
    <3> QED
      BY <3>3, <3>4
  <2> QED
    BY <2>3, <2>7, <2>8
<1>13. CASE Restore
  <2>1. /\ pc = "restore" /\ pc' \in {"exit", "prompt"} /\ child' = child
        /\ UNCHANGED <<buf, files, want>>
    BY <1>13 DEF Restore, io
  <2>2. Buffered'
    BY <1>1, <1>3, <2>1 DEF Buffered, Misses
  <2> QED
    BY <1>2, <1>6, <1>7, <2>1, <2>2 DEF Unprinted
<1>14. CASE Exit
  <2> DEFINE f == fds[1]
  <2>1. /\ pc = "exit" /\ pc' = "exited" /\ child' = child /\ buf' = <<>> /\ want' = want
        /\ files' = [files EXCEPT ![f] = @ \o buf] /\ f \in Sinks
    BY <1>3, <1>14 DEF Exit, Table, WriteTo
  <2> HIDE DEF f
  <2>2. Right([files EXCEPT ![f] = @ \o buf], W, history_count)
    BY <1>2, <1>3, <1>5, <2>1, BufferFlushed
  <2>3. Placed(files, W, history_count)'
    BY <1>1, <1>5, <2>1, <2>2 DEF Placed
  <2> QED
    BY <1>2, <1>7, <2>1, <2>3 DEF StillOut, Unprinted, Buffered
<1>15. CASE Fork
  <2>1. /\ pc = "fork" /\ pc' = "wait" /\ UNCHANGED <<buf, files, want>>
        /\ child' = [pc |-> "redirect", fds |-> fds, buf |-> buf]
    BY <1>15 DEF Fork, io
  <2> QED
    BY <1>2, <1>3, <1>6, <1>7, <1>8, <2>1 DEF Unprinted, Buffered
<1>16. CASE ForkFails
  <2>1. pc = "fork" /\ pc' = "prompt" /\ UNCHANGED <<buf, files, want>> /\ child' = child
    BY <1>16 DEF ForkFails, io
  <2> QED
    BY <1>2, <1>6, <1>7, <2>1 DEF Unprinted, Buffered
<1>17. CASE Wait
  <2>1. pc = "wait" /\ pc' = "prompt" /\ UNCHANGED <<buf, files, want>> /\ child' = NoChild
    BY <1>17 DEF Wait, io
  <2> QED
    BY <1>2, <1>6, <1>7, <2>1 DEF Unprinted, Buffered
<1>18. CASE ForkCmdNode
  <2> DEFINE f == fds[1]
  <2>1. /\ pc = "pipeline" /\ pc' \in {"prompt", "exit"} /\ UNCHANGED <<child, buf, lost>>
        /\ buf = <<>> /\ Ahead /\ OwnOut(f)
    BY <1>2, <1>3, <1>18 DEF ForkCmdNode, Unprinted, Table, Plain
  <2>2. f \in Sinks /\ (1 \notin lost => f = "stdout")
    BY <2>1 DEF OwnOut
  <2>3. <<>> \o Item(TRUE) = Item(TRUE)
    <3>1. \E x \in Items : Item(TRUE) = <<x>>
      BY <1>2, Commands
    <3> QED
      BY <3>1, ConcatEmptySeq
  <2>4. \/ /\ files' = [files EXCEPT ![f] = @ \o Item(TRUE)]
           /\ want' = [want EXCEPT !["stdout"] = @ \o Item(TRUE)]
        \/ files' = [files EXCEPT ![f] = @ \o <<>>] /\ want' = want
        \/ UNCHANGED <<files, want>>
    <3> HIDE DEF Item
    <3>1. \A passed \in PassedOn : passed = <<>>
      BY <2>1 DEF PassedOn
    <3> QED
      BY <1>18, <2>1, <2>3, <3>1 DEF ForkCmdNode, WriteTo
  <2> HIDE DEF f, Item
  <2>5. StillOut
    <3>1. CASE /\ files' = [files EXCEPT ![f] = @ \o Item(TRUE)]
               /\ want' = [want EXCEPT !["stdout"] = @ \o Item(TRUE)]
      <4> PICK V : V = [W EXCEPT ![f] = @ \o Item(TRUE)]
        OBVIOUS
      <4>1. Right(files', V, history_count')
        BY <1>1, <1>2, <1>5, <2>1, <2>2, <3>1, LineWritten
      <4>2. 1 \notin lost' => V = want'
        BY <1>5, <2>2, <3>1
      <4>3. Placed(files, V, history_count)'
        BY <4>1, <4>2 DEF Placed
      <4> QED
        BY <4>3 DEF StillOut
    <3>2. CASE files' = [files EXCEPT ![f] = @ \o <<>>] /\ want' = want
      <4>1. files' = files
        BY <1>5, <2>2, <3>2, NothingWritten DEF Right
      <4> QED
        BY <1>6, <3>2, <4>1
    <3>3. CASE UNCHANGED <<files, want>>
      BY <1>6, <3>3
    <3> QED
      BY <2>4, <3>1, <3>2, <3>3
  <2> QED
    BY <1>2, <1>7, <2>1, <2>5 DEF Unprinted, Buffered
<1> QED
  BY <1>9, <1>10, <1>11, <1>12, <1>13, <1>14, <1>15, <1>16, <1>17, <1>18 DEF ShellStep

LEMMA ChildOutputs ==
  ASSUME Base, terminal, Outputs, ChildStep
  PROVE  Outputs'
<1>1. /\ UNCHANGED <<terminal, hist, cmd, history_count, pc, buf, lost>>
      /\ child.pc \in {"redirect", "exec", "exit"}
  BY DEF ChildStep, ChildRedirect, ChildExec, ChildExit, hist
<1>2. /\ pc \notin {"prompt", "restore", "exit"} => buf = <<>>
      /\ pc # "wait" => child = NoChild
      /\ history_count \in Nat
      /\ UNCHANGED files => Ahead' = Ahead
      /\ NoChild.pc = "none"
  BY <1>1, Quiet
<1>3. /\ pc = "wait" /\ buf = <<>> /\ child.buf = <<>> /\ Unprinted
      /\ child = [pc |-> child.pc, fds |-> child.fds, buf |-> <<>>]
      /\ child.pc = "exec" => CanOpen /\ Sent(child.fds[1])
      /\ child.pc = "exit" => child.fds[1] \in Sinks
  BY <1>1, <1>2 DEF Base, Children, Outputs
<1>4. name' = name
  BY <1>1 DEF name, node
<1> DEFINE StillOut == \E V : Placed(files, V, history_count)'
<1>5. PICK W : Placed(files, W, history_count)
  BY DEF Outputs
<1>6. Right(files, W, history_count) /\ (1 \notin lost' => 1 \notin lost /\ W = want)
  BY <1>1, <1>5 DEF Placed
<1>7. UNCHANGED <<files, want>> => StillOut
  BY <1>1, <1>5, StillPlaced
<1>8. SUFFICES /\ StillOut /\ child'.buf = <<>>
               /\ child'.pc \in {"redirect", "exec"} => Ahead' \/ name \notin Programs
  BY <1>1, <1>3, <1>4 DEF Outputs, Buffered, Unprinted
<1> HIDE DEF StillOut
<1>9. CASE ChildRedirect
  <2>1. /\ child.pc = "redirect" /\ child'.buf = <<>>
        /\ (Emptied /\ WantEmptied) \/ UNCHANGED <<files, want>>
    <3>1. CASE CanOpen
      BY <1>3, <1>9, <3>1 DEF ChildRedirect
    <3>2. CASE ~CanOpen
      BY <1>3, <1>9, <3>2 DEF ChildRedirect
    <3> QED
      BY <3>1, <3>2
  <2>2. StillOut /\ (Ahead => Ahead')
    <3>1. CASE Emptied /\ WantEmptied
      BY <1>1, <1>5, <3>1, FileEmptied DEF StillOut
    <3>2. CASE UNCHANGED <<files, want>>
      BY <1>2, <1>7, <3>2
    <3> QED
      BY <2>1, <3>1, <3>2
  <2> QED
    BY <1>3, <2>1, <2>2 DEF Unprinted
<1>10. CASE ChildExec
  <2> DEFINE f == child.fds[1]
  <2>1. child.pc = "exec" /\ f \in Sinks /\ (1 \notin lost => f = Target)
    BY <1>3, <1>10, Targets DEF ChildExec
  <2>2. CASE name \in Programs
    <3>1. /\ files' = [files EXCEPT ![f] = @ \o Item(TRUE)]
          /\ want' = [want EXCEPT ![Target] = @ \o Item(TRUE)]
          /\ child' = [child EXCEPT !.pc = "gone", !.buf = <<>>]
      BY <1>10, <2>1, <2>2 DEF ChildExec, WriteTo, Wanted
    <3>2. Ahead
      BY <1>3, <2>1, <2>2 DEF Unprinted
    <3> HIDE DEF f
    <3> PICK V : V = [W EXCEPT ![f] = @ \o Item(TRUE)]
      OBVIOUS
    <3>3. Right(files', V, history_count')
      BY <1>1, <1>2, <1>6, <2>1, <3>1, <3>2, LineWritten
    <3>4. 1 \notin lost' => V = want'
      BY <1>6, <2>1, <3>1
    <3>5. Placed(files, V, history_count)'
      BY <3>3, <3>4 DEF Placed
    <3>6. child'.buf = <<>> /\ child'.pc = "gone"
      BY <1>3, <3>1
    <3> QED
      BY <3>5, <3>6 DEF StillOut
  <2>3. CASE name \notin Programs
    <3>1. UNCHANGED <<files, want>> /\ child' = [child EXCEPT !.pc = "exit"]
      BY <1>10, <2>3 DEF ChildExec, AfterExec
    <3>2. child'.buf = <<>> /\ child'.pc = "exit"
      BY <1>3, <3>1
    <3> QED
      BY <1>7, <3>1, <3>2
  <2> QED
    BY <2>2, <2>3
<1>11. CASE ChildExit
  <2> DEFINE f == child.fds[1]
  <2>1. /\ child.pc = "exit" /\ want' = want
        /\ files' = [files EXCEPT ![f] = @ \o <<>>]
        /\ child' = [child EXCEPT !.pc = "gone", !.buf = <<>>]
    BY <1>3, <1>11 DEF ChildExit, WriteTo
  <2>2. f \in Sinks
    BY <1>3, <2>1
  <2>3. child'.buf = <<>> /\ child'.pc = "gone"
    BY <1>3, <2>1
  <2> HIDE DEF f
  <2>4. files' = files
    BY <1>6, <2>1, <2>2, NothingWritten DEF Right
  <2> QED
    BY <1>7, <2>1, <2>3, <2>4
<1> QED
  BY <1>9, <1>10, <1>11 DEF ChildStep

LEMMA OutputsStep == Base /\ (terminal => Outputs) /\ [Next]_vars => (terminal => Outputs)'
<1> SUFFICES ASSUME Base, terminal => Outputs, [Next]_vars, terminal' PROVE Outputs'
  OBVIOUS
<1>1. terminal' = terminal
  BY DEF Next, vars, Idle, EndOfFile, ReadLine, ShellStep, Search, Dup, Redirect, Exec, Restore,
     Exit, Fork, ForkFails, Wait, ForkCmdNode, ChildStep, ChildRedirect, ChildExec, ChildExit
<1>2. CASE Idle \/ UNCHANGED vars
  BY <1>1, <1>2 DEF Idle, vars, io, Outputs, Placed, Buffered, Misses, Unprinted, Ahead,
     NoCommand, name, node
<1> QED
  BY <1>1, <1>2, ReadsOutputs, ShellOutputs, ChildOutputs DEF Next

LEMMA OutputsInvariance == Spec => [](terminal => Outputs)
<1>1. Init => (terminal => Outputs)
  BY InitOutputs
<1> QED
  BY <1>1, OutputsStep, BaseInvariance, PTL DEF Spec

(* On a terminal every whole line that a command prints is in the file, or the outer
   standard output, that the user meant, and in the order of the commands; for any lines,
   built-in commands and programs, redirected, in pipelines or failing, as long as no
   failing dup has lost standard output. *)
THEOREM InPlace == Spec => []LinesInPlace
<1>1. (terminal => Outputs) => LinesInPlace
  BY DEF Outputs, Placed, Right, LinesInPlace
<1> QED
  BY <1>1, OutputsInvariance, PTL

(* On a terminal nothing is printed twice: what waits in the buffer is in no file, and the
   buffer is empty whenever the shell forks. *)
THEOREM NeverTwice == Spec => []PrintedOnce
<1>1. (terminal => Outputs) => PrintedOnce
  BY DEF Outputs, Placed, Right, Once, PrintedOnce
<1> QED
  BY <1>1, OutputsInvariance, PTL
=============================================================================
