------------------------------ MODULE ProcFile ------------------------------
(***************************************************************************)
(* Lab3/3/3_2, built with THREAD_NUMBER 2.  Two threads multiply one half  *)
(* of a matrix each, write a greeting into /proc/Mythread_info and read    *)
(* the file back.  The kernel module keeps one buffer for everybody and no *)
(* lock: Mywrite and Myread go over it one cell per step.                  *)
(*                                                                         *)
(* A cell is a stretch of characters that all greetings share, the digit   *)
(* in which they differ, or the terminating '\0'.  The module is loaded.   *)
(***************************************************************************)
EXTENDS Integers, Sequences

CONSTANT Rows                  \* matrix_row_x (1234 in the code)
ASSUME RowsAssumption == Rows \in Nat

Threads == {1, 2}
Row     == 0 .. Rows - 1
Nul     == "nul"
Digit   == <<"1", "2">>

(* "Thread <t> says hello!\n" and its '\0' *)
Greeting(t) == <<"Thread", Digit[t], "hello", Nul>>
Blank       == <<Nul, Nul, Nul, Nul>>

(* The rows of thread t: First(t) <= r < End(t). *)
First(t) == IF t = 1 THEN 0 ELSE Rows \div 2
End(t)   == IF t = 1 THEN Rows \div 2 ELSE Rows

(* The stream a thread reads back through: fptr4 or fptr5. *)
StreamShared(t) == 1
Stream(t) == t

VARIABLES buf,                 \* the kernel buffer
          offset,              \* per stream: the kernel's file position
          z,                   \* z[r]: how often row r's products were added to it
          pc, row, acc,        \* per thread: next step, i, value loaded from z[i]
          fd,                  \* per thread: what open() returned
          k, temp,             \* per thread: cell to copy next, Myread's temp_buf
          reports,             \* per thread: the texts it has read and printed
          mainpc, printed      \* main: next call, and the rows written to 3_2.txt

threadVars == <<buf, offset, z, pc, row, acc, fd, k, temp, reports>>
vars == <<buf, offset, z, pc, row, acc, fd, k, temp, reports, mainpc, printed>>

ThreadPC == {"new", "for", "store", "open", "write", "read", "done"}
MainPC   == {"create1", "create2", "join1", "join2", "fprintf", "exit"}

(* The buffer outlives the program: it is zero after insmod, or holds what an
   earlier run wrote last.  malloc() leaves in z what it will (main never clears
   it); the counts are of what is added to that. *)
Init == /\ buf \in {Blank} \cup {Greeting(t) : t \in Threads}
        /\ offset = [t \in Threads |-> 0]
        /\ z = [r \in Row |-> 0]
        /\ pc = [t \in Threads |-> "new"]
        /\ row = [t \in Threads |-> First(t)]
        /\ acc = [t \in Threads |-> 0]
        /\ fd = [t \in Threads |-> "none"]
        /\ k = [t \in Threads |-> 1]
        /\ temp = [t \in Threads |-> Blank]
        /\ reports = [t \in Threads |-> {}]
        /\ mainpc = "create1"
        /\ printed = <<>>

Goto(t, from, to) == pc[t] = from /\ pc' = [pc EXCEPT ![t] = to]
-----------------------------------------------------------------------------
(* z[i][j] += ...: one load and one store stand for those of a row *)
LoadRow(t) == /\ Goto(t, "for", "store")
              /\ row[t] < End(t)
              /\ acc' = [acc EXCEPT ![t] = z[row[t]]]
              /\ UNCHANGED <<buf, offset, z, row, fd, k, temp, reports>>

StoreRow(t) == /\ Goto(t, "store", "for")
               /\ z' = [z EXCEPT ![row[t]] = acc[t] + 1]
               /\ row' = [row EXCEPT ![t] = @ + 1]
               /\ UNCHANGED <<buf, offset, acc, fd, k, temp, reports>>

RowsDone(t) == /\ Goto(t, "for", "open")
               /\ row[t] >= End(t)
               /\ UNCHANGED <<buf, offset, z, row, acc, fd, k, temp, reports>>

(* open("/proc/Mythread_info", O_WRONLY); when it fails the thread reads only *)
OpenOk(t) == /\ Goto(t, "open", "write")
             /\ fd' = [fd EXCEPT ![t] = "ok"]
             /\ UNCHANGED <<buf, offset, z, row, acc, k, temp, reports>>

OpenFails(t) == /\ Goto(t, "open", "read")
                /\ fd' = [fd EXCEPT ![t] = "failed"]
                /\ UNCHANGED <<buf, offset, z, row, acc, k, temp, reports>>

(* copy_from_user into buf, and buf[len] = '\0' after it; the write returns *)
MywriteClears(t) ==
  /\ Goto(t, "write", IF k[t] < Len(Greeting(t)) THEN "write" ELSE "read")
  /\ buf' = [(IF k[t] = 1 THEN Blank ELSE buf) EXCEPT ![k[t]] = Greeting(t)[k[t]]]
  /\ k' = [k EXCEPT ![t] = IF @ < Len(Greeting(t)) THEN @ + 1 ELSE 1]
  /\ UNCHANGED <<offset, z, row, acc, fd, temp, reports>>
Mywrite(t) ==
  /\ Goto(t, "write", IF k[t] < Len(Greeting(t)) THEN "write" ELSE "read")
  /\ buf' = [buf EXCEPT ![k[t]] = Greeting(t)[k[t]]]
  /\ k' = [k EXCEPT ![t] = IF @ < Len(Greeting(t)) THEN @ + 1 ELSE 1]
  /\ UNCHANGED <<offset, z, row, acc, fd, temp, reports>>

(* snprintf copies buf up to its '\0'.  Then it adds the line with PID and TID,
   all goes to the user (k[t] stands for its length), and fgets and printf pass
   it on. *)
MyreadCopy(t) == /\ Goto(t, "read", "read")
                 /\ offset[Stream(t)] = 0
                 /\ buf[k[t]] # Nul
                 /\ temp' = [temp EXCEPT ![t][k[t]] = buf[k[t]]]
                 /\ k' = [k EXCEPT ![t] = @ + 1]
                 /\ UNCHANGED <<buf, offset, z, row, acc, fd, reports>>

MyreadNoOffset(t) == /\ Goto(t, "read", "read")
                     /\ offset[Stream(t)] = 0
                     /\ buf[k[t]] = Nul
                     /\ reports' = [reports EXCEPT ![t] = @ \cup {temp[t]}]
                     /\ temp' = [temp EXCEPT ![t] = Blank]
                     /\ k' = [k EXCEPT ![t] = 1]
                     /\ UNCHANGED <<buf, offset, z, row, acc, fd>>
MyreadReturns(t) == /\ Goto(t, "read", "read")
                    /\ offset[Stream(t)] = 0
                    /\ buf[k[t]] = Nul
                    /\ reports' = [reports EXCEPT ![t] = @ \cup {temp[t]}]
                    /\ temp' = [temp EXCEPT ![t] = Blank]
                    /\ k' = [k EXCEPT ![t] = 1]
                    /\ offset' = [offset EXCEPT ![Stream(t)] = k[t]]
                    /\ UNCHANGED <<buf, z, row, acc, fd>>

(* A read whose offset is past 0 returns 0: fgets meets the end of the file. *)
MyreadEof(t) == /\ Goto(t, "read", "done")
                /\ offset[Stream(t)] > 0
                /\ UNCHANGED <<buf, offset, z, row, acc, fd, k, temp, reports>>

Thread(t) == /\ \/ LoadRow(t) \/ StoreRow(t) \/ RowsDone(t)
                \/ OpenOk(t) \/ OpenFails(t) \/ Mywrite(t)
                \/ MyreadCopy(t) \/ MyreadReturns(t) \/ MyreadEof(t)
             /\ UNCHANGED <<mainpc, printed>>
-----------------------------------------------------------------------------
MainGoto(from, to) == mainpc = from /\ mainpc' = to

Create(t) == /\ MainGoto(<<"create1", "create2">>[t], <<"create2", "join1">>[t])
             /\ pc' = [pc EXCEPT ![t] = "for"]
             /\ UNCHANGED <<buf, offset, z, row, acc, fd, k, temp, reports, printed>>

JoinNoWait(t) == /\ MainGoto(<<"join1", "join2">>[t], <<"join2", "fprintf">>[t])
                 /\ UNCHANGED <<threadVars, printed>>
Join(t) == /\ MainGoto(<<"join1", "join2">>[t], <<"join2", "fprintf">>[t])
           /\ pc[t] = "done"
           /\ UNCHANGED <<threadVars, printed>>

Fprintf == /\ MainGoto("fprintf", "exit")
           /\ printed' = z
           /\ UNCHANGED threadVars

Main == Fprintf \/ \E t \in Threads : Create(t) \/ Join(t)

(* The process has exited. *)
Terminated == mainpc = "exit" /\ UNCHANGED vars

Next == Main \/ Terminated \/ \E t \in Threads : Thread(t)

(* The kernel schedules every runnable thread again and again. *)
Fairness == WF_vars(Main) /\ \A t \in Threads : WF_vars(Thread(t))

SafetySpec == Init /\ [][Next]_vars
Spec == SafetySpec /\ Fairness
-----------------------------------------------------------------------------
Cell == {"Thread", "1", "2", "hello", Nul}

(* The variables keep their ranges. *)
TypeOK == /\ buf \in [1 .. 4 -> Cell]
          /\ offset \in [Threads -> Nat]
          /\ z \in [Row -> Nat]
          /\ pc \in [Threads -> ThreadPC]
          /\ row \in [Threads -> Nat]
          /\ acc \in [Threads -> Nat]
          /\ fd \in [Threads -> {"none", "ok", "failed"}]
          /\ k \in [Threads -> 1 .. 4]
          /\ temp \in [Threads -> [1 .. 4 -> Cell]]
          /\ reports \in [Threads -> SUBSET [1 .. 4 -> Cell]]
          /\ mainpc \in MainPC

(* Although the buffer has no lock, what a thread that could write reads back is
   one whole greeting, its own or the other's: never a torn or an empty one. *)
WholeGreeting == \A t \in Threads : fd[t] = "ok" =>
                   reports[t] \subseteq {Greeting(u) : u \in Threads}

(* The two threads never end up with each other's greeting only: whoever wrote
   last reads its own. *)
SomeoneReportsItself ==
  (\A t \in Threads : pc[t] = "done") /\ (\E t \in Threads : fd[t] = "ok") =>
     \E t \in Threads : reports[t] = {Greeting(t)}

(* What main writes to 3_2.txt has every row's products added exactly once: the
   halves of the threads meet without gap or overlap, and main waits for both. *)
ProductPrinted == mainpc = "exit" => printed = [r \in Row |-> 1]

(* The program ends: every thread's reading loop comes to the end of the file. *)
Termination == <>(mainpc = "exit")
=============================================================================
