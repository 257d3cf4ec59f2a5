------------------------------ MODULE Pipeline ------------------------------
(***************************************************************************)
(* Lab2: fork_cmd_node runs the commands of a pipeline.  The shell makes   *)
(* all pipes, forks one child per command, closes its own pipe ends and    *)
(* waits for the children; a child connects its standard input and output, *)
(* closes the pipe ends it inherited and executes its program.             *)
(*                                                                         *)
(* Pipe c joins command c to command c + 1; 0 is what the shell itself has *)
(* as standard input or output.  The programs are external, and are of a   *)
(* few kinds:                                                              *)
(*   gen   writes Items items, without reading      yes   writes for ever  *)
(*   cat   copies its input up to the end of file   head  copies one item  *)
(*   fail  cannot be executed: the child leaves by exit(), which writes    *)
(*         what it inherited in the buffer of the shell's stdout stream      *)
(***************************************************************************)
EXTENDS Integers, Sequences, FiniteSets

CONSTANTS Count,            \* commands of the pipeline
          Pipelines,        \* the kinds of the programs, one sequence per pipeline
          Items, Capacity,  \* items gen writes; items a pipe holds
          CallsFail         \* may pipe() and fork() fail

Kinds == {"gen", "yes", "cat", "head", "fail"}

ASSUME PipelineAssumption ==
  /\ Count \in Nat \ {0, 1} /\ Pipelines \subseteq [1 .. Count -> Kinds]
  /\ Items \in Nat /\ Capacity \in Nat \ {0} /\ CallsFail \in BOOLEAN

Commands == 1 .. Count
Shell == 0
Procs == {Shell} \cup Commands
Pipes == 1 .. Count - 1
Tty == 0
None == -1                  \* no item
Endless == 0                \* the item yes writes
Stale == -2                 \* what the shell had printed and not yet written

VARIABLES prog,             \* the pipeline
          leftover,         \* does the shell fork with Stale in its stdout stream:
                            \* its prompt, when standard output is no terminal
          pc, i,            \* per process: next call and its loop's counter
          fds,              \* per process: pipe ends in the pipes array it has open
          stdin, stdout,    \* per process: a pipe or Tty
          buf,              \* per pipe: what it holds
          held, sent,       \* per program: item read and not yet written; items made
          out               \* what the last program wrote, Endless left out

procvars == <<pc, i, fds, stdin, stdout>>
datavars == <<buf, held, sent, out>>
vars     == <<prog, leftover, pc, i, fds, stdin, stdout, buf, held, sent, out>>

Init == /\ prog \in Pipelines /\ leftover \in BOOLEAN
        /\ pc = [p \in Procs |-> IF p = Shell THEN "pipe" ELSE "unborn"]
        /\ i = [p \in Procs |-> 1]
        /\ fds = [p \in Procs |-> {}]
        /\ stdin = [p \in Procs |-> Tty] /\ stdout = [p \in Procs |-> Tty]
        /\ buf = [c \in Pipes |-> <<>>]
        /\ held = [p \in Commands |-> None] /\ sent = [p \in Commands |-> 0]
        /\ out = <<>>

At(p, l) == pc[p] = l
Goto(p, l) == pc' = [pc EXCEPT ![p] = l]
Ends(c) == {<<c, "r">>, <<c, "w">>}
Readers(c) == {p \in Procs : <<c, "r">> \in fds[p] \/ stdin[p] = c}
Writers(c) == {p \in Procs : <<c, "w">> \in fds[p] \/ stdout[p] = c}

(* for (...; i < n; i++) of p at label l: one more round, or on to label to *)
Loop(p, l, n, to) == /\ At(p, l)
                     /\ IF i[p] < n THEN i' = [i EXCEPT ![p] = @ + 1] /\ UNCHANGED pc
                                    ELSE i' = [i EXCEPT ![p] = 1] /\ Goto(p, to)

(* A process ends and its descriptors are closed. *)
Exit(p) == /\ Goto(p, "zombie")
           /\ fds' = [fds EXCEPT ![p] = {}]
           /\ stdin' = [stdin EXCEPT ![p] = Tty] /\ stdout' = [stdout EXCEPT ![p] = Tty]
           /\ UNCHANGED i
-----------------------------------------------------------------------------
(* The shell *)
MakePipe == /\ Loop(Shell, "pipe", Count - 1, "fork")
            /\ fds' = [fds EXCEPT ![Shell] = @ \cup Ends(i[Shell])]
            /\ UNCHANGED <<prog, leftover, stdin, stdout, datavars>>

ForkAndClose == LET child == i[Shell] IN
        /\ At(Shell, "fork")
        /\ pc' = [pc EXCEPT ![child] = "dup", ![Shell] = IF child < Count THEN "fork" ELSE "close"]
        /\ i' = [i EXCEPT ![Shell] = IF child < Count THEN @ + 1 ELSE 1]
        /\ fds' = [fds EXCEPT ![child] = fds[Shell], ![Shell] = @ \ Ends(child)]
        /\ UNCHANGED <<prog, leftover, stdin, stdout, datavars>>
(* The child inherits every open descriptor. *)
Fork == LET child == i[Shell] IN
        /\ At(Shell, "fork")
        /\ pc' = [pc EXCEPT ![child] = "dup", ![Shell] = IF child < Count THEN "fork" ELSE "close"]
        /\ i' = [i EXCEPT ![Shell] = IF child < Count THEN @ + 1 ELSE 1]
        /\ fds' = [fds EXCEPT ![child] = fds[Shell]]
        /\ UNCHANGED <<prog, leftover, stdin, stdout, datavars>>

(* pipe() or fork() fails: perror and exit *)
CallFails == /\ CallsFail /\ pc[Shell] \in {"pipe", "fork"}
             /\ Exit(Shell)
             /\ UNCHANGED <<prog, leftover, datavars>>

CloseNone(p) == /\ Loop(p, "close", Count - 1, IF p = Shell THEN "wait" ELSE "exec")
                /\ UNCHANGED <<prog, leftover, fds, stdin, stdout, datavars>>
(* The loops that close both ends of every pipe, in the shell and in a child *)
ClosePipe(p) == /\ Loop(p, "close", Count - 1, IF p = Shell THEN "wait" ELSE "exec")
                /\ fds' = [fds EXCEPT ![p] = @ \ Ends(i[p])]
                /\ UNCHANGED <<prog, leftover, stdin, stdout, datavars>>

(* waitpid, child after child *)
Wait == /\ Loop(Shell, "wait", Count, "returned")
        /\ At(i[Shell], "zombie")
        /\ UNCHANGED <<prog, leftover, fds, stdin, stdout, datavars>>

ShellStep == MakePipe \/ Fork \/ ClosePipe(Shell) \/ Wait
-----------------------------------------------------------------------------
(* A child up to execvp.  dup2 takes the read end of the pipe before and the
   write end of the pipe after. *)
DupFirstPipe(p) == /\ At(p, "dup") /\ Goto(p, "close")
                   /\ stdin' = [stdin EXCEPT ![p] = IF p > 1 THEN 1 ELSE Tty]
                   /\ stdout' = [stdout EXCEPT ![p] = IF p < Count THEN p ELSE Tty]
                   /\ UNCHANGED <<prog, leftover, i, fds, datavars>>
Dup(p) == /\ At(p, "dup") /\ Goto(p, "close")
          /\ stdin' = [stdin EXCEPT ![p] = IF p > 1 THEN p - 1 ELSE Tty]
          /\ stdout' = [stdout EXCEPT ![p] = IF p < Count THEN p ELSE Tty]
          /\ UNCHANGED <<prog, leftover, i, fds, datavars>>

(* The program runs; or, when execvp fails, exit(1). *)
Exec(p) == /\ At(p, "exec") /\ Goto(p, "run")
           /\ UNCHANGED <<prog, leftover, i, fds, stdin, stdout, datavars>>
-----------------------------------------------------------------------------
(* The programs.  The terminal is at its end of file. *)
Running(p) == At(p, "run")
Wants(p) == /\ Running(p) /\ held[p] = None
            /\ prog[p] = "cat" \/ (prog[p] = "head" /\ sent[p] = 0)

(* read(): an item, or nothing yet while somebody may still write *)
Read(p) == LET c == stdin[p] IN
           /\ Wants(p) /\ c # Tty /\ buf[c] # <<>>
           /\ held' = [held EXCEPT ![p] = Head(buf[c])]
           /\ buf' = [buf EXCEPT ![c] = Tail(@)]
           /\ UNCHANGED <<prog, leftover, procvars, sent, out>>

EndOfFile(p) == LET c == stdin[p] IN
                /\ Wants(p)
                /\ c # Tty => buf[c] = <<>> /\ Writers(c) = {}
                /\ Exit(p)
                /\ UNCHANGED <<prog, leftover, datavars>>

(* What gen writes, and the exit() of fail: as many items, and its k-th *)
Sources == {"gen", "fail"}
Makes(p) == CASE prog[p] = "gen" -> Items [] leftover -> 1 [] OTHER -> 0
Item(kind, k) == IF kind = "gen" THEN k ELSE Stale

Ready(p) == IF prog[p] \in Sources THEN sent[p] < Makes(p)
                                   ELSE prog[p] = "yes" \/ held[p] # None
NextItem(p) == CASE prog[p] \in Sources -> Item(prog[p], sent[p] + 1)
                 [] prog[p] = "yes" -> Endless
                 [] OTHER -> held[p]

(* write(): waits for room; to a pipe without readers, SIGPIPE *)
Write(p) == LET c == stdout[p] IN
            /\ Running(p) /\ Ready(p)
            /\ IF c = Tty
               THEN out' = (IF NextItem(p) = Endless THEN out ELSE Append(out, NextItem(p)))
                    /\ UNCHANGED buf
               ELSE /\ Readers(c) # {} /\ Len(buf[c]) < Capacity
                    /\ buf' = [buf EXCEPT ![c] = Append(@, NextItem(p))] /\ UNCHANGED out
            /\ held' = [held EXCEPT ![p] = None]
            /\ sent' = [sent EXCEPT ![p] = IF prog[p] \in Sources THEN @ + 1
                                           ELSE IF prog[p] = "head" THEN 1 ELSE @]
            /\ UNCHANGED <<prog, leftover, procvars>>

SigPipe(p) == /\ Running(p) /\ Ready(p)
              /\ stdout[p] # Tty /\ Readers(stdout[p]) = {}
              /\ Exit(p)
              /\ UNCHANGED <<prog, leftover, datavars>>

Finish(p) == /\ Running(p)
             /\ \/ prog[p] \in Sources /\ sent[p] = Makes(p)
                \/ prog[p] = "head" /\ sent[p] = 1
             /\ Exit(p)
             /\ UNCHANGED <<prog, leftover, datavars>>

Child(p) == \/ Dup(p) \/ ClosePipe(p) \/ Exec(p)
            \/ Read(p) \/ EndOfFile(p) \/ Write(p) \/ SigPipe(p) \/ Finish(p)

Over(p) == pc[p] \in {"unborn", "zombie", "returned"}
Terminated == (\A p \in Procs : Over(p)) /\ UNCHANGED vars

Next == ShellStep \/ CallFails \/ Terminated \/ \E p \in Commands : Child(p)

(* The kernel runs every process; no call need fail. *)
Fairness == WF_vars(ShellStep) /\ \A p \in Commands : WF_vars(Child(p))

SafetySpec == Init /\ [][Next]_vars
Spec == SafetySpec /\ Fairness
-----------------------------------------------------------------------------
(* Once the shell waits, nobody holds an end of a pipe but the programs it
   joins and children that have not come to their execvp yet: no end of file is
   kept from a reader, and no SIGPIPE from a writer, by a forgotten descriptor. *)
NoStrayEnds ==
  pc[Shell] \in {"wait", "returned"} =>
    \A c \in Pipes, p \in Procs : pc[p] \in {"dup", "close"} \/
      /\ p \in Readers(c) => p = c + 1
      /\ p \in Writers(c) => p = c

(* An end of a pipe is never missing before its program has had it: no program
   is told end of file, and none killed by SIGPIPE, because its neighbour was
   not born yet, unless the shell itself died. *)
NeighbourFirst == ~At(Shell, "zombie") =>
  \A c \in Pipes : /\ Writers(c) = {} => pc[c] = "zombie" \/ At(Shell, "pipe")
                   /\ Readers(c) = {} => pc[c + 1] = "zombie" \/ At(Shell, "pipe")

(* All that comes out comes from command s. *)
Forwards(s) == prog[s] \in Sources /\ \A p \in s + 1 .. Count : prog[p] \in {"cat", "head"}
Copies(s)   == prog[s] \in Sources /\ \A p \in s + 1 .. Count : prog[p] = "cat"

(* Whoever stops early, a head or the shell itself, what has come out is the beginning
   of what the last gen sent, once and in order; and all of it when the shell is back
   and nobody behind it had a reason to stop early.  Where a command behind it cannot
   be executed nothing of that comes out, but, at most once, what the shell had not
   yet written when it forked, which that command sends down its pipe. *)
Delivered == \A s \in Commands : Forwards(s) => \E n \in 0 .. Makes(s) :
               /\ out = [j \in 1 .. n |-> Item(prog[s], j)]
               /\ Copies(s) /\ At(Shell, "returned") => n = Makes(s)

(* A yes that nothing downstream ever stops *)
RunsForEver == \E p \in Commands : prog[p] = "yes" /\ \A q \in p + 1 .. Count : prog[q] = "cat"

(* The shell gets its prompt back from every pipeline that can end: every
   reader sees the end of its input and every writer the end of its reader. *)
ShellReturns == ~RunsForEver => <>(At(Shell, "returned") \/ At(Shell, "zombie"))

(* No program is left behind, not even by a shell that died of a failing call. *)
NobodyLeft == ~RunsForEver => <>[](\A p \in Procs : Over(p))
=============================================================================
