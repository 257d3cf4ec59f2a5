------------------------------- MODULE Shell -------------------------------
(***************************************************************************)
(* Lab2: the loop of shell(): read a line, record it, split it into        *)
(* commands, and run it as a built-in command, an external command or a    *)
(* pipeline, with the descriptors redirected and put back.  Standard       *)
(* output is a stdio stream: what a built-in command prints waits in the   *)
(* stream's buffer, and a child inherits a copy of the buffer with fork(). *)
(*                                                                         *)
(* A line is a sequence of words.  What a command prints is one item, the  *)
(* number of its line and whether it ends in a newline; prompts and what   *)
(* goes to standard error are left out.  fork_cmd_node is one step here,   *)
(* module Pipeline has its inside.                                         *)
(***************************************************************************)
EXTENDS Integers, Sequences
LOCAL INSTANCE SequencesExt

CONSTANTS Lines,                   \* what the user may type
          MAX_RECORD_NUM,          \* slots of the history ring
          args_length,             \* pointers in the args array of a node
          Terminals,               \* may standard output be a terminal, or not be one
          Readable, Writable,      \* files that open for input, for output
          Programs,                \* commands that execvp finds
          MaxLines                 \* bound on the lines read

NULL == "NULL"
Blank == <<"">>                    \* a line that is empty or starts with white space
Builtins == {"help", "cd", "pwd", "echo", "exit", "record"}

ASSUME ShellAssumption ==
  /\ MAX_RECORD_NUM \in Nat \ {0} /\ args_length \in Nat /\ MaxLines \in Nat
  /\ Terminals \subseteq BOOLEAN
  /\ Programs \cap (Builtins \cup {"?"}) = {}
  /\ Readable \cap Writable = {} /\ {NULL, "stdout"} \cap Writable = {}
  /\ \A line \in Lines : line # <<>> /\ NULL \notin {line[j] : j \in DOMAIN line}

VARIABLES
  terminal,                        \* is standard output line buffered
  pc,                              \* the shell's next step
  lines,                           \* lines read, blank ones and the end of file too
  history, history_count,
  cmd,                             \* the cmd_nodes of the line
  fds,                             \* the shell's descriptor table
  in, out,                         \* where dup put standard input and output, or -1
  lost,                            \* 0, 1: the shell's own that it cannot put back
  buf,                             \* what stdout has buffered
  child,                           \* the child of spawn_proc, or NoChild
  files,                           \* what every file, and the outer stdout, holds
  want,                            \* what the commands were told to write there
  printed                          \* the lines the last record listed

hist == <<history, history_count>>
io   == <<buf, files, want>>
vars == <<terminal, pc, lines, history, history_count, cmd, fds, in, out, lost,
          buf, child, files, want, printed>>

NoChild == [pc |-> "none", fds |-> <<>>, buf |-> <<>>]
Descriptors == 0 .. 5 \ {2}
Slots == 0 .. MAX_RECORD_NUM - 1
Fresh == [d \in Descriptors |-> CASE d = 0 -> "stdin" [] d = 1 -> "stdout" [] OTHER -> NULL]
Sinks == Writable \cup {"stdout"}

Init == /\ terminal \in Terminals
        /\ pc = "prompt" /\ lines = 0
        /\ history = [s \in Slots |-> 0] /\ history_count = 0
        /\ cmd = <<>>
        /\ fds = Fresh /\ in = -1 /\ out = -1 /\ lost = {}
        /\ buf = <<>> /\ child = NoChild
        /\ files = [s \in Sinks |-> <<>>] /\ want = [s \in Sinks |-> <<>>]
        /\ printed = <<>>
-----------------------------------------------------------------------------
(* split_line: each word of the line in turn goes to the last node, as an argument or,
   after a redirection sign, as the name of a file. *)
NewNode == [args |-> <<>>, in_file |-> NULL, out_file |-> NULL]

Take(s, word) ==
  LET last == Len(s.nodes)
      file == IF word = "<" THEN "in_file" ELSE "out_file"
  IN  CASE s.file # NULL -> [nodes |-> [s.nodes EXCEPT ![last][s.file] = word], file |-> NULL]
        [] s.file = NULL /\ word = "|" -> [s EXCEPT !.nodes = Append(@, NewNode)]
        [] s.file = NULL /\ word \in {"<", ">"} ->
             [nodes |-> [s.nodes EXCEPT ![last][file] = NULL], file |-> file]
        [] OTHER -> [s EXCEPT !.nodes[last].args = Append(@, word)]
split_line(words) == FoldLeft(Take, [nodes |-> <<NewNode>>, file |-> NULL], words).nodes

node == cmd[1]
name == node.args[1]
Has(args, j, word) == j \in DOMAIN args /\ args[j] = word

(* The lines record lists: all of them until the ring is full, then the ring from
   the slot that is written next. *)
RecordFromZero == [j \in 1 .. (IF history_count < MAX_RECORD_NUM THEN history_count
                                                               ELSE MAX_RECORD_NUM) |->
                     history[j - 1]]
Record ==
  IF history_count < MAX_RECORD_NUM
  THEN [j \in 1 .. history_count |-> history[j - 1]]
  ELSE [j \in 1 .. MAX_RECORD_NUM |-> history[(history_count + j - 1) % MAX_RECORD_NUM]]

(* What a built-in command prints: echo one item, open-ended after -n; help, pwd
   and record whole lines; cd and exit nothing. *)
Item(nl) == <<[line |-> history_count, nl |-> nl]>>
Printout(args) ==
  CASE args[1] \in {"cd", "exit"} -> <<>>
    [] args = <<"echo", "-n">> -> <<>>
    [] args[1] = "echo" -> Item(~Has(args, 2, "-n"))
    [] OTHER -> Item(TRUE)

(* Where the user wants the output of the command; a redirection starts afresh. *)
Target == IF node.out_file = NULL THEN "stdout" ELSE node.out_file
Wanted(items) == want' = [want EXCEPT ![Target] = @ \o items]
WantEmptied == want' = IF node.out_file = NULL THEN want ELSE [want EXCEPT ![Target] = <<>>]

(* Items reach the file that descriptor 1 of table t names. *)
WriteTo(t, items) == files' = [files EXCEPT ![t[1]] = @ \o items]
-----------------------------------------------------------------------------
(* read_line.  fgets on a terminal flushes a line buffered stdout first. *)
Unflushed == UNCHANGED <<files, buf>>
Flushed == IF terminal THEN WriteTo(fds, buf) /\ buf' = <<>>
                       ELSE UNCHANGED <<files, buf>>

ReadLine(line) ==
  /\ pc = "prompt" /\ lines < MaxLines /\ lines' = lines + 1
  /\ Flushed
  /\ IF line = Blank THEN pc' = "prompt" /\ UNCHANGED <<hist, cmd>>
     ELSE /\ history' = [history EXCEPT ![history_count % MAX_RECORD_NUM] = history_count + 1]
          /\ history_count' = history_count + 1
          /\ cmd' = split_line(line) /\ pc' = "search"
  /\ UNCHANGED <<terminal, fds, in, out, lost, child, want, printed>>

(* At the end of file fgets leaves the fresh buffer as malloc returned it, where
   split_line finds no words, or one that is no command; nothing is recorded. *)
Garbage == {<<>>, <<"?">>}
EndOfFile ==
  /\ pc = "prompt" /\ lines < MaxLines /\ lines' = lines + 1
  /\ Flushed
  /\ \E args \in Garbage : cmd' = <<[NewNode EXCEPT !.args = args]>>
  /\ pc' = "search"
  /\ UNCHANGED <<terminal, hist, fds, in, out, lost, child, want, printed>>

(* shell() chooses by the number of nodes and by name; without a name,
   searchBuiltInCommand compares a null pointer.  Arguments that fill args leave
   no NULL at its end, more are written past it: the shell may crash. *)
Overlong == \E j \in DOMAIN cmd : Len(cmd[j].args) >= args_length
Search ==
  /\ pc = "search"
  /\ \/ pc' = CASE Len(cmd) > 1 -> "pipeline"
                [] Len(cmd) = 1 /\ node.args = <<>> -> "crashed"
                [] OTHER -> IF name \in Builtins THEN "dup" ELSE "fork"
     \/ Overlong /\ pc' = "crashed"
  /\ UNCHANGED <<terminal, lines, hist, cmd, fds, in, out, lost, child, io, printed>>
-----------------------------------------------------------------------------
(* redirection(p) on a descriptor table *)
CanOpen == node.in_file \in Readable \cup {NULL} /\ node.out_file \in Writable \cup {NULL}
RedirectedInput(t) == IF node.in_file = NULL THEN t ELSE [t EXCEPT ![0] = node.in_file]
Redirected(t) ==
  LET t1 == IF node.in_file = NULL THEN t ELSE [t EXCEPT ![0] = node.in_file]
  IN  IF node.out_file = NULL THEN t1 ELSE [t1 EXCEPT ![1] = node.out_file]

(* O_TRUNC *)
Emptied == files' = [s \in Sinks |-> IF s = node.out_file THEN <<>> ELSE files[s]]

LowestFree(t) == CHOOSE d \in Descriptors :
                   t[d] = NULL /\ \A e \in Descriptors : t[e] = NULL => d <= e
(* dup(d): the lowest free descriptor becomes a copy of d, or the call fails. *)
dup(t, d) == {[fd |-> -1, table |-> t],
              [fd |-> LowestFree(t), table |-> [t EXCEPT ![LowestFree(t)] = t[d]]]}

(* A failing dup is reported, and the shell goes on. *)
Dup == /\ pc = "dup" /\ pc' = "redirect"
       /\ \E i \in dup(fds, 0) : \E o \in dup(i.table, 1) :
            in' = i.fd /\ out' = o.fd /\ fds' = o.table
       /\ UNCHANGED <<terminal, lines, hist, cmd, lost, child, io, printed>>

(* The shell itself leaves when a file of a built-in command does not open. *)
Redirect ==
  /\ pc = "redirect"
  /\ IF CanOpen
     THEN /\ fds' = Redirected(fds) /\ Emptied /\ WantEmptied
          /\ pc' = "exec"
     ELSE UNCHANGED <<fds, files, want>> /\ pc' = "exit"
  /\ UNCHANGED <<terminal, lines, hist, cmd, in, out, lost, child, buf, printed>>

(* execBuiltInCommand, with printf: a newline makes a line buffered stream write
   all it holds. *)
Exec ==
  LET items == Printout(node.args)
      all == buf \o items
  IN  /\ pc = "exec" /\ pc' = "restore"
      /\ IF terminal /\ items # <<>> /\ items[Len(items)].nl
         THEN WriteTo(fds, all) /\ buf' = <<>>
         ELSE buf' = all /\ UNCHANGED files
      /\ Wanted(items)
      /\ printed' = IF name = "record" THEN Record ELSE <<>>
      /\ UNCHANGED <<terminal, lines, hist, cmd, fds, in, out, lost, child>>

RecoveredOutOnly(t) ==
  IF node.out_file # NULL /\ out # -1 THEN [t EXCEPT ![1] = t[out]] ELSE t
Recovered(t) ==
  LET t1 == IF node.in_file # NULL /\ in # -1 THEN [t EXCEPT ![0] = t[in]] ELSE t
  IN  IF node.out_file # NULL /\ out # -1 THEN [t1 EXCEPT ![1] = t[out]] ELSE t1

(* recover shell stdin and stdout: dup2 and close fail on a -1, and what was redirected
   stays so. *)
Stuck == {d \in {0, 1} : IF d = 0 THEN node.in_file # NULL /\ in = -1
                                 ELSE node.out_file # NULL /\ out = -1}
Restore ==
  /\ pc = "restore" /\ pc' = IF name = "exit" THEN "exit" ELSE "prompt"
  /\ fds' = [d \in Descriptors |-> IF d \in {in, out} THEN NULL ELSE Recovered(fds)[d]]
  /\ lost' = lost \cup Stuck
  /\ in' = -1 /\ out' = -1
  /\ UNCHANGED <<terminal, lines, hist, cmd, child, io, printed>>

(* exit() and the end of main flush stdout. *)
Exit == /\ pc = "exit" /\ pc' = "exited"
        /\ WriteTo(fds, buf) /\ buf' = <<>>
        /\ UNCHANGED <<terminal, lines, hist, cmd, fds, in, out, lost, child, want, printed>>
-----------------------------------------------------------------------------
(* spawn_proc.  The child has a copy of everything, the buffer included. *)
Fork == /\ pc = "fork" /\ pc' = "wait"
        /\ child' = [pc |-> "redirect", fds |-> fds, buf |-> buf]
        /\ UNCHANGED <<terminal, lines, hist, cmd, fds, in, out, lost, io, printed>>
ForkFails == /\ pc = "fork" /\ pc' = "prompt"
             /\ UNCHANGED <<terminal, lines, hist, cmd, fds, in, out, lost, child, io, printed>>

ChildRedirect ==
  /\ child.pc = "redirect"
  /\ IF CanOpen
     THEN /\ Emptied /\ WantEmptied
          /\ child' = [child EXCEPT !.pc = "exec", !.fds = Redirected(@)]
     ELSE child' = [child EXCEPT !.pc = "exit"] /\ UNCHANGED <<files, want>>
  /\ UNCHANGED <<terminal, pc, lines, hist, cmd, fds, in, out, lost, buf, printed>>

AfterExecRetries == "exec"
AfterExec == "exit"
(* A program that is found replaces the child, buffer and all, and writes its
   item; otherwise execvp returns. *)
ChildExec ==
  /\ child.pc = "exec"
  /\ IF name \in Programs
     THEN /\ WriteTo(child.fds, Item(TRUE))
          /\ Wanted(Item(TRUE))
          /\ child' = [child EXCEPT !.pc = "gone", !.buf = <<>>]
     ELSE child' = [child EXCEPT !.pc = AfterExec] /\ UNCHANGED <<files, want>>
  /\ UNCHANGED <<terminal, pc, lines, hist, cmd, fds, in, out, lost, buf, printed>>

ChildExit == /\ child.pc = "exit"
             /\ WriteTo(child.fds, child.buf)
             /\ child' = [child EXCEPT !.pc = "gone", !.buf = <<>>]
             /\ UNCHANGED <<terminal, pc, lines, hist, cmd, fds, in, out, lost, buf, want, printed>>

Wait == /\ pc = "wait" /\ child.pc = "gone"
        /\ pc' = "prompt" /\ child' = NoChild
        /\ UNCHANGED <<terminal, lines, hist, cmd, fds, in, out, lost, io, printed>>

(* fork_cmd_node: redirections are ignored.  The last program writes to the shell's
   standard output; a child that is not executed flushes its copy of the buffer, the last
   one there, another into its pipe, from where the next program may pass it on; a
   failing pipe() or fork() ends the shell. *)
Found(n) == n.args # <<>> /\ n.args[1] \in Programs
LastOf == cmd[Len(cmd)]
PassedOn == {<<>>} \cup {buf : j \in {l \in 1 .. Len(cmd) - 1 : ~Found(cmd[l])}}
ForkCmdNode ==
  /\ pc = "pipeline"
  /\ \/ /\ Found(LastOf) /\ pc' = "prompt"
        /\ \E passed \in PassedOn : WriteTo(fds, passed \o Item(TRUE))
        /\ want' = [want EXCEPT !.stdout = @ \o Item(TRUE)]
     \/ /\ ~Found(LastOf) /\ pc' = "prompt" /\ WriteTo(fds, buf) /\ UNCHANGED want
     \/ pc' = "exit" /\ UNCHANGED <<files, want>>
  /\ UNCHANGED <<terminal, lines, hist, cmd, fds, in, out, lost, child, buf, printed>>
-----------------------------------------------------------------------------
ShellStep == \/ Search \/ Dup \/ Redirect \/ Exec \/ Restore \/ Exit
             \/ Fork \/ ForkFails \/ Wait \/ ForkCmdNode
ChildStep == ChildRedirect \/ ChildExec \/ ChildExit

(* The user types no more, or the shell has gone. *)
Idle == /\ \/ pc \in {"exited", "crashed"}
           \/ pc = "prompt" /\ lines = MaxLines
        /\ UNCHANGED vars

Next == ShellStep \/ ChildStep \/ EndOfFile \/ Idle \/ \E line \in Lines : ReadLine(line)

(* The kernel runs the shell and its child; nothing makes the user type. *)
Spec == Init /\ [][Next]_vars /\ WF_vars(ShellStep) /\ WF_vars(ChildStep)
-----------------------------------------------------------------------------
(* At every prompt no descriptor is open that was not open at the start, whatever the last
   command was, and standard input and output are the shell's own, but for one that was
   redirected while its dup had failed: that one is lost for good, and no other is. *)
DescriptorsRestored ==
  pc = "prompt" => /\ \A d \in Descriptors \ {0, 1} : fds[d] = NULL
                   /\ \A d \in {0, 1} \ lost : fds[d] = Fresh[d]

(* record lists the last lines typed, its own included, the oldest first, however
   often the ring has wrapped. *)
RecordLatest ==
  printed # <<>> =>
    LET kept == IF history_count < MAX_RECORD_NUM THEN history_count ELSE MAX_RECORD_NUM
    IN  pc = "restore" => printed = [j \in 1 .. kept |-> history_count - kept + j]

Whole(s) == {s[j] : j \in {l \in DOMAIN s : s[l].nl}}
InOrder(s) == \A j, l \in DOMAIN s : j < l /\ s[j].nl /\ s[l].nl => s[j].line < s[l].line

(* On a terminal, lines end up where the command was told to write them, in the order of
   the commands: a line goes out before the descriptors change.  That is so until standard
   output is lost. *)
LinesInPlace ==
  terminal /\ pc = "prompt" /\ 1 \notin lost =>
    \A s \in Sinks : Whole(files[s]) = Whole(want[s]) /\ InOrder(files[s])

(* On a terminal nothing is printed twice, in one file or in two: no child starts
   with output of the shell in its buffer, whatever its standard output is by then. *)
PrintedOnce ==
  terminal => \A s, u \in Sinks : \A j \in DOMAIN files[s], l \in DOMAIN files[u] :
                files[s][j] = files[u][l] => s = u /\ j = l

(* After every line the shell prompts again, or is gone. *)
PromptAgain == pc # "prompt" ~> pc \in {"prompt", "exited", "crashed"}

(* "Redirect command's stdin and stdout to the specified file descriptor": what
   a command with > prints is in its file when the shell prompts again.  It is not so:
   what echo -n prints is still buffered when Restore puts standard output back. *)
RedirectedOutput == pc = "prompt" => \A s \in Writable : files[s] = want[s]
=============================================================================
