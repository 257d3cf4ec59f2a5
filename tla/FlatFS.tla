------------------------------- MODULE FlatFS -------------------------------
(***************************************************************************)
(* What the one-directory file system of Lab 4 promises its users: a file  *)
(* is created empty, keeps at most Cap bytes, and a read returns what was  *)
(* last written at those positions of that file, zero where nothing was.   *)
(*                                                                         *)
(* Calls take time.  A read that a write of the file comes between may     *)
(* return anything, and of a file in which two writes have met nothing is  *)
(* promised any more; whatever else meets, the promise stands.             *)
(***************************************************************************)
EXTENDS Integers, Sequences

CONSTANTS Names, Data,       \* file names; the sequences of bytes calls carry
          Cap,               \* the size a file can reach
          Clients

VARIABLES files,             \* the contents of the files about which that is promised
          muddled,           \* the names of the others
          calls,             \* the reads and writes that are under way
          out                \* the last call, its result and the bytes it moved

fvars == <<files, muddled, calls, out>>
Result(call, n, err, d) == [call |-> call, name |-> n, err |-> err, data |-> d]
Call(what, n) == [what |-> what, name |-> n]
None == Call("none", "")

Init == /\ files = <<>> /\ muddled = {}
        /\ calls = [c \in Clients |-> None]
        /\ out \in [call : {"none"}, name : {""}, err : {0}, data : {<<>>}]

Create(n) == /\ n \notin DOMAIN files \cup muddled
             /\ files' = [m \in DOMAIN files \cup {n} |->
                            IF m = n THEN <<>> ELSE files[m]]
             /\ out' = Result("create", n, 0, <<>>)
             /\ UNCHANGED <<muddled, calls>>

(* d at offset p of content c; the gap, if any, reads as zeros. *)
Patch(c, p, d) ==
  [j \in 1 .. (IF p + Len(d) > Len(c) THEN p + Len(d) ELSE Len(c)) |->
     IF j - p \in 1 .. Len(d) THEN d[j - p]
     ELSE IF j <= Len(c) THEN c[j] ELSE 0]

Written(n) == \E c \in Clients : calls[c] = Call("write", n)

(* A write takes effect as it starts. *)
Write(c, n, p, d) ==
  /\ n \in DOMAIN files \cup muddled /\ calls[c] = None
  /\ p + Len(d) <= Cap
  /\ IF n \in muddled \/ Written(n)
     THEN /\ files' = [m \in DOMAIN files \ {n} |-> files[m]]
          /\ muddled' = muddled \cup {n}
     ELSE files' = [files EXCEPT ![n] = Patch(@, p, d)] /\ UNCHANGED muddled
  /\ calls' = [k \in Clients |-> IF k = c THEN Call("write", n)
                                 ELSE IF calls[k] = Call("read", n) THEN Call("late", n)
                                 ELSE calls[k]]
  /\ out' = Result("write", n, 0, d)

EndWrite(c, n) == /\ calls[c] = Call("write", n)
                  /\ calls' = [calls EXCEPT ![c] = None]
                  /\ UNCHANGED <<files, muddled, out>>

Read(c, n) == /\ n \in DOMAIN files \cup muddled /\ calls[c] = None
              /\ calls' = [calls EXCEPT ![c] = Call(IF Written(n) THEN "late" ELSE "read", n)]
              /\ UNCHANGED <<files, muddled, out>>

Returns(n, p, l) ==
  LET last == IF p + l > Len(files[n]) THEN Len(files[n]) ELSE p + l
  IN  out' = Result("read", n, 0, SubSeq(files[n], p + 1, last))

EndRead(c, n) ==
  /\ out'.call = "read" /\ out'.name = n
  /\ \/ calls[c] = Call("late", n)
     \/ /\ calls[c] = Call("read", n)
        /\ n \in DOMAIN files => \E p \in 0 .. Cap + 1, l \in 0 .. Cap : Returns(n, p, l)
  /\ calls' = [calls EXCEPT ![c] = None]
  /\ UNCHANGED <<files, muddled>>

(* A call that fails changes no file. *)
Fail(call, n, err) == /\ err # 0
                      /\ out' = Result(call, n, err, <<>>)
                      /\ UNCHANGED <<files, muddled, calls>>

Next == \E n \in Names :
          \/ Create(n)
          \/ \E c \in Clients :
               \/ \E p \in 0 .. Cap, d \in Data : Write(c, n, p, d)
               \/ EndWrite(c, n) \/ Read(c, n) \/ EndRead(c, n)
          \/ \E call \in {"create", "write"}, err \in {-12, -14, -28, -36} :
               Fail(call, n, err)

Spec == Init /\ [][Next]_fvars
=============================================================================
