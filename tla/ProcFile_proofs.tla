-------------------------- MODULE ProcFile_proofs --------------------------
(***************************************************************************)
(* Proofs about ProcFile for every number of rows.  Two inductive          *)
(* invariants that share nothing but the threads' program counters: one    *)
(* for the matrix and for main, one for the kernel buffer and its readers. *)
(***************************************************************************)
EXTENDS ProcFile, TLAPS

(* The row t works on lies in its half; the next fact is what tells the halves
   apart. *)
RowTypes == /\ z \in [Row -> Nat]
            /\ pc \in [Threads -> ThreadPC]
            /\ row \in [Threads -> Nat]
            /\ acc \in [Threads -> Nat]
            /\ mainpc \in MainPC

LoopOK == \A t \in Threads :
            /\ First(t) <= row[t] /\ row[t] <= End(t)
            /\ pc[t] = "store" => row[t] < End(t) /\ acc[t] = 0
            /\ pc[t] \notin {"new", "for", "store"} => row[t] = End(t)

(* The rows added so far are those that one of the threads has left behind. *)
Added(r) == \E t \in Threads : First(t) <= r /\ r < row[t]
ZOK == \A r \in Row : z[r] = IF Added(r) THEN 1 ELSE 0

(* What main knows of the threads at each of its calls. *)
MainOK == /\ mainpc = "create1" => pc[1] = "new"
          /\ mainpc \in {"create1", "create2"} => pc[2] = "new"
          /\ mainpc \in {"join2", "fprintf", "exit"} => pc[1] = "done"
          /\ mainpc \in {"fprintf", "exit"} => pc[2] = "done"

MatrixInv == RowTypes /\ LoopOK /\ ZOK /\ MainOK /\ ProductPrinted
-----------------------------------------------------------------------------
(* The first half ends inside the matrix. *)
LEMMA Half == Rows \div 2 \in Nat /\ Rows \div 2 <= Rows
  BY RowsAssumption

(* The matrix invariant holds before any thread exists. *)
LEMMA InitMatrix == Init => MatrixInv
  BY RowsAssumption, Half DEF Init, MatrixInv, RowTypes, LoopOK, ZOK, Added, MainOK,
     ProductPrinted, Threads, Row, First, End, ThreadPC, MainPC

(* Storing a row's sums adds just that row: nobody added it before, and the
   thread goes on to the next. *)
LEMMA StoreMatrix == ASSUME MatrixInv, NEW t \in Threads, StoreRow(t), mainpc' = mainpc,
                            printed' = printed
                     PROVE  MatrixInv'
<1>1. /\ pc[t] = "store" /\ pc' = [pc EXCEPT ![t] = "for"]
      /\ row' = [row EXCEPT ![t] = @ + 1] /\ acc' = acc
  BY DEF StoreRow, Goto
<1>2. row[t] \in Row /\ acc[t] = 0 /\ row[t] < End(t)
  BY <1>1, RowsAssumption, Half DEF MatrixInv, RowTypes, LoopOK, Threads, Row, First, End
<1>3. z' = [z EXCEPT ![row[t]] = 1]
  BY <1>2 DEF StoreRow
<1>4. RowTypes'
  BY <1>1, <1>2, <1>3 DEF MatrixInv, RowTypes, ThreadPC
<1>5. First(t) \in Nat /\ End(t) \in Nat /\ row[t] \in Nat
  BY RowsAssumption, Half DEF MatrixInv, RowTypes, First, End
<1>6. LoopOK'
  <2> SUFFICES ASSUME NEW u \in Threads
               PROVE  /\ First(u) <= row'[u] /\ row'[u] <= End(u)
                      /\ pc'[u] = "store" => row'[u] < End(u) /\ acc'[u] = 0
                      /\ pc'[u] \notin {"new", "for", "store"} => row'[u] = End(u)
    BY DEF LoopOK
  <2>1. CASE u = t
    BY <1>1, <1>2, <1>5, <2>1 DEF MatrixInv, RowTypes, LoopOK
  <2>2. CASE u # t
    BY <1>1, <2>2 DEF MatrixInv, RowTypes, LoopOK
  <2> QED
    BY <2>1, <2>2
<1>7. ASSUME NEW r \in Row PROVE z'[r] = IF Added(r)' THEN 1 ELSE 0
  <2>1. row'[t] = row[t] + 1 /\ \A u \in Threads : u # t => row'[u] = row[u]
    BY <1>1 DEF MatrixInv, RowTypes
  <2>2. r \in Int
    BY RowsAssumption DEF Row
  <2>3. CASE r = row[t]
    <3>1. Added(r)'
      BY <1>5, <2>1, <2>3 DEF Added, MatrixInv, LoopOK
    <3> QED
      BY <1>2, <1>3, <2>3, <3>1 DEF MatrixInv, RowTypes
  <2>4. CASE r # row[t]
    <3>1. r < row[t] + 1 <=> r < row[t]
      BY <1>5, <2>2, <2>4
    <3>2. Added(r)' <=> Added(r)
      BY <2>1, <3>1 DEF Added
    <3> QED
      BY <1>2, <1>3, <2>4, <3>2 DEF MatrixInv, RowTypes, ZOK
  <2> QED
    BY <2>3, <2>4
<1>8. ZOK'
  BY <1>7 DEF ZOK
<1>9. MainOK'
  BY <1>1 DEF MatrixInv, MainOK, RowTypes, Threads
<1>10. ProductPrinted'
  BY DEF MatrixInv, ProductPrinted
<1> QED
  BY <1>4, <1>6, <1>8, <1>9, <1>10 DEF MatrixInv

(* Every step of a thread preserves it. *)
LEMMA ThreadMatrix == ASSUME MatrixInv, NEW t \in Threads, Thread(t)
                      PROVE  MatrixInv'
<1>1. CASE LoadRow(t)
  <2>1. row[t] \in Row /\ ~Added(row[t])
    BY <1>1, RowsAssumption, Half DEF LoadRow, Goto, MatrixInv, RowTypes, LoopOK, Added,
       Threads, Row, First, End
  <2>2. acc' = [acc EXCEPT ![t] = 0]
    BY <1>1, <2>1 DEF LoadRow, MatrixInv, ZOK
  <2> QED
    BY <1>1, <2>2 DEF LoadRow, Goto, Thread, MatrixInv, RowTypes, LoopOK, ZOK, Added,
       MainOK, ProductPrinted, Threads, ThreadPC
<1>2. CASE StoreRow(t)
  BY <1>2, StoreMatrix DEF Thread
<1> USE DEF Goto, Thread, MatrixInv, RowTypes, LoopOK, ZOK, Added, MainOK,
     ProductPrinted, Threads, ThreadPC
<1>3. CASE RowsDone(t)
  BY <1>3, RowsAssumption, Half DEF RowsDone, End, First
<1>4. CASE OpenOk(t)
  BY <1>4 DEF OpenOk
<1>5. CASE OpenFails(t)
  BY <1>5 DEF OpenFails
<1>6. CASE Mywrite(t)
  BY <1>6 DEF Mywrite
<1>7. CASE MyreadCopy(t)
  BY <1>7 DEF MyreadCopy
<1>8. CASE MyreadReturns(t)
  BY <1>8 DEF MyreadReturns
<1>9. CASE MyreadEof(t)
  BY <1>9 DEF MyreadEof
<1> QED
  BY <1>1, <1>2, <1>3, <1>4, <1>5, <1>6, <1>7, <1>8, <1>9

(* Every call of main preserves it: at fprintf both threads are done, so both
   halves are added. *)
LEMMA MainMatrix == ASSUME MatrixInv, Main PROVE MatrixInv'
<1> USE RowsAssumption, Half DEF MatrixInv, RowTypes, LoopOK, ZOK, Added, MainOK,
     ProductPrinted, Threads, Row, First, End, ThreadPC, MainPC, MainGoto, threadVars
<1>1. CASE Create(1)
  BY <1>1 DEF Create
<1>2. CASE Create(2)
  BY <1>2 DEF Create
<1>3. CASE Join(1)
  BY <1>3 DEF Join
<1>4. CASE Join(2)
  BY <1>4 DEF Join
<1>5. CASE Fprintf
  <2>1. row[1] = End(1) /\ row[2] = End(2)
    BY <1>5 DEF Fprintf
  <2>2. \A r \in Row : z[r] = 1
    BY <2>1
  <2>3. z = [r \in Row |-> 1]
    BY <2>2
  <2> QED
    BY <1>5, <2>3 DEF Fprintf
<1> QED
  BY <1>1, <1>2, <1>3, <1>4, <1>5 DEF Main
-----------------------------------------------------------------------------
(* Thread t has passed cell j of the buffer in its Mywrite. *)
Past(t, j) == fd[t] = "ok" /\ (pc[t] \in {"read", "done"} \/ (pc[t] = "write" /\ j < k[t]))

BufTypes == /\ buf \in [1 .. 4 -> Cell]
            /\ offset \in [Threads -> Nat]
            /\ pc \in [Threads -> ThreadPC]
            /\ fd \in [Threads -> {"none", "ok", "failed"}]
            /\ k \in [Threads -> 1 .. 4]

(* A cell is blank or has what every greeting has there, and is not blank once a
   thread has passed it. *)
CellsOK == /\ buf[1] \in {"Thread", Nul}
           /\ buf[2] \in {"1", "2", Nul}
           /\ buf[3] \in {"hello", Nul}
           /\ buf[4] = Nul
           /\ \A t \in Threads, j \in 1 .. 3 : Past(t, j) => buf[j] # Nul

(* What a thread that stands at cell j has in temp_buf, and what it has printed. *)
ReaderOK == /\ temp \in [Threads -> [1 .. 4 -> Cell]]
            /\ reports \in [Threads -> SUBSET [1 .. 4 -> Cell]]
            /\ \A t \in Threads :
                 /\ pc[t] \in {"new", "for", "store", "open"} => k[t] = 1 /\ fd[t] = "none"
                 /\ pc[t] = "write" => fd[t] = "ok"
                 /\ pc[t] # "read" => temp[t] = Blank
                 /\ pc[t] = "read" =>
                      /\ temp[t][1] = IF k[t] > 1 THEN "Thread" ELSE Nul
                      /\ IF k[t] > 2 THEN temp[t][2] \in {"1", "2"} ELSE temp[t][2] = Nul
                      /\ temp[t][3] = IF k[t] > 3 THEN "hello" ELSE Nul
                      /\ temp[t][4] = Nul

ReportsOK == \A t \in Threads :
               /\ offset[t] = 0 => reports[t] = {}
               /\ offset[t] > 0 => /\ reports[t] # {} /\ temp[t] = Blank
                                     /\ pc[t] \in {"read", "done"}
               /\ pc[t] = "done" => offset[t] > 0
               /\ fd[t] = "ok" => reports[t] \subseteq {Greeting(1), Greeting(2)}

(* The thread whose digit is in the buffer has met, and will meet, its own. *)
OwnDigit == \A t \in Threads : Past(t, 2) /\ buf[2] = Digit[t] =>
              /\ pc[t] = "read" /\ k[t] > 2 => temp[t][2] = Digit[t]
              /\ reports[t] \subseteq {Greeting(t)}

(* The digit in the buffer is that of one who wrote in this run, if anyone did. *)
LastDigit == (\E t \in Threads : Past(t, 2)) =>
                \E t \in Threads : Past(t, 2) /\ buf[2] = Digit[t]

BufferInv == BufTypes /\ CellsOK /\ ReaderOK /\ ReportsOK /\ OwnDigit /\ LastDigit
-----------------------------------------------------------------------------
(* A greeting, cell by cell. *)
LEMMA Greetings == ASSUME NEW t \in Threads
                   PROVE  /\ Greeting(t) \in [1 .. 4 -> Cell] /\ Len(Greeting(t)) = 4
                          /\ Greeting(t)[1] = "Thread" /\ Greeting(t)[2] = Digit[t]
                          /\ Greeting(t)[3] = "hello" /\ Greeting(t)[4] = Nul
                          /\ Digit[t] \in {"1", "2"}
<1>1. Digit[t] \in {"1", "2"}
  <2>1. Digit[1] = "1" /\ Digit[2] = "2"
    BY DEF Digit
  <2> QED
    BY <2>1 DEF Threads
<1> DEFINE d == Digit[t]
<1>2. Greeting(t) = <<"Thread", d, "hello", Nul>>
  BY DEF Greeting
<1>3. d \in Cell /\ Nul \in Cell /\ "Thread" \in Cell /\ "hello" \in Cell
  BY <1>1 DEF Cell
<1> HIDE DEF d
<1>4. /\ Greeting(t) \in [1 .. 4 -> Cell] /\ Len(Greeting(t)) = 4
      /\ Greeting(t)[1] = "Thread" /\ Greeting(t)[2] = d
      /\ Greeting(t)[3] = "hello" /\ Greeting(t)[4] = Nul
  BY <1>2, <1>3
<1> QED
  BY <1>1, <1>4 DEF d

(* The digit tells whose greeting it is. *)
LEMMA Digits == /\ \A t, u \in Threads : Digit[t] = Digit[u] => t = u
                /\ \A d \in {"1", "2"} : \E t \in Threads : d = Digit[t]
                /\ Threads = {1, 2}
  BY DEF Threads, Digit

(* Four cells with a greeting's contents are that greeting. *)
LEMMA SameGreeting == ASSUME NEW t \in Threads, NEW f \in [1 .. 4 -> Cell],
                             f[1] = "Thread", f[2] = Digit[t],
                             f[3] = "hello", f[4] = Nul
                      PROVE  f = Greeting(t)
<1>1. Greeting(t) = [j \in 1 .. 4 |-> Greeting(t)[j]] /\ f = [j \in 1 .. 4 |-> f[j]]
  BY Greetings
<1>2. \A j \in 1 .. 4 : j = 1 \/ j = 2 \/ j = 3 \/ j = 4
  OBVIOUS
<1>3. \A j \in 1 .. 4 : f[j] = Greeting(t)[j]
  BY <1>2, Greetings
<1> QED
  BY <1>1, <1>3

(* A cleared buffer, cell by cell. *)
LEMMA Blanks == /\ Blank \in [1 .. 4 -> Cell]
                /\ Blank[1] = Nul /\ Blank[2] = Nul /\ Blank[3] = Nul /\ Blank[4] = Nul
<1>1. Nul \in Cell
  BY DEF Cell
<1> QED
  BY <1>1 DEF Blank

(* No cell of a greeting but the last is '\0'. *)
LEMMA NulIsNone == Nul \notin {"Thread", "1", "2", "hello"}
  BY DEF Nul

(* The buffer invariant holds at the start, whatever an earlier run left. *)
LEMMA InitBuffer == Init => BufferInv
<1> SUFFICES ASSUME Init PROVE BufferInv
  OBVIOUS
<1>1. buf = Blank \/ \E t \in Threads : buf = Greeting(t)
  BY DEF Init
<1>2. BufTypes
  BY <1>1, Greetings, Blanks DEF Init, BufTypes, ThreadPC
<1>3. \A t \in Threads : \A j \in 1 .. 4 : ~Past(t, j)
  BY DEF Init, Past
<1>4. CellsOK
  <2>1. CASE buf = Blank
    BY <1>3, <2>1, Blanks DEF CellsOK
  <2>2. CASE \E t \in Threads : buf = Greeting(t)
    BY <1>3, <2>2, Greetings DEF CellsOK
  <2> QED
    BY <1>1, <2>1, <2>2
<1>5. ReaderOK /\ ReportsOK
  BY Blanks DEF Init, ReaderOK, ReportsOK
<1>6. OwnDigit /\ LastDigit
  BY <1>3 DEF OwnDigit, LastDigit
<1> QED
  BY <1>2, <1>4, <1>5, <1>6 DEF BufferInv

(* Writing a cell: the digit's cell passes to the writer, the others stay as they
   are in every greeting. *)
LEMMA MywriteBuffer == ASSUME BufferInv, NEW t \in Threads, Mywrite(t)
                       PROVE  BufferInv'
<1>1. pc[t] = "write" /\ fd[t] = "ok" /\ k[t] \in 1 .. 4
  BY DEF Mywrite, Goto, BufferInv, BufTypes, ReaderOK
<1>2. /\ pc' = [pc EXCEPT ![t] = IF k[t] < 4 THEN "write" ELSE "read"]
      /\ buf' = [buf EXCEPT ![k[t]] = Greeting(t)[k[t]]]
      /\ k' = [k EXCEPT ![t] = IF k[t] < 4 THEN k[t] + 1 ELSE 1]
      /\ offset' = offset /\ fd' = fd /\ temp' = temp /\ reports' = reports
  BY Greetings DEF Mywrite, Goto
<1>3. temp[t] = Blank /\ offset[t] = 0 /\ reports[t] = {}
  BY <1>1 DEF BufferInv, ReaderOK, ReportsOK, BufTypes
<1>4. BufTypes'
  BY <1>1, <1>2, Greetings DEF BufferInv, BufTypes, ThreadPC
<1>5. \A u \in Threads : \A j \in 1 .. 3 : Past(u, j)' <=> Past(u, j) \/ (u = t /\ j = k[t])
  <2> TAKE u \in Threads
  <2> TAKE j \in 1 .. 3
  <2>1. CASE u = t
    BY <1>1, <1>2, <2>1 DEF Past, BufferInv, BufTypes
  <2>2. CASE u # t
    BY <1>2, <2>2 DEF Past, BufferInv, BufTypes
  <2> QED
    BY <2>1, <2>2
<1>6. /\ buf'[k[t]] = Greeting(t)[k[t]]
      /\ \A j \in 1 .. 4 : j # k[t] => buf'[j] = buf[j]
  BY <1>1, <1>2 DEF BufferInv, BufTypes
<1>7. CellsOK'
  BY <1>1, <1>5, <1>6, Greetings, NulIsNone DEF BufferInv, CellsOK
<1>8. ReaderOK'
  BY <1>1, <1>2, <1>3, Blanks DEF BufferInv, ReaderOK, BufTypes
<1>9. ReportsOK'
  BY <1>1, <1>2, <1>3 DEF BufferInv, ReportsOK, BufTypes
<1>10. OwnDigit'
  <2> SUFFICES ASSUME NEW u \in Threads, Past(u, 2)', buf'[2] = Digit[u]
               PROVE  /\ pc'[u] = "read" /\ k'[u] > 2 => temp'[u][2] = Digit[u]
                      /\ reports'[u] \subseteq {Greeting(u)}
    BY DEF OwnDigit
  <2>1. CASE u = t
    BY <1>1, <1>2, <1>3, <2>1 DEF BufferInv, BufTypes
  <2>2. CASE u # t
    <3>1. k[t] # 2
      BY <1>6, <2>2, Greetings, Digits
    <3>2. buf[2] = Digit[u] /\ Past(u, 2)
      BY <1>1, <1>5, <1>6, <2>2, <3>1
    <3> QED
      BY <1>2, <2>2, <3>2 DEF BufferInv, BufTypes, OwnDigit
  <2> QED
    BY <2>1, <2>2
<1>11. LastDigit'
  <2>1. CASE k[t] = 2
    BY <1>5, <1>6, <2>1, Greetings DEF LastDigit
  <2>2. CASE k[t] # 2
    <3>1. buf'[2] = buf[2] /\ \A u \in Threads : Past(u, 2)' <=> Past(u, 2)
      BY <1>5, <1>6, <2>2
    <3> QED
      BY <3>1 DEF BufferInv, LastDigit
  <2> QED
    BY <2>1, <2>2
<1> QED
  BY <1>4, <1>7, <1>8, <1>9, <1>10, <1>11 DEF BufferInv

(* Copying a cell: what is copied has the form of a greeting so far. *)
LEMMA MyreadCopyBuffer == ASSUME BufferInv, NEW t \in Threads, MyreadCopy(t)
                          PROVE  BufferInv'
<1>1. pc[t] = "read" /\ buf[k[t]] # Nul /\ k[t] \in 1 .. 3
  BY DEF MyreadCopy, Goto, BufferInv, BufTypes, CellsOK
<1>2. /\ temp' = [temp EXCEPT ![t][k[t]] = buf[k[t]]]
      /\ k' = [k EXCEPT ![t] = k[t] + 1] /\ pc' = pc
      /\ buf' = buf /\ offset' = offset /\ fd' = fd /\ reports' = reports
  BY <1>1 DEF MyreadCopy, Goto, BufferInv, BufTypes
<1>3. BufTypes'
  BY <1>1, <1>2 DEF BufferInv, BufTypes
<1>4. \A u \in Threads : \A j \in 1 .. 3 : Past(u, j)' <=> Past(u, j)
  BY <1>1, <1>2 DEF Past, BufferInv, BufTypes
<1>5. CellsOK'
  BY <1>2, <1>4 DEF BufferInv, CellsOK
<1>6. /\ temp'[t] \in [1 .. 4 -> Cell] /\ temp'[t][k[t]] = buf[k[t]]
      /\ \A j \in 1 .. 4 : j # k[t] => temp'[t][j] = temp[t][j]
      /\ \A u \in Threads : u # t => temp'[u] = temp[u]
  BY <1>1, <1>2 DEF BufferInv, BufTypes, ReaderOK
<1>7. ReaderOK'
  <2>1. temp' \in [Threads -> [1 .. 4 -> Cell]]
    BY <1>2, <1>6 DEF BufferInv, ReaderOK
  <2>2. /\ temp'[t][1] = IF k'[t] > 1 THEN "Thread" ELSE Nul
        /\ IF k'[t] > 2 THEN temp'[t][2] \in {"1", "2"} ELSE temp'[t][2] = Nul
        /\ temp'[t][3] = IF k'[t] > 3 THEN "hello" ELSE Nul
        /\ temp'[t][4] = Nul
    BY <1>1, <1>2, <1>6 DEF BufferInv, BufTypes, ReaderOK, CellsOK
  <2> QED
    BY <1>1, <1>2, <1>6, <2>1, <2>2 DEF BufferInv, BufTypes, ReaderOK
<1>8. ReportsOK'
  BY <1>2, <1>6 DEF BufferInv, ReportsOK, MyreadCopy, Stream
<1>9. OwnDigit'
  <2> SUFFICES ASSUME NEW u \in Threads, Past(u, 2), buf[2] = Digit[u]
               PROVE  /\ pc[u] = "read" /\ k'[u] > 2 => temp'[u][2] = Digit[u]
                      /\ reports[u] \subseteq {Greeting(u)}
    BY <1>2, <1>4 DEF OwnDigit
  <2>1. CASE u = t
    BY <1>1, <1>2, <1>6, <2>1 DEF BufferInv, BufTypes, OwnDigit
  <2>2. CASE u # t
    BY <1>2, <1>6, <2>2 DEF BufferInv, BufTypes, OwnDigit
  <2> QED
    BY <2>1, <2>2
<1>10. LastDigit'
  BY <1>2, <1>4 DEF BufferInv, LastDigit
<1> QED
  BY <1>3, <1>5, <1>7, <1>8, <1>9, <1>10 DEF BufferInv

(* Handing a text to the user: a thread that wrote has copied all of a greeting,
   since none of its cells was blank on the way. *)
LEMMA MyreadReturnsBuffer == ASSUME BufferInv, NEW t \in Threads, MyreadReturns(t)
                             PROVE  BufferInv'
<1>1. pc[t] = "read" /\ buf[k[t]] = Nul /\ k[t] \in 1 .. 4 /\ offset[t] = 0
  BY DEF MyreadReturns, Goto, Stream, BufferInv, BufTypes
<1>2. /\ reports' = [reports EXCEPT ![t] = reports[t] \cup {temp[t]}]
      /\ temp' = [temp EXCEPT ![t] = Blank] /\ k' = [k EXCEPT ![t] = 1]
      /\ offset' = [offset EXCEPT ![t] = k[t]]
      /\ pc' = pc /\ buf' = buf /\ fd' = fd
  BY <1>1 DEF MyreadReturns, Goto, Stream, BufferInv, BufTypes
<1>3. reports[t] = {} /\ temp[t] \in [1 .. 4 -> Cell]
  BY <1>1 DEF BufferInv, ReaderOK, ReportsOK
<1>4. fd[t] = "ok" => k[t] = 4
  BY <1>1 DEF Past, BufferInv, CellsOK, BufTypes
<1>5. fd[t] = "ok" => /\ temp[t][1] = "Thread" /\ temp[t][2] \in {"1", "2"}
                      /\ temp[t][3] = "hello" /\ temp[t][4] = Nul
  BY <1>1, <1>4 DEF BufferInv, ReaderOK
<1>6. fd[t] = "ok" => temp[t] \in {Greeting(1), Greeting(2)}
  BY <1>3, <1>5, Digits, SameGreeting
<1>7. Past(t, 2) /\ buf[2] = Digit[t] => temp[t] = Greeting(t)
  BY <1>1, <1>3, <1>4, <1>5, SameGreeting DEF Past, BufferInv, OwnDigit
<1>8. BufTypes'
  BY <1>1, <1>2 DEF BufferInv, BufTypes
<1>9. \A u \in Threads : \A j \in 1 .. 3 : Past(u, j)' <=> Past(u, j)
  BY <1>1, <1>2 DEF Past, BufferInv, BufTypes
<1>10. CellsOK'
  BY <1>2, <1>9 DEF BufferInv, CellsOK
<1>11. ReaderOK'
  BY <1>1, <1>2, <1>3, Blanks DEF BufferInv, BufTypes, ReaderOK
<1>12. ReportsOK'
  <2>1. /\ reports'[t] = {temp[t]} /\ temp'[t] = Blank /\ offset'[t] > 0
        /\ fd[t] = "ok" => reports'[t] \subseteq {Greeting(1), Greeting(2)}
    BY <1>1, <1>2, <1>3, <1>6 DEF BufferInv, BufTypes, ReaderOK
  <2>2. \A u \in Threads : u # t => /\ reports'[u] = reports[u] /\ temp'[u] = temp[u]
                                    /\ offset'[u] = offset[u]
    BY <1>2 DEF BufferInv, BufTypes, ReaderOK
  <2> QED
    BY <1>1, <1>2, <2>1, <2>2 DEF BufferInv, ReportsOK
<1>13. OwnDigit'
  <2> SUFFICES ASSUME NEW u \in Threads, Past(u, 2), buf[2] = Digit[u]
               PROVE  /\ pc[u] = "read" /\ k'[u] > 2 => temp'[u][2] = Digit[u]
                      /\ reports'[u] \subseteq {Greeting(u)}
    BY <1>2, <1>9 DEF OwnDigit
  <2>1. CASE u = t
    BY <1>2, <1>3, <1>7, <2>1 DEF BufferInv, BufTypes, ReaderOK
  <2>2. CASE u # t
    BY <1>2, <2>2 DEF BufferInv, BufTypes, ReaderOK, OwnDigit
  <2> QED
    BY <2>1, <2>2
<1>14. LastDigit'
  BY <1>2, <1>9 DEF BufferInv, LastDigit
<1> QED
  BY <1>8, <1>10, <1>11, <1>12, <1>13, <1>14 DEF BufferInv

(* The steps that touch neither the buffer nor a reader. *)
LEMMA OtherBuffer ==
  ASSUME BufferInv, NEW t \in Threads,
         \/ pc[t] = "new" /\ Create(t)
         \/ LoadRow(t) \/ StoreRow(t) \/ RowsDone(t)
         \/ OpenOk(t) \/ OpenFails(t) \/ MyreadEof(t)
  PROVE  BufferInv'
<1>1. /\ buf' = buf /\ offset' = offset /\ k' = k /\ temp' = temp /\ reports' = reports
  BY DEF Create, LoadRow, StoreRow, RowsDone, OpenOk, OpenFails, MyreadEof
<1>2. /\ pc' \in [Threads -> ThreadPC] /\ fd' \in [Threads -> {"none", "ok", "failed"}]
      /\ \A u \in Threads : u # t => pc'[u] = pc[u] /\ fd'[u] = fd[u]
  BY DEF Create, LoadRow, StoreRow, RowsDone, OpenOk, OpenFails, MyreadEof, Goto, BufferInv,
     BufTypes, ThreadPC
<1>3. \/ /\ pc[t] \in {"new", "for", "store"} /\ pc'[t] \in {"for", "store", "open"}
         /\ fd'[t] = fd[t]
      \/ pc[t] = "open" /\ pc'[t] = "write" /\ fd'[t] = "ok"
      \/ pc[t] = "open" /\ pc'[t] = "read" /\ fd'[t] = "failed"
      \/ pc[t] = "read" /\ pc'[t] = "done" /\ fd'[t] = fd[t] /\ offset[t] > 0
  BY DEF Create, LoadRow, StoreRow, RowsDone, OpenOk, OpenFails, MyreadEof, Goto, Stream,
     BufferInv, BufTypes, ThreadPC
<1>4. BufTypes'
  BY <1>1, <1>2 DEF BufferInv, BufTypes
<1>5. pc[t] \in {"new", "for", "store", "open"} =>
        k[t] = 1 /\ fd[t] = "none" /\ temp[t] = Blank /\ offset[t] = 0 /\ reports[t] = {}
  BY DEF BufferInv, BufTypes, ReaderOK, ReportsOK
<1>6. \A u \in Threads : \A j \in 1 .. 3 : Past(u, j)' <=> Past(u, j)
  BY <1>1, <1>2, <1>3, <1>5 DEF Past
<1>7. CellsOK'
  BY <1>1, <1>6 DEF BufferInv, CellsOK
<1>8. pc[t] = "read" /\ pc'[t] = "done" => temp[t] = Blank
  BY <1>3, <1>5 DEF BufferInv, BufTypes, ReaderOK, ReportsOK
<1>9. ReaderOK'
  BY <1>1, <1>2, <1>3, <1>5, <1>8, Blanks DEF BufferInv, BufTypes, ReaderOK
<1>10. ReportsOK'
  BY <1>1, <1>2, <1>3, <1>5 DEF BufferInv, BufTypes, ReportsOK
<1>11. OwnDigit'
  BY <1>1, <1>2, <1>3, <1>5, <1>6 DEF BufferInv, BufTypes, OwnDigit
<1>12. LastDigit'
  BY <1>1, <1>6 DEF BufferInv, LastDigit
<1> QED
  BY <1>4, <1>7, <1>9, <1>10, <1>11, <1>12 DEF BufferInv

(* The buffer invariant is preserved by every step. *)
LEMMA NextBuffer == MatrixInv /\ BufferInv /\ [Next]_vars => BufferInv'
<1> SUFFICES ASSUME MatrixInv, BufferInv, [Next]_vars PROVE BufferInv'
  OBVIOUS
<1>1. CASE Fprintf \/ UNCHANGED vars \/ \E t \in Threads : Join(t)
  <2>1. UNCHANGED threadVars
    BY <1>1 DEF Fprintf, Join, vars, threadVars
  <2> QED
    BY <2>1 DEF threadVars, BufferInv, BufTypes, CellsOK, ReaderOK, ReportsOK, OwnDigit,
       LastDigit, Past
<1>2. ASSUME NEW t \in Threads, Thread(t) PROVE BufferInv'
  BY <1>2, OtherBuffer, MywriteBuffer, MyreadCopyBuffer, MyreadReturnsBuffer DEF Thread
<1>3. ASSUME NEW t \in Threads, Create(t) PROVE BufferInv'
  <2>1. pc[t] = "new"
    BY <1>3 DEF Create, MainGoto, MatrixInv, MainOK, Threads
  <2> QED
    BY <1>3, <2>1, OtherBuffer
<1> QED
  BY <1>1, <1>2, <1>3 DEF Next, Main, Terminated

(* The matrix invariant is preserved by every step. *)
LEMMA NextMatrix == MatrixInv /\ [Next]_vars => MatrixInv'
<1> SUFFICES ASSUME MatrixInv, [Next]_vars PROVE MatrixInv'
  OBVIOUS
<1>1. CASE Main
  BY <1>1, MainMatrix
<1>2. CASE \E t \in Threads : Thread(t)
  BY <1>2, ThreadMatrix
<1>3. CASE UNCHANGED vars
  BY <1>3 DEF vars, MatrixInv, RowTypes, LoopOK, ZOK, Added, MainOK, ProductPrinted
<1> QED
  BY <1>1, <1>2, <1>3 DEF Next, Terminated

(* Both together are inductive. *)
THEOREM Inductive == SafetySpec => [](MatrixInv /\ BufferInv)
  BY InitMatrix, InitBuffer, NextMatrix, NextBuffer, PTL DEF SafetySpec

(* The variables keep their ranges. *)
THEOREM TypeCorrect == SafetySpec => []TypeOK
<1>1. MatrixInv /\ BufferInv => TypeOK
  BY DEF MatrixInv, RowTypes, BufferInv, BufTypes, ReaderOK, TypeOK
<1> QED
  BY <1>1, Inductive, PTL

(* The printed product is complete, for every number of rows: no row is left out
   where the halves meet, none is added twice. *)
THEOREM Product == SafetySpec => []ProductPrinted
<1>1. MatrixInv => ProductPrinted
  BY DEF MatrixInv
<1> QED
  BY <1>1, Inductive, PTL

(* No torn and no empty greeting, without any lock around the buffer. *)
THEOREM Whole == SafetySpec => []WholeGreeting
<1>1. BufferInv => WholeGreeting
  BY Digits DEF BufferInv, ReportsOK, WholeGreeting
<1> QED
  BY <1>1, Inductive, PTL

(* The thread whose digit is left in the buffer has read its own greeting. *)
THEOREM NotCrossed == SafetySpec => []SomeoneReportsItself
<1>1. ASSUME BufferInv, \A t \in Threads : pc[t] = "done", \E t \in Threads : fd[t] = "ok"
      PROVE  \E t \in Threads : reports[t] = {Greeting(t)}
  <2>1. PICK t \in Threads : Past(t, 2) /\ buf[2] = Digit[t]
    BY <1>1 DEF BufferInv, LastDigit, Past
  <2>2. reports[t] \subseteq {Greeting(t)}
    BY <1>1, <2>1 DEF BufferInv, OwnDigit
  <2>3. reports[t] # {}
    BY <1>1 DEF BufferInv, BufTypes, ReportsOK
  <2> QED
    BY <2>2, <2>3
<1>2. BufferInv => SomeoneReportsItself
  BY <1>1 DEF SomeoneReportsItself
<1> QED
  BY <1>2, Inductive, PTL
=============================================================================
