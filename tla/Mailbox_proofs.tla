--------------------------- MODULE Mailbox_proofs ---------------------------
(***************************************************************************)
(* The mailbox for every file without an EXIT_MSG of its own, any number   *)
(* of sessions of either kind, one program launched after the other is set *)
(* up, and nobody killed.                                                  *)
(*                                                                         *)
(* A session inherits the semaphore set of the one before.  It is harmless *)
(* since full is 0 in it: the receiver cannot pass P(full) before the      *)
(* sender has set both semaphores.  From then on they and the process      *)
(* between its P and its V make one token, and the token says how many     *)
(* messages are under way (Accounts) and which one is in the slot.         *)
(***************************************************************************)
EXTENDS Mailbox, SequenceTheorems, TLAPS

Assumed == /\ Killable = {} /\ "any" \notin Orders
           /\ \A j \in DOMAIN File : File[j] # Exit

Text == STRING

S == pc["sender"]
R == pc["receiver"]

SenderAt == Setup \cup {"P", "put", "put2", "V", "done"}
ReceiverAt == Setup \cup {"P", "get", "get2", "V", "rmid", "rmsem", "done"}

TypeOK == /\ flag \in {1, 2} /\ order \in {"senderFirst", "receiverFirst"}
          /\ pc \in [Procs -> SenderAt \cup ReceiverAt]
          /\ S \in SenderAt /\ R \in ReceiverAt
          /\ sem \in {None} \cup [empty : Nat, full : Nat]
          /\ k \in 0 .. Len(Script) /\ rcvd \in Seq(Text)
          /\ rbuf \in [1 .. 2 -> Text] /\ shm \in {None} \cup [1 .. 2 -> Text]

(* One program waits at its start until the other is set up. *)
Launched == /\ order = "senderFirst" /\ S \in Setup => R = "start"
            /\ order = "receiverFirst" /\ R \in Setup => S = "start"
            /\ R \in {"set0", "set1"} => S = "start"

(* The set is there when it is used, and full is 0 until the sender is set up. *)
SetUp == /\ S \notin {"start", "semget"} /\ R # "done" => sem # None
         /\ R \notin {"start", "semget", "done"} => sem # None
         /\ S \in Setup => /\ R \in Setup \cup {"P"} /\ k = 0 /\ rcvd = <<>>
                           /\ sem # None => sem.full = 0
         /\ S = "set1" => sem.empty = 1

SHas == IF S \in {"put", "put2", "V"} THEN 1 ELSE 0
SFull == IF S = "V" THEN 1 ELSE 0
RHas == IF R \in {"get", "get2", "V"} THEN 1 ELSE 0

Accounts ==
  /\ S \notin Setup /\ sem # None => /\ sem.empty + sem.full + SHas + RHas = 1
                                     /\ k = Len(rcvd) + SFull + sem.full + RHas
  /\ S \in {"P", "put", "put2"} => k < Len(Script)
  /\ S = "done" => k = Len(Script)
  /\ R \in {"rmid", "rmsem", "done"} => S = "done" /\ Len(rcvd) = Len(Script)

(* A message is in the slot that the receiver has not taken out. *)
Waiting == S = "V" \/ sem.full = 1 \/ R \in {"get", "get2"}

Queued == /\ flag = 2 => queue = None
          /\ flag = 1 => /\ R # "rmsem"
                         /\ R = "done" => queue = None
                         /\ S = "start" => queue \in {None, <<>>}
                         /\ S \in {"semget", "set0", "set1"} => queue = <<>>
                         /\ S \notin Setup /\ R # "done"
                              => queue = IF Waiting THEN <<Script[k]>> ELSE <<>>

Shared == /\ flag = 1 => shm = None
          /\ flag = 2 => /\ R \in {"rmsem", "done"} => shm = None
                         /\ S # "start" /\ R \notin {"rmsem", "done"} => shm # None
                         /\ S \notin Setup /\ R # "done" /\ Waiting => shm[1] = Script[k]
                         /\ S = "put2" => shm[1] = Script[k + 1]

Received == /\ R \in {"get2", "V"} => rbuf[1] = Script[k]
            /\ \A j \in 1 .. Len(rcvd) : rcvd[j] = Script[j]

IInv == TypeOK /\ Launched /\ SetUp /\ Accounts /\ Queued /\ Shared /\ Received
-----------------------------------------------------------------------------
(* The script is the file and the end marker, which is nowhere else in it. *)
LEMMA Scripted ==
  ASSUME Assumed
  PROVE  /\ Script \in Seq(Text) /\ Len(Script) \in Nat \ {0}
         /\ \A j \in 1 .. Len(Script) : /\ Script[j] \in Text
                                        /\ Script[j] = Exit <=> j = Len(Script)
<1>1. File \in Seq(Text) /\ Exit \in Text
  BY MailboxAssumption DEF Text
<1>2. /\ Script \in Seq(Text) /\ Len(Script) = Len(File) + 1
      /\ \A j \in 1 .. Len(File) : Script[j] = File[j]
      /\ Script[Len(File) + 1] = Exit
  BY <1>1, AppendProperties DEF Script
<1>3. \A j \in 1 .. Len(File) : File[j] \in Text /\ File[j] # Exit
  BY <1>1, ElementOfSeq, LenProperties DEF Assumed
<1>4. Len(File) \in Nat /\ Len(Script) \in Nat \ {0}
  BY <1>1, <1>2, LenProperties
<1>5. ASSUME NEW j \in 1 .. Len(Script)
      PROVE  Script[j] \in Text /\ (Script[j] = Exit <=> j = Len(Script))
  <2>1. j \in 1 .. Len(File) \/ j = Len(File) + 1
    BY <1>2, <1>4
  <2> QED
    BY <2>1, <1>1, <1>2, <1>3, <1>4
<1> QED
  BY <1>2, <1>4, <1>5

(* Nothing the kernel hands out is None. *)
LEMMA Objects ==
  /\ None \notin [empty : Nat, full : Nat] /\ None \notin [1 .. 2 -> Text]
  /\ <<>> # None /\ \A m \in Text : <<m>> # None
  /\ \A m \in Text : <<m, m>> \in [1 .. 2 -> Text]
  /\ Blank \in Text /\ None \notin Text
<1>1. ASSUME NEW m \in Text
      PROVE  <<m>> \in Seq(Text) /\ <<m, m>> \in [1 .. 2 -> Text]
  <2>1. <<m>> \in Seq(Text)
    OBVIOUS
  <2>2. <<m, m>> \in [1 .. 2 -> Text]
    OBVIOUS
  <2> QED
    BY <2>1, <2>2
<1>2. ASSUME NEW s \in [1 .. 2 -> Text]
      PROVE  s \in Seq(Text)
  <2>1. s = <<s[1], s[2]>> /\ s[1] \in Text /\ s[2] \in Text
    OBVIOUS
  <2>2. <<s[1], s[2]>> \in Seq(Text)
    BY <2>1
  <2> QED
    BY <2>1, <2>2
<1>3. <<>> \in Seq(Text)
  BY EmptySeq
<1>4. /\ None \notin [empty : Nat, full : Nat] /\ None \notin Seq(Text)
      /\ Blank \in Text /\ None \notin Text
  BY MailboxAssumption DEF Text
<1> QED
  BY <1>1, <1>2, <1>3, <1>4

(* A step of one program leaves the other where it is. *)
LEMMA Moves ==
  ASSUME TypeOK, NEW l \in SenderAt \cup ReceiverAt
  PROVE  /\ Goto("sender", l) => S' = l /\ R' = R
         /\ Goto("receiver", l) => R' = l /\ S' = S
         /\ Goto("sender", l) \/ Goto("receiver", l)
              => pc' \in [Procs -> SenderAt \cup ReceiverAt]
  BY DEF TypeOK, Goto, S, R, Procs

LEMMA InitIInv ==
  ASSUME Assumed, Init
  PROVE  IInv
<1>1. Procs = {"sender", "receiver"} /\ "sender" # "receiver"
  BY DEF Procs
<1>2. S = "start" /\ R = "start" /\ pc \in [Procs -> SenderAt \cup ReceiverAt]
  BY <1>1 DEF Init, S, R, SenderAt, Setup
<1>3. /\ sem = None /\ queue = None /\ shm = None /\ k = 0 /\ rcvd = <<>>
      /\ rbuf = <<Blank, Blank>> /\ flag \in {1, 2}
      /\ order \in {"senderFirst", "receiverFirst"}
  BY MailboxAssumption DEF Init, Assumed
<1>4. /\ rbuf \in [1 .. 2 -> Text] /\ rcvd \in Seq(Text) /\ Len(rcvd) = 0
      /\ k \in 0 .. Len(Script)
  BY <1>3, Objects, Scripted, EmptySeq
<1>5. TypeOK
  BY <1>2, <1>3, <1>4 DEF TypeOK, SenderAt, ReceiverAt, Setup
<1>6. Launched /\ SetUp /\ Accounts
  BY <1>2, <1>3, <1>4 DEF Launched, SetUp, Accounts, Setup
<1>7. Queued /\ Shared /\ Received
  BY <1>2, <1>3, <1>4 DEF Queued, Shared, Received, Setup
<1> QED
  BY <1>5, <1>6, <1>7 DEF IInv

(* What the one token says once the sender is set up. *)
LEMMA Slotted ==
  ASSUME Assumed, IInv, S \notin Setup, R # "done"
  PROVE  /\ sem # None /\ sem \in [empty : Nat, full : Nat]
         /\ sem.empty \in Nat /\ sem.full \in Nat
         /\ S \in {"put", "put2", "V"}
              => sem.full = 0 /\ sem.empty = 0 /\ R \notin {"get", "get2", "V"}
         /\ R \in {"get", "get2", "V"}
              => sem.full = 0 /\ sem.empty = 0 /\ S \notin {"put", "put2", "V"}
         /\ S = "P" => k + 1 \in 1 .. Len(Script)
         /\ S \in {"put", "put2"} => k + 1 \in 1 .. Len(Script) /\ ~Waiting
         /\ Waiting \/ R = "V" => k \in 1 .. Len(Script) /\ k = Len(rcvd) + 1
         /\ flag = 1 => queue = IF Waiting THEN <<Script[k]>> ELSE <<>>
         /\ flag = 1 => queue # None
<1>1. /\ sem # None /\ sem \in [empty : Nat, full : Nat]
      /\ sem.empty \in Nat /\ sem.full \in Nat
  BY DEF IInv, TypeOK, SetUp, Setup
<1>2. /\ sem.empty + sem.full + SHas + RHas = 1
      /\ k = Len(rcvd) + SFull + sem.full + RHas
      /\ S \in {"P", "put", "put2"} => k < Len(Script)
      /\ k \in 0 .. Len(Script) /\ Len(rcvd) \in Nat /\ Len(Script) \in Nat
  BY <1>1, Scripted, LenProperties DEF IInv, TypeOK, Accounts
<1>3. /\ S \in {"put", "put2", "V"}
           => sem.full = 0 /\ sem.empty = 0 /\ R \notin {"get", "get2", "V"}
      /\ R \in {"get", "get2", "V"}
           => sem.full = 0 /\ sem.empty = 0 /\ S \notin {"put", "put2", "V"}
  BY <1>1, <1>2 DEF SHas, RHas
<1>4. /\ S \in {"P", "put", "put2"} => k + 1 \in 1 .. Len(Script)
      /\ S \in {"put", "put2"} => ~Waiting
      /\ Waiting \/ R = "V" => k \in 1 .. Len(Script) /\ k = Len(rcvd) + 1
  BY <1>1, <1>2, <1>3 DEF Waiting, SFull, SHas, RHas
<1>5. flag = 1 => queue = IF Waiting THEN <<Script[k]>> ELSE <<>>
  BY DEF IInv, Queued
<1>6. flag = 1 => queue # None
  BY <1>4, <1>5, Scripted, Objects
<1> QED
  BY <1>1, <1>3, <1>4, <1>5, <1>6

(* The receiver leaves its loop only after the sender has ended. *)
LEMMA Ending ==
  ASSUME IInv, R \in {"rmid", "rmsem", "done"}
  PROVE  S = "done"
  BY DEF IInv, Accounts
-----------------------------------------------------------------------------
(* The steps of the two programs, one lemma each. *)

(* The sender gets its storage; a segment it finds is cleared. *)
LEMMA SenderStorage ==
  ASSUME Assumed, IInv, GetStorage("sender")
  PROVE  IInv'
<1>1. S = "start" /\ S' = "semget" /\ R' = R
  BY Moves DEF IInv, GetStorage, At, Setup, SenderAt, S
<1>2. /\ order = "receiverFirst" => R \notin Setup
      /\ flag = 1 => queue' = (IF queue = None THEN <<>> ELSE queue) /\ shm' = shm
      /\ flag = 2 => shm' = <<Blank, Blank>> /\ queue' = queue
      /\ sem' = sem /\ k' = k /\ rbuf' = rbuf /\ rcvd' = rcvd
      /\ flag' = flag /\ order' = order
  BY DEF R, GetStorage, MayStart, env
<1>3. pc' \in [Procs -> SenderAt \cup ReceiverAt]
  BY DEF IInv, TypeOK, Goto, GetStorage, Setup, SenderAt
<1>4. TypeOK'
  BY <1>1, <1>2, <1>3, Objects DEF IInv, TypeOK, Setup, SenderAt
<1>5. Launched' /\ SetUp'
  BY <1>1, <1>2 DEF IInv, TypeOK, Launched, SetUp, SenderAt
<1>6. Accounts'
  BY <1>1 DEF IInv, Accounts, Setup
<1>7. Queued'
  BY <1>1, <1>2 DEF IInv, SetUp, Queued, Setup
<1>8. Shared'
  BY <1>1, <1>2, Objects DEF IInv, SetUp, Shared, Setup
<1>9. Received'
  BY <1>1, <1>2 DEF IInv, Received
<1> QED
  BY <1>4, <1>5, <1>6, <1>7, <1>8, <1>9 DEF IInv

(* The receiver gets its storage. *)
LEMMA ReceiverStorage ==
  ASSUME Assumed, IInv, GetStorage("receiver")
  PROVE  IInv'
<1>1. R = "start" /\ R' = "semget" /\ S' = S
  BY Moves DEF IInv, GetStorage, At, Setup, SenderAt, R
<1>2. /\ order = "senderFirst" => S \notin Setup
      /\ flag = 1 => queue' = (IF queue = None THEN <<>> ELSE queue) /\ shm' = shm
      /\ flag = 2 => shm' = (IF shm = None THEN <<Blank, Blank>> ELSE shm) /\ queue' = queue
      /\ sem' = sem /\ k' = k /\ rbuf' = rbuf /\ rcvd' = rcvd
      /\ flag' = flag /\ order' = order
  BY DEF S, GetStorage, MayStart, env
<1>3. pc' \in [Procs -> SenderAt \cup ReceiverAt]
  BY DEF IInv, TypeOK, Goto, GetStorage, Setup, SenderAt
<1>4. TypeOK'
  BY <1>1, <1>2, <1>3, Objects DEF IInv, TypeOK, Setup, ReceiverAt
<1>5. Launched' /\ SetUp'
  BY <1>1, <1>2 DEF IInv, Launched, SetUp, Setup
<1>6. Accounts'
  BY <1>1, <1>2 DEF IInv, Accounts, SHas, SFull, RHas
<1>7. Queued'
  BY <1>1, <1>2, Slotted DEF IInv, Queued, Waiting
<1>8. Shared'
  BY <1>1, <1>2 DEF IInv, Shared, Waiting, Setup
<1>9. Received'
  BY <1>1, <1>2 DEF IInv, Received
<1> QED
  BY <1>4, <1>5, <1>6, <1>7, <1>8, <1>9 DEF IInv

(* The sender takes the set there is or creates it. *)
LEMMA SenderSemget ==
  ASSUME Assumed, IInv, Semget("sender")
  PROVE  IInv'
<1>1. S = "semget" /\ S' = "set0" /\ R' = R
  BY Moves DEF IInv, Semget, At, Setup, SenderAt, S
<1>2. /\ sem' = (IF sem = None THEN [empty |-> 0, full |-> 0] ELSE sem)
      /\ queue' = queue /\ shm' = shm /\ k' = k /\ rbuf' = rbuf /\ rcvd' = rcvd
      /\ flag' = flag /\ order' = order
  BY DEF Semget, env
<1>3. pc' \in [Procs -> SenderAt \cup ReceiverAt]
  BY DEF IInv, TypeOK, Goto, Semget, Setup, SenderAt
<1>4. TypeOK'
  BY <1>1, <1>2, <1>3 DEF IInv, TypeOK, Setup, SenderAt
<1>5. Launched' /\ SetUp'
  BY <1>1, <1>2, Objects DEF IInv, Launched, SetUp, Setup
<1>6. Accounts'
  BY <1>1 DEF IInv, Accounts, Setup
<1>7. Queued'
  BY <1>1, <1>2 DEF IInv, Queued, Setup
<1>8. Shared'
  BY <1>1, <1>2 DEF IInv, Shared, Setup
<1>9. Received'
  BY <1>1, <1>2 DEF IInv, Received
<1> QED
  BY <1>4, <1>5, <1>6, <1>7, <1>8, <1>9 DEF IInv

(* The receiver takes the set there is, or creates it and has to initialise it. *)
LEMMA ReceiverSemget ==
  ASSUME Assumed, IInv, Semget("receiver")
  PROVE  IInv'
<1>1. R = "semget" /\ R' = (IF sem = None THEN "set0" ELSE "P") /\ S' = S
  BY Moves DEF IInv, Semget, At, Setup, SenderAt, R
<1>2. /\ sem' = (IF sem = None THEN [empty |-> 0, full |-> 0] ELSE sem)
      /\ queue' = queue /\ shm' = shm /\ k' = k /\ rbuf' = rbuf /\ rcvd' = rcvd
      /\ flag' = flag /\ order' = order
  BY DEF Semget, env
<1>3. pc' \in [Procs -> SenderAt \cup ReceiverAt]
  BY DEF IInv, TypeOK, Goto, Semget, Setup, SenderAt
<1>4. TypeOK'
  BY <1>1, <1>2, <1>3 DEF IInv, TypeOK, Setup, ReceiverAt
<1>5. Launched' /\ SetUp'
  BY <1>1, <1>2, Objects DEF IInv, TypeOK, Launched, SetUp, Setup
<1>6. Accounts'
  BY <1>1, <1>2 DEF IInv, SetUp, Accounts, SHas, SFull, RHas, Setup
<1>7. Queued'
  BY <1>1, <1>2 DEF IInv, SetUp, Queued, Waiting, Setup
<1>8. Shared'
  BY <1>1, <1>2 DEF IInv, Shared, Waiting
<1>9. Received'
  BY <1>1, <1>2 DEF IInv, Received
<1> QED
  BY <1>4, <1>5, <1>6, <1>7, <1>8, <1>9 DEF IInv

(* The sender sets empty to 1. *)
LEMMA SenderSetEmpty ==
  ASSUME Assumed, IInv, SetEmpty("sender")
  PROVE  IInv'
<1>1. S = "set0" /\ S' = "set1" /\ R' = R /\ sem # None
  BY Moves DEF IInv, SetUp, SetEmpty, SetVal, At, Setup, SenderAt, S
<1>2. /\ sem' = [sem EXCEPT !["empty"] = 1]
      /\ queue' = queue /\ shm' = shm /\ k' = k /\ rbuf' = rbuf /\ rcvd' = rcvd
      /\ flag' = flag /\ order' = order
  BY <1>1 DEF SetEmpty, SetVal, env
<1>3. pc' \in [Procs -> SenderAt \cup ReceiverAt]
  BY <1>1 DEF IInv, TypeOK, Goto, SetEmpty, SetVal, Setup, SenderAt
<1>4. TypeOK'
  BY <1>1, <1>2, <1>3 DEF IInv, TypeOK, Setup, SenderAt
<1>5. Launched' /\ SetUp'
  BY <1>1, <1>2, Objects DEF IInv, TypeOK, Launched, SetUp, SenderAt
<1>6. Accounts'
  BY <1>1 DEF IInv, Accounts, Setup
<1>7. Queued'
  BY <1>1, <1>2 DEF IInv, Queued, Setup
<1>8. Shared'
  BY <1>1, <1>2 DEF IInv, Shared, Setup
<1>9. Received'
  BY <1>1, <1>2 DEF IInv, Received
<1> QED
  BY <1>4, <1>5, <1>6, <1>7, <1>8, <1>9 DEF IInv

(* The sender sets full to 0. *)
LEMMA SenderSetFull ==
  ASSUME Assumed, IInv, SetFull("sender")
  PROVE  IInv'
<1>1. S = "set1" /\ S' = "P" /\ R' = R /\ sem # None
  BY Moves DEF IInv, SetUp, SetFull, SetVal, At, Setup, SenderAt, S
<1>2. /\ sem' = [sem EXCEPT !["full"] = 0]
      /\ queue' = queue /\ shm' = shm /\ k' = k /\ rbuf' = rbuf /\ rcvd' = rcvd
      /\ flag' = flag /\ order' = order
  BY <1>1 DEF SetFull, SetVal, env
<1>3. pc' \in [Procs -> SenderAt \cup ReceiverAt]
  BY <1>1 DEF IInv, TypeOK, Goto, SetFull, SetVal, SenderAt
<1>4. TypeOK'
  BY <1>1, <1>2, <1>3 DEF IInv, TypeOK, SenderAt
<1>5. Launched' /\ SetUp'
  BY <1>1, <1>2 DEF IInv, TypeOK, Launched, SetUp, SenderAt
<1>6. Accounts'
  BY <1>1, <1>2, Scripted DEF IInv, SetUp, Accounts, SHas, SFull, RHas, Setup
<1>7. Queued'
  BY <1>1, <1>2 DEF IInv, SetUp, Queued, Waiting, Setup
<1>8. Shared'
  BY <1>1, <1>2 DEF IInv, SetUp, Shared, Waiting, Setup
<1>9. Received'
  BY <1>1, <1>2 DEF IInv, Received
<1> QED
  BY <1>4, <1>5, <1>6, <1>7, <1>8, <1>9 DEF IInv

(* The receiver sets empty to 1. *)
LEMMA ReceiverSetEmpty ==
  ASSUME Assumed, IInv, SetEmpty("receiver")
  PROVE  IInv'
<1>1. R = "set0" /\ R' = "set1" /\ S' = S /\ sem # None
  BY Moves DEF IInv, SetUp, SetEmpty, SetVal, At, Setup, SenderAt, R
<1>2. /\ sem' = [sem EXCEPT !["empty"] = 1]
      /\ queue' = queue /\ shm' = shm /\ k' = k /\ rbuf' = rbuf /\ rcvd' = rcvd
      /\ flag' = flag /\ order' = order
  BY <1>1 DEF SetEmpty, SetVal, env
<1>3. pc' \in [Procs -> SenderAt \cup ReceiverAt]
  BY <1>1 DEF IInv, TypeOK, Goto, SetEmpty, SetVal, Setup, SenderAt
<1>4. TypeOK'
  BY <1>1, <1>2, <1>3 DEF IInv, TypeOK, Setup, ReceiverAt
<1>5. Launched' /\ SetUp'
  BY <1>1, <1>2, Objects DEF IInv, TypeOK, Launched, SetUp, Setup
<1>6. Accounts'
  BY <1>1 DEF IInv, Launched, Accounts, Setup
<1>7. Queued'
  BY <1>1, <1>2 DEF IInv, Queued, Waiting
<1>8. Shared'
  BY <1>1, <1>2 DEF IInv, Shared, Waiting
<1>9. Received'
  BY <1>1, <1>2 DEF IInv, Received
<1> QED
  BY <1>4, <1>5, <1>6, <1>7, <1>8, <1>9 DEF IInv

(* The receiver sets full to 0. *)
LEMMA ReceiverSetFull ==
  ASSUME Assumed, IInv, SetFull("receiver")
  PROVE  IInv'
<1>1. R = "set1" /\ R' = "P" /\ S' = S /\ sem # None
  BY Moves DEF IInv, SetUp, SetFull, SetVal, At, SenderAt, R
<1>2. /\ sem' = [sem EXCEPT !["full"] = 0]
      /\ queue' = queue /\ shm' = shm /\ k' = k /\ rbuf' = rbuf /\ rcvd' = rcvd
      /\ flag' = flag /\ order' = order
  BY <1>1 DEF SetFull, SetVal, env
<1>3. pc' \in [Procs -> SenderAt \cup ReceiverAt]
  BY <1>1 DEF IInv, TypeOK, Goto, SetFull, SetVal, SenderAt
<1>4. TypeOK'
  BY <1>1, <1>2, <1>3 DEF IInv, TypeOK, ReceiverAt
<1>5. Launched' /\ SetUp'
  BY <1>1, <1>2 DEF IInv, TypeOK, Launched, SetUp, SenderAt
<1>6. Accounts'
  BY <1>1 DEF IInv, Launched, Accounts, Setup
<1>7. Queued'
  BY <1>1, <1>2 DEF IInv, Launched, Queued, Setup
<1>8. Shared'
  BY <1>1, <1>2 DEF IInv, Shared, Waiting
<1>9. Received'
  BY <1>1, <1>2 DEF IInv, Received
<1> QED
  BY <1>4, <1>5, <1>6, <1>7, <1>8, <1>9 DEF IInv

(* P(empty). *)
LEMMA Acquire ==
  ASSUME Assumed, IInv, PEmpty
  PROVE  IInv'
<1>1. S = "P" /\ S' = "put" /\ R' = R /\ sem # None
  BY Moves, Slotted, Ending DEF IInv, PEmpty, P, At, Setup, SenderAt, S
<1>2. /\ sem.empty > 0 /\ sem' = [sem EXCEPT !["empty"] = sem["empty"] - 1]
      /\ queue' = queue /\ shm' = shm /\ k' = k /\ rbuf' = rbuf /\ rcvd' = rcvd
      /\ flag' = flag /\ order' = order
  BY <1>1 DEF PEmpty, P, env
<1>3. pc' \in [Procs -> SenderAt \cup ReceiverAt]
  BY <1>1 DEF IInv, TypeOK, Goto, PEmpty, P, SenderAt
<1>4. TypeOK'
  BY <1>1, <1>2, <1>3 DEF IInv, TypeOK, SenderAt
<1>5. Launched' /\ SetUp'
  BY <1>1, <1>2, Objects DEF IInv, TypeOK, Launched, SetUp, Setup
<1>6. Accounts'
  BY <1>1, <1>2 DEF IInv, TypeOK, Accounts, SHas, SFull, RHas, Setup
<1>7. Queued'
  BY <1>1, <1>2 DEF IInv, Queued, Waiting, Setup
<1>8. Shared'
  BY <1>1, <1>2 DEF IInv, Shared, Waiting, Setup
<1>9. Received'
  BY <1>1, <1>2 DEF IInv, Received
<1> QED
  BY <1>4, <1>5, <1>6, <1>7, <1>8, <1>9 DEF IInv

(* msgsnd. *)
LEMMA Enqueue ==
  ASSUME Assumed, IInv, Msgsnd
  PROVE  IInv'
<1>1. S = "put" /\ S' = "V" /\ R' = R
  BY Moves, Slotted, Ending DEF IInv, Msgsnd, At, Setup, SenderAt, S
<1>2. /\ flag = 1 /\ queue' = <<Script[k + 1]>> /\ k' = k + 1
      /\ sem' = sem /\ shm' = shm /\ rbuf' = rbuf /\ rcvd' = rcvd
      /\ flag' = flag /\ order' = order
  BY <1>1, Slotted, Ending DEF Msgsnd, env, Setup
<1>3. pc' \in [Procs -> SenderAt \cup ReceiverAt]
  BY <1>1 DEF IInv, TypeOK, Goto, Msgsnd, SenderAt, S
<1>4. TypeOK'
  BY <1>1, <1>2, <1>3 DEF IInv, TypeOK, Accounts, SenderAt
<1>5. Launched' /\ SetUp'
  BY <1>1, <1>2 DEF IInv, Launched, SetUp, Setup
<1>6. Accounts'
  BY <1>1, <1>2 DEF IInv, TypeOK, Accounts, SHas, SFull, RHas, Setup
<1>7. Queued'
  BY <1>1, <1>2 DEF IInv, Accounts, Queued, Waiting
<1>8. Shared'
  BY <1>2 DEF IInv, Shared
<1>9. Received'
  BY <1>1, <1>2 DEF IInv, TypeOK, SetUp, Accounts, SHas, RHas, Received, Setup
<1> QED
  BY <1>4, <1>5, <1>6, <1>7, <1>8, <1>9 DEF IInv

(* The first half of the copy into the segment. *)
LEMMA CopyIn1 ==
  ASSUME Assumed, IInv, StrncpyIn("put", 1, "put2")
  PROVE  IInv'
<1>1. S = "put" /\ S' = "put2" /\ R' = R
  BY Moves DEF IInv, StrncpyIn, At, SenderAt, S
<1>2. /\ flag = 2 /\ shm # None /\ shm' = [shm EXCEPT ![1] = Script[k + 1]] /\ k' = k
      /\ sem' = sem /\ queue' = queue /\ rbuf' = rbuf /\ rcvd' = rcvd
      /\ flag' = flag /\ order' = order
  BY <1>1, Ending DEF IInv, Shared, StrncpyIn, env
<1>3. pc' \in [Procs -> SenderAt \cup ReceiverAt]
  BY DEF IInv, TypeOK, Goto, StrncpyIn, SenderAt
<1>4. TypeOK'
  BY <1>1, <1>2, <1>3, Scripted DEF IInv, TypeOK, Accounts, SenderAt
<1>5. Launched' /\ SetUp'
  BY <1>1, <1>2 DEF IInv, Launched, SetUp, Setup
<1>6. Accounts'
  BY <1>1, <1>2 DEF IInv, Accounts, SHas, SFull, RHas, Setup
<1>7. Queued'
  BY <1>2 DEF IInv, Queued
<1>8. Shared'
  BY <1>1, <1>2, Slotted, Scripted, Objects
     DEF IInv, TypeOK, Shared, Waiting, Setup, SenderAt, ReceiverAt
<1>9. Received'
  BY <1>1, <1>2 DEF IInv, Received
<1> QED
  BY <1>4, <1>5, <1>6, <1>7, <1>8, <1>9 DEF IInv

(* The second half of the copy into the segment. *)
LEMMA CopyIn2 ==
  ASSUME Assumed, IInv, StrncpyIn("put2", 2, "V")
  PROVE  IInv'
<1>1. S = "put2" /\ S' = "V" /\ R' = R
  BY Moves DEF IInv, StrncpyIn, At, SenderAt, S
<1>2. /\ flag = 2 /\ shm # None /\ shm' = [shm EXCEPT ![2] = Script[k + 1]] /\ k' = k + 1
      /\ sem' = sem /\ queue' = queue /\ rbuf' = rbuf /\ rcvd' = rcvd
      /\ flag' = flag /\ order' = order
  BY <1>1, Ending DEF IInv, Shared, StrncpyIn, env
<1>3. pc' \in [Procs -> SenderAt \cup ReceiverAt]
  BY DEF IInv, TypeOK, Goto, StrncpyIn, SenderAt
<1>4. TypeOK'
  BY <1>1, <1>2, <1>3, Scripted DEF IInv, TypeOK, Accounts, SenderAt
<1>5. Launched' /\ SetUp'
  BY <1>1, <1>2 DEF IInv, Launched, SetUp, Setup
<1>6. Accounts'
  BY <1>1, <1>2 DEF IInv, TypeOK, Accounts, SHas, SFull, RHas, Setup
<1>7. Queued'
  BY <1>2 DEF IInv, Queued
<1>8. Shared'
  BY <1>1, <1>2, Objects DEF IInv, TypeOK, Shared
<1>9. Received'
  BY <1>1, <1>2 DEF IInv, TypeOK, SetUp, Accounts, SHas, RHas, Received, Setup
<1> QED
  BY <1>4, <1>5, <1>6, <1>7, <1>8, <1>9 DEF IInv

(* V(full), after which the sender has ended or goes on with the next line. *)
LEMMA Fill ==
  ASSUME Assumed, IInv, VFull
  PROVE  IInv'
<1>1. S = "V" /\ S' = (IF k = Len(Script) THEN "done" ELSE "P") /\ R' = R /\ sem # None
  BY Moves, Slotted, Ending DEF IInv, VFull, V, At, Setup, SenderAt, S
<1>2. /\ sem' = [sem EXCEPT !["full"] = sem["full"] + 1]
      /\ queue' = queue /\ shm' = shm /\ k' = k /\ rbuf' = rbuf /\ rcvd' = rcvd
      /\ flag' = flag /\ order' = order
  BY <1>1 DEF VFull, V, env
<1>3. pc' \in [Procs -> SenderAt \cup ReceiverAt]
  BY <1>1 DEF IInv, TypeOK, Goto, VFull, V, SenderAt
<1>4. TypeOK'
  BY <1>1, <1>2, <1>3 DEF IInv, TypeOK, SenderAt
<1>5. Launched' /\ SetUp'
  BY <1>1, <1>2, Objects DEF IInv, TypeOK, Launched, SetUp, Setup
<1>6. Accounts'
  BY <1>1, <1>2 DEF IInv, TypeOK, Accounts, SHas, SFull, RHas, Setup
<1>7. Queued'
  BY <1>1, <1>2 DEF IInv, TypeOK, Accounts, SHas, RHas, Queued, Waiting, Setup
<1>8. Shared'
  BY <1>1, <1>2 DEF IInv, Shared, Waiting, Setup
<1>9. Received'
  BY <1>1, <1>2 DEF IInv, Received
<1> QED
  BY <1>4, <1>5, <1>6, <1>7, <1>8, <1>9 DEF IInv

(* P(full). *)
LEMMA Await ==
  ASSUME Assumed, IInv, PFull
  PROVE  IInv'
<1>1. R = "P" /\ R' = "get" /\ S' = S /\ sem # None
  BY Moves DEF IInv, SetUp, PFull, P, At, ReceiverAt, R
<1>2. /\ sem.full > 0 /\ sem' = [sem EXCEPT !["full"] = sem["full"] - 1]
      /\ queue' = queue /\ shm' = shm /\ k' = k /\ rbuf' = rbuf /\ rcvd' = rcvd
      /\ flag' = flag /\ order' = order
  BY <1>1 DEF PFull, P, env
<1>3. pc' \in [Procs -> SenderAt \cup ReceiverAt]
  BY <1>1 DEF IInv, TypeOK, Goto, PFull, P, ReceiverAt
<1>4. TypeOK'
  BY <1>1, <1>2, <1>3 DEF IInv, TypeOK, ReceiverAt
<1>5. Launched' /\ SetUp'
  BY <1>1, <1>2, Objects DEF IInv, TypeOK, Launched, SetUp, Setup
<1>6. Accounts'
  BY <1>1, <1>2 DEF IInv, TypeOK, Accounts, SHas, SFull, RHas
<1>7. Queued'
  BY <1>1, <1>2 DEF IInv, TypeOK, Accounts, SHas, RHas, Queued, Waiting
<1>8. Shared'
  BY <1>1, <1>2 DEF IInv, TypeOK, Accounts, SHas, RHas, Shared, Waiting
<1>9. Received'
  BY <1>1, <1>2 DEF IInv, Received
<1> QED
  BY <1>4, <1>5, <1>6, <1>7, <1>8, <1>9 DEF IInv

(* msgrcv. *)
LEMMA Dequeue ==
  ASSUME Assumed, IInv, Msgrcv
  PROVE  IInv'
<1>1. R = "get" /\ R' = "V" /\ S' = S
  BY Moves DEF IInv, Msgrcv, At, SenderAt, R
<1>2. /\ flag = 1 /\ queue # None /\ queue # <<>>
      /\ rbuf' = <<Head(queue), Head(queue)>> /\ queue' = Tail(queue)
      /\ sem' = sem /\ shm' = shm /\ k' = k /\ rcvd' = rcvd
      /\ flag' = flag /\ order' = order
  BY DEF Msgrcv, env
<1>msg. /\ k \in 1 .. Len(Script) /\ Script[k] \in Text
      /\ queue' = <<>> /\ rbuf' = <<Script[k], Script[k]>>
      /\ S \notin Setup
  <2>1. S \notin Setup
    BY <1>1 DEF IInv, SetUp, Setup
  <2>2. k \in 1 .. Len(Script) /\ queue = <<Script[k]>>
    BY <1>1, <1>2, <2>1, Slotted 
  <2>3. Script[k] \in Text
    BY <2>2, Scripted
  <2>4. Head(<<Script[k]>>) = Script[k] /\ Tail(<<Script[k]>>) = <<>>
    OBVIOUS
  <2> QED
    BY <1>2, <2>1, <2>2, <2>3, <2>4
<1>3. pc' \in [Procs -> SenderAt \cup ReceiverAt]
  BY DEF IInv, TypeOK, Goto, Msgrcv, SenderAt
<1>4. TypeOK'
  BY <1>1, <1>2, <1>3, <1>msg DEF IInv, TypeOK, ReceiverAt
<1>5. Launched' /\ SetUp'
  BY <1>1, <1>2 DEF IInv, Launched, SetUp, Setup
<1>6. Accounts'
  BY <1>1, <1>2 DEF IInv, Accounts, SHas, SFull, RHas
<1>7. Queued'
  BY <1>1, <1>2, <1>msg, Slotted DEF Queued, Waiting
<1>8. Shared'
  BY <1>2 DEF IInv, Shared
<1>9. Received'
  BY <1>2, <1>msg DEF IInv, Received
<1> QED
  BY <1>4, <1>5, <1>6, <1>7, <1>8, <1>9 DEF IInv

(* The first half of the copy out of the segment. *)
LEMMA CopyOut1 ==
  ASSUME Assumed, IInv, StrncpyOut("get", 1, "get2")
  PROVE  IInv'
<1>1. R = "get" /\ R' = "get2" /\ S' = S
  BY Moves DEF IInv, StrncpyOut, At, ReceiverAt, R
<1>2. /\ flag = 2 /\ shm # None /\ rbuf' = [rbuf EXCEPT ![1] = shm[1]]
      /\ sem' = sem /\ queue' = queue /\ shm' = shm /\ k' = k /\ rcvd' = rcvd
      /\ flag' = flag /\ order' = order
  BY DEF StrncpyOut, ipc, env
<1>msg. rbuf'[1] = Script[k]
  BY <1>1, <1>2 DEF IInv, TypeOK, SetUp, Shared, Waiting, Setup
<1>3. pc' \in [Procs -> SenderAt \cup ReceiverAt]
  BY DEF IInv, TypeOK, Goto, StrncpyOut, ReceiverAt
<1>4. TypeOK'
  BY <1>1, <1>2, <1>3 DEF IInv, TypeOK, ReceiverAt
<1>5. Launched' /\ SetUp'
  BY <1>1, <1>2 DEF IInv, Launched, SetUp, Setup
<1>6. Accounts'
  BY <1>1, <1>2 DEF IInv, Accounts, SHas, SFull, RHas
<1>7. Queued'
  BY <1>2 DEF IInv, Queued
<1>8. Shared'
  BY <1>1, <1>2 DEF IInv, Shared, Waiting
<1>9. Received'
  BY <1>2, <1>msg DEF IInv, Received
<1> QED
  BY <1>4, <1>5, <1>6, <1>7, <1>8, <1>9 DEF IInv

(* The second half of the copy out of the segment. *)
LEMMA CopyOut2 ==
  ASSUME Assumed, IInv, StrncpyOut("get2", 2, "V")
  PROVE  IInv'
<1>1. R = "get2" /\ R' = "V" /\ S' = S
  BY Moves DEF IInv, StrncpyOut, At, SenderAt, R
<1>2. /\ flag = 2 /\ shm # None /\ rbuf' = [rbuf EXCEPT ![2] = shm[2]]
      /\ sem' = sem /\ queue' = queue /\ shm' = shm /\ k' = k /\ rcvd' = rcvd
      /\ flag' = flag /\ order' = order
  BY DEF StrncpyOut, ipc, env
<1>3. pc' \in [Procs -> SenderAt \cup ReceiverAt]
  BY DEF IInv, TypeOK, Goto, StrncpyOut, SenderAt
<1>4. TypeOK'
  BY <1>1, <1>2, <1>3 DEF IInv, TypeOK, ReceiverAt
<1>5. Launched' /\ SetUp'
  BY <1>1, <1>2 DEF IInv, Launched, SetUp, Setup
<1>6. Accounts'
  BY <1>1, <1>2 DEF IInv, Accounts, SHas, SFull, RHas
<1>7. Queued'
  BY <1>2 DEF IInv, Queued
<1>8. Shared'
  BY <1>1, <1>2 DEF IInv, Shared, Waiting
<1>9. Received'
  BY <1>1, <1>2 DEF IInv, Received
<1> QED
  BY <1>4, <1>5, <1>6, <1>7, <1>8, <1>9 DEF IInv

(* V(empty), and the message is received; the end marker ends the loop. *)
LEMMA Release ==
  ASSUME Assumed, IInv, VEmpty
  PROVE  IInv'
<1>1. R = "V" /\ R' = (IF rbuf[1] = Exit THEN "rmid" ELSE "P") /\ S' = S /\ sem # None
  BY Moves DEF IInv, SetUp, VEmpty, V, At, ReceiverAt, R
<1>2. /\ sem' = [sem EXCEPT !["empty"] = sem["empty"] + 1] /\ rcvd' = Append(rcvd, rbuf[1])
      /\ queue' = queue /\ shm' = shm /\ k' = k /\ rbuf' = rbuf
      /\ flag' = flag /\ order' = order
  BY <1>1 DEF VEmpty, V, env
<1>msg. /\ k \in 1 .. Len(Script) /\ k = Len(rcvd) + 1 /\ Len(rcvd) \in Nat
      /\ rbuf[1] \in Text /\ (rbuf[1] = Exit <=> k = Len(Script))
      /\ Len(rcvd') = k /\ S \notin Setup
      /\ sem' \in [empty : Nat, full : Nat]
      /\ sem.full = 0 /\ sem'.full = 0 /\ sem'.empty = 1 /\ S \in {"P", "done"}
  <2>1. S \notin Setup
    BY <1>1 DEF IInv, SetUp, Setup
  <2>2. /\ k \in 1 .. Len(Script) /\ k = Len(rcvd) + 1
        /\ sem \in [empty : Nat, full : Nat] /\ sem.full = 0 /\ sem.empty = 0
        /\ S \notin {"put", "put2", "V"}
    BY <1>1, <2>1, Slotted
  <2>3. rcvd \in Seq(Text) /\ rbuf[1] = Script[k] /\ S \in SenderAt
    BY <1>1 DEF IInv, TypeOK, Received
  <2>4. rbuf[1] \in Text /\ (rbuf[1] = Exit <=> k = Len(Script))
    BY <2>2, <2>3, Scripted
  <2>5. Len(rcvd) \in Nat /\ Len(rcvd') = k
    BY <1>2, <2>2, <2>3, <2>4, AppendProperties, LenProperties
  <2> QED
    BY <1>2, <2>1, <2>2, <2>3, <2>4, <2>5 DEF SenderAt
<1>3. pc' \in [Procs -> SenderAt \cup ReceiverAt]
  BY <1>1 DEF IInv, TypeOK, Goto, VEmpty, V, ReceiverAt
<1>4. TypeOK'
  BY <1>1, <1>2, <1>3 DEF IInv, TypeOK, Accounts, ReceiverAt
<1>5. Launched' /\ SetUp'
  BY <1>1, <1>2, Objects DEF IInv, TypeOK, Launched, SetUp, Accounts, Setup
<1>6. Accounts'
  BY <1>1, <1>2, <1>msg DEF IInv, Accounts, SHas, SFull, RHas
<1>7. Queued'
  BY <1>1, <1>2 DEF IInv, Queued, Waiting
<1>8. Shared'
  BY <1>1, <1>2 DEF IInv, Shared, Waiting
<1>9. Received'
  <2>1. /\ rcvd \in Seq(Text) /\ rbuf[1] = Script[k] /\ \A j \in 1 .. Len(rcvd) : rcvd[j] = Script[j]
    BY <1>1 DEF IInv, TypeOK, Received
  <2>2. /\ \A j \in 1 .. Len(rcvd) : rcvd'[j] = rcvd[j]
        /\ rcvd'[Len(rcvd) + 1] = rbuf[1]
    BY <1>2, <1>msg, <2>1, AppendProperties
  <2>3. \A j \in 1 .. k : rcvd'[j] = Script[j]
    <3>1. ASSUME NEW j \in 1 .. k PROVE rcvd'[j] = Script[j]
      <4>1. j \in 1 .. Len(rcvd) \/ j = Len(rcvd) + 1
        BY <1>msg
      <4> QED
        BY <1>msg, <2>1, <2>2, <4>1
    <3> QED
      BY <3>1
  <2> QED
    BY <1>1, <1>msg, <2>3 DEF Received
<1> QED
  BY <1>4, <1>5, <1>6, <1>7, <1>8, <1>9 DEF IInv

(* The receiver removes its storage. *)
LEMMA Remove ==
  ASSUME Assumed, IInv, RmStorage
  PROVE  IInv'
<1>1. R = "rmid" /\ R' = (IF flag = 1 THEN "done" ELSE "rmsem") /\ S' = S
  BY Moves DEF IInv, RmStorage, At, ReceiverAt, R
<1>2. /\ flag = 1 => queue' = None /\ shm' = shm
      /\ flag = 2 => shm' = None /\ queue' = queue
      /\ sem' = sem /\ k' = k /\ rbuf' = rbuf /\ rcvd' = rcvd
      /\ flag' = flag /\ order' = order
  BY DEF RmStorage, env
<1>3. pc' \in [Procs -> SenderAt \cup ReceiverAt]
  BY DEF IInv, TypeOK, Goto, RmStorage, ReceiverAt
<1>4. TypeOK'
  BY <1>1, <1>2, <1>3 DEF IInv, TypeOK, ReceiverAt
<1>5. Launched' /\ SetUp'
  BY <1>1, <1>2 DEF IInv, Launched, SetUp, Setup
<1>6. Accounts'
  BY <1>1, <1>2 DEF IInv, Accounts, SHas, SFull, RHas
<1>7. Queued'
  BY <1>1, <1>2 DEF IInv, SetUp, Queued, Setup
<1>8. Shared'
  BY <1>1, <1>2 DEF IInv, SetUp, Accounts, SFull, RHas, Shared, Waiting
<1>9. Received'
  BY <1>1, <1>2 DEF IInv, Received
<1> QED
  BY <1>4, <1>5, <1>6, <1>7, <1>8, <1>9 DEF IInv

(* The receiver removes the semaphore set. *)
LEMMA RemoveSet ==
  ASSUME Assumed, IInv, RmSem
  PROVE  IInv'
<1>1. R = "rmsem" /\ R' = "done" /\ S' = S
  BY Moves DEF IInv, RmSem, At, SenderAt, R
<1>2. /\ sem' = None
      /\ queue' = queue /\ shm' = shm /\ k' = k /\ rbuf' = rbuf /\ rcvd' = rcvd
      /\ flag' = flag /\ order' = order
  BY DEF RmSem, env
<1>3. pc' \in [Procs -> SenderAt \cup ReceiverAt]
  BY DEF IInv, TypeOK, Goto, RmSem, SenderAt
<1>4. TypeOK'
  BY <1>1, <1>2, <1>3 DEF IInv, TypeOK, ReceiverAt
<1>5. Launched' /\ SetUp'
  BY <1>1 DEF IInv, Launched, SetUp, Setup
<1>6. Accounts'
  BY <1>1, <1>2 DEF IInv, Accounts
<1>7. Queued'
  BY <1>1, <1>2 DEF IInv, Queued
<1>8. Shared'
  BY <1>1, <1>2 DEF IInv, Shared
<1>9. Received'
  BY <1>1, <1>2 DEF IInv, Received
<1> QED
  BY <1>4, <1>5, <1>6, <1>7, <1>8, <1>9 DEF IInv

(* The next session finds the storage removed and a set whose full is 0. *)
LEMMA Again ==
  ASSUME Assumed, IInv, NewSession
  PROVE  IInv'
<1>1. S = "done" /\ R = "done"
  BY DEF NewSession, IInv, TypeOK, Over, Procs, SenderAt, ReceiverAt, Setup, S, R
<1>2. S' = "start" /\ R' = "start" /\ pc' \in [Procs -> SenderAt \cup ReceiverAt]
  BY DEF NewSession, Procs, SenderAt, Setup, S, R
<1>3. /\ flag' \in {1, 2} /\ order' \in {"senderFirst", "receiverFirst"}
      /\ k' = 0 /\ rbuf' = <<Blank, Blank>> /\ rcvd' = <<>>
      /\ sem' = sem /\ queue' = queue /\ shm' = shm
  BY MailboxAssumption DEF NewSession, Assumed, ipc
<1>4. queue = None /\ shm = None
  BY <1>1 DEF IInv, TypeOK, Queued, Shared
<1>5. sem # None => sem.full = 0
  <2>1. Len(rcvd) = Len(Script) /\ Len(rcvd) \in Nat
    BY <1>1, LenProperties DEF IInv, Accounts
  <2>2. sem # None => sem.full \in Nat /\ k = Len(rcvd) + SFull + sem.full + RHas
    BY <1>1 DEF IInv, TypeOK, Accounts, Setup
  <2> QED
    BY <1>1, <2>1, <2>2 DEF IInv, Accounts, SFull, RHas
<1>6. /\ rbuf' \in [1 .. 2 -> Text] /\ rcvd' \in Seq(Text) /\ Len(rcvd') = 0
      /\ k' \in 0 .. Len(Script)
  BY <1>3, Objects, Scripted, EmptySeq
<1>7. TypeOK'
  BY <1>2, <1>3, <1>6 DEF IInv, TypeOK, SenderAt, ReceiverAt, Setup
<1>8. Launched' /\ SetUp' /\ Accounts'
  BY <1>2, <1>3, <1>5, <1>6 DEF Launched, SetUp, Accounts, Setup
<1>9. Queued' /\ Shared' /\ Received'
  BY <1>2, <1>3, <1>4, <1>6 DEF Queued, Shared, Received, Setup
<1> QED
  BY <1>7, <1>8, <1>9 DEF IInv

LEMMA NextIInv ==
  ASSUME Assumed, IInv, [Next]_vars
  PROVE  IInv'
<1>1. CASE Sender
  BY <1>1, SenderStorage, SenderSemget, SenderSetEmpty, SenderSetFull, Acquire,
     Enqueue, CopyIn1, CopyIn2, Fill DEF Sender, Send
<1>2. CASE Receiver
  BY <1>2, ReceiverStorage, ReceiverSemget, ReceiverSetEmpty, ReceiverSetFull,
         Await,
     Dequeue, CopyOut1, CopyOut2, Release, Remove, RemoveSet DEF Receiver, Receive
<1>3. CASE NewSession
  BY <1>3, Again
<1>4. CASE \E p \in Procs : Kill(p) \/ Relaunch(p)
  <2>1. \A p \in Procs : ~Kill(p)
    BY DEF Kill, Assumed
  <2>2. \A p \in Procs : pc[p] # "killed"
    BY DEF IInv, TypeOK, SenderAt, ReceiverAt, Setup, Procs
  <2> QED
    BY <1>4, <2>1, <2>2 DEF Relaunch, At
<1>5. CASE Terminated \/ UNCHANGED vars
  <2>1. /\ S' = S /\ R' = R /\ pc' = pc /\ flag' = flag /\ order' = order /\ sem' = sem
        /\ queue' = queue /\ shm' = shm /\ k' = k /\ rbuf' = rbuf /\ rcvd' = rcvd
    BY <1>5 DEF Terminated, vars, S, R
  <2>2. TypeOK' /\ Launched' /\ SetUp'
    BY <2>1 DEF IInv, TypeOK, Launched, SetUp
  <2>3. Accounts' /\ Received'
    BY <2>1 DEF IInv, Accounts, Received, SHas, SFull, RHas
  <2>4. Queued' /\ Shared'
    BY <2>1 DEF IInv, Queued, Shared, Waiting
  <2> QED
    BY <2>2, <2>3, <2>4 DEF IInv
<1> QED
  BY <1>1, <1>2, <1>3, <1>4, <1>5 DEF Next
-----------------------------------------------------------------------------
LEMMA Inductive == ASSUME Assumed PROVE SafetySpec => []IInv
<1>1. Init => IInv
  BY InitIInv
<1>2. IInv /\ [Next]_vars => IInv'
  BY NextIInv
<1> QED
  BY <1>1, <1>2, PTL DEF SafetySpec

(* sender.c never writes the slot while receiver.c reads it, in any session: P and
   V around strncpy, msgsnd and msgrcv keep them apart. *)
THEOREM Exclusive == ASSUME Assumed PROVE SafetySpec => []SlotExclusive
<1>1. ASSUME IInv PROVE SlotExclusive
  <2>1. SUFFICES ASSUME Writing, Reading PROVE FALSE
    BY DEF SlotExclusive
  <2>2. S \in {"put", "put2"} /\ R \in {"get", "get2"}
    BY <2>1 DEF Writing, Reading, S, R
  <2> QED
    BY <1>1, <2>2, Slotted DEF Setup
<1> QED
  BY <1>1, Inductive, PTL

(* empty, full and the program between its P and its V make one token from the
   moment the sender has initialised the set, whatever the set held before. *)
THEOREM Token == ASSUME Assumed PROVE SafetySpec => []OneToken
<1>1. ASSUME IInv PROVE OneToken
  <2>1. SUFFICES ASSUME S \notin Setup, sem # None
                 PROVE  sem.empty + sem.full + One(Writing \/ At("sender", "V"))
                          + One(Reading \/ At("receiver", "V")) = 1
    BY DEF OneToken, S
  <2>2. /\ One(Writing \/ At("sender", "V")) = SHas
        /\ One(Reading \/ At("receiver", "V")) = RHas
    BY DEF One, Writing, Reading, At, SHas, RHas, S, R
  <2> QED
    BY <1>1, <2>1, <2>2 DEF IInv, Accounts
<1> QED
  BY <1>1, Inductive, PTL

(* The receiver prints the sender's lines from the first on, each once and in their
   order. *)
THEOREM Ordered == ASSUME Assumed PROVE SafetySpec => []InOrder
<1>1. ASSUME IInv PROVE InOrder
  <2> DEFINE n == Len(rcvd)
             s == SubSeq(Script, 1, n)
  <2>1. /\ rcvd \in Seq(Text) /\ n \in Nat /\ k \in 0 .. Len(Script)
        /\ Script \in Seq(Text) /\ Len(Script) \in Nat
        /\ \A j \in 1 .. Len(Script) : Script[j] \in Text
        /\ \A j \in 1 .. n : rcvd[j] = Script[j]
    BY <1>1, Scripted, LenProperties DEF IInv, TypeOK, Received
  <2>2. n <= k
    <3>1. CASE S \in Setup
      BY <1>1, <3>1, EmptySeq DEF IInv, SetUp
    <3>2. CASE S \notin Setup /\ R \in {"rmid", "rmsem", "done"}
      BY <1>1, <3>2 DEF IInv, Accounts
    <3>3. CASE S \notin Setup /\ R \notin {"rmid", "rmsem", "done"}
      <4>1. sem # None /\ sem.full \in Nat /\ k = n + SFull + sem.full + RHas
        BY <1>1, <3>3, Slotted DEF IInv, Accounts
      <4> QED
        BY <2>1, <4>1 DEF SFull, RHas
    <3> QED
      BY <3>1, <3>2, <3>3
  <2>3. \A j \in 1 .. n : Script[j] \in Text
    BY <2>1, <2>2
  <2>4. /\ s \in Seq(Text) /\ Len(s) = IF 1 <= n THEN n - 1 + 1 ELSE 0
        /\ \A j \in 1 .. n - 1 + 1 : s[j] = Script[1 + j - 1]
    BY <2>1, <2>3, SubSeqProperties
  <2>5. Len(s) = n /\ \A j \in 1 .. n : s[j] = Script[j]
    BY <2>1, <2>4
  <2> HIDE DEF s
  <2>6. rcvd = s
    BY <2>1, <2>4, <2>5, SeqEqual
  <2> QED
    BY <2>2, <2>6 DEF InOrder, s
<1> QED
  BY <1>1, Inductive, PTL
-----------------------------------------------------------------------------
SlotIs == /\ Len(rcvd) \in Nat /\ k \in 0 .. Len(Script)
          /\ k \in {Len(rcvd), Len(rcvd) + 1}
          /\ Slot = IF k = Len(rcvd) THEN None ELSE Script[k]

LEMMA SlotHolds == ASSUME Assumed, IInv PROVE SlotIs
<1>1. Len(rcvd) \in Nat /\ k \in 0 .. Len(Script) /\ R \in ReceiverAt
  BY LenProperties DEF IInv, TypeOK
<1>2. CASE S \in Setup
  <2>1. k = 0 /\ Len(rcvd) = 0 /\ R \notin {"get", "get2", "V"} /\ S # "V"
    BY <1>2, EmptySeq DEF IInv, SetUp, Setup
  <2>2. Slot = None
    BY <1>2, <2>1 DEF Slot, At, Reading, S, R
  <2> QED
    BY <1>1, <2>1, <2>2 DEF SlotIs
<1>3. CASE S \notin Setup /\ R \in {"rmid", "rmsem", "done"}
  <2>1. S = "done" /\ k = Len(Script) /\ k = Len(rcvd)
    BY <1>3 DEF IInv, Accounts
  <2>2. sem # None => sem.full # 1
    BY <1>1, <1>3, <2>1 DEF IInv, TypeOK, Accounts, SFull, RHas
  <2>3. Slot = None
    BY <1>3, <2>1, <2>2 DEF Slot, At, Reading, S, R
  <2> QED
    BY <1>1, <2>1, <2>3 DEF SlotIs
<1>4. CASE S \notin Setup /\ R \notin {"rmid", "rmsem", "done"}
  <2>1. /\ sem # None /\ sem.full \in Nat /\ sem.empty \in Nat
        /\ k = Len(rcvd) + SFull + sem.full + RHas
        /\ sem.empty + sem.full + SHas + RHas = 1
    BY <1>4, Slotted DEF IInv, Accounts
  <2>2. CASE Waiting
    <3>1. k \in 1 .. Len(Script) /\ k = Len(rcvd) + 1 /\ R # "V"
      <4>1. k \in 1 .. Len(Script) /\ k = Len(rcvd) + 1
        BY <1>4, <2>2, Slotted
      <4>2. R # "V"
        BY <1>4, <2>1, <2>2, Slotted DEF Waiting
      <4> QED
        BY <4>1, <4>2
    <3>2. flag = 1 => queue[1] = Script[k]
      BY <1>4, <2>2, Slotted
    <3>3. flag = 2 => shm[1] = Script[k]
      BY <1>4, <2>2 DEF IInv, Shared
    <3>4. Slot = Script[k]
      BY <1>4, <2>1, <2>2, <3>1, <3>2, <3>3
         DEF Slot, Waiting, Reading, At, IInv, TypeOK, S, R
    <3> QED
      BY <1>1, <3>1, <3>4 DEF SlotIs
  <2>3. CASE ~Waiting /\ R = "V"
    <3>1. k = Len(rcvd) + 1 /\ Slot = Script[k]
      BY <1>4, <2>3, Slotted DEF Slot, At, IInv, Received, R
    <3> QED
      BY <1>1, <3>1 DEF SlotIs
  <2>4. CASE ~Waiting /\ R # "V"
    <3>1. sem.full # 1 /\ S # "V" /\ R \notin {"get", "get2", "V"}
      BY <2>4 DEF Waiting
    <3>2. k = Len(rcvd)
      BY <1>1, <2>1, <3>1 DEF SFull, SHas, RHas
    <3>3. Slot = None
      BY <3>1 DEF Slot, Reading, At, S, R
    <3> QED
      BY <1>1, <3>2, <3>3 DEF SlotIs
  <2> QED
    BY <2>2, <2>3, <2>4
<1> QED
  BY <1>2, <1>3, <1>4

(* What a step does to the messages sent and received. *)
LEMMA Traffic ==
  ASSUME Assumed, IInv, [Next]_vars
  PROVE  \/ k' = k /\ rcvd' = rcvd
         \/ k' = k + 1 /\ rcvd' = rcvd /\ k = Len(rcvd) /\ k < Len(Script)
         \/ k' = k /\ rcvd' = Append(rcvd, Script[k]) /\ k = Len(rcvd) + 1
         \/ k' = 0 /\ rcvd' = <<>> /\ rcvd = Script
<1>1. CASE Sender
  <2>1. CASE Send
    <3>1. CASE PEmpty \/ VFull \/ StrncpyIn("put", 1, "put2")
      BY <3>1 DEF PEmpty, P, VFull, V, StrncpyIn, env
    <3>2. CASE Msgsnd \/ StrncpyIn("put2", 2, "V")
      <4>1. S \in {"put", "put2"} /\ rcvd' = rcvd /\ k' \in {k, k + 1}
        BY <3>2 DEF Msgsnd, StrncpyIn, At, S
      <4>2. S \notin Setup /\ R # "done"
        BY <4>1, Ending DEF Setup
      <4>3. k + 1 \in 1 .. Len(Script) /\ ~Waiting /\ R \notin {"get", "get2", "V"}
        BY <4>1, <4>2, Slotted
      <4>4. k < Len(Script) /\ k = Len(rcvd)
        <5>1. /\ Len(rcvd) \in Nat /\ Len(Script) \in Nat /\ k \in 0 .. Len(Script)
              /\ sem.full \in Nat /\ sem.full = 0
              /\ k = Len(rcvd) + SFull + sem.full + RHas
          BY <4>1, <4>2, Slotted, Scripted, LenProperties DEF IInv, TypeOK, Accounts
        <5> QED
          BY <4>1, <4>3, <5>1 DEF SFull, RHas
      <4> QED
        BY <4>1, <4>4
    <3> QED
      BY <2>1, <3>1, <3>2 DEF Send
  <2>2. CASE ~Send
    BY <1>1, <2>2 DEF Sender, GetStorage, Semget, SetEmpty, SetFull, SetVal
  <2> QED
    BY <2>1, <2>2
<1>2. CASE Receiver
  <2>1. CASE VEmpty
    <3>1. R = "V" /\ k' = k /\ rcvd' = Append(rcvd, rbuf[1])
      BY <2>1 DEF VEmpty, V, At, R
    <3>2. rbuf[1] = Script[k] /\ S \notin Setup
      BY <3>1 DEF IInv, Received, SetUp, Setup
    <3> QED
      BY <3>1, <3>2, Slotted
  <2>2. CASE ~VEmpty
    BY <1>2, <2>2 DEF Receiver, Receive, GetStorage, Semget, SetEmpty, SetFull, SetVal,
       PFull, P, Msgrcv, StrncpyOut, RmStorage, RmSem
  <2> QED
    BY <2>1, <2>2
<1>3. CASE NewSession
  <2>1. R = "done" /\ k' = 0 /\ rcvd' = <<>>
    BY <1>3 DEF NewSession, IInv, TypeOK, Over, Procs, ReceiverAt, Setup, R
  <2>2. /\ Len(rcvd) = Len(Script) /\ rcvd \in Seq(Text) /\ Script \in Seq(Text)
        /\ \A j \in 1 .. Len(rcvd) : rcvd[j] = Script[j]
    BY <2>1, Scripted DEF IInv, TypeOK, Accounts, Received
  <2>3. rcvd = Script
    BY <2>2, SeqEqual
  <2> QED
    BY <2>1, <2>3
<1>4. CASE \E p \in Procs : Kill(p) \/ Relaunch(p)
  <2>1. \A p \in Procs : ~Kill(p)
    BY DEF Kill, Assumed
  <2>2. \A p \in Procs : pc[p] # "killed"
    BY DEF IInv, TypeOK, SenderAt, ReceiverAt, Setup, Procs
  <2> QED
    BY <1>4, <2>1, <2>2 DEF Relaunch, At
<1>5. CASE Terminated \/ UNCHANGED vars
  BY <1>5 DEF Terminated, vars
<1> QED
  BY <1>1, <1>2, <1>3, <1>4, <1>5 DEF Next

LEMMA RefineStep ==
  ASSUME Assumed, IInv, SlotIs, SlotIs', [Next]_vars
  PROVE  [Ch!Next]_(Ch!cvars)
<1>1. Ch!Script = Script
  BY DEF Ch!Script, Script
<1>2. k \in 1 .. Len(Script) => Script[k] # None
  BY Scripted, Objects
<1>3. CASE k' = k /\ rcvd' = rcvd
  <2>1. Slot' = Slot
    BY <1>3 DEF SlotIs
  <2> QED
    BY <1>3, <2>1 DEF Ch!cvars
<1>4. CASE k' = k + 1 /\ rcvd' = rcvd /\ k = Len(rcvd) /\ k < Len(Script)
  <2>1. Slot = None /\ Slot' = Script[k + 1]
    BY <1>4 DEF SlotIs
  <2> QED
    BY <1>1, <1>4, <2>1 DEF Ch!Next, Ch!Send
<1>5. CASE k' = k /\ rcvd' = Append(rcvd, Script[k]) /\ k = Len(rcvd) + 1
  <2>1. Slot = Script[k] /\ Slot # None
    BY <1>2, <1>5 DEF SlotIs
  <2>2. Len(rcvd') = k
    <3>1. rcvd \in Seq(Text) /\ Script[k] \in Text
      BY <1>5, Scripted DEF IInv, TypeOK, SlotIs
    <3> QED
      BY <1>5, <3>1, AppendProperties
  <2>3. Slot' = None
    BY <1>5, <2>2 DEF SlotIs
  <2> QED
    BY <1>5, <2>1, <2>3 DEF Ch!Next, Ch!Recv
<1>6. CASE k' = 0 /\ rcvd' = <<>> /\ rcvd = Script
  <2>1. Slot' = None
    BY <1>6, EmptySeq DEF SlotIs
  <2> QED
    BY <1>1, <1>6, <2>1 DEF Ch!Next, Ch!Reset
<1> QED
  BY <1>3, <1>4, <1>5, <1>6, Traffic

ChannelSafety == Ch!SafetySpec

(* The programs, the semaphores and the kernel's queue or segment implement a channel
   with one slot. *)
THEOREM Refinement == ASSUME Assumed PROVE SafetySpec => ChannelSafety
<1>1. ASSUME Init PROVE Ch!Init
  <2>1. SlotIs /\ k = 0 /\ rcvd = <<>>
    BY <1>1, InitIInv, SlotHolds DEF Init
  <2> QED
    BY <2>1, EmptySeq DEF Ch!Init, SlotIs
<1>2. IInv => SlotIs
  BY SlotHolds
<1>3. IInv /\ SlotIs /\ SlotIs' /\ [Next]_vars => [Ch!Next]_(Ch!cvars)
  BY RefineStep
<1> QED
  BY <1>1, <1>2, <1>3, Inductive, PTL DEF SafetySpec, ChannelSafety, Ch!SafetySpec
-----------------------------------------------------------------------------
(***************************************************************************)
(* The mailbox for any file, end markers included, when the receiver may   *)
(* be killed and launched again, and the sender is set up first.  Nobody   *)
(* gives back the token of a killed receiver, so that there is at most one *)
(* (AtMostOneToken); whoever has it knows that the message in the slot is  *)
(* the sender's last, and that none received so far is as late (Indices).  *)
(***************************************************************************)
ReceiverKilled == Orders = {"senderFirst"} /\ Killable \subseteq {"receiver"}

KilledAt == {"start", "semget", "P", "get", "get2", "V", "rmid", "rmsem", "done", "killed"}
Gone == R \in {"rmsem", "done"}

KTypes == /\ flag \in {1, 2} /\ order = "senderFirst" /\ pc \in [Procs -> SenderAt \cup {"failed"} \cup KilledAt]
          /\ S \in SenderAt \cup {"failed"} /\ R \in KilledAt
          /\ sem \in {None} \cup [empty : Nat, full : Nat]
          /\ k \in 0 .. Len(Script) /\ rcvd \in Seq(Text)
          /\ rbuf \in [1 .. 2 -> Text] /\ shm \in {None} \cup [1 .. 2 -> Text]

KSetUp == /\ S \in Setup => R = "start" /\ k = 0 /\ rcvd = <<>>
          /\ S \notin {"start", "semget"} /\ R # "done" => sem # None
          /\ S = "set1" => sem.empty = 1
          /\ S # "start" /\ ~Gone => IF flag = 1 THEN queue # None ELSE shm # None
          /\ flag = 1 => S # "put2" /\ R \notin {"get2", "rmsem"}

AtMostOneToken == /\ S \notin Setup /\ sem # None => sem.empty + sem.full + SHas + RHas <= 1
                  /\ S \in {"P", "put", "put2"} => k < Len(Script)

Lying == S = "V" \/ (sem # None /\ sem.full = 1) \/ R = "get"
KSlot == /\ S \notin Setup /\ ~Gone /\ Lying
              => IF flag = 1 THEN queue = <<Script[k]>> ELSE shm[1] = Script[k]
         /\ S = "put2" /\ ~Gone => shm[1] = Script[k + 1]
         /\ R \in {"get2", "V"} => rbuf[1] = Script[k]

(* Where in the file the messages received were, and the one under way is not yet. *)
UnderWay == Lying \/ R \in {"get2", "V"}
Places(ix) == /\ \A x \in 1 .. Len(rcvd) : rcvd[x] = Script[ix[x]]
              /\ \A x, y \in 1 .. Len(rcvd) : x < y => ix[x] < ix[y]
              /\ S \notin Setup /\ UnderWay => k > 0 /\ \A x \in 1 .. Len(rcvd) : ix[x] < k
Indices == \E ix \in [1 .. Len(rcvd) -> 1 .. k] : Places(ix)

KInv == KTypes /\ KSetUp /\ AtMostOneToken /\ KSlot /\ Indices

LEMMA Told ==
  /\ Script \in Seq(Text) /\ Len(Script) \in Nat \ {0}
  /\ \A j \in 1 .. Len(Script) : Script[j] \in Text
<1>1. File \in Seq(Text) /\ Exit \in Text
  BY MailboxAssumption DEF Text
<1>2. /\ Script \in Seq(Text) /\ Len(Script) = Len(File) + 1 /\ Len(File) \in Nat
  BY <1>1, AppendProperties, LenProperties DEF Script
<1>3. ASSUME NEW j \in 1 .. Len(Script) PROVE Script[j] \in Text
  BY <1>2, ElementOfSeq
<1> QED
  BY <1>2, <1>3

LEMMA KMoves ==
  ASSUME KTypes
  PROVE  /\ \A l \in SenderAt \cup {"failed"} : Goto("sender", l) =>
              /\ S' = l /\ R' = R /\ pc' \in [Procs -> SenderAt \cup {"failed"} \cup KilledAt]
         /\ \A l \in KilledAt : Goto("receiver", l) =>
              /\ R' = l /\ S' = S /\ pc' \in [Procs -> SenderAt \cup {"failed"} \cup KilledAt]
  BY DEF KTypes, Goto, S, R, Procs

(* No message is on its way that was not before. *)
LEMMA Steady ==
  ASSUME Indices, k' = k, rcvd' = rcvd,
         S' \notin Setup /\ UnderWay' => S \notin Setup /\ UnderWay
  PROVE  Indices'
<1>1. PICK ix \in [1 .. Len(rcvd) -> 1 .. k] : Places(ix)
  BY DEF Indices
<1>2. Places(ix)'
  BY <1>1 DEF Places
<1> QED
  BY <1>1, <1>2 DEF Indices

(* Whoever has the token has the slot. *)
LEMMA Owner ==
  ASSUME KInv
  PROVE  /\ sem # None => sem.empty \in Nat /\ sem.full \in Nat
         /\ S \in {"put", "put2", "V"} =>
              /\ R \notin {"get", "get2", "V"}
              /\ sem # None => sem.empty = 0 /\ sem.full = 0
         /\ R \in {"get", "get2", "V"} =>
              /\ S \notin Setup \cup {"put", "put2", "V"}
              /\ sem # None /\ sem.empty = 0 /\ sem.full = 0
<1>1. sem # None => sem.empty \in Nat /\ sem.full \in Nat
  BY DEF KInv, KTypes
<1>2. R \in {"get", "get2", "V"} => sem # None /\ S \notin Setup
  BY DEF KInv, KSetUp, Setup
<1> QED
  BY <1>1, <1>2 DEF KInv, AtMostOneToken, SHas, RHas, Setup

LEMMA InitK == ReceiverKilled /\ Init => KInv
<1> SUFFICES ASSUME ReceiverKilled, Init PROVE KInv
  OBVIOUS
<1>1. /\ S = "start" /\ R = "start" /\ sem = None /\ shm = None /\ k = 0
      /\ rbuf = <<Blank, Blank>> /\ rcvd = <<>> /\ flag \in {1, 2} /\ order = "senderFirst"
      /\ pc \in [Procs -> SenderAt \cup {"failed"} \cup KilledAt]
  BY MailboxAssumption DEF Init, S, R, Procs, ReceiverKilled, SenderAt, KilledAt, Setup
<1>2. KTypes
  BY <1>1, Told, Objects, EmptySeq DEF KTypes, SenderAt, KilledAt, Setup
<1>3. KSetUp /\ AtMostOneToken /\ KSlot
  BY <1>1 DEF KSetUp, AtMostOneToken, KSlot, Setup
<1>4. Indices
  <2>1. Len(rcvd) = 0 /\ [x \in 1 .. 0 |-> x] \in [1 .. 0 -> 1 .. 0]
    BY <1>1
  <2>2. Places([x \in 1 .. 0 |-> x])
    BY <1>1, <2>1 DEF Places, Setup
  <2> QED
    BY <1>1, <2>1, <2>2 DEF Indices
<1> QED
  BY <1>2, <1>3, <1>4 DEF KInv

(* The sender's set-up, before the receiver is launched. *)
LEMMA SenderSetUpK ==
  ASSUME KInv, \/ GetStorage("sender") \/ Semget("sender")
               \/ SetEmpty("sender") \/ SetFull("sender")
  PROVE  KInv'
<1>1. S \in Setup /\ R = "start" /\ k = 0 /\ rcvd = <<>>
      /\ (S \notin {"start", "semget"} => sem # None)
  BY DEF KInv, KSetUp, GetStorage, Semget, SetEmpty, SetFull, SetVal, At, S, Setup
<1>2. /\ \/ /\ S = "start" /\ Goto("sender", "semget") /\ sem' = sem
            /\ IF flag = 1 THEN queue' # None /\ shm' = shm ELSE shm' = <<Blank, Blank>>
         \/ /\ S = "semget" /\ Goto("sender", "set0") /\ queue' = queue /\ shm' = shm
            /\ sem' = IF sem = None THEN [empty |-> 0, full |-> 0] ELSE sem
         \/ /\ S = "set0" /\ Goto("sender", "set1") /\ queue' = queue /\ shm' = shm
            /\ sem' = [sem EXCEPT !["empty"] = 1]
         \/ /\ S = "set1" /\ Goto("sender", "P") /\ queue' = queue /\ shm' = shm
            /\ sem' = [sem EXCEPT !["full"] = 0]
      /\ UNCHANGED <<flag, order, k, rbuf, rcvd>>
  BY <1>1, Objects DEF GetStorage, Semget, SetEmpty, SetFull, SetVal, At, S, env
<1>3. /\ R' = R /\ pc' \in [Procs -> SenderAt \cup {"failed"} \cup KilledAt]
      /\ \/ S = "start" /\ S' = "semget"
         \/ S = "semget" /\ S' = "set0"
         \/ S = "set0" /\ S' = "set1"
         \/ S = "set1" /\ S' = "P"
  BY <1>2, KMoves DEF KInv, SenderAt, Setup
<1>4. KTypes'
  BY <1>1, <1>2, <1>3, Objects DEF KInv, KTypes, SenderAt, Setup
<1>5. KSetUp'
  BY <1>1, <1>2, <1>3, Objects DEF KInv, KTypes, KSetUp, Setup, Gone
<1>6. AtMostOneToken'
  BY <1>1, <1>2, <1>3, Told DEF KInv, KTypes, KSetUp, AtMostOneToken, SHas, RHas, Setup
<1>7. S' \notin Setup => ~UnderWay'
  BY <1>1, <1>2, <1>3 DEF KInv, KTypes, UnderWay, Lying, Setup
<1>8. KSlot'
  BY <1>1, <1>3, <1>7 DEF KSlot, UnderWay, Setup
<1> QED
  BY <1>2, <1>4, <1>5, <1>6, <1>7, <1>8, Steady DEF KInv

(* The receiver's, as often as it is launched, finds everything there. *)
LEMMA ReceiverSetUpK ==
  ASSUME KInv, \/ GetStorage("receiver") \/ Semget("receiver")
               \/ SetEmpty("receiver") \/ SetFull("receiver")
  PROVE  KInv'
<1>1. R \in {"start", "semget"} /\ S \notin Setup /\ sem # None
  BY DEF KInv, KTypes, KilledAt, KSetUp, GetStorage, MayStart, Semget, SetEmpty, SetFull, SetVal,
     At, S, R, Setup
<1>2. /\ \/ R = "start" /\ Goto("receiver", "semget")
         \/ R = "semget" /\ Goto("receiver", "P")
      /\ UNCHANGED <<flag, order, sem, queue, shm, k, rbuf, rcvd>>
  BY <1>1 DEF KInv, KTypes, KSetUp, Gone, GetStorage, Semget, SetEmpty, SetFull, SetVal, At, S, R,
     env, Setup
<1>3. /\ S' = S /\ pc' \in [Procs -> SenderAt \cup {"failed"} \cup KilledAt]
      /\ R' \in {"semget", "P"}
  BY <1>2, KMoves DEF KInv, KilledAt
<1>4. KTypes' /\ KSetUp' /\ AtMostOneToken'
  BY <1>1, <1>2, <1>3 DEF KInv, KTypes, KSetUp, AtMostOneToken, SHas, RHas, KilledAt, Gone
<1>5. UnderWay' = UnderWay /\ Lying' = Lying
  BY <1>1, <1>2, <1>3 DEF UnderWay, Lying
<1>6. KSlot'
  BY <1>1, <1>2, <1>3, <1>5 DEF KInv, KSlot, Gone
<1> QED
  BY <1>1, <1>2, <1>3, <1>4, <1>5, <1>6, Steady DEF KInv

(* send(), whatever has become of the receiver *)
LEMMA SendK ==
  ASSUME KInv, Send
  PROVE  KInv'
<1>1. /\ S \in {"P", "put", "put2", "V"} /\ UNCHANGED <<flag, order, rbuf, rcvd>>
      /\ S \in {"P", "put", "put2"} => k + 1 \in 1 .. Len(Script)
  BY Told DEF KInv, KTypes, KSetUp, AtMostOneToken, Gone, Send, PEmpty, P, Msgsnd, VFull, V,
     StrncpyIn, At, S, env, Setup
<1>2. CASE PEmpty
  <2>1. /\ S = "P" /\ UNCHANGED <<queue, shm, k>>
        /\ \/ sem = None /\ sem' = None /\ Goto("sender", "failed")
           \/ /\ sem # None /\ sem.empty > 0 /\ sem' = [sem EXCEPT !["empty"] = sem["empty"] - 1]
              /\ Goto("sender", "put")
    BY <1>2 DEF PEmpty, P, At, S
  <2>2. /\ R' = R /\ pc' \in [Procs -> SenderAt \cup {"failed"} \cup KilledAt]
        /\ S' = IF sem = None THEN "failed" ELSE "put"
    BY <2>1, KMoves DEF KInv, SenderAt
  <2>3. sem' # None => sem # None /\ sem'.full = sem.full /\ sem'.empty = sem.empty - 1
                       /\ sem' \in [empty : Nat, full : Nat]
    BY <2>1 DEF KInv, KTypes
  <2>4. KTypes' /\ KSetUp' /\ AtMostOneToken'
    BY <1>1, <2>1, <2>2, <2>3, Owner, Objects
       DEF KInv, KTypes, KSetUp, AtMostOneToken, SHas, RHas, Gone, SenderAt, Setup
  <2>5. Lying' => Lying
    BY <2>1, <2>2, <2>3 DEF Lying
  <2>6. KSlot' /\ (UnderWay' => UnderWay)
    BY <1>1, <2>1, <2>2, <2>5 DEF KInv, KSlot, Gone, UnderWay, Setup
  <2> QED
    BY <1>1, <2>1, <2>4, <2>6, Steady DEF KInv, Setup
<1>3. CASE VFull
  <2>1. /\ S = "V" /\ UNCHANGED <<queue, shm, k>>
        /\ \/ sem = None /\ sem' = None /\ Goto("sender", "failed")
           \/ /\ sem # None /\ sem' = [sem EXCEPT !["full"] = sem["full"] + 1]
              /\ Goto("sender", IF k = Len(Script) THEN "done" ELSE "P")
    BY <1>3 DEF VFull, V, At, S
  <2>2. /\ R' = R /\ pc' \in [Procs -> SenderAt \cup {"failed"} \cup KilledAt]
        /\ S' = IF sem = None THEN "failed" ELSE IF k = Len(Script) THEN "done" ELSE "P"
    BY <2>1, KMoves DEF KInv, SenderAt
  <2>3. sem' # None => sem # None /\ sem'.full = sem.full + 1 /\ sem'.empty = sem.empty
                       /\ sem' \in [empty : Nat, full : Nat]
    BY <2>1 DEF KInv, KTypes
  <2>4. KTypes' /\ KSetUp' /\ AtMostOneToken'
    BY <1>1, <2>1, <2>2, <2>3, Told, Owner, Objects
       DEF KInv, KTypes, KSetUp, AtMostOneToken, SHas, RHas, Gone, SenderAt, Setup
  <2>5. KSlot'
    BY <1>1, <2>1, <2>2 DEF KInv, KSlot, Lying, Gone, Setup
  <2> QED
    BY <1>1, <2>1, <2>4, <2>5, Steady DEF KInv, UnderWay, Lying, Setup
<1>4. CASE StrncpyIn("put", 1, "put2")
  <2>1. /\ S = "put" /\ flag = 2 /\ UNCHANGED <<sem, queue, k>> /\ Goto("sender", "put2")
        /\ shm' = IF shm = None THEN None ELSE [shm EXCEPT ![1] = Script[k + 1]]
    BY <1>4 DEF StrncpyIn, At, S
  <2>2. /\ R' = R /\ S' = "put2" /\ pc' \in [Procs -> SenderAt \cup {"failed"} \cup KilledAt]
    BY <2>1, KMoves DEF KInv, SenderAt
  <2>3. /\ shm # None => shm' \in [1 .. 2 -> Text] /\ shm'[1] = Script[k + 1]
        /\ shm = None => shm' = None
    BY <1>1, <2>1, Told DEF KInv, KTypes
  <2>4. KTypes' /\ KSetUp' /\ AtMostOneToken'
    <3>1. shm' \in {None} \cup [1 .. 2 -> Text] /\ (shm # None => shm' # None)
      BY <2>3, Objects
    <3>2. KTypes'
      BY <1>1, <2>1, <2>2, <3>1 DEF KInv, KTypes, SenderAt
    <3>3. KSetUp'
      BY <1>1, <2>1, <2>2, <3>1 DEF KInv, KSetUp, Gone, Setup
    <3>4. AtMostOneToken'
      BY <1>1, <2>1, <2>2 DEF KInv, AtMostOneToken, SHas, RHas, Setup
    <3> QED
      BY <3>2, <3>3, <3>4
  <2>5. ~Lying' /\ R \notin {"get2", "V"}
    BY <2>1, <2>2, Owner DEF Lying
  <2>6. KSlot'
    BY <1>1, <2>1, <2>2, <2>3, <2>5 DEF KInv, KSetUp, KSlot, Gone
  <2> QED
    BY <1>1, <2>1, <2>2, <2>4, <2>5, <2>6, Steady DEF KInv, UnderWay
<1>5. ASSUME S \in {"put", "put2"}, Goto("sender", "V"), UNCHANGED sem, k' = k + 1,
             flag = 1 => S = "put" /\ queue' = <<Script[k + 1]>> /\ shm' = shm,
             flag # 1 => queue' = queue /\ (~Gone => shm' # None /\ shm'[1] = Script[k + 1]),
             shm' \in {None} \cup [1 .. 2 -> Text]
      PROVE  KInv'
  <2>1. /\ R' = R /\ S' = "V" /\ pc' \in [Procs -> SenderAt \cup {"failed"} \cup KilledAt]
        /\ R \notin {"get", "get2", "V"} /\ k' \in 1 .. Len(Script)
    BY <1>1, <1>5, KMoves, Owner DEF KInv, SenderAt
  <2>2. queue' = <<Script[k + 1]>> => queue' # None
    BY <1>1, <1>5, Told, Objects
  <2>3. KTypes' /\ KSetUp' /\ AtMostOneToken'
    BY <1>1, <1>5, <2>1, <2>2
       DEF KInv, KTypes, KSetUp, AtMostOneToken, SHas, RHas, Gone, SenderAt, Setup
  <2>4. KSlot'
    BY <1>1, <1>5, <2>1 DEF KInv, KSlot, Gone
  <2>5. Indices'
    <3>1. PICK ix \in [1 .. Len(rcvd) -> 1 .. k] : Places(ix)
      BY DEF KInv, Indices
    <3>2. k \in Nat
      BY DEF KInv, KTypes
    <3>3. /\ ix \in [1 .. Len(rcvd) -> 1 .. k'] /\ k' > 0
          /\ \A x \in 1 .. Len(rcvd) : ix[x] < k'
      BY <1>5, <3>1, <3>2
    <3>4. Places(ix)'
      BY <1>1, <3>1, <3>3 DEF Places
    <3> QED
      BY <1>1, <3>3, <3>4 DEF Indices
  <2> QED
    BY <2>3, <2>4, <2>5 DEF KInv
<1>6. CASE StrncpyIn("put2", 2, "V")
  <2>1. /\ S = "put2" /\ flag = 2 /\ UNCHANGED <<sem, queue>> /\ Goto("sender", "V") /\ k' = k + 1
        /\ shm' = IF shm = None THEN None ELSE [shm EXCEPT ![2] = Script[k + 1]]
    BY <1>6 DEF StrncpyIn, At, S
  <2>2. shm # None => shm \in [1 .. 2 -> Text] /\ shm' \in [1 .. 2 -> Text] /\ shm'[1] = shm[1]
    BY <1>1, <2>1, Told DEF KInv, KTypes
  <2>3. ~Gone => shm # None /\ shm[1] = Script[k + 1]
    BY <2>1 DEF KInv, KSetUp, KSlot
  <2> QED
    BY <1>5, <2>1, <2>2, <2>3, Objects
<1>7. CASE Msgsnd
  <2>1. /\ S = "put" /\ flag = 1 /\ UNCHANGED <<sem, shm>>
        /\ \/ queue = None /\ UNCHANGED <<queue, k>> /\ Goto("sender", "failed")
           \/ queue' = <<Script[k + 1]>> /\ k' = k + 1 /\ Goto("sender", "V")
    BY <1>7 DEF Msgsnd, At, S
  <2>2. CASE queue' = <<Script[k + 1]>> /\ k' = k + 1 /\ Goto("sender", "V")
    BY <1>5, <2>1, <2>2 DEF KInv, KTypes
  <2>3. CASE queue = None /\ UNCHANGED <<queue, k>> /\ Goto("sender", "failed")
    <3>1. /\ R' = R /\ S' = "failed" /\ R = "done"
          /\ pc' \in [Procs -> SenderAt \cup {"failed"} \cup KilledAt]
      BY <2>1, <2>3, KMoves DEF KInv, KSetUp, Gone
    <3>2. KTypes' /\ KSetUp' /\ AtMostOneToken'
      BY <1>1, <2>1, <2>3, <3>1
         DEF KInv, KTypes, KSetUp, AtMostOneToken, SHas, RHas, Gone, Setup
    <3>3. KSlot' /\ (UnderWay' => UnderWay)
      BY <2>1, <3>1 DEF KSlot, Gone, UnderWay, Lying
    <3> QED
      BY <1>1, <2>1, <2>3, <3>2, <3>3, Steady DEF KInv, Setup
  <2> QED
    BY <2>1, <2>2, <2>3
<1> QED
  BY <1>2, <1>3, <1>4, <1>6, <1>7 DEF Send

(* receive() *)
LEMMA ReceiveK ==
  ASSUME KInv, Receive
  PROVE  KInv'
<1>1. /\ R \in {"P", "get", "get2", "V"} /\ UNCHANGED <<flag, order, shm, k>>
      /\ S \notin Setup /\ sem # None
  BY DEF KInv, KSetUp, Receive, PFull, P, Msgrcv, VEmpty, V, StrncpyOut, At, R, env, ipc, Setup
<1>2. CASE PFull
  <2>1. /\ R = "P" /\ UNCHANGED <<queue, rbuf, rcvd>> /\ Goto("receiver", "get")
        /\ sem.full > 0 /\ sem' = [sem EXCEPT !["full"] = sem["full"] - 1]
    BY <1>1, <1>2 DEF PFull, P, At, R
  <2>2. S' = S /\ R' = "get" /\ pc' \in [Procs -> SenderAt \cup {"failed"} \cup KilledAt]
    BY <2>1, KMoves DEF KInv, KilledAt
  <2>3. /\ sem.full \in Nat /\ sem.empty \in Nat /\ sem' \in [empty : Nat, full : Nat]
        /\ sem'.full = sem.full - 1 /\ sem'.empty = sem.empty
    BY <1>1, <2>1 DEF KInv, KTypes
  <2>4. sem.full = 1
    BY <1>1, <2>1, <2>3 DEF KInv, AtMostOneToken, SHas, RHas
  <2>5. KTypes' /\ KSetUp' /\ AtMostOneToken'
    BY <1>1, <2>1, <2>2, <2>3, Objects
       DEF KInv, KTypes, KSetUp, AtMostOneToken, SHas, RHas, Gone, KilledAt
  <2>6. KSlot'
    BY <1>1, <2>1, <2>2, <2>4 DEF KInv, KSlot, Lying, Gone
  <2> QED
    BY <1>1, <2>1, <2>2, <2>4, <2>5, <2>6, Steady DEF KInv, UnderWay, Lying
<1>3. R # "P" => k \in 1 .. Len(Script) /\ Script[k] \in Text
  BY <1>1, Told DEF KInv, KTypes, Indices, Places, UnderWay, Lying
<1>4. ASSUME R \in {"get", "get2"}, NEW l \in {"get2", "V"}, Goto("receiver", l),
             UNCHANGED <<sem, rcvd>>, rbuf' \in [1 .. 2 -> Text], rbuf'[1] = Script[k],
             flag = 1 => l = "V" /\ queue' # None
      PROVE  KInv'
  <2>1. S' = S /\ R' = l /\ pc' \in [Procs -> SenderAt \cup {"failed"} \cup KilledAt]
    BY <1>4, KMoves DEF KInv, KilledAt
  <2>2. KTypes' /\ KSetUp' /\ AtMostOneToken'
    BY <1>1, <1>4, <2>1 DEF KInv, KTypes, KSetUp, AtMostOneToken, SHas, RHas, Gone, KilledAt
  <2>3. ~Lying' /\ S # "put2"
    BY <1>1, <1>4, <2>1, Owner DEF Lying
  <2>4. KSlot'
    BY <1>1, <1>4, <2>1, <2>3 DEF KSlot, Gone
  <2> QED
    BY <1>1, <1>4, <2>1, <2>2, <2>4, Steady DEF KInv, UnderWay, Lying
<1>5. CASE Msgrcv
  <2>1. /\ R = "get" /\ flag = 1 /\ UNCHANGED <<sem, rcvd>> /\ Goto("receiver", "V")
        /\ rbuf' = <<Head(queue), Head(queue)>> /\ queue' = Tail(queue)
    BY <1>5 DEF Msgrcv, At, R
  <2>2. queue = <<Script[k]>> /\ Script[k] \in Text
    BY <1>1, <1>3, <2>1 DEF KInv, KSlot, Lying, Gone
  <2>3. Head(<<Script[k]>>) = Script[k] /\ Tail(<<Script[k]>>) = <<>>
    BY <2>2
  <2>4. rbuf' = <<Script[k], Script[k]>> /\ queue' = <<>>
    BY <2>1, <2>2, <2>3
  <2>5. rbuf' \in [1 .. 2 -> Text] /\ rbuf'[1] = Script[k] /\ queue' # None
    BY <2>2, <2>4, Objects
  <2> QED
    BY <1>4, <2>1, <2>5
<1>6. CASE StrncpyOut("get", 1, "get2")
  <2>1. /\ R = "get" /\ flag = 2 /\ UNCHANGED <<sem, rcvd, queue>> /\ Goto("receiver", "get2")
        /\ rbuf' = [rbuf EXCEPT ![1] = shm[1]] /\ shm # None
    BY <1>6 DEF StrncpyOut, At, R, ipc
  <2>2. shm[1] = Script[k]
    BY <1>1, <2>1 DEF KInv, KSlot, Lying, Gone
  <2>3. rbuf' \in [1 .. 2 -> Text] /\ rbuf'[1] = Script[k]
    BY <1>3, <2>1, <2>2 DEF KInv, KTypes
  <2> QED
    BY <1>4, <2>1, <2>3
<1>7. CASE StrncpyOut("get2", 2, "V")
  <2>1. /\ R = "get2" /\ flag = 2 /\ UNCHANGED <<sem, rcvd, queue>> /\ Goto("receiver", "V")
        /\ rbuf' = [rbuf EXCEPT ![2] = shm[2]] /\ shm # None
    BY <1>7 DEF StrncpyOut, At, R, ipc
  <2>2. rbuf' \in [1 .. 2 -> Text] /\ rbuf'[1] = Script[k]
    BY <2>1 DEF KInv, KTypes, KSlot
  <2> QED
    BY <1>4, <2>1, <2>2
<1>8. CASE VEmpty
  <2>1. /\ R = "V" /\ UNCHANGED <<queue, rbuf>> /\ rcvd' = Append(rcvd, rbuf[1])
        /\ sem' = [sem EXCEPT !["empty"] = sem["empty"] + 1]
        /\ Goto("receiver", IF rbuf[1] = Exit THEN "rmid" ELSE "P")
    BY <1>1, <1>8 DEF VEmpty, V, At, R
  <2>2. /\ S' = S /\ R' \in {"rmid", "P"}
        /\ pc' \in [Procs -> SenderAt \cup {"failed"} \cup KilledAt]
    BY <2>1, KMoves DEF KInv, KilledAt
  <2>3. /\ sem.full = 0 /\ sem.empty = 0 /\ S \notin {"put", "put2", "V"}
        /\ sem' \in [empty : Nat, full : Nat] /\ sem'.full = 0 /\ sem'.empty = 1
    BY <1>1, <2>1, Owner DEF KInv, KTypes
  <2>4. /\ rbuf[1] = Script[k] /\ k \in 1 .. Len(Script) /\ Script[k] \in Text
        /\ rcvd \in Seq(Text) /\ Len(rcvd) \in Nat
    BY <1>3, <2>1, LenProperties DEF KInv, KTypes, KSlot
  <2>5. /\ rcvd' \in Seq(Text) /\ Len(rcvd') = Len(rcvd) + 1 /\ rcvd'[Len(rcvd) + 1] = Script[k]
        /\ \A j \in 1 .. Len(rcvd) : rcvd'[j] = rcvd[j]
    BY <2>1, <2>4, AppendProperties
  <2>6. KTypes' /\ KSetUp' /\ AtMostOneToken'
    BY <1>1, <2>1, <2>2, <2>3, <2>5, Objects
       DEF KInv, KTypes, KSetUp, AtMostOneToken, SHas, RHas, Gone, KilledAt
  <2>7. ~UnderWay'
    BY <2>2, <2>3 DEF UnderWay, Lying
  <2>8. KSlot'
    BY <2>2, <2>3, <2>7 DEF KSlot, UnderWay, Lying
  <2>9. Indices'
    <3>1. PICK ix \in [1 .. Len(rcvd) -> 1 .. k] : Places(ix)
      BY DEF KInv, Indices
    <3>2. \A x \in 1 .. Len(rcvd) : ix[x] \in 1 .. k /\ ix[x] < k
      BY <1>1, <2>1, <3>1 DEF Places, UnderWay
    <3>3. PICK jx \in [1 .. Len(rcvd) + 1 -> 1 .. k] :
            jx[Len(rcvd) + 1] = k /\ \A x \in 1 .. Len(rcvd) : jx[x] = ix[x]
      <4> DEFINE f == [x \in 1 .. Len(rcvd) + 1 |-> IF x = Len(rcvd) + 1 THEN k ELSE ix[x]]
      <4>1. /\ f \in [1 .. Len(rcvd) + 1 -> 1 .. k]
            /\ f[Len(rcvd) + 1] = k /\ \A x \in 1 .. Len(rcvd) : f[x] = ix[x]
        BY <2>4, <3>2
      <4> HIDE DEF f
      <4> QED
        BY <4>1
    <3>4. \A x \in 1 .. Len(rcvd) + 1 : rcvd'[x] = Script[jx[x]]
      <4>1. ASSUME NEW x \in 1 .. Len(rcvd) + 1 PROVE rcvd'[x] = Script[jx[x]]
        <5>1. x \in 1 .. Len(rcvd) \/ x = Len(rcvd) + 1
          BY <2>4
        <5> QED
          BY <2>5, <3>1, <3>3, <5>1 DEF Places
      <4> QED
        BY <4>1
    <3>5. \A x, y \in 1 .. Len(rcvd) + 1 : x < y => jx[x] < jx[y]
      <4>1. ASSUME NEW x \in 1 .. Len(rcvd) + 1, NEW y \in 1 .. Len(rcvd) + 1, x < y
            PROVE  jx[x] < jx[y]
        <5>1. x \in 1 .. Len(rcvd) /\ (y \in 1 .. Len(rcvd) \/ y = Len(rcvd) + 1)
          BY <2>4, <4>1
        <5> QED
          BY <3>1, <3>2, <3>3, <4>1, <5>1 DEF Places
      <4> QED
        BY <4>1
    <3>6. Places(jx)'
      BY <1>1, <2>5, <2>7, <3>4, <3>5 DEF Places
    <3> QED
      BY <1>1, <2>5, <3>3, <3>6 DEF Indices
  <2> QED
    BY <2>6, <2>8, <2>9 DEF KInv
<1> QED
  BY <1>2, <1>5, <1>6, <1>7, <1>8 DEF Receive

(* The receiver removes what it shared, perhaps while the sender still sends. *)
LEMMA RemoveK ==
  ASSUME KInv, RmStorage \/ RmSem
  PROVE  KInv'
<1>1. /\ R \in {"rmid", "rmsem"} /\ UNCHANGED <<flag, order, k, rbuf, rcvd>>
      /\ \/ R = "rmsem" /\ Goto("receiver", "done") /\ sem' = None /\ shm' = shm
         \/ R = "rmid" /\ flag = 1 /\ Goto("receiver", "done") /\ sem' = sem /\ shm' = shm
         \/ R = "rmid" /\ flag # 1 /\ Goto("receiver", "rmsem") /\ sem' = sem /\ shm' = None
  BY DEF RmStorage, RmSem, At, R, env
<1>2. /\ S' = S /\ pc' \in [Procs -> SenderAt \cup {"failed"} \cup KilledAt]
      /\ R' \in {"rmsem", "done"} /\ (R' = "rmsem" => sem' = sem /\ flag # 1)
  BY <1>1, KMoves DEF KInv, KilledAt
<1>3. KTypes' /\ KSetUp'
  <2>1. KTypes'
    BY <1>1, <1>2 DEF KInv, KTypes, KilledAt
  <2>2. S \notin Setup
    BY <1>1 DEF KInv, KSetUp
  <2>3. KSetUp'
    BY <1>1, <1>2, <2>2 DEF KInv, KTypes, KSetUp, Gone, Setup
  <2> QED
    BY <2>1, <2>3
<1>4. AtMostOneToken'
  BY <1>1, <1>2 DEF KInv, AtMostOneToken, SHas, RHas
<1>5. KSlot' /\ (UnderWay' => UnderWay)
  BY <1>1, <1>2 DEF KSlot, Gone, UnderWay, Lying
<1> QED
  BY <1>1, <1>2, <1>3, <1>4, <1>5, Steady DEF KInv

(* The receiver is killed, and launched again. *)
LEMMA KillK ==
  ASSUME ReceiverKilled, KInv, NEW p \in Procs, Kill(p) \/ Relaunch(p)
  PROVE  KInv'
<1>1. /\ p = "receiver" /\ UNCHANGED <<flag, order, sem, queue, shm, k, rbuf, rcvd>>
      /\ ~Gone /\ S \notin Setup
      /\ Goto("receiver", "killed") \/ Goto("receiver", "start")
  BY DEF ReceiverKilled, KInv, KTypes, KSetUp, SenderAt, Setup, Procs, Over, Kill, Relaunch, At,
     Gone, S, R, ipc, env
<1>2. /\ S' = S /\ pc' \in [Procs -> SenderAt \cup {"failed"} \cup KilledAt]
      /\ R' \in {"killed", "start"}
  BY <1>1, KMoves DEF KInv, KilledAt
<1>3. KTypes' /\ KSetUp'
  BY <1>1, <1>2 DEF KInv, KTypes, KSetUp, Gone, KilledAt
<1>4. AtMostOneToken'
  BY <1>1, <1>2, Owner DEF KInv, AtMostOneToken, SHas, RHas
<1>5. KSlot' /\ (UnderWay' => UnderWay)
  BY <1>1, <1>2 DEF KInv, KSlot, Gone, UnderWay, Lying
<1> QED
  BY <1>1, <1>2, <1>3, <1>4, <1>5, Steady DEF KInv

LEMMA AgainK ==
  ASSUME ReceiverKilled, KInv, NewSession
  PROVE  KInv'
<1>1. /\ S' = "start" /\ R' = "start" /\ k' = 0 /\ rbuf' = <<Blank, Blank>> /\ rcvd' = <<>>
      /\ flag' \in {1, 2} /\ order' = "senderFirst" /\ UNCHANGED <<sem, queue, shm>>
      /\ pc' \in [Procs -> SenderAt \cup {"failed"} \cup KilledAt]
  BY MailboxAssumption DEF NewSession, ReceiverKilled, S, R, Procs, SenderAt, KilledAt, Setup, ipc
<1>2. KTypes'
  BY <1>1, Told, Objects, EmptySeq DEF KInv, KTypes, SenderAt, KilledAt, Setup
<1>3. KSetUp' /\ AtMostOneToken' /\ KSlot'
  BY <1>1 DEF KSetUp, AtMostOneToken, KSlot, Setup
<1>4. Indices'
  <2>1. Len(rcvd') = 0 /\ [x \in 1 .. 0 |-> x] \in [1 .. 0 -> 1 .. 0]
    BY <1>1
  <2>2. Places([x \in 1 .. 0 |-> x])'
    BY <1>1, <2>1 DEF Places, Setup
  <2> QED
    BY <1>1, <2>1, <2>2 DEF Indices
<1> QED
  BY <1>2, <1>3, <1>4 DEF KInv

LEMMA NextK == ReceiverKilled /\ KInv /\ [Next]_vars => KInv'
<1> SUFFICES ASSUME ReceiverKilled, KInv, [Next]_vars PROVE KInv'
  OBVIOUS
<1>1. CASE UNCHANGED vars
  <2>1. KTypes' /\ KSetUp' /\ AtMostOneToken' /\ KSlot' /\ (UnderWay' => UnderWay) /\ S' = S
    BY <1>1 DEF vars, KInv, KTypes, KSetUp, AtMostOneToken, KSlot, UnderWay, Lying, Gone, S, R,
       SHas, RHas
  <2> QED
    BY <1>1, <2>1, Steady DEF KInv, vars
<1> QED
  BY <1>1, SenderSetUpK, ReceiverSetUpK, SendK, ReceiveK, RemoveK, KillK, AgainK
     DEF Next, Sender, Receiver, Terminated

(* However often the receiver is killed, in whatever step, and whatever the file and the
   sessions: what it receives are lines of the file, none twice and none before an earlier
   one. *)
THEOREM Subsequence == ASSUME ReceiverKilled PROVE Spec => []AtMostOnce
<1>1. KInv => AtMostOnce
  <2> SUFFICES ASSUME KInv, NEW x \in DOMAIN rcvd, NEW y \in DOMAIN rcvd, x <= y
               PROVE  \E u, v \in DOMAIN Script :
                        /\ Script[u] = rcvd[x] /\ Script[v] = rcvd[y]
                        /\ IF x < y THEN u < v ELSE u = v
    BY DEF AtMostOnce
  <2>1. PICK ix \in [1 .. Len(rcvd) -> 1 .. k] : Places(ix)
    BY DEF KInv, Indices
  <2>2. /\ DOMAIN rcvd = 1 .. Len(rcvd) /\ Len(rcvd) \in Nat
        /\ DOMAIN Script = 1 .. Len(Script) /\ k \in 0 .. Len(Script) /\ Len(Script) \in Nat
    BY Told, LenProperties DEF KInv, KTypes
  <2>3. ix[x] \in DOMAIN Script /\ ix[y] \in DOMAIN Script
    BY <2>1, <2>2
  <2>4. Script[ix[x]] = rcvd[x] /\ Script[ix[y]] = rcvd[y] /\ (x < y => ix[x] < ix[y])
    BY <2>1, <2>2 DEF Places
  <2>5. ~(x < y) => x = y
    BY <2>2
  <2> QED
    BY <2>3, <2>4, <2>5
<1>2. Init => KInv
  BY InitK
<1>3. KInv /\ [Next]_vars => KInv'
  BY NextK
<1> QED
  BY <1>1, <1>2, <1>3, PTL DEF Spec, SafetySpec
=============================================================================
