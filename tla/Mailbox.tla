------------------------------ MODULE Mailbox ------------------------------
(***************************************************************************)
(* Lab1: sender.c and receiver.c exchange the lines of a file through one  *)
(* slot, a System V message queue (flag 1) or a shared memory segment      *)
(* (flag 2), guarded by the semaphores empty and full of one set.  The     *)
(* queue, the segment and the set are kernel objects: they outlive the     *)
(* processes until somebody removes them.  A session is one launch of both *)
(* programs with the same flag; the next starts when both have ended.      *)
(***************************************************************************)
EXTENDS Naturals, Sequences

CONSTANTS File,         \* what fgets returns, line by line
          Flags,        \* mailbox kinds a session may use
          Orders,       \* who is launched first, see MayStart
          Killable,     \* processes that may be killed and launched again
          MaxKills, MaxSessions,
          None          \* an object that does not exist; an empty slot

Exit  == "exit"         \* EXIT_MSG
Blank == ""             \* what a zeroed segment holds
Script == Append(File, Exit)

ASSUME MailboxAssumption ==
  /\ File \in Seq(STRING) /\ {Exit, Blank} \subseteq STRING
  /\ Flags \subseteq {1, 2} /\ Flags # {}
  /\ Orders \subseteq {"senderFirst", "receiverFirst", "any"} /\ Orders # {}
  /\ Killable \subseteq {"sender", "receiver"}
  /\ MaxKills \in Nat /\ MaxSessions \in Nat
  /\ None \notin STRING \cup Seq(STRING) \cup [empty : Nat, full : Nat]

VARIABLES
  flag, order,          \* of the current session
  sem,                  \* the semaphore set: None or [empty, full]
  queue,                \* the message queue: None or a sequence
  shm,                  \* the segment: None or its two halves
  pc,                   \* next step of "sender" and "receiver"
  k,                    \* messages the sender has put in the slot
  rbuf, rcvd,           \* receiver: message buffer (two halves), messages received
  kills, session        \* how often a process was killed, sessions started

ipc  == <<sem, queue, shm>>
env  == <<flag, order, kills, session>>
vars == <<flag, order, sem, queue, shm, pc, k, rbuf, rcvd, kills, session>>

Procs == {"sender", "receiver"}
Setup == {"start", "semget", "set0", "set1"}
Over  == {"done", "failed", "killed"}

Init == /\ flag \in Flags /\ order \in Orders
        /\ sem = None /\ queue = None /\ shm = None
        /\ pc = [p \in Procs |-> "start"]
        /\ k = 0 /\ rbuf = <<Blank, Blank>> /\ rcvd = <<>>
        /\ kills = 0 /\ session = 1

At(p, l)   == pc[p] = l
Goto(p, l) == pc' = [pc EXCEPT ![p] = l]
-----------------------------------------------------------------------------
(* The operator launches the second program once the first is set up, unless
   the order of the session is "any". *)
MayStart(p) == CASE order = "any" -> TRUE
                 [] order = "senderFirst" -> p = "sender" \/ pc["sender"] \notin Setup
                 [] OTHER -> p = "receiver" \/ pc["receiver"] \notin Setup

(* msgget(IPC_CREAT), or shmget(IPC_CREAT) and shmat; only the sender clears
   the segment, a new one is born zeroed. *)
GetStorage(p) ==
  /\ At(p, "start") /\ MayStart(p) /\ Goto(p, "semget")
  /\ IF flag = 1
     THEN queue' = (IF queue = None THEN <<>> ELSE queue) /\ UNCHANGED shm
     ELSE shm' = (IF shm = None \/ p = "sender" THEN <<Blank, Blank>> ELSE shm)
          /\ UNCHANGED queue
  /\ UNCHANGED <<sem, k, rbuf, rcvd, env>>

(* The sender's semget takes the set there is or creates it, and initialises it
   either way; the receiver initialises only a set it created (IPC_EXCL). *)
SemgetInitAlways(p) ==
  /\ At(p, "semget")
  /\ sem' = IF sem = None THEN [empty |-> 0, full |-> 0] ELSE sem
  /\ Goto(p, "set0")
  /\ UNCHANGED <<queue, shm, k, rbuf, rcvd, env>>
Semget(p) ==
  /\ At(p, "semget")
  /\ sem' = IF sem = None THEN [empty |-> 0, full |-> 0] ELSE sem
  /\ Goto(p, IF p = "sender" \/ sem = None THEN "set0" ELSE "P")
  /\ UNCHANGED <<queue, shm, k, rbuf, rcvd, env>>

(* The two semctl(SETVAL) calls; on a removed set they fail and main returns. *)
SetVal(p, from, s, v, to) ==
  /\ At(p, from)
  /\ IF sem = None THEN UNCHANGED sem /\ Goto(p, "failed")
                   ELSE sem' = [sem EXCEPT ![s] = v] /\ Goto(p, to)
  /\ UNCHANGED <<queue, shm, k, rbuf, rcvd, env>>

SetEmpty(p) == SetVal(p, "set0", "empty", 1, "set1")
SetFull(p)  == SetVal(p, "set1", "full", 0, "P")

(* P blocks at zero and fails on a removed set, and then the process exits. *)
P(p, s, to) ==
  /\ At(p, "P")
  /\ IF sem = None THEN UNCHANGED sem /\ Goto(p, "failed")
                   ELSE /\ sem[s] > 0
                        /\ sem' = [sem EXCEPT ![s] = @ - 1]
                        /\ Goto(p, to)
  /\ UNCHANGED <<queue, shm, k, rbuf, rcvd, env>>

V(p, s, to) ==
  /\ At(p, "V")
  /\ IF sem = None THEN UNCHANGED sem /\ Goto(p, "failed")
                   ELSE sem' = [sem EXCEPT ![s] = @ + 1] /\ Goto(p, to)
-----------------------------------------------------------------------------
(* send() *)
PEmptyUnguarded == /\ At("sender", "P") /\ Goto("sender", "put")
                   /\ UNCHANGED <<ipc, k, rbuf, rcvd, env>>
PEmpty == P("sender", "empty", "put")

(* msgsnd of a full-size message: msg_qbytes leaves room for one. *)
Msgsnd == /\ flag = 1 /\ At("sender", "put")
          /\ IF queue = None
             THEN Goto("sender", "failed") /\ UNCHANGED <<queue, k>>
             ELSE /\ queue = <<>>
                  /\ queue' = <<Script[k + 1]>> /\ k' = k + 1
                  /\ Goto("sender", "V")
          /\ UNCHANGED <<sem, shm, rbuf, rcvd, env>>

(* strncpy into the segment, byte after byte: two halves stand for that.  A
   removed segment stays attached, but nobody else will see it. *)
StrncpyIn(l, half, to) ==
  /\ flag = 2 /\ At("sender", l) /\ Goto("sender", to)
  /\ shm' = IF shm = None THEN None ELSE [shm EXCEPT ![half] = Script[k + 1]]
  /\ k' = IF to = "V" THEN k + 1 ELSE k
  /\ UNCHANGED <<sem, queue, rbuf, rcvd, env>>

VFullEarly == /\ V("sender", "full", IF k = 1 THEN "done" ELSE "P")
              /\ UNCHANGED <<queue, shm, k, rbuf, rcvd, env>>
VFull == /\ V("sender", "full", IF k = Len(Script) THEN "done" ELSE "P")
         /\ UNCHANGED <<queue, shm, k, rbuf, rcvd, env>>

Send == \/ PEmpty \/ Msgsnd \/ VFull
        \/ StrncpyIn("put", 1, "put2") \/ StrncpyIn("put2", 2, "V")

Sender == GetStorage("sender") \/ Semget("sender") \/ SetEmpty("sender")
          \/ SetFull("sender") \/ Send
-----------------------------------------------------------------------------
(* receive() *)
PFull == P("receiver", "full", "get")

Msgrcv == /\ flag = 1 /\ At("receiver", "get")
          /\ queue \notin {None, <<>>}
          /\ rbuf' = <<Head(queue), Head(queue)>>
          /\ queue' = Tail(queue)
          /\ Goto("receiver", "V")
          /\ UNCHANGED <<sem, shm, k, rcvd, env>>

StrncpyOut(l, half, to) ==
  /\ flag = 2 /\ At("receiver", l) /\ Goto("receiver", to)
  /\ shm # None
  /\ rbuf' = [rbuf EXCEPT ![half] = shm[half]]
  /\ UNCHANGED <<ipc, k, rcvd, env>>

(* V(empty), then main prints the message and leaves its loop at EXIT_MSG. *)
VEmptyTwice == /\ V("receiver", "empty", IF rbuf[1] = Exit THEN "rmid" ELSE "P")
               /\ rcvd' = rcvd \o <<rbuf[1], rbuf[1]>>
               /\ UNCHANGED <<queue, shm, k, rbuf, env>>
VEmpty == /\ V("receiver", "empty", IF rbuf[1] = Exit THEN "rmid" ELSE "P")
          /\ rcvd' = Append(rcvd, rbuf[1])
          /\ UNCHANGED <<queue, shm, k, rbuf, env>>

(* The receiver removes its storage, and in shared memory mode the semaphores. *)
RmStorage == /\ At("receiver", "rmid")
             /\ IF flag = 1 THEN queue' = None /\ UNCHANGED shm /\ Goto("receiver", "done")
                            ELSE shm' = None /\ UNCHANGED queue /\ Goto("receiver", "rmsem")
             /\ UNCHANGED <<sem, k, rbuf, rcvd, env>>
RmSem == /\ At("receiver", "rmsem") /\ Goto("receiver", "done")
         /\ sem' = None
         /\ UNCHANGED <<queue, shm, k, rbuf, rcvd, env>>

Receive == \/ PFull \/ Msgrcv \/ VEmpty
           \/ StrncpyOut("get", 1, "get2") \/ StrncpyOut("get2", 2, "V")

Receiver == GetStorage("receiver") \/ Semget("receiver") \/ SetEmpty("receiver")
            \/ SetFull("receiver") \/ Receive \/ RmStorage \/ RmSem
-----------------------------------------------------------------------------
(* A signal ends a process between two steps; its semaphore operations are not
   undone (sem_flg is 0).  It is launched again: the sender from the first line
   of its file. *)
Kill(p) == /\ p \in Killable /\ kills < MaxKills
           /\ pc[p] \notin Over \cup {"start", "rmid", "rmsem"}
           /\ Goto(p, "killed") /\ kills' = kills + 1
           /\ UNCHANGED <<flag, order, ipc, k, rbuf, rcvd, session>>

Relaunch(p) == /\ At(p, "killed") /\ Goto(p, "start")
               /\ k' = IF p = "sender" THEN 0 ELSE k
               /\ UNCHANGED <<ipc, rbuf, rcvd, env>>

NewSession == /\ session < MaxSessions
              /\ \A p \in Procs : pc[p] \in Over
              /\ flag' \in Flags /\ order' \in Orders
              /\ pc' = [p \in Procs |-> "start"]
              /\ k' = 0 /\ rbuf' = <<Blank, Blank>> /\ rcvd' = <<>>
              /\ session' = session + 1
              /\ UNCHANGED <<ipc, kills>>

Terminated == /\ session = MaxSessions /\ \A p \in Procs : pc[p] \in Over
              /\ UNCHANGED vars

Next == \/ Sender \/ Receiver \/ NewSession \/ Terminated
        \/ \E p \in Procs : Kill(p) \/ Relaunch(p)

(* The kernel runs both processes; nothing obliges the user to go on. *)
Fairness == WF_vars(Sender) /\ WF_vars(Receiver)

SafetySpec == Init /\ [][Next]_vars
Spec == SafetySpec /\ Fairness
-----------------------------------------------------------------------------
Writing == pc["sender"] \in {"put", "put2"}
Reading == pc["receiver"] \in {"get", "get2"}

(* sender.c and receiver.c never work on the slot at the same time. *)
SlotExclusive == ~(Writing /\ Reading)

One(b) == IF b THEN 1 ELSE 0

(* Once the sender has initialised the set, the two semaphores and the process
   between its P and its V make exactly one token: no start-up order and no
   left-over set adds or loses one. *)
OneToken ==
  pc["sender"] \notin Setup /\ sem # None =>
    sem.empty + sem.full + One(Writing \/ At("sender", "V"))
                         + One(Reading \/ At("receiver", "V")) = 1

(* The messages received are the first of those sent, none lost, repeated or
   overtaken. *)
InOrder == /\ Len(rcvd) <= k
           /\ rcvd = SubSeq(Script, 1, Len(rcvd))

(* Whatever the receiver survives, what reaches it are lines of the file, none twice
   or out of order. *)
AtMostOnce == \A x, y \in DOMAIN rcvd : x <= y =>
                \E u, v \in DOMAIN Script :
                   /\ Script[u] = rcvd[x] /\ Script[v] = rcvd[y]
                   /\ IF x < y THEN u < v ELSE u = v

(* Every session comes to its end in both processes, nobody waits on a
   semaphore for ever. *)
SessionEnds == \A s \in 1 .. MaxSessions :
  session = s ~> (session = s /\ \A p \in Procs : At(p, "done"))

(* The mailbox is a one-slot channel: the slot fills when the sender's copy is
   complete and empties when the receiver gives the token back. *)
Slot == IF At("receiver", "V") THEN rbuf[1]
        ELSE IF \/ At("sender", "V") \/ Reading
                \/ sem # None /\ pc["sender"] \notin Setup /\ sem.full = 1
             THEN IF flag = 1 THEN queue[1] ELSE shm[1]
             ELSE None
Ch == INSTANCE Channel WITH n <- k, slot <- Slot, Free <- None
ChannelSpec == Ch!Spec
=============================================================================
