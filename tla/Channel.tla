------------------------------ MODULE Channel ------------------------------
(***************************************************************************)
(* What the Lab 1 mailbox promises: a slot for one message.  The sender    *)
(* puts in it the lines of its file and then Exit, the receiver takes      *)
(* every one of them once, in order; then another file may be sent.        *)
(***************************************************************************)
EXTENDS Naturals, Sequences

CONSTANTS File,       \* the lines the sender reads
          Exit,       \* the message that ends a session
          Free        \* an empty slot

Script == Append(File, Exit)

VARIABLES n,          \* messages put in the slot so far
          slot,       \* the message waiting, or Free
          rcvd        \* messages taken

cvars == <<n, slot, rcvd>>

Init == n = 0 /\ slot = Free /\ rcvd = <<>>

Send == /\ slot = Free
        /\ n < Len(Script)
        /\ n' = n + 1
        /\ slot' = Script[n + 1]
        /\ UNCHANGED rcvd

Recv == /\ slot # Free
        /\ rcvd' = Append(rcvd, slot)
        /\ slot' = Free
        /\ UNCHANGED n

Reset == /\ rcvd = Script
         /\ n' = 0 /\ slot' = Free /\ rcvd' = <<>>

Next == Send \/ Recv \/ Reset

SafetySpec == Init /\ [][Next]_cvars
Spec == SafetySpec /\ WF_cvars(Send) /\ WF_cvars(Recv)
=============================================================================
