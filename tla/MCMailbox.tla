----------------------------- MODULE MCMailbox -----------------------------
(* Small instances of Mailbox. *)
EXTENDS Mailbox
MCFile == <<"a", "b", "c">>            \* three different lines
MCFileWithExit == <<"a", "b", "exit", "c">> \* a line that is the end marker
=============================================================================
