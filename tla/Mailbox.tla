------------------------------- MODULE Mailbox -------------------------------
(***************************************************************************)
(* What a subscription of the event bus promises its reader: records come  *)
(* out in the order they went in and none is skipped, until the box is     *)
(* shut, which is final and leaves nothing in it.  It may be shut at any   *)
(* time, also instead of taking a record in: its reader is too slow, or    *)
(* its event loop is gone.                                                 *)
(***************************************************************************)
EXTENDS Naturals, Sequences

CONSTANT
  Records   \* bound: records ever put, numbered from 1

VARIABLES
  box,   \* the numbers of the records that wait
  shut,
  put,   \* the last record put
  got    \* the last record taken

boxVars == <<box, shut, put, got>>

\* A box may start with the records that are replayed to its reader.
MailboxInit == /\ put \in 0..Records
               /\ box = [k \in 1..put |-> k]
               /\ shut = FALSE
               /\ got = 0

Shut == shut' = TRUE /\ box' = <<>>

Put == /\ ~shut
       /\ put < Records
       /\ put' = put + 1
       /\ \/ box' = Append(box, put + 1) /\ UNCHANGED shut
          \/ Shut
       /\ UNCHANGED got

Take == /\ box # <<>>
        /\ got' = Head(box)
        /\ box' = Tail(box)
        /\ UNCHANGED <<shut, put>>

Close == Shut /\ UNCHANGED <<put, got>>

MailboxNext == Put \/ Take \/ Close

MailboxSpec == MailboxInit /\ [][MailboxNext]_boxVars
=============================================================================
