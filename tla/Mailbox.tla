------------------------------- MODULE Mailbox -------------------------------
(***************************************************************************)
(* What util/real_time_box_channel.rs promises its users: a mailbox for one *)
(* value.  A send replaces the value that waits, a receive takes it; the    *)
(* receiver may be given any value that is newer than the one it has, and   *)
(* once it has asked often enough it is given the last one.                 *)
(***************************************************************************)
EXTENDS Naturals

CONSTANT
  None           \* the mailbox is empty

VARIABLES
  waiting,       \* the value that waits, or None
  current,       \* the value the receiver works with
  issued         \* values are numbered in the order they are issued

vars == <<waiting, current, issued>>

Init == waiting = None /\ current = 0 /\ issued = 0

\* A value comes into being; the sender has it.
Issue ==
  /\ issued' = issued + 1
  /\ UNCHANGED <<waiting, current>>

\* The sender puts the last value it has issued into the mailbox.
Post ==
  /\ waiting' = issued
  /\ UNCHANGED <<current, issued>>

Receive ==
  /\ waiting # None
  /\ current' = waiting
  /\ waiting' = None
  /\ UNCHANGED issued

Next == Issue \/ Post \/ Receive

Spec == Init /\ [][Next]_vars
=============================================================================
