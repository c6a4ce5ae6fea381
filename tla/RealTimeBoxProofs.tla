------------------------- MODULE RealTimeBoxProofs -------------------------
(***************************************************************************)
(* Proofs about RealTimeBox, for any number of sends: the boxes always     *)
(* have exactly one owner, the real-time thread never frees one, and the   *)
(* channel implements the mailbox of module Mailbox.                       *)
(***************************************************************************)
EXTENDS RealTimeBox, TLAPS

\* The invariant holds before the first send.
LEMMA InitInv == Init => IndInv
BY NoneAssumption
DEF Init, IndInv, TypeOK, Boxes, SingleOwner, RealTimeNeverFrees, OwnInv, In

\* prev.take by the sender, alone or as the beginning of send, keeps the
\* invariant.
LEMMA CollectStep == IndInv /\ CollectGarbage => IndInv'
BY NoneAssumption
DEF CollectGarbage, TakeGarbage, IndInv, TypeOK, Boxes, SingleOwner,
    RealTimeNeverFrees, OwnInv, In, receiver

\* The beginning of a send keeps the invariant: the new box is the newest.
LEMMA BeginSendStep == IndInv /\ BeginSend => IndInv'
BY NoneAssumption
DEF BeginSend, TakeGarbage, IndInv, TypeOK, Boxes, SingleOwner,
    RealTimeNeverFrees, OwnInv, In, receiver

\* The swap of next keeps the invariant.
LEMMA EndSendStep == IndInv /\ EndSend => IndInv'
BY NoneAssumption
DEF EndSend, IndInv, TypeOK, Boxes, SingleOwner,
    RealTimeNeverFrees, OwnInv, In, receiver

\* The take of prev by update keeps the invariant.
LEMMA TakePrevStep == IndInv /\ TakePrev => IndInv'
BY NoneAssumption
DEF TakePrev, IndInv, TypeOK, Boxes, SingleOwner,
    RealTimeNeverFrees, OwnInv, In, sender

\* The take of next by update keeps the invariant.
LEMMA TakeNextStep == IndInv /\ TakeNext => IndInv'
<1> SUFFICES ASSUME IndInv, TakeNext PROVE IndInv'
  OBVIOUS
<1> USE NoneAssumption DEF IndInv, TypeOK, Boxes
<1>1. CASE next = None
  BY <1>1 DEF TakeNext, SingleOwner, RealTimeNeverFrees, OwnInv, In, sender
<1>2. CASE next # None
  <2>1. prev = None
    BY DEF TakeNext, OwnInv, SingleOwner, In
  <2>2. TypeOK' /\ RealTimeNeverFrees' /\ OwnInv'
    BY <1>2, <2>1 DEF TakeNext, RealTimeNeverFrees, OwnInv, sender
  <2>3. SingleOwner'
    BY <1>2 DEF TakeNext, SingleOwner, OwnInv, In, sender
  <2> QED
    BY <2>2, <2>3
<1> QED
  BY <1>1, <1>2

\* The swap of prev by update keeps the invariant.
LEMMA PutPrevStep == IndInv /\ PutPrev => IndInv'
BY NoneAssumption
DEF PutPrev, IndInv, TypeOK, Boxes, SingleOwner,
    RealTimeNeverFrees, OwnInv, In, sender

\* Every step keeps the invariant.
LEMMA NextStep == IndInv /\ [Next]_vars => IndInv'
<1> SUFFICES ASSUME IndInv, [Next]_vars PROVE IndInv'
  OBVIOUS
<1>1. CASE Next
  BY <1>1, CollectStep, BeginSendStep, EndSendStep, TakePrevStep, TakeNextStep,
     PutPrevStep DEF Next, Update
<1>2. CASE UNCHANGED vars
  BY <1>2
  DEF vars, shared, sender, receiver, IndInv, TypeOK, Boxes, SingleOwner,
      RealTimeNeverFrees, OwnInv, In
<1> QED
  BY <1>1, <1>2

\* The invariant of the channel: who owns which box, and that a box on its way
\* to the receiver is newer than the one the receiver has.
THEOREM BoxInvariant == Spec => []IndInv
BY InitInv, NextStep, PTL DEF Spec

\* Every box is in exactly one place, whatever the interleaving of send,
\* collect_garbage and update.
THEOREM BoxesHaveOneOwner == Spec => []SingleOwner
<1>1. IndInv => SingleOwner
  BY DEF IndInv
<1> QED
  BY <1>1, BoxInvariant, PTL

\* update never drops a box on the real-time thread, and its debug assertions
\* hold.
THEOREM NoFreeInRealTime == Spec => []RealTimeNeverFrees
<1>1. IndInv => RealTimeNeverFrees
  BY DEF IndInv
<1> QED
  BY <1>1, BoxInvariant, PTL

\* The receiver's value is never replaced by an older one.
THEOREM ValuesNeverOlder == Spec => NeverOlder
<1>1. IndInv /\ [Next]_vars => [curr' >= curr]_vars
  BY DEF IndInv, TypeOK, Boxes, OwnInv, Next, Update, CollectGarbage, BeginSend, EndSend,
         TakePrev, TakeNext, PutPrev, vars, sender, receiver
<1> QED
  BY <1>1, BoxInvariant, PTL DEF Spec, NeverOlder

\* A step of the channel is a step of the mailbox or none: TakeNext receives,
\* EndSend posts, BeginSend issues.
LEMMA MailboxStep == IndInv /\ [Next]_vars => [Promise!Next]_(Promise!vars)
<1> SUFFICES ASSUME IndInv, [Next]_vars PROVE [Promise!Next]_(Promise!vars)
  OBVIOUS
<1> USE DEF Promise!Next, Promise!vars
<1>1. CASE CollectGarbage \/ TakePrev \/ PutPrev \/ UNCHANGED vars
  BY <1>1 DEF CollectGarbage, TakePrev, PutPrev, vars, shared, sender, receiver
<1>2. CASE BeginSend
  BY <1>2 DEF BeginSend, receiver, Promise!Issue
<1>3. CASE EndSend
  BY <1>3 DEF EndSend, receiver, IndInv, OwnInv, Promise!Post
<1>4. CASE TakeNext
  BY <1>4 DEF TakeNext, sender, Promise!Receive
<1> QED
  BY <1>1, <1>2, <1>3, <1>4 DEF Next, Update

\* The channel, with its separate takes and swaps, implements the mailbox for
\* one value.
THEOREM ImplementsMailbox == Spec => IsMailbox
<1>1. Init => Promise!Init
  BY DEF Init, Promise!Init
<1> QED
  BY <1>1, MailboxStep, BoxInvariant, PTL DEF Spec, IsMailbox, Promise!Spec
=============================================================================
