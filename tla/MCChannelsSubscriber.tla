------------------------ MODULE MCChannelsSubscriber ------------------------
(* Model checking of ChannelsSubscriber: one transmitter, whose sources are *)
(* interchangeable.                                                         *)
EXTENDS ChannelsSubscriber, TLC

OneServer  == [s \in Sources |-> 1]
FirstSlot  == [s \in Sources |-> 0]
Alike      == Permutations(Sources)
=============================================================================
