--------------------------- MODULE MCTxMulticasts ---------------------------
(* Model checking of TxMulticasts.  Addresses, receivers and channels are   *)
(* interchangeable.                                                         *)
EXTENDS TxMulticasts, TLC

Alike == Permutations(Groups) \cup Permutations(Unicast) \cup Permutations(Channels)
=============================================================================
