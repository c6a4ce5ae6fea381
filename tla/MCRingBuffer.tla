----------------------------- MODULE MCRingBuffer -----------------------------
(* Small instances of RingBuffer for TLC. *)
EXTENDS RingBuffer, TLC
=============================================================================
