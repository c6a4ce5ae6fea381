---------------------------- MODULE MCShmBridge ----------------------------
(* Model checking of ShmBridge.                                            *)
EXTENDS ShmBridge, TLC
=============================================================================
