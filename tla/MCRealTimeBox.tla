--------------------------- MODULE MCRealTimeBox ---------------------------
(* Model checking of RealTimeBox; RealTimeBox.cfg says how many sends.     *)
EXTENDS RealTimeBox, TLC
=============================================================================
