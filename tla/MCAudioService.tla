--------------------------- MODULE MCAudioService ---------------------------
(* Model checking of AudioService.                                         *)
EXTENDS AudioService, TLC
=============================================================================
