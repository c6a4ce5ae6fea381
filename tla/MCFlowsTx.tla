----------------------------- MODULE MCFlowsTx -----------------------------
(* Model checking of FlowsTx.  Cookies are interchangeable.                *)
EXTENDS FlowsTx, TLC

CookieSymmetry == Permutations(Cookies)
=============================================================================
