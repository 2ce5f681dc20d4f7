--------------------------- MODULE MCSessionLoop ---------------------------
(* Model values and bounds for SessionLoop.                                *)
EXTENDS SessionLoop

CONSTANTS s1, s2, t1, t2, t3, none
============================================================================
