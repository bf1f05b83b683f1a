--------------------------- MODULE MCTokenRefresh ---------------------------
(* Instances of TokenRefresh for TLC.                                       *)
EXTENDS TokenRefresh, TLC

CONSTANTS w1, w2, l1, a1, g1, g2

=============================================================================
