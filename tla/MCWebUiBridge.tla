--------------------------- MODULE MCWebUiBridge ---------------------------
(* Two calling tasks (the firmware has one; two exercise the 503 guard),   *)
(* two channels, and ids modulo 2 so that they wrap.                       *)
EXTENDS WebUiBridge

CONSTANTS http, other
=============================================================================
