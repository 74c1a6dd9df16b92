-------------------------- MODULE MCWakePowerGuard --------------------------
(* The LVGL task and at most one background task; a clock modulo 4 with a  *)
(* failsafe of 2 ticks and a quiet interval of 1.                          *)
EXTENDS WakePowerGuard

CONSTANTS lvgl, network
=============================================================================
