----------------------------- MODULE MCOtaRestart -----------------------------
(* The HTTP task, the network task, the main loop and the LVGL task; three *)
(* restarts asked for and two uploads.                                     *)
EXTENDS OtaRestart

CONSTANTS http, net, main, lvgl
=============================================================================
