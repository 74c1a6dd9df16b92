--------------------------- MODULE MCNetworkPlane ---------------------------
(* A small instance of the network plane.                                  *)
EXTENDS NetworkPlane
CONSTANTS home, office, none
=============================================================================
