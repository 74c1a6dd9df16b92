---- MODULE MCOtaUpdate ----
(* Instances of OtaUpdate for TLC: two confirmations, so that an older one is *)
(* still known to some task when the next is created, and a few requests.     *)
EXTENDS OtaUpdate

OneSize == {1}
TwoSizes == {1, 2}
=============================================================================
