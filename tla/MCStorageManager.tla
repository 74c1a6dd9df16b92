---------------------------- MODULE MCStorageManager ----------------------------
(* One sidecar file, the task of loop() and another, and two changes, of which *)
(* the second makes the device crash: any of the setters may save it.          *)
EXTENDS StorageManager

CONSTANTS main, other

Configurations == [wifi : {0, 1, 2, Mixed}, rest : 0 .. 2]
=============================================================================
