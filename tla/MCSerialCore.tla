---------------------------- MODULE MCSerialCore ----------------------------
(* Instances of SerialCore for TLC.                                         *)
EXTENDS SerialCore

CONSTANTS f, g   \* files
=============================================================================
