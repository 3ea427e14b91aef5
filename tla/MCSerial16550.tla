--------------------------- MODULE MCSerial16550 ---------------------------
(***************************************************************************)
(* Instances of Serial16550: a trigger level below the depth of the FIFO,  *)
(* a guest that has all interrupts on or, after a reset, none, and a modem *)
(* line that goes up and down.                                             *)
(***************************************************************************)
EXTENDS Serial16550

MCIerSets  == {{"RDI", "THRI", "RLSI", "MSI"}}
MCLineSets == {{"CTS", "DSR", "DCD"}, {"CTS", "DSR", "DCD", "RI"}}
=============================================================================
