----------------------------- MODULE MCIrqChain -----------------------------
(* Instances of IrqChain for TLC.                                           *)
EXTENDS IrqChain

CONSTANTS p1, p2, p3, i1, i2, i3, i4   \* ports and irq_info objects
=============================================================================
