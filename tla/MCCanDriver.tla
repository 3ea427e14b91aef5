---------------------------- MODULE MCCanDriver ----------------------------
(* Instances of CanDriver for TLC.                                         *)
EXTENDS CanDriver, TLC

CONSTANTS a, b   \* processes

(* Two processes that play the same part are interchangeable.              *)
Symmetry == Permutations({a, b})
=============================================================================
