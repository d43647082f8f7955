------------------------------ MODULE MCDmimo ------------------------------
(* Instances of Dmimo for TLC.                                             *)
EXTENDS Dmimo

\* Every bitmap there is, also overlapping and empty ones.
AnyBitmap == SUBSET (0 .. NUM_ANTENNA_PORTS - 1)
=============================================================================
