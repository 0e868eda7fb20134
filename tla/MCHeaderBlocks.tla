---------------------------- MODULE MCHeaderBlocks ----------------------------
(* A small instance of HeaderBlocks for TLC.                                *)
EXTENDS HeaderBlocks, TLC

Symmetry == Permutations(Streams)
=============================================================================
