---------------------------- MODULE MCBodyQueue ----------------------------
(* A small instance of BodyQueue for TLC.                                   *)
EXTENDS BodyQueue, TLC

Symmetry == Permutations(Streams)
=============================================================================
