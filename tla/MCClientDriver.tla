---------------------------- MODULE MCClientDriver ----------------------------
(* A small instance of ClientDriver for TLC.                                *)
EXTENDS ClientDriver
=============================================================================
