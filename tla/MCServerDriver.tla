---------------------------- MODULE MCServerDriver ----------------------------
(* A small instance of ServerDriver for TLC.                                *)
EXTENDS ServerDriver
=============================================================================
