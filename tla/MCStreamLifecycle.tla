-------------------------- MODULE MCStreamLifecycle --------------------------
(* Small instances of StreamLifecycle for TLC.                              *)
EXTENDS StreamLifecycle
=============================================================================
