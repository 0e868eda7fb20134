---------------------------- MODULE MCInboundData ----------------------------
(* A small instance of InboundData for TLC.                                 *)
EXTENDS InboundData
=============================================================================
