----------------------------- MODULE MCLifecycle -----------------------------
(* The model checked by MCLifecycle.cfg and MCLifecycleLiveness.cfg.        *)
EXTENDS Lifecycle
=============================================================================
