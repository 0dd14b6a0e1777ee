---------------------------- MODULE MCLifecycle ----------------------------
(* Lifecycle for TLC; it has no constants and needs no bounds.              *)
EXTENDS Lifecycle
=============================================================================
