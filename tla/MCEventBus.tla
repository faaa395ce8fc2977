----------------------------- MODULE MCEventBus -----------------------------
(* EventBus on small sets.                                                 *)
EXTENDS EventBus, TLC
=============================================================================
