----------------------------- MODULE MCEventBus -----------------------------
(***************************************************************************)
(* Streams, plain tasks and handlers of the event bus for TLC.             *)
(***************************************************************************)
EXTENDS EventBus
=============================================================================
