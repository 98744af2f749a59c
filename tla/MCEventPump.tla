---------------------------- MODULE MCEventPump ----------------------------
(* Small instances of the event pump for TLC. *)
EXTENDS EventPump
=============================================================================
