------------------------- MODULE MCPauseController -------------------------
(* A small instance of the pause gate for TLC. *)
EXTENDS PauseController
=============================================================================
