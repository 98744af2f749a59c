----------------------------- MODULE MCHistory -----------------------------
(* A small instance of the request history for TLC. *)
EXTENDS History
=============================================================================
