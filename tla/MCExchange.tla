----------------------------- MODULE MCExchange -----------------------------
(* Small instances of one exchange for TLC. *)
EXTENDS Daemon
=============================================================================
