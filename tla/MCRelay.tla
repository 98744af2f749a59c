------------------------------ MODULE MCRelay ------------------------------
(* Small instances of the relay's request path for TLC. *)
EXTENDS Relay, TLC

CONSTANTS c1, c2

MCRemote == [c \in Conn |-> "r1"]

(* The first client asks the public for alice, its successor for bob.      *)
MCBasicAuth == (c1 :> "alice" @@ c2 :> "bob")
=============================================================================
