---------------------------- MODULE MCRegistry ----------------------------
(* Small instances of the registry for TLC. *)
EXTENDS Registry, TLC

CONSTANTS c1, c2, c3

(* Two connections share an address, as websocket connections do that a    *)
(* reverse proxy terminates.                                               *)
MCRemote == [c \in Conn |-> IF c = c3 THEN "r2" ELSE "r1"]
MCRemotes == {"r1", "r2"}
=============================================================================
