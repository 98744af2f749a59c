---------------------------- MODULE MCClientRun ----------------------------
(* Small instances of the client's run loop for TLC. *)
EXTENDS ClientRun, TLC

CONSTANTS m1, m2, s1, e1

MCRemote == [c \in Conn |-> IF c \in {m1, m2} THEN "r1" ELSE "r2"]
=============================================================================
