---------------------------- MODULE TunnelName ----------------------------
(***************************************************************************)
(* What the relay promises about tunnel names, and nothing of how it keeps *)
(* the promise.  A name has at most one holder.  A connection is granted a *)
(* name only while it is the holder, and is refused one only while some    *)
(* connection holds it.  The README of the repository says the same:       *)
(* "Tunnel names are single-owner while connected; duplicate connections   *)
(* are rejected."                                                          *)
(***************************************************************************)
CONSTANTS Conn,     \* control connections
          Name      \* tunnel names

VARIABLES holder,   \* holder[n]: the connections that hold name n
          verdict   \* verdict[c]: what connection c was told about its name

vars == <<holder, verdict>>

Verdict == {"none", "granted", "refused"}

TypeOK ==
  /\ holder \in [Name -> SUBSET Conn]
  /\ verdict \in [Conn -> Verdict]

Init ==
  /\ holder = [n \in Name |-> {}]
  /\ verdict = [c \in Conn |-> "none"]

(* A free name is taken. *)
Acquire(c, n) ==
  /\ holder[n] = {}
  /\ verdict[c] = "none"
  /\ holder' = [holder EXCEPT ![n] = {c}]
  /\ UNCHANGED verdict

(* The holder is told that the name is its own. *)
Grant(c, n) ==
  /\ holder[n] = {c}
  /\ verdict[c] = "none"
  /\ verdict' = [verdict EXCEPT ![c] = "granted"]
  /\ UNCHANGED holder

(* A connection is turned away because another one holds the name. *)
Refuse(c, n) ==
  /\ holder[n] \notin {{}, {c}}
  /\ verdict[c] = "none"
  /\ verdict' = [verdict EXCEPT ![c] = "refused"]
  /\ UNCHANGED holder

(* The holder gives the name up: it left, or its session ended. *)
Release(c, n) ==
  /\ holder[n] = {c}
  /\ holder' = [holder EXCEPT ![n] = {}]
  /\ UNCHANGED verdict

Next ==
  \E c \in Conn, n \in Name :
    Acquire(c, n) \/ Grant(c, n) \/ Refuse(c, n) \/ Release(c, n)

Spec == Init /\ [][Next]_vars
=============================================================================
