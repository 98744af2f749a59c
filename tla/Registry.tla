----------------------------- MODULE Registry -----------------------------
(***************************************************************************)
(* The relay's tunnel registry (internal/server/server.go): one goroutine  *)
(* per control connection runs handleControlConn, which performs the       *)
(* handshake, reserves the tunnel name, starts a yamux session, registers  *)
(* it, waits for it to close and unregisters it.  Administrators run       *)
(* DisconnectTunnel at the same time.  The goroutines share the two maps   *)
(* sessions and pending, under one lock that each step below takes once:   *)
(* what a handler does between two critical sections is a step of its own. *)
(***************************************************************************)
EXTENDS FiniteSets

CONSTANTS
  Conn,           \* control connections, TCP and websocket alike
  Name,           \* well-formed tunnel names
  ReservedNames,  \* names no tunnel may have
  AllowNames,     \* when not empty, the only names a tunnel may have
  Remotes,        \* remote addresses as RemoteAddr().String() prints them
  Remote,         \* Remote[c]: the address of c; connections may share one
  Admin,          \* calls of DisconnectTunnel
  None            \* the nil of every map

ASSUME NoneAssumption == None \notin Conn \cup Name \cup Remotes
ASSUME RemoteAssumption == Remote \in [Conn -> Remotes]
ASSUME NamesAssumption == ReservedNames \subseteq Name /\ AllowNames \subseteq Name

VARIABLES
  pc,        \* pc[c]: where the handler of connection c stands
  name,      \* name[c]: hello.Name, None before the hello is accepted
  reply,     \* reply[c]: the verdict line of the handshake
  peer,      \* peer[c]: the client's end is "up", or "away" for good
  sess,      \* sess[c]: the yamux session of c
  sessions,  \* sessions[n]: the connection whose record is at n, or None
  pending,   \* pending[n]: the remote that reserved n, or None
  apc,       \* apc[a]: where the call a of DisconnectTunnel stands
  target,    \* target[a]: its argument
  found,     \* found[a]: the session it read from the map, or None
  outcome    \* outcome[a]: its result

connVars  == <<pc, name, reply, peer, sess>>
mapVars   == <<sessions, pending>>
adminVars == <<apc, target, found, outcome>>
vars == <<connVars, mapVars, adminVars>>

(* Before the name is decided: the handshake deadline is running. *)
Handshaking == {"hello", "response"}

(* From reserveName's success to register or releaseReservation. *)
Reserving == {"reserved", "greeted", "started", "releasing"}

PC == {"idle", "authenticated", "serving", "done"} \cup Handshaking \cup Reserving

Reply == {"none", "OK", "auth_failed", "not_allowed", "in_use", "unsupported"}

TypeOK ==
  /\ pc \in [Conn -> PC]
  /\ name \in [Conn -> Name \cup {None}]
  /\ reply \in [Conn -> Reply]
  /\ peer \in [Conn -> {"up", "away"}]
  /\ sess \in [Conn -> {"none", "open", "closed"}]
  /\ sessions \in [Name -> Conn \cup {None}]
  /\ pending \in [Name -> Remotes \cup {None}]
  /\ apc \in [Admin -> {"idle", "looked", "checked", "done"}]
  /\ target \in [Admin -> Name \cup {None}]
  /\ found \in [Admin -> Conn \cup {None}]
  /\ outcome \in [Admin -> {"none", "disconnected", "not_active"}]

Init ==
  /\ pc = [c \in Conn |-> "idle"]
  /\ name = [c \in Conn |-> None]
  /\ reply = [c \in Conn |-> "none"]
  /\ peer = [c \in Conn |-> "up"]
  /\ sess = [c \in Conn |-> "none"]
  /\ sessions = [n \in Name |-> None]
  /\ pending = [n \in Name |-> None]
  /\ apc = [a \in Admin |-> "idle"]
  /\ target = [a \in Admin |-> None]
  /\ found = [a \in Admin |-> None]
  /\ outcome = [a \in Admin |-> "none"]

-----------------------------------------------------------------------------
(* The rules a hello is checked against. *)

NameAllowed(n) ==
  /\ n \notin ReservedNames
  /\ AllowNames = {} \/ n \in AllowNames

(* session.IsClosed() is FALSE: the session at n can carry streams. *)
HasTunnel(n) == sessions[n] # None /\ sess[sessions[n]] = "open"

-----------------------------------------------------------------------------
(* The handler of one control connection. *)

Goto(c, l) == pc' = [pc EXCEPT ![c] = l]

(* The handler answers with an ERR line and closes the connection. *)
Reject(c, r) == Goto(c, "done") /\ reply' = [reply EXCEPT ![c] = r]

Accept(c) ==
  /\ pc[c] = "idle"
  /\ Goto(c, "hello")
  /\ UNCHANGED <<name, reply, peer, sess, mapVars, adminVars>>

(* The hello line arrives.  A hello that does not parse, asks for another  *)
(* protocol version or names a forbidden tunnel is refused; otherwise the  *)
(* handler sends its challenge and waits for the response.                 *)
ReadHello(c) ==
  /\ pc[c] = "hello"
  /\ \/ Reject(c, "auth_failed") /\ UNCHANGED name
     \/ Reject(c, "unsupported") /\ UNCHANGED name
     \/ \E n \in Name :
          /\ name' = [name EXCEPT ![c] = n]
          /\ \/ ~NameAllowed(n) /\ Reject(c, "not_allowed")
             \/ NameAllowed(n) /\ Goto(c, "response") /\ UNCHANGED reply
  /\ UNCHANGED <<peer, sess, mapVars, adminVars>>

(* The challenge response arrives, and is right or wrong for the token. *)
ReadResponse(c) ==
  /\ pc[c] = "response"
  /\ \/ Reject(c, "auth_failed")
     \/ Goto(c, "authenticated") /\ UNCHANGED reply
  /\ UNCHANGED <<name, peer, sess, mapVars, adminVars>>

(* Slip: no deadline, so that only a broken connection ends a handshake.   *)
HandshakeFailsNoDeadline(c) ==
  /\ pc[c] \in Handshaking
  /\ peer[c] = "away"
  /\ Goto(c, "done")
  /\ UNCHANGED <<name, reply, peer, sess, mapVars, adminVars>>

(* A read or a write of the handshake fails: the peer has left, or the     *)
(* handshake deadline has passed.  The connection is closed unanswered.    *)
HandshakeFails(c) ==
  /\ pc[c] \in Handshaking
  /\ Goto(c, "done")
  /\ UNCHANGED <<name, reply, peer, sess, mapVars, adminVars>>

(* One critical section: refuse a taken name, or note who reserves it.     *)
ReserveUnless(c, taken, remote) ==
  /\ pc[c] = "authenticated"
  /\ IF taken
       THEN Reject(c, "in_use") /\ UNCHANGED pending
       ELSE /\ pending' = [pending EXCEPT ![name[c]] = remote]
            /\ Goto(c, "reserved")
            /\ UNCHANGED reply
  /\ UNCHANGED <<name, peer, sess, sessions, adminVars>>

(* Slip: the pending map is not consulted. *)
ReserveNamePendingUnread(c) == ReserveUnless(c, HasTunnel(name[c]), Remote[c])

(* Slip: a session that is closed but not yet unregistered passes for live. *)
ReserveNameClosedCounts(c) ==
  ReserveUnless(c, sessions[name[c]] # None \/ pending[name[c]] # None, Remote[c])

(* reserveName: refused while the name has an open session or a pending    *)
(* reservation; a session that is closed but still in the map is no owner. *)
ReserveName(c) ==
  ReserveUnless(c, HasTunnel(name[c]) \/ pending[name[c]] # None, Remote[c])

(* The OK line is written, or its write fails. *)
SendOK(c) ==
  /\ pc[c] = "reserved"
  /\ \/ Goto(c, "greeted") /\ reply' = [reply EXCEPT ![c] = "OK"]
     \/ Goto(c, "releasing") /\ UNCHANGED reply
  /\ UNCHANGED <<name, peer, sess, mapVars, adminVars>>

(* yamux.Server: the session exists before it is in the map, and can fail  *)
(* there.  The library may also refuse to start one.                       *)
StartSession(c) ==
  /\ pc[c] = "greeted"
  /\ \/ Goto(c, "started") /\ sess' = [sess EXCEPT ![c] = "open"]
     \/ Goto(c, "releasing") /\ UNCHANGED sess
  /\ UNCHANGED <<name, reply, peer, mapVars, adminVars>>

(* Slip: the reservation stays when the OK line cannot be sent. *)
ReleaseForgotten(c) ==
  /\ pc[c] = "releasing"
  /\ Goto(c, "done")
  /\ UNCHANGED <<name, reply, peer, sess, mapVars, adminVars>>

(* releaseReservation compares remote addresses, not connections. *)
ReleaseReservation(c) ==
  /\ pc[c] = "releasing"
  /\ pending' = [pending EXCEPT ![name[c]] = IF @ = Remote[c] THEN None ELSE @]
  /\ Goto(c, "done")
  /\ UNCHANGED <<name, reply, peer, sess, sessions, adminVars>>

(* register: the reservation becomes a record, in one critical section. *)
Register(c) ==
  /\ pc[c] = "started"
  /\ pending' = [pending EXCEPT ![name[c]] = None]
  /\ sessions' = [sessions EXCEPT ![name[c]] = c]
  /\ Goto(c, "serving")
  /\ UNCHANGED <<name, reply, peer, sess, adminVars>>

(* Slip: unregister deletes by name, without comparing the session. *)
UnregisterByName(c) ==
  /\ pc[c] = "serving"
  /\ sess[c] = "closed"
  /\ sessions' = [sessions EXCEPT ![name[c]] = None]
  /\ Goto(c, "done")
  /\ UNCHANGED <<name, reply, peer, sess, pending, adminVars>>

(* The session has closed: its record goes, unless a successor's is there. *)
Unregister(c) ==
  /\ pc[c] = "serving"
  /\ sess[c] = "closed"
  /\ sessions' = [sessions EXCEPT ![name[c]] = IF @ = c THEN None ELSE @]
  /\ Goto(c, "done")
  /\ UNCHANGED <<name, reply, peer, sess, pending, adminVars>>

-----------------------------------------------------------------------------
(* The network and the yamux session, which no handler controls. *)

(* The client closes its end, crashes, or falls silent for ever behind a   *)
(* dead link.  What it had written before may still be read.               *)
PeerLeaves(c) ==
  /\ pc[c] \notin {"idle", "done"}
  /\ peer[c] = "up"
  /\ peer' = [peer EXCEPT ![c] = "away"]
  /\ UNCHANGED <<pc, name, reply, sess, mapVars, adminVars>>

(* yamux gives the session up: its connection broke, a keepalive was not   *)
(* answered in time, or the peer broke the framing.                        *)
SessionFails(c) ==
  /\ sess[c] = "open"
  /\ sess' = [sess EXCEPT ![c] = "closed"]
  /\ UNCHANGED <<pc, name, reply, peer, mapVars, adminVars>>

-----------------------------------------------------------------------------
(* DisconnectTunnel: the map is read under the lock, the rest runs without. *)

DisconnectLookup(a, n) ==
  /\ apc[a] = "idle"
  /\ target' = [target EXCEPT ![a] = n]
  /\ found' = [found EXCEPT ![a] = sessions[n]]
  /\ apc' = [apc EXCEPT ![a] = "looked"]
  /\ UNCHANGED <<connVars, mapVars, outcome>>

DisconnectCheck(a) ==
  /\ apc[a] = "looked"
  /\ IF found[a] # None /\ sess[found[a]] = "open"
       THEN apc' = [apc EXCEPT ![a] = "checked"] /\ UNCHANGED outcome
       ELSE /\ apc' = [apc EXCEPT ![a] = "done"]
            /\ outcome' = [outcome EXCEPT ![a] = "not_active"]
  /\ UNCHANGED <<connVars, mapVars, target, found>>

DisconnectClose(a) ==
  /\ apc[a] = "checked"
  /\ sess' = [sess EXCEPT ![found[a]] = "closed"]
  /\ apc' = [apc EXCEPT ![a] = "done"]
  /\ outcome' = [outcome EXCEPT ![a] = "disconnected"]
  /\ UNCHANGED <<pc, name, reply, peer, mapVars, target, found>>

-----------------------------------------------------------------------------

(* What the handler does without waiting for anyone but the lock. *)
HandlerStep(c) ==
  \/ ReserveName(c) \/ SendOK(c) \/ StartSession(c)
  \/ ReleaseReservation(c) \/ Register(c) \/ Unregister(c)

ConnStep(c) ==
  \/ Accept(c) \/ ReadHello(c) \/ ReadResponse(c) \/ HandshakeFails(c)
  \/ HandlerStep(c) \/ PeerLeaves(c) \/ SessionFails(c)

AdminStep(a) ==
  \/ \E n \in Name : DisconnectLookup(a, n)
  \/ DisconnectCheck(a) \/ DisconnectClose(a)

Next == (\E c \in Conn : ConnStep(c)) \/ (\E a \in Admin : AdminStep(a))

Spec == Init /\ [][Next]_vars

(* The deadline bounds the handshake; a runnable goroutine runs; yamux's   *)
(* keepalive finds out that the peer is not there any more.                *)
Fairness ==
  \A c \in Conn :
    /\ WF_vars(HandshakeFails(c))
    /\ WF_vars(HandlerStep(c))
    /\ WF_vars(peer[c] # "up" /\ SessionFails(c))

FairSpec == Spec /\ Fairness

-----------------------------------------------------------------------------
(* Correctness. *)

(* Connection c owns name n: its reservation stands, or its registered     *)
(* session is open.                                                        *)
Holds(c, n) ==
  /\ name[c] = n
  /\ pc[c] \in Reserving \/ (pc[c] = "serving" /\ sess[c] = "open")

(* "Tunnel names are single-owner while connected": no two connections own *)
(* a name, whatever the interleaving of their handlers with dying sessions *)
(* and administrators.                                                     *)
SingleOwner ==
  \A n \in Name : \A c, d \in Conn : Holds(c, n) /\ Holds(d, n) => c = d

(* While a registered session is open, the map leads to it: neither the    *)
(* late unregister of a predecessor nor a later register takes it away.    *)
LiveSessionRoutable ==
  \A c \in Conn :
    pc[c] = "serving" /\ sess[c] = "open" => sessions[name[c]] = c

-----------------------------------------------------------------------------
(* The inductive invariant: what each phase of a handler says of the maps. *)

(* A name stays fixed from the hello on. *)
NameKnown ==
  \A c \in Conn :
    pc[c] \in Reserving \cup {"response", "authenticated", "serving"}
      => name[c] \in Name

(* A handler decides once: until SendOK or a rejection nothing is said.    *)
Undecided ==
  \A c \in Conn :
    pc[c] \in {"idle", "authenticated", "reserved"} \cup Handshaking
      => reply[c] = "none"

(* An open session belongs to a handler that is going to wait for its end, *)
(* and such a handler has a session.                                       *)
SessionPhase ==
  \A c \in Conn :
    /\ sess[c] = "open" => pc[c] \in {"started", "serving"}
    /\ pc[c] \in {"started", "serving"} => sess[c] # "none"

(* One handler at a time is between reserveName and register for a name;   *)
(* the map holds its reservation, under its address, and nobody else's.    *)
PendingBacked ==
  /\ \A c, d \in Conn :
       pc[c] \in Reserving /\ pc[d] \in Reserving /\ name[c] = name[d] => c = d
  /\ \A c \in Conn : pc[c] \in Reserving => pending[name[c]] = Remote[c]
  /\ \A n \in Name :
       pending[n] # None => \E c \in Conn : pc[c] \in Reserving /\ name[c] = n

(* A record leads to the session of a handler that will remove it.         *)
RecordBacked ==
  \A n \in Name :
    sessions[n] # None => name[sessions[n]] = n /\ pc[sessions[n]] = "serving"

(* Nobody reserves a name while the map leads to an open session for it.   *)
ReservedNotServed ==
  \A c \in Conn : pc[c] \in Reserving => ~HasTunnel(name[c])

(* What the handlers rely on: the reservation is the handler's own, a      *)
(* record is its session's own, and the two never coexist for a name while *)
(* the session is open.  A leaked reservation would lock the name for ever. *)
RegistryInv ==
  /\ TypeOK
  /\ NameKnown
  /\ Undecided
  /\ SessionPhase
  /\ PendingBacked
  /\ RecordBacked
  /\ ReservedNotServed
  /\ LiveSessionRoutable

-----------------------------------------------------------------------------

(* Every connection the relay accepts is decided, one way or the other,    *)
(* even when the peer never writes a byte.                                 *)
HandshakeEnds ==
  \A c \in Conn : pc[c] = "hello" ~> pc[c] \in {"serving", "done"}

(* A client that has left, even silently, does not keep its name, and no   *)
(* reservation outlives its handshake, however it ends: the name becomes   *)
(* free for the next connection.                                           *)
NameFreed ==
  /\ \A n \in Name : pending[n] # None ~> pending[n] = None
  /\ \A c \in Conn, n \in Name : Holds(c, n) /\ peer[c] # "up" ~> ~Holds(c, n)

(* The registry keeps the promise of TunnelName. *)
Holder == [n \in Name |-> {c \in Conn : Holds(c, n)}]

VerdictOf ==
  [c \in Conn |-> IF reply[c] = "OK" THEN "granted"
                  ELSE IF reply[c] = "in_use" THEN "refused" ELSE "none"]

Lease == INSTANCE TunnelName WITH holder <- Holder, verdict <- VerdictOf

(* Every behaviour of the registry is one of single-owner names: a name is *)
(* taken only when free, granted only to its holder, refused only while    *)
(* somebody else holds it.                                                 *)
LeaseSpec == Lease!Spec
=============================================================================
