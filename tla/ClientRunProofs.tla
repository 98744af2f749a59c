-------------------------- MODULE ClientRunProofs --------------------------
(***************************************************************************)
(* Proofs about the client's run loop, for any number of attempts and of   *)
(* strangers: the relay it talks to is the registry, so no name has two    *)
(* owners whatever clients do; the client has one connection to it at a    *)
(* time; and calls itself connected to it only where it was granted its    *)
(* own name.                                                               *)
(***************************************************************************)
EXTENDS ClientRun, RegistryProofs

USE ClientAssumption, NoneAssumption

(* A granted connection of the client's has the client's name.             *)
GrantInv ==
  /\ \A c \in Mine : name[c] \in {None, ClientName}
  /\ \A c \in Mine : reply[c] = "OK" => name[c] = ClientName
  /\ cpc \in {"verdict", "accepting"} /\ conn \in Mine => conn \in responded
  /\ ConnectedIsGranted

ClientInv == AttemptInv /\ GrantInv

-----------------------------------------------------------------------------

(* Every error of an attempt closes its connection, and ends nothing else. *)
LEMMA ErrorsEndAttempts ==
  ASSUME ReadRefusal \/ ReadOtherLine \/ ConnectionLost
  PROVE  cpc \in Connected /\ (EndAttempt("waiting") \/ EndAttempt("failed"))
BY DEF ReadRefusal, ReadOtherLine, ConnectionLost, HelloFails, ResponseFails,
       SessionUnstarted, SessionEnds, Retry, GiveUp, Connected

(* Closing a connection is at most the departure of a peer, and nothing to *)
(* the relay when it is not one to the relay.                              *)
LEMMA CloseIsPeerLeaving ==
  ASSUME TypeOK, NEW c, CloseConn(c)
  PROVE  (c \in Conn /\ PeerLeaves(c)) \/ UNCHANGED vars
<1>1. CASE c \notin Conn \/ pc[c] \in {"idle", "done"} \/ peer[c] = "away"
  <2>1. peer' = peer
    BY <1>1 DEF CloseConn, TypeOK
  <2> QED
    BY <2>1 DEF CloseConn, vars, connVars
<1>2. CASE c \in Conn /\ pc[c] \notin {"idle", "done"} /\ peer[c] = "up"
  <2>1. peer' = [peer EXCEPT ![c] = "away"]
    BY <1>2 DEF CloseConn, TypeOK
  <2> QED
    BY <1>2, <2>1 DEF CloseConn, PeerLeaves
<1> QED
  BY <1>1, <1>2 DEF TypeOK

(* What the client does is nothing to the registry but a connection        *)
(* accepted or a peer that leaves.                                         *)
LEMMA ClientStepIsRegistryStep ==
  ASSUME AttemptInv, ClientStep
  PROVE  [Next]_vars
<1> USE DEF AttemptInv, ClientTypeOK
<1>1. ASSUME NEW l, EndAttempt(l) PROVE [Next]_vars
  BY <1>1, CloseIsPeerLeaving DEF EndAttempt, Next, ConnStep
<1>2. CASE ReadRefusal \/ ReadOtherLine \/ ConnectionLost
  BY <1>1, <1>2, ErrorsEndAttempts
<1>3. CASE Cancel
  BY <1>1, <1>3 DEF Cancel
<1>4. CASE Dial
  BY <1>4 DEF Dial, Next, ConnStep
<1>5. CASE Start \/ AnswerChallenge \/ ReadOK \/ TimerFires
  BY <1>5 DEF Start, AnswerChallenge, ReadOK, TimerFires
<1> QED
  BY <1>2, <1>3, <1>4, <1>5 DEF ClientStep

LEMMA RelayEndIsRegistryStep ==
  ASSUME RelayEnd
  PROVE  [Next]_vars
BY DEF RelayEnd, ServeMine, Next, ConnStep

LEMMA StepIsRegistryStep ==
  ASSUME AttemptInv, [ClientNext]_runVars
  PROVE  [Next]_vars
BY ClientStepIsRegistryStep, RelayEndIsRegistryStep DEF ClientNext, runVars

-----------------------------------------------------------------------------

(* What the relay does at its end of a connection: none of the client's is *)
(* accepted unasked, and an absent peer does not come back.                *)
LEMMA RelayEndKeeps ==
  ASSUME TypeOK, RelayEnd, NEW c \in Mine
  PROVE  /\ pc[c] = "idle" <=> pc'[c] = "idle"
         /\ pc[c] = "done" => pc'[c] = "done"
         /\ peer'[c] = "up" => peer[c] = "up"
<1> USE DEF TypeOK, Goto, Reject
<1>1. ASSUME NEW d \in Mine, ServeMine(d)
      PROVE  /\ pc[c] = "idle" <=> pc'[c] = "idle"
             /\ pc[c] = "done" => pc'[c] = "done"
             /\ peer'[c] = "up" => peer[c] = "up"
  BY <1>1 DEF ServeMine, HandlerStep, ReadHello, ReadResponse,
              HandshakeFails, ReserveName, ReserveUnless, SendOK, StartSession,
              ReleaseReservation, Register, Unregister, SessionFails, Handshaking
<1>2. ASSUME NEW d \in Conn \ Mine, ConnStep(d)
      PROVE  pc'[c] = pc[c] /\ peer'[c] = peer[c]
  BY <1>2 DEF ConnStep, HandlerStep, Accept, ReadHello, ReadResponse,
              HandshakeFails, ReserveName, ReserveUnless, SendOK, StartSession,
              ReleaseReservation, Register, Unregister, PeerLeaves, SessionFails
<1>3. ASSUME NEW a \in Admin, AdminStep(a)
      PROVE  pc'[c] = pc[c] /\ peer'[c] = peer[c]
  BY <1>3 DEF AdminStep, DisconnectLookup, DisconnectCheck, DisconnectClose,
              connVars
<1> QED
  BY <1>1, <1>2, <1>3 DEF RelayEnd

LEMMA AttemptInit == ClientInit => AttemptInv /\ GrantInv
BY InitInv DEF ClientInit, AttemptInv, ClientTypeOK, RegistryInv, OneAttempt,
               Connected, GrantInv, ConnectedIsGranted, Init

LEMMA AttemptStep ==
  ASSUME AttemptInv, TypeOK', [ClientNext]_runVars
  PROVE  AttemptInv'
<1> USE DEF AttemptInv, ClientTypeOK, OneAttempt, Connected
<1>1. CASE RelayEnd
  BY <1>1, RelayEndKeeps DEF RelayEnd, clientVars
<1>2. ASSUME NEW l \in {"waiting", "stopped", "failed"}, cpc \in Connected, EndAttempt(l)
      PROVE  AttemptInv'
  BY <1>2 DEF EndAttempt, CloseConn, TypeOK
<1>3. CASE ReadRefusal \/ ReadOtherLine \/ ConnectionLost
  BY <1>2, <1>3, ErrorsEndAttempts
<1>4. CASE Cancel
  BY <1>2, <1>4 DEF Cancel, vars, connVars
<1>5. CASE Dial
  BY <1>5 DEF Dial, Accept, Goto, TypeOK, vars, connVars
<1>6. CASE Start \/ AnswerChallenge \/ ReadOK \/ TimerFires
  BY <1>6 DEF Start, AnswerChallenge, ReadOK, TimerFires, vars, connVars
<1>7. CASE UNCHANGED runVars
  BY <1>7 DEF runVars, vars, connVars, clientVars
<1> QED
  BY <1>1, <1>3, <1>4, <1>5, <1>6, <1>7 DEF ClientNext, ClientStep

-----------------------------------------------------------------------------

(* A grant is final, and so is the name it was given for.                  *)
LEMMA GrantSettled ==
  ASSUME RegistryInv, [Next]_vars, NEW c \in Conn, reply[c] = "OK"
  PROVE  reply'[c] = "OK" /\ name'[c] = name[c]
<1> USE DEF RegistryInv, TypeOK, Undecided, Goto, Reject, Handshaking
<1>1. ASSUME NEW d \in Conn, ConnStep(d)
      PROVE  reply'[c] = "OK" /\ name'[c] = name[c]
  BY <1>1 DEF ConnStep, HandlerStep, Accept, ReadHello, ReadResponse,
              HandshakeFails, ReserveName, ReserveUnless, SendOK, StartSession,
              ReleaseReservation, Register, Unregister, PeerLeaves, SessionFails
<1>2. ASSUME NEW a \in Admin, AdminStep(a)
      PROVE  reply'[c] = "OK" /\ name'[c] = name[c]
  BY <1>2 DEF AdminStep, DisconnectLookup, DisconnectCheck, DisconnectClose,
              connVars
<1>3. CASE UNCHANGED vars
  BY <1>3 DEF vars, connVars
<1> QED
  BY <1>1, <1>2, <1>3 DEF Next

(* The relay takes the client's name from the client's hello, and grants   *)
(* what it took.                                                           *)
LEMMA RelayEndNames ==
  ASSUME RegistryInv, RelayEnd, NEW c \in Mine,
         name[c] \in {None, ClientName}, reply[c] = "OK" => name[c] = ClientName
  PROVE  name'[c] \in {None, ClientName} /\ (reply'[c] = "OK" => name'[c] = ClientName)
<1> USE DEF RegistryInv, TypeOK, Undecided, NameKnown, Goto, Reject, Handshaking
<1>1. ASSUME NEW d \in Mine, ServeMine(d)
      PROVE  /\ name'[c] \in {None, ClientName}
             /\ reply'[c] = "OK" => name'[c] = ClientName
  <2>1. CASE ReadHello(d) /\ name'[d] = ClientName
    BY <2>1 DEF ReadHello
  <2>2. CASE SendOK(d)
    BY <2>2 DEF SendOK, Reserving
  <2>3. CASE ReadResponse(d) \/ HandshakeFails(d) \/ SessionFails(d)
    BY <2>3 DEF ReadResponse, HandshakeFails, SessionFails
  <2>4. CASE ReserveName(d) \/ StartSession(d) \/ ReleaseReservation(d)
             \/ Register(d) \/ Unregister(d)
    BY <2>4 DEF ReserveName, ReserveUnless, StartSession, ReleaseReservation,
                Register, Unregister
  <2> QED
    BY <1>1, <2>1, <2>2, <2>3, <2>4 DEF ServeMine, HandlerStep
<1>2. ASSUME NEW d \in Conn \ Mine, ConnStep(d)
      PROVE  name'[c] = name[c] /\ reply'[c] = reply[c]
  BY <1>2 DEF ConnStep, HandlerStep, Accept, ReadHello, ReadResponse,
              HandshakeFails, ReserveName, ReserveUnless, SendOK, StartSession,
              ReleaseReservation, Register, Unregister, PeerLeaves, SessionFails
<1>3. ASSUME NEW a \in Admin, AdminStep(a)
      PROVE  name'[c] = name[c] /\ reply'[c] = reply[c]
  BY <1>3 DEF AdminStep, DisconnectLookup, DisconnectCheck, DisconnectClose,
              connVars
<1> QED
  BY <1>1, <1>2, <1>3 DEF RelayEnd

LEMMA GrantStep ==
  ASSUME RegistryInv, AttemptInv, GrantInv, [ClientNext]_runVars
  PROVE  GrantInv'
<1> USE DEF AttemptInv, ClientTypeOK, GrantInv, ConnectedIsGranted, Connected
<1>1. CASE RelayEnd
  <2>1. [Next]_vars
    BY <1>1, RelayEndIsRegistryStep
  <2>2. \A c \in connected : reply'[c] = "OK" /\ name'[c] = ClientName
    BY <2>1, GrantSettled
  <2>3. \A c \in Mine : /\ name'[c] \in {None, ClientName}
                        /\ reply'[c] = "OK" => name'[c] = ClientName
    BY <1>1, RelayEndNames
  <2> QED
    BY <1>1, <2>2, <2>3 DEF RelayEnd, clientVars
<1>2. ASSUME NEW l \in {"waiting", "stopped", "failed"}, EndAttempt(l) PROVE GrantInv'
  BY <1>2 DEF EndAttempt, CloseConn
<1>3. CASE ReadRefusal \/ ReadOtherLine \/ ConnectionLost
  BY <1>2, <1>3, ErrorsEndAttempts
<1>4. CASE Cancel
  BY <1>2, <1>4 DEF Cancel, vars, connVars
<1>5. CASE Dial
  BY <1>5 DEF Dial, Accept, vars, connVars
<1>6. CASE Start \/ AnswerChallenge \/ ReadOK \/ TimerFires
  BY <1>6 DEF Start, AnswerChallenge, ReadOK, TimerFires, vars, connVars
<1>7. CASE UNCHANGED runVars
  BY <1>7 DEF runVars, vars, connVars, clientVars
<1> QED
  BY <1>1, <1>3, <1>4, <1>5, <1>6, <1>7 DEF ClientNext, ClientStep

-----------------------------------------------------------------------------

(* The invariant of the client and the relay together.                     *)
LEMMA ClientInvariant == ClientSpec => [](RegistryInv /\ ClientInv)
<1>1. ClientInit => RegistryInv /\ ClientInv
  BY AttemptInit, InitInv DEF ClientInit, ClientInv
<1>2. RegistryInv /\ ClientInv /\ [ClientNext]_runVars => RegistryInv' /\ ClientInv'
  <2> SUFFICES ASSUME RegistryInv, ClientInv, [ClientNext]_runVars
               PROVE  RegistryInv' /\ ClientInv'
    OBVIOUS
  <2>1. RegistryInv'
    BY StepIsRegistryStep, NextInv DEF ClientInv
  <2>2. AttemptInv'
    BY <2>1, AttemptStep DEF ClientInv, RegistryInv
  <2> QED
    BY <2>1, <2>2, GrantStep DEF ClientInv
<1> QED
  BY <1>1, <1>2, PTL DEF ClientSpec

(* The relay with a client that comes and goes is the registry: every      *)
(* theorem about the registry holds whatever the client does.              *)
THEOREM ClientImplementsRegistry == ClientSpec => Spec
<1>1. ClientInit => Init
  BY DEF ClientInit
<1>2. RegistryInv /\ ClientInv /\ [ClientNext]_runVars => [Next]_vars
  BY StepIsRegistryStep DEF ClientInv
<1> QED
  BY <1>1, <1>2, ClientInvariant, PTL DEF ClientSpec, Spec

(* The client never has two connections to the relay: AttemptInv, of which *)
(* OneAttempt is a part, holds in every state.                             *)
THEOREM OneConnectionAtATime == ClientSpec => []AttemptInv
<1>1. ClientInv => AttemptInv
  BY DEF ClientInv
<1> QED
  BY <1>1, ClientInvariant, PTL

(* EventTunnelConnected is emitted only for a granted name of one's own.   *)
THEOREM ConnectedHonestly == ClientSpec => []ConnectedIsGranted
<1>1. ClientInv => ConnectedIsGranted
  BY DEF ClientInv, GrantInv
<1> QED
  BY <1>1, ClientInvariant, PTL
=============================================================================
