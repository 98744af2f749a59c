--------------------------- MODULE RegistryProofs ---------------------------
(***************************************************************************)
(* Proofs about the registry for any connections, names, addresses and     *)
(* administrators: RegistryInv is inductive, so a name has one owner and a *)
(* live session stays routable, and the registry implements TunnelName.    *)
(***************************************************************************)
EXTENDS Registry, TLAPS

USE NoneAssumption, RemoteAssumption, NamesAssumption

LEMMA InitInv == Init => RegistryInv
  BY DEF Init, RegistryInv, TypeOK, NameKnown, Undecided, SessionPhase, PendingBacked,
         RecordBacked, ReservedNotServed, LiveSessionRoutable, PC, Handshaking,
         Reserving, Reply, HasTunnel

(* The steps that touch neither map nor session: they move a handler that  *)
(* holds nothing, or an administrator, or the peer.                        *)
LEMMA ReadStepsInv ==
  ASSUME RegistryInv, NEW c \in Conn,
         Accept(c) \/ ReadHello(c) \/ ReadResponse(c) \/ HandshakeFails(c)
           \/ PeerLeaves(c)
  PROVE  RegistryInv'
<1> USE DEF RegistryInv, TypeOK, NameKnown, Undecided, SessionPhase, PendingBacked,
            RecordBacked, ReservedNotServed, LiveSessionRoutable, PC,
            Handshaking, Reserving, Reply, HasTunnel, mapVars, adminVars, Goto,
            Reject
<1>1. CASE Accept(c)
  BY <1>1 DEF Accept
<1>2. CASE ReadHello(c)
  BY <1>2 DEF ReadHello
<1>3. CASE ReadResponse(c)
  BY <1>3 DEF ReadResponse
<1>4. CASE HandshakeFails(c)
  BY <1>4 DEF HandshakeFails
<1>5. CASE PeerLeaves(c)
  BY <1>5 DEF PeerLeaves
<1> QED
  BY <1>1, <1>2, <1>3, <1>4, <1>5

(* The steps from reserveName to unregister, the ones that take the lock,  *)
(* and the two steps between them that decide how the handler goes on.     *)
LEMMA HandlerStepInv ==
  ASSUME RegistryInv, NEW c \in Conn, HandlerStep(c)
  PROVE  RegistryInv'
<1> USE DEF RegistryInv, TypeOK, NameKnown, Undecided, SessionPhase, PendingBacked,
            RecordBacked, ReservedNotServed, LiveSessionRoutable, PC,
            Handshaking, Reserving, Reply, HasTunnel, mapVars, adminVars, Goto,
            Reject
<1>1. CASE ReserveName(c)
  BY <1>1 DEF ReserveName, ReserveUnless
<1>2. CASE SendOK(c)
  BY <1>2 DEF SendOK
<1>3. CASE StartSession(c)
  BY <1>3 DEF StartSession
<1>4. CASE ReleaseReservation(c)
  BY <1>4 DEF ReleaseReservation
<1>5. CASE Register(c)
  <2> DEFINE n == name[c]
  <2>1. n \in Name /\ pc[c] = "started" /\ ~HasTunnel(n)
    BY <1>5 DEF Register
  <2>2. /\ pending' = [pending EXCEPT ![n] = None]
        /\ sessions' = [sessions EXCEPT ![n] = c]
        /\ pc' = [pc EXCEPT ![c] = "serving"]
        /\ UNCHANGED <<name, reply, peer, sess, adminVars>>
    BY <1>5 DEF Register
  <2>3. TypeOK' /\ NameKnown' /\ Undecided'
    BY <2>1, <2>2
  <2>4. \A d \in Conn : d # c /\ pc[d] \in Reserving => name[d] # n
    BY <2>1
  <2>5. PendingBacked'
    BY <2>1, <2>2, <2>4
  <2>6. ReservedNotServed' /\ RecordBacked'
    BY <2>1, <2>2, <2>4
  <2>7. LiveSessionRoutable'
    BY <2>1, <2>2
  <2>8. SessionPhase'
    <3>1. sess[c] # "none"
      BY <2>1
    <3> QED
      BY <2>1, <2>2, <3>1
  <2> QED
    BY <2>3, <2>5, <2>6, <2>7, <2>8
<1>6. CASE Unregister(c)
  BY <1>6 DEF Unregister
<1> QED
  BY <1>1, <1>2, <1>3, <1>4, <1>5, <1>6 DEF HandlerStep

(* A session that closes, by itself or by an administrator, frees names    *)
(* and takes none.                                                         *)
LEMMA SessionEndInv ==
  ASSUME RegistryInv, NEW c \in Conn, SessionFails(c)
  PROVE  RegistryInv'
BY DEF SessionFails, RegistryInv, TypeOK, NameKnown, Undecided, SessionPhase,
       PendingBacked, RecordBacked, ReservedNotServed, LiveSessionRoutable, PC,
       Handshaking, Reserving, Reply, HasTunnel, mapVars, adminVars

LEMMA AdminStepInv ==
  ASSUME RegistryInv, NEW a \in Admin, AdminStep(a)
  PROVE  RegistryInv'
<1> USE DEF RegistryInv, TypeOK, NameKnown, Undecided, SessionPhase, PendingBacked,
            RecordBacked, ReservedNotServed, LiveSessionRoutable, PC,
            Handshaking, Reserving, Reply, HasTunnel, mapVars, connVars
<1>1. ASSUME NEW n \in Name, DisconnectLookup(a, n)
      PROVE  RegistryInv'
  BY <1>1 DEF DisconnectLookup
<1>2. CASE DisconnectCheck(a)
  BY <1>2 DEF DisconnectCheck
<1>3. CASE DisconnectClose(a)
  <2>1. UNCHANGED <<pc, name, reply, peer, sessions, pending, target, found>>
    BY <1>3 DEF DisconnectClose
  <2>2. TypeOK'
    BY <1>3 DEF DisconnectClose
  <2>3. \A d \in Conn : /\ sess'[d] = "open" => sess[d] = "open"
                        /\ sess[d] # "none" => sess'[d] # "none"
    BY <1>3 DEF DisconnectClose
  <2>4. NameKnown' /\ Undecided' /\ SessionPhase'
    BY <2>1, <2>3
  <2>5. PendingBacked' /\ RecordBacked'
    BY <2>1
  <2>6. ReservedNotServed' /\ LiveSessionRoutable'
    BY <2>1, <2>3
  <2> QED
    BY <2>2, <2>4, <2>5, <2>6
<1> QED
  BY <1>1, <1>2, <1>3 DEF AdminStep

LEMMA StutterInv ==
  ASSUME RegistryInv, UNCHANGED vars
  PROVE  RegistryInv'
BY DEF vars, connVars, mapVars, adminVars, RegistryInv, TypeOK, NameKnown,
       Undecided, SessionPhase, PendingBacked, RecordBacked, ReservedNotServed,
       LiveSessionRoutable, HasTunnel

(* The parts of RegistryInv support each other: they are preserved         *)
(* together, by every step.                                                *)
LEMMA NextInv ==
  ASSUME RegistryInv, [Next]_vars
  PROVE  RegistryInv'
<1>1. ASSUME NEW c \in Conn, ConnStep(c) PROVE RegistryInv'
  BY <1>1, ReadStepsInv, HandlerStepInv, SessionEndInv DEF ConnStep
<1>2. ASSUME NEW a \in Admin, AdminStep(a) PROVE RegistryInv'
  BY <1>2, AdminStepInv
<1>3. CASE UNCHANGED vars
  BY <1>3, StutterInv
<1> QED
  BY <1>1, <1>2, <1>3 DEF Next

(* RegistryInv holds in every reachable state.                             *)
THEOREM RegistryInvariant == Spec => []RegistryInv
BY InitInv, NextInv, PTL DEF Spec

(* Every variable of the registry keeps its type.                          *)
THEOREM TypeCorrect == Spec => []TypeOK
<1>1. RegistryInv => TypeOK
  BY DEF RegistryInv
<1> QED
  BY <1>1, RegistryInvariant, PTL

-----------------------------------------------------------------------------
(* One owner per name. *)

LEMMA OwnerUnique == RegistryInv => SingleOwner
BY DEF RegistryInv, TypeOK, NameKnown, PendingBacked, ReservedNotServed,
       LiveSessionRoutable, SingleOwner, Holds, HasTunnel

(* No name ever has two owners, whatever the handlers, the dying sessions  *)
(* and the administrators do to each other.                                *)
THEOREM OneOwnerPerName == Spec => []SingleOwner
BY OwnerUnique, RegistryInvariant, PTL

(* An open registered session is never evicted from the map.               *)
THEOREM LiveSessionsStayRoutable == Spec => []LiveSessionRoutable
<1>1. RegistryInv => LiveSessionRoutable
  BY DEF RegistryInv
<1> QED
  BY <1>1, RegistryInvariant, PTL

-----------------------------------------------------------------------------
(* The registry implements TunnelName under Holder and VerdictOf.          *)

LEMMA HolderOfOwner ==
  ASSUME RegistryInv, NEW c \in Conn, NEW n \in Name, Holds(c, n)
  PROVE  Holder[n] = {c}
BY OwnerUnique DEF Holder, SingleOwner

(* reserveName succeeds only for a name without an owner. *)
LEMMA FreeNameHasNoHolder ==
  ASSUME RegistryInv, NEW n \in Name, ~HasTunnel(n), pending[n] = None
  PROVE  Holder[n] = {}
BY NoneAssumption, RemoteAssumption
   DEF RegistryInv, TypeOK, PendingBacked, LiveSessionRoutable, HasTunnel,
       Holder, Holds

(* reserveName fails only for a name that somebody owns. *)
LEMMA TakenNameHasHolder ==
  ASSUME RegistryInv, NEW n \in Name, HasTunnel(n) \/ pending[n] # None
  PROVE  \E d \in Conn : Holds(d, n)
BY DEF RegistryInv, TypeOK, PendingBacked, RecordBacked, HasTunnel, Holds

(* A step that keeps every ownership and every verdict is a stutter.       *)
LEMMA SameOwnersStutter ==
  ASSUME \A d \in Conn : \A n \in Name : Holds(d, n)' <=> Holds(d, n),
         \A d \in Conn : /\ reply'[d] = "OK" <=> reply[d] = "OK"
                         /\ reply'[d] = "in_use" <=> reply[d] = "in_use"
  PROVE  UNCHANGED <<Holder, VerdictOf>>
<1>1. Holder' = Holder
  BY DEF Holder
<1>2. VerdictOf' = VerdictOf
  BY DEF VerdictOf
<1> QED
  BY <1>1, <1>2

(* A session that was an owner's closes: the name is released.             *)
LEMMA OwnerLost ==
  ASSUME RegistryInv, NEW c \in Conn, NEW n \in Name,
         Holds(c, n), ~Holds(c, n)', reply' = reply,
         \A d \in Conn : \A m \in Name :
           <<d, m>> # <<c, n>> => (Holds(d, m)' <=> Holds(d, m))
  PROVE  Lease!Release(c, n)
<1>1. Holder[n] = {c}
  BY HolderOfOwner
<1>2. Holder' = [Holder EXCEPT ![n] = {}]
  <2>1. \A d \in Conn : ~Holds(d, n)'
    BY <1>1 DEF Holder
  <2>2. \A m \in Name \ {n} : \A d \in Conn : Holds(d, m)' <=> Holds(d, m)
    OBVIOUS
  <2> QED
    BY <2>1, <2>2 DEF Holder
<1>3. VerdictOf' = VerdictOf
  BY DEF VerdictOf
<1> QED
  BY <1>1, <1>2, <1>3 DEF Lease!Release

LEMMA LeaseConnStep ==
  ASSUME RegistryInv, RegistryInv', NEW c \in Conn, ConnStep(c)
  PROVE  [Lease!Next]_(Lease!vars)
<1> USE DEF Lease!vars
<1>1. CASE ReserveName(c)
  <2>0. PICK n \in Name : n = name[c]
    BY <1>1 DEF ReserveName, ReserveUnless, RegistryInv, NameKnown
  <2>1. n = name[c] /\ reply[c] = "none" /\ ~\E m \in Name : Holds(c, m)
    BY <1>1, <2>0 DEF ReserveName, ReserveUnless, RegistryInv, Undecided, Holds, Reserving
  <2>2. CASE HasTunnel(n) \/ pending[n] # None
    <3>1. PICK d \in Conn : Holds(d, n)
      BY <2>1, <2>2, TakenNameHasHolder
    <3>2. Holder[n] = {d} /\ d # c
      BY <2>1, <3>1, HolderOfOwner
    <3>3. Holder' = Holder
      BY <1>1, <2>0, <2>2 DEF ReserveName, ReserveUnless, Reject, Goto, Holder, Holds, Reserving,
                        RegistryInv, TypeOK, PC
    <3>4. VerdictOf' = [VerdictOf EXCEPT ![c] = "refused"]
      <4>1. reply' = [reply EXCEPT ![c] = "in_use"]
        BY <1>1, <2>0, <2>2 DEF ReserveName, ReserveUnless, Reject
      <4>2. reply \in [Conn -> Reply]
        BY DEF RegistryInv, TypeOK
      <4> QED
        BY <4>1, <4>2 DEF VerdictOf
    <3>5. VerdictOf[c] = "none"
      BY <2>1 DEF VerdictOf
    <3> QED
      BY <2>1, <3>2, <3>3, <3>4, <3>5 DEF Lease!Refuse, Lease!Next
  <2>3. CASE ~HasTunnel(n) /\ pending[n] = None
    <3>1. Holder[n] = {} /\ VerdictOf[c] = "none"
      BY <2>1, <2>3, FreeNameHasNoHolder DEF VerdictOf
    <3>2. VerdictOf' = VerdictOf
      BY <1>1, <2>0, <2>3 DEF ReserveName, ReserveUnless, VerdictOf
    <3>3. \A d \in Conn : \A m \in Name :
            Holds(d, m)' <=> Holds(d, m) \/ (d = c /\ m = n)
      BY <1>1, <2>1, <2>3 DEF ReserveName, ReserveUnless, Goto, Holds, Reserving, RegistryInv,
                              TypeOK, PC
    <3>4. Holder' = [Holder EXCEPT ![n] = {c}]
      <4>1. \A d \in Conn : Holds(d, n)' <=> d = c
        BY <3>1, <3>3, <2>1 DEF Holder
      <4>2. \A m \in Name \ {n} : \A d \in Conn : Holds(d, m)' <=> Holds(d, m)
        BY <3>3
      <4> QED
        BY <4>1, <4>2 DEF Holder
    <3> QED
      BY <2>1, <3>1, <3>2, <3>4 DEF Lease!Acquire, Lease!Next
  <2> QED
    BY <2>2, <2>3
<1>2. CASE SendOK(c)
  <2>0. PICK n \in Name : n = name[c]
    BY <1>2 DEF SendOK, RegistryInv, NameKnown, Reserving
  <2>1. n = name[c] /\ reply[c] = "none" /\ Holds(c, n)
    BY <1>2, <2>0 DEF SendOK, RegistryInv, Undecided, Holds, Reserving
  <2>2. \A d \in Conn : \A m \in Name : Holds(d, m)' <=> Holds(d, m)
    BY <1>2 DEF SendOK, Goto, Holds, Reserving, RegistryInv, TypeOK, PC
  <2>3. Holder' = Holder
    BY <2>2 DEF Holder
  <2>4. CASE reply' = reply
    BY <2>3, <2>4 DEF VerdictOf
  <2>5. CASE reply' = [reply EXCEPT ![c] = "OK"]
    <3>1. VerdictOf[c] = "none" /\ VerdictOf' = [VerdictOf EXCEPT ![c] = "granted"]
      BY <2>1, <2>5 DEF VerdictOf, RegistryInv, TypeOK
    <3>2. Holder[n] = {c}
      BY <2>1, HolderOfOwner
    <3> QED
      BY <2>1, <2>3, <3>1, <3>2 DEF Lease!Grant, Lease!Next
  <2> QED
    BY <1>2, <2>4, <2>5 DEF SendOK
<1>3. CASE ReleaseReservation(c)
  <2>0. PICK n \in Name : n = name[c]
    BY <1>3 DEF ReleaseReservation, RegistryInv, NameKnown, Reserving
  <2>1. n = name[c] /\ Holds(c, n) /\ ~Holds(c, n)' /\ reply' = reply
    BY <1>3, <2>0 DEF ReleaseReservation, Goto, Holds, Reserving, RegistryInv,
                      TypeOK
  <2>2. \A d \in Conn : \A m \in Name :
          <<d, m>> # <<c, n>> => (Holds(d, m)' <=> Holds(d, m))
    BY <1>3, <2>0 DEF ReleaseReservation, Goto, Holds, Reserving, RegistryInv,
                      TypeOK
  <2> QED
    BY <2>1, <2>2, OwnerLost DEF Lease!Next
<1>4. CASE Register(c)
  <2>0. PICK n \in Name : n = name[c]
    BY <1>4 DEF Register, RegistryInv, NameKnown, Reserving
  <2>1. n = name[c] /\ Holds(c, n) /\ reply' = reply
    BY <1>4, <2>0 DEF Register, Holds, Reserving
  <2>2. \A d \in Conn : \A m \in Name :
          <<d, m>> # <<c, n>> => (Holds(d, m)' <=> Holds(d, m))
    BY <1>4, <2>0 DEF Register, Goto, Holds, Reserving, RegistryInv, TypeOK
  <2>3. CASE sess[c] = "open"
    <3>1. Holds(c, n)'
      BY <1>4, <2>0, <2>3 DEF Register, Goto, Holds, RegistryInv, TypeOK
    <3> QED
      BY <2>1, <2>2, <3>1, SameOwnersStutter
  <2>4. CASE sess[c] # "open"
    <3>1. ~Holds(c, n)'
      BY <1>4, <2>0, <2>4 DEF Register, Goto, Holds, Reserving, RegistryInv, TypeOK
    <3> QED
      BY <2>1, <2>2, <3>1, OwnerLost DEF Lease!Next
  <2> QED
    BY <2>3, <2>4
<1>5. CASE SessionFails(c)
  <2>1. /\ reply' = reply
        /\ \A d \in Conn : \A m \in Name :
             Holds(d, m)' <=> Holds(d, m) /\ ~(d = c /\ pc[c] = "serving")
    BY <1>5 DEF SessionFails, Holds, Reserving, RegistryInv, TypeOK
  <2>2. CASE pc[c] = "serving"
    <3>1. PICK n \in Name : n = name[c]
      BY <2>2 DEF RegistryInv, NameKnown
    <3>2. Holds(c, n) /\ \A m \in Name : Holds(c, m) => m = n
      BY <1>5, <2>2, <3>1 DEF SessionFails, Holds
    <3> QED
      BY <2>1, <2>2, <3>2, OwnerLost DEF Lease!Next
  <2>3. CASE pc[c] # "serving"
    BY <2>1, <2>3, SameOwnersStutter
  <2> QED
    BY <2>2, <2>3
<1>6. CASE \/ Accept(c) \/ ReadHello(c) \/ ReadResponse(c) \/ HandshakeFails(c)
           \/ PeerLeaves(c) \/ StartSession(c) \/ Unregister(c)
  <2>1. \A d \in Conn : \A m \in Name : Holds(d, m)' <=> Holds(d, m)
    BY <1>6 DEF Accept, ReadHello, ReadResponse, HandshakeFails, PeerLeaves,
                StartSession, Unregister, Holds, Goto, Reject, Reserving,
                Handshaking, RegistryInv, TypeOK, PC
  <2>2. \A d \in Conn : /\ reply'[d] = "OK" <=> reply[d] = "OK"
                        /\ reply'[d] = "in_use" <=> reply[d] = "in_use"
    BY <1>6 DEF Accept, ReadHello, ReadResponse, HandshakeFails, PeerLeaves,
                StartSession, Unregister, Goto, Reject, Handshaking,
                RegistryInv, TypeOK, Undecided
  <2> QED
    BY <2>1, <2>2, SameOwnersStutter
<1> QED
  BY <1>1, <1>2, <1>3, <1>4, <1>5, <1>6 DEF ConnStep, HandlerStep

LEMMA LeaseAdminStep ==
  ASSUME RegistryInv, NEW a \in Admin, AdminStep(a)
  PROVE  [Lease!Next]_(Lease!vars)
<1> USE DEF Lease!vars
<1>1. CASE DisconnectClose(a)
  <2>1. /\ sess' = [sess EXCEPT ![found[a]] = "closed"]
        /\ UNCHANGED <<pc, name, reply>>
    BY <1>1 DEF DisconnectClose
  <2>2. CASE found[a] \in Conn /\ pc[found[a]] = "serving" /\ sess[found[a]] = "open"
    <3>1. PICK c \in Conn : c = found[a]
      BY <2>2
    <3>2. PICK n \in Name : n = name[c]
      BY <2>2, <3>1 DEF RegistryInv, NameKnown
    <3>3. Holds(c, n) /\ ~Holds(c, n)'
      BY <2>1, <2>2, <3>1, <3>2 DEF Holds, Reserving, RegistryInv, TypeOK
    <3>4. \A d \in Conn : \A m \in Name :
            <<d, m>> # <<c, n>> => (Holds(d, m)' <=> Holds(d, m))
      BY <2>1, <2>2, <3>1, <3>2 DEF Holds, RegistryInv, TypeOK
    <3> QED
      BY <2>1, <3>3, <3>4, OwnerLost DEF Lease!Next
  <2>3. CASE ~(found[a] \in Conn /\ pc[found[a]] = "serving"
                                /\ sess[found[a]] = "open")
    <3>1. \A d \in Conn : \A m \in Name : Holds(d, m)' <=> Holds(d, m)
      BY <2>1, <2>3 DEF Holds, RegistryInv, TypeOK
    <3> QED
      BY <2>1, <3>1, SameOwnersStutter
  <2> QED
    BY <2>2, <2>3
<1>2. CASE DisconnectCheck(a) \/ \E n \in Name : DisconnectLookup(a, n)
  <2>1. UNCHANGED <<pc, name, reply, sess>>
    BY <1>2 DEF DisconnectCheck, DisconnectLookup, connVars
  <2>2. UNCHANGED <<Holder, VerdictOf>>
    BY <2>1 DEF Holder, VerdictOf, Holds
  <2> QED
    BY <2>2
<1> QED
  BY <1>1, <1>2 DEF AdminStep

(* The relay keeps its promise: every behaviour of the registry is, under  *)
(* Holder and VerdictOf, a behaviour of TunnelName.                        *)
THEOREM RegistryImplementsLease == Spec => LeaseSpec
<1>1. Init => Lease!Init
  BY DEF Init, Lease!Init, Holder, Holds, VerdictOf, Reserving
<1>2. RegistryInv /\ RegistryInv' /\ [Next]_vars => [Lease!Next]_(Lease!vars)
  <2> SUFFICES ASSUME RegistryInv, RegistryInv', [Next]_vars
               PROVE  [Lease!Next]_(Lease!vars)
    OBVIOUS
  <2>1. ASSUME NEW c \in Conn, ConnStep(c) PROVE [Lease!Next]_(Lease!vars)
    BY <2>1, LeaseConnStep
  <2>2. ASSUME NEW a \in Admin, AdminStep(a) PROVE [Lease!Next]_(Lease!vars)
    BY <2>2, LeaseAdminStep
  <2>3. CASE UNCHANGED vars
    <3>1. UNCHANGED <<Holder, VerdictOf>>
      BY <2>3 DEF vars, connVars, Holder, VerdictOf, Holds
    <3> QED
      BY <3>1 DEF Lease!vars
  <2> QED
    BY <2>1, <2>2, <2>3 DEF Next
<1> QED
  BY <1>1, <1>2, RegistryInvariant, PTL DEF Spec, LeaseSpec, Lease!Spec
=============================================================================
