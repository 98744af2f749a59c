---------------------------- MODULE RelayProofs ----------------------------
(***************************************************************************)
(* Proofs about requests through the relay, for any number of connections, *)
(* names and requests: requests leave the registry as they find it, so its *)
(* theorems carry over; a request reaches only a client that owned the     *)
(* requested name and whose credentials it carries; and the counters of    *)
(* each tunnel, and their totals, are those of the requests they counted.  *)
(***************************************************************************)
EXTENDS Relay, RegistryProofs, FiniteSetTheorems, WellFoundedInduction

USE CredentialAssumption

(* Requests never touch the registry: the relay implements its             *)
(* specification, and every theorem about the registry holds of the relay. *)
THEOREM RelayImplementsRegistry == RelaySpec => Spec
<1>1. RelayInit => Init
  BY DEF RelayInit
<1>2. [RelayNext]_relayVars => [Next]_vars
  BY DEF RelayNext, RegistryStep, RequestStep, ServeStep, relayVars, Lookup,
         Authorize, OpenStream, WriteRequest, LocalAnswers, ReadFails,
         RecordRequest
<1> QED
  BY <1>1, <1>2, PTL DEF RelaySpec, Spec

(* No name ever has two owners, whatever requests are under way.           *)
THEOREM RelayOneOwnerPerName == RelaySpec => []SingleOwner
BY RelayImplementsRegistry, OneOwnerPerName, PTL

-----------------------------------------------------------------------------

(* The variables the request invariants speak of keep their types.         *)
RouteTypes ==
  /\ rpc \in [Request -> RequestPC]
  /\ rname \in [Request -> Name \cup {None}]
  /\ rcred \in [Request -> Credential \cup {None}]
  /\ route \in [Request -> Conn \cup {None}]
  /\ rauth \in [Request -> Credential \cup {None}]
  /\ sentTo \in [Request -> Conn \cup {None}]

RouteInv == RouteTypes /\ RouteBound

LEMMA RouteInit == RelayInit => RouteInv
BY DEF RelayInit, RouteInv, RouteTypes, RouteBound, RequestPC

(* A connection that has got as far as serving keeps its name, and stays   *)
(* there until it is done.                                                 *)
LEMMA ServedNameSettled ==
  ASSUME RegistryInv, [Next]_vars, NEW c \in Conn, pc[c] \in {"serving", "done"}
  PROVE  name'[c] = name[c] /\ pc'[c] \in {"serving", "done"}
<1> USE DEF RegistryInv, TypeOK, Goto, Reject
<1>1. ASSUME NEW d \in Conn, ConnStep(d)
      PROVE  name'[c] = name[c] /\ pc'[c] \in {"serving", "done"}
  BY <1>1 DEF ConnStep, HandlerStep, Accept, ReadHello, ReadResponse,
              HandshakeFails, ReserveName, ReserveUnless, SendOK, StartSession,
              ReleaseReservation, Register, Unregister, PeerLeaves,
              SessionFails, Handshaking
<1>2. ASSUME NEW a \in Admin, AdminStep(a)
      PROVE  name'[c] = name[c] /\ pc'[c] \in {"serving", "done"}
  BY <1>2 DEF AdminStep, DisconnectLookup, DisconnectCheck, DisconnectClose,
              connVars
<1>3. CASE UNCHANGED vars
  BY <1>3 DEF vars, connVars
<1> QED
  BY <1>1, <1>2, <1>3 DEF Next

LEMMA RouteRegistryStep ==
  ASSUME RegistryInv, RouteInv, RegistryStep
  PROVE  RouteInv'
<1>1. UNCHANGED reqVars /\ [Next]_vars
  BY DEF RegistryStep
<1>2. RouteTypes'
  BY <1>1 DEF reqVars, RouteInv, RouteTypes
<1>3. \A r \in Request : route[r] # None =>
        name'[route[r]] = name[route[r]] /\ pc'[route[r]] \in {"serving", "done"}
  BY <1>1, ServedNameSettled DEF RouteInv, RouteTypes, RouteBound
<1> QED
  BY <1>1, <1>2, <1>3 DEF reqVars, RouteInv, RouteTypes, RouteBound

LEMMA RouteLookup ==
  ASSUME RegistryInv, RouteInv, NEW r \in Request, NEW n \in Name,
         NEW cred \in Credential \cup {None}, Lookup(r, n, cred)
  PROVE  RouteInv'
<1> USE DEF RouteInv, RouteTypes, RouteBound, RequestPC, Lookup, vars, connVars,
            RGoto
<1>1. CASE HasTunnel(n)
  <2>1. PICK c \in Conn : c = sessions[n] /\ pc[c] = "serving" /\ name[c] = n
    BY <1>1 DEF HasTunnel, RegistryInv, TypeOK, RecordBacked
  <2>2. /\ route' = [route EXCEPT ![r] = c]
        /\ rauth' = [rauth EXCEPT ![r] = BasicAuth[c]]
    BY <1>1, <2>1
  <2> QED
    BY <1>1, <2>1, <2>2
<1>2. CASE ~HasTunnel(n)
  BY <1>2
<1> QED
  BY <1>1, <1>2

LEMMA RouteServe ==
  ASSUME RouteInv, NEW r \in Request, LocalAnswers(r) \/ ServeStep(r)
  PROVE  RouteInv'
<1> USE DEF RouteInv, RouteTypes, RouteBound, RequestPC, vars, connVars, RGoto,
            Answer
<1>1. CASE Authorize(r)
  BY <1>1 DEF Authorize
<1>2. CASE OpenStream(r)
  BY <1>2 DEF OpenStream
<1>3. CASE WriteRequest(r)
  BY <1>3 DEF WriteRequest
<1>4. CASE LocalAnswers(r) \/ ReadFails(r)
  BY <1>4 DEF LocalAnswers, ReadFails
<1>5. CASE RecordRequest(r)
  BY <1>5 DEF RecordRequest
<1> QED
  BY <1>1, <1>2, <1>3, <1>4, <1>5 DEF ServeStep

LEMMA RouteInvariant == RelaySpec => []RouteInv
<1>1. RegistryInv /\ RouteInv /\ [RelayNext]_relayVars => RouteInv'
  <2> SUFFICES ASSUME RegistryInv, RouteInv, [RelayNext]_relayVars
               PROVE  RouteInv'
    OBVIOUS
  <2>1. CASE RegistryStep
    BY <2>1, RouteRegistryStep
  <2>2. ASSUME NEW r \in Request, RequestStep(r) PROVE RouteInv'
    BY <2>2, RouteLookup, RouteServe DEF RequestStep
  <2>3. CASE UNCHANGED relayVars
    BY <2>3 DEF relayVars, vars, connVars, reqVars, RouteInv, RouteTypes, RouteBound
  <2> QED
    BY <2>1, <2>2, <2>3 DEF RelayNext
<1>2. RelaySpec => []RegistryInv
  BY RelayImplementsRegistry, RegistryInvariant, PTL
<1> QED
  BY <1>1, <1>2, RouteInit, PTL DEF RelaySpec

(* A request's bytes reach only a client that owned the requested name and *)
(* whose credentials the request carries, however the name changes hands.  *)
THEOREM OnlyAuthorizedForwarding == RelaySpec => []ForwardedAuthorized
<1>1. RouteInv => ForwardedAuthorized
  BY DEF RouteInv, RouteTypes, RouteBound, ForwardedAuthorized
<1> QED
  BY <1>1, RouteInvariant, PTL

-----------------------------------------------------------------------------

(* The counters of the relay.                                              *)
CountInv == RelayTypeOK /\ RecordsAgree /\ CountBound

LEMMA CountInit == RelayInit => CountInv
<1> SUFFICES ASSUME RelayInit PROVE CountInv
  OBVIOUS
<1>1. RelayTypeOK
  <2>1. TypeOK
    BY InitInv DEF RelayInit, RegistryInv
  <2>2. NoStats \in Stats
    BY DEF NoStats, Stats
  <2> QED
    BY <2>1, <2>2 DEF RelayInit, RelayTypeOK, RequestPC
<1>2. \A c \in Conn : {r \in Request : counted[r] = c} = {}
  BY NoneAssumption DEF RelayInit
<1>3. ASSUME NEW c \in Conn PROVE RecordAgrees(c)
  <2> DEFINE mine == {r \in Request : counted[r] = c}
  <2>1. stats[c] = NoStats
    BY DEF RelayInit
  <2>2. mine = {}
    BY <1>2
  <2> HIDE DEF mine
  <2>3. /\ {r \in mine : sentTo[r] # None} = {}
        /\ \A s \in Status : {r \in mine : status[r] = s} = {}
    BY <2>2
  <2>4. /\ Cardinality(mine) = 0
        /\ Cardinality({r \in mine : sentTo[r] # None}) = 0
        /\ \A s \in Status : Cardinality({r \in mine : status[r] = s}) = 0
    BY <2>2, <2>3, FS_EmptySet
  <2>5. /\ NoStats.requests = 0 /\ NoStats.bytesIn = 0
        /\ \A s \in Status : NoStats.statusCounts[s] = 0
        /\ \A i \in Cell : NoStats.buckets[i] = 0
    BY DEF NoStats
  <2>6. Bucket + 1 \in Cell /\ \A i \in 1..Bucket : i \in Cell /\ i + 1 \in Cell
    BY BucketAssumption DEF Cell
  <2> QED
    BY <2>1, <2>2, <2>4, <2>5, <2>6 DEF RecordAgrees, mine
<1>4. CountBound
  <2>1. {c \in Conn : pc[c] # "idle"} = {} /\ {r \in Request : rpc[r] # "idle"} = {}
    BY DEF RelayInit, Init
  <2> QED
    BY <2>1, FS_EmptySet DEF CountBound, RelayInit
<1> QED
  BY <1>1, <1>3, <1>4 DEF CountInv, RecordsAgree

(* What recordRequest makes of a record's counters.                        *)
LEMMA CountTyped ==
  ASSUME NEW st \in Stats, NEW code \in Status, NEW d \in Cell,
         NEW in \in Nat, NEW out \in Nat
  PROVE  LET new == Count(st, code, d, in, out)
         IN  /\ new \in Stats
             /\ new.requests = st.requests + 1
             /\ new.bytesIn = st.bytesIn + in
             /\ \A s \in Status : new.statusCounts[s] =
                  IF s = code THEN st.statusCounts[s] + 1 ELSE st.statusCounts[s]
             /\ \A i \in Cell : new.buckets[i] =
                  IF i >= d THEN st.buckets[i] + 1 ELSE st.buckets[i]
BY DEF Count, Stats

(* What leaves the counted requests and their counters alone.              *)
LEMMA RecordsKept ==
  ASSUME CountInv, UNCHANGED countVars,
         \A r \in Request : rpc[r] = "done" =>
           /\ rpc'[r] = "done" /\ rname'[r] = rname[r]
           /\ status'[r] = status[r] /\ sentTo'[r] = sentTo[r],
         \A c \in Conn : pc[c] \in {"serving", "done"} => name'[c] = name[c]
  PROVE  RecordsAgree'
<1> SUFFICES ASSUME NEW c \in Conn PROVE RecordAgrees(c)'
  BY DEF RecordsAgree
<1> DEFINE mine == {r \in Request : counted[r] = c}
<1>1. counted' = counted /\ stats' = stats /\ RecordAgrees(c)
  BY DEF countVars, CountInv, RecordsAgree
<1>2. \A r \in mine : rpc[r] = "done" /\ name[c] = rname[r]
  BY <1>1 DEF RecordAgrees
<1>3. \A r \in mine : name'[c] = name[c]
  BY NoneAssumption DEF CountInv, CountBound
<1>4. \A r \in mine : name'[c] = rname'[r] /\ rpc'[r] = "done"
  BY <1>2, <1>3
<1> DEFINE sent == {r \in mine : sentTo[r] # None}
           at(s) == {r \in mine : status[r] = s}
<1>5. mine' = mine /\ sent' = sent /\ \A s \in Status : at(s)' = at(s)
  BY <1>1, <1>2
<1>6. /\ stats[c].requests = Cardinality(mine)
      /\ stats[c].bytesIn = Cardinality(sent)
      /\ \A s \in Status : stats[c].statusCounts[s] = Cardinality(at(s))
  BY <1>1 DEF RecordAgrees
<1> HIDE DEF mine, sent, at
<1>7. /\ stats'[c].requests = Cardinality(mine')
      /\ stats'[c].bytesIn = Cardinality(sent')
      /\ \A s \in Status : stats'[c].statusCounts[s] = Cardinality(at(s)')
  BY <1>1, <1>5, <1>6
<1>8. /\ stats'[c].buckets[Bucket + 1] = stats'[c].requests
      /\ \A i \in 1..Bucket : stats'[c].buckets[i] <= stats'[c].buckets[i + 1]
  BY <1>1 DEF RecordAgrees
<1>9. \A r \in mine' : name'[c] = rname'[r] /\ rpc'[r] = "done"
  BY <1>4, <1>5
<1> QED
  BY <1>7, <1>8, <1>9 DEF RecordAgrees, mine, sent, at

(* Every step of the registry moves one handler at most.                   *)
LEMMA AcceptedFinite ==
  ASSUME TypeOK, [Next]_vars, IsFiniteSet({c \in Conn : pc[c] # "idle"})
  PROVE  IsFiniteSet({c \in Conn : pc'[c] # "idle"})
<1> DEFINE Accepted == {c \in Conn : pc[c] # "idle"}
<1>1. ASSUME NEW d \in Conn, ConnStep(d)
      PROVE  IsFiniteSet(Accepted')
  <2>1. \A c \in Conn : c # d => pc'[c] = pc[c]
    BY <1>1 DEF ConnStep, HandlerStep, Accept, ReadHello, ReadResponse,
                HandshakeFails, ReserveName, ReserveUnless, SendOK, StartSession,
                ReleaseReservation, Register, Unregister, PeerLeaves,
                SessionFails, TypeOK, Goto, Reject
  <2>2. Accepted' \subseteq Accepted \cup {d}
    BY <2>1
  <2>3. IsFiniteSet(Accepted \cup {d})
    BY FS_AddElement
  <2> HIDE DEF Accepted
  <2> QED
    BY <2>2, <2>3, FS_Subset
<1>2. CASE UNCHANGED pc
  BY <1>2
<1>3. UNCHANGED pc \/ \E d \in Conn : ConnStep(d)
  BY DEF Next, AdminStep, DisconnectLookup, DisconnectCheck, DisconnectClose,
         connVars, vars
<1> QED
  BY <1>1, <1>2, <1>3

LEMMA CountRegistryStep ==
  ASSUME RegistryInv, CountInv, RegistryStep
  PROVE  CountInv'
<1>1. UNCHANGED <<reqVars, countVars>> /\ [Next]_vars
  BY DEF RegistryStep
<1>2. TypeOK /\ TypeOK'
  BY <1>1, NextInv DEF RegistryInv
<1>3. RelayTypeOK'
  BY <1>1, <1>2 DEF CountInv, RelayTypeOK, reqVars, countVars
<1>4. \A c \in Conn : pc[c] \in {"serving", "done"} =>
        name'[c] = name[c] /\ pc'[c] \in {"serving", "done"}
  BY <1>1, ServedNameSettled
<1>5. RecordsAgree'
  BY <1>1, <1>4, RecordsKept DEF reqVars
<1>6. IsFiniteSet({c \in Conn : pc'[c] # "idle"})
  BY <1>1, <1>2, AcceptedFinite DEF CountInv, CountBound
<1>7. \A r \in Request : counted[r] # None => counted[r] \in Conn
  BY DEF CountInv, RelayTypeOK
<1>8. CountBound'
  BY <1>1, <1>4, <1>6, <1>7 DEF CountInv, CountBound, reqVars, countVars
<1> QED
  BY <1>3, <1>5, <1>8 DEF CountInv

(* A request up to its answer keeps the variables' types ...              *)
LEMMA RequestTyped ==
  ASSUME RegistryInv, RelayTypeOK, NEW r \in Request,
         \/ \E n \in Name, cred \in Credential \cup {None} : Lookup(r, n, cred)
         \/ LocalAnswers(r) \/ Authorize(r) \/ OpenStream(r) \/ WriteRequest(r)
         \/ ReadFails(r)
  PROVE  RelayTypeOK'
<1> USE DEF Answer, RGoto, RelayTypeOK, RequestPC, Status, countVars
<1>1. UNCHANGED vars
  BY DEF Lookup, LocalAnswers, Authorize, OpenStream, WriteRequest, ReadFails
<1>2. TypeOK'
  BY <1>1 DEF TypeOK, vars, connVars, mapVars, adminVars
<1>3. ASSUME NEW n \in Name, NEW cred \in Credential \cup {None}, Lookup(r, n, cred)
      PROVE  RelayTypeOK'
  <2>1. HasTunnel(n) => sessions[n] \in Conn
    BY DEF HasTunnel, TypeOK
  <2>2. /\ rpc' \in [Request -> RequestPC]
        /\ rname' \in [Request -> Name \cup {None}]
        /\ rcred' \in [Request -> Credential \cup {None}]
        /\ status' \in [Request -> Status \cup {0}]
    BY <1>3 DEF Lookup
  <2>3. /\ route' \in [Request -> Conn \cup {None}]
        /\ rauth' \in [Request -> Credential \cup {None}]
    BY <1>3, <2>1 DEF Lookup
  <2> QED
    BY <1>2, <1>3, <2>2, <2>3 DEF Lookup
<1>4. CASE LocalAnswers(r) \/ Authorize(r) \/ OpenStream(r) \/ ReadFails(r)
  BY <1>2, <1>4 DEF LocalAnswers, Authorize, OpenStream, ReadFails
<1>5. CASE WriteRequest(r)
  <2>1. route[r] \in Conn \cup {None}
    OBVIOUS
  <2>2. sentTo' \in [Request -> Conn \cup {None}]
    BY <1>5, <2>1 DEF WriteRequest
  <2>3. /\ rpc' \in [Request -> RequestPC]
        /\ status' \in [Request -> Status \cup {0}]
    BY <1>5 DEF WriteRequest
  <2> QED
    BY <1>2, <1>5, <2>2, <2>3 DEF WriteRequest
<1> QED
  BY <1>3, <1>4, <1>5

(* ... and the counters.                                                   *)
LEMMA CountRequestStep ==
  ASSUME RegistryInv, CountInv, NEW r \in Request,
         \/ \E n \in Name, cred \in Credential \cup {None} : Lookup(r, n, cred)
         \/ LocalAnswers(r) \/ Authorize(r) \/ OpenStream(r) \/ WriteRequest(r)
         \/ ReadFails(r)
  PROVE  CountInv'
<1> USE DEF Answer, RGoto
<1>1. RelayTypeOK /\ RelayTypeOK'
  BY RequestTyped DEF CountInv
<1>2. UNCHANGED <<vars, countVars>>
  BY DEF Lookup, LocalAnswers, Authorize, OpenStream, WriteRequest, ReadFails
<1>3. UNCHANGED <<pc, name, counted>>
  BY <1>2 DEF vars, connVars, countVars
<1>4. ASSUME NEW q \in Request, q # r
      PROVE  /\ rpc'[q] = rpc[q] /\ rname'[q] = rname[q]
             /\ status'[q] = status[q] /\ sentTo'[q] = sentTo[q]
  BY <1>1, <1>4 DEF Lookup, LocalAnswers, Authorize, OpenStream, WriteRequest,
                    ReadFails, RelayTypeOK
<1>5. rpc[r] # "done"
  BY DEF Lookup, LocalAnswers, Authorize, OpenStream, WriteRequest, ReadFails
<1>6. RecordsAgree'
  BY <1>2, <1>3, <1>4, <1>5, RecordsKept
<1>7. /\ rpc'[r] # "idle" => rname'[r] \in Name
      /\ rpc'[r] = "answered" => status'[r] \in Status
  BY <1>1 DEF Lookup, LocalAnswers, Authorize, OpenStream, WriteRequest, ReadFails,
              RelayTypeOK, CountInv, CountBound, Status
<1>8. IsFiniteSet({q \in Request : rpc'[q] # "idle"})
  <2> DEFINE busy == {q \in Request : rpc[q] # "idle"}
  <2>1. IsFiniteSet(busy \cup {r})
    BY FS_AddElement DEF CountInv, CountBound
  <2>2. busy' \subseteq busy \cup {r}
    BY <1>4
  <2> HIDE DEF busy
  <2>3. IsFiniteSet(busy')
    BY <2>1, <2>2, FS_Subset
  <2> QED
    BY <2>3 DEF busy
<1>9. \A q \in Request :
        /\ rpc'[q] # "idle" => rname'[q] \in Name
        /\ rpc'[q] = "answered" => status'[q] \in Status
  BY <1>4, <1>7 DEF CountInv, CountBound
<1>10. CountBound'
  BY <1>3, <1>8, <1>9 DEF CountInv, CountBound
<1> QED
  BY <1>1, <1>6, <1>10 DEF CountInv

(* recordRequest adds the request to one record, and to that one only.     *)
LEMMA CountRecordStep ==
  ASSUME RegistryInv, CountInv, NEW r \in Request, RecordRequest(r)
  PROVE  CountInv'
<1>1. /\ rpc[r] = "answered" /\ rname[r] \in Name /\ status[r] \in Status
      /\ rpc' = [rpc EXCEPT ![r] = "done"]
      /\ UNCHANGED <<vars, rname, rcred, route, rauth, sentTo, status>>
  BY DEF RecordRequest, RGoto, CountInv, CountBound
<1>2. /\ UNCHANGED <<pc, name>>
      /\ RelayTypeOK /\ RecordsAgree /\ CountBound
  BY <1>1 DEF vars, connVars, CountInv
<1>3. /\ TypeOK' /\ rpc' \in [Request -> RequestPC]
      /\ \A q \in Request : q # r => rpc'[q] = rpc[q]
      /\ rpc'[r] = "done"
  BY <1>1, <1>2 DEF RelayTypeOK, RequestPC, TypeOK, vars, connVars, mapVars, adminVars
<1>4. IsFiniteSet({q \in Request : rpc'[q] # "idle"})
  <2>1. {q \in Request : rpc'[q] # "idle"} = {q \in Request : rpc[q] # "idle"}
    BY <1>1, <1>3
  <2> QED
    BY <1>2, <2>1 DEF CountBound
<1>5. CASE sessions[rname[r]] = None
  <2>1. UNCHANGED countVars
    BY <1>5 DEF RecordRequest
  <2>2. RelayTypeOK'
    BY <1>1, <1>2, <1>3, <2>1 DEF RelayTypeOK, countVars
  <2>3. RecordsAgree'
    BY <1>1, <1>2, <1>3, <2>1, RecordsKept
  <2>4. CountBound'
    BY <1>1, <1>2, <1>3, <1>4, <2>1 DEF CountBound, countVars
  <2> QED
    BY <2>2, <2>3, <2>4 DEF CountInv
<1>6. CASE sessions[rname[r]] # None
  <2>1. PICK owner \in Conn : /\ owner = sessions[rname[r]]
                              /\ name[owner] = rname[r] /\ pc[owner] = "serving"
    BY <1>1, <1>6 DEF RegistryInv, TypeOK, RecordBacked
  <2>2. PICK d \in Cell, out \in BytesOut(r) :
          stats' = [stats EXCEPT ![owner] =
                      Count(stats[owner], status[r], d, BytesIn(r), out)]
    BY <1>6, <2>1 DEF RecordRequest
  <2> DEFINE new == Count(stats[owner], status[r], d, BytesIn(r), out)
  <2>3. counted' = [counted EXCEPT ![r] = owner]
    BY <1>6, <2>1 DEF RecordRequest
  <2>4. BytesIn(r) \in Nat /\ out \in Nat
    BY DEF BytesIn, BytesOut, CopiedLength
  <2>5. stats[owner] \in Stats
    BY <1>2, <2>1 DEF RelayTypeOK
  <2>6. /\ new \in Stats
        /\ new.requests = stats[owner].requests + 1
        /\ new.bytesIn = stats[owner].bytesIn + BytesIn(r)
        /\ \A s \in Status : new.statusCounts[s] =
             IF s = status[r] THEN stats[owner].statusCounts[s] + 1
                              ELSE stats[owner].statusCounts[s]
        /\ \A i \in Cell : new.buckets[i] =
             IF i >= d THEN stats[owner].buckets[i] + 1 ELSE stats[owner].buckets[i]
    BY <1>1, <2>4, <2>5, CountTyped
  <2> HIDE DEF new
  <2>7. /\ stats' = [stats EXCEPT ![owner] = new]
        /\ stats'[owner] = new
        /\ \A c \in Conn : c # owner => stats'[c] = stats[c]
    BY <1>2, <2>1, <2>2 DEF RelayTypeOK, new
  <2>8. /\ counted' \in [Request -> Conn \cup {None}]
        /\ counted'[r] = owner
        /\ \A q \in Request : q # r => counted'[q] = counted[q]
    BY <1>2, <2>1, <2>3 DEF RelayTypeOK
  <2>9. RelayTypeOK'
    <3>1. stats' \in [Conn -> Stats]
      BY <1>2, <2>6, <2>7 DEF RelayTypeOK
    <3> QED
      BY <1>1, <1>2, <1>3, <2>8, <3>1 DEF RelayTypeOK
  <2>10. \A q \in Request : counted'[q] # None => pc'[counted'[q]] \in {"serving", "done"}
    BY <1>2, <2>1, <2>8 DEF CountBound
  <2>11. CountBound'
    BY <1>1, <1>2, <1>3, <1>4, <2>10 DEF CountBound
  <2>12. \A c \in Conn : r \notin {q \in Request : counted[q] = c}
    BY <1>1, <1>2 DEF RecordsAgree, RecordAgrees
  <2>13. ASSUME NEW c \in Conn, c # owner PROVE RecordAgrees(c)'
    <3> DEFINE mine == {q \in Request : counted[q] = c}
               sent == {q \in mine : sentTo[q] # None}
               at(s) == {q \in mine : status[q] = s}
    <3>1. \A q \in Request : counted'[q] = c <=> counted[q] = c
      BY <2>8, <2>12, <2>13
    <3>2. mine' = mine /\ sent' = sent /\ \A s \in Status : at(s)' = at(s)
      BY <1>1, <3>1
    <3>3. \A q \in mine : q # r
      BY <2>12
    <3>4. /\ \A q \in mine : name[c] = rname[q] /\ rpc[q] = "done"
          /\ stats[c].requests = Cardinality(mine)
          /\ stats[c].bytesIn = Cardinality(sent)
          /\ \A s \in Status : stats[c].statusCounts[s] = Cardinality(at(s))
          /\ stats[c].buckets[Bucket + 1] = stats[c].requests
          /\ \A i \in 1..Bucket : stats[c].buckets[i] <= stats[c].buckets[i + 1]
      BY <1>2 DEF RecordsAgree, RecordAgrees
    <3>5. \A q \in mine : name'[c] = rname'[q] /\ rpc'[q] = "done"
      BY <1>1, <1>2, <1>3, <3>3, <3>4
    <3> HIDE DEF mine, sent, at
    <3>6. stats'[c] = stats[c]
      BY <2>7, <2>13
    <3>7. /\ \A q \in mine' : name'[c] = rname'[q] /\ rpc'[q] = "done"
          /\ stats'[c].requests = Cardinality(mine')
          /\ stats'[c].bytesIn = Cardinality(sent')
          /\ \A s \in Status : stats'[c].statusCounts[s] = Cardinality(at(s)')
      BY <3>2, <3>4, <3>5, <3>6
    <3>8. /\ stats'[c].buckets[Bucket + 1] = stats'[c].requests
          /\ \A i \in 1..Bucket : stats'[c].buckets[i] <= stats'[c].buckets[i + 1]
      BY <3>4, <3>6
    <3> QED
      BY <3>7, <3>8 DEF RecordAgrees, mine, sent, at
  <2>14. RecordAgrees(owner)'
    <3> DEFINE mine == {q \in Request : counted[q] = owner}
               sent == {q \in mine : sentTo[q] # None}
               at(s) == {q \in mine : status[q] = s}
               mine1 == {q \in Request : counted'[q] = owner}
               sent1 == {q \in mine1 : sentTo'[q] # None}
               at1(s) == {q \in mine1 : status'[q] = s}
    <3>1. /\ \A q \in mine : name[owner] = rname[q] /\ rpc[q] = "done"
          /\ stats[owner].requests = Cardinality(mine)
          /\ stats[owner].bytesIn = Cardinality(sent)
          /\ \A s \in Status : stats[owner].statusCounts[s] = Cardinality(at(s))
          /\ stats[owner].buckets[Bucket + 1] = stats[owner].requests
          /\ \A i \in 1..Bucket :
               stats[owner].buckets[i] <= stats[owner].buckets[i + 1]
      BY <1>2, <2>1 DEF RecordsAgree, RecordAgrees
    <3>2. r \notin mine /\ mine1 = mine \cup {r}
      BY <2>1, <2>8, <2>12
    <3>3. IsFiniteSet(mine) /\ IsFiniteSet(sent) /\ \A s \in Status : IsFiniteSet(at(s))
      <4>1. IsFiniteSet({q \in Request : rpc[q] # "idle"})
        BY <1>2 DEF CountBound
      <4>2. mine \subseteq {q \in Request : rpc[q] # "idle"}
        BY <3>1
      <4>3. IsFiniteSet(mine)
        BY <4>1, <4>2, FS_Subset
      <4>4. sent \subseteq mine /\ \A s \in Status : at(s) \subseteq mine
        OBVIOUS
      <4> HIDE DEF mine, sent, at
      <4> QED
        BY <4>3, <4>4, FS_Subset
    <3>4. sent1 = IF sentTo[r] # None THEN sent \cup {r} ELSE sent
      BY <1>1, <3>2
    <3>5. \A s \in Status : at1(s) = IF s = status[r] THEN at(s) \cup {r} ELSE at(s)
      BY <1>1, <3>2
    <3>6. r \notin sent /\ \A s \in Status : r \notin at(s)
      BY <3>2
    <3>7. \A q \in mine1 : name'[owner] = rname'[q] /\ rpc'[q] = "done"
      BY <1>1, <1>2, <1>3, <2>1, <3>1, <3>2
    <3> HIDE DEF mine, sent, at, mine1, sent1, at1
    <3>8. Cardinality(mine1) = Cardinality(mine) + 1
      BY <3>2, <3>3, FS_AddElement
    <3>9. Cardinality(sent1) = Cardinality(sent) + BytesIn(r)
      <4>1. Cardinality(sent) \in Nat
        BY <3>3, FS_CardinalityType
      <4>2. Cardinality(sent \cup {r}) = Cardinality(sent) + 1
        BY <3>3, <3>6, FS_AddElement
      <4> QED
        BY <3>4, <4>1, <4>2 DEF BytesIn
    <3>10. ASSUME NEW s \in Status
           PROVE  Cardinality(at1(s)) =
                    IF s = status[r] THEN Cardinality(at(s)) + 1 ELSE Cardinality(at(s))
      <4>1. Cardinality(at(s) \cup {r}) = Cardinality(at(s)) + 1
        BY <3>3, <3>6, FS_AddElement
      <4> QED
        BY <3>5, <4>1
    <3>11. /\ new.requests = Cardinality(mine1)
           /\ new.bytesIn = Cardinality(sent1)
           /\ \A s \in Status : new.statusCounts[s] = Cardinality(at1(s))
      BY <2>6, <3>1, <3>8, <3>9, <3>10
    <3>12. /\ new.buckets[Bucket + 1] = new.requests
           /\ \A i \in 1..Bucket : new.buckets[i] <= new.buckets[i + 1]
      <4>1. Bucket + 1 \in Cell /\ \A i \in 1..Bucket : i \in Cell /\ i + 1 \in Cell
        BY BucketAssumption DEF Cell
      <4>2. d \in Int /\ d <= Bucket + 1
        BY BucketAssumption DEF Cell
      <4>3. \A i \in Cell : stats[owner].buckets[i] \in Nat
        BY <2>5 DEF Stats
      <4>4. new.buckets[Bucket + 1] = new.requests
        BY <2>6, <3>1, <4>1, <4>2, BucketAssumption
      <4>5. ASSUME NEW i \in 1..Bucket PROVE new.buckets[i] <= new.buckets[i + 1]
        BY <2>6, <3>1, <4>1, <4>2, <4>3, BucketAssumption
      <4> QED
        BY <4>4, <4>5
    <3> QED
      BY <2>7, <3>7, <3>11, <3>12 DEF RecordAgrees, mine1, sent1, at1
  <2> QED
    BY <2>9, <2>11, <2>13, <2>14 DEF CountInv, RecordsAgree
<1> QED
  BY <1>5, <1>6

(* The counters stay right, whatever requests and connections do.          *)
LEMMA CountInvariant == RelaySpec => [](RegistryInv /\ CountInv)
<1>1. RegistryInv /\ CountInv /\ [RelayNext]_relayVars => CountInv'
  <2> SUFFICES ASSUME RegistryInv, CountInv, [RelayNext]_relayVars
               PROVE  CountInv'
    OBVIOUS
  <2>1. CASE RegistryStep
    BY <2>1, CountRegistryStep
  <2>2. ASSUME NEW r \in Request, RequestStep(r) PROVE CountInv'
    BY <2>2, CountRequestStep, CountRecordStep DEF RequestStep, ServeStep
  <2>3. CASE UNCHANGED relayVars
    <3>1. RelayTypeOK'
      BY <2>3 DEF relayVars, vars, connVars, mapVars, adminVars, reqVars, countVars,
                  CountInv, RelayTypeOK, TypeOK
    <3>2. RecordsAgree'
      BY <2>3, RecordsKept DEF relayVars, vars, connVars, reqVars, countVars
    <3>3. CountBound'
      BY <2>3 DEF relayVars, vars, connVars, reqVars, countVars, CountInv, CountBound
    <3> QED
      BY <3>1, <3>2, <3>3 DEF CountInv
  <2> QED
    BY <2>1, <2>2, <2>3 DEF RelayNext
<1>2. RelaySpec => []RegistryInv
  BY RelayImplementsRegistry, RegistryInvariant, PTL
<1> QED
  BY <1>1, <1>2, CountInit, PTL DEF RelaySpec

-----------------------------------------------------------------------------
(* Totals.  The library's induction over finite sets speaks of any          *)
(* operator, and no prover instantiates it; that among finite sets there   *)
(* is a minimal one serves in its place.                                   *)

LEMMA MinimalSubset ==
  ASSUME NEW S, IsFiniteSet(S), NEW Bad \in SUBSET SUBSET S, Bad # {}
  PROVE  \E T \in Bad : \A U \in Bad : ~(U \subseteq T /\ U # T)
<1>1. Bad \subseteq FiniteSubsetsOf(S)
  BY FS_Subset DEF FiniteSubsetsOf
<1>2. PICK T \in Bad : \A U \in Bad : ~(<<U, T>> \in StrictSubsetOrdering(S))
  BY <1>1, FS_StrictSubsetOrderingWellFounded, WFMin
<1> QED
  BY <1>2 DEF StrictSubsetOrdering

(* The members of R that c, or some member of S, owns.                     *)
OwnedBy(R, owner, c) == {r \in R : owner[r] = c}
OwnedIn(R, owner, S) == {r \in R : owner[r] \in S}

(* If st[c] counts in a field the members of R that c owns, then the sum   *)
(* of that field over S is the number of those that a member of S owns.    *)
LEMMA SumOfCounts ==
  ASSUME NEW S, IsFiniteSet(S), NEW R, IsFiniteSet(R), NEW owner,
         NEW st, NEW field,
         \A c \in S : st[c][field] = Cardinality(OwnedBy(R, owner, c))
  PROVE  TotalOf(st, field, S) = Cardinality(OwnedIn(R, owner, S))
<1> DEFINE Pick(s) == CHOOSE x \in s : TRUE
           Of(s) == {r \in R : owner[r] \in s}
           Step(g, s) == IF s = {} THEN 0 ELSE st[Pick(s)][field] + g[s \ {Pick(s)}]
           Sums(g) == g = [s \in SUBSET S |-> Step(g, s)]
           closed == [s \in SUBSET S |-> Cardinality(Of(s))]
<1>1. \A s \in SUBSET S : s # {} =>
        /\ Pick(s) \in s
        /\ Cardinality(Of(s)) = st[Pick(s)][field] + Cardinality(Of(s \ {Pick(s)}))
  <2> SUFFICES ASSUME NEW s \in SUBSET S, s # {}
               PROVE  /\ Pick(s) \in s
                      /\ Cardinality(Of(s)) = st[Pick(s)][field] + Cardinality(Of(s \ {Pick(s)}))
    OBVIOUS
  <2>1. Pick(s) \in s
    OBVIOUS
  <2> DEFINE x == Pick(s)
             A == {r \in R : owner[r] = x}
             B == Of(s \ {x})
  <2> HIDE DEF Pick
  <2>2. A \cup B = Of(s) /\ A \cap B = {}
    BY <2>1
  <2>3. IsFiniteSet(A) /\ IsFiniteSet(B)
    BY FS_Subset
  <2>4. Cardinality(A \cap B) = 0
    BY <2>2, FS_EmptySet
  <2>5. Cardinality(A) \in Nat /\ Cardinality(B) \in Nat
    BY <2>3, FS_CardinalityType
  <2>6. Cardinality(Of(s)) = Cardinality(A) + Cardinality(B) - Cardinality(A \cap B)
    BY <2>2, <2>3, FS_Union
  <2>7. st[x][field] = Cardinality(A)
    BY <2>1 DEF OwnedBy
  <2> HIDE DEF A, B, x, Of
  <2>8. Cardinality(Of(s)) = st[x][field] + Cardinality(B)
    BY <2>4, <2>5, <2>6, <2>7
  <2> QED
    BY <2>1, <2>8 DEF x, B
<1>2. Sums(closed)
  <2>1. Cardinality(Of({})) = 0
    <3>1. Of({}) = {}
      OBVIOUS
    <3> QED
      BY <3>1, FS_EmptySet
  <2> HIDE DEF Pick, Of
  <2>2. \A s \in SUBSET S : s # {} => closed[s \ {Pick(s)}] = Cardinality(Of(s \ {Pick(s)}))
    OBVIOUS
  <2>3. \A s \in SUBSET S : Cardinality(Of(s)) = Step(closed, s)
    BY <1>1, <2>1, <2>2
  <2> HIDE DEF Step
  <2> QED
    BY <2>3
<1>3. \A g : Sums(g) => g[S] = closed[S]
  <2> SUFFICES ASSUME NEW g, Sums(g) PROVE g[S] = closed[S]
    OBVIOUS
  <2> DEFINE Bad == {s \in SUBSET S : g[s] # closed[s]}
  <2> HIDE DEF Pick
  <2>1. Bad = {}
    <3> SUFFICES ASSUME Bad # {} PROVE FALSE
      OBVIOUS
    <3> HIDE DEF closed, Of
    <3>1. PICK s \in Bad : \A u \in Bad : ~(u \subseteq s /\ u # s)
      <4>1. Bad \in SUBSET SUBSET S
        OBVIOUS
      <4> HIDE DEF Bad
      <4> QED
        BY <4>1, MinimalSubset
    <3>2. s \in SUBSET S /\ g[s] # closed[s]
      OBVIOUS
    <3>3. g[s] = Step(g, s) /\ closed[s] = Step(closed, s)
      <4> HIDE DEF Step
      <4> QED
        BY <1>2, <3>2
    <3>4. s # {}
      BY <3>2, <3>3
    <3>5. s \ {Pick(s)} \in SUBSET S /\ s \ {Pick(s)} # s
      BY <1>1, <3>2, <3>4
    <3>6. g[s \ {Pick(s)}] = closed[s \ {Pick(s)}]
      BY <3>1, <3>5
    <3> QED
      BY <3>2, <3>3, <3>6
  <2> HIDE DEF closed
  <2> QED
    BY <2>1
<1>4. TotalOf(st, field, S) = (CHOOSE g : Sums(g))[S]
  BY DEF TotalOf, MapThenSumSet, MapThenFoldSet
<1>5. Sums(CHOOSE g : Sums(g))
  <2> HIDE DEF Sums
  <2> QED
    BY <1>2
<1>6. closed[S] = Cardinality(Of(S))
  OBVIOUS
<1> HIDE DEF Sums, closed, Of
<1>7. (CHOOSE g : Sums(g))[S] = Cardinality(Of(S))
  BY <1>3, <1>5, <1>6
<1> QED
  BY <1>4, <1>7 DEF Of, OwnedIn

(* Open tunnels are connections, and only finitely many.                   *)
LEMMA ActiveFinite ==
  ASSUME RegistryInv, CountInv
  PROVE  ActiveTunnels \subseteq Conn /\ IsFiniteSet(ActiveTunnels)
<1>1. ActiveTunnels \subseteq {c \in Conn : pc[c] # "idle"}
  BY DEF ActiveTunnels, HasTunnel, RegistryInv, TypeOK, RecordBacked
<1> QED
  BY <1>1, FS_Subset DEF CountInv, CountBound

(* The totals are those of the requests counted by tunnels that are open.  *)
LEMMA TotalsRight ==
  ASSUME RegistryInv, CountInv
  PROVE  TotalsAgree
<1> DEFINE done == {r \in Request : counted[r] \in Conn}
           sent == {r \in done : sentTo[r] # None}
<1>1. IsFiniteSet(done) /\ IsFiniteSet(sent)
  <2>1. done \subseteq {r \in Request : rpc[r] # "idle"}
    BY DEF CountInv, RecordsAgree, RecordAgrees
  <2>2. IsFiniteSet(done)
    BY <2>1, FS_Subset DEF CountInv, CountBound
  <2> HIDE DEF done
  <2> QED
    BY <2>2, FS_Subset
<1>2. \A c \in Conn :
        /\ OwnedBy(done, counted, c) = {r \in Request : counted[r] = c}
        /\ OwnedBy(sent, counted, c)
             = {r \in {q \in Request : counted[q] = c} : sentTo[r] # None}
  BY DEF OwnedBy
<1>3. /\ OwnedIn(done, counted, ActiveTunnels)
           = {r \in Request : counted[r] \in ActiveTunnels}
      /\ OwnedIn(sent, counted, ActiveTunnels)
           = {r \in {q \in Request : counted[q] \in ActiveTunnels} : sentTo[r] # None}
  BY ActiveFinite DEF OwnedIn
<1> HIDE DEF done, sent
<1>4. \A c \in ActiveTunnels :
        /\ stats[c]["requests"] = Cardinality(OwnedBy(done, counted, c))
        /\ stats[c]["bytesIn"] = Cardinality(OwnedBy(sent, counted, c))
  BY <1>2, ActiveFinite DEF CountInv, RecordsAgree, RecordAgrees
<1>5. TotalOf(stats, "requests", ActiveTunnels)
        = Cardinality(OwnedIn(done, counted, ActiveTunnels))
  BY <1>1, <1>4, ActiveFinite, SumOfCounts
<1>6. TotalOf(stats, "bytesIn", ActiveTunnels)
        = Cardinality(OwnedIn(sent, counted, ActiveTunnels))
  BY <1>1, <1>4, ActiveFinite, SumOfCounts
<1>7. /\ Totals.requests = TotalOf(stats, "requests", ActiveTunnels)
      /\ Totals.bytesIn = TotalOf(stats, "bytesIn", ActiveTunnels)
  BY DEF Totals
<1> QED
  BY <1>3, <1>5, <1>6, <1>7 DEF TotalsAgree

(* Each answer is counted at most once, under the name it was asked for;   *)
(* counters agree with the requests they count, and the totals add up.     *)
THEOREM CountersAreConsistent == RelaySpec => []StatsConsistent
<1>1. RegistryInv /\ CountInv => StatsConsistent
  BY TotalsRight DEF CountInv, StatsConsistent
<1> QED
  BY <1>1, CountInvariant, PTL

(* The record that is at a name in the map belongs to a handler that still *)
(* serves, so no answer is added to that of a handler that has ended.      *)
LEMMA OnlyServingCount ==
  ASSUME RegistryInv, CountInv, NEW r \in Request, RecordRequest(r),
         NEW c \in Conn, pc[c] = "done"
  PROVE  stats'[c] = stats[c]
<1> DEFINE owner == sessions[rname[r]]
<1>1. rname[r] \in Name
  BY DEF RecordRequest, CountInv, CountBound
<1>2. CASE owner = None
  BY <1>2 DEF RecordRequest, countVars
<1>3. CASE owner # None
  <2>1. owner # c
    BY <1>1, <1>3 DEF RegistryInv, TypeOK, RecordBacked
  <2>2. PICK d \in Cell, out \in BytesOut(r) :
          stats' = [stats EXCEPT ![owner] =
                      Count(@, status[r], d, BytesIn(r), out)]
    BY <1>3 DEF RecordRequest
  <2> QED
    BY <2>1, <2>2 DEF CountInv, RelayTypeOK
<1> QED
  BY <1>2, <1>3

(* The totals that unregister logs are final: no answer that arrives after *)
(* a tunnel's handler has ended changes what its record has counted.       *)
THEOREM LoggedTotalsFinal == RelaySpec => FinalStats
<1>1. RegistryInv /\ CountInv /\ [RelayNext]_relayVars
        => [\A c \in Conn : pc[c] = "done" => stats'[c] = stats[c]]_relayVars
  <2> SUFFICES ASSUME RegistryInv, CountInv, RelayNext,
                      NEW c \in Conn, pc[c] = "done"
               PROVE  stats'[c] = stats[c]
    OBVIOUS
  <2>1. CASE UNCHANGED stats
    BY <2>1
  <2>2. ASSUME NEW r \in Request, RecordRequest(r) PROVE stats'[c] = stats[c]
    BY <2>2, OnlyServingCount
  <2>3. UNCHANGED stats \/ (\E r \in Request : RecordRequest(r))
    BY DEF RelayNext, RegistryStep, RequestStep, ServeStep, Lookup, LocalAnswers,
           Authorize, OpenStream, WriteRequest, ReadFails, countVars
  <2> QED
    BY <2>1, <2>2, <2>3
<1> QED
  BY <1>1, CountInvariant, PTL DEF RelaySpec, FinalStats
=============================================================================
