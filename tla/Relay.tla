------------------------------- MODULE Relay -------------------------------
(***************************************************************************)
(* Public HTTP requests through the relay (internal/server/server.go,      *)
(* ServeHTTP) on top of the registry.  A request looks its tunnel up under *)
(* the lock and then works without it: the session it captured may close,  *)
(* be unregistered, and be replaced by another client's under the same     *)
(* name before the request opens its stream, before it is answered and     *)
(* before recordRequest counts it, by name again, in the map.              *)
(***************************************************************************)
EXTENDS Registry, FiniteSetsExt, Integers

CONSTANTS
  Request,    \* public HTTP requests
  Credential, \* user:password pairs
  BasicAuth,  \* BasicAuth[c]: what the hello of c asks the public for, or None
  Bucket,     \* the finite upper bounds of durationBuckets, as 1..Bucket
  LocalStatus \* what local applications answer

ASSUME CredentialAssumption ==
  None \notin Credential /\ BasicAuth \in [Conn -> Credential \cup {None}]
ASSUME BucketAssumption == Bucket \in Nat
ASSUME StatusAssumption == LocalStatus \subseteq Nat

Status == LocalStatus \cup {401, 404, 502}

VARIABLES
  rpc,      \* rpc[r]: where ServeHTTP stands for request r
  rname,    \* rname[r]: the tunnel name in its Host header
  rcred,    \* rcred[r]: its Authorization header, or None
  route,    \* route[r]: the connection whose session httpTunnel returned
  rauth,    \* rauth[r]: the basic auth it returned with it
  sentTo,   \* sentTo[r]: the connection that received bytes of r, or None
  status,   \* status[r]: the status code r is answered with, 0 before
  counted,  \* counted[r]: the connection whose record counted r, or None
  stats     \* stats[c]: the counters in the record of connection c

reqVars   == <<rpc, rname, rcred, route, rauth, sentTo, status>>
countVars == <<counted, stats>>
relayVars == <<vars, reqVars, countVars>>

RequestPC == {"idle", "routed", "admitted", "streaming", "written", "answered",
              "done"}

(* durationBuckets has one cell per bound and a last one for +Inf. *)
Cell == 1..(Bucket + 1)

Stats == [requests : Nat, bytesIn : Nat, bytesOut : Nat,
          statusCounts : [Status -> Nat],
          buckets : [Cell -> Nat]]

NoStats == [requests |-> 0, bytesIn |-> 0, bytesOut |-> 0,
            statusCounts |-> [s \in Status |-> 0],
            buckets |-> [i \in Cell |-> 0]]

RelayTypeOK ==
  /\ TypeOK
  /\ rpc \in [Request -> RequestPC]
  /\ rname \in [Request -> Name \cup {None}]
  /\ rcred \in [Request -> Credential \cup {None}]
  /\ route \in [Request -> Conn \cup {None}]
  /\ rauth \in [Request -> Credential \cup {None}]
  /\ sentTo \in [Request -> Conn \cup {None}]
  /\ status \in [Request -> Status \cup {0}]
  /\ counted \in [Request -> Conn \cup {None}]
  /\ stats \in [Conn -> Stats]

RelayInit ==
  /\ Init
  /\ rpc = [r \in Request |-> "idle"]
  /\ rname = [r \in Request |-> None]
  /\ rcred = [r \in Request |-> None]
  /\ route = [r \in Request |-> None]
  /\ rauth = [r \in Request |-> None]
  /\ sentTo = [r \in Request |-> None]
  /\ status = [r \in Request |-> 0]
  /\ counted = [r \in Request |-> None]
  /\ stats = [c \in Conn |-> NoStats]

-----------------------------------------------------------------------------

RGoto(r, l) == rpc' = [rpc EXCEPT ![r] = l]

Answer(r, code) == RGoto(r, "answered") /\ status' = [status EXCEPT ![r] = code]

(* httpTunnel: session and basic auth of one record, read under one lock.  *)
(* Without an open session the answer is 404, and nothing is counted.      *)
Lookup(r, n, cred) ==
  /\ rpc[r] = "idle"
  /\ rname' = [rname EXCEPT ![r] = n]
  /\ rcred' = [rcred EXCEPT ![r] = cred]
  /\ IF HasTunnel(n)
       THEN /\ route' = [route EXCEPT ![r] = sessions[n]]
            /\ rauth' = [rauth EXCEPT ![r] = BasicAuth[sessions[n]]]
            /\ RGoto(r, "routed")
            /\ UNCHANGED status
       ELSE /\ RGoto(r, "done")
            /\ status' = [status EXCEPT ![r] = 404]
            /\ UNCHANGED <<route, rauth>>
  /\ UNCHANGED <<vars, sentTo, countVars>>

(* requireTunnelBasicAuth: no basic auth, or the right credentials. *)
Authorize(r) ==
  /\ rpc[r] = "routed"
  /\ IF rauth[r] \in {None, rcred[r]}
       THEN RGoto(r, "admitted") /\ UNCHANGED status
       ELSE Answer(r, 401)
  /\ UNCHANGED <<vars, rname, rcred, route, rauth, sentTo, countVars>>

(* Slip: the stream is opened on the session that has the name by now.     *)
OpenStreamReread(r) ==
  /\ rpc[r] = "admitted"
  /\ \/ /\ HasTunnel(rname[r])
        /\ route' = [route EXCEPT ![r] = sessions[rname[r]]]
        /\ RGoto(r, "streaming")
        /\ UNCHANGED status
     \/ /\ RGoto(r, "done")
        /\ status' = [status EXCEPT ![r] = 502]
        /\ UNCHANGED route
  /\ UNCHANGED <<vars, rname, rcred, rauth, sentTo, countVars>>

(* session.OpenStream: it fails on a closed session, and may fail on an    *)
(* open one; the 502 of a failure is the one that is not counted.          *)
OpenStream(r) ==
  /\ rpc[r] = "admitted"
  /\ \/ /\ sess[route[r]] = "open"
        /\ RGoto(r, "streaming")
        /\ UNCHANGED status
     \/ /\ RGoto(r, "done")
        /\ status' = [status EXCEPT ![r] = 502]
  /\ UNCHANGED <<vars, rname, rcred, route, rauth, sentTo, countVars>>

(* r.Write on the stream: it succeeds while the session is open, or fails  *)
(* with the session, with the stream's deadline or with the public body.   *)
(* A failed write may still have delivered part of the request.            *)
WriteRequest(r) ==
  /\ rpc[r] = "streaming"
  /\ \/ /\ sess[route[r]] = "open"
        /\ sentTo' = [sentTo EXCEPT ![r] = route[r]]
        /\ RGoto(r, "written")
        /\ UNCHANGED status
     \/ /\ sentTo' \in {sentTo, [sentTo EXCEPT ![r] = route[r]]}
        /\ Answer(r, 502)
  /\ UNCHANGED <<vars, rname, rcred, route, rauth, countVars>>

(* http.ReadResponse returns what the local application answered; a stream *)
(* hands out what it had received even when its session has closed since.  *)
LocalAnswers(r) ==
  /\ rpc[r] = "written"
  /\ \E code \in LocalStatus : Answer(r, code)
  /\ UNCHANGED <<vars, rname, rcred, route, rauth, sentTo, countVars>>

(* Slip: without a deadline on the stream only the session's end ends it.  *)
ReadFailsNoDeadline(r) ==
  /\ rpc[r] = "written"
  /\ sess[route[r]] # "open"
  /\ Answer(r, 502)
  /\ UNCHANGED <<vars, rname, rcred, route, rauth, sentTo, countVars>>

(* http.ReadResponse fails: the session closed or the deadline passed.     *)
ReadFails(r) ==
  /\ rpc[r] = "written"
  /\ Answer(r, 502)
  /\ UNCHANGED <<vars, rname, rcred, route, rauth, sentTo, countVars>>

-----------------------------------------------------------------------------
(* recordRequest.  Bytes are counted in units: a request has one, an       *)
(* answer's body none or one.                                              *)

(* What io.Copy may report for the body of an answer. *)
CopiedLength == {0, 1}

BytesIn(r) == IF sentTo[r] = None THEN 0 ELSE 1

BytesOut(r) == IF status[r] \in LocalStatus THEN CopiedLength ELSE {0}

(* Slip: an answer counts in the first bucket that holds it and no other.  *)
CountFirstBucket(st, code, d, in, out) ==
  [requests |-> st.requests + 1,
   bytesIn |-> st.bytesIn + in, bytesOut |-> st.bytesOut + out,
   statusCounts |-> [st.statusCounts EXCEPT ![code] = @ + 1],
   buckets |-> [st.buckets EXCEPT ![d] = @ + 1]]

(* What recordRequest adds to a record for an answer that took no longer   *)
(* than bucket d, the last cell standing for +Inf: buckets are cumulative. *)
Count(st, code, d, in, out) ==
  [requests |-> st.requests + 1,
   bytesIn |-> st.bytesIn + in, bytesOut |-> st.bytesOut + out,
   statusCounts |-> [st.statusCounts EXCEPT ![code] = @ + 1],
   buckets |-> [i \in Cell |-> IF i >= d THEN st.buckets[i] + 1
                                         ELSE st.buckets[i]]]

(* Slip: the counters of the session that served the request are used,     *)
(* whether its record is in the map or not.                                *)
RecordRequestOnRoute(r) ==
  /\ rpc[r] = "answered"
  /\ \E d \in Cell, out \in BytesOut(r) :
       stats' = [stats EXCEPT ![route[r]] = Count(@, status[r], d, BytesIn(r), out)]
  /\ counted' = [counted EXCEPT ![r] = route[r]]
  /\ RGoto(r, "done")
  /\ UNCHANGED <<vars, rname, rcred, route, rauth, sentTo, status>>

(* recordRequest: the record that is at the name now counts the answer; if *)
(* there is none the answer is not counted.                                *)
RecordRequest(r) ==
  /\ rpc[r] = "answered"
  /\ LET c == sessions[rname[r]]
     IN  IF c = None
           THEN UNCHANGED countVars
           ELSE /\ \E d \in Cell, out \in BytesOut(r) :
                     stats' = [stats EXCEPT ![c] =
                                 Count(@, status[r], d, BytesIn(r), out)]
                /\ counted' = [counted EXCEPT ![r] = c]
  /\ RGoto(r, "done")
  /\ UNCHANGED <<vars, rname, rcred, route, rauth, sentTo, status>>

-----------------------------------------------------------------------------
(* What /metrics, the status and the dashboard show, under the lock. *)

ActiveTunnels == {sessions[n] : n \in {m \in Name : HasTunnel(m)}}

TotalOf(records, field, conns) ==
  MapThenSumSet(LAMBDA c : records[c][field], conns)

(* The sums over the tunnels that are open now. *)
Totals ==
  [field \in {"requests", "bytesIn", "bytesOut"} |->
     TotalOf(stats, field, ActiveTunnels)]

-----------------------------------------------------------------------------

(* What ServeHTTP does without the local application's help. *)
ServeStep(r) ==
  \/ Authorize(r) \/ OpenStream(r) \/ WriteRequest(r)
  \/ ReadFails(r) \/ RecordRequest(r)

RequestStep(r) ==
  \/ \E n \in Name, cred \in Credential \cup {None} : Lookup(r, n, cred)
  \/ LocalAnswers(r) \/ ServeStep(r)

RegistryStep == Next /\ UNCHANGED <<reqVars, countVars>>

RelayNext == RegistryStep \/ (\E r \in Request : RequestStep(r))

RelaySpec == RelayInit /\ [][RelayNext]_relayVars

(* The stream's deadline, and the timeouts of the public listener, bound   *)
(* every step of ServeHTTP: each ends, if only with an error.  The local   *)
(* application owes nothing.                                               *)
RelayFairSpec == RelaySpec /\ \A r \in Request : WF_relayVars(ServeStep(r))

-----------------------------------------------------------------------------
(* Correctness. *)

(* A request's bytes go only to a client that owned the requested name,    *)
(* and only with the credentials which that very client asks the public    *)
(* for, even when another client has taken the name over in the meantime.  *)
ForwardedAuthorized ==
  \A r \in Request :
    sentTo[r] # None => /\ name[sentTo[r]] = rname[r]
                        /\ BasicAuth[sentTo[r]] \in {None, rcred[r]}

(* What makes ForwardedAuthorized inductive: a routed request stays tied   *)
(* to a connection whose name is settled, with the basic auth of that      *)
(* connection, and passes the check before it moves on.                    *)
RouteBound ==
  \A r \in Request :
    /\ rpc[r] = "idle" => route[r] = None /\ sentTo[r] = None
    /\ rpc[r] \in {"routed", "admitted", "streaming", "written"}
         => route[r] \in Conn
    /\ route[r] # None => /\ pc[route[r]] \in {"serving", "done"}
                          /\ name[route[r]] = rname[r]
                          /\ rauth[r] = BasicAuth[route[r]]
    /\ rpc[r] \in {"admitted", "streaming", "written"} \/ sentTo[r] # None
         => rauth[r] \in {None, rcred[r]}
    /\ sentTo[r] \in {None, route[r]}

(* The counters of a record agree with each other and with the requests    *)
(* that it counted, and its histogram is cumulative.                       *)
RecordAgrees(c) ==
  LET mine == {r \in Request : counted[r] = c}
      st == stats[c]
  IN  /\ \A r \in mine : name[c] = rname[r] /\ rpc[r] = "done"
      /\ st.requests = Cardinality(mine)
      /\ st.bytesIn = Cardinality({r \in mine : sentTo[r] # None})
      /\ \A s \in Status :
           st.statusCounts[s] = Cardinality({r \in mine : status[r] = s})
      /\ st.buckets[Bucket + 1] = st.requests
      /\ \A i \in 1..Bucket : st.buckets[i] <= st.buckets[i + 1]

RecordsAgree == \A c \in Conn : RecordAgrees(c)

(* The totals that are shown are those of the requests that open tunnels   *)
(* have counted.                                                           *)
TotalsAgree ==
  LET shown == {r \in Request : counted[r] \in ActiveTunnels}
  IN  /\ Totals.requests = Cardinality(shown)
      /\ Totals.bytesIn = Cardinality({r \in shown : sentTo[r] # None})

(* An answer is counted at most once and under the name it was asked for,  *)
(* in a record whose counters agree, and the totals add up.                *)
StatsConsistent == RelayTypeOK /\ RecordsAgree /\ TotalsAgree

(* What makes the counters inductive: only finitely many requests have     *)
(* been made and connections accepted; a request that has begun has a      *)
(* name, one that is to be counted has a status; and the connection that   *)
(* counted it had registered, so that its name is settled.                 *)
CountBound ==
  /\ IsFiniteSet({c \in Conn : pc[c] # "idle"})
  /\ IsFiniteSet({r \in Request : rpc[r] # "idle"})
  /\ \A r \in Request :
       /\ rpc[r] # "idle" => rname[r] \in Name
       /\ rpc[r] = "answered" => status[r] \in Status
       /\ counted[r] # None => pc[counted[r]] \in {"serving", "done"}

(* The totals that unregister logs are final: no answer that comes later   *)
(* changes the record of a handler that has ended.                         *)
FinalStats ==
  [][\A c \in Conn : pc[c] = "done" => stats'[c] = stats[c]]_relayVars

(* Every request for a tunnel is answered, whatever becomes of the tunnel. *)
RequestAnswered ==
  \A r \in Request : rpc[r] # "idle" ~> rpc[r] = "done" /\ status[r] # 0
=============================================================================
