----------------------------- MODULE ClientRun -----------------------------
(***************************************************************************)
(* The client's run loop (internal/client/client.go, Run and runSession)   *)
(* against the registry of the relay.  The client dials, shakes hands,     *)
(* serves streams until its session ends, sleeps, and dials again, each    *)
(* time over a new connection.  A line of the handshake that it cannot go  *)
(* on with ends it: an ERR of the relay, or whatever something else says   *)
(* that has been reached in the relay's place.  Either side may take the   *)
(* connection for broken before the other does.                            *)
(***************************************************************************)
EXTENDS Registry

CONSTANTS
  Mine,           \* the client's connections to the relay, in any order
  Elsewhere,      \* its connections to something else at that address
  ClientName,     \* config.Name
  TokenAccepted,  \* config.Token is a token of the relay
  ControlTLS      \* config.ControlTLS

ASSUME ClientAssumption ==
  /\ Mine \subseteq Conn
  /\ Elsewhere \cap (Conn \cup {None}) = {}
  /\ TokenAccepted \in BOOLEAN
  /\ ControlTLS \in BOOLEAN

VARIABLES
  cpc,       \* where Run stands
  conn,      \* the connection of the current attempt, or None
  responded, \* those of Mine on which the challenge has been answered
  connected  \* those of Mine for which runSession says connected

clientVars == <<cpc, conn, responded, connected>>
runVars == <<vars, clientVars>>

(* A session attempt is under way. *)
Connected == {"hello", "verdict", "accepting"}

ClientTypeOK ==
  /\ TypeOK
  /\ cpc \in {"start", "dial", "waiting", "stopped", "failed"} \cup Connected
  /\ conn \in Mine \cup Elsewhere \cup {None}
  /\ responded \subseteq Mine
  /\ connected \subseteq Mine

ClientInit ==
  /\ Init
  /\ cpc = "start"
  /\ conn = None
  /\ responded = {}
  /\ connected = {}

-----------------------------------------------------------------------------
(* The client. *)

(* The client's end is closed; the relay may notice much later. *)
CloseConn(c) ==
  /\ peer' = [d \in Conn |-> IF d = c /\ pc[d] \notin {"idle", "done"} THEN "away" ELSE peer[d]]
  /\ UNCHANGED <<pc, name, reply, sess, mapVars, adminVars>>

(* runSession returns over the closed connection, and Run goes to l. *)
EndAttempt(l) ==
  /\ CloseConn(conn)
  /\ conn' = None
  /\ cpc' = l
  /\ UNCHANGED <<responded, connected>>

(* isReconnectableControlError: any error but a terminal one is retried.   *)
Retry == EndAttempt("waiting")
GiveUp == EndAttempt("failed")

(* ValidateName: Run does not even dial for a malformed name. *)
Start ==
  /\ cpc = "start"
  /\ cpc' = IF ClientName \in Name THEN "dial" ELSE "failed"
  /\ UNCHANGED <<vars, conn, responded, connected>>

(* dialControl, over TCP, TLS or a websocket, and the hello.  A failure is *)
(* retried, except one of TLS over TCP, whose message carries the hint     *)
(* that isReconnectableControlError finds.                                 *)
Dial ==
  /\ cpc = "dial"
  /\ \/ \E c \in Mine : /\ Accept(c)
                        /\ conn' = c
                        /\ cpc' = "hello"
     \/ /\ conn' \in Elsewhere
        /\ cpc' = "hello"
        /\ UNCHANGED vars
     \/ /\ cpc' = "waiting"
        /\ UNCHANGED <<vars, conn>>
     \/ /\ ControlTLS
        /\ cpc' = "failed"
        /\ UNCHANGED <<vars, conn>>
  /\ UNCHANGED <<responded, connected>>

(* What can be read is what the relay has written; something else may have *)
(* written anything.                                                       *)

(* The challenge has come and is answered. *)
AnswerChallenge ==
  /\ cpc = "hello"
  /\ conn \in Mine => pc[conn] = "response"
  /\ responded' = responded \cup ({conn} \cap Mine)
  /\ cpc' = "verdict"
  /\ UNCHANGED <<vars, conn, connected>>

(* An ERR line has come, in the place of the challenge or of the OK: a     *)
(* terminalControlError.                                                   *)
ReadRefusal ==
  /\ cpc \in {"hello", "verdict"}
  /\ conn \in Mine => reply[conn] \notin {"none", "OK"}
  /\ GiveUp

(* A line has come that is no ERR, and no challenge or OK where one was    *)
(* due: terminal too.  The relay writes no such line.                      *)
ReadOtherLine ==
  /\ cpc \in {"hello", "verdict"}
  /\ conn \in Elsewhere
  /\ GiveUp

(* Slip: every line that is not an ERR is taken for the OK. *)
ReadOKAnyLine ==
  /\ cpc \in {"hello", "verdict"}
  /\ conn \in Mine => reply[conn] = "OK" \/ pc[conn] = "response"
  /\ connected' = connected \cup ({conn} \cap Mine)
  /\ cpc' = "accepting"
  /\ UNCHANGED <<vars, conn, responded>>

(* The OK line has come: yamux.Client, and EventTunnelConnected. *)
ReadOK ==
  /\ cpc = "verdict"
  /\ conn \in Mine => reply[conn] = "OK"
  /\ connected' = connected \cup ({conn} \cap Mine)
  /\ cpc' = "accepting"
  /\ UNCHANGED <<vars, conn, responded>>

(* The other ends of an attempt are retried, whether the relay closed the  *)
(* connection, the network broke it, or a keepalive was not answered.      *)

(* The hello cannot be written, or the challenge cannot be read. *)
HelloFails == cpc = "hello" /\ Retry

(* Slip: this error path leaves the connection open. *)
ResponseFailsUnclosed ==
  /\ cpc = "verdict"
  /\ cpc' = "waiting"
  /\ conn' = None
  /\ UNCHANGED <<vars, responded, connected>>

(* The response cannot be written, or the verdict cannot be read. *)
ResponseFails == cpc = "verdict" /\ Retry

(* The OK line has come, but yamux.Client refuses to start. *)
SessionUnstarted ==
  /\ cpc = "verdict"
  /\ conn \in Mine => reply[conn] = "OK"
  /\ Retry

(* Slip: the accept loop goes on when AcceptStream fails. *)
SessionEndsUnnoticed == cpc = "accepting" /\ UNCHANGED runVars

(* AcceptStream fails: the session has ended. *)
SessionEnds == cpc = "accepting" /\ Retry

ConnectionLost == HelloFails \/ ResponseFails \/ SessionUnstarted \/ SessionEnds

(* The reconnect delay is over. *)
TimerFires ==
  /\ cpc = "waiting"
  /\ cpc' = "dial"
  /\ UNCHANGED <<vars, conn, responded, connected>>

(* Slip: the end of the context does not close the connection. *)
CancelUnclosed ==
  /\ cpc \in {"dial", "waiting"} \cup Connected
  /\ cpc' = "stopped"
  /\ conn' = None
  /\ UNCHANGED <<vars, responded, connected>>

(* The context ends: the connection is closed, and Run returns nil from    *)
(* wherever it stands.                                                     *)
Cancel ==
  \/ cpc \in Connected /\ EndAttempt("stopped")
  \/ /\ cpc \in {"dial", "waiting"}
     /\ cpc' = "stopped"
     /\ UNCHANGED <<vars, conn, responded, connected>>

ClientStep ==
  \/ Start \/ Dial \/ AnswerChallenge \/ ReadRefusal \/ ReadOtherLine \/ ReadOK
  \/ ConnectionLost \/ TimerFires \/ Cancel

-----------------------------------------------------------------------------
(* The relay's end of the client's connections: the hello is well-formed   *)
(* and names the client's tunnel, and the response, which the relay reads  *)
(* when it has been sent, is right exactly when the token is.              *)

ServeMine(c) ==
  \/ ReadHello(c) /\ name'[c] = ClientName
  \/ ReadResponse(c) /\ c \in responded /\ (pc'[c] = "authenticated" <=> TokenAccepted)
  \/ HandshakeFails(c) \/ HandlerStep(c) \/ SessionFails(c)

RelayEnd ==
  /\ \/ \E c \in Mine : ServeMine(c)
     \/ \E c \in Conn \ Mine : ConnStep(c)
     \/ \E a \in Admin : AdminStep(a)
  /\ UNCHANGED clientVars

ClientNext == ClientStep \/ RelayEnd

ClientSpec == ClientInit /\ [][ClientNext]_runVars

(* What has arrived from the relay is read; a connection that the relay    *)
(* has closed, or whose session it has, fails at the client's end too.     *)
(* Something else may stay silent for ever.                                *)
ClientFairSpec ==
  /\ ClientSpec
  /\ \A c \in Conn :
       /\ WF_runVars(HandshakeFails(c) /\ UNCHANGED clientVars)
       /\ WF_runVars(HandlerStep(c) /\ UNCHANGED clientVars)
       /\ WF_runVars(peer[c] # "up" /\ SessionFails(c) /\ UNCHANGED clientVars)
  /\ WF_runVars(conn \in Mine /\ (AnswerChallenge \/ ReadRefusal \/ ReadOK))
  /\ \A c \in Mine : WF_runVars(conn = c /\ pc[c] = "done" /\ ConnectionLost)

-----------------------------------------------------------------------------
(* Correctness. *)

(* The client has at most one connection: every way out of an attempt has  *)
(* closed it.  One that stayed open could keep the name from the next.     *)
OneAttempt ==
  \A c \in Mine : pc[c] \notin {"idle", "done"} /\ peer[c] = "up" => c = conn

(* What makes OneAttempt inductive: an attempt has a connection that has   *)
(* been dialed, and the others have been left.                             *)
AttemptInv ==
  /\ ClientTypeOK
  /\ cpc \in Connected <=> conn # None
  /\ conn \in Mine => pc[conn] # "idle"
  /\ OneAttempt

(* The client has called itself connected to the relay only on connections *)
(* on which it answered the challenge and was granted its own name.        *)
ConnectedIsGranted ==
  /\ cpc = "accepting" /\ conn \in Mine => conn \in connected
  /\ \A c \in connected :
       c \in responded /\ reply[c] = "OK" /\ name[c] = ClientName

(* A connection that the client has left, whether to retry, refused,       *)
(* disappointed or stopped, does not keep the client's name: nothing that  *)
(* the relay was still doing for it lasts, so a later attempt, or anybody  *)
(* else, can have it.                                                      *)
LeftNameFreed ==
  \A c \in Mine : pc[c] # "idle" /\ conn # c ~> ~Holds(c, ClientName)

(* An attempt at the relay does not hang in its handshake, although the    *)
(* client sets no deadline of its own: the relay's does it.                *)
AttemptEnds ==
  cpc \in {"hello", "verdict"} /\ conn \in Mine ~> cpc \notin {"hello", "verdict"}

(* A client that shows itself connected is routed to, or finds out that it *)
(* is not: EventTunnelConnected comes before the relay's register.         *)
ConnectedBecomesRouted ==
  \A c \in Mine :
    cpc = "accepting" /\ conn = c ~>
      conn # c \/ (sessions[ClientName] = c /\ HasTunnel(ClientName))

(* A client that was connected reconnects when it is dropped, as long as   *)
(* nobody else wants its name and its token is good, rather than give up.  *)
ReconnectsAfterDrop ==
  /\ connected # {}
  /\ Conn = Mine /\ Elsewhere = {} /\ NameAllowed(ClientName)
  /\ TokenAccepted /\ ~ControlTLS
  => cpc # "failed"
=============================================================================
