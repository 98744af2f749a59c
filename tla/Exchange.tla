------------------------------ MODULE Exchange ------------------------------
(***************************************************************************)
(* One public request end to end: the relay's ServeHTTP (internal/server), *)
(* a yamux stream with a window in each direction, and the client's        *)
(* handleStream (internal/client) with the local application behind it.    *)
(* The relay writes the whole request before it reads any of the answer,   *)
(* the client may begin to answer before it has read the whole request,    *)
(* and both wait for window.  A unit stands for a head, or for a piece of  *)
(* a body.                                                                 *)
(***************************************************************************)
EXTENDS Integers

CONSTANTS
  Window, \* units that a receiver accepts unread: MaxStreamWindowSize
  Bodies, \* how many units the body of a request may have
  Answers \* how many units the body of an answer may have

ASSUME ExchangeAssumption ==
  /\ Window \in Nat \ {0}
  /\ Bodies \subseteq Nat
  /\ Answers \subseteq Nat

VARIABLES
  body,    \* units in the public request's body
  reply,   \* units of the answer with its head, 0 before there is one
  framing, \* how the end of the answer is marked: "length", "chunked", "close"
  up,      \* the stream from the relay to the client
  down,    \* the stream from the client to the relay
  rpc,     \* where ServeHTTP stands
  outcome, \* what the requester has been told: "none", "refused" by a 502,
           \* "complete", or "cut" off within the answer
  hpc,     \* where handleStream stands
  stopped, \* the local application reads no more of the body
  dead,    \* the session has ended, or the stream was reset
  excused  \* somebody has failed, or a timeout has passed

pipeVars == <<up, down>>
exchangeVars ==
  <<body, reply, framing, pipeVars, rpc, outcome, hpc, stopped, dead, excused>>

-----------------------------------------------------------------------------
(* A direction of a yamux stream: units sent and got, and how many the     *)
(* reader has granted the writer altogether.                               *)

NewPipe == [sent |-> 0, got |-> 0, granted |-> Window]

Readable(p) == p.got < p.sent
Writable(p) == p.sent < p.granted

Put(p) == [sent |-> p.sent + 1, got |-> p.got, granted |-> p.granted]

(* Slip: the reader waits until it can grant the whole window.             *)
GrantWhole(got, granted) ==
  IF Window + got - granted > Window THEN Window + got ELSE granted

(* sendWindowUpdate: nothing until half of the window can be granted.      *)
Grant(got, granted) ==
  IF Window + got - granted >= Window \div 2 THEN Window + got ELSE granted

Take(p) == [sent |-> p.sent, got |-> p.got + 1,
            granted |-> Grant(p.got + 1, p.granted)]

-----------------------------------------------------------------------------

ExchangeInit ==
  /\ body \in Bodies
  /\ reply = 0
  /\ framing = "length"
  /\ up = NewPipe
  /\ down = NewPipe
  /\ rpc = "writing"
  /\ outcome = "none"
  /\ hpc = "head"
  /\ stopped = FALSE
  /\ dead = FALSE
  /\ excused = FALSE

(* Slip: ServeHTTP returns without closing its stream. *)
RelayClosedNever == FALSE

(* The deferred stream.Close of ServeHTTP has run. *)
RelayClosed == rpc = "done"

(* The client has closed its end, and everything it wrote has been read.   *)
AnswerAtEnd == hpc = "closed" /\ ~Readable(down)

(* The relay has closed its end early, and what it wrote has been read.    *)
RequestAtEnd == RelayClosed /\ ~Readable(up)

-----------------------------------------------------------------------------
(* The relay. *)

Tell(what) == rpc' = "done" /\ outcome' = what

clientVars == <<reply, framing, hpc, stopped>>

(* r.Write writes the next unit of the request. *)
RelayWrites ==
  /\ rpc = "writing"
  /\ ~dead /\ Writable(up)
  /\ up' = Put(up)
  /\ rpc' = IF up.sent = body THEN "reading" ELSE "writing"
  /\ UNCHANGED <<body, clientVars, down, outcome, dead, excused>>

(* r.Write fails: with the stream, with the deadline while it waits for    *)
(* window, or with the public body, which ends early or too late.          *)
RelayWriteFails ==
  /\ rpc = "writing"
  /\ dead \/ ~Writable(up) \/ body > 0
  /\ Tell("refused")
  /\ excused' = TRUE
  /\ UNCHANGED <<body, clientVars, pipeVars, dead>>

(* http.ReadResponse returns the head of the answer. *)
RelayReadsHead ==
  /\ rpc = "reading"
  /\ Readable(down)
  /\ down' = Take(down)
  /\ rpc' = "copying"
  /\ UNCHANGED <<body, clientVars, up, outcome, dead, excused>>

(* http.ReadResponse fails: with the stream, at the end of what the client *)
(* wrote, or with the deadline while there is nothing to read.             *)
RelayReadFails ==
  /\ rpc = "reading"
  /\ dead \/ ~Readable(down)
  /\ Tell("refused")
  /\ excused' = TRUE
  /\ UNCHANGED <<body, clientVars, pipeVars, dead>>

(* io.Copy passes the next unit on to the requester. *)
RelayCopies ==
  /\ rpc = "copying"
  /\ Readable(down)
  /\ down' = Take(down)
  /\ UNCHANGED <<body, clientVars, up, rpc, outcome, dead, excused>>

(* The relay has the whole answer.  One without a length and without       *)
(* chunks ends where the stream ends.                                      *)
AnswerOver == down.got = reply /\ (framing = "close" => AnswerAtEnd)

RelayCopyEnds ==
  /\ rpc = "copying"
  /\ AnswerOver
  /\ Tell("complete")
  /\ UNCHANGED <<body, clientVars, pipeVars, dead, excused>>

(* Slip: the answer is passed on as chunks, whatever its framing was. *)
ToldOnFailureRechunked == "complete"

(* What the requester sees when io.Copy has failed and ServeHTTP returns:  *)
(* net/http breaks off an answer with a length, and ends any other one as  *)
(* if it were complete.                                                    *)
ToldOnFailure == IF framing = "length" THEN "cut" ELSE "complete"

(* io.Copy fails or comes to the stream's end too early: with the stream,  *)
(* at the end of what the client wrote, or with the deadline.              *)
RelayCopyFails ==
  /\ rpc = "copying"
  /\ ~AnswerOver
  /\ dead \/ ~Readable(down)
  /\ Tell(ToldOnFailure)
  /\ excused' = TRUE
  /\ UNCHANGED <<body, clientVars, pipeVars, dead>>

(* io.Copy cannot write: the requester is gone, or too slow for the        *)
(* listener's WriteTimeout.                                                *)
RequesterGone ==
  /\ rpc = "copying"
  /\ Tell("cut")
  /\ excused' = TRUE
  /\ UNCHANGED <<body, clientVars, pipeVars, dead>>

-----------------------------------------------------------------------------
(* The client.  Its bufio.Reader and the transport's buffers only add to   *)
(* the window, and are left out.                                           *)

relayVars == <<body, rpc, outcome>>

HGoto(l) == hpc' = l

(* http.ReadRequest returns the head.  The request may now be held at the  *)
(* pause gate.                                                             *)
ReadHead ==
  /\ hpc = "head"
  /\ Readable(up)
  /\ up' = Take(up)
  /\ HGoto("held")
  /\ UNCHANGED <<relayVars, reply, framing, down, stopped, dead, excused>>

(* http.ReadRequest fails with the stream or at its end. *)
HeadFails ==
  /\ hpc = "head"
  /\ dead \/ RequestAtEnd
  /\ HGoto("refusing")
  /\ UNCHANGED <<relayVars, reply, framing, pipeVars, stopped, dead, excused>>

(* WaitIfPaused returns, and localHTTPClient.Do begins, whatever has       *)
(* become of the stream meanwhile.                                         *)
Release ==
  /\ hpc = "held"
  /\ HGoto("calling")
  /\ UNCHANGED <<relayVars, reply, framing, pipeVars, stopped, dead, excused>>

(* WaitIfPaused returns with the timeout: a 504. *)
HoldExpires ==
  /\ hpc = "held"
  /\ HGoto("refusing")
  /\ excused' = TRUE
  /\ UNCHANGED <<relayVars, reply, framing, pipeVars, stopped, dead>>

(* The transport reads a unit of the body, which the application takes. It *)
(* goes on with that while the answer comes.                               *)
Deliver ==
  /\ hpc \in {"calling", "answering"}
  /\ ~stopped
  /\ Readable(up)
  /\ up' = Take(up)
  /\ UNCHANGED <<relayVars, clientVars, down, dead, excused>>

(* The application reads no more, and may answer nevertheless. *)
LocalStops ==
  /\ hpc \in {"calling", "answering"}
  /\ ~stopped
  /\ stopped' = TRUE
  /\ excused' = TRUE
  /\ UNCHANGED <<relayVars, reply, framing, pipeVars, hpc, dead>>

(* Do returns an answer, perhaps before the body has been read. *)
LocalAnswers ==
  /\ hpc = "calling"
  /\ \E size \in Answers : reply' = size + 1
  /\ framing' \in {"length", "chunked", "close"}
  /\ HGoto("answering")
  /\ UNCHANGED <<relayVars, pipeVars, stopped, dead, excused>>

(* Do returns an error.  The transport closes the body, which drains it,   *)
(* before that or meanwhile.                                               *)
LocalFails ==
  /\ hpc = "calling"
  /\ hpc' \in {"failing", "refusing"}
  /\ excused' = TRUE
  /\ UNCHANGED <<relayVars, reply, framing, pipeVars, stopped, dead>>

(* Slip: the stream is closed before the body, which is left unread. *)
RefuseUndrained ==
  /\ hpc = "refusing"
  /\ IF dead THEN UNCHANGED <<reply, down>>
             ELSE reply' = 1 /\ down' = Put(down)
  /\ HGoto("closed")
  /\ UNCHANGED <<relayVars, framing, up, stopped, dead, excused>>

(* writeError: an answer of one unit, if the stream still takes it. *)
Refuse ==
  /\ hpc = "refusing"
  /\ IF dead THEN UNCHANGED <<reply, down>>
             ELSE reply' = 1 /\ down' = Put(down)
  /\ HGoto("draining")
  /\ UNCHANGED <<relayVars, framing, up, stopped, dead, excused>>

(* resp.Write takes a unit from the application and writes it. *)
WriteAnswer ==
  /\ hpc = "answering"
  /\ ~dead /\ Writable(down)
  /\ down' = Put(down)
  /\ HGoto(IF down'.sent = reply THEN "draining" ELSE "answering")
  /\ UNCHANGED <<relayVars, reply, framing, up, stopped, dead, excused>>

(* resp.Write fails with the stream; the rest of the answer is read and    *)
(* thrown away, however long the application goes on with it.              *)
AnswerFails ==
  /\ hpc = "answering"
  /\ dead
  /\ HGoto("discarding")
  /\ UNCHANGED <<relayVars, reply, framing, pipeVars, stopped, dead, excused>>

(* resp.Write fails because the application breaks its answer off. *)
AnswerBreaks ==
  /\ hpc = "answering"
  /\ HGoto("draining")
  /\ excused' = TRUE
  /\ UNCHANGED <<relayVars, reply, framing, pipeVars, stopped, dead>>

(* The application's answer ends, or breaks off. *)
DiscardEnds ==
  /\ hpc = "discarding"
  /\ HGoto("draining")
  /\ UNCHANGED <<relayVars, reply, framing, pipeVars, stopped, dead, excused>>

(* req.Body.Close reads the rest of the body and throws it away. *)
Drain ==
  /\ hpc \in {"failing", "draining"}
  /\ Readable(up)
  /\ up' = Take(up)
  /\ UNCHANGED <<relayVars, clientVars, down, dead, excused>>

(* Slip: handleStream ends without closing the body. *)
DrainOverAtOnce == TRUE

(* There is nothing left to drain: the body was read whole, the relay has  *)
(* closed its end, or the stream has failed.                               *)
DrainOver == up.got = body + 1 \/ RequestAtEnd \/ dead

(* The deferred calls are over, stream.Close last. *)
DrainEnds ==
  /\ hpc \in {"failing", "draining"}
  /\ DrainOver
  /\ HGoto(IF hpc = "failing" THEN "refusing" ELSE "closed")
  /\ UNCHANGED <<relayVars, reply, framing, pipeVars, stopped, dead, excused>>

-----------------------------------------------------------------------------
(* The tunnel. *)

(* The session ends: the tunnel's connection, or a process at its ends.    *)
SessionLost ==
  /\ ~dead
  /\ dead' = TRUE
  /\ excused' = TRUE
  /\ UNCHANGED <<relayVars, clientVars, pipeVars>>

(* StreamCloseTimeout: a stream that the relay has closed and the client   *)
(* has not is reset.                                                       *)
StreamReset ==
  /\ RelayClosed
  /\ hpc # "closed"
  /\ ~dead
  /\ dead' = TRUE
  /\ UNCHANGED <<relayVars, clientVars, pipeVars, excused>>

-----------------------------------------------------------------------------

(* ServeHTTP at work, and the timeouts that end each of its calls. *)
RelayWorks ==
  RelayWrites \/ RelayReadsHead \/ RelayCopies \/ RelayCopyEnds
RelayGivesUp ==
  RelayWriteFails \/ RelayReadFails \/ RelayCopyFails \/ RequesterGone

(* handleStream without the application's help. *)
HandlerWorks ==
  \/ ReadHead \/ HeadFails \/ Release \/ HoldExpires
  \/ Refuse \/ AnswerFails \/ Drain \/ DrainEnds

(* The application at work. *)
LocalWorks == LocalAnswers \/ WriteAnswer \/ DiscardEnds
LocalQuits == LocalStops \/ LocalFails \/ AnswerBreaks

ExchangeNext ==
  \/ RelayWorks \/ RelayGivesUp \/ HandlerWorks \/ Deliver
  \/ LocalWorks \/ LocalQuits \/ SessionLost \/ StreamReset

(* The goroutines of both programs run, and yamux's timer fires.  Nothing  *)
(* is assumed of the requester nor of the local application.               *)
ExchangeFairness ==
  /\ WF_exchangeVars(HandlerWorks)
  /\ WF_exchangeVars(RelayReadsHead \/ RelayCopies \/ RelayCopyEnds)
  /\ WF_exchangeVars(StreamReset)

-----------------------------------------------------------------------------
(* Correctness. *)

(* Both programs wait for window, and only the deadline can end it. *)
Stalled ==
  /\ rpc = "writing" /\ ~Writable(up)
  /\ hpc = "answering" /\ ~Writable(down)

(* The relay, which writes first and reads later, and the client, which    *)
(* may answer first and read later, wait for each other only while the     *)
(* application leaves the body unread, and only for a request and an       *)
(* answer that both exceed the window.                                     *)
StallNeedsBoth ==
  Stalled /\ ~dead => /\ Readable(up)
                      /\ body + 1 > Window /\ reply > Window

(* A requester who is told the answer's length learns of every failure: no *)
(* answer with a length looks complete unless all of it was passed on,     *)
(* wherever the session, the application, the requester or a timeout cut   *)
(* the exchange.                                                           *)
CompleteIsWhole ==
  outcome = "complete" /\ framing = "length" => down.got = reply

(* What makes both inductive: grants never exceed the window, nor fall so  *)
(* far behind that an empty stream could be full, and the answer's framing *)
(* is settled before the relay reads of it.                                *)
PipeType == [sent : Nat, got : Nat, granted : Nat]

PipeOK(p) ==
  /\ p \in PipeType
  /\ p.got <= p.sent /\ p.sent <= p.granted
  /\ p.granted <= Window + p.got
  /\ p.got < p.granted /\ Window <= p.granted

ExchangeTypeOK ==
  /\ body \in Nat /\ reply \in Nat
  /\ framing \in {"length", "chunked", "close"}
  /\ rpc \in {"writing", "reading", "copying", "done"}
  /\ outcome \in {"none", "refused", "complete", "cut"}
  /\ hpc \in {"head", "held", "calling", "failing", "refusing", "answering",
               "discarding", "draining", "closed"}
  /\ stopped \in BOOLEAN /\ dead \in BOOLEAN /\ excused \in BOOLEAN

ExchangeInv ==
  /\ ExchangeTypeOK
  /\ PipeOK(up) /\ PipeOK(down)
  /\ rpc = "writing" => up.sent <= body
  /\ hpc \in {"head", "held", "calling", "failing", "refusing"}
       => reply = 0 /\ down.sent = 0
  /\ hpc = "answering" => down.sent < reply
  /\ rpc # "done" => outcome = "none"
  /\ rpc = "copying" \/ outcome = "complete" => 0 < down.got
  /\ CompleteIsWhole

(* When the requester sends its body, and the application reads it and     *)
(* gives its whole answer, sooner or later and in any order, the exchange  *)
(* completes without the help of a deadline, unless somebody fails.        *)
PoliteCompletes ==
  /\ WF_exchangeVars(RelayWrites)
  /\ WF_exchangeVars(Deliver)
  /\ WF_exchangeVars(LocalWorks)
  => <>(outcome = "complete" \/ excused)

(* A refusal by the client (a pause that lasts too long, an application    *)
(* that is down) comes while the relay may still be writing a body beyond  *)
(* the window.  Nobody has to wait for a deadline then: if the requester   *)
(* sends its body, the relay gets through it to the client's answer.       *)
RefusalIsTold ==
  WF_exchangeVars(RelayWrites)
  => (hpc \in {"failing", "refusing"} ~> outcome # "none" \/ dead)

(* When the relay's calls succeed or time out, and the application answers *)
(* or fails and comes to its answer's end, handleStream ends, whatever the *)
(* requester, the stream and the rest of the body are doing by then.       *)
HandlerEnds ==
  /\ WF_exchangeVars(RelayWorks \/ RelayGivesUp)
  /\ WF_exchangeVars(LocalAnswers \/ LocalFails)
  /\ WF_exchangeVars(WriteAnswer)
  /\ WF_exchangeVars(DiscardEnds)
  => <>(hpc = "closed")
=============================================================================
