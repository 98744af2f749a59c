--------------------------- MODULE ExchangeProofs ---------------------------
(***************************************************************************)
(* Proofs about an exchange inside the life of the daemon, for any window, *)
(* any bodies and any answers.  First the two operations on a direction of *)
(* a stream, then one lemma per side of the exchange.                      *)
(***************************************************************************)
EXTENDS Daemon, TLAPS

(* A writer that has window keeps the accounts of its direction. *)
LEMMA PutKeeps ==
  ASSUME NEW p, PipeOK(p), Writable(p)
  PROVE  /\ PipeOK(Put(p))
         /\ Put(p).sent = p.sent + 1 /\ Put(p).got = p.got
         /\ Put(p).granted = p.granted
  BY ExchangeAssumption DEF PipeOK, PipeType, Writable, Put

(* A reader that has a unit keeps them too, whatever it grants. *)
LEMMA TakeKeeps ==
  ASSUME NEW p, PipeOK(p), Readable(p)
  PROVE  /\ PipeOK(Take(p))
         /\ Take(p).sent = p.sent /\ Take(p).got = p.got + 1
<1>1. p \in PipeType
  BY DEF PipeOK
<1>2. Grant(p.got + 1, p.granted) \in Nat
  BY <1>1, ExchangeAssumption DEF PipeType, Grant
<1>3. /\ Grant(p.got + 1, p.granted) <= Window + p.got + 1
      /\ p.got + 1 < Grant(p.got + 1, p.granted)
      /\ p.granted <= Grant(p.got + 1, p.granted)
  BY <1>1, ExchangeAssumption DEF PipeOK, PipeType, Grant
<1>4. QED
  BY <1>1, <1>2, <1>3, ExchangeAssumption DEF PipeOK, PipeType, Readable, Take

(* A new direction is empty, and its writer may fill the window. *)
LEMMA NewPipeOK == PipeOK(NewPipe) /\ NewPipe.sent = 0 /\ NewPipe.got = 0
  BY ExchangeAssumption DEF NewPipe, PipeOK, PipeType

LEMMA InvInit == DaemonInit => ExchangeInv
<1> SUFFICES ASSUME ExchangeInit PROVE ExchangeInv
  BY DEF DaemonInit
<1>1. PipeOK(up) /\ PipeOK(down) /\ up.sent = 0 /\ down.sent = 0
  BY NewPipeOK DEF ExchangeInit
<1>2. ExchangeTypeOK
  BY ExchangeAssumption DEF ExchangeInit, ExchangeTypeOK
<1>3. QED
  BY <1>1, <1>2 DEF ExchangeInit, ExchangeInv, ExchangeTypeOK, CompleteIsWhole

-----------------------------------------------------------------------------

(* The steps of ServeHTTP. *)
LEMMA InvRelay == ExchangeInv /\ (RelayWorks \/ RelayGivesUp) => ExchangeInv'
<1> SUFFICES ASSUME ExchangeInv, RelayWorks \/ RelayGivesUp
             PROVE  ExchangeInv'
  OBVIOUS
<1> USE DEF ExchangeInv, ExchangeTypeOK, CompleteIsWhole, clientVars, pipeVars, Tell
<1>1. CASE RelayWrites
  <2>1. PipeOK(up') /\ up'.sent = up.sent + 1
    BY <1>1, PutKeeps DEF RelayWrites
  <2>2. up.sent \in Nat
    BY DEF PipeOK, PipeType
  <2>3. QED
    BY <1>1, <2>1, <2>2 DEF RelayWrites
<1>2. CASE RelayReadsHead
  <2>1. PipeOK(down') /\ down'.got = down.got + 1 /\ down'.sent = down.sent
    BY <1>2, TakeKeeps DEF RelayReadsHead
  <2>2. down.got \in Nat
    BY DEF PipeOK, PipeType
  <2>3. outcome = "none"
    BY <1>2 DEF RelayReadsHead
  <2>4. QED
    BY <1>2, <2>1, <2>2, <2>3 DEF RelayReadsHead
<1>3. CASE RelayCopies
  <2>1. PipeOK(down') /\ down'.got = down.got + 1 /\ down'.sent = down.sent
    BY <1>3, TakeKeeps DEF RelayCopies
  <2>2. down.got \in Nat
    BY DEF PipeOK, PipeType
  <2>3. QED
    BY <1>3, <2>1, <2>2 DEF RelayCopies
<1>4. CASE RelayCopyEnds
  BY <1>4 DEF RelayCopyEnds, AnswerOver
<1>5. CASE RelayWriteFails
  BY <1>5 DEF RelayWriteFails
<1>6. CASE RelayReadFails
  BY <1>6 DEF RelayReadFails
<1>7. CASE RelayCopyFails
  BY <1>7 DEF RelayCopyFails, ToldOnFailure
<1>8. CASE RequesterGone
  BY <1>8 DEF RequesterGone
<1>9. QED
  BY <1>1, <1>2, <1>3, <1>4, <1>5, <1>6, <1>7, <1>8 DEF RelayWorks, RelayGivesUp

(* The steps of handleStream, of its transport and of the application.     *)
LEMMA InvClient ==
  ExchangeInv /\ (HandlerWorks \/ Deliver \/ LocalWorks \/ LocalQuits)
    => ExchangeInv'
<1> SUFFICES ASSUME ExchangeInv, HandlerWorks \/ Deliver \/ LocalWorks \/ LocalQuits
             PROVE  ExchangeInv'
  OBVIOUS
<1> USE DEF ExchangeInv, ExchangeTypeOK, CompleteIsWhole, clientVars, pipeVars,
            relayVars, HGoto
<1>1. CASE ReadHead \/ Deliver \/ Drain
  <2>1. PipeOK(up') /\ up'.sent = up.sent
    BY <1>1, TakeKeeps DEF ReadHead, Deliver, Drain
  <2>2. QED
    BY <1>1, <2>1 DEF ReadHead, Deliver, Drain
<1>2. CASE WriteAnswer
  <2>1. PipeOK(down') /\ down'.sent = down.sent + 1 /\ down'.got = down.got
    BY <1>2, PutKeeps DEF WriteAnswer
  <2>2. down.sent \in Nat /\ down.got \in Nat
    BY DEF PipeOK, PipeType
  <2>3. QED
    BY <1>2, <2>1, <2>2 DEF WriteAnswer
<1>3. CASE Refuse
  <2>1. down.sent = 0 /\ down.got = 0
    BY <1>3 DEF Refuse, PipeOK, PipeType
  <2>2. Writable(down)
    BY <2>1, ExchangeAssumption DEF PipeOK, PipeType, Writable
  <2>3. PipeOK(Put(down)) /\ Put(down).sent = 1 /\ Put(down).got = 0
    BY <2>1, <2>2, PutKeeps
  <2>4. QED
    BY <1>3, <2>1, <2>3 DEF Refuse
<1>4. CASE LocalAnswers
  <2>1. down.sent = 0 /\ down.got = 0
    BY <1>4 DEF LocalAnswers, PipeOK, PipeType
  <2>2. reply' \in Nat /\ 0 < reply'
    BY <1>4, ExchangeAssumption DEF LocalAnswers
  <2>3. QED
    BY <1>4, <2>1, <2>2 DEF LocalAnswers
<1>5. CASE HeadFails \/ Release \/ HoldExpires
  BY <1>5 DEF HeadFails, Release, HoldExpires
<1>6. CASE AnswerFails \/ AnswerBreaks \/ DiscardEnds \/ DrainEnds
  BY <1>6 DEF AnswerFails, AnswerBreaks, DiscardEnds, DrainEnds
<1>7. CASE LocalStops \/ LocalFails
  BY <1>7 DEF LocalStops, LocalFails
<1>8. QED
  BY <1>1, <1>2, <1>3, <1>4, <1>5, <1>6, <1>7 DEF HandlerWorks, LocalWorks, LocalQuits

(* The tunnel's end, and the daemon's. *)
LEMMA InvRest ==
  ExchangeInv /\ (SessionLost \/ StreamReset \/ Exit) => ExchangeInv'
  BY DEF ExchangeInv, ExchangeTypeOK, CompleteIsWhole, clientVars, pipeVars, relayVars,
         SessionLost, StreamReset, Exit

(* Every step of the daemon is one of these, or leaves the exchange alone. *)
LEMMA StepKinds ==
  ASSUME [DaemonNext]_processVars
  PROVE  \/ RelayWorks \/ RelayGivesUp
         \/ HandlerWorks \/ Deliver \/ LocalWorks \/ LocalQuits
         \/ SessionLost \/ StreamReset \/ Exit
         \/ UNCHANGED exchangeVars
  BY DEF DaemonNext, ExchangeNext, DaemonStep, Signal, AcceptFails, PublicFails,
         StopAfterFailure, CloseControl, Shutdown, MainReturns, processVars

LEMMA InvStep == ExchangeInv /\ [DaemonNext]_processVars => ExchangeInv'
<1>1. ExchangeInv /\ UNCHANGED exchangeVars => ExchangeInv'
  BY DEF ExchangeInv, ExchangeTypeOK, CompleteIsWhole, exchangeVars, pipeVars
<1>2. QED
  BY <1>1, StepKinds, InvRelay, InvClient, InvRest

(* The accounts of both directions are kept, and the answer's framing is   *)
(* settled before the relay reads of it, for any window and any sizes.     *)
THEOREM ExchangeInvariant == DaemonSpec => []ExchangeInv
  BY InvInit, InvStep, PTL DEF DaemonSpec

(* The relay and the client wait for each other only when the application  *)
(* leaves the body unread, and both bodies exceed the window.              *)
THEOREM OnlyUnreadBodiesStall == DaemonSpec => []StallNeedsBoth
<1>1. ExchangeInv => StallNeedsBoth
  BY ExchangeAssumption
  DEF ExchangeInv, ExchangeTypeOK, StallNeedsBoth, Stalled, PipeOK, PipeType, Readable, Writable
<1>2. QED
  BY <1>1, ExchangeInvariant, PTL

(* An answer with a length that looks complete is complete. *)
THEOREM CompleteAnswersAreWhole == DaemonSpec => []CompleteIsWhole
<1>1. ExchangeInv => CompleteIsWhole
  BY DEF ExchangeInv
<1>2. QED
  BY <1>1, ExchangeInvariant, PTL

=============================================================================
