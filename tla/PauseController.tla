-------------------------- MODULE PauseController --------------------------
(***************************************************************************)
(* The client's pause gate (internal/client/pause.go), and the part of     *)
(* handleStream (internal/client/client.go) that passes every tunneled     *)
(* request through it.  A paused controller holds requests on the channel  *)
(* that was current when they arrived; resuming closes that channel, and   *)
(* the next pause makes a new one.  Each step takes the controller's mutex *)
(* at most once; Toggle takes it twice.                                    *)
(***************************************************************************)
EXTENDS Integers, FiniteSets

CONSTANTS
  Stream,      \* tunneled requests, each in a goroutine of its own
  Controller,  \* goroutines that toggle; the program has one, the TUI's
  MaxPauses    \* bound: how often the controller is paused

ASSUME StreamAssumption == IsFiniteSet(Stream)
ASSUME MaxPausesAssumption == MaxPauses \in Nat

VARIABLES
  paused,     \* p.paused
  resume,     \* p.resume: channel 0 is NewPauseController's
  closed,     \* the channels that have been closed
  queued,     \* p.queued
  wpc,        \* wpc[w]: where the goroutine of stream w stands
  was,        \* was[w]: handleStream's wasPaused
  chan,       \* chan[w]: the channel WaitIfPaused captured, -1 if it did not
  announced,  \* announced[w]: how many queued events it has emitted
  next        \* next[k]: what the Toggle of controller k is about to set

gateVars   == <<paused, resume, closed>>
streamVars == <<queued, wpc, was, chan, announced>>
pauseVars  == <<gateVars, streamVars, next>>

Channel == 0..MaxPauses

StreamPC == {"arrived", "checked", "waiting", "woken", "expired", "forwarded",
             "failed"}

(* Inside WaitIfPaused, between its queued++ and its deferred queued--.    *)
Inside == {"waiting", "woken", "expired"}

PauseTypeOK ==
  /\ paused \in BOOLEAN
  /\ resume \in Channel
  /\ closed \subseteq Channel
  /\ queued \in Nat
  /\ wpc \in [Stream -> StreamPC]
  /\ was \in [Stream -> BOOLEAN]
  /\ chan \in [Stream -> Channel \cup {-1}]
  /\ announced \in [Stream -> Nat]
  /\ next \in [Controller -> {"none", "pause", "resume"}]

PauseInit ==
  /\ paused = FALSE
  /\ resume = 0
  /\ closed = {}
  /\ queued = 0
  /\ wpc = [w \in Stream |-> "arrived"]
  /\ was = [w \in Stream |-> FALSE]
  /\ chan = [w \in Stream |-> -1]
  /\ announced = [w \in Stream |-> 0]
  /\ next = [k \in Controller |-> "none"]

-----------------------------------------------------------------------------
(* The controller. *)

(* Toggle reads the state and lets the mutex go. *)
ToggleRead(k) ==
  /\ next[k] = "none"
  /\ next' = [next EXCEPT ![k] = IF paused THEN "resume" ELSE "pause"]
  /\ UNCHANGED <<gateVars, streamVars>>

(* Nothing to do, a pause with the channel fresh, or a resume that closes  *)
(* the channel shut.                                                       *)
SetPausedWith(k, fresh, shut) ==
  /\ next[k] # "none"
  /\ next' = [next EXCEPT ![k] = "none"]
  /\ \/ /\ paused = (next[k] = "pause")
        /\ UNCHANGED gateVars
     \/ /\ ~paused /\ next[k] = "pause" /\ resume < MaxPauses
        /\ paused' = TRUE
        /\ resume' = fresh
        /\ UNCHANGED closed
     \/ /\ paused /\ next[k] = "resume"
        /\ paused' = FALSE
        /\ closed' = closed \cup {shut}
        /\ UNCHANGED resume
  /\ UNCHANGED streamVars

(* Slip: pausing keeps the channel, which the last resume may have closed. *)
SetPausedKeepingChannel(k) == SetPausedWith(k, resume, resume)

(* Slip: resuming closes the channel that NewPauseController made.         *)
SetPausedClosingFirst(k) == SetPausedWith(k, resume + 1, 0)

(* SetPaused: a pause makes a channel, the resume that follows closes it.  *)
SetPaused(k) == SetPausedWith(k, resume + 1, resume)

-----------------------------------------------------------------------------
(* A request at the gate. *)

StreamGoto(w, l) == wpc' = [wpc EXCEPT ![w] = l]

(* IsPaused, and the queued event of a request that finds the gate shut.   *)
Check(w) ==
  /\ wpc[w] = "arrived"
  /\ was' = [was EXCEPT ![w] = paused]
  /\ announced' = [announced EXCEPT ![w] = IF paused THEN @ + 1 ELSE @]
  /\ StreamGoto(w, "checked")
  /\ UNCHANGED <<gateVars, queued, chan, next>>

(* WaitIfPaused up to its select: pass, or queue on the current channel.   *)
Enter(w) ==
  /\ wpc[w] = "checked"
  /\ IF paused
       THEN /\ chan' = [chan EXCEPT ![w] = resume]
            /\ queued' = queued + 1
            /\ StreamGoto(w, "waiting")
       ELSE /\ StreamGoto(w, "forwarded")
            /\ UNCHANGED <<chan, queued>>
  /\ UNCHANGED <<gateVars, was, announced, next>>

(* Slip: the waiter reads p.resume again instead of its own copy.          *)
WakeOnCurrent(w) ==
  /\ wpc[w] = "waiting"
  /\ resume \in closed
  /\ StreamGoto(w, "woken")
  /\ UNCHANGED <<gateVars, queued, was, chan, announced, next>>

(* The captured channel is closed. *)
Wake(w) ==
  /\ wpc[w] = "waiting"
  /\ chan[w] \in closed
  /\ StreamGoto(w, "woken")
  /\ UNCHANGED <<gateVars, queued, was, chan, announced, next>>

(* PauseTimeout passes, or the client is stopped.  When the channel is     *)
(* closed as well, select takes either case.                               *)
Expire(w) ==
  /\ wpc[w] = "waiting"
  /\ StreamGoto(w, "expired")
  /\ UNCHANGED <<gateVars, queued, was, chan, announced, next>>

(* The deferred queued--, and what handleStream does with the result.      *)
LeaveAs(w, depth, events, l) ==
  /\ wpc[w] \in {"woken", "expired"}
  /\ queued' = depth
  /\ announced' = [announced EXCEPT ![w] = events]
  /\ StreamGoto(w, l)
  /\ UNCHANGED <<gateVars, was, chan, next>>

Outcome(w) == IF wpc[w] = "woken" THEN "forwarded" ELSE "failed"

(* A request that was held without having seen the gate shut is announced  *)
(* when its wait is over, the others were before it began.                 *)
LateEvents(w) == IF was[w] THEN announced[w] ELSE announced[w] + 1

(* Slip: only a request that saw the gate shut is announced. *)
LeaveUnannounced(w) == LeaveAs(w, queued - 1, announced[w], Outcome(w))

(* Slip: a request whose wait fails stays in the count. *)
LeaveUncounted(w) ==
  LeaveAs(w, IF wpc[w] = "woken" THEN queued - 1 ELSE queued, LateEvents(w), Outcome(w))

(* Slip: the error of WaitIfPaused is ignored. *)
LeaveIgnoringError(w) == LeaveAs(w, queued - 1, LateEvents(w), "forwarded")

(* The request goes on: forwarded when it was woken, answered 504 when its *)
(* time is over.                                                           *)
Leave(w) == LeaveAs(w, queued - 1, LateEvents(w), Outcome(w))

-----------------------------------------------------------------------------

ControllerStep(k) == ToggleRead(k) \/ SetPaused(k)

StreamStep(w) == Check(w) \/ Enter(w) \/ Wake(w) \/ Expire(w) \/ Leave(w)

PauseNext ==
  (\E k \in Controller : ControllerStep(k)) \/ (\E w \in Stream : StreamStep(w))

PauseSpec == PauseInit /\ [][PauseNext]_pauseVars

(* A goroutine whose channel is closed is scheduled.  Nothing is assumed   *)
(* of the user who toggles, nor here of the timeout.                       *)
PauseFairSpec ==
  PauseSpec /\ \A w \in Stream : WF_pauseVars(Wake(w)) /\ WF_pauseVars(Leave(w))

-----------------------------------------------------------------------------
(* Correctness. *)

(* A waiting request can still be woken: its channel has been closed, or   *)
(* it is the very channel that the next resume will close.  No pause ever  *)
(* replaces a channel under the feet of its waiters.                       *)
NoStrandedWaiter ==
  \A w \in Stream :
    wpc[w] = "waiting" => \/ chan[w] \in closed
                          \/ paused /\ chan[w] = resume

(* A resume never closes a closed channel, which would panic.              *)
NoDoubleClose == paused => resume \notin closed

(* QueueDepth is exactly the number of requests inside WaitIfPaused.       *)
QueueDepthExact == queued = Cardinality({w \in Stream : wpc[w] \in Inside})

(* A request that was held is forwarded only after a resume: the channel   *)
(* it queued on has been closed.                                           *)
HeldUntilResume ==
  \A w \in Stream :
    wpc[w] \in {"woken", "forwarded"} /\ chan[w] # -1 => chan[w] \in closed

(* A held request is shown as queued once and only once, even when the     *)
(* pause comes between its IsPaused and its WaitIfPaused, or the resume.   *)
HeldIsAnnounced ==
  \A w \in Stream :
    /\ announced[w] <= 1
    /\ wpc[w] \in {"forwarded", "failed"} /\ chan[w] # -1 => announced[w] = 1

(* What the proofs need besides: channels are numbered as they are made,   *)
(* and where a request stands says what it has queued on and announced.    *)
ChannelsMade == closed \subseteq 0..resume

StreamPhase ==
  \A w \in Stream :
    /\ wpc[w] \in {"arrived", "checked"} => chan[w] = -1
    /\ wpc[w] \in Inside => chan[w] # -1
    /\ wpc[w] = "arrived" => announced[w] = 0
    /\ wpc[w] \in Inside \cup {"checked"} => announced[w] = IF was[w] THEN 1 ELSE 0

(* Resuming releases every request that was held, without any timeout.     *)
ReleasedOnResume ==
  \A w \in Stream : wpc[w] = "waiting" /\ ~paused ~> wpc[w] # "waiting"
=============================================================================
