----------------------------- MODULE EventPump -----------------------------
(***************************************************************************)
(* How the terminal UI learns what the client does.  Every request's       *)
(* goroutine (handleStream) and the run loop put events into a bounded     *)
(* channel and drop those that do not fit (emit, internal/client).  The    *)
(* UI has a command that takes one event and ends (waitEvent); Update,     *)
(* which handles the resulting message, returns the next such command      *)
(* (internal/tui).  While a filter is typed, Update handles keys only and  *)
(* forgets every other message.                                            *)
(***************************************************************************)
EXTENDS Naturals, Sequences, FiniteSets

CONSTANTS
  Request,  \* tunneled requests
  Tunnel,   \* the source of the run loop's own events
  Capacity, \* of the channel that tui.Run makes
  MaxDrops  \* bound: how often the tunnel goes down

ASSUME PumpAssumption ==
  /\ Tunnel \notin Request
  /\ Capacity \in Nat \ {0}
  /\ MaxDrops \in Nat

VARIABLES
  stage,     \* stage[r]: the event that the goroutine of r emitted last
  tunnel,    \* whether the run loop has a session: "up", "down", or "ended"
  drops,     \* how often it went down
  channel,   \* the event channel
  readers,   \* the waitEvent commands that are waiting for an event
  msgs,      \* the event messages on their way to Update
  ended,     \* clientDoneMsg: "none", on its "way", or "handled"
  filtering, \* m.filtering
  status,    \* m.status
  shown,     \* shown[r]: the state of the row of r, or "idle" without a row
  quit,      \* the program has been left
  lost,      \* whose event was dropped or forgotten, or whose row was cleared
  forgotten  \* an event message has been forgotten in the filter mode

clientSide == <<stage, tunnel, drops>>
uiSide == <<filtering, status, shown, quit>>
pumpVars == <<clientSide, channel, readers, msgs, ended, uiSide, lost, forgotten>>

(* What handleStream emits after what. *)
Follows ==
  [idle |-> {"received"},
   received |-> {"queued", "forwarding", "failed"},
   queued |-> {"forwarding", "failed"},
   forwarding |-> {"response", "failed"},
   response |-> {"completed", "failed"},
   completed |-> {},
   failed |-> {}]

Stage == DOMAIN Follows
Final == {"completed", "failed"}

(* How far a stage is from the beginning. *)
Rank == [idle |-> 0, received |-> 1, queued |-> 2, forwarding |-> 3,
         response |-> 4, completed |-> 5, failed |-> 5]

Event == [who : Request, what : Stage] \cup [who : {Tunnel}, what : {"up", "down"}]

PumpTypeOK ==
  /\ stage \in [Request -> Stage]
  /\ tunnel \in {"up", "down", "ended"}
  /\ drops \in 0..MaxDrops
  /\ channel \in Seq(Event) /\ Len(channel) <= Capacity
  /\ readers \in Nat
  /\ msgs \subseteq Event
  /\ ended \in {"none", "way", "handled"}
  /\ filtering \in BOOLEAN
  /\ status \in {"connecting", "online", "reconnecting", "disconnected", "stopped"}
  /\ shown \in [Request -> Stage]
  /\ quit \in BOOLEAN
  /\ lost \subseteq Request \cup {Tunnel}
  /\ forgotten \in BOOLEAN

PumpInit ==
  /\ stage = [r \in Request |-> "idle"]
  /\ tunnel = "down"
  /\ drops = 0
  /\ channel = <<>>
  /\ readers = 1
  /\ msgs = {}
  /\ ended = "none"
  /\ filtering = FALSE
  /\ status = "connecting"
  /\ shown = [r \in Request |-> "idle"]
  /\ quit = FALSE
  /\ lost = {}
  /\ forgotten = FALSE

-----------------------------------------------------------------------------
(* The client. *)

(* Slip: the channel is a list that grows. *)
EmitEventUnbounded(who, what) ==
  /\ channel' = Append(channel, [who |-> who, what |-> what])
  /\ UNCHANGED <<readers, msgs, ended, uiSide, lost, forgotten>>

(* emit: an event that does not fit is dropped. *)
EmitEvent(who, what) ==
  /\ IF Len(channel) < Capacity
       THEN /\ channel' = Append(channel, [who |-> who, what |-> what])
            /\ UNCHANGED lost
       ELSE /\ lost' = lost \cup {who}
            /\ UNCHANGED channel
  /\ UNCHANGED <<readers, msgs, ended, uiSide, forgotten>>

(* The goroutine of a request reaches its next emit. *)
RequestEmits(r) ==
  /\ \E what \in Follows[stage[r]] :
       /\ stage' = [stage EXCEPT ![r] = what]
       /\ EmitEvent(r, what)
  /\ UNCHANGED <<tunnel, drops>>

(* runSession has its session. *)
TunnelUp ==
  /\ tunnel = "down"
  /\ tunnel' = "up"
  /\ EmitEvent(Tunnel, "up")
  /\ UNCHANGED <<stage, drops>>

(* The session, or an attempt to get one, has failed and is retried. *)
TunnelDown ==
  /\ tunnel # "ended"
  /\ drops < MaxDrops
  /\ drops' = drops + 1
  /\ tunnel' = "down"
  /\ EmitEvent(Tunnel, "down")
  /\ UNCHANGED stage

(* client.Run returns an error, which waitClient turns into a message. *)
ClientEnds ==
  /\ tunnel # "ended"
  /\ tunnel' = "ended"
  /\ ended' = "way"
  /\ UNCHANGED <<stage, drops, channel, readers, msgs, uiSide, lost, forgotten>>

-----------------------------------------------------------------------------
(* The program's event loop. *)

(* waitEvent takes an event, and its message is sent to the loop. *)
WaitEvent ==
  /\ readers > 0
  /\ channel # <<>>
  /\ msgs' = msgs \cup {Head(channel)}
  /\ channel' = Tail(channel)
  /\ readers' = readers - 1
  /\ UNCHANGED <<clientSide, ended, uiSide, lost, forgotten>>

(* Update outside the filter mode: applyEvent for a request's event, the   *)
(* status for the tunnel's, and in each case commands to follow.           *)
HandleWith(e, commands) ==
  /\ ~filtering
  /\ e \in msgs
  /\ msgs' = msgs \ {e}
  /\ readers' = readers + commands
  /\ IF e.who = Tunnel
       THEN /\ status' = IF e.what = "up" THEN "online" ELSE "reconnecting"
            /\ UNCHANGED shown
       ELSE /\ status' = "online"
            /\ shown' = [shown EXCEPT ![e.who] = e.what]
  /\ UNCHANGED <<clientSide, channel, ended, filtering, quit, lost, forgotten>>

(* Slip: the batch of a connected event holds a second waitEvent. *)
HandleEventTwice(e) == HandleWith(e, IF e.what = "up" THEN 2 ELSE 1)

(* Slip: no command follows a reconnecting event. *)
HandleEventOnce(e) == HandleWith(e, IF e.what = "down" THEN 0 ELSE 1)

(* One command follows each event. *)
HandleEvent(e) == HandleWith(e, 1)

(* updateFilter: not a key, nothing is done, and no command follows. *)
ForgetEvent(e) ==
  /\ filtering
  /\ e \in msgs
  /\ msgs' = msgs \ {e}
  /\ lost' = lost \cup {e.who}
  /\ forgotten' = TRUE
  /\ UNCHANGED <<clientSide, channel, readers, ended, uiSide>>

(* clientDoneMsg: shown as an error or as a stop by the context, or        *)
(* forgotten in the filter mode.                                           *)
HandleEnd ==
  /\ ended = "way"
  /\ ended' = "handled"
  /\ IF filtering THEN UNCHANGED status ELSE status' \in {"disconnected", "stopped"}
  /\ UNCHANGED <<clientSide, channel, readers, msgs, filtering, shown, quit, lost,
                 forgotten>>

(* The keys "/", and Enter or Escape. *)
ToggleFilter ==
  /\ filtering' = ~filtering
  /\ UNCHANGED <<clientSide, channel, readers, msgs, ended, status, shown, quit, lost,
                 forgotten>>

(* The key x empties the history; a late event makes a new row. *)
ClearHistory ==
  /\ ~filtering
  /\ shown' = [r \in Request |-> "idle"]
  /\ lost' = lost \cup {r \in Request : shown[r] # "idle"}
  /\ UNCHANGED <<clientSide, channel, readers, msgs, ended, filtering, status, quit,
                 forgotten>>

(* The keys q, outside the filter mode, and Ctrl-C. *)
Quit ==
  /\ quit' = TRUE
  /\ UNCHANGED <<clientSide, channel, readers, msgs, ended, filtering, status, shown,
                 lost, forgotten>>

-----------------------------------------------------------------------------

ClientStep ==
  (\E r \in Request : RequestEmits(r)) \/ TunnelUp \/ TunnelDown \/ ClientEnds

LoopStep == WaitEvent \/ (\E e \in msgs : HandleEvent(e) \/ ForgetEvent(e)) \/ HandleEnd

(* Leaving the program ends the process. *)
PumpNext == ~quit /\ (ClientStep \/ LoopStep \/ ToggleFilter \/ ClearHistory \/ Quit)

PumpSpec == PumpInit /\ [][PumpNext]_pumpVars

(* The program runs its commands and handles its messages.  Nothing is     *)
(* assumed of the client nor of the user.                                  *)
PumpFairSpec == PumpSpec /\ WF_pumpVars(~quit /\ LoopStep)

-----------------------------------------------------------------------------
(* Correctness. *)

(* There is a reader of the channel, or one message of it, or neither. *)
OneReader ==
  /\ readers \in {0, 1}
  /\ readers = 1 => msgs = {}
  /\ \A e, f \in msgs : e = f

(* From the goroutine of a request through the channel and the messages    *)
(* down to its row, the stages of the request never go up.                 *)
PipelineOrdered ==
  /\ \A r \in Request : Rank[shown[r]] <= Rank[stage[r]]
  /\ \A e \in msgs : e.who \in Request =>
       /\ Rank[shown[e.who]] <= Rank[e.what]
       /\ Rank[e.what] <= Rank[stage[e.who]]
  /\ \A i \in 1..Len(channel) : channel[i].who \in Request =>
       /\ Rank[shown[channel[i].who]] <= Rank[channel[i].what]
       /\ Rank[channel[i].what] <= Rank[stage[channel[i].who]]
  /\ \A e \in msgs : \A i \in 1..Len(channel) :
       e.who \in Request /\ channel[i].who = e.who =>
         Rank[e.what] <= Rank[channel[i].what]
  /\ \A i, j \in 1..Len(channel) :
       i < j /\ channel[i].who \in Request /\ channel[j].who = channel[i].who =>
         Rank[channel[i].what] <= Rank[channel[j].what]

(* The inductive invariant: no event overtakes another on its way to the   *)
(* rows.                                                                   *)
PumpInv == PumpTypeOK /\ OneReader /\ PipelineOrdered

(* There is never more than one event between the channel and the rows, so *)
(* nothing can overtake: Update is not told in which order commands ended. *)
OneEventInFlight == readers + Cardinality(msgs) <= 1

(* A row goes through the stages of its request in their order, and never  *)
(* falls back behind one that it has shown, unless the user clears it.     *)
ShownInOrder ==
  [][\A r \in Request :
       Rank[shown[r]] <= Rank[shown'[r]] \/ (ClearHistory /\ shown'[r] = "idle")]_pumpVars

(* How a request ended is shown in the end, unless one of its own events   *)
(* was lost or its row was cleared; here as long as no event was forgotten *)
(* in the filter mode.                                                     *)
EndShown ==
  \A r \in Request :
    stage[r] \in Final ~> shown[r] = stage[r] \/ r \in lost \/ forgotten \/ quit

(* The reader of events is always re-armed: an event is awaited or on its  *)
(* way to Update, whatever the mode of the user interface.                 *)
ReaderArmed == ~quit => readers + Cardinality(msgs) = 1
=============================================================================
