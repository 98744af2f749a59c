------------------------- MODULE ClientQueuesProofs -------------------------
(***************************************************************************)
(* Proofs about the two places in the client where things wait.  Events on *)
(* their way to the terminal UI: rows never fall back, for any requests,   *)
(* any capacity of the channel and any number of drops.  Requests at the   *)
(* pause gate: nobody is stranded, for any finite set of requests, any     *)
(* number of goroutines that toggle and any number of pauses.              *)
(***************************************************************************)
EXTENDS EventPump, PauseController, FiniteSetTheorems, TLAPS

(* The events. *)

(* A stage has a natural number as its rank. *)
LEMMA RankTyped == \A s \in Stage : Rank[s] \in Nat
BY DEF Stage, Follows, Rank

(* What follows a stage is a stage, and its rank is not lower. *)
LEMMA FollowsRank ==
  \A s \in Stage : \A t \in Follows[s] : t \in Stage /\ Rank[s] <= Rank[t]
BY DEF Stage, Follows, Rank

(* An event of a request carries a stage, and the tunnel is no request. *)
LEMMA EventTyped ==
  \A e \in Event : /\ e.who \in Request \cup {Tunnel}
                   /\ e.who \in Request => e.what \in Stage
                   /\ e.who \notin Request => e.who = Tunnel
BY PumpAssumption DEF Event

(* The invariant holds at the start. *)
LEMMA InitInv == PumpInit => PumpInv
<1> SUFFICES ASSUME PumpInit PROVE PumpInv
  OBVIOUS
<1>1. "idle" \in Stage
  BY DEF Stage, Follows
<1>2. /\ stage \in [Request -> Stage]
      /\ shown \in [Request -> Stage]
      /\ channel \in Seq(Event) /\ Len(channel) = 0
      /\ msgs \subseteq Event
      /\ lost \subseteq Request \cup {Tunnel}
      /\ drops \in 0..MaxDrops
      /\ tunnel \in {"up", "down", "ended"}
      /\ ended \in {"none", "way", "handled"}
      /\ status \in {"connecting", "online", "reconnecting", "disconnected", "stopped"}
      /\ readers \in Nat
  BY <1>1, PumpAssumption DEF PumpInit
<1>3. filtering \in BOOLEAN /\ quit \in BOOLEAN /\ forgotten \in BOOLEAN
  BY DEF PumpInit
<1>4. PumpTypeOK
  BY <1>2, <1>3, PumpAssumption DEF PumpTypeOK
<1>5. OneReader
  BY DEF PumpInit, OneReader
<1>6. PipelineOrdered
  BY <1>1, <1>2, RankTyped DEF PumpInit, PipelineOrdered
<1> QED
  BY <1>4, <1>5, <1>6 DEF PumpInv

(* The events that are on their way are events. *)
LEMMA OnTheWay ==
  ASSUME PumpTypeOK
  PROVE  /\ \A i \in 1..Len(channel) : channel[i] \in Event
         /\ \A e \in msgs : e \in Event
BY DEF PumpTypeOK

(* Emitting an event keeps the invariant, when the event is the newest of  *)
(* its request and no goroutine falls back.                                *)
LEMMA EmitKeepsInv ==
  ASSUME PumpInv,
         NEW who, NEW what, [who |-> who, what |-> what] \in Event,
         EmitEvent(who, what),
         stage' \in [Request -> Stage],
         tunnel' \in {"up", "down", "ended"},
         drops' \in 0..MaxDrops,
         \A r \in Request : Rank[stage[r]] <= Rank[stage'[r]],
         who \in Request => stage'[who] = what
  PROVE  PumpInv'
<1> DEFINE e == [who |-> who, what |-> what]
<1> USE DEF PumpInv
<1>1. /\ UNCHANGED <<readers, msgs, ended, filtering, status, shown, quit, forgotten>>
      /\ who \in Request \cup {Tunnel}
      /\ e \in Event /\ e.who = who /\ e.what = what
  BY EventTyped DEF EmitEvent, uiSide
<1>2. OneReader'
  BY <1>1 DEF OneReader
<1>3. /\ channel' \in Seq(Event) /\ Len(channel') <= Capacity
      /\ lost' \subseteq Request \cup {Tunnel}
  <2>1. CASE Len(channel) < Capacity
    <3>1. channel' = Append(channel, e) /\ lost' = lost
      BY <2>1 DEF EmitEvent
    <3> HIDE DEF e
    <3> QED
      BY <1>1, <2>1, <3>1, PumpAssumption DEF PumpTypeOK
  <2>2. CASE ~(Len(channel) < Capacity)
    BY <1>1, <2>2 DEF EmitEvent, PumpTypeOK
  <2> QED
    BY <2>1, <2>2
<1>4. PumpTypeOK'
  BY <1>1, <1>3 DEF PumpTypeOK
<1>5. \A r \in Request : /\ Rank[shown[r]] \in Nat /\ Rank[stage[r]] \in Nat
                         /\ Rank[stage'[r]] \in Nat
  BY RankTyped DEF PumpTypeOK
<1>6. /\ \A i \in 1..Len(channel) :
           channel[i].who \in Request => Rank[channel[i].what] \in Nat
      /\ \A m \in msgs : m.who \in Request => Rank[m.what] \in Nat
  BY RankTyped, EventTyped, OnTheWay
<1>7. ASSUME channel' = channel
      PROVE  PipelineOrdered'
  BY <1>1, <1>5, <1>6, <1>7 DEF PipelineOrdered
<1>8. ASSUME channel' = Append(channel, e)
      PROVE  PipelineOrdered'
  <2>1. /\ Len(channel') = Len(channel) + 1
        /\ Len(channel) \in Nat
        /\ \A i \in 1..Len(channel) : channel'[i] = channel[i]
        /\ channel'[Len(channel) + 1] = e
    BY <1>1, <1>8 DEF PumpTypeOK
  <2>2. \A i \in 1..Len(channel') : i \in 1..Len(channel) \/ i = Len(channel) + 1
    BY <2>1
  <2>3. who \in Request =>
          /\ Rank[what] = Rank[stage'[who]]
          /\ Rank[shown[who]] <= Rank[what]
    BY <1>5 DEF PipelineOrdered
  <2>4. \A r \in Request : Rank[shown[r]] <= Rank[stage'[r]]
    BY <1>5 DEF PipelineOrdered
  <2>5. \A m \in msgs : m.who \in Request =>
          /\ Rank[shown[m.who]] <= Rank[m.what]
          /\ Rank[m.what] <= Rank[stage'[m.who]]
    BY <1>5, <1>6 DEF PipelineOrdered
  <2>6. \A i \in 1..Len(channel) : channel[i].who \in Request =>
          /\ Rank[shown[channel[i].who]] <= Rank[channel[i].what]
          /\ Rank[channel[i].what] <= Rank[stage'[channel[i].who]]
    BY <1>5, <1>6 DEF PipelineOrdered
  <2>7. \A i \in 1..Len(channel') : channel'[i].who \in Request =>
          /\ Rank[shown[channel'[i].who]] <= Rank[channel'[i].what]
          /\ Rank[channel'[i].what] <= Rank[stage'[channel'[i].who]]
    BY <1>1, <1>5, <2>1, <2>2, <2>3, <2>6
  <2>8. \A m \in msgs : \A i \in 1..Len(channel') :
          m.who \in Request /\ channel'[i].who = m.who =>
            Rank[m.what] <= Rank[channel'[i].what]
    <3> SUFFICES ASSUME NEW m \in msgs, NEW i \in 1..Len(channel'),
                        m.who \in Request, channel'[i].who = m.who
                 PROVE  Rank[m.what] <= Rank[channel'[i].what]
      OBVIOUS
    <3>1. CASE i \in 1..Len(channel)
      BY <2>1, <3>1 DEF PipelineOrdered
    <3>2. CASE i = Len(channel) + 1
      BY <1>1, <2>1, <2>3, <2>5, <3>2
    <3> QED
      BY <2>2, <3>1, <3>2
  <2>9. \A i, j \in 1..Len(channel') :
          i < j /\ channel'[i].who \in Request /\ channel'[j].who = channel'[i].who =>
            Rank[channel'[i].what] <= Rank[channel'[j].what]
    <3> SUFFICES ASSUME NEW i \in 1..Len(channel'), NEW j \in 1..Len(channel'), i < j,
                        channel'[i].who \in Request, channel'[j].who = channel'[i].who
                 PROVE  Rank[channel'[i].what] <= Rank[channel'[j].what]
      OBVIOUS
    <3>1. i \in 1..Len(channel) /\ channel'[i] = channel[i]
      BY <2>1, <2>2
    <3>2. CASE j \in 1..Len(channel)
      BY <2>1, <3>1, <3>2 DEF PipelineOrdered
    <3>3. CASE j = Len(channel) + 1
      BY <1>1, <2>1, <2>3, <2>6, <3>1, <3>3
    <3> QED
      BY <2>2, <3>2, <3>3
  <2> QED
    BY <1>1, <2>4, <2>5, <2>7, <2>8, <2>9 DEF PipelineOrdered
<1> QED
  BY <1>2, <1>4, <1>7, <1>8 DEF EmitEvent

(* Taking an event from the channel keeps the invariant. *)
LEMMA WaitKeepsInv ==
  ASSUME PumpInv, WaitEvent
  PROVE  PumpInv'
<1> USE DEF PumpInv
<1> DEFINE e == Head(channel)
<1>1. /\ readers = 1 /\ readers' = 0 /\ msgs = {} /\ msgs' = {e}
      /\ UNCHANGED <<stage, tunnel, drops, ended, filtering, status, shown, quit, lost,
                     forgotten>>
  BY DEF WaitEvent, OneReader, clientSide, uiSide
<1>2. /\ Len(channel) \in Nat \ {0} /\ channel[1] = e /\ e \in Event
      /\ channel' \in Seq(Event) /\ Len(channel') = Len(channel) - 1
      /\ \A i \in 1..Len(channel') : /\ i + 1 \in 1..Len(channel)
                                     /\ channel'[i] = channel[i + 1]
  BY DEF WaitEvent, PumpTypeOK
<1>3. OneReader'
  BY <1>1 DEF OneReader
<1>4. PumpTypeOK'
  BY <1>1, <1>2, PumpAssumption DEF PumpTypeOK
<1>5. /\ \A r \in Request : Rank[shown'[r]] <= Rank[stage'[r]]
      /\ \A m \in msgs' : m.who \in Request =>
           /\ Rank[shown'[m.who]] <= Rank[m.what]
           /\ Rank[m.what] <= Rank[stage'[m.who]]
  BY <1>1, <1>2 DEF PipelineOrdered
<1>6. \A i \in 1..Len(channel') : channel'[i].who \in Request =>
        /\ Rank[shown'[channel'[i].who]] <= Rank[channel'[i].what]
        /\ Rank[channel'[i].what] <= Rank[stage'[channel'[i].who]]
  BY <1>1, <1>2 DEF PipelineOrdered
<1>7. \A m \in msgs' : \A i \in 1..Len(channel') :
        m.who \in Request /\ channel'[i].who = m.who =>
          Rank[m.what] <= Rank[channel'[i].what]
  <2> SUFFICES ASSUME NEW i \in 1..Len(channel'),
                      e.who \in Request, channel'[i].who = e.who
               PROVE  Rank[e.what] <= Rank[channel'[i].what]
    BY <1>1
  <2>1. 1 \in 1..Len(channel) /\ i + 1 \in 1..Len(channel) /\ 1 < i + 1
    BY <1>2
  <2> QED
    BY <1>2, <2>1 DEF PipelineOrdered
<1>8. \A i, j \in 1..Len(channel') :
        i < j /\ channel'[i].who \in Request /\ channel'[j].who = channel'[i].who =>
          Rank[channel'[i].what] <= Rank[channel'[j].what]
  <2> SUFFICES ASSUME NEW i \in 1..Len(channel'), NEW j \in 1..Len(channel'), i < j,
                      channel'[i].who \in Request, channel'[j].who = channel'[i].who
               PROVE  Rank[channel'[i].what] <= Rank[channel'[j].what]
    OBVIOUS
  <2>1. i + 1 \in 1..Len(channel) /\ j + 1 \in 1..Len(channel) /\ i + 1 < j + 1
    BY <1>2
  <2> QED
    BY <1>2, <2>1 DEF PipelineOrdered
<1>9. PipelineOrdered'
  BY <1>5, <1>6, <1>7, <1>8 DEF PipelineOrdered
<1> QED
  BY <1>3, <1>4, <1>9

(* Handling an event keeps the invariant. *)
LEMMA HandleKeepsInv ==
  ASSUME PumpInv, NEW e \in msgs, HandleEvent(e)
  PROVE  PumpInv' /\ \A r \in Request : Rank[shown[r]] <= Rank[shown'[r]]
<1> USE DEF PumpInv
<1>1. /\ readers = 0 /\ readers' = 1 /\ msgs' = {}
      /\ UNCHANGED <<stage, tunnel, drops, channel, ended, filtering, quit, lost, forgotten>>
  BY DEF HandleEvent, HandleWith, OneReader, clientSide
<1>2. e \in Event
  BY OnTheWay
<1>3. /\ e.who \in Request => e.what \in Stage
      /\ e.who \notin Request => e.who = Tunnel
      /\ Tunnel \notin Request
  BY <1>2, EventTyped, PumpAssumption
<1>4. /\ shown' \in [Request -> Stage]
      /\ status' \in {"connecting", "online", "reconnecting", "disconnected", "stopped"}
      /\ \A r \in Request : IF r = e.who THEN shown'[r] = e.what ELSE shown'[r] = shown[r]
  BY <1>3 DEF HandleEvent, HandleWith, PumpTypeOK
<1>5. OneReader'
  BY <1>1 DEF OneReader
<1>6. PumpTypeOK'
  BY <1>1, <1>4 DEF PumpTypeOK
<1>7. \A r \in Request : Rank[shown[r]] <= Rank[shown'[r]]
  <2> TAKE r \in Request
  <2>1. Rank[shown[r]] \in Nat
    BY RankTyped DEF PumpTypeOK
  <2> QED
    BY <1>4, <2>1 DEF PipelineOrdered
<1>8. PipelineOrdered'
  <2>1. \A r \in Request : Rank[shown'[r]] <= Rank[stage'[r]]
    BY <1>1, <1>4 DEF PipelineOrdered
  <2>2. \A i \in 1..Len(channel) : channel[i].who \in Request =>
          /\ Rank[shown'[channel[i].who]] <= Rank[channel[i].what]
          /\ Rank[channel[i].what] <= Rank[stage[channel[i].who]]
    BY <1>4 DEF PipelineOrdered
  <2>3. \A i, j \in 1..Len(channel) :
          i < j /\ channel[i].who \in Request /\ channel[j].who = channel[i].who =>
            Rank[channel[i].what] <= Rank[channel[j].what]
    BY DEF PipelineOrdered
  <2> QED
    BY <1>1, <2>1, <2>2, <2>3 DEF PipelineOrdered
<1> QED
  BY <1>5, <1>6, <1>7, <1>8

(* Clearing the history keeps the invariant. *)
LEMMA ClearKeepsInv ==
  ASSUME PumpInv, ClearHistory
  PROVE  PumpInv' /\ \A r \in Request : shown'[r] = "idle"
<1> USE DEF PumpInv
<1>1. /\ UNCHANGED <<stage, tunnel, drops, channel, readers, msgs, ended, filtering,
                     status, quit, forgotten>>
      /\ \A r \in Request : shown'[r] = "idle"
      /\ lost' \subseteq Request \cup {Tunnel}
  BY DEF ClearHistory, clientSide, PumpTypeOK
<1>2. "idle" \in Stage /\ \A s \in Stage : Rank["idle"] <= Rank[s]
  BY DEF Stage, Follows, Rank
<1>3. shown' \in [Request -> Stage]
  BY <1>2 DEF ClearHistory
<1>4. PumpTypeOK'
  BY <1>1, <1>3 DEF PumpTypeOK
<1>5. OneReader'
  BY <1>1 DEF OneReader
<1>6. PipelineOrdered'
  <2>1. \A r \in Request : Rank[shown'[r]] <= Rank[stage[r]]
    BY <1>1, <1>2 DEF PumpTypeOK
  <2>2. \A m \in msgs : m.who \in Request => Rank[shown'[m.who]] <= Rank[m.what]
    BY <1>1, <1>2, OnTheWay, EventTyped
  <2>3. \A i \in 1..Len(channel) : channel[i].who \in Request =>
          Rank[shown'[channel[i].who]] <= Rank[channel[i].what]
    BY <1>1, <1>2, OnTheWay, EventTyped
  <2> QED
    BY <1>1, <2>1, <2>2, <2>3 DEF PipelineOrdered
<1> QED
  BY <1>1, <1>4, <1>5, <1>6

(* A step keeps the invariant, and no row falls back in it. *)
LEMMA NextInv ==
  ASSUME PumpInv, [PumpNext]_pumpVars
  PROVE  /\ PumpInv'
         /\ \A r \in Request : \/ Rank[shown[r]] <= Rank[shown'[r]]
                               \/ ClearHistory /\ shown'[r] = "idle"
<1> USE DEF PumpInv
<1>1. \A r \in Request : Rank[shown[r]] \in Nat /\ Rank[stage[r]] \in Nat
  BY RankTyped DEF PumpTypeOK
<1>2. ASSUME UNCHANGED shown
      PROVE  \A r \in Request : Rank[shown[r]] <= Rank[shown'[r]]
  BY <1>1, <1>2
<1>3. ASSUME NEW r \in Request, RequestEmits(r)
      PROVE  PumpInv' /\ UNCHANGED shown
  <2>1. PICK what \in Follows[stage[r]] : /\ stage' = [stage EXCEPT ![r] = what]
                                          /\ EmitEvent(r, what)
    BY <1>3 DEF RequestEmits
  <2>2. stage[r] \in Stage /\ what \in Stage /\ Rank[stage[r]] <= Rank[what]
    BY FollowsRank DEF PumpTypeOK
  <2>3. [who |-> r, what |-> what] \in Event
    BY <2>2 DEF Event
  <2>4. /\ stage' \in [Request -> Stage] /\ stage'[r] = what
        /\ \A q \in Request : q # r => stage'[q] = stage[q]
    BY <2>1, <2>2 DEF PumpTypeOK
  <2>5. \A q \in Request : Rank[stage[q]] <= Rank[stage'[q]]
    BY <1>1, <2>2, <2>4
  <2>6. /\ tunnel' \in {"up", "down", "ended"}
        /\ drops' \in 0..MaxDrops
    BY <1>3 DEF RequestEmits, PumpTypeOK
  <2>7. PumpInv'
    BY <2>1, <2>3, <2>4, <2>5, <2>6, EmitKeepsInv
  <2> QED
    BY <2>1, <2>7 DEF EmitEvent, uiSide
<1>4. ASSUME TunnelUp \/ TunnelDown
      PROVE  PumpInv' /\ UNCHANGED shown
  <2>1. PICK what \in {"up", "down"} : EmitEvent(Tunnel, what)
    BY <1>4 DEF TunnelUp, TunnelDown
  <2>2. [who |-> Tunnel, what |-> what] \in Event
    BY DEF Event
  <2>3. /\ stage' = stage
        /\ tunnel' \in {"up", "down", "ended"}
        /\ drops' \in 0..MaxDrops
    BY <1>4, PumpAssumption DEF TunnelUp, TunnelDown, PumpTypeOK
  <2>4. \A q \in Request : Rank[stage[q]] <= Rank[stage'[q]]
    BY <1>1, <2>3
  <2>5. stage' \in [Request -> Stage] /\ Tunnel \notin Request
    BY <2>3, PumpAssumption DEF PumpTypeOK
  <2>6. PumpInv'
    BY <2>1, <2>2, <2>3, <2>4, <2>5, EmitKeepsInv
  <2> QED
    BY <2>1, <2>6 DEF EmitEvent, uiSide
<1>5. ASSUME ClientEnds \/ HandleEnd \/ ToggleFilter \/ Quit \/ UNCHANGED pumpVars
      PROVE  PumpInv' /\ UNCHANGED shown
  <2>1. UNCHANGED <<stage, drops, channel, readers, msgs, shown, lost, forgotten>>
    BY <1>5 DEF ClientEnds, HandleEnd, ToggleFilter, Quit, pumpVars, clientSide, uiSide
  <2>2. PipelineOrdered' /\ OneReader'
    BY <2>1 DEF PipelineOrdered, OneReader
  <2>3. /\ tunnel' \in {"up", "down", "ended"}
        /\ ended' \in {"none", "way", "handled"}
        /\ status' \in {"connecting", "online", "reconnecting", "disconnected", "stopped"}
    BY <1>5 DEF ClientEnds, HandleEnd, ToggleFilter, Quit, pumpVars, clientSide, uiSide,
                PumpTypeOK
  <2>4. filtering' \in BOOLEAN /\ quit' \in BOOLEAN
    BY <1>5 DEF ClientEnds, HandleEnd, ToggleFilter, Quit, pumpVars, clientSide, uiSide,
                PumpTypeOK
  <2>5. PumpTypeOK'
    BY <2>1, <2>3, <2>4 DEF PumpTypeOK
  <2> QED
    BY <2>1, <2>2, <2>5
<1>6. ASSUME NEW e \in msgs, ForgetEvent(e)
      PROVE  PumpInv' /\ UNCHANGED shown
  <2>1. /\ UNCHANGED <<stage, tunnel, drops, channel, readers, ended, filtering, status,
                       shown, quit>>
        /\ msgs' \subseteq msgs
        /\ forgotten' \in BOOLEAN
        /\ lost' = lost \cup {e.who}
    BY <1>6 DEF ForgetEvent, clientSide, uiSide
  <2>2. e.who \in Request \cup {Tunnel}
    BY OnTheWay, EventTyped
  <2>3. PumpTypeOK'
    BY <2>1, <2>2 DEF PumpTypeOK
  <2>4. PipelineOrdered' /\ OneReader'
    BY <2>1 DEF PipelineOrdered, OneReader
  <2> QED
    BY <2>1, <2>3, <2>4
<1>7. WaitEvent => PumpInv' /\ UNCHANGED shown
  BY WaitKeepsInv DEF WaitEvent, uiSide
<1> QED
  BY <1>2, <1>3, <1>4, <1>5, <1>6, <1>7, HandleKeepsInv, ClearKeepsInv
  DEF PumpNext, ClientStep, LoopStep

(* Every state of the event pump satisfies its inductive invariant.        *)
THEOREM PumpInvariant == PumpSpec => []PumpInv
BY InitInv, NextInv, PTL DEF PumpSpec

(* There is never more than one event between the channel and the rows.    *)
THEOREM NoOvertaking == PumpSpec => []OneEventInFlight
<1>1. PumpInv => OneEventInFlight
  <2> SUFFICES ASSUME OneReader, readers \in Nat PROVE OneEventInFlight
    BY DEF PumpInv, PumpTypeOK
  <2>1. CASE msgs = {}
    BY <2>1, FS_EmptySet DEF OneReader, OneEventInFlight
  <2>2. CASE msgs # {}
    <3>1. PICK e : msgs = {e}
      BY <2>2 DEF OneReader
    <3>2. Cardinality(msgs) = 1
      BY <3>1, FS_Singleton
    <3> QED
      BY <2>2, <3>2 DEF OneReader, OneEventInFlight
  <2> QED
    BY <2>1, <2>2
<1> QED
  BY <1>1, PumpInvariant, PTL

(* The row of a request never falls back behind a stage it has shown.      *)
THEOREM RowsNeverFallBack == PumpSpec => ShownInOrder
<1>1. PumpInv /\ [PumpNext]_pumpVars =>
        [\A r \in Request :
           Rank[shown[r]] <= Rank[shown'[r]] \/ (ClearHistory /\ shown'[r] = "idle")]_pumpVars
  BY NextInv
<1> QED
  BY <1>1, PumpInvariant, PTL DEF PumpSpec, ShownInOrder

-----------------------------------------------------------------------------
(* The pause gate. *)

USE StreamAssumption, MaxPausesAssumption

(* The inductive invariant: the gate's own part, and the requests' part.   *)
GateInv == NoDoubleClose /\ ChannelsMade /\ NoStrandedWaiter

HeldInv == HeldUntilResume /\ StreamPhase /\ HeldIsAnnounced

PauseInv == PauseTypeOK /\ GateInv /\ HeldInv /\ QueueDepthExact

(* The requests inside WaitIfPaused are finitely many.                     *)
Waiters == {w \in Stream : wpc[w] \in Inside}

LEMMA WaitersFinite == IsFiniteSet(Waiters) /\ Cardinality(Waiters) \in Nat
BY FS_Subset, FS_CardinalityType DEF Waiters

LEMMA PauseInitInv == PauseInit => PauseInv
<1> SUFFICES ASSUME PauseInit PROVE PauseInv
  OBVIOUS
<1>1. PauseTypeOK
  <2>1. paused \in BOOLEAN
    BY DEF PauseInit
  <2>2. resume \in Channel /\ closed \subseteq Channel /\ queued \in Nat
    BY DEF PauseInit, Channel
  <2>3. /\ wpc \in [Stream -> StreamPC]
        /\ was \in [Stream -> BOOLEAN]
        /\ next \in [Controller -> {"none", "pause", "resume"}]
    BY DEF PauseInit, StreamPC
  <2>4. chan \in [Stream -> Channel \cup {-1}] /\ announced \in [Stream -> Nat]
    BY DEF PauseInit
  <2> QED
    BY <2>1, <2>2, <2>3, <2>4 DEF PauseTypeOK
<1>4. GateInv
  BY DEF PauseInit, GateInv, NoDoubleClose, ChannelsMade, NoStrandedWaiter
<1>5. HeldInv
  BY DEF PauseInit, HeldInv, HeldUntilResume, StreamPhase, HeldIsAnnounced, Inside
<1>2. {w \in Stream : wpc[w] \in Inside} = {}
  BY DEF PauseInit, Inside
<1>3. QueueDepthExact
  BY <1>2, FS_EmptySet DEF PauseInit, QueueDepthExact
<1> QED
  BY <1>1, <1>3, <1>4, <1>5 DEF PauseInv

(* The toggling goroutines leave every request where it stands.            *)
LEMMA ControllerInv ==
  ASSUME PauseInv, NEW k \in Controller, ControllerStep(k)
  PROVE  PauseInv'
<1> USE DEF PauseInv, PauseTypeOK, GateInv, HeldInv, NoDoubleClose,
            ChannelsMade, NoStrandedWaiter, HeldUntilResume, StreamPhase,
            HeldIsAnnounced, QueueDepthExact, Channel, streamVars, gateVars
<1>1. CASE ToggleRead(k)
  BY <1>1 DEF ToggleRead
<1>2. CASE SetPaused(k)
  <2>1. UNCHANGED streamVars /\ next' \in [Controller -> {"none", "pause", "resume"}]
    BY <1>2 DEF SetPaused, SetPausedWith
  <2>6. \/ UNCHANGED gateVars
        \/ /\ ~paused /\ paused' = TRUE /\ closed' = closed
           /\ resume < MaxPauses /\ resume' = resume + 1
        \/ /\ paused /\ paused' = FALSE /\ resume' = resume
           /\ closed' = closed \cup {resume}
    BY <1>2 DEF SetPaused, SetPausedWith
  <2>7. /\ resume' \in 0..MaxPauses
        /\ closed' \subseteq 0..MaxPauses
        /\ closed' \subseteq 0..resume'
        /\ closed \subseteq closed'
    <3>1. CASE UNCHANGED gateVars
      BY <3>1
    <3>2. CASE closed' = closed /\ resume < MaxPauses /\ resume' = resume + 1
      BY <3>2
    <3>3. CASE resume' = resume /\ closed' = closed \cup {resume}
      BY <3>3
    <3> QED
      BY <2>6, <3>1, <3>2, <3>3, Zenon
  <2>8. resume + 1 \notin closed
    OBVIOUS
  <2>2. PauseTypeOK'
    <3>1. paused' \in BOOLEAN
      BY <2>6, Zenon
    <3> QED
      BY <2>1, <2>7, <3>1
  <2>3. NoDoubleClose' /\ ChannelsMade' /\ closed \subseteq closed'
    <3>1. CASE UNCHANGED gateVars
      BY <3>1, <2>7
    <3>2. CASE closed' = closed /\ resume' = resume + 1
      BY <3>2, <2>7, <2>8
    <3>3. CASE paused' = FALSE
      BY <3>3, <2>7
    <3> QED
      BY <2>6, <3>1, <3>2, <3>3, Zenon
  <2>4. NoStrandedWaiter'
    BY <2>1, <2>6
  <2>5. HeldInv' /\ QueueDepthExact'
    BY <2>1, <2>3
  <2> QED
    BY <2>2, <2>3, <2>4, <2>5
<1> QED
  BY <1>1, <1>2 DEF ControllerStep

(* A request that stays outside WaitIfPaused, or inside it, is no matter   *)
(* to the count; entering and leaving move it by one.                      *)
LEMMA StreamInv ==
  ASSUME PauseInv, NEW w \in Stream, StreamStep(w)
  PROVE  PauseInv'
<1> USE DEF PauseInv, PauseTypeOK, GateInv, HeldInv, NoDoubleClose,
            ChannelsMade, NoStrandedWaiter, HeldUntilResume, StreamPhase,
            HeldIsAnnounced, Channel, StreamPC, Inside, gateVars, StreamGoto
<1>1. CASE Check(w)
  <2>1. Waiters' = Waiters /\ queued' = queued
    BY <1>1 DEF Check, Waiters
  <2>2. QueueDepthExact'
    BY <2>1 DEF QueueDepthExact, Waiters
  <2>3. PauseTypeOK' /\ GateInv' /\ HeldInv'
    BY <1>1 DEF Check
  <2> QED
    BY <2>2, <2>3
<1>2. CASE Enter(w)
  <2>1. PauseTypeOK' /\ GateInv' /\ HeldInv'
    BY <1>2 DEF Enter
  <2>2. CASE paused
    <3>1. Waiters' = Waiters \cup {w} /\ w \notin Waiters /\ queued' = queued + 1
      BY <1>2, <2>2 DEF Enter, Waiters
    <3>2. Cardinality(Waiters') = Cardinality(Waiters) + 1
      BY <3>1, WaitersFinite, FS_AddElement
    <3> QED
      BY <2>1, <3>1, <3>2 DEF QueueDepthExact, Waiters
  <2>3. CASE ~paused
    <3>1. Waiters' = Waiters /\ queued' = queued
      BY <1>2, <2>3 DEF Enter, Waiters
    <3> QED
      BY <2>1, <3>1 DEF QueueDepthExact, Waiters
  <2> QED
    BY <2>2, <2>3
<1>3. CASE Wake(w) \/ Expire(w)
  <2>1. Waiters' = Waiters /\ queued' = queued
    BY <1>3 DEF Wake, Expire, Waiters
  <2>2. QueueDepthExact'
    BY <2>1 DEF QueueDepthExact, Waiters
  <2>3. CASE Wake(w)
    BY <2>2, <2>3 DEF Wake
  <2>4. CASE Expire(w)
    BY <2>2, <2>4 DEF Expire
  <2> QED
    BY <1>3, <2>3, <2>4
<1>4. CASE Leave(w)
  <2> USE DEF Leave, LeaveAs, LateEvents, Outcome
  <2>1. Waiters' = Waiters \ {w} /\ w \in Waiters /\ queued' = queued - 1
    BY <1>4 DEF Waiters
  <2>2. Cardinality(Waiters') = Cardinality(Waiters) - 1
    BY <2>1, WaitersFinite, FS_RemoveElement
  <2>3. IsFiniteSet(Waiters') /\ Cardinality(Waiters') \in Nat
    BY <2>1, WaitersFinite, FS_RemoveElement, FS_CardinalityType
  <2>4. QueueDepthExact' /\ queued' \in Nat
    BY <2>1, <2>2, <2>3 DEF QueueDepthExact, Waiters
  <2>5. PauseTypeOK' /\ GateInv' /\ HeldInv'
    BY <1>4, <2>4
  <2> QED
    BY <2>4, <2>5
<1> QED
  BY <1>1, <1>2, <1>3, <1>4 DEF StreamStep

LEMMA PauseStutterInv ==
  ASSUME PauseInv, UNCHANGED pauseVars
  PROVE  PauseInv'
BY DEF pauseVars, gateVars, streamVars, PauseInv, PauseTypeOK, GateInv, HeldInv,
       NoDoubleClose, ChannelsMade, NoStrandedWaiter, HeldUntilResume,
       StreamPhase, HeldIsAnnounced, QueueDepthExact

(* The whole invariant of the gate, of which the theorems below are parts. *)
THEOREM PauseInvariant == PauseSpec => []PauseInv
<1>1. PauseInv /\ [PauseNext]_pauseVars => PauseInv'
  BY ControllerInv, StreamInv, PauseStutterInv DEF PauseNext
<1> QED
  BY PauseInitInv, <1>1, PTL DEF PauseSpec

(* No request is ever left waiting on a channel that nobody will close.    *)
THEOREM NobodyStranded == PauseSpec => []NoStrandedWaiter
<1>1. PauseInv => NoStrandedWaiter
  BY DEF PauseInv, GateInv
<1> QED
  BY <1>1, PauseInvariant, PTL

(* Resuming never panics on a channel that is closed already.              *)
THEOREM ResumeNeverPanics == PauseSpec => []NoDoubleClose
<1>1. PauseInv => NoDoubleClose
  BY DEF PauseInv, GateInv
<1> QED
  BY <1>1, PauseInvariant, PTL

(* The count that the TUI shows is the number of requests that are held.   *)
THEOREM DepthIsExact == PauseSpec => []QueueDepthExact
<1>1. PauseInv => QueueDepthExact
  BY DEF PauseInv
<1> QED
  BY <1>1, PauseInvariant, PTL

(* A held request is announced exactly once before it goes on.             *)
THEOREM HeldRequestsAnnounced == PauseSpec => []HeldIsAnnounced
<1>1. PauseInv => HeldIsAnnounced
  BY DEF PauseInv, HeldInv
<1> QED
  BY <1>1, PauseInvariant, PTL

(* A request that was held is forwarded only after a resume.               *)
THEOREM HeldRequestsWait == PauseSpec => []HeldUntilResume
<1>1. PauseInv => HeldUntilResume
  BY DEF PauseInv, HeldInv
<1> QED
  BY <1>1, PauseInvariant, PTL
=============================================================================
