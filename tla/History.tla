------------------------------ MODULE History ------------------------------
(***************************************************************************)
(* The request history of the terminal UI (internal/tui): the rows with    *)
(* their index by request, the filter, the cursor and its window, replays  *)
(* whose results come back later, and the health of the target that all    *)
(* of this traffic shows.  Update handles one message at a time; what      *)
(* comes in between is any other message.                                  *)
(***************************************************************************)
EXTENDS Integers, Sequences, FiniteSets

CONSTANTS
  Tunneled,    \* ids of tunneled requests
  Replay,      \* ids of replayed requests
  Code,        \* status codes of answers
  Any,         \* the empty filter
  MaxRequests  \* maxRequests

Id == Tunneled \cup Replay

ASSUME HistoryAssumption ==
  /\ Tunneled \cap Replay = {}
  /\ Code \subseteq Nat \ {0}
  /\ Any \notin Code
  /\ MaxRequests \in Nat \ {0}

VARIABLES
  told,         \* told[id]: the last that the client has said of a request
  replays,      \* the replays that run, with their sources
  requests,     \* m.requests, the newest row first
  index,        \* m.index, from ids to positions in requests
  selected,     \* m.selected, which counts from 0
  inspecting,   \* m.mode is not viewList
  filtering,    \* m.filtering
  filter,       \* m.filter: Any, or the code that is looked for
  targetHealth, \* m.targetHealth
  targetLive    \* m.targetLive

health == <<targetHealth, targetLive>>
view == <<inspecting, filtering, filter>>
historyVars == <<told, replays, requests, index, selected, view, health>>

(* What a row shows: received stands for queued and forwarding as well,    *)
(* which carry neither a code nor an error.                                *)
State == {"received", "response", "completed", "failed"}
Row == [id : Id, state : State, code : Code \cup {0}, error : {"none", "local", "tunnel"}]

HistoryTypeOK ==
  /\ told \in [Id -> [state : State \cup {"none", "running"}, code : Code \cup {0}]]
  /\ replays \subseteq [id : Replay, source : Id]
  /\ requests \in Seq(Row)
  /\ DOMAIN index \subseteq Id
  /\ selected \in Nat
  /\ inspecting \in BOOLEAN
  /\ filtering \in BOOLEAN
  /\ filter \in Code \cup {Any}
  /\ targetHealth \in {"unknown", "ok", "down", "degraded"}
  /\ targetLive \in BOOLEAN

HistoryInit ==
  /\ told = [id \in Id |-> [state |-> "none", code |-> 0]]
  /\ replays = {}
  /\ requests = <<>>
  /\ index = <<>>
  /\ selected = 0
  /\ inspecting = FALSE
  /\ filtering = FALSE
  /\ filter = Any
  /\ targetHealth = "unknown"
  /\ targetLive = FALSE

-----------------------------------------------------------------------------
(* Rows. *)

(* rebuildIndex: of rows with the same id the last one would count. *)
Positions(rows) ==
  [id \in {rows[p].id : p \in 1..Len(rows)} |->
     CHOOSE p \in 1..Len(rows) :
       rows[p].id = id /\ \A q \in 1..Len(rows) : rows[q].id = id => q <= p]

(* mergeRequestItem: codes and errors stay unless there are new ones. *)
Merge(row, e) ==
  [e EXCEPT !.code = IF @ = 0 THEN row.code ELSE @,
            !.error = IF @ = "none" THEN row.error ELSE @]

(* Slip: the wrong end is cut off. *)
CutFront(rows) ==
  SubSeq(rows, IF Len(rows) > MaxRequests THEN Len(rows) - MaxRequests + 1 ELSE 1, Len(rows))

(* The oldest rows are dropped. *)
Cut(rows) == SubSeq(rows, 1, IF Len(rows) > MaxRequests THEN MaxRequests ELSE Len(rows))

(* visibleRequests, as positions in rows. *)
Visible(rows, f) == {p \in 1..Len(rows) : f = Any \/ rows[p].code = f}

(* The p-th of the visible requests, where p counts from 0. *)
IsNth(p, visible, n) == p \in visible /\ Cardinality({q \in visible : q < p}) = n

(* clampSelection *)
Clamp(s, visible) ==
  IF visible = {} \/ s < 0 THEN 0
  ELSE IF s >= Cardinality(visible) THEN Cardinality(visible) - 1 ELSE s

(* Slip: the beginning of the list is not considered. *)
WindowStartBefore(total, s, limit) ==
  IF total <= limit \/ limit <= 0 THEN 0
  ELSE IF s - limit \div 2 > total - limit THEN total - limit
  ELSE s - limit \div 2

(* requestWindowStart *)
WindowStart(total, s, limit) ==
  IF total <= limit \/ limit <= 0 \/ s - limit \div 2 < 0 THEN 0
  ELSE IF s - limit \div 2 > total - limit THEN total - limit
  ELSE s - limit \div 2

(* updateTargetHealth: an answer or a failure of the target tells.  *)
UpdateTargetHealth(row) ==
  LET seen == IF row.error = "local" THEN "down"
              ELSE IF row.code >= 500 THEN "degraded" ELSE "ok"
  IN  IF row.error = "local" \/ (row.state \in {"response", "completed"} /\ row.code > 0)
        THEN targetHealth' = seen /\ targetLive' = TRUE
        ELSE UNCHANGED health

(* Slip: what has been cut off stays in the index. *)
ApplyEventCutUnindexed(e) ==
  IF e.id \in DOMAIN index
    THEN /\ requests' = [requests EXCEPT ![index[e.id]] = Merge(@, e)]
         /\ UpdateTargetHealth(Merge(requests[index[e.id]], e))
         /\ UNCHANGED index
    ELSE /\ requests' = Cut(<<e>> \o requests)
         /\ index' = Positions(<<e>> \o requests)
         /\ UpdateTargetHealth(e)

(* Slip: a row that is updated moves to the front. *)
ApplyEventMovingUp(e) ==
  LET others == SelectSeq(requests, LAMBDA row : row.id # e.id)
      row    == IF e.id \in DOMAIN index THEN Merge(requests[index[e.id]], e) ELSE e
  IN  /\ requests' = Cut(<<row>> \o others)
      /\ index' = Positions(requests')
      /\ UpdateTargetHealth(row)

(* applyEvent: a row is updated in its place, or a new one is put in front *)
(* and the oldest is cut off.                                              *)
ApplyEvent(e) ==
  IF e.id \in DOMAIN index
    THEN /\ requests' = [requests EXCEPT ![index[e.id]] = Merge(@, e)]
         /\ UpdateTargetHealth(Merge(requests[index[e.id]], e))
         /\ UNCHANGED index
    ELSE /\ requests' = Cut(<<e>> \o requests)
         /\ index' = Positions(requests')
         /\ UpdateTargetHealth(e)

-----------------------------------------------------------------------------
(* Messages. *)

(* What the client may say next of a tunneled request; what it leaves out  *)
(* has been dropped.  A failure of the target comes before its answer.     *)
NextEvents(id) ==
  LET event(s, c, k) == [id |-> id, state |-> s, code |-> c, error |-> k]
  IN  IF told[id].state \in {"none", "received"}
        THEN {event("received", 0, "none")}
               \cup {event(s, c, "none") : s \in {"response", "completed"}, c \in Code}
               \cup {event("failed", 0, k) : k \in {"local", "tunnel"}}
      ELSE IF told[id].state = "response"
        THEN {event("completed", told[id].code, "none"), event("failed", 0, "tunnel")}
      ELSE {}

(* An event arrives at Update, which forgets it in the filter mode.  That  *)
(* nobody reads further events then is EventPump's; here they may arrive.  *)
EventArrives ==
  \E id \in Tunneled : \E e \in NextEvents(id) :
    /\ told' = [told EXCEPT ![id] = [state |-> e.state, code |-> e.code]]
    /\ IF filtering
         THEN UNCHANGED <<requests, index, selected, health>>
         ELSE /\ ApplyEvent(e)
              /\ selected' = Clamp(selected, Visible(requests', filter))
    /\ UNCHANGED <<replays, view>>

(* The result of a replay: an answer, or an error without a kind. *)
Results(id) ==
  [id : {id}, state : {"completed"}, code : Code, error : {"none"}]
    \cup {[id |-> id, state |-> "failed", code |-> 0, error |-> "none"]}

(* Slip: the cursor stays on its line. *)
ReturnToSourceNever(source) == selected' = Clamp(selected, Visible(requests', filter))

(* selectRequestID, or the cursor stays where it can. *)
ReturnToSource(source) ==
  LET visible == Visible(requests', filter)
      places  == {n \in 0..Cardinality(visible) - 1 : \E p \in visible :
                    IsNth(p, visible, n) /\ requests'[p].id = source}
  IN  IF places = {} THEN selected' = Clamp(selected, visible) ELSE selected' \in places

(* replayDoneMsg, which is forgotten in the filter mode too. *)
ReplayDone(x) ==
  /\ x \in replays
  /\ replays' = replays \ {x}
  /\ IF filtering
       THEN UNCHANGED <<requests, index, selected, health>>
       ELSE /\ \E e \in Results(x.id) : ApplyEvent(e)
            /\ ReturnToSource(x.source)
  /\ UNCHANGED <<told, view>>

(* targetProbeMsg: a probe of the target, of which one runs after every    *)
(* connection, counts only as long as there has been no traffic.           *)
ProbeArrives ==
  /\ IF filtering \/ targetLive
       THEN UNCHANGED targetHealth
       ELSE targetHealth' \in {"ok", "down", "degraded"}
  /\ UNCHANGED <<told, replays, requests, index, selected, view, targetLive>>

-----------------------------------------------------------------------------
(* Keys. *)

(* Home, end, up and down. *)
MoveCursor ==
  /\ ~filtering /\ ~inspecting
  /\ LET visible == Visible(requests, filter)
         last    == Cardinality(visible) - 1
     IN  \E s \in {0, last, selected - 1, selected + 1} : selected' = Clamp(s, visible)
  /\ UNCHANGED <<told, replays, requests, index, view, health>>

(* Enter opens the inspector, Escape closes it. *)
Inspect ==
  /\ ~filtering
  /\ inspecting \/ Visible(requests, filter) # {}
  /\ inspecting' = ~inspecting
  /\ selected' = Clamp(selected, Visible(requests, filter))
  /\ UNCHANGED <<told, replays, requests, index, filtering, filter, health>>

(* The key r: the selected request goes out with a fresh id. *)
ReplaySelected ==
  /\ ~filtering /\ inspecting
  /\ \E p \in 1..Len(requests) : \E id \in Replay :
       /\ IsNth(p, Visible(requests, filter), selected)
       /\ told[id].state = "none"
       /\ told' = [told EXCEPT ![id].state = "running"]
       /\ replays' = replays \cup {[id |-> id, source |-> requests[p].id]}
  /\ UNCHANGED <<requests, index, selected, view, health>>

(* The key x. *)
ClearHistory ==
  /\ ~filtering /\ ~inspecting
  /\ requests' = <<>>
  /\ index' = <<>>
  /\ selected' = 0
  /\ UNCHANGED <<told, replays, view, health>>

(* The key "/". *)
StartFilter ==
  /\ ~filtering /\ ~inspecting
  /\ filtering' = TRUE
  /\ selected' = Clamp(selected, Visible(requests, filter))
  /\ UNCHANGED <<told, replays, requests, index, inspecting, filter, health>>

(* updateFilter: a key changes the filter or leaves the mode. *)
FilterKey ==
  /\ filtering
  /\ filter' \in Code \cup {Any}
  /\ filtering' \in BOOLEAN
  /\ selected' = Clamp(selected, Visible(requests, filter'))
  /\ UNCHANGED <<told, replays, requests, index, inspecting, health>>

-----------------------------------------------------------------------------

MessageStep == EventArrives \/ (\E x \in replays : ReplayDone(x)) \/ ProbeArrives

KeyStep ==
  MoveCursor \/ Inspect \/ ReplaySelected \/ ClearHistory \/ StartFilter \/ FilterKey

HistoryNext == MessageStep \/ KeyStep

HistorySpec == HistoryInit /\ [][HistoryNext]_historyVars

-----------------------------------------------------------------------------
(* Correctness. *)

(* The index leads to the row of each request that has one, and nowhere    *)
(* else; so an event finds its row, and no request has two.                *)
IndexExact ==
  /\ DOMAIN index = {requests[p].id : p \in 1..Len(requests)}
  /\ \A p \in 1..Len(requests) : index[requests[p].id] = p
  /\ Len(requests) <= MaxRequests

(* The cursor is on a visible request whenever there is one, whatever has  *)
(* come in and whatever filter is being typed.                             *)
CursorOnRow ==
  LET shown == Cardinality(Visible(requests, filter))
  IN  selected \in 0..shown - 1 \/ (shown = 0 /\ selected = 0)

(* The list's window, whatever its height, is filled and shows the cursor. *)
WindowShowsCursor ==
  LET total == Cardinality(Visible(requests, filter))
  IN  \A height \in 1..MaxRequests :
        LET limit == IF total < height THEN total ELSE height
            start == WindowStart(total, selected, limit)
        IN  /\ start >= 0 /\ start + limit <= total
            /\ total > 0 => start <= selected /\ selected < start + limit

(* The inductive invariant. *)
HistoryInv == HistoryTypeOK /\ IndexExact /\ CursorOnRow

(* The request under the cursor. *)
UnderCursor ==
  {requests[p].id : p \in {q \in 1..Len(requests) :
                             IsNth(q, Visible(requests, filter), selected)}}

(* An event that only updates a row does not put another request under the *)
(* cursor, unless the row begins to match the filter: what is replayed or  *)
(* copied next is what was looked at.                                      *)
UpdateKeepsCursor ==
  [][EventArrives /\ DOMAIN index' = DOMAIN index
       /\ Visible(requests', filter') = Visible(requests, filter)
     => UnderCursor' = UnderCursor]_historyVars

(* When a replay ends, the cursor is on the request that was replayed if   *)
(* that is to be seen, however many rows have come in before.              *)
ReplayReturns ==
  [][\A x \in replays :
       ReplayDone(x) /\ ~filtering
         /\ (\E p \in Visible(requests', filter) : requests'[p].id = x.source)
       => UnderCursor' = {x.source}]_historyVars

(* What comes in is kept, and a row disappears only when the user clears   *)
(* the history, or as the oldest one of a full history.                    *)
OldestGoesFirst ==
  [][/\ \A p \in 1..Len(requests) :
          requests[p].id \notin DOMAIN index' =>
            ClearHistory \/ (p = Len(requests) /\ p = MaxRequests)
     /\ \A id \in Tunneled :
          told'[id] # told[id] => filtering \/ id \in DOMAIN index']_historyVars
=============================================================================
