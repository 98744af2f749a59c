--------------------------- MODULE HistoryProofs ---------------------------
(***************************************************************************)
(* That the history's index and cursor stay right, for any requests,       *)
(* replays, codes and any size of the history.                             *)
(***************************************************************************)
EXTENDS History, FiniteSetTheorems, TLAPS

(* Rows whose ids differ. *)
Distinct(rows) == \A p, q \in 1..Len(rows) : rows[p].id = rows[q].id => p = q

(* Of distinct rows, Positions is the inverse.                             *)
LEMMA PositionsInverse ==
  ASSUME NEW rows \in Seq(Row), Distinct(rows)
  PROVE  /\ DOMAIN Positions(rows) = {rows[p].id : p \in 1..Len(rows)}
         /\ \A p \in 1..Len(rows) : Positions(rows)[rows[p].id] = p
<1>1. DOMAIN Positions(rows) = {rows[p].id : p \in 1..Len(rows)}
  BY DEF Positions
<1>2. ASSUME NEW p \in 1..Len(rows)
      PROVE  Positions(rows)[rows[p].id] = p
  <2> DEFINE id == rows[p].id
             Last(x) == rows[x].id = id /\ \A q \in 1..Len(rows) : rows[q].id = id => q <= x
  <2>1. Positions(rows)[id] = CHOOSE x \in 1..Len(rows) : Last(x)
    BY DEF Positions
  <2>2. Last(p)
    BY DEF Distinct
  <2>3. \A x \in 1..Len(rows) : Last(x) => x = p
    BY DEF Distinct
  <2> QED
    BY <2>1, <2>2, <2>3
<1> QED
  BY <1>1, <1>2

(* The visible positions can be counted.                                   *)
LEMMA VisibleFinite ==
  ASSUME NEW rows \in Seq(Row), NEW f
  PROVE  /\ IsFiniteSet(Visible(rows, f))
         /\ Cardinality(Visible(rows, f)) \in Nat
         /\ Visible(rows, f) = {} <=> Cardinality(Visible(rows, f)) = 0
<1>1. Len(rows) \in Nat
  OBVIOUS
<1>2. IsFiniteSet(1..Len(rows))
  BY <1>1, FS_Interval
<1>3. Visible(rows, f) \subseteq 1..Len(rows)
  BY DEF Visible
<1>4. IsFiniteSet(Visible(rows, f))
  BY <1>2, <1>3, FS_Subset
<1> QED
  BY <1>4, FS_CardinalityType, FS_EmptySet

(* What clampSelection makes of any cursor is a place in the list.         *)
LEMMA ClampInList ==
  ASSUME NEW rows \in Seq(Row), NEW f, NEW s \in Int
  PROVE  LET visible == Visible(rows, f)
             place   == Clamp(s, visible)
         IN  \/ place \in 0..Cardinality(visible) - 1
             \/ Cardinality(visible) = 0 /\ place = 0
BY VisibleFinite DEF Clamp

(* What is said of a request is a row of that request.                     *)
LEMMA EventsTyped ==
  ASSUME HistoryTypeOK, NEW id \in Tunneled
  PROVE  \A e \in NextEvents(id) : e \in Row /\ e.id = id
BY DEF HistoryTypeOK, NextEvents, Row, State, Id

(* What comes out of a replay is a row of the replay.                      *)
LEMMA ResultsTyped ==
  ASSUME NEW id \in Replay
  PROVE  \A e \in Results(id) : e \in Row /\ e.id = id
BY DEF Results, Row, State, Id

(* Merging keeps the row of its request.                                   *)
LEMMA MergeTyped ==
  ASSUME NEW row \in Row, NEW e \in Row
  PROVE  Merge(row, e) \in Row /\ Merge(row, e).id = e.id
BY DEF Merge, Row

(* Putting a row in front and cutting: what is where.                      *)
LEMMA Prepended ==
  ASSUME NEW rows \in Seq(Row), NEW e \in Row
  PROVE  LET new == Cut(<<e>> \o rows)
         IN  /\ new \in Seq(Row)
             /\ Len(new) = IF Len(rows) < MaxRequests THEN Len(rows) + 1 ELSE MaxRequests
             /\ Len(new) >= 1
             /\ new[1] = e
             /\ \A p \in 2..Len(new) : p - 1 \in 1..Len(rows) /\ new[p] = rows[p - 1]
<1> DEFINE long == <<e>> \o rows
<1>1. /\ long \in Seq(Row) /\ Len(long) = Len(rows) + 1 /\ Len(rows) \in Nat
      /\ long[1] = e
      /\ \A p \in 2..Len(long) : long[p] = rows[p - 1]
  OBVIOUS
<1> DEFINE n == IF Len(long) > MaxRequests THEN MaxRequests ELSE Len(long)
<1>2. n \in 1..Len(long)
  BY <1>1, HistoryAssumption
<1>3. Cut(long) = SubSeq(long, 1, n)
  BY DEF Cut
<1> HIDE DEF long, n
<1>4. /\ SubSeq(long, 1, n) \in Seq(Row)
      /\ Len(SubSeq(long, 1, n)) = n
      /\ \A p \in 1..n : SubSeq(long, 1, n)[p] = long[p]
  BY <1>1, <1>2
<1>5. n = IF Len(rows) < MaxRequests THEN Len(rows) + 1 ELSE MaxRequests
  BY <1>1, HistoryAssumption DEF n
<1> DEFINE new == Cut(long)
<1>6. new \in Seq(Row) /\ Len(new) = n /\ \A p \in 1..n : new[p] = long[p]
  BY <1>3, <1>4
<1> HIDE DEF new
<1>7. n \in Nat /\ n >= 1 /\ n <= Len(rows) + 1
  BY <1>1, <1>2
<1>8. new[1] = e
  BY <1>1, <1>6, <1>7
<1>9. ASSUME NEW p \in 2..n
      PROVE  p - 1 \in 1..Len(rows) /\ new[p] = rows[p - 1]
  BY <1>1, <1>6, <1>7
<1> QED
  BY <1>5, <1>6, <1>7, <1>8, <1>9 DEF long, new

(* applyEvent keeps the rows and their index, and drops at most the oldest.*)
LEMMA ApplyKeepsIndex ==
  ASSUME HistoryTypeOK, IndexExact, NEW e \in Row, ApplyEvent(e)
  PROVE  /\ requests' \in Seq(Row)
         /\ DOMAIN index' \subseteq Id
         /\ IndexExact'
         /\ e.id \in DOMAIN index'
         /\ \A p \in 1..Len(requests) :
              requests[p].id \notin DOMAIN index' => p = Len(requests) /\ p = MaxRequests
<1>1. requests \in Seq(Row) /\ Len(requests) \in Nat
  BY DEF HistoryTypeOK
<1>2. CASE e.id \in DOMAIN index
  <2> DEFINE k == index[e.id]
  <2>1. k \in 1..Len(requests) /\ requests[k].id = e.id
    BY <1>2 DEF IndexExact
  <2>2. requests[k] \in Row
    BY <1>1, <2>1
  <2>3. requests' = [requests EXCEPT ![k] = Merge(requests[k], e)] /\ index' = index
    BY <1>2 DEF ApplyEvent
  <2> HIDE DEF k
  <2>4. /\ requests' \in Seq(Row) /\ Len(requests') = Len(requests)
        /\ \A p \in 1..Len(requests) : requests'[p].id = requests[p].id
    BY <1>1, <2>1, <2>2, <2>3, MergeTyped
  <2>5. {requests'[p].id : p \in 1..Len(requests')} = {requests[p].id : p \in 1..Len(requests)}
    BY <2>4
  <2>6. IndexExact'
    BY <2>3, <2>4, <2>5 DEF IndexExact
  <2>7. DOMAIN index' \subseteq Id
    BY <2>3 DEF HistoryTypeOK
  <2>8. \A p \in 1..Len(requests) : requests[p].id \in DOMAIN index'
    BY <2>3 DEF IndexExact
  <2> QED
    BY <1>2, <2>3, <2>4, <2>6, <2>7, <2>8
<1>3. CASE e.id \notin DOMAIN index
  <2>1. requests' = Cut(<<e>> \o requests) /\ index' = Positions(requests')
    BY <1>3 DEF ApplyEvent
  <2>2. /\ requests' \in Seq(Row)
        /\ Len(requests') = IF Len(requests) < MaxRequests THEN Len(requests) + 1 ELSE MaxRequests
        /\ Len(requests') >= 1
        /\ requests'[1] = e
        /\ \A p \in 2..Len(requests') :
             p - 1 \in 1..Len(requests) /\ requests'[p] = requests[p - 1]
    BY <1>1, <2>1, Prepended
  <2>3. \A p \in 1..Len(requests) : requests[p].id # e.id
    BY <1>3 DEF IndexExact
  <2>4. Distinct(requests)
    BY DEF IndexExact, Distinct
  <2>5. Distinct(requests')
    <3> SUFFICES ASSUME NEW p \in 1..Len(requests'), NEW q \in 1..Len(requests'),
                        requests'[p].id = requests'[q].id
                 PROVE  p = q
      BY DEF Distinct
    <3>1. \A x \in 1..Len(requests') : x # 1 =>
            /\ x - 1 \in 1..Len(requests)
            /\ requests'[x].id = requests[x - 1].id
            /\ requests'[x].id # e.id
      <4> SUFFICES ASSUME NEW x \in 1..Len(requests'), x # 1
                   PROVE  /\ x - 1 \in 1..Len(requests)
                          /\ requests'[x].id = requests[x - 1].id
                          /\ requests'[x].id # e.id
        OBVIOUS
      <4>1. x \in 2..Len(requests')
        BY <2>2
      <4>2. x - 1 \in 1..Len(requests) /\ requests'[x] = requests[x - 1]
        BY <2>2, <4>1
      <4> QED
        BY <2>3, <4>2
    <3>2. CASE p = 1 \/ q = 1
      BY <2>2, <3>1, <3>2
    <3>3. CASE p # 1 /\ q # 1
      <4>1. p - 1 = q - 1
        BY <2>4, <3>1, <3>3 DEF Distinct
      <4> QED
        BY <4>1
    <3> QED
      BY <3>2, <3>3
  <2>6. /\ DOMAIN index' = {requests'[p].id : p \in 1..Len(requests')}
        /\ \A p \in 1..Len(requests') : index'[requests'[p].id] = p
    BY <2>1, <2>2, <2>5, PositionsInverse
  <2>7. Len(requests') <= MaxRequests
    BY <1>1, <2>2, HistoryAssumption DEF IndexExact
  <2>8. DOMAIN index' \subseteq Id
    <3>1. \A p \in 1..Len(requests') : requests'[p] \in Row
      BY <2>2
    <3>2. \A row \in Row : row.id \in Id
      BY DEF Row
    <3> QED
      BY <2>6, <3>1, <3>2
  <2>9. ASSUME NEW p \in 1..Len(requests), requests[p].id \notin DOMAIN index'
        PROVE  p = Len(requests) /\ p = MaxRequests
    <3>1. ~(p + 1 \in 2..Len(requests'))
      <4> SUFFICES ASSUME p + 1 \in 2..Len(requests') PROVE FALSE
        OBVIOUS
      <4>1. requests'[p + 1] = requests[p] /\ p + 1 \in 1..Len(requests')
        BY <2>2
      <4> QED
        BY <2>6, <2>9, <4>1
    <3> QED
      BY <1>1, <2>2, <2>7, <3>1, HistoryAssumption DEF IndexExact
  <2>10. e.id \in DOMAIN index'
    <3>1. 1 \in 1..Len(requests')
      BY <2>2
    <3> QED
      BY <2>2, <2>6, <3>1
  <2> QED
    BY <2>2, <2>6, <2>7, <2>8, <2>9, <2>10 DEF IndexExact
<1> QED
  BY <1>2, <1>3

(* The target's health keeps its type.                                     *)
LEMMA HealthTyped ==
  ASSUME HistoryTypeOK, NEW row, UpdateTargetHealth(row)
  PROVE  /\ targetHealth' \in {"unknown", "ok", "down", "degraded"}
         /\ targetLive' \in BOOLEAN
<1>1. targetHealth' \in {"unknown", "ok", "down", "degraded"}
  BY DEF HistoryTypeOK, UpdateTargetHealth, health
<1>2. targetLive' \in BOOLEAN
  BY DEF HistoryTypeOK, UpdateTargetHealth, health
<1> QED
  BY <1>1, <1>2

-----------------------------------------------------------------------------

(* An arrived row keeps the invariant, wherever the cursor goes.           *)
LEMMA ArrivalKeepsInv ==
  ASSUME HistoryInv, NEW e \in Row, ApplyEvent(e),
         told' \in [Id -> [state : State \cup {"none", "running"}, code : Code \cup {0}]],
         replays' \subseteq [id : Replay, source : Id],
         UNCHANGED view,
         \/ selected' \in 0..Cardinality(Visible(requests', filter)) - 1
         \/ Cardinality(Visible(requests', filter)) = 0 /\ selected' = 0
  PROVE  HistoryInv'
<1> USE DEF HistoryInv
<1>1. /\ requests' \in Seq(Row)
      /\ DOMAIN index' \subseteq Id
      /\ IndexExact'
  BY ApplyKeepsIndex
<1>2. /\ targetHealth' \in {"unknown", "ok", "down", "degraded"}
      /\ targetLive' \in BOOLEAN
  BY HealthTyped DEF ApplyEvent
<1>3. selected' \in Nat /\ CursorOnRow'
  BY <1>1, VisibleFinite DEF CursorOnRow, view
<1>4. /\ inspecting' \in BOOLEAN /\ filtering' \in BOOLEAN
      /\ filter' \in Code \cup {Any}
  BY DEF HistoryTypeOK, view
<1>5. HistoryTypeOK'
  BY <1>1, <1>2, <1>3, <1>4 DEF HistoryTypeOK
<1> QED
  BY <1>1, <1>3, <1>5

(* The beginning. *)
LEMMA HistoryInitInv == HistoryInit => HistoryInv
<1> SUFFICES ASSUME HistoryInit PROVE HistoryInv
  OBVIOUS
<1>1. requests = <<>> /\ index = <<>> /\ selected = 0
  BY DEF HistoryInit
<1>2. requests \in Seq(Row) /\ Len(requests) = 0 /\ DOMAIN index = {}
  BY <1>1
<1>3. IndexExact
  BY <1>2, HistoryAssumption DEF IndexExact
<1>4. CursorOnRow
  <2>1. Visible(requests, filter) = {}
    BY <1>2 DEF Visible
  <2> QED
    BY <1>1, <2>1, FS_EmptySet DEF CursorOnRow
<1>5. inspecting \in BOOLEAN /\ filtering \in BOOLEAN /\ targetLive \in BOOLEAN
  BY DEF HistoryInit
<1>6. HistoryTypeOK
  BY <1>1, <1>2, <1>5 DEF HistoryInit, HistoryTypeOK
<1> QED
  BY <1>3, <1>4, <1>6 DEF HistoryInv

(* Keys that only look around keep the rows.                               *)
LEMMA LookingKeepsInv ==
  ASSUME HistoryInv, UNCHANGED <<told, replays, requests, index, health>>,
         inspecting' \in BOOLEAN, filtering' \in BOOLEAN, filter' \in Code \cup {Any},
         NEW s \in Int, selected' = Clamp(s, Visible(requests, filter'))
  PROVE  HistoryInv'
<1> USE DEF HistoryInv
<1>1. requests \in Seq(Row)
  BY DEF HistoryTypeOK
<1>2. \/ selected' \in 0..Cardinality(Visible(requests, filter')) - 1
      \/ Cardinality(Visible(requests, filter')) = 0 /\ selected' = 0
  BY <1>1, ClampInList
<1>3. selected' \in Nat /\ CursorOnRow'
  BY <1>1, <1>2, VisibleFinite DEF CursorOnRow
<1>4. targetLive' \in BOOLEAN
  BY DEF HistoryTypeOK, health
<1>5. HistoryTypeOK'
  BY <1>3, <1>4 DEF HistoryTypeOK, health
<1>6. IndexExact'
  BY DEF IndexExact
<1> QED
  BY <1>3, <1>5, <1>6

(* Each step keeps the invariant.                                          *)
LEMMA HistoryNextInv ==
  ASSUME HistoryInv, [HistoryNext]_historyVars
  PROVE  HistoryInv'
<1> USE DEF HistoryInv
<1>1. /\ requests \in Seq(Row) /\ selected \in Int
      /\ inspecting \in BOOLEAN /\ filtering \in BOOLEAN /\ filter \in Code \cup {Any}
  BY DEF HistoryTypeOK
<1>2. ASSUME UNCHANGED <<requests, index, selected, view>>,
             told' \in [Id -> [state : State \cup {"none", "running"}, code : Code \cup {0}]],
             replays' \subseteq [id : Replay, source : Id],
             targetHealth' \in {"unknown", "ok", "down", "degraded"},
             UNCHANGED targetLive
      PROVE  HistoryInv'
  <2>1. /\ inspecting' \in BOOLEAN /\ filtering' \in BOOLEAN /\ targetLive' \in BOOLEAN
    BY <1>2 DEF HistoryTypeOK, view
  <2>2. HistoryTypeOK'
    BY <1>2, <2>1 DEF HistoryTypeOK, view
  <2>3. IndexExact' /\ CursorOnRow'
    BY <1>2 DEF IndexExact, CursorOnRow, view
  <2> QED
    BY <2>2, <2>3
<1>3. CASE EventArrives
  <2>0. PICK id \in Tunneled : \E e \in NextEvents(id) :
          /\ told' = [told EXCEPT ![id] = [state |-> e.state, code |-> e.code]]
          /\ IF filtering
               THEN UNCHANGED <<requests, index, selected, health>>
               ELSE /\ ApplyEvent(e)
                    /\ selected' = Clamp(selected, Visible(requests', filter))
    BY <1>3 DEF EventArrives
  <2>1. PICK e \in NextEvents(id) :
          /\ told' = [told EXCEPT ![id] = [state |-> e.state, code |-> e.code]]
          /\ IF filtering
               THEN UNCHANGED <<requests, index, selected, health>>
               ELSE /\ ApplyEvent(e)
                    /\ selected' = Clamp(selected, Visible(requests', filter))
    BY <2>0
  <2>2. e \in Row
    BY EventsTyped
  <2>3. told' \in [Id -> [state : State \cup {"none", "running"}, code : Code \cup {0}]]
    BY <2>1, <2>2 DEF HistoryTypeOK, Row
  <2>4. UNCHANGED <<replays, view>> /\ replays' \subseteq [id : Replay, source : Id]
    BY <1>3 DEF EventArrives, HistoryTypeOK
  <2>5. CASE filtering
    BY <1>2, <2>1, <2>3, <2>4, <2>5 DEF health, HistoryTypeOK
  <2>6. CASE ~filtering
    <3>1. requests' \in Seq(Row)
      BY <2>1, <2>2, <2>6, ApplyKeepsIndex
    <3>2. \/ selected' \in 0..Cardinality(Visible(requests', filter)) - 1
          \/ Cardinality(Visible(requests', filter)) = 0 /\ selected' = 0
      BY <1>1, <2>1, <2>6, <3>1, ClampInList
    <3> QED
      BY <2>1, <2>2, <2>3, <2>4, <2>6, <3>2, ArrivalKeepsInv
  <2> QED
    BY <2>5, <2>6
<1>4. ASSUME NEW x \in replays, ReplayDone(x)
      PROVE  HistoryInv'
  <2>1. /\ UNCHANGED <<told, view>>
        /\ told' \in [Id -> [state : State \cup {"none", "running"}, code : Code \cup {0}]]
        /\ replays' \subseteq [id : Replay, source : Id]
        /\ x.id \in Replay
    BY <1>4 DEF ReplayDone, HistoryTypeOK
  <2>2. CASE filtering
    BY <1>2, <1>4, <2>1, <2>2 DEF ReplayDone, health, HistoryTypeOK
  <2>3. CASE ~filtering
    <3>1. PICK e \in Results(x.id) : ApplyEvent(e)
      BY <1>4, <2>3 DEF ReplayDone
    <3>2. e \in Row
      BY <2>1, ResultsTyped
    <3>3. requests' \in Seq(Row)
      BY <3>1, <3>2, ApplyKeepsIndex
    <3> DEFINE visible == Visible(requests', filter)
    <3>4. selected' \in 0..Cardinality(visible) - 1 \/ selected' = Clamp(selected, visible)
      BY <1>4, <2>3 DEF ReplayDone, ReturnToSource
    <3>5. \/ selected' \in 0..Cardinality(visible) - 1
          \/ Cardinality(visible) = 0 /\ selected' = 0
      BY <1>1, <3>3, <3>4, ClampInList
    <3> QED
      BY <2>1, <3>1, <3>2, <3>5, ArrivalKeepsInv
  <2> QED
    BY <2>2, <2>3
<1>5. CASE ProbeArrives
  BY <1>2, <1>5 DEF ProbeArrives, HistoryTypeOK
<1>6. CASE MoveCursor
  <2> DEFINE visible == Visible(requests, filter)
  <2>1. Cardinality(visible) \in Nat
    BY <1>1, VisibleFinite
  <2>2. PICK s \in {0, Cardinality(visible) - 1, selected - 1, selected + 1} :
          selected' = Clamp(s, visible)
    BY <1>6 DEF MoveCursor
  <2>3. s \in Int
    BY <1>1, <2>1
  <2> QED
    BY <1>1, <1>6, <2>2, <2>3, LookingKeepsInv DEF MoveCursor, view
<1>7. CASE Inspect
  <2>1. inspecting' \in BOOLEAN
    BY <1>1, <1>7 DEF Inspect
  <2> QED
    BY <1>1, <1>7, <2>1, LookingKeepsInv DEF Inspect
<1>8. CASE ReplaySelected
  <2>1. PICK p \in 1..Len(requests), id \in Replay :
          /\ told' = [told EXCEPT ![id].state = "running"]
          /\ replays' = replays \cup {[id |-> id, source |-> requests[p].id]}
    BY <1>8 DEF ReplaySelected
  <2>2. requests[p].id \in Id
    <3>1. requests[p] \in Row
      BY <1>1
    <3>2. \A row \in Row : row.id \in Id
      BY DEF Row
    <3> QED
      BY <3>1, <3>2
  <2>3. told' \in [Id -> [state : State \cup {"none", "running"}, code : Code \cup {0}]]
    BY <2>1 DEF HistoryTypeOK, Id
  <2>4. replays' \subseteq [id : Replay, source : Id]
    BY <2>1, <2>2 DEF HistoryTypeOK
  <2> QED
    BY <1>2, <1>8, <2>3, <2>4 DEF ReplaySelected, HistoryTypeOK, health
<1>9. CASE ClearHistory
  <2>1. requests' = <<>> /\ index' = <<>> /\ selected' = 0
    BY <1>9 DEF ClearHistory
  <2>2. requests' \in Seq(Row) /\ Len(requests') = 0 /\ DOMAIN index' = {}
    BY <2>1
  <2>3. IndexExact'
    BY <2>2, HistoryAssumption DEF IndexExact
  <2>4. Visible(requests', filter') = {}
    BY <2>2 DEF Visible
  <2>5. CursorOnRow'
    BY <2>1, <2>4, FS_EmptySet DEF CursorOnRow
  <2>6. inspecting' \in BOOLEAN /\ filtering' \in BOOLEAN /\ targetLive' \in BOOLEAN
    BY <1>9 DEF ClearHistory, HistoryTypeOK, view, health
  <2>7. HistoryTypeOK'
    BY <1>9, <2>1, <2>2, <2>6 DEF ClearHistory, HistoryTypeOK, view, health
  <2> QED
    BY <2>3, <2>5, <2>7
<1>10. CASE StartFilter
  <2>1. filtering' \in BOOLEAN
    BY <1>10 DEF StartFilter
  <2> QED
    BY <1>1, <1>10, <2>1, LookingKeepsInv DEF StartFilter
<1>11. CASE FilterKey
  BY <1>1, <1>11, LookingKeepsInv DEF FilterKey
<1>12. CASE UNCHANGED historyVars
  BY <1>2, <1>12 DEF historyVars, health, HistoryTypeOK
<1> QED
  BY <1>3, <1>4, <1>5, <1>6, <1>7, <1>8, <1>9, <1>10, <1>11, <1>12
  DEF HistoryNext, MessageStep, KeyStep

(* Every state of the history satisfies its inductive invariant: the index *)
(* is exact and the cursor is on a visible request.                        *)
THEOREM HistoryInvariant == HistorySpec => []HistoryInv
BY HistoryInitInv, HistoryNextInv, PTL DEF HistorySpec

(* requestWindowStart, for every list, cursor and height.                  *)
LEMMA WindowCovers ==
  ASSUME NEW total \in Nat, NEW s \in Nat, NEW limit \in Nat,
         limit <= total, total > 0 => limit > 0 /\ s < total
  PROVE  LET start == WindowStart(total, s, limit)
         IN  /\ start >= 0 /\ start + limit <= total
             /\ total > 0 => start <= s /\ s < start + limit
<1> DEFINE half == limit \div 2
<1>1. half \in Nat /\ 2 * half <= limit /\ limit <= 2 * half + 1
  OBVIOUS
<1> HIDE DEF half
<1>2. WindowStart(total, s, limit) =
        IF total <= limit \/ limit <= 0 \/ s - half < 0 THEN 0
        ELSE IF s - half > total - limit THEN total - limit
        ELSE s - half
  BY DEF WindowStart, half
<1> QED
  BY <1>1, <1>2

(* The list shows the cursor in a window that is filled, at any height.    *)
THEOREM CursorIsShown == HistorySpec => []WindowShowsCursor
<1>1. HistoryInv => WindowShowsCursor
  <2> SUFFICES ASSUME HistoryInv, NEW height \in 1..MaxRequests
               PROVE  LET total == Cardinality(Visible(requests, filter))
                          limit == IF total < height THEN total ELSE height
                          start == WindowStart(total, selected, limit)
                      IN  /\ start >= 0 /\ start + limit <= total
                          /\ total > 0 => start <= selected /\ selected < start + limit
    BY DEF WindowShowsCursor
  <2> DEFINE total == Cardinality(Visible(requests, filter))
             limit == IF total < height THEN total ELSE height
  <2>1. total \in Nat
    BY VisibleFinite DEF HistoryInv, HistoryTypeOK
  <2>2. selected \in Nat /\ (total > 0 => selected < total)
    BY <2>1 DEF HistoryInv, HistoryTypeOK, CursorOnRow
  <2> HIDE DEF total
  <2>3. limit \in Nat /\ limit <= total /\ (total > 0 => limit > 0)
    BY <2>1, HistoryAssumption
  <2> QED
    BY <2>1, <2>2, <2>3, WindowCovers DEF total
<1> QED
  BY <1>1, HistoryInvariant, PTL

(* What comes in is kept, and rows disappear only when the user clears     *)
(* them or as the oldest of a full history.                                *)
THEOREM OldestFirst == HistorySpec => OldestGoesFirst
<1>1. ASSUME HistoryInv, [HistoryNext]_historyVars,
             NEW p \in 1..Len(requests), requests[p].id \notin DOMAIN index'
      PROVE  ClearHistory \/ (p = Len(requests) /\ p = MaxRequests)
  <2> USE DEF HistoryInv
  <2>1. index' # index
    BY <1>1 DEF IndexExact
  <2>2. CASE EventArrives
    <3>0. PICK id \in Tunneled : \E e \in NextEvents(id) : ApplyEvent(e)
      BY <2>1, <2>2 DEF EventArrives
    <3>1. PICK e \in NextEvents(id) : ApplyEvent(e)
      BY <3>0
    <3> QED
      BY <1>1, <3>1, EventsTyped, ApplyKeepsIndex
  <2>3. ASSUME NEW x \in replays, ReplayDone(x)
        PROVE  p = Len(requests) /\ p = MaxRequests
    <3>1. PICK e \in Results(x.id) : ApplyEvent(e)
      BY <2>1, <2>3 DEF ReplayDone
    <3>2. x.id \in Replay
      BY <1>1, <2>3 DEF HistoryTypeOK
    <3> QED
      BY <1>1, <3>1, <3>2, ResultsTyped, ApplyKeepsIndex
  <2> QED
    BY <1>1, <2>1, <2>2, <2>3
    DEF HistoryNext, MessageStep, KeyStep, ProbeArrives, MoveCursor, Inspect,
        ReplaySelected, StartFilter, FilterKey, historyVars
<1>2. ASSUME HistoryInv, [HistoryNext]_historyVars,
             NEW id \in Tunneled, told'[id] # told[id]
      PROVE  filtering \/ id \in DOMAIN index'
  <2> USE DEF HistoryInv
  <2>1. CASE EventArrives
    <3>1. PICK x \in Tunneled : \E e \in NextEvents(x) :
            /\ told' = [told EXCEPT ![x] = [state |-> e.state, code |-> e.code]]
            /\ ~filtering => ApplyEvent(e)
      BY <2>1 DEF EventArrives
    <3>2. x = id
      BY <1>2, <3>1 DEF HistoryTypeOK, Id
    <3>3. PICK e \in NextEvents(id) : ~filtering => ApplyEvent(e)
      BY <3>1, <3>2
    <3> QED
      BY <1>2, <3>3, EventsTyped, ApplyKeepsIndex
  <2>2. ~ReplaySelected
    BY <1>2, HistoryAssumption DEF ReplaySelected, HistoryTypeOK, Id
  <2> QED
    BY <1>2, <2>1, <2>2
    DEF HistoryNext, MessageStep, KeyStep, ReplayDone, ProbeArrives, MoveCursor, Inspect,
        ClearHistory, StartFilter, FilterKey, historyVars
<1>3. HistoryInv /\ [HistoryNext]_historyVars =>
        [/\ \A p \in 1..Len(requests) :
             requests[p].id \notin DOMAIN index' =>
               ClearHistory \/ (p = Len(requests) /\ p = MaxRequests)
         /\ \A id \in Tunneled :
             told'[id] # told[id] => filtering \/ id \in DOMAIN index']_historyVars
  BY <1>1, <1>2
<1> QED
  BY <1>3, HistoryInvariant, PTL DEF HistorySpec, OldestGoesFirst

-----------------------------------------------------------------------------

(* An event that finds its row leaves every row its place.                 *)
LEMMA UpdateKeepsPlaces ==
  ASSUME HistoryTypeOK, IndexExact, NEW e \in Row, e.id \in DOMAIN index,
         ApplyEvent(e)
  PROVE  /\ Len(requests') = Len(requests)
         /\ \A p \in 1..Len(requests) : requests'[p].id = requests[p].id
<1> DEFINE k == index[e.id]
<1>1. requests \in Seq(Row)
  BY DEF HistoryTypeOK
<1>2. k \in 1..Len(requests) /\ requests[k].id = e.id
  BY DEF IndexExact
<1>3. requests' = [requests EXCEPT ![k] = Merge(requests[k], e)]
  BY DEF ApplyEvent
<1> HIDE DEF k
<1> QED
  BY <1>1, <1>2, <1>3, MergeTyped

(* What is replayed or copied after an event that only updates a row is    *)
(* what was looked at before it.                                           *)
THEOREM CursorKeepsRequest == HistorySpec => UpdateKeepsCursor
<1>1. ASSUME HistoryInv, EventArrives, DOMAIN index' = DOMAIN index,
             Visible(requests', filter') = Visible(requests, filter)
      PROVE  UnderCursor' = UnderCursor
  <2> USE DEF HistoryInv
  <2>1. CASE filtering
    BY <1>1, <2>1 DEF EventArrives, UnderCursor, IsNth, view
  <2>2. CASE ~filtering
    <3>1. PICK id \in Tunneled : \E e \in NextEvents(id) :
            /\ ApplyEvent(e)
            /\ selected' = Clamp(selected, Visible(requests', filter))
      BY <1>1, <2>2 DEF EventArrives
    <3>2. PICK e \in NextEvents(id) :
            /\ ApplyEvent(e)
            /\ selected' = Clamp(selected, Visible(requests', filter))
      BY <3>1
    <3>3. e \in Row
      BY <1>1, EventsTyped
    <3>4. e.id \in DOMAIN index
      BY <1>1, <3>2, <3>3, ApplyKeepsIndex
    <3>5. /\ Len(requests') = Len(requests)
          /\ \A p \in 1..Len(requests) : requests'[p].id = requests[p].id
      BY <1>1, <3>2, <3>3, <3>4, UpdateKeepsPlaces
    <3> DEFINE visible == Visible(requests, filter)
    <3>6. filter' = filter /\ Visible(requests', filter') = visible
      BY <1>1 DEF EventArrives, view
    <3>7. Cardinality(visible) \in Nat /\ (visible = {} <=> Cardinality(visible) = 0)
      BY <1>1, VisibleFinite DEF HistoryTypeOK
    <3>8. selected' = selected
      BY <1>1, <3>2, <3>6, <3>7 DEF Clamp, CursorOnRow, HistoryTypeOK
    <3> HIDE DEF visible
    <3>9. UnderCursor = {requests[p].id : p \in
            {q \in 1..Len(requests) : IsNth(q, visible, selected)}}
      BY DEF UnderCursor, visible
    <3>10. UnderCursor' = {requests'[p].id : p \in
             {q \in 1..Len(requests) : IsNth(q, visible, selected)}}
      BY <3>5, <3>6, <3>8 DEF UnderCursor, IsNth
    <3> QED
      BY <3>5, <3>9, <3>10
  <2> QED
    BY <2>1, <2>2
<1>2. HistoryInv /\ [HistoryNext]_historyVars =>
        [EventArrives /\ DOMAIN index' = DOMAIN index
           /\ Visible(requests', filter') = Visible(requests, filter)
         => UnderCursor' = UnderCursor]_historyVars
  BY <1>1
<1> QED
  BY <1>2, HistoryInvariant, PTL DEF HistorySpec, UpdateKeepsCursor

(* Visible rows have places, and no two have the same.                     *)
LEMMA PlacesDiffer ==
  ASSUME NEW rows \in Seq(Row), NEW f, NEW a \in Visible(rows, f)
  PROVE  LET visible == Visible(rows, f)
         IN  /\ \E n \in 0..Cardinality(visible) - 1 : IsNth(a, visible, n)
             /\ \A n, b : IsNth(a, visible, n) /\ IsNth(b, visible, n) => a = b
<1> DEFINE visible == Visible(rows, f)
           Before(p) == {q \in visible : q < p}
<1>1. IsFiniteSet(visible) /\ Cardinality(visible) \in Nat /\ visible \subseteq Int
  <2>1. visible \subseteq 1..Len(rows)
    BY DEF Visible
  <2>2. Len(rows) \in Nat
    OBVIOUS
  <2>3. IsFiniteSet(visible) /\ Cardinality(visible) \in Nat
    BY VisibleFinite
  <2> HIDE DEF visible
  <2> QED
    BY <2>1, <2>2, <2>3
<1> HIDE DEF visible
<1>2. ASSUME NEW p \in visible, NEW S \in SUBSET visible, Before(p) \subseteq S, p \in S
      PROVE  /\ Cardinality(Before(p)) \in Nat
             /\ Cardinality(S) \in Nat
             /\ Cardinality(Before(p)) < Cardinality(S)
  <2>1. IsFiniteSet(S) /\ IsFiniteSet(Before(p))
    BY <1>1, FS_Subset
  <2>2. p \notin Before(p)
    BY <1>1
  <2>3. Cardinality(S) \in Nat /\ Cardinality(Before(p)) \in Nat
    BY <2>1, FS_CardinalityType
  <2>4. /\ Cardinality(Before(p)) <= Cardinality(S)
        /\ Cardinality(S) = Cardinality(Before(p)) => S = Before(p)
    BY <1>2, <2>1, FS_Subset
  <2> QED
    BY <1>2, <2>2, <2>3, <2>4
<1>3. a \in visible
  BY DEF visible
<1>4. \E n \in 0..Cardinality(visible) - 1 : IsNth(a, visible, n)
  <2>1. Cardinality(Before(a)) \in 0..Cardinality(visible) - 1
    BY <1>1, <1>2, <1>3
  <2> QED
    BY <1>3, <2>1 DEF IsNth
<1>5. ASSUME NEW n, NEW b, IsNth(a, visible, n), IsNth(b, visible, n)
      PROVE  a = b
  <2>1. b \in visible /\ Cardinality(Before(a)) = Cardinality(Before(b))
    BY <1>5 DEF IsNth
  <2>2. ASSUME NEW x \in visible, NEW y \in visible, x < y
        PROVE  Cardinality(Before(x)) # Cardinality(Before(y))
    <3>0. \A q \in visible : q < x => q < y
      BY <1>1, <2>2
    <3>1. Before(y) \in SUBSET visible /\ Before(x) \subseteq Before(y) /\ x \in Before(y)
      BY <2>2, <3>0
    <3>2. /\ Cardinality(Before(x)) \in Nat /\ Cardinality(Before(y)) \in Nat
          /\ Cardinality(Before(x)) < Cardinality(Before(y))
      BY <1>2, <3>1
    <3> QED
      BY <3>2
  <2>3. a < b \/ b < a \/ a = b
    BY <1>1, <1>3, <2>1
  <2> QED
    BY <1>3, <2>1, <2>2, <2>3
<1> QED
  BY <1>4, <1>5 DEF visible

(* However many rows have come in since, the cursor returns to the request *)
(* that was replayed, and to no other.                                     *)
THEOREM CursorReturnsToSource == HistorySpec => ReplayReturns
<1>1. ASSUME HistoryInv, NEW x \in replays, ReplayDone(x), ~filtering,
             \E p \in Visible(requests', filter) : requests'[p].id = x.source
      PROVE  UnderCursor' = {x.source}
  <2> USE DEF HistoryInv
  <2> DEFINE visible == Visible(requests', filter)
             places  == {n \in 0..Cardinality(visible) - 1 : \E p \in visible :
                           IsNth(p, visible, n) /\ requests'[p].id = x.source}
  <2>1. requests' \in Seq(Row)
    <3>1. PICK e \in Results(x.id) : ApplyEvent(e)
      BY <1>1 DEF ReplayDone
    <3>2. e \in Row
      BY <1>1, ResultsTyped DEF HistoryTypeOK
    <3> QED
      BY <1>1, <3>1, <3>2, ApplyKeepsIndex
  <2>2. filter' = filter
    BY <1>1 DEF ReplayDone, view
  <2>3. places # {}
    BY <1>1, <2>1, PlacesDiffer
  <2>4. selected' \in places
    BY <1>1, <2>3 DEF ReplayDone, ReturnToSource
  <2>5. PICK p \in visible :
          IsNth(p, visible, selected') /\ requests'[p].id = x.source
    BY <2>4
  <2>6. \A q : IsNth(q, visible, selected') <=> q = p
    BY <2>1, <2>5, PlacesDiffer
  <2>7. visible \subseteq 1..Len(requests')
    BY DEF Visible
  <2> HIDE DEF visible
  <2>8. {q \in 1..Len(requests') : IsNth(q, visible, selected')} = {p}
    BY <2>5, <2>6, <2>7
  <2>9. UnderCursor' = {requests'[q].id : q \in
          {q \in 1..Len(requests') : IsNth(q, visible, selected')}}
    BY <2>2 DEF UnderCursor, IsNth, visible
  <2> QED
    BY <2>5, <2>8, <2>9
<1>2. HistoryInv /\ [HistoryNext]_historyVars =>
        [\A x \in replays :
           ReplayDone(x) /\ ~filtering
             /\ (\E p \in Visible(requests', filter) : requests'[p].id = x.source)
           => UnderCursor' = {x.source}]_historyVars
  BY <1>1
<1> QED
  BY <1>2, HistoryInvariant, PTL DEF HistorySpec, ReplayReturns
=============================================================================
