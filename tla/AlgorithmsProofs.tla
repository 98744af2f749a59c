-------------------------- MODULE AlgorithmsProofs --------------------------
(***************************************************************************)
(* Proofs about the two modules that compute something: the delay between  *)
(* a client's attempts, for every width and configuration; which token of  *)
(* an id counts and where an advertised URL leads, for any domains, tokens *)
(* and spellings.                                                          *)
(***************************************************************************)
EXTENDS Backoff, Routing, SequenceTheorems, WellFoundedInduction, TLAPS

-----------------------------------------------------------------------------
(* How long the run loop sleeps between two attempts: within its bounds,   *)
(* for every width of the integers, every configuration and any number of  *)
(* attempts.                                                               *)

LEMMA BackoffInitInv == BackoffInit => BackoffInv
BY BackoffAssumption DEF BackoffInit, BackoffInv, OrDefault, DelayBounded

(* Doubling a delay below half of the maximum stays below the maximum, so  *)
(* that it does not wrap round.                                            *)
LEMMA TwiceBelow ==
  ASSUME NEW d \in Nat, NEW m \in 1..Top, d < m \div 2
  PROVE  Twice(d) = 2 * d /\ 2 * d < m
<1>1. 2 * (m \div 2) <= m
  OBVIOUS
<1>2. 2 * d < m
  BY <1>1
<1> QED
  BY <1>2, BackoffAssumption DEF Twice

LEMMA BackoffNextInv ==
  ASSUME BackoffInv, [BackoffNext]_backoffVars
  PROVE  BackoffInv'
<1> USE DEF BackoffInv, settings, DelayBounded, Least
<1>1. ASSUME NEW had \in BOOLEAN, SessionFailed(had) PROVE BackoffInv'
  BY <1>1, BackoffAssumption DEF SessionFailed
<1>2. CASE Double
  <2>1. CASE delay >= maxDelay \div 2
    BY <1>2, <2>1, BackoffAssumption DEF Double
  <2>2. CASE ~(delay >= maxDelay \div 2)
    <3>1. delay < maxDelay \div 2
      BY <2>2
    <3>2. Twice(delay) = 2 * delay /\ 2 * delay < maxDelay
      BY <3>1, TwiceBelow
    <3> QED
      BY <1>2, <2>2, <3>2, BackoffAssumption DEF Double
  <2> QED
    BY <2>1, <2>2
<1>3. CASE Done
  BY <1>3, BackoffAssumption DEF Done
<1>4. CASE Awake
  BY <1>4 DEF Awake
<1>5. CASE UNCHANGED backoffVars
  BY <1>5 DEF backoffVars
<1> QED
  BY <1>1, <1>2, <1>3, <1>4, <1>5 DEF BackoffNext

(* The delay is never outside its bounds, in particular never negative.    *)
THEOREM BackoffInvariant == BackoffSpec => []BackoffInv
BY BackoffInitInv, BackoffNextInv, PTL DEF BackoffSpec

(* What Run sleeps is between the initial delay and the maximum.           *)
THEOREM DelayStaysBounded == BackoffSpec => []DelayBounded
<1>1. BackoffInv => DelayBounded
  BY DEF BackoffInv
<1> QED
  BY <1>1, BackoffInvariant, PTL

-----------------------------------------------------------------------------
(* Routing: the last spec of an id decides about it.                       *)

(* A set of positions that is not empty has a last one.                    *)
LEMMA MaxExists ==
  ASSUME NEW n \in Nat, NEW S \in SUBSET (1..n), S # {}
  PROVE  Max(S) \in S /\ \A y \in S : Max(S) >= y
<1> DEFINE Below == {n - x : x \in S}
           Less == {ss \in Nat \X Nat : ss[1] < ss[2]}
<1>1. IsWellFoundedOn(Less, Nat)
  BY NatLessThanWellFounded DEF OpToRel
<1>2. Below \subseteq Nat /\ Below # {}
  <2>1. \A x \in S : n - x \in Nat
    OBVIOUS
  <2>2. PICK x \in S : TRUE
    OBVIOUS
  <2>3. n - x \in Below
    OBVIOUS
  <2> QED
    BY <2>1, <2>3
<1>3. PICK b \in Below : \A d \in Below : ~(<<d, b>> \in Less)
  <2> HIDE DEF Below, Less
  <2> QED
    BY <1>1, <1>2, WFMin
<1>4. PICK m \in S : b = n - m
  OBVIOUS
<1>5. \A y \in S : m >= y
  <2> SUFFICES ASSUME NEW y \in S PROVE m >= y
    OBVIOUS
  <2>1. n - y \in Below /\ n - y \in Nat /\ b \in Nat
    BY <1>2
  <2>2. ~(n - y < b)
    BY <1>3, <2>1
  <2> QED
    BY <1>4, <2>2
<1> QED
  BY <1>5 DEF Max

LEMMA MaxUnique ==
  ASSUME NEW S \in SUBSET Int, NEW m \in S, \A y \in S : m >= y
  PROVE  Max(S) = m
<1>1. \A x \in S : (\A y \in S : x >= y) => x = m
  OBVIOUS
<1> QED
  BY <1>1 DEF Max

(* A map that is filled from a list holds the last entry of each id.       *)
LEMMA MapHoldsLast ==
  ASSUME NEW E, NEW list \in Seq(E), NEW id,
         NEW places \in SUBSET (1..Len(list)),
         \A k \in 1..Len(list) : k \in places <=> list[k].id = id
  PROVE  /\ id \in DOMAIN TokenMap(list) <=> places # {}
         /\ places # {} => TokenMap(list)[id] = list[Max(places)]
<1>1. DOMAIN list = 1..Len(list)
  BY LenProperties
<1> DEFINE Ids == {list[k].id : k \in 1..Len(list)}
<1>2. TokenMap(list) = [j \in Ids |-> list[Max({k \in 1..Len(list) : list[k].id = j})]]
  BY <1>1 DEF TokenMap
<1>3. places = {k \in 1..Len(list) : list[k].id = id}
  OBVIOUS
<1>4. id \in Ids <=> places # {}
  OBVIOUS
<1>5. places # {} => TokenMap(list)[id] = list[Max(places)]
  BY <1>2, <1>4, <1>3
<1>6. DOMAIN TokenMap(list) = Ids
  BY <1>2
<1> QED
  BY <1>4, <1>5, <1>6
(* The inductive invariant: the daemon serves what it was told to.         *)
RoutingInv ==
  /\ flags \in Flags
  /\ phase = "serving" =>
       /\ \A k \in DOMAIN flags.specs : SpecOK(flags.specs[k])
       /\ tokens = NormalizeTokens(flags.token, ParseTokenSpecs(flags.specs))

LEMMA RoutingInvariant == RoutingSpec => []RoutingInv
<1>1. RoutingInit => RoutingInv
  BY DEF RoutingInit, RoutingInv
<1>2. RoutingInv /\ [RoutingNext]_routingVars => RoutingInv'
  BY DEF RoutingInv, RoutingNext, Start, Fatal, routingVars
<1> QED
  BY <1>1, <1>2, PTL DEF RoutingSpec

(* Where the specs end up in the list that fills the map.                  *)
LEMMA ListOfTokens ==
  ASSUME NEW specs \in Seq(TokenSpec), NEW shared \in TokenValue \cup {NoValue}
  PROVE  LET first == SharedToken(shared)
             list  == first \o ParseTokenSpecs(specs)
             o     == Len(first)
         IN  /\ list \in Seq([id : TokenId, value : TokenValue \cup {NoValue}, active : BOOLEAN])
             /\ o = (IF shared = NoValue THEN 0 ELSE 1)
             /\ Len(list) = o + Len(specs)
             /\ o = 1 => /\ list[1].id = DefaultId
                         /\ list[1].value = shared
                         /\ list[1].active
             /\ \A k \in 1..Len(specs) :
                  /\ list[o + k].id = specs[k].id
                  /\ list[o + k].value = specs[k].value
                  /\ list[o + k].active <=> specs[k].status # ":inactive"
<1> DEFINE Token == [id : TokenId, value : TokenValue \cup {NoValue}, active : BOOLEAN]
           first == SharedToken(shared)
           rest == ParseTokenSpecs(specs)
           Parsed(k) == [id |-> specs[k].id, value |-> specs[k].value,
                         active |-> specs[k].status # ":inactive"]
<1>1. /\ first \in Seq(Token)
      /\ Len(first) = IF shared = NoValue THEN 0 ELSE 1
      /\ Len(first) = 1 => first[1] = [id |-> DefaultId, value |-> shared, active |-> TRUE]
  <2>1. CASE shared = NoValue
    <3>1. first = <<>>
      BY <2>1 DEF SharedToken
    <3> QED
      BY <2>1, <3>1, EmptySeq
  <2>2. CASE shared # NoValue
    <3> DEFINE one == [id |-> DefaultId, value |-> shared, active |-> TRUE]
    <3>1. first = <<one>>
      BY <2>2 DEF SharedToken
    <3>2. one \in Token
      BY RoutingAssumption
    <3> HIDE DEF one, Token, first
    <3>3. first \in Seq(Token) /\ Len(first) = 1 /\ first[1] = one
      BY <3>1, <3>2
    <3> QED
      BY <2>2, <3>3 DEF one
  <2> QED
    BY <2>1, <2>2
<1>2. /\ rest \in Seq(Token) /\ Len(rest) = Len(specs)
      /\ \A k \in 1..Len(specs) : rest[k] = Parsed(k)
  <2>1. Len(specs) \in Nat /\ DOMAIN specs = 1..Len(specs)
    BY LenProperties
  <2>2. \A k \in 1..Len(specs) : Parsed(k) \in Token
    <3> SUFFICES ASSUME NEW k \in 1..Len(specs) PROVE Parsed(k) \in Token
      OBVIOUS
    <3>1. specs[k] \in TokenSpec
      BY ElementOfSeq
    <3> QED
      BY <3>1 DEF TokenSpec
  <2>3. rest = [k \in 1..Len(specs) |-> Parsed(k)]
    BY <2>1 DEF ParseTokenSpecs
  <2> HIDE DEF Parsed, Token, rest
  <2>4. rest \in [1..Len(specs) -> Token]
    BY <2>2, <2>3
  <2>5. rest \in Seq(Token) /\ Len(rest) = Len(specs)
    BY <2>1, <2>4
  <2> QED
    BY <2>3, <2>5
<1>3. \A k \in 1..Len(specs) :
         /\ Parsed(k).id = specs[k].id
         /\ Parsed(k).value = specs[k].value
         /\ Parsed(k).active <=> specs[k].status # ":inactive"
  OBVIOUS
<1>4. Len(first) = 1 => first[1].id = DefaultId /\ first[1].value = shared /\ first[1].active
  BY <1>1
<1> HIDE DEF first, rest, Token, Parsed
<1>5. /\ first \o rest \in Seq(Token)
      /\ Len(first \o rest) = Len(first) + Len(rest)
      /\ \A j \in 1 .. Len(first) + Len(rest) :
           (first \o rest)[j] = IF j <= Len(first) THEN first[j] ELSE rest[j - Len(first)]
  <2>1. first \in Seq(Token) /\ rest \in Seq(Token)
    BY <1>1, <1>2
  <2> QED
    BY <2>1, ConcatProperties
<1>6. Len(first) \in 0..1 /\ Len(rest) \in Nat
  BY <1>1, <1>2, LenProperties
<1>7. \A k \in 1..Len(rest) : (first \o rest)[Len(first) + k] = rest[k]
  BY <1>5, <1>6
<1>8. Len(first) = 1 => (first \o rest)[1] = first[1]
  BY <1>5, <1>6
<1> QED
  <2> DEFINE o == Len(first)
             list == first \o rest
  <2>1. o = IF shared = NoValue THEN 0 ELSE 1
    BY <1>1
  <2>2. /\ list \in Seq(Token) /\ Len(list) = o + Len(specs)
        /\ o = 1 => list[1].id = DefaultId /\ list[1].value = shared /\ list[1].active
    BY <1>2, <1>5, <1>8, <1>4
  <2>3. \A k \in 1..Len(specs) : list[o + k] = Parsed(k)
    BY <1>2, <1>7
  <2>4. \A k \in 1..Len(specs) :
          /\ list[o + k].id = specs[k].id
          /\ list[o + k].value = specs[k].value
          /\ list[o + k].active <=> specs[k].status # ":inactive"
    BY <1>3, <2>3
  <2> QED
    BY <2>1, <2>2, <2>4 DEF first, rest, Token

(* A token spec of an id decides about it when it is the last of that id,  *)
(* and the shared token about its own id when no spec has that one.        *)
LEMMA WhoDecides ==
  ASSUME NEW specs \in Seq(TokenSpec), NEW shared \in TokenValue \cup {NoValue},
         NEW id,
         NEW mine \in SUBSET (1..Len(specs)),
         \A k \in 1..Len(specs) : k \in mine <=> specs[k].id = id,
         NEW map, map = NormalizeTokens(shared, ParseTokenSpecs(specs))
  PROVE  /\ mine = {} =>
              /\ id \in DOMAIN map <=> id = DefaultId /\ shared # NoValue
              /\ id \in DOMAIN map => map[id].active /\ map[id].value = shared
         /\ mine # {} =>
              /\ id \in DOMAIN map
              /\ map[id].value = specs[Max(mine)].value
              /\ map[id].active <=> specs[Max(mine)].status # ":inactive"
<1> DEFINE Token == [id : TokenId, value : TokenValue \cup {NoValue}, active : BOOLEAN]
           first == SharedToken(shared)
           list == first \o ParseTokenSpecs(specs)
           o == Len(first)
           places == {j \in 1..Len(list) : list[j].id = id}
<1>1. /\ list \in Seq(Token)
      /\ o = (IF shared = NoValue THEN 0 ELSE 1)
      /\ Len(list) = o + Len(specs)
      /\ o = 1 => list[1].id = DefaultId /\ list[1].value = shared /\ list[1].active
      /\ \A k \in 1..Len(specs) :
           /\ list[o + k].id = specs[k].id
           /\ list[o + k].value = specs[k].value
           /\ list[o + k].active <=> specs[k].status # ":inactive"
  BY ListOfTokens
<1>2. Len(specs) \in Nat /\ o \in 0..1
  BY <1>1, LenProperties
<1>3. map = TokenMap(list)
  BY DEF NormalizeTokens
<1> HIDE DEF Token, first, list, o
<1>4. \A k \in 1..Len(specs) :
         /\ o + k \in 1..Len(list)
         /\ list[o + k].id = specs[k].id
         /\ list[o + k].value = specs[k].value
         /\ list[o + k].active <=> specs[k].status # ":inactive"
  <2>1. \A k \in 1..Len(specs) : o + k \in 1..o + Len(specs)
    BY <1>2
  <2> QED
    BY <1>1, <2>1
<1>5. /\ id \in DOMAIN map <=> places # {}
      /\ places # {} => map[id] = list[Max(places)]
  <2>1. /\ places \in SUBSET (1..Len(list))
        /\ \A j \in 1..Len(list) : j \in places <=> list[j].id = id
    OBVIOUS
  <2>2. list \in Seq(Token)
    BY <1>1
  <2> HIDE DEF places
  <2>3. /\ id \in DOMAIN TokenMap(list) <=> places # {}
        /\ places # {} => TokenMap(list)[id] = list[Max(places)]
    BY <2>1, <2>2, MapHoldsLast
  <2> QED
    BY <1>3, <2>3
<1>6. \A j \in 1..Len(list) : (j = 1 /\ o = 1) \/ (j - o \in 1..Len(specs) /\ j = o + (j - o))
  BY <1>1, <1>2
<1>7. CASE mine = {}
  <2>1. \A j \in places : j = 1 /\ o = 1 /\ id = DefaultId
    <3> SUFFICES ASSUME NEW j \in places PROVE j = 1 /\ o = 1 /\ id = DefaultId
      OBVIOUS
    <3>1. ~(j - o \in 1..Len(specs) /\ j = o + (j - o))
      <4> SUFFICES ASSUME j - o \in 1..Len(specs), j = o + (j - o) PROVE FALSE
        OBVIOUS
      <4> DEFINE k == j - o
      <4>1. k \in 1..Len(specs) /\ list[o + k].id = id
        OBVIOUS
      <4> HIDE DEF k
      <4>2. specs[k].id = id
        BY <1>4, <4>1
      <4> QED
        BY <1>7, <4>1, <4>2
    <3>2. j = 1 /\ o = 1
      BY <1>6, <3>1
    <3> QED
      BY <1>1, <3>2
  <2>2. o = 1 /\ id = DefaultId => 1 \in places
    BY <1>1, <1>2
  <2>3. CASE o = 1 /\ id = DefaultId
    <3>1. places = {1}
      BY <2>1, <2>2, <2>3
    <3>2. Max(places) = 1
      <4> HIDE DEF places
      <4>1. places \in SUBSET Int /\ 1 \in places /\ \A y \in places : 1 >= y
        BY <3>1
      <4> QED
        BY <4>1, MaxUnique
    <3> QED
      BY <1>1, <1>5, <1>7, <2>3, <3>1, <3>2
  <2>4. CASE ~(o = 1 /\ id = DefaultId)
    <3>1. places = {}
      BY <2>1, <2>4
    <3> QED
      BY <1>1, <1>5, <1>7, <2>4, <3>1
  <2> QED
    BY <2>3, <2>4
<1>8. CASE mine # {}
  <2> DEFINE m == Max(mine)
  <2>1. m \in mine /\ \A k \in mine : m >= k
    BY <1>2, <1>8, MaxExists
  <2>2. m \in 1..Len(specs) /\ specs[m].id = id
    BY <2>1
  <2> HIDE DEF m
  <2>3. o + m \in places
    BY <1>4, <2>2
  <2>4. \A j \in places : o + m >= j
    <3> SUFFICES ASSUME NEW j \in places PROVE o + m >= j
      OBVIOUS
    <3>1. CASE j = 1 /\ o = 1
      BY <2>2, <3>1
    <3>2. CASE j - o \in 1..Len(specs) /\ j = o + (j - o)
      <4> DEFINE k == j - o
      <4>1. k \in 1..Len(specs) /\ list[o + k].id = id
        BY <3>2
      <4>2. k \in mine
        <5> HIDE DEF k
        <5> QED
          BY <1>4, <4>1
      <4>3. m >= k
        BY <2>1, <4>2
      <4> QED
        BY <1>2, <2>2, <4>3
    <3> QED
      BY <1>6, <3>1, <3>2
  <2>5. places \in SUBSET Int
    OBVIOUS
  <2>6. Max(places) = o + m
    <3> HIDE DEF places
    <3> QED
      BY <2>3, <2>4, <2>5, MaxUnique
  <2>7. id \in DOMAIN map /\ map[id] = list[o + m]
    BY <1>5, <2>3, <2>6
  <2>8. /\ map[id].value = specs[m].value
        /\ map[id].active <=> specs[m].status # ":inactive"
    BY <1>4, <2>2, <2>7
  <2> QED
    BY <1>8, <2>2, <2>7, <2>8 DEF m
<1> QED
  BY <1>7, <1>8

(* The last spec of an id decides about it: a client is let in with exactly *)
(* the value of the last spec of its id in --tokens, never when that spec   *)
(* is inactive, and with --token only for an id that no spec names          *)
(* (internal/server, normalizeTokens and authenticateResponse).             *)
THEOREM LastSpecAlwaysDecides == RoutingSpec => []LastSpecDecides
<1>1. RoutingInv => LastSpecDecides
  <2> SUFFICES ASSUME RoutingInv, phase = "serving",
                      NEW id \in TokenId, NEW value \in TokenValue
               PROVE  LET mine == {k \in DOMAIN flags.specs : flags.specs[k].id = id}
                      IN  Accepts(id, value) <=>
                            IF mine = {} THEN id = DefaultId /\ flags.token = value
                            ELSE /\ flags.specs[Max(mine)].value = value
                                 /\ flags.specs[Max(mine)].status # ":inactive"
    BY DEF LastSpecDecides
  <2> DEFINE specs == flags.specs
             shared == flags.token
             mine == {k \in 1..Len(specs) : specs[k].id = id}
  <2>1. specs \in Seq(TokenSpec) /\ shared \in TokenValue \cup {NoValue}
    <3>1. specs \in BoundedSeq(TokenSpec, MaxSpecs) /\ shared \in TokenValue \cup {NoValue}
      BY DEF RoutingInv, Flags
    <3>2. PICK n \in 0..MaxSpecs : specs \in [1..n -> TokenSpec]
      BY <3>1 DEF BoundedSeq, SeqOf
    <3>3. n \in Nat
      BY <3>2, RoutingAssumption
    <3> HIDE DEF specs, shared
    <3> QED
      BY <3>1, <3>2, <3>3
  <2>2. tokens = NormalizeTokens(shared, ParseTokenSpecs(specs))
    BY DEF RoutingInv
  <2> HIDE DEF specs, shared
  <2>3. DOMAIN specs = 1..Len(specs)
    BY <2>1, LenProperties
  <2>4. /\ mine = {} =>
             /\ id \in DOMAIN tokens <=> id = DefaultId /\ shared # NoValue
             /\ id \in DOMAIN tokens => tokens[id].active /\ tokens[id].value = shared
        /\ mine # {} =>
             /\ id \in DOMAIN tokens
             /\ tokens[id].value = specs[Max(mine)].value
             /\ tokens[id].active <=> specs[Max(mine)].status # ":inactive"
    <3>1. /\ mine \in SUBSET (1..Len(specs))
          /\ \A k \in 1..Len(specs) : k \in mine <=> specs[k].id = id
      OBVIOUS
    <3> HIDE DEF mine
    <3> QED
      BY <2>1, <2>2, <3>1, WhoDecides
  <2>5. CASE mine = {}
    <3>1. /\ id \in DOMAIN tokens <=> id = DefaultId /\ shared # NoValue
          /\ id \in DOMAIN tokens => tokens[id].active /\ tokens[id].value = shared
      BY <2>5, <2>4
    <3>2. Accepts(id, value) <=> id = DefaultId /\ shared = value
      BY <3>1, RoutingAssumption DEF Accepts
    <3> QED
      BY <2>3, <2>5, <3>2 DEF specs, shared
  <2>6. CASE mine # {}
    <3>1. /\ id \in DOMAIN tokens
          /\ tokens[id].value = specs[Max(mine)].value
          /\ tokens[id].active <=> specs[Max(mine)].status # ":inactive"
      BY <2>6, <2>4
    <3>2. Accepts(id, value) <=> /\ specs[Max(mine)].value = value
                                 /\ specs[Max(mine)].status # ":inactive"
      BY <3>1 DEF Accepts
    <3> QED
      BY <2>3, <2>6, <3>2 DEF specs, shared
  <2> QED
    BY <2>5, <2>6
<1> QED
  BY <1>1, RoutingInvariant, PTL

-----------------------------------------------------------------------------
(* Routing: the host that a client advertises leads to its tunnel.         *)

LEMMA MinUnique ==
  ASSUME NEW S \in SUBSET Int, NEW m \in S, \A y \in S : m =< y
  PROVE  Min(S) = m
<1>1. \A x \in S : (\A y \in S : x =< y) => x = m
  OBVIOUS
<1> QED
  BY <1>1 DEF Min

LEMMA LoweredName ==
  ASSUME NEW n \in Seq(Label)
  PROVE  /\ Lowered(n) \in Seq(Label)
         /\ Len(Lowered(n)) = Len(n)
         /\ \A j \in 1..Len(n) :
              /\ Lowered(n)[j] = Lower[n[j]]
              /\ Lowered(n)[j] = Empty <=> n[j] = Empty
<1>1. Len(n) \in Nat /\ DOMAIN n = 1..Len(n) /\ n \in [1..Len(n) -> Label]
  BY LenProperties
<1>2. Lowered(n) = [j \in 1..Len(n) |-> Lower[n[j]]]
  BY <1>1 DEF Lowered
<1>3. \A j \in 1..Len(n) : n[j] \in Label /\ Lower[n[j]] \in Label
                           /\ (Lower[n[j]] = Empty <=> n[j] = Empty)
  BY <1>1, RoutingAssumption
<1>4. Lowered(n) \in [1..Len(n) -> Label]
  BY <1>2, <1>3
<1> QED
  BY <1>1, <1>2, <1>3, <1>4

(* What TrimPrefix and TrimSuffix leave of a name is a part of it, and what *)
(* they take is empty labels.                                               *)
LEMMA TrimmedPart ==
  ASSUME NEW n \in Seq(Label), n # <<>>
  PROVE  LET t == TrimSuffix(TrimPrefix(n))
         IN  /\ t \in Seq(Label) /\ Len(t) > 0
             /\ \E x, y \in 0..1 :
                  /\ Len(n) = x + Len(t) + y
                  /\ x = 1 => n[1] = Empty
                  /\ y = 1 => n[Len(n)] = Empty
                  /\ \A j \in 1..Len(t) : t[j] = n[x + j]
<1> DEFINE p == TrimPrefix(n)
           t == TrimSuffix(p)
<1>1. Len(n) \in Nat \ {0}
  BY EmptySeq
<1>2. PICK x \in 0..1 : /\ p \in Seq(Label) /\ Len(p) > 0 /\ Len(n) = x + Len(p)
                        /\ x = 1 => n[1] = Empty
                        /\ \A j \in 1..Len(p) : p[j] = n[x + j]
  <2>1. CASE Len(n) > 1 /\ Head(n) = Empty
    <3>1. p = Tail(n)
      BY <2>1 DEF TrimPrefix
    <3>2. /\ p \in Seq(Label) /\ Len(p) = Len(n) - 1
          /\ \A j \in 1..Len(p) : p[j] = n[j + 1]
      BY <3>1, HeadTailProperties
    <3>3. n[1] = Empty
      BY <2>1
    <3> HIDE DEF p
    <3>4. \A j \in 1..Len(p) : p[j] = n[1 + j]
      BY <1>1, <3>2
    <3>5. Len(p) > 0 /\ Len(n) = 1 + Len(p)
      BY <1>1, <2>1, <3>2
    <3> QED
      BY <3>2, <3>3, <3>4, <3>5
  <2>2. CASE ~(Len(n) > 1 /\ Head(n) = Empty)
    <3>1. p = n
      BY <2>2 DEF TrimPrefix
    <3>2. \A j \in 1..Len(p) : p[j] = n[0 + j]
      BY <3>1
    <3>3. p \in Seq(Label) /\ Len(p) > 0 /\ Len(n) = 0 + Len(p)
      BY <1>1, <3>1
    <3> HIDE DEF p
    <3> WITNESS 0 \in 0..1
    <3> QED
      BY <3>2, <3>3
  <2> QED
    BY <2>1, <2>2
<1> HIDE DEF p
<1>3. Len(p) \in Nat
  BY <1>2, LenProperties
<1>4. PICK y \in 0..1 : /\ t \in Seq(Label) /\ Len(t) > 0 /\ Len(p) = Len(t) + y
                        /\ y = 1 => p[Len(p)] = Empty
                        /\ \A j \in 1..Len(t) : t[j] = p[j]
  <2>1. CASE Len(p) > 1 /\ Last(p) = Empty
    <3>1. t = SubSeq(p, 1, Len(p) - 1)
      BY <2>1 DEF TrimSuffix, Front
    <3>2. \A j \in 1..(Len(p) - 1) : p[j] \in Label
      BY <1>2, <1>3, ElementOfSeq
    <3>3. /\ t \in Seq(Label) /\ Len(t) = Len(p) - 1
          /\ \A j \in 1..Len(t) : t[j] = p[j]
      BY <1>2, <1>3, <2>1, <3>1, <3>2
    <3>4. p[Len(p)] = Empty
      BY <2>1 DEF Last
    <3> HIDE DEF t
    <3>5. Len(t) > 0 /\ Len(p) = Len(t) + 1
      BY <1>3, <2>1, <3>3
    <3> QED
      BY <3>3, <3>4, <3>5
  <2>2. CASE ~(Len(p) > 1 /\ Last(p) = Empty)
    <3>1. t = p
      BY <2>2 DEF TrimSuffix
    <3>2. /\ t \in Seq(Label) /\ Len(t) > 0 /\ Len(p) = Len(t) + 0
          /\ \A j \in 1..Len(t) : t[j] = p[j]
      BY <1>2, <1>3, <3>1
    <3> HIDE DEF t
    <3> WITNESS 0 \in 0..1
    <3> QED
      BY <3>2
  <2> QED
    BY <2>1, <2>2
<1> HIDE DEF t
<1>5. Len(n) = x + Len(t) + y
  BY <1>1, <1>2, <1>3, <1>4
<1>6. y = 1 => n[Len(n)] = Empty
  <2> SUFFICES ASSUME y = 1 PROVE n[Len(n)] = Empty
    OBVIOUS
  <2>1. Len(p) \in 1..Len(p) /\ p[Len(p)] = Empty
    BY <1>2, <1>3, <1>4
  <2>2. p[Len(p)] = n[x + Len(p)]
    BY <1>2, <2>1
  <2> QED
    BY <1>2, <2>1, <2>2
<1>7. \A j \in 1..Len(t) : t[j] = n[x + j]
  <2> SUFFICES ASSUME NEW j \in 1..Len(t) PROVE t[j] = n[x + j]
    OBVIOUS
  <2>1. Len(t) \in Nat
    BY <1>4, LenProperties
  <2>2. j \in 1..Len(p)
    BY <1>3, <1>4, <2>1
  <2> QED
    BY <1>2, <1>4, <2>2
<1> QED
  BY <1>2, <1>4, <1>5, <1>6, <1>7 DEF p, t

(* A name whose first and last labels are full, in a longer one that adds  *)
(* at most one empty label at each end, is what is left of the longer one. *)
LEMMA TrimToFull ==
  ASSUME NEW n \in Seq(Label), NEW f \in Seq(Label), Len(f) > 0,
         f[1] # Empty, f[Len(f)] # Empty,
         NEW x \in 0..1, NEW y \in 0..1, Len(n) = x + Len(f) + y,
         x = 1 => n[1] = Empty, y = 1 => n[Len(n)] = Empty,
         \A j \in 1..Len(f) : n[x + j] = f[j]
  PROVE  TrimSuffix(TrimPrefix(n)) = f
<1> DEFINE t == TrimSuffix(TrimPrefix(n))
<1>1. Len(n) \in Nat \ {0} /\ Len(f) \in Nat \ {0}
  BY LenProperties
<1>2. n # <<>>
  BY <1>1, EmptySeq
<1>3. n[x + 1] # Empty /\ n[x + Len(f)] # Empty
  <2>1. 1 \in 1..Len(f) /\ Len(f) \in 1..Len(f)
    BY <1>1
  <2> QED
    BY <2>1
<1>4. x = 0 => n[1] # Empty /\ Head(n) # Empty
  <2>1. x = 0 => x + 1 = 1
    OBVIOUS
  <2> QED
    BY <1>2, <1>3, <2>1
<1> DEFINE p == TrimPrefix(n)
<1>5. /\ p \in Seq(Label) /\ Len(p) = Len(f) + y
      /\ \A j \in 1..Len(p) : p[j] = n[x + j]
  <2>1. CASE x = 1
    <3>1. p = Tail(n)
      BY <1>1, <2>1 DEF TrimPrefix
    <3>2. /\ p \in Seq(Label) /\ Len(p) = Len(n) - 1
          /\ \A j \in 1..Len(p) : p[j] = n[j + 1]
      BY <1>2, <3>1, HeadTailProperties
    <3> HIDE DEF p
    <3>3. \A j \in 1..Len(p) : p[j] = n[1 + j]
      BY <1>1, <3>2
    <3> QED
      BY <1>1, <2>1, <3>2, <3>3
  <2>2. CASE x = 0
    <3>1. p = n
      BY <1>4, <2>2 DEF TrimPrefix
    <3> HIDE DEF p
    <3>2. \A j \in 1..Len(p) : p[j] = n[0 + j]
      BY <1>1, <3>1
    <3> QED
      BY <1>1, <2>2, <3>1, <3>2
  <2> QED
    BY <2>1, <2>2
<1> HIDE DEF p
<1>6. Len(p) \in Nat \ {0}
  BY <1>1, <1>5
<1>7. p[Len(p)] = n[x + Len(p)]
  <2>1. Len(p) \in 1..Len(p)
    BY <1>6
  <2> QED
    BY <1>5, <2>1
<1>8. t \in Seq(Label) /\ Len(t) = Len(f) /\ \A j \in 1..Len(t) : t[j] = p[j]
  <2>1. CASE y = 1
    <3>1. p[Len(p)] = Empty
      <4>1. x + Len(p) = Len(n)
        BY <1>1, <1>5, <2>1
      <4> QED
        BY <1>7, <2>1, <4>1
    <3>2. t = SubSeq(p, 1, Len(p) - 1)
      BY <1>1, <1>5, <2>1, <3>1 DEF TrimSuffix, Front, Last, p
    <3>3. \A j \in 1..(Len(p) - 1) : p[j] \in Label
      BY <1>5, <1>6, ElementOfSeq
    <3>4. Len(p) - 1 = Len(f)
      BY <1>1, <1>5, <2>1
    <3> HIDE DEF t
    <3> QED
      BY <1>1, <1>5, <1>6, <3>2, <3>3, <3>4
  <2>2. CASE y = 0
    <3>1. p[Len(p)] # Empty
      <4>1. Len(p) = Len(f)
        BY <1>1, <1>5, <2>2
      <4> QED
        BY <1>3, <1>7, <4>1
    <3>2. t = p
      BY <3>1 DEF TrimSuffix, Last, p
    <3> QED
      BY <1>1, <1>5, <2>2, <3>2
  <2> QED
    BY <2>1, <2>2
<1> HIDE DEF t
<1>9. \A j \in 1..Len(t) : t[j] = f[j]
  <2> SUFFICES ASSUME NEW j \in 1..Len(t) PROVE t[j] = f[j]
    OBVIOUS
  <2>1. j \in 1..Len(f) /\ j \in 1..Len(p)
    BY <1>1, <1>5, <1>8
  <2> QED
    BY <1>5, <1>8, <2>1
<1>10. t = f
  BY <1>8, <1>9, SeqEqual
<1> QED
  BY <1>10 DEF t

(* The host of a tunnel, under the domain that --domain or the daemon's    *)
(* address normalizes to.                                                  *)
LEMMA TrimmedMeaning ==
  ASSUME NEW n \in Seq(Label), n # <<>>, Bare(NormalizeDNSName(n))
  PROVE  /\ Trim(n) \in Seq(Label) /\ Trim(n) # <<Empty>>
         /\ NormalizeDNSName(n) \in Seq(Label) /\ Len(NormalizeDNSName(n)) > 0
         /\ Lowered(Trim(n)) = NormalizeDNSName(n)
<1> DEFINE l == Lowered(n)
           d == NormalizeDNSName(n)
           full == {j \in 1..Len(n) : n[j] # Empty}
<1>1. /\ l \in Seq(Label) /\ Len(l) = Len(n)
      /\ \A j \in 1..Len(n) : l[j] = Lower[n[j]] /\ (l[j] = Empty <=> n[j] = Empty)
  BY LoweredName
<1>2. Len(n) \in Nat \ {0} /\ DOMAIN n = 1..Len(n) /\ l # <<>>
  BY <1>1, EmptySeq, LenProperties
<1>3. d = TrimSuffix(TrimPrefix(l))
  BY DEF NormalizeDNSName
<1> HIDE DEF l, d
<1>4. d \in Seq(Label) /\ Len(d) > 0
  BY <1>1, <1>2, <1>3, TrimmedPart
<1>5. PICK x, y \in 0..1 : /\ Len(l) = x + Len(d) + y
                           /\ x = 1 => l[1] = Empty
                           /\ y = 1 => l[Len(l)] = Empty
                           /\ \A j \in 1..Len(d) : d[j] = l[x + j]
  BY <1>1, <1>2, <1>3, TrimmedPart
<1>6. Len(d) \in Nat \ {0}
  BY <1>4, LenProperties
<1> DEFINE a == x + 1
           b == x + Len(d)
<1>7. a \in 1..Len(n) /\ b \in 1..Len(n) /\ a =< b
  BY <1>1, <1>2, <1>5, <1>6
<1>8. l[a] = d[1] /\ l[b] = d[Len(d)]
  <2>1. 1 \in 1..Len(d) /\ Len(d) \in 1..Len(d)
    BY <1>6
  <2> QED
    BY <1>5, <2>1
<1>9. a \in full /\ b \in full
  BY <1>1, <1>7, <1>8 DEF Bare, d
<1>10. \A j \in full : a =< j /\ j =< b
  <2> SUFFICES ASSUME NEW j \in 1..Len(n), ~(a =< j /\ j =< b)
               PROVE  n[j] = Empty
    OBVIOUS
  <2>1. (x = 1 /\ j = 1) \/ (y = 1 /\ j = Len(l))
    BY <1>1, <1>2, <1>5, <1>6
  <2> QED
    BY <1>1, <1>5, <2>1
<1>11. Min(full) = a /\ Max(full) = b
  <2>1. full \in SUBSET Int
    OBVIOUS
  <2> HIDE DEF full, a, b
  <2>2. \A j \in full : b >= j
    BY <1>7, <1>10, <2>1
  <2> QED
    BY <1>9, <1>10, <2>1, <2>2, MinUnique, MaxUnique
<1> DEFINE t == Trim(n)
<1>12. t = SubSeq(n, a, b)
  <2>1. full # {} /\ {j \in DOMAIN n : n[j] # Empty} = full
    BY <1>2, <1>9
  <2> QED
    BY <1>11, <2>1 DEF Trim
<1> HIDE DEF t
<1>13. /\ t \in Seq(Label) /\ Len(t) = Len(d)
       /\ \A j \in 1..Len(d) : t[j] = n[x + j]
  <2>1. \A j \in a..b : n[j] \in Label
    BY <1>2, <1>7, ElementOfSeq
  <2>2. a \in Int /\ b \in Int
    BY <1>7
  <2> HIDE DEF a, b
  <2>3. /\ t \in Seq(Label)
        /\ Len(t) = IF a =< b THEN b - a + 1 ELSE 0
        /\ \A j \in 1..(b - a + 1) : t[j] = n[a + j - 1]
    BY <1>12, <2>1, <2>2, SubSeqProperties
  <2>4. b - a + 1 = Len(d)
    BY <1>6 DEF a, b
  <2>5. \A j \in 1..Len(d) : a + j - 1 = x + j
    BY <1>6 DEF a
  <2> QED
    BY <1>7, <2>3, <2>4, <2>5
<1>14. \A j \in 1..Len(d) : Lowered(t)[j] = d[j]
  <2> SUFFICES ASSUME NEW j \in 1..Len(d) PROVE Lowered(t)[j] = d[j]
    OBVIOUS
  <2>1. Lowered(t)[j] = Lower[t[j]]
    BY <1>13, LoweredName
  <2>2. x + j \in 1..Len(n)
    BY <1>1, <1>2, <1>5, <1>6
  <2> QED
    BY <1>1, <1>5, <1>13, <2>1, <2>2
<1>15. Lowered(t) = d
  <2>1. Lowered(t) \in Seq(Label) /\ Len(Lowered(t)) = Len(t)
    BY <1>13, LoweredName
  <2> QED
    BY <1>4, <1>13, <1>14, <2>1, SeqEqual
<1>16. t # <<Empty>>
  <2>1. 1 \in 1..Len(d)
    BY <1>6
  <2>2. t[1] = n[a]
    BY <1>13, <2>1
  <2> QED
    BY <1>9, <2>2
<1> QED
  BY <1>4, <1>13, <1>15, <1>16 DEF t, d

(* A spelling of a host has its labels, up to case, after at most one      *)
(* empty label and before at most one.                                     *)
LEMMA SpellingOf ==
  ASSUME NEW host \in Seq(Label), Len(host) > 0, NEW h \in Spellings(host)
  PROVE  /\ h \in Seq(Label)
         /\ \E x, y \in 0..1 :
              /\ Len(h) = x + Len(host) + y
              /\ x = 1 => h[1] = Empty
              /\ y = 1 => h[Len(h)] = Empty
              /\ \A j \in 1..Len(host) : Lower[h[x + j]] = Lower[host[j]]
<1> DEFINE cased == {g \in [DOMAIN host -> Label] : Lowered(g) = Lowered(host)}
           ended == cased \cup {Append(g, Empty) : g \in cased}
           Ends(g, y) == /\ g \in Seq(Label)
                         /\ Len(g) = Len(host) + y
                         /\ y = 1 => g[Len(g)] = Empty
                         /\ \A j \in 1..Len(host) : Lower[g[j]] = Lower[host[j]]
<1>1. Len(host) \in Nat \ {0} /\ DOMAIN host = 1..Len(host)
  BY LenProperties
<1>2. Empty \in Label
  BY RoutingAssumption
<1>3. \A g \in cased : Ends(g, 0)
  <2> SUFFICES ASSUME NEW g \in cased PROVE Ends(g, 0)
    OBVIOUS
  <2>1. g \in [1..Len(host) -> Label] /\ Lowered(g) = Lowered(host)
    BY <1>1
  <2>2. g \in Seq(Label) /\ Len(g) = Len(host)
    BY <1>1, <2>1
  <2>3. \A j \in 1..Len(host) : Lowered(g)[j] = Lower[g[j]] /\ Lowered(host)[j] = Lower[host[j]]
    BY <2>2, LoweredName
  <2> QED
    BY <1>1, <2>1, <2>2, <2>3
<1>4. \A g \in ended : \E y \in 0..1 : Ends(g, y)
  <2> SUFFICES ASSUME NEW g \in cased PROVE Ends(Append(g, Empty), 1)
    BY <1>3
  <2>1. Ends(g, 0)
    BY <1>3
  <2> DEFINE e == Append(g, Empty)
  <2>2. /\ e \in Seq(Label) /\ Len(e) = Len(g) + 1
        /\ e[Len(g) + 1] = Empty
        /\ \A j \in 1..Len(g) : e[j] = g[j]
    BY <1>2, <2>1
  <2>3. Len(g) = Len(host)
    BY <1>1, <2>1
  <2> HIDE DEF e
  <2>4. \A j \in 1..Len(host) : Lower[e[j]] = Lower[host[j]]
    BY <2>1, <2>2, <2>3
  <2> QED
    BY <2>2, <2>3, <2>4 DEF e
<1>5. CASE h \in ended
  <2>1. PICK y \in 0..1 : Ends(h, y)
    BY <1>4, <1>5
  <2>2. Len(h) = 0 + Len(host) + y
    BY <1>1, <2>1
  <2>3. \A j \in 1..Len(host) : Lower[h[0 + j]] = Lower[host[j]]
    BY <1>1, <2>1
  <2>4. h \in Seq(Label) /\ (y = 1 => h[Len(h)] = Empty)
    BY <2>1
  <2> QED
    BY <2>2, <2>3, <2>4
<1>6. CASE h \in {<<Empty>> \o g : g \in ended}
  <2>1. PICK g \in ended : h = <<Empty>> \o g
    BY <1>6
  <2>2. PICK y \in 0..1 : Ends(g, y)
    BY <1>4
  <2>3. <<Empty>> \in Seq(Label) /\ Len(<<Empty>>) = 1 /\ <<Empty>>[1] = Empty
    BY <1>2
  <2> DEFINE one == <<Empty>>
  <2> HIDE DEF one
  <2>4. /\ h \in Seq(Label) /\ Len(h) = 1 + Len(g)
        /\ \A j \in 1..(1 + Len(g)) : h[j] = IF j =< 1 THEN Empty ELSE g[j - 1]
    <3>1. one \in Seq(Label) /\ Len(one) = 1 /\ one[1] = Empty /\ h = one \o g
      BY <2>1, <2>3 DEF one
    <3>2. /\ h \in Seq(Label) /\ Len(h) = Len(one) + Len(g)
          /\ \A j \in 1 .. Len(one) + Len(g) :
               h[j] = IF j =< Len(one) THEN one[j] ELSE g[j - Len(one)]
      BY <2>2, <3>1, ConcatProperties
    <3>3. Len(g) \in Nat
      BY <2>2, LenProperties
    <3> QED
      BY <3>1, <3>2, <3>3
  <2>5. Len(g) = Len(host) + y /\ Len(g) \in Nat \ {0}
    BY <1>1, <2>2
  <2>6. h[1] = Empty
    BY <2>4, <2>5
  <2>7. y = 1 => h[Len(h)] = Empty
    <3>1. h[1 + Len(g)] = g[Len(g)]
      BY <2>4, <2>5
    <3> QED
      BY <2>2, <2>4, <3>1
  <2>8. \A j \in 1..Len(host) : Lower[h[1 + j]] = Lower[host[j]]
    <3> SUFFICES ASSUME NEW j \in 1..Len(host) PROVE Lower[h[1 + j]] = Lower[host[j]]
      OBVIOUS
    <3>1. 1 + j \in 1..(1 + Len(g)) /\ ~(1 + j =< 1) /\ (1 + j) - 1 = j
      BY <1>1, <2>5
    <3>2. h[1 + j] = g[j]
      BY <2>4, <3>1
    <3> QED
      BY <2>2, <3>2
  <2>9. Len(h) = 1 + Len(host) + y
    BY <1>1, <2>4, <2>5
  <2> QED
    BY <2>4, <2>6, <2>7, <2>8, <2>9
<1> QED
  BY <1>5, <1>6 DEF Spellings

(* Prepending one label to a name makes a name that it is a suffix of.     *)
LEMMA SuffixOfLonger ==
  ASSUME NEW d \in Seq(Label), NEW n \in Seq(Label), Len(n) = Len(d) + 1,
         \A j \in 1..Len(d) : n[j + 1] = d[j]
  PROVE  IsSuffix(d, n)
<1>1. Len(d) \in Nat /\ Len(n) \in Nat
  BY LenProperties
<1> DEFINE rd == Reverse(d)
           rn == Reverse(n)
<1>2. /\ rd = [j \in 1..Len(d) |-> d[(Len(d) - j) + 1]]
      /\ rn = [j \in 1..Len(n) |-> n[(Len(n) - j) + 1]]
  BY DEF Reverse
<1>3. /\ \A j \in 1..Len(d) : d[(Len(d) - j) + 1] \in Label
      /\ \A j \in 1..Len(n) : n[(Len(n) - j) + 1] \in Label
  <2>1. /\ \A j \in 1..Len(d) : (Len(d) - j) + 1 \in 1..Len(d)
        /\ \A j \in 1..Len(n) : (Len(n) - j) + 1 \in 1..Len(n)
    BY <1>1
  <2> QED
    BY <2>1, ElementOfSeq
<1>4. rd \in [1..Len(d) -> Label] /\ rn \in [1..Len(n) -> Label]
  BY <1>2, <1>3
<1> HIDE DEF rd, rn
<1>5. /\ rd \in Seq(Label) /\ Len(rd) = Len(d)
      /\ rn \in Seq(Label) /\ Len(rn) = Len(n)
  <2>1. rd \in Seq(Label) /\ Len(rd) = Len(d)
    BY <1>1, <1>4
  <2>2. rn \in Seq(Label) /\ Len(rn) = Len(n)
    BY <1>1, <1>4
  <2> QED
    BY <2>1, <2>2
<1>6. \A j \in 1..Len(d) : rd[j] = rn[j]
  <2> SUFFICES ASSUME NEW j \in 1..Len(d) PROVE rd[j] = rn[j]
    OBVIOUS
  <2> DEFINE m == (Len(d) - j) + 1
  <2>1. j \in 1..Len(n) /\ m \in 1..Len(d) /\ (Len(n) - j) + 1 = m + 1
    BY <1>1
  <2>2. rd[j] = d[m] /\ rn[j] = n[m + 1]
    BY <1>2, <2>1
  <2> QED
    BY <2>1, <2>2
<1>7. SubSeq(rd, 1, Len(rd)) = SubSeq(rn, 1, Len(rd))
  <2> DEFINE p == SubSeq(rd, 1, Len(d))
             q == SubSeq(rn, 1, Len(d))
  <2>1. p \in Seq(Label) /\ Len(p) = Len(d) /\ \A j \in 1..Len(d) : p[j] = rd[j]
    BY <1>1, <1>4
  <2>2. q \in Seq(Label) /\ Len(q) = Len(d) /\ \A j \in 1..Len(d) : q[j] = rn[j]
    BY <1>1, <1>4
  <2> HIDE DEF p, q
  <2>3. p = q
    BY <1>6, <2>1, <2>2, SeqEqual
  <2> QED
    BY <1>5, <2>3 DEF p, q
<1> QED
  BY <1>1, <1>5, <1>7 DEF IsSuffix, IsPrefix, rd, rn

(* The URL that a client advertises leads to its tunnel, in whatever case  *)
(* and with whatever dots around it its host is written and whatever the   *)
(* path but one, and is never taken for the relay's own host (PublicURL in *)
(* internal/client/events.go against tunnelNameFromHost and ServeHTTP in   *)
(* internal/server).                                                       *)
THEOREM AdvertisedURLAlwaysRoutes == RoutingSpec => []AdvertisedURLRoutes
<1>1. AdvertisedURLRoutes
  <2> SUFFICES ASSUME NEW nm \in ValidName, NEW given \in Domains, NEW address \in Domains,
                      NEW meant, meant = (IF given = <<Empty>> THEN address ELSE given),
                      NormalizeDNSName(meant) = domain, Bare(domain),
                      NEW h \in Spellings(PublicHost(nm, given, address)),
                      NEW path \in AdminPaths \cup {"/"}
               PROVE  Dispatch(h, path) = nm
    BY DEF AdvertisedURLRoutes
  <2> DEFINE under == Trim(meant)
             host == PublicHost(nm, given, address)
             one == <<nm>>
  <2>1. meant \in Seq(Label) /\ meant # <<>>
    BY RoutingAssumption
  <2>2. /\ under \in Seq(Label) /\ under # <<Empty>>
        /\ domain \in Seq(Label) /\ Len(domain) > 0
        /\ Lowered(under) = domain
    BY <2>1, TrimmedMeaning
  <2>3. host = one \o under
    BY <2>2 DEF PublicHost
  <2>4. one \in Seq(Label) /\ Len(one) = 1 /\ one[1] = nm
    BY RoutingAssumption
  <2> HIDE DEF under, one
  <2>5. /\ Len(under) = Len(domain) /\ Len(domain) \in Nat \ {0}
        /\ \A j \in 1..Len(domain) : Lower[under[j]] = domain[j]
    <3>1. Len(domain) \in Nat
      BY <2>2, LenProperties
    <3>2. /\ Len(Lowered(under)) = Len(under)
          /\ \A j \in 1..Len(under) : Lowered(under)[j] = Lower[under[j]]
      BY <2>2, LoweredName
    <3> QED
      BY <2>2, <3>1, <3>2
  <2>6. /\ host \in Seq(Label) /\ Len(host) = 1 + Len(domain)
        /\ \A j \in 1..(1 + Len(domain)) :
             host[j] = IF j =< 1 THEN nm ELSE under[j - 1]
    <3> HIDE DEF host
    <3>1. /\ host \in Seq(Label) /\ Len(host) = Len(one) + Len(under)
          /\ \A j \in 1 .. Len(one) + Len(under) :
               host[j] = IF j =< Len(one) THEN one[j] ELSE under[j - Len(one)]
      BY <2>2, <2>3, <2>4, ConcatProperties
    <3> QED
      BY <2>4, <2>5, <3>1
  <2> DEFINE lows == Lowered(host)
             l == Lowered(h)
  <2>7. /\ lows \in Seq(Label) /\ Len(lows) = 1 + Len(domain)
        /\ lows[1] = nm
        /\ \A j \in 1..Len(domain) : lows[j + 1] = domain[j]
    <3> HIDE DEF host
    <3>1. /\ lows \in Seq(Label) /\ Len(lows) = Len(host)
          /\ \A j \in 1..Len(host) : lows[j] = Lower[host[j]]
      BY <2>6, LoweredName
    <3> HIDE DEF lows
    <3>2. lows[1] = nm
      <4>1. 1 \in 1..(1 + Len(domain))
        BY <2>5
      <4> QED
        BY <2>6, <3>1, <4>1, RoutingAssumption
    <3>3. ASSUME NEW j \in 1..Len(domain) PROVE lows[j + 1] = domain[j]
      <4>1. j + 1 \in 1..(1 + Len(domain)) /\ ~(j + 1 =< 1) /\ (j + 1) - 1 = j
        BY <2>5
      <4>2. host[j + 1] = under[j]
        BY <2>6, <4>1
      <4> QED
        BY <2>5, <2>6, <3>1, <4>1, <4>2
    <3> QED
      BY <2>6, <3>1, <3>2, <3>3
  <2>8. h \in Seq(Label)
    <3>1. h \in Spellings(host)
      OBVIOUS
    <3> HIDE DEF host
    <3>2. Len(host) > 0
      BY <2>5, <2>6
    <3> QED
      BY <2>6, <3>1, <3>2, SpellingOf
  <2>9. PICK x, y \in 0..1 : /\ Len(h) = x + Len(host) + y
                             /\ x = 1 => h[1] = Empty
                             /\ y = 1 => h[Len(h)] = Empty
                             /\ \A j \in 1..Len(host) : Lower[h[x + j]] = Lower[host[j]]
    <3>1. h \in Spellings(host)
      OBVIOUS
    <3> HIDE DEF host
    <3>2. Len(host) > 0
      BY <2>5, <2>6
    <3> QED
      BY <2>6, <3>1, <3>2, SpellingOf
  <2>10. /\ l \in Seq(Label) /\ Len(l) = Len(h)
         /\ \A j \in 1..Len(h) : l[j] = Lower[h[j]] /\ (l[j] = Empty <=> h[j] = Empty)
    BY <2>8, LoweredName
  <2>11. NormalizeDNSName(h) = lows
    <3>1. /\ \A j \in 1..Len(lows) : l[x + j] = lows[j]
      <4> SUFFICES ASSUME NEW j \in 1..Len(lows) PROVE l[x + j] = lows[j]
        OBVIOUS
      <4>1. j \in 1..Len(host) /\ x + j \in 1..Len(h)
        <5> HIDE DEF lows, host
        <5> QED
          BY <2>5, <2>6, <2>7, <2>9
      <4>2. lows[j] = Lower[host[j]]
        <5> HIDE DEF host
        <5> QED
          BY <2>6, <4>1, LoweredName
      <4> HIDE DEF lows, l, host
      <4> QED
        BY <2>9, <2>10, <4>1, <4>2
    <3> HIDE DEF lows, l, host
    <3>2. 1 \in 1..Len(h) /\ Len(h) \in 1..Len(h)
      BY <2>5, <2>6, <2>9
    <3>3. (x = 1 => l[1] = Empty) /\ (y = 1 => l[Len(l)] = Empty)
      BY <2>9, <2>10, <3>2
    <3>4. lows[1] # Empty /\ lows[Len(lows)] # Empty
      <4>1. nm # Empty
        BY RoutingAssumption
      <4>2. Len(domain) \in 1..Len(domain) /\ Len(lows) = Len(domain) + 1
        BY <2>5, <2>7
      <4>3. lows[Len(lows)] = domain[Len(domain)]
        BY <2>7, <4>2
      <4> QED
        BY <2>7, <4>1, <4>3 DEF Bare
    <3>5. Len(l) = x + Len(lows) + y /\ Len(lows) > 0
      BY <2>5, <2>6, <2>7, <2>9, <2>10
    <3>6. TrimSuffix(TrimPrefix(l)) = lows
      BY <2>7, <2>10, <3>1, <3>3, <3>4, <3>5, TrimToFull
    <3> QED
      BY <3>6 DEF NormalizeDNSName, l
  <2> HIDE DEF lows, l, host
  <2>12. ~IsAdminHost(h)
    <3>1. lows # domain
      BY <2>5, <2>7
    <3> QED
      BY <2>11, <3>1 DEF IsAdminHost
  <2>13. NameFromHost(h) = nm
    <3>1. IsSuffix(domain, lows)
      BY <2>2, <2>5, <2>7, SuffixOfLonger
    <3> QED
      BY <2>5, <2>7, <2>11, <3>1 DEF NameFromHost
  <2>14. path # "/__gatelet/control" /\ nm # Empty
    BY RoutingAssumption DEF AdminPaths
  <2> QED
    BY <2>12, <2>13, <2>14 DEF Dispatch
<1> QED
  BY <1>1, PTL
=============================================================================
