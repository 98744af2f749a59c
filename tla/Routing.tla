------------------------------ MODULE Routing -------------------------------
(***************************************************************************)
(* Which tunnel a host leads to, and which clients may ask for one: how    *)
(* the daemon reads its domain and its tokens (cmd/gateletd/main.go,       *)
(* internal/server), and the URL that a client advertises for its tunnel   *)
(* (internal/client/events.go).  A DNS name is the sequence of its labels; *)
(* a dot at its beginning or end is an empty label there.                  *)
(***************************************************************************)
EXTENDS SequencesExt

CONSTANTS
  Label,      \* spellings of labels, Empty among them
  Empty,      \* the empty label
  Lower,      \* Lower[l]: l in lower case
  ValidName,  \* the labels that protocol.ValidateName accepts
  Domains,    \* what --domain may be set to
  TokenId,    \* what a token spec or a client may name; DefaultId for none
  DefaultId,  \* protocol.DefaultTokenID
  TokenValue, \* token values; NoValue for none
  NoValue,
  MaxSpecs    \* bound: specs in --tokens

ASSUME RoutingAssumption ==
  /\ ValidName \subseteq Label
  /\ Empty \in Label \ ValidName
  /\ Lower \in [Label -> Label]
  /\ \A l \in Label : Lower[Lower[l]] = Lower[l] /\ (Lower[l] = Empty <=> l = Empty)
  /\ \A l \in ValidName : Lower[l] = l
  /\ Domains \subseteq Seq(Label) \ {<<>>}
  /\ DefaultId \in TokenId
  /\ NoValue \notin TokenValue
  /\ MaxSpecs \in Nat

VARIABLES
  phase,  \* whether main has read its flags: "flags", "serving", "fatal"
  flags,  \* --domain, --token and --tokens
  domain, \* Server.domain
  tokens  \* Server.tokens

routingVars == <<phase, flags, domain, tokens>>

-----------------------------------------------------------------------------
(* DNS names. *)

TrimPrefix(n) == IF Len(n) > 1 /\ Head(n) = Empty THEN Tail(n) ELSE n
TrimSuffix(n) == IF Len(n) > 1 /\ Last(n) = Empty THEN Front(n) ELSE n

Lowered(n) == [i \in DOMAIN n |-> Lower[n[i]]]

(* Slip: the dot at the end of a full name stays. *)
NormalizeDNSNameRooted(n) == TrimPrefix(Lowered(n))

(* Lower case, without one dot at the beginning and one at the end. *)
NormalizeDNSName(n) == TrimSuffix(TrimPrefix(Lowered(n)))

(* The tunnel name in a Host header, or Empty: one valid label before the  *)
(* relay's domain.  Its port has been cut off.                             *)
NameFromHost(host) ==
  LET h == NormalizeDNSName(host)
  IN  IF IsSuffix(domain, h) /\ Len(h) = Len(domain) + 1 /\ h[1] \in ValidName
        THEN h[1] ELSE Empty

IsAdminHost(host) == NormalizeDNSName(host) = domain

AdminPaths == {"/__gatelet/status", "/metrics", "/admin"}

(* What ServeHTTP does with a request. *)
Dispatch(host, path) ==
  IF path = "/__gatelet/control" THEN "control"
  ELSE IF IsAdminHost(host) /\ path \in AdminPaths THEN "admin"
  ELSE IF NameFromHost(host) # Empty THEN NameFromHost(host)
  ELSE "not found"

(* strings.Trim: without any dots at the beginning and the end. *)
Trim(n) ==
  LET full == {i \in DOMAIN n : n[i] # Empty}
  IN  IF full = {} THEN <<Empty>> ELSE SubSeq(n, Min(full), Max(full))

(* The host in the URL that a client shows for its tunnel: under --domain, *)
(* or else under the address of the daemon, of which the scheme and the    *)
(* port have been cut off.                                                 *)
PublicHost(name, clientDomain, serverHost) ==
  LET given == IF clientDomain = <<Empty>> THEN serverHost ELSE clientDomain
  IN  IF Trim(given) = <<Empty>> THEN <<name>> ELSE <<name>> \o Trim(given)

-----------------------------------------------------------------------------
(* Tokens. *)

TokenSpec == [id : TokenId, value : TokenValue \cup {NoValue},
              status : {"", ":active", ":inactive", ":other"}]

SpecOK(spec) == spec.value # NoValue /\ spec.status # ":other"

(* parseTokenSpecs, of specs that are well-formed. *)
ParseTokenSpecs(specs) ==
  [k \in DOMAIN specs |-> [id |-> specs[k].id, value |-> specs[k].value,
                           active |-> specs[k].status # ":inactive"]]

SharedToken(value) ==
  IF value = NoValue THEN <<>>
  ELSE << [id |-> DefaultId, value |-> value, active |-> TRUE] >>

(* A map that is filled in the order of a list of tokens.  That entries    *)
(* without id or value are skipped makes no difference: parseTokenSpecs    *)
(* lets none through.                                                      *)
TokenMap(list) ==
  [id \in {list[k].id : k \in DOMAIN list} |->
     list[Max({k \in DOMAIN list : list[k].id = id})]]

(* Slip: the shared token is put into the map last. *)
NormalizeTokensSharedLast(shared, list) == TokenMap(list \o SharedToken(shared))

(* The shared token first, then the list: a later token replaces an        *)
(* earlier one of the same id, even an active one by an inactive one.      *)
NormalizeTokens(shared, list) == TokenMap(SharedToken(shared) \o list)

(* Whether the daemon accepts a client's answer to its challenge. *)
Accepts(id, value) ==
  id \in DOMAIN tokens /\ tokens[id].active /\ tokens[id].value = value

-----------------------------------------------------------------------------

Flags == [domain : Domains, token : TokenValue \cup {NoValue},
          specs : BoundedSeq(TokenSpec, MaxSpecs)]

RoutingInit ==
  /\ phase = "flags"
  /\ flags \in Flags
  /\ domain = <<Empty>>
  /\ tokens = <<>>

(* main up to server.New. *)
Start ==
  /\ phase = "flags"
  /\ flags.domain # <<Empty>>
  /\ \A k \in DOMAIN flags.specs : SpecOK(flags.specs[k])
  /\ flags.token # NoValue \/ flags.specs # <<>>
  /\ phase' = "serving"
  /\ domain' = NormalizeDNSName(flags.domain)
  /\ tokens' = NormalizeTokens(flags.token, ParseTokenSpecs(flags.specs))
  /\ UNCHANGED flags

(* log.Fatal: no domain, a malformed spec, or no token. *)
Fatal ==
  /\ phase = "flags"
  /\ \/ flags.domain = <<Empty>>
     \/ \E k \in DOMAIN flags.specs : ~SpecOK(flags.specs[k])
     \/ flags.token = NoValue /\ flags.specs = <<>>
  /\ phase' = "fatal"
  /\ UNCHANGED <<flags, domain, tokens>>

RoutingNext == Start \/ Fatal

RoutingSpec == RoutingInit /\ [][RoutingNext]_routingVars

-----------------------------------------------------------------------------
(* Correctness. *)

(* The ways to write a host: in any case, with or without a dot at its end *)
(* and one at its beginning.                                               *)
Spellings(host) ==
  LET cased == {h \in [DOMAIN host -> Label] : Lowered(h) = Lowered(host)}
      ended == cased \cup {Append(h, Empty) : h \in cased}
  IN  ended \cup {<<Empty>> \o h : h \in ended}

(* The name has no dot at its ends, not even the half of a double one.     *)
Bare(n) == n[1] # Empty /\ n[Len(n)] # Empty

(* The URL that a client advertises leads to its tunnel, however its host  *)
(* is written and whatever path is asked for but one, when the client's    *)
(* --domain, or else the daemon's address, is the relay's domain up to     *)
(* case and the dots around it; and no spelling of it is the relay's own   *)
(* host.  A --domain with two dots at one end keeps one of them, and then  *)
(* nothing is promised.                                                    *)
AdvertisedURLRoutes ==
  phase = "serving" =>
    \A name \in ValidName, given, address \in Domains :
      LET host == PublicHost(name, given, address)
          meant == IF given = <<Empty>> THEN address ELSE given
      IN  NormalizeDNSName(meant) = domain /\ Bare(domain) =>
            \A h \in Spellings(host), path \in AdminPaths \cup {"/"} :
              Dispatch(h, path) = name

(* The last spec of an id decides about it: an id whose last spec is       *)
(* inactive is out, whatever --token or earlier specs say, and otherwise   *)
(* exactly the value of the last one is accepted, so that a value that was *)
(* rotated out no longer is.                                               *)
LastSpecDecides ==
  phase = "serving" =>
    \A id \in TokenId, value \in TokenValue :
      LET mine == {k \in DOMAIN flags.specs : flags.specs[k].id = id}
      IN  Accepts(id, value) <=>
            IF mine = {} THEN id = DefaultId /\ flags.token = value
            ELSE /\ flags.specs[Max(mine)].value = value
                 /\ flags.specs[Max(mine)].status # ":inactive"
=============================================================================
