# Gatelet in TLA+

TLA+ models of Gatelet, the HTTP tunnel in this repository: the relay
`gateletd`, its client `gatelet`, and the state they share through a control
connection. The modules are translated from the Go source; TLC checks them on
small instances, and TLAPS proves the safety properties that matter most for
every instance. `PROJECT.json` maps each definition to the lines it models and
lists the runs, the hazards, the findings and the theorems.

## 1. The system

| component | source | state it keeps | operations | talks to |
|---|---|---|---|---|
| control handshake and registry | `internal/server/server.go` | maps `sessions` (name to session record) and `pending` (name to remote address), under one `RWMutex` | one goroutine per control connection: hello, challenge, response, `reserveName`, OK, `yamux.Server`, `register`, wait for the session to close, `unregister`; `DisconnectTunnel` from the admin page | the client over the control connection; public requests read the maps |
| public requests and statistics | `server.go`, `ServeHTTP` | counters in each session record | `httpTunnel`, basic auth, the choice of tunnel by host, `OpenStream`, write, read, copy, `recordRequest`; `/metrics`, status | registry (by name, twice), the client over a yamux stream |
| admin dashboard | `internal/server/admin.go` | a random action token | page, disconnect | registry |
| pause gate | `internal/client/pause.go` | `paused`, `resume` channel, `queued` | `SetPaused`, `Toggle`, `IsPaused`, `QueueDepth`, `WaitIfPaused` | TUI toggles it, every tunneled request passes it |
| client run loop | `internal/client/client.go` | reconnect delay, attempt | dial, handshake, `yamux.Client`, `Accept` loop, classification of errors, backoff | relay; lifecycle events to the TUI |
| stream handling, previews, events | `client.go`, `events.go`, `preview.go` | event channel of 256, preview buffers, request ids | read request, pause gate, forward, answer, events | local application, TUI |
| replay | `replay.go` | none | rebuild a captured request and send it again | local application, TUI |
| terminal UI | `internal/tui` | history of 500 rows, index, selection, filter, status, target health | bubbletea's `Update` for keys, events, ticks, results of commands | event channel, pause gate, replay |
| protocol library | `internal/protocol` | none | parsing, HMAC of the challenge | both ends of the handshake |
| commands | `cmd/gateletd`, `cmd/gatelet` | two listeners, a context | flags with domain and tokens, wiring, shutdown | everything |

**What is hard here.**

* *Names.* A name passes from `pending` to `sessions` in two critical sections
  with network writes in between, sessions die at any moment (even before they
  are registered), and the handler of a dead session cleans up late, possibly
  after a successor has taken the name. Reservations are told apart by remote
  address only.
* *Requests.* A public request reads the map once for its route and once more,
  by name, for its statistics. The tunnel can be replaced in between.
* *The gate.* Requests sleep on a channel that pausing replaces and resuming
  closes; a timeout, a shutdown, a resume and the next pause may all race.
* *Reconnection.* The relay frees a name only when its own side of the session
  has ended; a client that comes back earlier is told that its name is taken.
* *Streams.* A request and its answer go through a stream with a bounded window
  in each direction. The relay writes all of the request before it reads any of
  the answer; the client may answer before it has read the request; each side
  closes, drains or gives up on its own, and the requester is told something
  at every point.
* *The way out.* The daemon's two listeners can fail one by one, and `main`
  returns while requests are under way.
* *The event stream.* Events are dropped when the channel is full, the TUI
  must re-arm its reader after each of them, and its rows move under the cursor.

What makes each part correct is stated with the properties below; everything
that is hard to test is listed under "hazards" in `PROJECT.json`, at its line.

## 2. Modules

| module | role |
|---|---|
| `TunnelName` | abstract: single-owner names, granted and refused |
| `Registry` | the handshake and the registry, one action per critical section or I/O step |
| `RegistryProofs` | its invariant, and that it implements `TunnelName` |
| `Relay` | extends `Registry` with public requests and statistics |
| `RelayProofs` | that requests leave the registry alone, where their bytes go, and that the counters add up |
| `PauseController` | the client's pause gate with the requests that pass it |
| `ClientRun` | extends `Registry` with the client's run loop: dial, handshake, session, retry |
| `ClientRunProofs` | that the client leaves the registry's promises alone, and when it calls itself connected |
| `Backoff` | the reconnect delay, in integers of a fixed width; see `AlgorithmsProofs` |
| `Exchange` | one request end to end: `ServeHTTP`, a stream, `handleStream` and the application |
| `Daemon` | extends `Exchange` with the daemon's signals, listeners and exit |
| `ExchangeProofs` | the invariant of both, who waits for whom, and which answers are whole |
| `Routing` | which tunnel a host leads to, the URL a client shows, and which tokens count |
| `AlgorithmsProofs` | about `Backoff` and `Routing`: the delay's bounds, which token decides, where a URL leads |
| `EventPump` | events from the client's goroutines to the rows of the terminal UI |
| `ClientQueuesProofs` | that events cannot overtake each other, and the gate's invariant and safety properties |
| `History` | the rows of the terminal UI: index, cursor, filter, window, replays, health of the target |
| `HistoryProofs` | that index and cursor stay right, and which rows go |
| `Capture` | the preview of a request's body, taken while it may still be read, and what replays send of it |
| `CaptureProofs` | what replays send, when the preview was not raced |
| `MC*` | instances for TLC; `MCAlgorithms` has two modules that compute something and share nothing |

`TunnelName` is the abstraction of `Registry`; `Relay` and `ClientRun` compose it
with the two parties that use it. `Relay` keeps one unit per request, many
requests and the registry; `Exchange` has one request, and all of what happens
to it at both ends of its stream; `Daemon` puts it into a process that may end.
`PauseController`, `Backoff`, `Routing`, `EventPump`, `History` and `Capture` stand alone,
as their code does: they meet the rest in
`Run`, `handleStream` and `Update` through a call, a channel or a message only.

### Registry

`pc[c]` is the place of connection `c`'s handler between two steps:

    idle -> hello -> response -> authenticated -> reserved -> greeted
         -> started -> serving -> done            (releasing: giving a reservation back)

`ReserveName`, `ReleaseReservation`, `Register` and `Unregister` are the four
critical sections; `SendOK` and `StartSession` are what happens between them,
each with its failure. `DisconnectTunnel` is three steps because it reads the map
under the lock and looks at and closes the session without it. `peer[c]` says
whether the client is still there; `SessionFails` is yamux giving a session up,
which may happen at any time. HMAC and formats are left out: a hello or a
response is good, bad, or never comes. A connection is used once, as in the
code; a client that reconnects is another connection.

`NameAllowed` mirrors `nameAllowed` without the well-formedness rule (names in
the model are well-formed; a malformed one is a rejected hello). `yamux.Server`
fails only on a bad configuration; the model lets it fail anyway, as the code
provides for it.

### Relay

`rpc[r]` follows `ServeHTTP`: `Lookup` is `httpTunnel` under the lock, then
`Authorize`, `OpenStream`, `WriteRequest`, the answer or `ReadFails`, and
`RecordRequest`, again under the lock and again by name. `Totals` is what
`/metrics`, the status and the dashboard sum up, over `ActiveTunnels`. `route`, `rauth` are
the local variables a request keeps after letting the lock go. A session can
close and be replaced between any two of these steps, since `RelayNext`
interleaves them with every step of `Registry`. `sentTo` is history: the
connection that received bytes of the request. Bytes are counted in units: one
for a request, none or one for the body of an answer; a failed write counts the
unit or not. A duration is the histogram cell it falls into.

### PauseController

Channels are numbered in the order `SetPaused(true)` makes them; `closed` is the
set of closed ones. `Check` is `IsPaused` with its event, `Enter` is
`WaitIfPaused` up to its `select`, `Wake` and `Expire` are the two cases of the
select, `Leave` the deferred decrement with what `handleStream` does next. Two
goroutines toggle in the run, although only the TUI does in the program:
the type is documented and built for concurrent use.

### ClientRun

`cpc` is the place of `Run` and `runSession`:

    start -> dial -> hello -> verdict -> accepting -> waiting -> dial ...
    (failed: Run returned an error; stopped: its context ended)

Each attempt dials one of the connections in `Mine`, which the relay serves with
the steps of `Registry`, with the client's name and a right or wrong token, while
strangers compete over the other connections; or it reaches something else at
the address, `Elsewhere`: another server, a proxy, a relay of another kind. What
the client reads from the relay is what the relay has written (`reply`, or the
challenge that `pc = "response"` stands for); from elsewhere anything can come.

Each way in which `runSession` returns has its action. `HelloFails`,
`ResponseFails`, `SessionUnstarted` and `SessionEnds` are the errors that `Run`
retries (`Retry`): reads, writes, `yamux.Client`, `AcceptStream`. They may come at
any time, also while the relay takes the connection for good, and then only
`peer` changes: the relay finds out later, by its deadline or keepalive.
`ReadRefusal` (an ERR line) and `ReadOtherLine` (a challenge that does not parse,
or a verdict that is neither ERR nor OK) are terminal (`GiveUp`); the relay never
writes lines of the second kind, so they come from `Elsewhere`. That a TLS
failure is terminal too is `Dial`'s last disjunct, and that `Run` refuses a
malformed name before it dials is `Start`.

### Backoff

`SessionFailed`, `Double`, `Done` and `Awake` are the count of attempts in `Run`
and the loop of `reconnectDelay`, one iteration per step. `Twice` wraps round as
an `int64` does. Zero and negative settings are replaced by defaults, at the same
place as in the code.

### EventPump

`stage[r]` is what the goroutine of request `r` has emitted; `channel`, `readers`
(running `waitEvent` commands), `msgs` (messages on their way to `Update`) and
`shown` (the states of the rows) are what an event passes through. Messages are a
set because bubbletea runs commands concurrently and promises no order.
`HandleEvent` is `Update` with `applyEvent`, `ForgetEvent` is `updateFilter`
given anything but a key, `ClearHistory` the key x. `lost` and `forgotten` are
history. A row is here only the state it shows; that rows are cut off and move
is the matter of `History`.

### History

`requests` is the list of rows, newest first, `index` the map from ids to
positions, `selected` the cursor, which counts visible rows from 0. A filter is a
status code that is looked for, so that a row begins to match when its answer
arrives. `EventArrives` and `ReplayDone` are `applyEvent` with what `Update` does
after it; `told` is what the client has said of a request so far, from which
`NextEvents` follows, with any of them dropped. `ReplaySelected` remembers its
source, as `replayDoneMsg` does, and the result may come any number of messages
later. The keys are one action each. In the filter mode everything but keys is
forgotten. Events keep arriving here even after one was forgotten, which allows
more than the code does (`EventPump` has that part).

### Capture

One request, with two goroutines: `tpc` is the transport's, which reads the body
chunk by chunk through `bodyPreviewCapture.Write` (count, make the buffer longer,
copy), `hpc` is `handleStream`'s, which takes the preview when the exchange is
over (size, empty?, text, kind, cut) without a lock. Only lengths are kept: what
has been read is a beginning of the body, and `copied` tells how much of a text
has been there when it was taken. `Inside` are the places in the middle of a
character, where a sniffed body looks binary. Steps of one goroutine are seen by
the other in program order; a build or a processor that reorders them has more
outcomes, but none of the properties that hold is about a raced preview
(`quiet`). `Replay` is `ReplayRequest` with the row of its result, which can be
replayed again.

### Exchange and Daemon

A unit is a head or a piece of a body, so a request of `body` has `body + 1`
units. A direction of the stream is `[sent, got, granted]`: what was written,
what was read, and how much the reader has allowed altogether, which `Take`
raises as yamux's `sendWindowUpdate` does, in steps of at least half a window.

`rpc` is the place of `ServeHTTP`:

    writing -> reading -> copying -> done

with a failure at each of them: the stream is `dead`, or the deadline passes
while the call blocks (that is what `~Readable` and `~Writable` in `RelayWriteFails`
and its like mean), or the public connection fails. `outcome` is what the
requester has been told: a 502, a whole answer, or a broken one. What it is told
when `io.Copy` fails depends on how the end of the answer is marked (`framing`),
because `ServeHTTP` then just returns (`ToldOnFailure`).

`hpc` is the place of `handleStream`:

    head -> held -> calling -> answering -> draining -> closed
    (refusing: writeError; failing: the transport drains the body before Do
     returns its error; discarding: the rest of the answer after a failed write)

`Deliver` is the transport's goroutine, which goes on reading the body while the
answer is being written. `Drain` is `req.Body.Close`, whose end needs the whole
body, the relay's close, or a dead stream (`DrainOver`). `held` is the pause gate
and has no bound but `HoldExpires`. The application may stop reading (`LocalStops`),
fail, answer early, or break its answer off; it owes nothing.
`StreamReset` is yamux's `StreamCloseTimeout`: a stream of which only one end was
closed does not stay for ever. `dead` stands for every end of the session, also
those that `Registry` knows as `SessionFails`. `excused` is history: whether
anything has gone wrong at all, including an application that stops reading.

`bufio.Reader`, socket buffers and the transport's own buffers only enlarge the
window and are left out. So are requests with `Connection: close`, whose
bodies are given up undrained.

`Daemon` adds `main`: `ctxDone` is the context of `signal.NotifyContext`, `control` and
`listener` the two listeners. The goroutines of `ServeControl` and `Shutdown`, and
`main` itself, are one action each. `ListenAndServe` returns once the listener is
closed, so `MainReturns` does not look at `rpc`; `Exit` takes the session along,
and cuts an exchange that is under way. `log.Fatalf` is `PublicFails`. The client is
another process: `ExchangeNext` goes on for it after the exit. Nothing is
persisted, so a daemon that starts again is `DaemonInit`.

### Routing

A host or a domain is the sequence of its labels, a leading or trailing dot an
empty label. `Dispatch` is the head of `ServeHTTP`, with `nameFromHost`,
`isAdminHost` and `normalizeDNSName` as they are; `PublicHost` is the host of
`PublicURL`, which trims in its own way. `Lower` is an arbitrary idempotent map of
spellings, `ValidName` the labels `ValidateName` accepts, which lower case leaves
alone. `Start` and `Fatal` are `main` up to `server.New` as far as domain and tokens
go; a spec is an id, a value and a status, and `SpecOK` says which ones
`parseTokenSpecs` refuses. `tokens` is then a function, filled in the order of
`normalizeTokens`.

`AdvertisedURLRoutes` is about a domain that is `Bare`, without a dot at its ends
after `normalizeDNSName`. A `--domain` with two dots at one end keeps one of them,
the client's URL keeps none, and nothing is promised then. The checked domains
have one of this kind.

## 3. What TLC checks

| run | instance | shows |
|---|---|---|
| `registry` | 3 connections (two share an address), 1 name, 1 admin call, with fairness | `SingleOwner`, the inductive `RegistryInv` (live sessions stay routable, the late unregister of a dead one and an administrator notwithstanding), and `LeaseSpec`: the registry refines `TunnelName`; `HandshakeEnds`, `NameFreed` |
| `relay` | 2 connections with different basic auth, 2 requests, with fairness | `ForwardedAuthorized`, `StatsConsistent`, `FinalStats`, `RequestAnswered` |
| `exchange` | 1 exchange, a window of 4, bodies and answers of 0 or 6, every failure, and the daemon around it, with fairness | `StallNeedsBoth`, `CompleteIsWhole`; `PoliteCompletes`, `RefusalIsTold`, `HandlerEnds`, `StopsWhenTold` |
| `pause` | 3 requests, 2 togglers, 2 pauses, with fairness | `NoStrandedWaiter`, `NoDoubleClose`, `QueueDepthExact`, `HeldUntilResume`, `HeldIsAnnounced`, `ReleasedOnResume` |
| `client_run` | 2 connections to the relay, any number to something else, 1 stranger at another address, 1 name of 2 refused, with fairness | `AttemptInv`, `ConnectedIsGranted`, `LeftNameFreed`, `AttemptEnds`, `ConnectedBecomesRouted` |
| `client_drop` | 2 connections to the relay, nobody else | finding: a dropped client may be refused its own name and gives up |
| `algorithms` | durations -15..15, 7 attempts in a row; 6 domains for the relay, the client and the address, 2 token specs of 2 ids and 2 values | `BackoffInv`; `AdvertisedURLRoutes`, `LastSpecDecides` |
| `event_pump` | 1 request, the tunnel's own events with 2 drops, a channel of 2, with fairness | `PumpInv`, `ShownInOrder`, `EndShown` |
| `event_filter` | as `event_pump` | finding: the event reader is lost in the filter mode |
| `history` | 2 tunneled requests, 2 replays, 3 rows | `HistoryInv`, `WindowShowsCursor`, `UpdateKeepsCursor`, `ReplayReturns`, `OldestGoesFirst` |
| `capture` | a body of up to 5 bytes, previews of 3, 3 replays | `CaptureInv`, `HonestReplay`, `WholeIsReplayable` |
| `capture_whole` | as `capture` | finding: a body that was not read is replayed as an empty one |

*Bounds.* Three connections are a dying owner, its successor, and a competitor
that tries at the same time; a fourth adds no new pair. One admin call may hold
a stale session across a whole takeover. Two requests over two connections give
a request routed before and one routed after a takeover, and both may be counted
by the same record. `Bucket = 1` has one finite histogram bucket and the +Inf
cell. Two pauses (`MaxPauses`) give a waiter of the first one, a resume that it
misses, and a second pause of which it must be independent, while a second
toggler lags behind; the proofs hold for any number. Two of the
client's connections are one that the relay may still believe in and its
successor; the stranger takes the name, or loses it, at any point; what is said
elsewhere is not remembered, so one such connection stands for all of them. Durations of five bits are checked
exhaustively: every pair of settings, odd and even, with `initial` above
`maxDelay`, and maxima so near `Top` that an unguarded doubling wraps round. The
channel of events holds two instead of 256, so that it is full while events of
both sources compete; one request suffices for an order that is per request. A
history of three rows instead of 500 is full, and cut, with four requests of
which two are replays that come in while their source is being pushed down or
out; one status code serves as answer and as filter. A body of five bytes with a
limit of three is shorter than, equal to or longer than the limit, in any
chunks, with a limit inside a character; three replays give a replay of a
replay of a replay. A second name would only be the first one again, since no
code relates two names; a name that is refused is in `client_run`. A window of four
has a half that is granted late; seven units (a head and six) fill it, wait,
and go beyond what a grant too many would allow, and two such bodies in both
directions stall each other. The domains are empty, a lone dot, lower case,
upper case with a trailing dot, two labels with dots at both ends, and one with
two dots before it, of which `normalizeDNSName` removes one and `PublicURL` both.
Two specs are the fewest in which one replaces another, besides `--token`.

*Fairness.* `HandshakeFails` is weakly fair because `SetDeadline` bounds every
read and write of the handshake. `HandlerStep` is fair because a goroutine that
waits for nothing but the lock runs, and the only I/O among these steps, writing
the OK line, is under the same deadline. `SessionFails` is fair only for a client
that is gone: yamux's keepalive notices. Nothing is assumed of a client that is
there, nor of administrators. In `Relay`, `ServeStep` is fair because the stream
has a deadline (`streamTimeout`) and the public listener has read and write
timeouts; the local application owes nothing. At the gate, a woken request is
scheduled; users need not resume, and no timeout is assumed. In `ClientRun` the
relay is as fair as in `Registry`, what has arrived is read, and a connection
that the relay has closed fails at the client's end, while something else that
answers in the relay's place may stay silent for ever (`AttemptEnds` is about
the relay); a broken connection may stay unnoticed at either end for any time
short of that, and nothing makes the client redial. In `EventPump` bubbletea's loop runs commands and handles messages; neither the
client nor the user has to do anything. In `Exchange` the goroutines of both
programs run (`HandlerWorks`, and the relay's reads and copies), and yamux's timer
fires; nothing is assumed of the requester or the application. What a liveness
property needs beyond that it states as its own premise: `PoliteCompletes` that
the requester sends its body and the application reads it and answers in full,
`RefusalIsTold` only the former;
`HandlerEnds` that the relay's calls succeed or time out, and that the
application answers or fails and ends its answer. In neither may the premise
be dropped: an application that never answers keeps `handleStream` for ever,
since `localHTTPClient` has no timeout. In `Daemon` the goroutines of `main` run;
`StopsWhenTold` assumes nothing of requests or clients.

Deadlock is checked in `history`, which never ends: elsewhere every process
of the instance (or one half of `algorithms`) ends, so that a state without successors is the normal end of a
behaviour. `NameFreed`, `HandshakeEnds`, `RequestAnswered`, `AttemptEnds`,
`LeftNameFreed`, `EndShown`, `RefusalIsTold`, `HandlerEnds` and `StopsWhenTold` are what a behaviour
that got stuck would violate.

Each property has at least one *slip* (an operator commented `Slip:` next to the
action it distorts) that breaks it: `ReserveNamePendingUnread`,
`UnregisterByName`, `OpenStreamReread`, ... They are used by no specification.

## 4. What is proved

| theorem | says |
|---|---|
| `RegistryInvariant` | `Spec => []RegistryInv` |
| `TypeCorrect`, `OneOwnerPerName`, `LiveSessionsStayRoutable` | consequences of it |
| `RegistryImplementsLease` | `Spec => LeaseSpec`: the refinement, step by step |
| `RelayImplementsRegistry` | `RelaySpec => Spec`, so all of the above holds of the relay |
| `RelayOneOwnerPerName` | `SingleOwner` with requests under way |
| `RouteInvariant`, `OnlyAuthorizedForwarding` | `ForwardedAuthorized` |
| `CountersAreConsistent` | `StatsConsistent`: records count what was recorded in them, and the totals what open tunnels counted |
| `LoggedTotalsFinal` | `FinalStats` |
| `PauseInvariant` | the gate's inductive invariant |
| `ClientImplementsRegistry` | `ClientSpec => Spec`: a client that comes back again and again is still a set of connections to the registry |
| `OneConnectionAtATime`, `ConnectedHonestly` | `AttemptInv`, `ConnectedIsGranted` |
| `BackoffInvariant`, `DelayStaysBounded` | no doubling wraps round, and the delay is within its bounds |
| `LastSpecAlwaysDecides` | `LastSpecDecides`, for lists of tokens of any length |
| `AdvertisedURLAlwaysRoutes` | `AdvertisedURLRoutes`, for domains of any number of labels |
| `PumpInvariant`, `NoOvertaking`, `RowsNeverFallBack` | `PumpInv`, that one event at most is under way, `ShownInOrder` |
| `HistoryInvariant`, `CursorIsShown`, `OldestFirst` | `HistoryInv`, `WindowShowsCursor`, `OldestGoesFirst` |
| `CursorKeepsRequest`, `CursorReturnsToSource` | `UpdateKeepsCursor`, `ReplayReturns` |
| `CaptureInvariant`, `ReplaysAreHonest`, `WholeTextsReplay` | `CaptureInv`, `HonestReplay`, `WholeIsReplayable` |
| `ExchangeInvariant` | `DaemonSpec => []ExchangeInv`: the invariant of an exchange inside a daemon that may exit at any moment |
| `OnlyUnreadBodiesStall`, `CompleteAnswersAreWhole` | `StallNeedsBoth`, `CompleteIsWhole` |
| `NobodyStranded`, `ResumeNeverPanics`, `DepthIsExact`, `HeldRequestsAnnounced`, `HeldRequestsWait` | the gate's safety properties |

They hold for any sets of connections, names, addresses, administrators and
requests, under the named assumptions next to the constants: `None` is no
connection, name or address; every connection has an address; names that rules
mention are names; basic auth is a credential or none; the set of requests at
the gate is finite (for counting them) and `MaxPauses` is a natural number; the
defaults of the delay are positive and fit the width; the event channel has a
positive capacity; the window of a stream is positive and the sizes of bodies
and answers are natural numbers; ids of tunneled and replayed requests differ, and histories
and previews have a positive size; a domain has at least one label, lower case makes
no label empty and leaves valid names alone. Addresses need not be distinct.

*The registry's argument.* `SingleOwner` is not inductive. It needs that for each
name at most one handler is between `reserveName` and `register` and that
`pending` holds that handler's address (`PendingBacked`), that a record leads to
a handler that is serving that very name (`RecordBacked`), that nobody reserves
a name whose record is open (`ReservedNotServed`), and that the record of an
open session is in the map (`LiveSessionRoutable`). Then two owners would have to
be two reservations, two records, or one of each, and each is excluded. Because
`pending` has at most one owner per name, `releaseReservation` may compare shared
addresses. The same invariant gives the refinement: `ReserveName` acquires,
`SendOK` grants, an `in_use` reply refuses, and whatever ends a reservation or an
open session releases.

*The relay's argument.* A request is bound to the connection `httpTunnel`
returned: `route` and `rauth` come from one record under one lock and never
change (`RouteBound`), and no registry step changes the name of a connection
that has been registered. A record that is in the map belongs to a handler that
still serves (`RecordBacked`), hence no answer is added to that of one that has
ended (`LoggedTotalsFinal`).

*The counters' argument.* The records are inductive together with `CountBound`: a
request that counts itself has a name and a status, the record it counts in is
that of a registered connection, whose name is settled, and only finitely many
connections and requests have begun, whatever the sets they come from; without
that no cardinality could go up by one. The totals are folds over the open
tunnels. That such a sum of counts is the number of requests counted
(`SumOfCounts`) would be an induction over finite sets. It is shown for a set
without a smaller set that refutes it, which exists when any does
(`MinimalSubset`, since proper inclusion of finite sets is well-founded); here
the fold takes one tunnel away, and the requests split into that tunnel's and
the others'.

*The gate's argument.* Channels in `closed` are at most `resume`, so a fresh one
is open; a waiter's channel is closed or is the current one while paused, since
a pause makes a new channel only when the previous one has been closed. The
depth is the cardinality of the set of requests inside, which each step changes
by at most one element.

*The client's argument.* Each step of the client is a step of the registry or
leaves it alone: dialing is `Accept`, closing is the peer going away,
and what happens elsewhere is no step of the relay's. So
`RegistryInv` and the refinement carry over. An attempt owns the only connection
of the client that is up (`AttemptInv`), since every way out of `runSession` closes
it. That a client which calls itself connected has been granted its own name
needs that the relay knows the client's connections by no other name, and that
a client waiting for the verdict has answered on this very connection (`GrantInv`).

*The delay's argument.* A product is formed only below half the maximum, so it
stays below the maximum and below `Top`; the delay never gets smaller.

*The pump's argument.* `Update` answers each event with one command, so there is a
reader or one message, never two (`OneReader`). Therefore the order in the channel
is the order of the rows, and along the way from goroutine to row the stages of
a request never go up (`PipelineOrdered`). It is this chain that is inductive:
`ShownInOrder` speaks about its two ends only.

*The history's argument.* An id that is not in the index is on no row, so a row
put in front keeps the ids distinct, and of distinct rows `rebuildIndex` makes
the inverse; a row that is updated keeps its id and its place. Every handler that
changes the rows or the filter ends in `clampSelection`, or puts the cursor on a
place it has found among the visible rows (`CursorOnRow`). The window then is
arithmetic: `limit` rows of `total`, half of them before the cursor unless an end
is near. An event whose id is in the index leaves each row its place, and
`clampSelection` a cursor that is on a row. Visible rows have different places,
because of two the later one has more before it (`PlacesDiffer`); so the place
that `selectRequestID` finds is the source's, and nobody else's.

*The capture's argument.* But for the chunk that is being written, the buffer has
the first `Limit` bytes of what was counted (`BufferIsBeginning`). If nobody reads
any more when the preview begins, its five reads see one state (`QuietPreview`). A
row of the history has this preview or none, and a replay makes a row of the
same kind (`RowsFromPreview`), so that whatever is replayed, at whatever depth,
was that preview's text or empty.

*The exchange's argument.* For each direction, `got <= sent <= granted <= Window +
got` bounds what is on its way; but it is not inductive, for a reader that grants in halves
might owe the writer a grant when the stream runs empty. `PipeOK` adds that it
never does: `got < granted`, because a reader that has used half of its
window grants at once (this needs `Window > 0`, also for a window of 1).
Then a writer that finds no window has units at the other end that were not
read, and that is `StallNeedsBoth`: if both programs are blocked, body and
answer both exceed a window, and it is the body that lies unread, which the
transport would read unless the application has stopped. That an answer which
looks complete is whole needs that the answer's size is settled before the
relay reads its head, hence the conjunct about the handler's early places;
`framing` is then fixed as well. The exit of the daemon changes no direction, and its
outcome is never "complete".

*The routing's arguments.* Filling a map from a list leaves at each id the last
entry of that id (`MapHoldsLast`). The shared token, if any, is the first entry
and moves the specs by one place, so the last entry of an id is its last spec,
and the shared token only for an id without specs (`WhoDecides`). For the URL,
`normalizeDNSName` cuts a part out of a name whose outside is empty labels
(`TrimmedPart`); when both its ends are full, that is the part between the first
full label and the last, which `PublicURL` keeps (`TrimmedMeaning`). Every spelling
of the host has its labels up to case between at most one empty label on each
side (`SpellingOf`), so `normalizeDNSName` gives the name before the domain
(`TrimToFull`), and that is one label longer than the relay's own host.

*Model-checked only:* the liveness properties, since fairness and `ENABLED` are
outside what TLAPS handles. Every other property of the runs that pass is
proved; the three that are violated are findings.

## 5. Findings

* A client whose connection broke before the relay noticed is told that its own
  name is in use, and `Run` returns this as final instead of retrying
  (`client_drop`).
* An event that arrives while a filter is typed is forgotten, and with it the
  command that reads the next one: the UI gets no event any more
  (`event_filter`). `EndShown` is therefore stated for behaviours in which this
  has not happened.
* A request whose body was not read, or only its beginning, is replayed with
  what was read as if that were the body; `replayBody` refuses only what it knows
  to be incomplete (`capture_whole`). A target that is down is the usual case: the
  failed `POST` is replayed without its body. The row of a refused replay is not
  refused either when it is replayed.

Seen on the way, without a run:

* `gatelet_requests_total` and the byte totals are declared counters but are sums
  over the open tunnels, and drop when one ends (`server.go:572`, `server.go:619`).
* The admin page's "forwarded total" (`admin.go:163`) includes requests that the
  relay answered 401 itself (`server.go:300`).
* When an answer without a Content-Length is cut off, `ServeHTTP` returns normally
  (`server.go:340`), and the requester gets an answer that looks complete; one
  that ends with the stream is even logged "forward completed".
  `CompleteIsWhole` is therefore about answers with a length.
* A held request is forwarded when the gate opens, and an abandoned one stays in
  the local application, although the relay has given both up;
  `localHTTPClient` has no timeout, and an answer without an end is read and
  thrown away for ever once the stream has failed (`client.go:556`).
* `main` returns when `Shutdown` begins, so requests under way are cut; and when the
  control listener fails, the daemon ends with exit code 0.
* `GET /__gatelet/control` of a tunnel's own application is never reached: the relay
  answers it on every host (`server.go:256`).
* `--name` silently overrides a positional name, while two different targets are an
  error (`cmd/gatelet/main.go:74` and `130`); with `--name` after it, a single
  leading word is read as that name and the target is then missing.
* Any late event of a request sets the status line to "online" again
  (`model.go:376`).

## 6. Not modelled

* Text: pages, headers, log lines, rendering of the TUI with its scroll offsets
  and tabs, quoting of exported curl commands, the wording of errors.
* TLS, the HMAC and the byte formats of the handshake: a message is good, bad,
  or never comes.
* Durations: a timeout is a step that may come at any time; only the reconnect
  delay is a number.
* `parseConfig` of the client and most flags of the daemon: straight-line functions
  from arguments to a record or an error, with no state.
* The dashboard's action token: a comparison with a value that never changes.
* The preview of an answer, which `handleStream` reads and writes alone, so that it
  has no race; the probe of the target, one guarded assignment, is part of
  `History` without a property of its own.
* Several exchanges over one session: yamux gives each stream a window of its own,
  and the code relates them only through the registry, the gate and the event
  channel, which have their own modules.
* Restarts with state: neither program persists anything.

## 7. Plan

1. `Registry`, `Relay`, `PauseController` with proofs: done.
2. `ClientRun` and `Backoff` with proofs: done.
3. `EventPump`, `History` and `Capture` with proofs: done.
4. `Exchange` and `Daemon` with proofs, `Routing`: done.
5. Proofs of every property of the passing runs but liveness: done.
6. Left: the moment at which a held request is announced, composed of the gate
   and the event stream.

Related questions about one module share a run, and a run that a later module
makes superfluous goes.
