# A verification project for Clawket

Clawket connects phones to coding agents that run on a user's computer.  A
*bridge* (the **owner**) next to the agent backend and one or more phones (the
**clients**) each keep a WebSocket to a **Relay**; a Durable Object, the
**room**, passes frames between them.  This directory holds TLA+ modules of the
parts of Clawket that are hard to test, the TLC configurations that check them,
and proofs.  `PROJECT.json` maps every definition to the lines it models.

## 1. Inventory

| Part | Where | State | Operations |
|---|---|---|---|
| Relay room | `apps/relay-worker/src/index.ts`, `relay/control.ts`, `storage.ts`, `runtime.ts`, `initialization.ts`, `routing.ts` | in memory: installed owner, client routes, active route, buffered connect starts; on each socket: attachment (role, identity, route marker, retirement marker, budgets, pending requests); stored: owner lease, token mirrors | `fetch` (admit an owner or client), `webSocketMessage`, `webSocketClose`/`Error`, `alarm`, status query, constructor after hibernation |
| Echo budget | `relay/heartbeat-budget.ts`, `owner-heartbeat.ts`, `client-heartbeat.ts` | credit and its time on the attachment, second of the last diagnostic | admit or refuse a ping |
| Alarm and watchdog | `relay/heartbeat.ts`, `transfer.ts` | alarm deadline, pending owner ping, capability of the owner, last activities | tick, expire clients and handshakes, ping the owner, close a silent owner |
| Pending requests | `relay/pending-requests.ts` | up to 32 (id, expiry) per client socket | remember, take, restore |
| Owner contention | `relay/owner-contention.ts` | last attempt, probe, acknowledgement, on the attachment | admit, probe, acknowledge |
| Client channels | `relay/client-channels.ts` | one owner socket per client socket | open, route, close with the client |
| Client admission | `relay/admission.ts`, `auth.ts` | counts per credential; pairing tickets | admit, refuse, replace |
| Registry | `apps/relay-registry` | pair records, access codes, pairing sessions in a KV store; a rate limiter object | register, refresh and claim codes, mirror tokens |
| Bridge heartbeat | `packages/bridge-runtime/src/relay-owner-pong.ts`, `relay-owner-cadence.ts`, `relay-transfer-lease.ts` | probe cycle, hedge, deadline; cadence; transfer allowance | probe, confirm, time out, refresh |
| Bridge runtimes | `packages/bridge-runtime/src/openclaw`, `hermes`, `codex`, `claude-code`, `pi`, `local-model` | local gateway connection, queue, sessions, runs | connect, queue, reconnect, translate |
| Bridge core | `packages/bridge-core` | configuration, pairing sessions, service files | pair, install |
| Bridge CLI | `apps/bridge-cli` | owner records, releases; of an update: targets stopped and started, their owners | update transaction, commands |
| Mobile and iOS | `apps/mobile`, `apps/ios`, `packages/apple` | connection state, message queue, histories | connect, recover, send |
| Speech worker | `apps/speech-worker` | quota, session | transcribe |

**How they interact.** Bridge and phone authenticate to the room with tokens
the registry has issued and mirrored to it.  Frames of clients go to the
installed owner; frames of the owner go to the active client, to the client a
request came from, to a named client, or to all.  The room is single-threaded,
but a callback yields at storage writes, so callbacks interleave; and the
platform drops its memory whenever it is idle, keeping sockets, attachments and
storage.  A bridge probes the Relay and gives the connection up when no echo
comes; an alarm of the room probes clients and owner and drops those that are
gone.

**What is hard.** Frames suspended while their owner is replaced; retirements
that fail half way; close callbacks that come after the room was rebuilt;
routes rebuilt from markers written at different times; leases, probes,
time-outs and late answers; bounded tables and credits; a store without
compare-and-set in the registry; roll-back of a partly failed update.
`PROJECT.json` lists each of these at its line under `hazards`, with the
property that covers it or the module that is to.

**What makes each part correct.**

- *Room*: one client connection never talks to two owners; only the owner
  accepted last is heard; the lease names it; a route never moves to another
  client because memory was lost.
- *Echo budget*: echoes are paid for by time; a well-paced peer is never
  refused; refusals cost no write.
- *Alarm*: a client that answers in time is never expired, a silent one is,
  within a bound; only silent owners are closed; ticks are not postponed for ever.
- *Pending requests*: an answer goes to the socket that asked, once, or nowhere.
- *Contention*: an owner that answers is not evicted by its twin; one that does
  not is.
- *Registry*: a code is claimed once; the room's mirror is the latest set.
- *Bridge heartbeat*: a proof confirms its own cycle only; echoes are spaced as
  the Relay's budget expects; a dead connection is given up within the cadence,
  the deadline and one transfer window, and one that answers is kept.
- *Bridge Gateway*: the first frame a Gateway sees is a connect; whoever waits
  is served in the end, and a client whose session is gone learns of it.
- *Phone*: it is ready only over a socket it has authenticated on; a
  disconnection is final; no attempt hangs; a refused token is deleted once.
- *Update*: no release is started beside a live owner; the report says of every
  bridge what runs; the updater ends.

## 2. Plan

In this order; the first eight rows are built.

| Module | Models | Composes with | Abstract specification, theorems |
|---|---|---|---|
| `RelayRoom` (done) | ownership, routes, hibernation | implements `OwnerSessions` | all properties and the refinement proved |
| `HeartbeatBudget` (done) | echo credit of a socket | | all properties proved |
| `RelayRequests` (done) | pending requests across reconnection, expiry and hibernation | relies on `RelayRoom` for routes | all properties proved |
| `RoomHeartbeat` (done) | alarm deadline, client pongs, owner watchdog with a clock | | only the silent are closed (proved), silence is noticed (liveness) |
| `BridgeGateway` (done) | the Gateway and Relay sockets of a bridge, its queue and timers | | all invariants proved; demand is eventually served (liveness) |
| `GatewayClient` (done) | the phone: reconnection, handshake, pairing, token repair | | all invariants proved; attempts end (liveness) |
| `OwnerPong` (done) | probe cycle, hedge, transfer lease, cadence | paces the pings of `HeartbeatBudget` | exactness, spacing, bounded detection, all proved |
| `BridgeUpdate` (done) | update and roll-back of an agent, a local model and the service | | one owner, a true report and a bound on the steps of the updater, proved; the updater ends (liveness) |
| `OwnerLease` | lease time, touch throttle, contention probe | `RoomHeartbeat` for pongs | an answering owner keeps its room |
| `RelayHandshake` | awaiting and buffered challenges | | a challenge reaches one waiting client or expires |
| `ClientAdmission`, `ClientChannels` | pairing sockets, capacity, channels | `BridgeGateway` for each channel | one scope per identity |
| `PairRegistry`, `RateLimiter` | claims, mirrors, windows | | at-most-once claim (to be examined) |

Every module takes its sizes, fault switches and times as CONSTANTs with named
assumptions, has one action per operation, and has no recursive operator, so
that it can be proved about.

## 3. The relay room

`RelayRoom.tla` has three groups of variables:

- `platform`: what survives hibernation. `ready`, `role`, `ident`, `marker`
  (`activeClient`) and `retired` (`backendSessionRetired`) of each socket, and
  the stored lease's `owner`.  Sockets are numbered in the order of acceptance,
  which stands for `connectedAt` (assumed distinct).
- `memory`: the fields of `RelayRuntime` and the suspended callbacks (`inFlight`
  for owner frames, `joining` for owner fetches).
- `history`: `lastOwner`, `exchanged` (with which owners each client connection
  has exchanged frames) and `slept` (the active route a room went to sleep
  with).  No guard reads them.

| Action | Code |
|---|---|
| `OwnerJoins`, `OwnerJoinResumes`, `OwnerRecoveryFails` | `fetch` for an owner up to the lease write, after it, and its 503 answer; `replaceGateway`, `retireOwnerClients`, `flushPendingConnectStarts` |
| `OwnerFrame`, `OwnerFrameResumes` | `webSocketMessage` of an owner up to the lease touch; the rest of `handleGatewayMessage`, `routeGatewayControl`, `disconnectClientsForGatewayRestart` |
| `OwnerClosed`, `OwnerClosedPartly` | `removeSocket` of an owner; with a retirement that throws |
| `ClientJoins`, `ClientFrame`, `ClientClosed` | `fetch`, `webSocketMessage` and `removeSocket` for a full client |
| `Alarm` | `alarm` and the prunings of `heartbeat.ts`; the watchdog may close a Hermes owner |
| `Wake`, `ReadStatus` | the constructor's `reconcileSockets`; the Hermes status query |
| `PeerDrops`, `Hibernate`, `Restart` | the platform and the network |

`Backend` chooses the policy: `openclaw` (one active route), `hermes` (requests
routed by origin, watchdog, status query), `local-model` (origin routing,
broadcast updates; `pi`, `codex` and `claude-code` route alike).
`AttachmentMayFail`, `CloseMayFail` and `OwnerCloseMayFail` switch failures that
the code catches: of the write of a tombstone, of the close of a retired client, of
the close of a replaced owner.  `Unclosable` is the set of client connections that
may also stay open when the room drops them *without* a tombstone and catches the
failed `close()`: at a gateway restart (`routing.ts:376-381`), in an alarm
(`heartbeat.ts:157-188`), and as a stale or duplicate socket of a rebuilt room
(`index.ts:575-579`, `storage.ts:156-162`).  Such a connection is open, unretired
and unrouted, and the next rebuilt room may route it again.

Modelling decisions:

- Everything between two `await`s is one action.  The platform may hold events
  back during a storage write, but the code's comments (`routing.ts:259`,
  `index.ts:660`) design for interleaving, and so does the model.
- A lease write counts as durable when it is started: the platform holds
  messages back until it is.  A lease may expire at any moment, so any owner
  may come at any moment; this covers contention too.
- A frame's target (named client, origin of the request, awaiting client) is an
  arbitrary identity.  Which responses may reach it is in `RelayRequests`.
- A room sleeps only with no callback suspended; a restart closes all
  connections without callbacks.
- Dropping the clients one after the other in an alarm is summarised by the set
  of those dropped and any remaining open client as the next active route.  On its
  way the route may have passed over clients dropped later; the marker that it left
  on them is modelled for those whose close may fail (`Passing`), the others close.
- The close of a connection that the same client replaces (`index.ts:400`) is not
  caught: if it threw, `fetch` would reject after the new socket was accepted.  It
  works in the model.
- Left out: pairing sockets, channels, admission limits, rate limits, buffered
  challenges, and delivery of a client's connect start twice.

`OwnerSessions.tla` says what ownership promises, in two actions: owners
succeed one another, and frames pass between the latest owner and client
connections it alone owns.  `RelayRoom!ImplementsOwnerSessions` instantiates it
with `latest <- lastOwner, bound <- BoundOwners`, which is `exchanged` without the
connections in `Unclosable`.

### Runs

| Run | Instance | Shows |
|---|---|---|
| `room_sleep` | hermes, 2 clients, 1 owner identity, 4 connections, of which the second may outlive a close without a tombstone | `WakingStealsNoRoute`: hibernation loses a route at worst, and never gives it away |
| `room_sessions` | local-model, 1 client, 2 owner identities, 4 connections, failing attachment writes and closes of retired clients; the second connection may outlive a close without a tombstone | `OneOwnerPerClientSocket`, `ReplacedOwnerNeverReturns`, `LeaseNamesOwner`, `OnlyTheInstalledOwnerExchanges`, `ImplementsOwnerSessions` |

*Bounds.* `MaxSockets` bounds connections over a whole behaviour, `MaxInFlight`
suspended callbacks of each kind.  Three connections are an owner, its
successor and a client that meets both; four add a second client, or a client
that reconnects, or an owner that returns.  One suspended frame and one
suspended fetch already overlap with every other action.  `Unclosable = {2}` makes
one client, after the first owner, survive while the others do not, so that what it
does to them is seen; `{1, 2, 3}` in `room_sessions` and `{1, 3}` in `room_sleep`
pass as well.  The theorems below have no such bound and are for every
`Unclosable`.

*Fairness.* None is assumed here: these are safety properties, and the room may
stop at any point (`CHECK_DEADLOCK FALSE`: the connections of an instance run
out).  The refinement is of a safety specification.

*What TLC refutes.* One of the three runs that are expected to end in a
violation is about this module, `room_loses_route`: "Routing identity survives
Durable Object hibernation" (`types.ts:81`).  `handleClientConnected` leaves an
in-place reconnection of the active client unmarked.  With another client
connected, the room that wakes has no active route.

A replaced owner is closed, and a close that throws is ignored because
"Current-owner identity already changed" (`control.ts:64`).  The identity changed
in memory only.  `ReplacedOwnerNeverReturns`, in `room_sessions` and as the theorem
`NoReturn`, therefore rests on a close that works for owners
(`OwnerCloseMayFail = FALSE`; clients' retirement is persisted, and their close may
fail).  With `OwnerCloseMayFail = TRUE` and three connections, TLC finds the
replaced owner installed again, as the newest open one, once the new one has gone
and the room is rebuilt.

Two properties except the connections in `Unclosable`, and TLC shows why they must.
Without the exception `OneOwnerPerClientSocket` fails in ten steps: a client has sent
a frame, an alarm drops it and its close fails, the next owner retires the clients
it finds in the routes and so not this one, the room hibernates, and the
constructor routes the open connection to the new owner.  `WakingStealsNoRoute`
fails in seven: an alarm drops two clients one after the other, the route passes over
the second and leaves its marker there, both closes fail, and the room that wakes
finds two routes and takes the marked one.  How likely it is that `close()` throws on
a socket the platform still lists as open is not for this model to say; the code
catches it.

A last observation needs no run.  If a status query or a rebuilt room has
dropped the closing owner first, its close callback retires nobody
(`index.ts:652`).  The clients are retired when the next owner comes, so
`OneOwnerPerClientSocket` still holds.

## 4. The echo budget

`HeartbeatBudget.tla` is one socket's budget: `takeHeartbeatEchoCredit` as the
operators `Anchor`, `Credit`, `Available`, `Allowed` and `NextBudget`; the
handlers as `Echo`, `EchoNotStored` and `Refuse`; a peer that sends pings when it
likes; and a network that keeps their order and delays each by at most
`MaxTransit`.  The history `paced` remembers whether the socket is fresh and its
pings so far were `Cost` apart, `steady` whether `Date.now()` has never stepped back.  The client handler
differs in writing no diagnostic.  `Init` includes the attachment of an older
Relay, which stores only the time of the last ping.

Left out: pings the handler swallows (other sockets, malformed frames), and
stored budgets that are not a pair of integers.  The budget belongs to a
connection: a reconnection has a fresh burst.

`PacedPingsAreAdmitted` speaks of a peer that is `paced`, on a `steady` clock,
whose pings are delayed by no more than the rest of the burst
(`MaxTransit <= MaxCredit - Cost`).  That the real peer is paced is
`EchoesAreSpaced` of `OwnerPong` (section 9): its spacing is one second, the
cost of an echo.  The two meet there, over every order of hedges, ticks and
refreshes.

| Run | Instance | Shows |
|---|---|---|
| `budget` | cost 2, burst 2, delays up to 2, 2 under way, time up to 5 | `EchoesArePaced`, `RefusalsNeedNoWrite`, `PacedPingsAreAdmitted` |

*Bounds.* `MaxTime` and `MaxInTransit` bound the clock and the pings under way.
The credit is full again after `Burst * Cost = 4`, so the time allows for
emptying and refilling it, and the delay is the largest `PacedPingsAreAdmitted`
allows.

## 5. Pending requests

`RelayRequests.tla` is the table of request origins in rooms of every backend
but OpenClaw.  The code keeps it in the attachments and recomputes
`requestClientByReqId` at every use, so the module has the entries (`pending`)
and no map.  `Live`, `Origins`, `Duplicate`, `HasRoom`, `Remembered` and
`Consumed` are the pieces of `pending-requests.ts`; `Request`, `Answer`,
`Reconcile` and the joins and leaves are the handlers that use them.

- A client stands for its routed connection.  `RelayRoom_proofs` shows that an
  open unretired client is routed, so connections that left the routes do not
  come back, and nothing reads their entries.
- `owed` counts the requests of the routed connection less the responses it
  got, also those of the room (`RELAY_REQUEST_CAPACITY`, `BRIDGE_UNAVAILABLE`);
  `asked` is when the unanswered request was passed on or buffered.
- Which request is `storable` (its metadata fits and can be written) is
  arbitrary.  Retirement never fails half way here (`RelayRoom` has that), and
  consuming an entry and sending the answer work.

| Run | Instance | Shows |
|---|---|---|
| `requests` | 2 clients, 2 ids, capacity 1, TTL 2, time up to 4, a clock that steps back | `AnsweredOnlyIfAsked`, `EntriesAreOwed`, and, while the clock is `steady`, `TimelyAnswersArrive` |

*Bounds.* An id more than the capacity fills it; a time of twice the TTL lets a
request expire, its id be used again and that expire too.  `MaxOwed = 2` is an
expired and a fresh request of one id.  Clients and ids are interchangeable
(`SYMMETRY`), and `VIEW` leaves `asked` out once the clock has stepped back:
nothing that is checked then depends on it.  A clock that steps back can lose an answer:
entries from the future do not count, and an id may become ambiguous.  No
answer goes astray then, and no capacity leaks.

## 6. The alarm and the watchdog

`RoomHeartbeat.tla` adds the clock.  A room has one alarm.  When it fires, it
expires the clients whose last pong is too old, sends the others a tick, lets
the watchdog ping or close the bridge (Hermes), and sets the next deadline.
Other events call `ensureHeartbeat`, which keeps a deadline that is ahead and no
later than the one it wants.  The deadline is stored and `lastPongAt` is in the
attachments; what the watchdog knows is memory.

There is no absolute time.  `alarm` is what is left until the deadline,
`sincePong`, `pending` and `sinceOwner` are the ages of `lastPongAt`,
`pendingGatewayPingAt` and `gatewayLastActivityAt`, and `ticks` and `pings` the
ages of questions that peers will still answer.  Ages stop growing where the
code no longer tells them apart (`PongTimeout + 1`, `MaxAge`).

| Action | Code |
|---|---|
| `Alarm` | `alarm`: prune, tick, watchdog, next deadline |
| `ReconcileGatewayLiveness` and the `Watchdog...` operators | the branches of `reconcileGatewayLiveness` |
| `EnsureHeartbeat` | `ensureHeartbeat`, part of every action below |
| `ClientJoins`, `ClientClosed`, `UnroutedClosed` | `fetch` and `removeSocket` |
| `ClientPong` | `acknowledgeClientPong` |
| `OwnerJoins`, `OwnerClosed` | `replaceGateway`, `removeSocket` for an owner |
| `OwnerFrame`, `OwnerPong` | `handleGatewayMessage` |
| `ReadStatus`, `Rebuild` | the status query; the constructor |
| `Pass`, `ClientGoesSilent`, `ClientDrops`, `OwnerGoesSilent`, `OwnerDrops` | time, peers and network |

Modelling decisions:

- The clients have claimed `client-pong` and are past their handshake; others
  are never expired for silence.  There are no pairing sockets.
- The allowance for large transfers only raises the two timeouts, and is left
  out.  So are contention probes: an answer within their deadline is an
  `OwnerFrame`.
- A peer that answers does so within `MaxReply` or `MaxOwnerReply`; one that
  does not is silent or dead.  A bridge may also never have learned to answer
  (`bridge = "ignores"`).
- The owner's admission and the retirement of clients are atomic and work:
  their interleavings and failures are in `RelayRoom`.
- After hibernation `gatewayLastActivityAt` starts from the connection time of
  the owner, so `Rebuild` makes its age as large as it was or larger.

| Run | Instance | Shows |
|---|---|---|
| `heartbeat` | 1 client, interval 4, ping timeout 5, answers within 1, a room that sleeps | `AnsweringClientsStay`, `OnlyDeadBridgesAreClosed`, `SilentClientsGo`, `DeadBridgesGoUnlessForgotten` |
| `watchdog_forgets` (violation) | 1 client, interval 3, ping timeout 2, a room that sleeps | `DeadBridgesGo` fails |

*Bounds.* The configured pong timeout of each instance is shorter than three
intervals, so that the code's own minimum decides.  `heartbeat` meets the proved
condition on the timeouts with equality (12 units), so that one unit of lateness
more would be a violation.  Its ping timeout is longer than the interval, so
that the next deadline is sometimes the tick and sometimes the timeout; in the
other run it is shorter.  `Lateness = 1` lets an alarm be due and not yet
delivered.  Another client acts on this one through the alarm only, and its
joins and closes move the alarm as `UnroutedClosed` does; the proofs are for any
number of clients.

`MaxPostponed = 1` is a restriction worth knowing.  `ensureHeartbeat` keeps only
deadlines that are *ahead* (`scheduledAt > now`, `heartbeat.ts:42`).  An event
that arrives after the deadline and before the alarm is delivered therefore
moves the alarm by a whole interval.  The properties hold if that happens once
between two ticks; with `MaxPostponed = 2` TLC finds an answering client that is
expired, as three intervals of pong timeout then have no room left for the
delays.  The module assumes that the platform does not deliver alarms so late
time after time; for `SilentClientsGo` too, since traffic that always comes just
between deadline and delivery would put the tick off for ever.

*Fairness.* `FairSpec` has weak fairness of `Pass` (time passes), `Alarm` (the
platform delivers an alarm that is due) and of the answers of peers that do
answer.  The last are implied by their time limits, which stop the clock.
Nobody has to connect, to leave or to send: these are never fair.

*What TLC refutes.* `watchdog_forgets`: "closes a gateway after ping timeout only
once gateway_pong support was proven" (`hermes-index.test.ts:1045`).  The
outstanding ping and the proof are memory.  A room that hibernates between ping
and timeout, which `wrangler.hermes.toml` puts 12 s apart, wakes with neither,
pings again, and does so for ever; the dead bridge stays installed.
`DeadBridgesGoUnlessForgotten` is what holds: the bridge goes, or the room has
forgotten what it had proven.

## 7. The bridge and its Gateway

`BridgeGateway.tla` is one `BridgeRuntime` of the OpenClaw bridge: the runtime
of one client channel, or the only one of a bridge without channels.  It keeps a
socket to the Relay and one to the local Gateway, counts the clients the Relay
reports, and queues frames while the Gateway is away.  The state is one record
`s` with the fields of the class; `latest`, `delivered`, `discarded`, `first`,
`challenged`, `unanswered`, `session` and `unaware` are history.  A frame is a
connect request (numbered) or `Other`, which is all the queue looks at.

| Definition | Code (`openclaw/runtime.ts`) |
|---|---|
| `Start`, `Stop`, `RelayReconnects` | `start`, `stop`, the timer of `scheduleRelayReconnect` |
| `RelayOpens`, `RelayDrops`, `RelayCloses` | the socket's handlers in `connectRelay` |
| `ConnectFrame`, `OtherFrame`; `ForwardOrQueue`, `Push`, `Send` | `handleRelayMessage`; `forwardOrQueueGatewayMessage`, `pushPendingGatewayMessage`, `sendToGateway` |
| `ClientCount`; `DemandEnds`, `DemandIs`, `Pruned`, `DropStaleIdleQueue` | `handleRelayControl` and what it calls when the count is zero, positive, or positive again |
| `BootstrapStarts`, `BootstrapEnds` | `handleBootstrapRequest` before and after it awaits the token |
| `ChallengeWaitEnds`; `StartChallengeWait` | `startChallengeWait` and its timer |
| `GatewayOpens`, `GatewayDrops`, `GatewayCloses`, `SupersededCloses`; `Ensure`, `CloseGateway`, `Flush` | the socket's handlers in `ensureGatewayConnected`; `closeGateway`, `flushPendingGatewayMessages` |
| `GatewayRetries` | the timer of `scheduleGatewayReconnect` |
| `Challenge`, `Response`, `StartupResponse`, `StartupRetries` | `handleGatewayMessage`, `scheduleStartupSidecarsConnectRetry` and its timer |

Modelling decisions:

- A socket that is closing (`readyState` CLOSING) still delivers what is in
  flight.  `closeGateway` waits for its close (`boundary`), but
  `ensureGatewayConnected` looks at OPEN only and may open another socket beside
  it; `superseded` is that one, whose late close must change nothing.  The
  branch of `closeGateway` for a socket that reads CLOSED is not reached: `ws`
  reports the close in the step that makes it so.
- A startup retry fires on whatever connection is open then, and repeats the old
  request there; the model lets it.  So is a second connect on one connection,
  when demand returns while the Gateway socket is connecting.
- `stop` does not reset `gatewayCloseExpected`, and the model does not either.
- Left out: the parent that splits frames among client channels, pair decisions,
  doctor and update requests, oversized sends, and a `stop` that waits for
  children.  A `client_connected` with the count 0 is not sent by the Relay.

| Run | Instance | Shows |
|---|---|---|
| `gateway` | 1 client, 2 connect requests, a queue of 2, 1 startup retry, 1 bootstrap | types with the queue limit, `FirstFrameIsConnect`, `LatestConnectIsNotLost`, `NeverStranded`, `ChallengeIsWatched`, `PendingConnectIsTracked`, `SessionLossIsRepaired`, `QueuedConnectIsSent` |
| `gateway_idle` (violation) | 1 client, no connect request | `IdleGatewayCloses` fails |

*Bounds.* The runtime looks at the client count only for zero, so one client
that comes and goes shows every case.  Two connects are what deduplication,
pruning and a full queue choose between; `MaxConnects` bounds them over a
behaviour, other frames are not bounded.  A queue of two overflows by a connect
and by another frame, at the head and behind it.  Sockets, counts, closes and
reconnections are not bounded; the theorems hold for every bound.

*Fairness.* Timers fire (`WF` of the two reconnections; the challenge wait is not
needed).  A closing socket closes, and an attempt to connect ends; a Gateway
that accepted sends its challenge.  `SF` of `GatewayCloses` says that a frame may
fall into the short closing window, but not into every one.  `Reachable` says
that Relay and Gateway accept connections infinitely often if they are asked to
infinitely often; without that nothing can be promised of a queue.  Nothing else
is fair: no client has to come, send or answer, and `Stop` may come at any time.

*What TLC refutes.* `gateway_idle`: "Close idle Gateway sockets once client demand
drops to zero and there is no queued work left to preserve" (the lifecycle
contract, `runtime.ts:1543`).  When the count drops to zero the socket is closed
if it is open.  If it is still connecting nothing is noted, and when it opens
nobody looks at the count: it stays, idle, until the next demand.

## 8. The phone's connection

`GatewayClient.tla` is the mobile application's `GatewayProtocolClient` with the
WebSocket transport it owns, to an OpenClaw Gateway, directly or through the
Relay.  Its handshake is a chain of awaits: the repair of a refused token, the
stored token, a bootstrap credential, the connect response, the write of the
tokens issued.  Meanwhile sockets are replaced, the configuration changes and
the user disconnects.  The state is one record `c`.  What the code tags with
`epoch` and `handshakeSerial` is `"current"` or `"stale"` here: the only
question ever asked of the numbers.

| Definition | Code |
|---|---|
| `Connect`, `Disconnect`, `Reconnect`, `Configure` | the methods of `gateway-client.ts` |
| `Starts`, `StartFails` | `startTransport` after it has awaited the identity |
| `SocketOpens`, `SocketCloses`, `RetryTimer`, `HandshakeTimer`, `FirstFrame` | `ws-base.ts`, `relay-ws.ts`, `direct-ws.ts`, each with what `handleTransportState` makes of it |
| `ReadinessTimer` | the timer of `startReadinessTimer` |
| `Challenge`, `PairingResolved` | `handleTransportMessage` |
| `RepairAwaited`, `TokenRead`, `BootstrapIssued`, `BootstrapDenied` | `resolveConnectPlan` after each of its awaits |
| `ConnectAccepted`, `ConnectRefused`, `TokenPersisted`, `PersistFails` | `handleResponseFrame`, `handleOpenClawChallenge` |
| `Fails`, `Mismatch`, `Repair`, `FailRepair` | `handleHandshakeFailure` by the reason of the refusal |
| `TokenDeleted`, `DeletionFails` | the deletion of the refused token, which nobody awaits but the next handshake |

Modelling decisions:

- The sockets of React Native report a close in the step in which `readyState`
  changes.  A missed heartbeat, the open timer and a frame over the limit have
  the effect of `SocketCloses`.
- `connecting` is also `reconnecting`: the number of attempts is not kept.  There
  is one storage scope.  A repeated challenge with a nonce seen before is
  ignored by the code and left out.
- A challenge without a nonce, and an identity that cannot be loaded on the direct
  route, end the handshake before a credential is chosen (`gateway-client.ts:732-738`).
  `BeginHandshake` has no step of its own for them: their effect is that of `Fails`
  for the reason `"other"`.
- Left out: the health readiness of Hermes, requests of a ready client, transfer
  leases, listeners that call back into the client, and `resetDeviceIdentity`.
- That an attempt *succeeds* is not claimed: it is up to the Gateway.
- Worth knowing: the slot for a repair is one per client, so that switching to
  another Gateway overwrites it (there is one Gateway here); and a failed repair
  outlives a change of credentials (`Configure` keeps `repair`, as the code does).

| Run | Instance | Shows |
|---|---|---|
| `client` | both routes; every configuration and store | types with the deadlines' socket, `ReadyIsAuthenticated`, `DisconnectIsFinal`, `TryingIsWatched`, `OneHandshake`, `RepairIsAwaited`, `RepairIsBounded`, `AttemptsEnd` |

*Bounds.* None but the count of deletions, which stops at two, one more than is
allowed.  Reconnections, stale handshakes and calls of the user are unbounded.
Stale handshakes in the same step are one member of a set; nothing asks how
many there are.

*Fairness.* The reconnect and the readiness timer fire, an attempt to open a
socket succeeds or fails (the transport has a timer for it), and the awaited
identity is loaded or not.  Challenges, responses, the store and the bridge's
credential are not fair: they may never come, which is what `AttemptsEnd` is
about.  It says that an attempt leaves each of its three stages (no socket, one
that opens, an open one); it may fail and be repeated for ever.

## 9. The bridge's heartbeat

`OwnerPong.tla` is how a bridge finds out that its Relay socket is dead:
`RelayOwnerPong` (probe cycles), `RelayTransferLease` (what large frames allow)
and `RelayOwnerCadence` (when to probe), for one socket from `relay.ready` on.
The state is one record `p`.  Every time is what is left or an age, as in
`RoomHeartbeat`.  The code reads the monotonic and the wall clock and takes the
worse; `ahead` says that the wall clock runs ahead by `Jump` (the computer
slept), and every stored deadline remembers where it was (`leftAhead`,
`windowAhead`, `echoAhead`).

| Definition | Code |
|---|---|
| `Tick`; `StartPing`, `Schedule` | `onTick` of the runtimes; `startProtocolPing`, the cadence's `schedule` |
| `ClientCount` | `RelayOwnerCadence.observe` |
| `Hedge`, `Refresh`; `Request`, `FreshEcho` | the two timers; `request`, `scheduleFreshEcho` |
| `CycleEnds`; `Expired`, `Fail` | the timer of a cycle; `isExpired`, `timeout` |
| `Answer`; `ConfirmCycle`, `Confirm` | `handleControl` and `confirmTransportPong` |
| `SendLarge`, `Hint`, `LargeArrives`; `Begin`, `Remaining`, `Grace`, `Latch` | `noteTransfer`, `relay.transfer-start`, `noteFrameReceived`; the methods of the lease |
| `Reconnects` | `dispose` and the next connection |
| `Pass`, `ClockJumps`, `LinkBreaks`; `Through`, `Unsound` | time, the two clocks and the network |

Modelling decisions:

- `Repeats` tells the runtimes whose cadence repeats itself from Hermes, which
  schedules the next probe when the last is proven.
- The network is what `owed` and `blocked` say: on a `sound` link a large frame
  passes within a time that fits its window and answers come `MaxReply` after
  it.  After a clock jump, a broken link or a frame too slow for its window the link
  is not `sound`: answers may come at any time or never.
- Answers with a nonce that is not of the cycle change nothing and are left out.
  That a cycle also remembers the revision of transfers (`fresh`) is redundant
  with the check for incoming bytes; the model has both.
- Left out: the legacy liveness before `relay.ready`, the pongs of the
  local-model runtime, the reconnection delay and diagnostics.

| Run | Instance | Shows |
|---|---|---|
| `owner_pong` | both cadences, idle 3, active 2, timeout 2, spacing 1, window 5, jump 4, lateness 1, answers within 1, transfers up to 1 | types with what excludes what, `ConfirmationsAreExact`, `EchoesAreSpaced`, `SilenceIsNoticed`, `AnsweringRelayIsKept` |

*Bounds.* `MaxTransfer` is the only bound on behaviours.  The times keep the
order of the real ones (spacing < timeout <= active < idle; answer < timeout)
and the window is long enough for a transfer, a refresh and a late timer; `Jump`
is longer than every deadline but the window, and shorter than that.  The
theorems are for all times.

*Fairness.* None: bounded detection is a safety property here.  `silent` is the
time since the last proof, and `Pass` stops for what is due (a timer that is
`Lateness` late, an answer a sound link owes), so that a bound on `silent` says
that the socket has been given up by then.  The documents' "nominally detected
within 5 seconds of cadence plus its existing 5-second probe deadline"
(`docs/3.0/20-connection-diagnostics.md:199`) is `SilenceIsNoticed` with one
window for large frames and the lateness of five timers on top.

## 10. The updater

`BridgeUpdate.tla` is the activation of a staged release: `activateUpdate`, with
the targets `createUpdateTarget` builds.  It stops every runtime that runs, starts
the new release and verifies it, and on any failure stops what it started and
starts the captured release again.  A target has one of three kinds:

- `agent`: Codex, Claude Code and Pi.  Their `start` awaits the child's `ready`
  message and kills a child that does not send it in 150 s.
- `local-model`: spawned and left alone.  It publishes its owner record only when
  its models are ready.
- `openclaw`: the service, which launchd or systemd restarts until it is unloaded.

`proc` has two processes per target, of the captured and of the staged release.  A
*starting* process has no owner record yet, an *up* one has, a *leaving* one was
told to stop.  `expected` and `captured` are the variables the closures of a target
hold; `captured` remembers whether the captured owner still lives, since another
owner has another token.  `stopped`, `started` and `undone` are how far the loops
are, `phase` and `target` where `activateUpdate` awaits what.  `told`, `died` and
`overlooked` are history: no guard reads them.

| Action | Code |
|---|---|
| `Preflight` ... `Reports` | `activateUpdate` between its calls |
| `AskToStop`, `AskFails`, `AnswerIsLost` | `stop` with a live owner: it is asked, the call fails before or after it was heard |
| `OwnerHasExited`, `OwnerDoesNotExit` | `waitForExit` and `forgetOwner` |
| `StopUnregistered`, `ProbeIsRefused`, `ProbeThrows` | `stop` without a live owner |
| `StartReplacement`, `StartCaptured` | `start`, in the two loops |
| `VerifySucceeds`, `VerifyFails` | `verify`, `verifyRestored`, and a `start` that throws |
| `PrepareFails` | `updateStoppedService` of a service that does not run |
| `ComesUp`, `Exits`, `ManagerRestarts` | `registerRuntimeOwner`, a process that dies, `KeepAlive` and `Restart=always` |

Modelling decisions:

- Each wait has a deadline and each call may fail, so every failure is possible at
  any time, and no clock is needed.
- Publishing an owner record and the check before it are one step.  In the code,
  two processes can both read an absent record before either has renamed its own
  into place (`runtime-owner.ts:41-81`); the window is a few file operations.
- `Tell` unloads a service and signals its processes in one step.  A process the
  manager was starting is ended with it.
- Starting a service that runs differs: launchd unloads what it runs first
  (`service.ts:142-152`), while `systemctl enable --now` leaves an active unit alone.
  `Start` has a disjunct for each.
- An agent that was not ready in time is sent a SIGTERM that nobody awaits
  (`codex-lifecycle.ts:60`): `VerifyFails` may leave it as it was, end it on its way
  up, or leave it `leaving` if it had come up in the meantime (`Killed`).
- Targets of equal rank are handled in any order; the code keeps the order in which
  they were discovered.
- Left out: Hermes and its Relay process (`hermes run` replaces whatever runs, and
  a watchdog of the service starts it too), legacy runtimes without owner records,
  manual targets, a crash of the updater, staging, and the status file of remote
  updates.  The loop that restores registrations is unreachable for these targets:
  only `openclaw` has `prepareStopped`, and its restore would have to precede the
  preparation of another target.

| Run | Instance | Shows |
|---|---|---|
| `update` | one target of each kind, any of them running | `ReportIsTrue`, `NeverTwoOwners`, `UpdateEnds` |

*Bounds.* None but the number of targets: every loop of the updater ends, and a
target has at most two processes.  One target of each kind lets every stop, start
and rollback precede or follow one of another kind; the theorems are for any number.

*Fairness.* Weak fairness of `Updater`, since every await of it ends by its own
timer.  The runtimes are not fair: none has to start, to answer or to exit.

*What the properties except, and why.*

- A runtime may die at any time, so `ReportIsTrue` says nothing of a runtime that
  `died` unasked, and a report is true when the updater ends, not for ever.
- `overlooked` are the targets that `stop` took for gone while a process of theirs
  was on its way up or a manager was to start one.  Only these two may have another
  release started beside a live process:
  - *In the rollback, a slow replacement.*  Verification gives up after 30 s; the
    replacement, a local model that loads or an agent that has not heard the SIGTERM,
    has no owner record yet, so that `stop` finds nobody to ask and its probe is
    refused.  The replacement comes up, and the captured release is started beside it
    (`update.ts:221-227`, `302`).  `docs/bridge-updates.md:36` says "An uncertain stop
    never permits another owner": with this exception dropped, TLC refutes
    `NeverTwoOwners` in ten steps.  The one that registers first wins, and `ComesUp` keeps
    the second process from becoming an owner.
  - *A service its manager restarts.*  Its process has died when `stop` looks, so that
    the probe is refused and the service stays loaded; the manager starts it again
    before the updater does.  Without this exception TLC needs seven steps.  It is
    harmless under launchd, which ends what runs, and under systemd leaves the
    captured release running, which verification then reports.

  In the forward transition nothing else is excepted: an agent or a local model is
  never started beside a live one, overlooked or not.

Two observations outside the model.  `acquireUpdateLock` (`update.ts:397-408`)
checks, unlinks and creates the lock file in three steps, so that two updates that
find the lock of a dead one can both pass.  And a stopped Hermes bridge may be
started by the watchdog of the service the updater has restarted, although
configurations that were stopped are meant to stay so.

## 11. Proofs

`tlapm` checks all proofs to the last step.  Every invariant, every action
property and the refinement that a passing run checks is stated by a theorem.

Where the state is one record, a module has one lemma per field that an action
assigns (`SetRetry`: the record with another `retry` is still in `State`), and a
leaf cites those of the fields it touches.  Each operator that ends many handlers
has lemmas of its own, cited by every action that calls it.

**`RelayRoom_proofs.tla`**, for every set of identities, any number of
connections and suspended callbacks, and every backend.  `TypeCorrect`,
`RoutesAreCorrect` and `WakingKeepsTheRoute` need no assumption beyond those on the
constants.  All are for any set `Unclosable` of connections, which they except where
their properties do.  The others assume `~OwnerCloseMayFail`, since they are false otherwise:
for each of them TLC finds a behaviour in which an owner that could not be closed
is installed again (section 3).

That a client connection meets one owner only is not inductive: nothing in it
says that a client the room has lost sight of will not come back.  The
strengthening has two parts.  `Routing` is about clients and holds whichever
attachment writes and closes fail:

- `LiveAreRouted`: in a running room every open client that is neither marked
  retired nor in `Unclosable` is routed, so that the next retirement reaches it;
- `RoutesAreClients`, `OnlyClientsRetired`, `Untouched`, `Asleep`: routes lead
  to unretired client sockets of their identity, and a sleeping room has none.

`IInv` adds to it

- `BoundToLastOwner`: such a client, or a routed one not in `Unclosable`, has talked
  to the owner accepted last only;
- `OpenOwnerIsLast`, `LastOwner`: only that owner is open, only it is
  installed, and the lease is its.

Most actions accept nobody: `QuietSteps` and `QuietOwnerSteps` show, action by
action, that such a step is quiet for the routes and for the owners, and
`QuietPreserves` that quiet steps preserve the invariant.  The two kinds of
admission are proved on their own.  From `IInv` follow `OneOwner`, `LeaseCorrect`
and `NoReturn`, and with a step lemma (`ExchangeStep`) the action property
`OnlyTheInstalledOwner`.

`RoomImplementsOwnerSessions` maps the steps to those of `OwnerSessions`, whose
`latest` is `lastOwner` and whose `bound` is `BoundOwners`.  A step that changes
`lastOwner` accepts an owner, newer than all before it, and passes no frame
(`SuccessionStep`): it is a `Succeed`.  A step that changes `exchanged` is an
`Exchange` with the set of the sockets it changes, by `ExchangeStep`.  Every other
step is a stutter.

`WakingKeepsTheRoute` is about two steps, going to sleep and waking, with a platform
in between that may close sockets.  `MarkersFollow` bridges them: in a running room
no routed socket but that of the active route carries the marker; in a sleeping one
no client that the constructor may route carries it, except the one the room slept
with; connections in `Unclosable` may carry it at any time (`RoutedAreAccepted` and
`ChosenMarkers` keep them apart from the chosen one).  It holds only one way: the
active route may be unmarked, which is what `room_loses_route` shows, and the
constructor then chooses nobody or the only client there is.  It rests on `Routing`
alone.

**`HeartbeatBudget_proofs.tla`**, for every cost, burst, delay and clock bound.

- `Pacing`: a window of the history is paid for: cost times echoes plus the
  remaining credit is at most the burst plus the time since its first echo.
- `RefusalsFree`: the stored and the shadow budget are refills of each other at
  all times, which the refilling function does not tell apart.
- `PacedAdmitted`: the pings of a paced peer under way are in order and `Cost`
  apart, and the credit at the send time of the ping charged last covers its
  lateness; so a late ping finds the credit that has grown while it was late.

**`RelayRequests_proofs.tla`**, for every set of clients and ids, TTL and
capacity.  Every step is of one of five kinds as far as entries go (`Kinds`),
so each invariant has five cases.

- `AtMostOneAnswer`, `CapacityReturns`: every entry stands for an owed request
  and there is one per id and connection, whatever the clock does.
- `TimelyDelivery`: entries expire within the TTL, unexpired entries of one id
  belong to one client, unrouted clients hold none, and a request waited for
  has its entry.  Uniqueness needs a `steady` clock: only then
  is an entry that counts later one that a duplicate was checked against.

**`RoomHeartbeat_proofs.tla`**, for every set of clients and all times.

- `LiveBridgesStay` assumes `PromptBridge`: bridges that answer do so within the
  ping timeout.  `BridgeKnown` says that the room takes only a bridge that
  answers, or has died, for one that has proven it, and that the pending
  ping of an open bridge that answers is still to be answered.
- `AnsweringClientsAreKept` assumes `PromptPeers`: the pong timeout covers the
  latest possible tick and its answer.  The latest tick is an interval with
  lateness, once more for every postponement, and the answer of the bridge that
  resets the deadline.  `SomeAlarm` says that an alarm is set while a client is
  open; `InTime` that a client that answers has a tick under way that will be
  answered in time (`Ticked`), or gets one soon enough (`WillTick`).

**`BridgeGateway_proofs.tla`**, for every number of clients and requests and every
limit.  `Basic` relates the sockets, timers and flags of a runtime (a boundary is
waited for only while the socket closes; an open socket whose handshake has
started has had a connect first; an open Gateway leaves no connect in the queue;
what is unanswered has its entry), `Served` says that
demand has a Gateway socket or a timer, and `Watched` that an unanswered challenge
has its own timer.  `Flush`, `Ensure` and `CloseGateway` have lemmas of their own,
as every handler ends in one of them.  `ConnectComesFirst`, `NobodyIsStranded`,
`ChallengesAreWatched` and `ConnectsAreTracked` follow.

That the latest connect is not lost is not inductive either: flushing sends the last
connect of the queue and drops the earlier ones, and pruning drops what is before
it, either of which could lose the latest from an unordered queue.  `InOrder` says
that the queued connects are in the order of their arrival and that none is later
than the latest (`ConnectsWaitInOrder`, `LatestConnectKept`).

**`GatewayClient_proofs.tla`**, for both routes and behaviours of any length.
`Linked` relates socket, transport phase, timers and state; `Handled` says that
current handshakes are the one in flight, on an open socket, and that none is
past its repair while a deletion runs; `Rooted` says that a transport that is
started has its identity or awaits it.  The user's calls and every failure are
compositions of the same few operators, each with a lemma, so that the proof has
one case per action and few steps in each.  All six invariants follow.

**`OwnerPong_proofs.tla`**, for all times with `Active <= Idle`.

- `Shaped`: what of a cycle, a hedge, a refresh, a window and a tick can be set
  together.
- `Proven`: the probes that may confirm were sent after the last large frame,
  which gives `Exactness`.
- `Paced`: a hedge or refresh that is set is due no sooner than `Spacing` after
  the last echo, which gives `EchoSpacing` on a steady clock.
- `Armed`: while the socket is alive some timer is set, no later than what the
  next stage needs; `Noticed` adds that to the age of the last proof.
  `SilenceNoticed` is the sum.
- `Kept`: an answer a sound link owes comes before the timer of its cycle, also
  where a window has suspended it.  `AnsweringKept` needs `MaxReply < Timeout`.

**`BridgeUpdate_proofs.tla`**, for any set of targets of any kinds.

- `Control` relates the loops: what has been stopped, started and undone in which
  phase, which results a target may have by then, and whom a call is awaited for.
- `Machines` is what makes starting safe: a target that is `Down` (its stop has
  returned and it was not started since) has no process and no manager, at most one
  release of a target lives, and an owner that was asked to stop has no twin that is
  starting.  With `Control` it gives `OneOwner`.
- `Truths` is what the report rests on: only started targets have a process of the
  new release; one that was never asked still runs; one that was verified runs
  unless it died.  It gives `Truthful`.  Its part `Watched` says that until the rollback
  only services are ever overlooked, and that no captured process of another target
  is on its way up: `stop` finds a record whenever an agent or a local model
  lives.  `OneOwner` needs it for the forward transition.
- `UpdaterCountsDown` is the part of `UpdateEnds` that needs no fairness.  The
  loops still to come, the targets the present loop has not dealt with and whether a
  call is awaited are weighed in one number, `Remaining`.  Every step of the updater, failures
  included, lowers it, and no step of a runtime changes it; so the updater takes at most
  twelve steps per target and twelve.  `Control` is what makes a call meet a
  target its loop has not dealt with.  That some step is always possible and is
  taken in the end is what `update` checks under `Fairness`.

**Only model-checked** are the six liveness properties: `SilentClientsGo`,
`DeadBridgesGoUnlessForgotten`, `SessionLossIsRepaired`, `QueuedConnectIsSent`,
`AttemptsEnd` and `UpdateEnds`.  Weak fairness speaks of `ENABLED`, which no
installed prover handles; the invariants they rest on (`NeverStranded`,
`TryingIsWatched`, `ChallengeIsWatched`, `CountsDown`) are proved.  The three properties
that a run refutes are false and have no theorem.  Nothing is proved by induction
over data, and no proof needs it: queues are reasoned about by position.

## 12. Not modelled

The rest of the plan above; data translation (streams, ledgers, histories,
frame parsing), the sessions of the agent backends, user interfaces, service
installation, the Swift client, and the speech worker.  Fault injection stops at
what the code catches: storage that loses a completed write, or a platform that
delivers the events of one socket out of order, is not considered.
