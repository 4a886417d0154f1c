--------------------------- MODULE BridgeGateway ---------------------------
(***************************************************************************)
(* One BridgeRuntime of the OpenClaw bridge: the two sockets it keeps, one *)
(* to the Relay and one to the local Gateway, and what passes from client  *)
(* to Gateway between them.  It is the runtime of one client channel, or   *)
(* the only runtime of a bridge that did not negotiate channels.           *)
(*                                                                         *)
(* A socket is "connecting", "open", "closing" (readyState CLOSING: either *)
(* end has started the close) or "none" (the runtime holds no socket).     *)
(* While the Gateway socket is closing the runtime may open another; what  *)
(* the superseded socket reports later is ignored.  Sockets deliver what   *)
(* is in flight while they are closing.                                    *)
(*                                                                         *)
(* A frame of a client is a connect request, numbered in the order of      *)
(* arrival, or Other.  Heartbeats, pair requests, doctor and update        *)
(* requests do not touch this state; a frame sent fits the limit.          *)
(***************************************************************************)
EXTENDS Integers, Sequences, FiniteSets

CONSTANTS
  MaxClients,       \* bound: client count the Relay reports
  MaxConnects,      \* bound: connect requests
  MaxQueue,         \* MAX_PENDING_GATEWAY_MESSAGES
  MaxRetries,       \* STARTUP_SIDECARS_CONNECT_RETRY_MAX_ATTEMPTS
  MaxBootstraps     \* bound: bootstrap requests in flight

ASSUME QueueAssumption  == MaxQueue \in Nat \ {0}
ASSUME BoundsAssumption == {MaxClients, MaxConnects, MaxRetries, MaxBootstraps} \subseteq Nat

Connects == 1 .. MaxConnects
Other    == 0
Sockets  == {"none", "connecting", "open", "closing"}

VARIABLE s          \* the state of the runtime, a record

vars == <<s>>

State ==
  [stopped    : BOOLEAN,
   relay      : Sockets,                  \* relaySocket and its readyState
   reconnect  : BOOLEAN,                  \* reconnectTimer is set
   gateway    : Sockets,                  \* gatewaySocket and its readyState
   connecting : BOOLEAN,                  \* gatewayConnecting
   boundary   : BOOLEAN,                  \* gatewayCloseBoundaryPending
   expected   : BOOLEAN,                  \* gatewayCloseExpected
   started    : BOOLEAN,                  \* gatewayHandshakeStarted
   retry      : BOOLEAN,                  \* gatewayRetryTimer is set
   wait       : {"none", "current", "stale"}, \* challengeWaitTimer, by its socket
   clients    : 0 .. MaxClients,          \* snapshot.clientCount
   queue      : Seq(Connects \union {Other}), \* pendingGatewayMessages
   inFlight   : SUBSET Connects,          \* keys of inFlightConnectHandshakes
   tries      : [Connects -> 0 .. MaxRetries], \* startupRetryCount
   timers     : SUBSET Connects,          \* startup retries that will fire
   bootstraps : 0 .. MaxBootstraps,       \* bootstrapRequestsInFlight
   superseded : BOOLEAN,  \* a socket the runtime let go of is still closing
   latest     : 0 .. MaxConnects,         \* history: the last connect
   delivered  : SUBSET Connects,          \* history: sent to a Gateway
   discarded  : SUBSET Connects,          \* history: shifted out, or stopped
   first      : {"none", "connect", "other"}, \* history: on this connection
   challenged : BOOLEAN,  \* history: this Gateway's challenge went to the Relay
   unanswered : SUBSET Connects,  \* history: sent on this connection
   session    : BOOLEAN,  \* history: a present client connected over it
   unaware    : BOOLEAN]  \* history: that client's session is gone untold
-----------------------------------------------------------------------------
IsConnect(m)     == m # Other
QueuedConnects(q) == {q[i] : i \in 1 .. Len(q)} \ {Other}
RelayOpen(t)     == t.relay = "open"
GatewayOpen(t)   == t.gateway = "open"

(* shouldKeepGatewayConnected, with the two counts it is always given. *)
Wanted(t) == t.clients > 0 \/ QueuedConnects(t.queue) # {}

(* The connection of the Gateway socket is over, for the history. *)
EndConnection(t, told) ==
  [t EXCEPT !.first = "none", !.challenged = FALSE, !.unanswered = {}, !.session = FALSE,
            !.unaware = ~told /\ (@ \/ t.session)]

(* ensureGatewayConnected *)
Ensure(t) ==
  IF t.stopped \/ ~RelayOpen(t) \/ t.connecting \/ GatewayOpen(t) \/ t.boundary THEN t
  ELSE [EndConnection(t, FALSE) EXCEPT
          !.connecting = TRUE, !.gateway = "connecting",
          !.superseded = @ \/ t.gateway # "none",
          !.wait = IF @ = "none" THEN @ ELSE "stale"]

(* closeGateway.  A socket never reads CLOSED here: ws reports the close   *)
(* in the step that makes it so, and the handler lets go of it.            *)
CloseGateway(t, reconnectAfterClose) ==
  LET idle  == [t EXCEPT !.wait = "none", !.retry = FALSE, !.started = FALSE]
      again == reconnectAfterClose /\ RelayOpen(t) /\ Wanted(t)
      gone  == [idle EXCEPT !.boundary = FALSE, !.connecting = FALSE]
  IN CASE t.gateway = "none"    -> IF again THEN Ensure(gone) ELSE gone
       [] t.gateway = "closing" -> [idle EXCEPT !.boundary = again]
       [] OTHER                 -> [idle EXCEPT !.boundary = again, !.expected = TRUE,
                                                !.gateway = "closing"]

(* pushPendingGatewayMessage *)
PushAlways(t, m) == [t EXCEPT !.queue = Append(@, m)]
PushIfRoom(t, m) == IF Len(t.queue) >= MaxQueue THEN t ELSE [t EXCEPT !.queue = Append(@, m)]
Push(t, m) ==
  IF Len(t.queue) >= MaxQueue
  THEN [t EXCEPT !.queue = Append(Tail(@), m),
                 !.discarded = @ \union ({Head(t.queue)} \ {Other})]
  ELSE [t EXCEPT !.queue = Append(@, m)]

(* sendToGateway, to a Gateway that is open: a connect is recorded under   *)
(* its id before it is sent.                                               *)
Send(t, m) ==
  IF IsConnect(m)
  THEN [t EXCEPT !.wait = "none", !.inFlight = @ \union {m},
                 !.delivered = @ \union {m}, !.unanswered = @ \union {m},
                 !.session = t.clients > 0,
                 !.first = IF @ = "none" THEN "connect" ELSE @]
  ELSE [t EXCEPT !.first = IF @ = "none" THEN "other" ELSE @]

(* forwardOrQueueGatewayMessage *)
ForwardAtOnce(t, m) ==
  CASE t.boundary                         -> Push(t, m)
    [] ~t.boundary /\ ~GatewayOpen(t)     -> Push(Ensure(t), m)
    [] ~t.boundary /\ GatewayOpen(t)      -> Send([t EXCEPT !.started = TRUE], m)
ForwardOrQueue(t, m) ==
  CASE t.boundary                         -> Push(t, m)
    [] ~t.boundary /\ ~GatewayOpen(t)     -> Push(Ensure(t), m)
    [] ~t.boundary /\ GatewayOpen(t) /\ (t.started \/ IsConnect(m))
                                          -> Send([t EXCEPT !.started = TRUE], m)
    [] ~t.boundary /\ GatewayOpen(t) /\ ~t.started /\ ~IsConnect(m)
                                          -> Push(t, m)

(* The index of the latest connect in a queue, 0 when there is none. *)
LatestConnect(q) ==
  IF QueuedConnects(q) = {} THEN 0
  ELSE CHOOSE i \in 1 .. Len(q) :
         IsConnect(q[i]) /\ \A j \in i+1 .. Len(q) : ~IsConnect(q[j])

(* dedupePendingGatewayMessages and flushPendingGatewayMessages, before    *)
(* any frame went to this Gateway: of the connects only the latest is      *)
(* sent, what follows it is sent after it, and the frames before it stay   *)
(* in the queue.                                                           *)
Flush(t) ==
  LET last   == LatestConnect(t.queue)
      before == Cardinality({i \in 1 .. last - 1 : ~IsConnect(t.queue[i])})
      kept   == [i \in 1 .. before |-> Other]
  IN IF last = 0 THEN t
     ELSE Send([t EXCEPT !.queue = kept, !.started = TRUE], t.queue[last])

(* startChallengeWait *)
StartChallengeWait(t) ==
  IF t.stopped \/ ~GatewayOpen(t) \/ ~RelayOpen(t) \/ t.started
       \/ t.bootstraps > 0 \/ t.clients = 0
  THEN [t EXCEPT !.wait = "none"]
  ELSE [t EXCEPT !.wait = "current"]

(* scheduleGatewayReconnect *)
ScheduleForClients(t) ==
  IF ~t.stopped /\ RelayOpen(t) /\ t.clients > 0 THEN [t EXCEPT !.retry = TRUE] ELSE t
ScheduleGatewayReconnect(t) ==
  IF ~t.stopped /\ RelayOpen(t) /\ Wanted(t) THEN [t EXCEPT !.retry = TRUE] ELSE t

(* prunePendingGatewayMessagesForFreshDemand *)
Pruned(q) == LET last == LatestConnect(q) IN IF last = 0 THEN <<>> ELSE SubSeq(q, last, Len(q))

(* dropStaleIdleGatewayQueue *)
DropStaleIdleQueue(t) == IF QueuedConnects(t.queue) = {} THEN [t EXCEPT !.queue = <<>>] ELSE t

(* The client count drops to zero. *)
DemandEnds(t) ==
  LET ended == DropStaleIdleQueue([t EXCEPT !.clients = 0, !.wait = "none", !.started = FALSE,
                                            !.session = FALSE, !.unaware = FALSE])
  IN IF GatewayOpen(ended) /\ ~Wanted(ended) THEN CloseGateway(ended, FALSE)
     ELSE IF Wanted(ended) THEN Ensure(ended) ELSE ended

(* The client count is n > 0; from zero, an open Gateway is recycled. *)
DemandIs(t, n) ==
  LET counted == [t EXCEPT !.clients = n]
  IN Ensure(IF t.clients = 0 /\ GatewayOpen(t)
            THEN CloseGateway([counted EXCEPT !.queue = Pruned(@)], TRUE)
            ELSE counted)
-----------------------------------------------------------------------------
Init ==
  s = [stopped |-> TRUE, relay |-> "none", reconnect |-> FALSE, gateway |-> "none",
       connecting |-> FALSE, boundary |-> FALSE, expected |-> FALSE, started |-> FALSE,
       retry |-> FALSE, wait |-> "none", clients |-> 0, queue |-> <<>>, inFlight |-> {},
       tries |-> [c \in Connects |-> 0], timers |-> {}, bootstraps |-> 0,
       superseded |-> FALSE, latest |-> 0, delivered |-> {}, discarded |-> {},
       first |-> "none", challenged |-> FALSE, unanswered |-> {}, session |-> FALSE,
       unaware |-> FALSE]

(* start *)
Start ==
  /\ s.stopped
  /\ s' = [s EXCEPT !.stopped = FALSE, !.relay = "connecting"]

(* stop, of a runtime without channels; the sockets it lets go of report   *)
(* to handlers that return.  A channel that the Relay retires (409) stops. *)
Stop ==
  /\ ~s.stopped
  /\ s' = [EndConnection(s, TRUE) EXCEPT
             !.stopped = TRUE, !.relay = "none", !.reconnect = FALSE, !.gateway = "none",
             !.connecting = FALSE, !.boundary = FALSE, !.started = FALSE, !.retry = FALSE,
             !.wait = "none", !.clients = 0, !.queue = <<>>, !.inFlight = {},
             !.superseded = @ \/ s.gateway # "none",
             !.discarded = @ \union QueuedConnects(s.queue)]

(* connectRelay from the reconnect timer *)
RelayReconnects ==
  /\ s.reconnect
  /\ s' = [s EXCEPT !.reconnect = FALSE, !.relay = "connecting"]

(* relay.once('open') *)
RelayOpensForClients ==
  /\ s.relay = "connecting"
  /\ LET open == [s EXCEPT !.relay = "open"]
     IN s' = IF open.clients > 0 THEN Ensure(open) ELSE open
RelayOpens ==
  /\ s.relay = "connecting"
  /\ LET open == [s EXCEPT !.relay = "open"]
     IN s' = IF Wanted(open) THEN Ensure(open) ELSE open

(* The peer starts a close, an upgrade is refused, a heartbeat is missed,  *)
(* or a frame over the limit ends the connection.                          *)
RelayDrops ==
  /\ s.relay \in {"connecting", "open"}
  /\ s' = [s EXCEPT !.relay = "closing"]

(* relay.once('close') *)
RelayCloses ==
  /\ s.relay # "none"
  /\ s' = CloseGateway([s EXCEPT !.relay = "none", !.reconnect = TRUE, !.clients = 0,
                                 !.session = FALSE, !.unaware = FALSE], FALSE)

(* handleRelayMessage *)
RelayDelivers == s.relay \in {"open", "closing"}

ConnectFrame ==
  /\ RelayDelivers
  /\ s.latest < MaxConnects
  /\ s' = ForwardOrQueue([s EXCEPT !.latest = @ + 1], s.latest + 1)

OtherFrame ==
  /\ RelayDelivers
  /\ s' = ForwardOrQueue(s, Other)

(* handleRelayControl: client_connected and client_count; without a count  *)
(* it is the last one, and at least 1.  client_disconnected is the count 0.*)
ClientCount(n) ==
  /\ RelayDelivers
  /\ s' = IF n = 0 THEN DemandEnds(s) ELSE DemandIs(s, n)

(* handleBootstrapRequest, until the token is awaited, and from there on.  *)
BootstrapStarts ==
  /\ RelayDelivers
  /\ s.bootstraps < MaxBootstraps
  /\ s' = [s EXCEPT !.bootstraps = @ + 1, !.wait = "none"]

BootstrapForgetsWait ==
  /\ s.bootstraps > 0
  /\ s' = [s EXCEPT !.bootstraps = @ - 1]
BootstrapEnds ==
  /\ s.bootstraps > 0
  /\ s' = StartChallengeWait([s EXCEPT !.bootstraps = @ - 1])

(* startChallengeWait's timer: a Gateway that was superseded is not judged.*)
ChallengeWaitEnds ==
  /\ s.wait # "none"
  /\ s' = IF s.wait = "current" /\ ~s.started /\ s.clients > 0 /\ s.relay # "none"
          THEN [s EXCEPT !.wait = "none", !.relay = "closing"]
          ELSE [s EXCEPT !.wait = "none"]
-----------------------------------------------------------------------------
(* gateway.once('open') *)
GatewayOpens ==
  /\ s.gateway = "connecting"
  /\ s' = Flush([s EXCEPT !.gateway = "open", !.connecting = FALSE, !.started = FALSE,
                          !.boundary = FALSE, !.expected = FALSE])

(* The Gateway starts a close, or sends a frame over the limit. *)
GatewayDrops ==
  /\ GatewayOpen(s)
  /\ s' = [s EXCEPT !.gateway = "closing"]

(* gateway.once('close') of the socket the runtime holds.  The clients are *)
(* told unless the runtime closed it, while the Relay socket is open.      *)
GatewayClosesUntold ==
  /\ s.gateway # "none"
  /\ LET again  == s.boundary /\ Wanted(s)
         told   == FALSE
         closed == [EndConnection(s, told) EXCEPT
                      !.gateway = "none", !.connecting = FALSE, !.started = FALSE,
                      !.boundary = FALSE, !.expected = FALSE, !.wait = "none",
                      !.inFlight = {}]
     IN s' = IF again THEN Ensure(closed) ELSE ScheduleGatewayReconnect(closed)
GatewayCloses ==
  /\ s.gateway # "none"
  /\ LET again  == s.boundary /\ Wanted(s)
         told   == ~s.expected /\ s.clients > 0 /\ RelayOpen(s)
         closed == [EndConnection(s, told) EXCEPT
                      !.gateway = "none", !.connecting = FALSE, !.started = FALSE,
                      !.boundary = FALSE, !.expected = FALSE, !.wait = "none",
                      !.inFlight = {}]
     IN s' = IF again THEN Ensure(closed) ELSE ScheduleGatewayReconnect(closed)

(* gateway.once('close') of a socket the runtime has let go of. *)
SupersededClosesAll ==
  /\ s.superseded
  /\ \E more \in BOOLEAN : s' = [s EXCEPT !.superseded = more, !.inFlight = {}]
SupersededCloses ==
  /\ s.superseded
  /\ \E more \in BOOLEAN : s' = [s EXCEPT !.superseded = more]

(* scheduleGatewayReconnect's timer *)
GatewayRetries ==
  /\ s.retry
  /\ s' = Ensure([s EXCEPT !.retry = FALSE])

(* handleGatewayMessage, for a Relay socket that is open: the challenge of *)
(* this connection, and responses to connects.                             *)
GatewayDelivers == s.gateway \in {"open", "closing"} /\ ~s.connecting /\ RelayOpen(s)

Challenge ==
  /\ GatewayDelivers
  /\ ~s.challenged
  /\ s' = StartChallengeWait([s EXCEPT !.challenged = TRUE, !.unaware = FALSE])

Response(c) ==
  /\ GatewayDelivers
  /\ c \in s.unanswered
  /\ s' = [s EXCEPT !.inFlight = @ \ {c}, !.unanswered = @ \ {c}]

(* scheduleStartupSidecarsConnectRetry swallows the response, and its      *)
(* timer sends the request again.                                          *)
StartupResponse(c) ==
  /\ GatewayDelivers
  /\ c \in s.unanswered \intersect s.inFlight
  /\ IF s.tries[c] < MaxRetries /\ GatewayOpen(s)
     THEN s' = [s EXCEPT !.tries[c] = @ + 1, !.timers = @ \union {c}, !.unanswered = @ \ {c}]
     ELSE s' = [s EXCEPT !.inFlight = @ \ {c}, !.unanswered = @ \ {c}]

StartupRetries(c) ==
  /\ c \in s.timers
  /\ s' = IF ~s.stopped /\ c \in s.inFlight /\ GatewayOpen(s)
          THEN [s EXCEPT !.timers = @ \ {c}, !.unanswered = @ \union {c},
                         !.first = IF @ = "none" THEN "connect" ELSE @]
          ELSE [s EXCEPT !.timers = @ \ {c}]
-----------------------------------------------------------------------------
RelaySide ==
  \/ Start \/ Stop \/ RelayReconnects \/ RelayOpens \/ RelayDrops \/ RelayCloses
  \/ ConnectFrame \/ OtherFrame
  \/ \E n \in 0 .. MaxClients : ClientCount(n)
  \/ BootstrapStarts \/ BootstrapEnds \/ ChallengeWaitEnds
GatewaySide ==
  \/ GatewayOpens \/ GatewayDrops \/ GatewayCloses \/ SupersededCloses
  \/ GatewayRetries \/ Challenge
  \/ \E c \in Connects : Response(c) \/ StartupResponse(c) \/ StartupRetries(c)
Next == RelaySide \/ GatewaySide

(* Timers fire, a socket that is closing closes, an attempt to connect     *)
(* succeeds or fails, and a Gateway that accepted a connection sends its   *)
(* challenge.  The window in which a Gateway socket is closing is short: a *)
(* frame may fall into it, but not into every one.                         *)
Fairness ==
  /\ WF_vars(RelayReconnects)
  /\ WF_vars(s.relay = "closing" /\ RelayCloses)
  /\ WF_vars(GatewayRetries)
  /\ SF_vars(s.gateway = "closing" /\ GatewayCloses)
  /\ WF_vars(s.gateway = "connecting" /\ (GatewayOpens \/ GatewayCloses))
  /\ WF_vars(Challenge)

(* The network is back again and again: the Relay and the Gateway accept   *)
(* connections infinitely often if they are asked infinitely often.        *)
Reachable == SF_vars(RelayOpens) /\ SF_vars(GatewayOpens)

Spec == Init /\ [][Next]_vars /\ Fairness /\ Reachable
-----------------------------------------------------------------------------
TypeOK == s \in State /\ Len(s.queue) <= MaxQueue

(* A Gateway connection starts with a connect request, whatever the queue  *)
(* held and whoever left or came while it was opening                      *)
(* (gatewayHandshakeStarted, runtime.ts:810).                              *)
FirstFrameIsConnect == s.first # "other"

(* While the Gateway is reopening, connect frames are queued and not       *)
(* dropped (the lifecycle contract, point 4): the latest connect waits or  *)
(* was sent, unless 256 later frames pushed it out or the runtime stopped. *)
LatestConnectIsNotLost ==
  s.latest \in {0} \union QueuedConnects(s.queue) \union s.delivered \union s.discarded

(* A client that is there, or a connect that waits, always has a Gateway   *)
(* socket or a timer that opens one.                                       *)
NeverStranded == RelayOpen(s) /\ Wanted(s) => s.gateway # "none" \/ s.retry

(* A client that was shown a challenge and has not answered it is watched: *)
(* the Relay socket will be recycled (startChallengeWait).                 *)
Unanswered == GatewayOpen(s) /\ RelayOpen(s) /\ s.challenged /\ ~s.started /\ s.clients > 0
ChallengeIsWatched == Unanswered /\ s.bootstraps = 0 => s.wait = "current"

(* The response to a connect is recognised, whatever older sockets report  *)
(* meanwhile: what was sent on this connection has its entry.              *)
PendingConnectIsTracked == s.unanswered \subseteq s.inFlight

(* A client whose Gateway session ended learns of it: it is told to        *)
(* reconnect, is shown the challenge of the next connection, or loses its  *)
(* own connection.                                                         *)
SessionLossIsRepaired == s.unaware ~> ~s.unaware

(* The latest connect that waits is sent in the end, if the Relay and the  *)
(* Gateway can be reached (the lifecycle contract, points 1 and 4).        *)
QueuedConnectIsSent ==
  \A c \in Connects :
    (s.latest = c /\ c \in QueuedConnects(s.queue)) ~> (s.latest # c \/ c \notin QueuedConnects(s.queue))

(* "Close idle Gateway sockets once client demand drops to zero and there  *)
(* is no queued work left to preserve" (the lifecycle contract, point 2).  *)
IdleGateway       == GatewayOpen(s) /\ s.clients = 0 /\ s.queue = <<>>
IdleGatewayCloses == IdleGateway ~> ~IdleGateway
=============================================================================
