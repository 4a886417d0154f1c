--------------------------- MODULE GatewayClient ---------------------------
(***************************************************************************)
(* The connection of the mobile application to an OpenClaw Gateway:        *)
(* GatewayProtocolClient and the WebSocket transport it owns, directly or  *)
(* through the Relay.  The handshake is a chain of awaits (the repair of a *)
(* refused device token, the stored token, a bootstrap credential, the     *)
(* connect response, the write of the tokens it issues); meanwhile sockets *)
(* are replaced, the configuration changes and the user disconnects.       *)
(*                                                                         *)
(* What is tagged with the epoch and the handshake serial is "current" or  *)
(* "stale".  A socket is "none", "connecting" or "open": a close is        *)
(* reported in the step that makes it so.  States that differ only in the  *)
(* number of attempts are one: "connecting" is also reconnecting.  The     *)
(* identity a handshake signs with is loaded when the transport is opened. *)
(***************************************************************************)
EXTENDS Naturals

CONSTANT Routes     \* the routes of the configurations: TRUE is the Relay

ASSUME RoutesAssumption == Routes \subseteq BOOLEAN

VARIABLE c          \* the state of the client, a record

vars == <<c>>

Tags       == {"current", "stale"}
Handshakes == [step : {"repair", "token", "bootstrap", "connect", "persist"}, of : Tags,
               auth : {"none", "device", "bootstrap", "setup", "other"}]

State ==
  [relay      : Routes,                \* config: through the Relay
   legacy     : BOOLEAN,               \* config: a token or a password
   bootstrap  : BOOLEAN,               \* config: a bootstrap credential can be had
   state      : {"idle", "closed", "connecting", "challenging", "pairing", "ready"},
   closed     : BOOLEAN,               \* manuallyClosed
   identity   : BOOLEAN,               \* #identity is loaded
   starting   : SUBSET Tags,           \* startTransport awaits the identity
   transport  : BOOLEAN,               \* #transport
   phase      : {"down", "handshaking", "ready", "closed"},  \* its currentState
   socket     : {"none", "connecting", "open"},
   retry      : BOOLEAN,               \* reconnectTimer
   timer      : BOOLEAN,               \* handshakeTimer, firstFrameTimer
   readiness  : {"none"} \union Tags,  \* readinessTimer
   handshakes : SUBSET Handshakes,     \* suspended handleOpenClawChallenge
   inFlight   : BOOLEAN,               \* connectRequestInFlight
   completed  : BOOLEAN,               \* connectRequestCompleted
   pairing    : BOOLEAN,               \* pairingPending
   disabled   : BOOLEAN,               \* bootstrapDisabledForConfig
   stored     : BOOLEAN,               \* the credential store holds a token
   repair     : {"none", "pending", "cleared", "failed"},  \* deviceTokenRepair
   deleting   : SUBSET Tags,           \* deletions of the stored token
   attempted  : BOOLEAN,               \* deviceTokenRepairAttempted
   accepted   : BOOLEAN,    \* history: a connect was accepted on this socket
   deletions  : 0 .. 2]     \* history: since connect() or the last success
-----------------------------------------------------------------------------
Trying(t) == t.state \in {"connecting", "challenging", "pairing"}

Stale(tags) == {"stale" : tag \in tags}

(* handshakeSerial += 1, and epoch += 1.  What a stale handshake           *)
(* authenticated with is never asked again.                                *)
NextSerial(t) ==
  [t EXCEPT !.handshakes = {[h EXCEPT !.of = "stale", !.auth = "none"] : h \in @},
            !.readiness = IF @ = "none" THEN @ ELSE "stale", !.deleting = Stale(@)]
NextEpoch(t) == [NextSerial(t) EXCEPT !.starting = Stale(@)]

(* isCurrentHandshake *)
AlwaysCurrent(t, of) == t.socket = "open"
IsCurrent(t, of)     == of = "current" /\ ~t.closed /\ t.socket = "open"

(* rejectPendingRequests and rejectPendingControls, after the handshakes   *)
(* that wait have become stale: a bootstrap request that is rejected       *)
(* disables bootstrapping where there is a legacy credential.              *)
RejectPending(t) ==
  [t EXCEPT !.handshakes = {h \in @ : h.step \notin {"connect", "bootstrap"}},
            !.disabled = @ \/ (t.legacy /\ \E h \in t.handshakes : h.step = "bootstrap")]

(* BaseWebSocketTransport: openConnection, closeCurrentSocket,             *)
(* scheduleReconnect, forceReconnect, reconnect and disconnect, each with  *)
(* what handleTransportState and the retirement listener make of it.       *)
OpenConnection(t)  == [t EXCEPT !.socket = "connecting", !.phase = "down", !.state = "connecting"]
CloseSocketOnly(t) == [t EXCEPT !.socket = "none"]
CloseSocket(t)     == [t EXCEPT !.socket = "none", !.timer = FALSE]
ForceReconnect(t) ==
  [RejectPending(NextSerial(CloseSocket(t))) EXCEPT
     !.retry = TRUE, !.phase = "down", !.inFlight = FALSE, !.completed = FALSE,
     !.readiness = "none", !.state = IF t.pairing THEN "pairing" ELSE "connecting"]
ReconnectTransport(t)  == OpenConnection(RejectPending([CloseSocket(t) EXCEPT !.retry = FALSE]))
DisconnectTransport(t) ==
  [RejectPending(CloseSocket(t)) EXCEPT
     !.retry = FALSE, !.phase = "closed", !.readiness = "none", !.state = "closed"]

(* stopTransport, whose listeners are gone *)
StopTransport(t) == [CloseSocket(t) EXCEPT !.transport = FALSE, !.retry = FALSE, !.phase = "closed"]

(* startTransport up to its await, and installTransport *)
InstallTransport(t) == OpenConnection([StopTransport(t) EXCEPT !.transport = TRUE])
StartTransport(t) ==
  IF t.relay /\ ~t.identity THEN [t EXCEPT !.starting = @ \union {"current"}]
  ELSE InstallTransport(t)

(* connect *)
ConnectClient(t) ==
  IF t.state \notin {"idle", "closed"} THEN t
  ELSE StartTransport([NextEpoch(t) EXCEPT
         !.closed = FALSE, !.pairing = FALSE, !.attempted = FALSE, !.state = "connecting",
         !.deletions = 0])

(* disconnect *)
DisconnectClient(t) ==
  [StopTransport(RejectPending(NextEpoch(t))) EXCEPT
     !.closed = TRUE, !.pairing = FALSE, !.readiness = "none", !.state = "closed"]

(* reconnect *)
ReconnectClient(t) ==
  LET again == [RejectPending(NextSerial(t)) EXCEPT
                  !.closed = FALSE, !.pairing = FALSE, !.completed = FALSE,
                  !.inFlight = FALSE, !.readiness = "none"]
  IN IF t.transport THEN ReconnectTransport(again)
     ELSE ConnectClient([again EXCEPT !.state = "closed"])

(* recycleTransport, for the current handshake *)
Recycle(t) == ReconnectTransport([NextSerial(t) EXCEPT !.readiness = "none"])

(* handleTransportOpen *)
TransportOpenUnwatched(t) ==
  [NextSerial(t) EXCEPT !.inFlight = FALSE, !.completed = FALSE, !.accepted = FALSE]
TransportOpen(t) ==
  [NextSerial(t) EXCEPT !.inFlight = FALSE, !.completed = FALSE, !.readiness = "current",
                        !.accepted = FALSE]

(* markReady, and the "ready" it reports *)
MarkReady(t) ==
  IF t.socket # "open" THEN t
  ELSE [t EXCEPT !.phase = "ready", !.state = "ready", !.readiness = "none",
                 !.timer = @ /\ ~t.relay]

(* failDeviceTokenRepair *)
FailRepair(t) == DisconnectClient([t EXCEPT !.repair = "none"])

(* handleOpenClawChallenge starts; it waits for a repair first             *)
(* (resolveConnectPlan).                                                   *)
BeginAtOnce(t) ==
  [t EXCEPT !.inFlight = TRUE, !.timer = @ /\ t.relay,
            !.handshakes = @ \union {[step |-> "token", of |-> "current", auth |-> "none"]}]
BeginHandshake(t) ==
  [t EXCEPT !.inFlight = TRUE, !.timer = @ /\ t.relay,
            !.handshakes = @ \union {[step |-> IF t.repair = "none" THEN "token" ELSE "repair",
                                      of |-> "current", auth |-> "none"]}]

(* The backend behind the Relay was replaced: handleTransportMessage runs  *)
(* the handshake again on the same socket.                                 *)
RestartBackend(t) ==
  [TransportOpen(RejectPending(t)) EXCEPT
     !.state = IF t.pairing THEN "pairing" ELSE "challenging", !.phase = "handshaking",
     !.timer = TRUE]

(* handleHandshakeFailure and the finally of the current handshake, by     *)
(* what the Gateway refused it for.                                        *)
Over(t, h) == [t EXCEPT !.handshakes = @ \ {h}]

Repair(t) ==
  [t EXCEPT !.attempted = TRUE, !.repair = "pending", !.deleting = @ \union {"current"},
            !.inFlight = FALSE, !.deletions = IF @ < 2 THEN @ + 1 ELSE @]
MismatchEveryTime(t, auth) == IF auth # "device" THEN FailRepair(t) ELSE Repair(t)
Mismatch(t, auth) == IF auth # "device" \/ t.attempted THEN FailRepair(t) ELSE Repair(t)

Fails(t, h, why) ==
  LET over == Over(t, h)
  IN CASE why = "rejected" -> FailRepair(over)
       [] why = "mismatch" -> Mismatch(over, h.auth)
       [] why = "pairing"  -> [over EXCEPT !.pairing = TRUE, !.state = "pairing",
                                           !.inFlight = FALSE]
       [] why = "fatal"    -> [DisconnectTransport(over) EXCEPT !.inFlight = FALSE]
       [] why = "schema"   -> Recycle([over EXCEPT !.disabled =
                                @ \/ (t.legacy /\ h.auth \in {"bootstrap", "setup"})])
       [] why = "other"    -> Recycle(over)

(* The end of handleOpenClawChallenge after its tokens are written: mobile *)
(* setup connects again with the operator token it was issued.             *)
Succeeds(t, h, issued) ==
  IF h.auth = "setup" THEN IF issued THEN ReconnectClient(Over(t, h)) ELSE Fails(t, h, "other")
  ELSE MarkReady([Over(t, h) EXCEPT !.completed = TRUE, !.attempted = FALSE, !.pairing = FALSE,
                                    !.inFlight = FALSE, !.deletions = 0])
-----------------------------------------------------------------------------
Init ==
  \E relay \in Routes, legacy, bootstrap, identity, stored \in BOOLEAN :
    c = [relay |-> relay, legacy |-> legacy, bootstrap |-> bootstrap, state |-> "idle",
         closed |-> FALSE, identity |-> identity, starting |-> {}, transport |-> FALSE,
         phase |-> "closed", socket |-> "none", retry |-> FALSE, timer |-> FALSE,
         readiness |-> "none", handshakes |-> {}, inFlight |-> FALSE, completed |-> FALSE,
         pairing |-> FALSE, disabled |-> FALSE, stored |-> stored, repair |-> "none",
         deleting |-> {}, attempted |-> FALSE, accepted |-> FALSE, deletions |-> 0]

Connect    == c' = ConnectClient(c)
Disconnect == c' = DisconnectClient(c)
Reconnect  == c' = ReconnectClient(c)

(* configure with another credential for the same Gateway *)
Configure ==
  LET changed == [NextEpoch(c) EXCEPT !.disabled = FALSE, !.attempted = FALSE,
                                      !.pairing = FALSE, !.readiness = "none", !.deletions = 0]
  IN \E legacy, bootstrap \in BOOLEAN :
       c' = [StopTransport(RejectPending([changed EXCEPT !.legacy = legacy])) EXCEPT
               !.bootstrap = bootstrap,
               !.state = IF @ = "idle" /\ ~c.transport THEN @ ELSE "closed"]

(* startTransport after its await *)
StartsAnyway(tag) ==
  /\ tag \in c.starting
  /\ c' = InstallTransport([c EXCEPT !.identity = TRUE, !.starting = @ \ {tag}])
Starts(tag) ==
  /\ tag \in c.starting
  /\ LET loaded == [c EXCEPT !.identity = TRUE, !.starting = @ \ {tag}]
     IN c' = IF tag = "stale" \/ c.closed THEN loaded ELSE InstallTransport(loaded)

StartFails(tag) ==
  /\ tag \in c.starting
  /\ LET over == [c EXCEPT !.starting = @ \ {tag}]
     IN c' = IF tag = "stale" \/ c.closed THEN over ELSE [over EXCEPT !.state = "closed"]

(* onopen *)
SocketOpens ==
  /\ c.socket = "connecting"
  /\ c' = TransportOpen([c EXCEPT !.socket = "open", !.phase = "handshaking", !.timer = TRUE,
                                  !.state = IF c.pairing THEN "pairing" ELSE "challenging"])

(* onclose; the open timer, a heartbeat that is missed and a frame over    *)
(* the limit have the same effect.                                         *)
SocketCloses ==
  /\ c.socket # "none"
  /\ c' = ForceReconnect(c)

RetryTimer ==
  /\ c.retry
  /\ c' = OpenConnection([c EXCEPT !.retry = FALSE])

(* The Relay's handshake timer, or the first-frame timer *)
HandshakeTimer ==
  /\ c.timer
  /\ c' = IF c.socket # "open" \/ c.phase = "ready" THEN [c EXCEPT !.timer = FALSE]
          ELSE ForceReconnect(c)

(* The first frame over a direct socket ends its timer, whatever it says. *)
FirstFrame ==
  /\ c.timer /\ ~c.relay
  /\ c' = [c EXCEPT !.timer = FALSE]

(* readinessTimer *)
ReadinessTimerReports ==
  /\ c.readiness # "none"
  /\ c' = [c EXCEPT !.readiness = "none"]
ReadinessTimer ==
  /\ c.readiness # "none"
  /\ LET fired == [c EXCEPT !.readiness = "none"]
     IN c' = IF IsCurrent(c, c.readiness) /\ c.state # "ready" THEN Recycle(fired) ELSE fired

(* handleTransportMessage: a challenge with a nonce not seen yet *)
ChallengeUnguarded ==
  /\ c.socket = "open"
  /\ c' = CASE c.completed /\ ~c.relay -> ReconnectClient(c)
            [] c.completed /\ c.relay  -> BeginHandshake(RestartBackend(c))
            [] ~c.completed            -> BeginHandshake(c)
Challenge ==
  /\ c.socket = "open"
  /\ ~c.inFlight
  /\ c' = CASE c.completed /\ ~c.relay -> ReconnectClient(c)
            [] c.completed /\ c.relay  -> BeginHandshake(RestartBackend(c))
            [] ~c.completed            -> BeginHandshake(c)

(* An event resolves the pairing request of this client. *)
PairingResolved(approved) ==
  /\ c.socket = "open" /\ c.pairing
  /\ LET resolved == [c EXCEPT !.pairing = FALSE, !.timer = @ /\ c.relay]
     IN c' = IF approved THEN ReconnectClient(resolved) ELSE resolved
-----------------------------------------------------------------------------
(* The steps of a handshake.  One that is stale ends at its next           *)
(* assertCurrentHandshake, and its failure is ignored.                     *)
At(h, step) == h \in c.handshakes /\ h.step = step

Proceed(t, h, step, auth) ==
  [Over(t, h) EXCEPT !.handshakes = @ \union {[step |-> step, of |-> "current", auth |-> auth]}]

RepairAwaited(h) ==
  /\ At(h, "repair") /\ c.repair # "pending"
  /\ c' = CASE ~IsCurrent(c, h.of)                           -> Over(c, h)
            [] IsCurrent(c, h.of) /\ c.repair = "failed" -> FailRepair(Over(c, h))
            [] IsCurrent(c, h.of) /\ c.repair # "failed" ->
                 Proceed([c EXCEPT !.repair = "none"], h, "token", "none")

(* The stored token is read, if it can be; else a credential is chosen. *)
TokenRead(h, found) ==
  /\ At(h, "token") /\ (found => c.stored)
  /\ IF ~IsCurrent(c, h.of) THEN c' = Over(c, h)
     ELSE CASE found -> c' = Proceed(c, h, "connect", "device")
            [] ~found /\ c.bootstrap /\ c.relay /\ ~c.disabled ->
                 c' = Proceed(c, h, "bootstrap", "none")
            [] ~found /\ c.bootstrap /\ ~c.relay ->
                 \E auth \in {"bootstrap", "setup"} : c' = Proceed(c, h, "connect", auth)
            [] ~found /\ (~c.bootstrap \/ (c.relay /\ c.disabled)) ->
                 c' = Proceed(c, h, "connect", "other")

(* bootstrap.issued; bootstrap.error, or no answer in time *)
BootstrapIssued(h) ==
  /\ At(h, "bootstrap") /\ IsCurrent(c, h.of)
  /\ \E auth \in {"bootstrap", "setup"} : c' = Proceed(c, h, "connect", auth)

BootstrapDenied(h) ==
  /\ At(h, "bootstrap") /\ IsCurrent(c, h.of)
  /\ c' = IF c.legacy THEN Proceed([c EXCEPT !.disabled = TRUE], h, "connect", "other")
          ELSE Fails(c, h, "other")

(* The response to the connect request, or none in time *)
ConnectAccepted(h, issued) ==
  /\ At(h, "connect") /\ IsCurrent(c, h.of)
  /\ LET accepted == [c EXCEPT !.accepted = TRUE]
     IN c' = IF issued THEN Proceed(accepted, h, "persist", h.auth)
             ELSE Succeeds(accepted, h, FALSE)

ConnectRefused(h, why) ==
  /\ At(h, "connect") /\ IsCurrent(c, h.of)
  /\ c' = Fails(c, h, why)

(* The write of the issued tokens ends; it is not taken back. *)
TokenPersisted(h) ==
  /\ At(h, "persist")
  /\ LET written == [c EXCEPT !.stored = TRUE]
     IN c' = IF IsCurrent(c, h.of) THEN Succeeds(written, h, TRUE) ELSE Over(written, h)

PersistFails(h) ==
  /\ At(h, "persist")
  /\ c' = IF IsCurrent(c, h.of) THEN Fails(c, h, "other") ELSE Over(c, h)

(* The deletion of the refused token ends. *)
TokenDeleted(tag) ==
  /\ tag \in c.deleting
  /\ LET done == [c EXCEPT !.deleting = @ \ {tag}, !.stored = FALSE, !.repair = "cleared"]
     IN c' = IF IsCurrent(c, tag) THEN Recycle(done) ELSE done

DeletionFails(tag) ==
  /\ tag \in c.deleting
  /\ LET done == [c EXCEPT !.deleting = @ \ {tag}, !.repair = "failed"]
     IN c' = IF IsCurrent(c, tag) THEN FailRepair(done) ELSE done
-----------------------------------------------------------------------------
Reasons == {"rejected", "mismatch", "pairing", "fatal", "schema", "other"}

HandshakeStep(h) ==
  \/ RepairAwaited(h) \/ \E found \in BOOLEAN : TokenRead(h, found)
  \/ BootstrapIssued(h) \/ BootstrapDenied(h)
  \/ \E issued \in BOOLEAN : ConnectAccepted(h, issued)
  \/ \E why \in Reasons : ConnectRefused(h, why)
  \/ TokenPersisted(h) \/ PersistFails(h)

Next ==
  \/ Connect \/ Disconnect \/ Reconnect \/ Configure
  \/ \E tag \in Tags : Starts(tag) \/ StartFails(tag) \/ TokenDeleted(tag) \/ DeletionFails(tag)
  \/ SocketOpens \/ SocketCloses \/ RetryTimer
  \/ HandshakeTimer \/ FirstFrame \/ ReadinessTimer
  \/ Challenge \/ \E approved \in BOOLEAN : PairingResolved(approved)
  \/ \E h \in Handshakes : HandshakeStep(h)

(* Timers fire, an attempt to open a socket ends, and the identity is      *)
(* loaded or not.                                                          *)
Fairness ==
  /\ WF_vars(RetryTimer)
  /\ WF_vars(ReadinessTimer)
  /\ WF_vars(c.socket = "connecting" /\ (SocketOpens \/ SocketCloses))
  /\ WF_vars(Starts("current") \/ StartFails("current"))

Spec == Init /\ [][Next]_vars /\ Fairness
-----------------------------------------------------------------------------
(* A deadline of the handshake belongs to a socket that is open. *)
TypeOK == c \in State /\ (c.timer \/ c.readiness # "none" => c.socket = "open")

(* The client is ready only over a socket on which a connect request of    *)
(* its own was accepted: no answer, token write or timer of an earlier     *)
(* socket makes a later one ready (assertCurrentHandshake).                *)
ReadyIsAuthenticated == c.state = "ready" => c.accepted /\ c.socket = "open" /\ c.phase = "ready"

(* After disconnect() no transport, socket or timer is left, and none      *)
(* comes back before connect() or reconnect(), whatever was awaited.       *)
DisconnectIsFinal ==
  c.closed => c.state = "closed" /\ ~c.transport /\ c.socket = "none" /\ ~c.retry

(* A client that tries to connect has something under way that ends: the   *)
(* identity, the reconnect timer, a socket that opens, or the readiness    *)
(* timer of the open one.                                                  *)
TryingIsWatched ==
  Trying(c) => \/ "current" \in c.starting \/ c.retry \/ c.socket = "connecting"
               \/ c.socket = "open" /\ c.readiness = "current"

(* One handshake at a time acts on the socket, and it is known to be in    *)
(* flight.                                                                 *)
OneHandshake ==
  \A h, k \in c.handshakes :
    h.of = "current" /\ k.of = "current" => h = k /\ c.inFlight

(* While a refused device token is being deleted no handshake uses the     *)
(* store: "A remote close can start a new socket while secure storage is   *)
(* still clearing." (resolveConnectPlan)                                   *)
RepairIsAwaited ==
  c.deleting # {} => \A h \in c.handshakes : h.of = "current" => h.step = "repair"

(* A connection deletes the stored token at most once before it succeeds:  *)
(* "stops bounded repair ... without an automatic retry loop" (the test).  *)
RepairIsBounded == c.deletions <= 1

(* No attempt hangs, whatever the Gateway, the store and the network leave *)
(* unanswered: a client that tries to connect does not stay without a      *)
(* socket, with one that does not open, or in a handshake.                 *)
Attempt(socket) == Trying(c) /\ c.socket = socket
AttemptsEnd     == \A socket \in {"none", "connecting", "open"} :
                     Attempt(socket) ~> ~Attempt(socket)
=============================================================================
