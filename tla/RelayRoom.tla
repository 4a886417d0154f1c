----------------------------- MODULE RelayRoom -----------------------------
(***************************************************************************)
(* The Durable Object room of the Relay worker: one owner connection (the  *)
(* bridge next to the backend) and the full client connections (phones) it *)
(* serves.                                                                 *)
(*                                                                         *)
(* What survives hibernation is kept by the platform: the sockets, the     *)
(* attachment of each socket (role, identity, active-route marker,         *)
(* retirement marker) and the stored owner lease.  What the room object    *)
(* holds in memory (the installed owner, the client routes, the active     *)
(* route, buffered connect starts, suspended callbacks) is lost, and the   *)
(* constructor rebuilds it from the attachments.                           *)
(*                                                                         *)
(* Restricted pairing sockets, per-client owner channels, admission limits *)
(* and the passage of time have modules of their own or are listed in the  *)
(* README; here a lease may expire at any moment.                          *)
(***************************************************************************)
EXTENDS Naturals, FiniteSets

CONSTANTS
  ClientIds,            \* identities full clients connect with
  OwnerIds,             \* identities owners connect with
  NoId,                 \* "null" where an identity is expected
  Backend,              \* the room's BackendPolicy
  AttachmentMayFail,    \* serializeAttachment may throw during retirement
  CloseMayFail,         \* close() of a retired client may fail, leaving it open
  OwnerCloseMayFail,    \* close() of a replaced owner may fail, leaving it open
  Unclosable,           \* client connections that close() may leave open when
                        \* the room drops them without a tombstone
  MaxSockets,           \* bound: connections accepted in a behaviour
  MaxInFlight           \* bound: owner callbacks suspended at an await

ASSUME IdsAssumption == /\ NoId \notin ClientIds \cup OwnerIds
                        /\ ClientIds \cap OwnerIds = {}
ASSUME BoundsAssumption == MaxSockets \in Nat /\ MaxInFlight \in Nat
ASSUME FaultsAssumption == /\ AttachmentMayFail \in BOOLEAN
                           /\ CloseMayFail \in BOOLEAN
                           /\ OwnerCloseMayFail \in BOOLEAN
                           /\ Unclosable \subseteq Nat
ASSUME BackendAssumption == Backend \in {"openclaw", "hermes", "local-model"}

RoutesByOrigin    == Backend # "openclaw"
BroadcastsUpdates == Backend = "local-model"
RestartsClients   == Backend # "hermes"
IsHermes          == Backend = "hermes"

Sockets    == 1 .. MaxSockets
NoSocket   == 0
ReadyState == {"none", "open", "closing", "closed"}

(* Frames an owner sends: to the active route; to one client, which is the *)
(* named target of a control, the origin of the answered request or the    *)
(* client awaiting a connect challenge; to every client; or the request    *)
(* that all clients reconnect.                                             *)
FrameKinds  == {"active", "target"}
                 \cup (IF BroadcastsUpdates THEN {"update"} ELSE {})
                 \cup (IF RestartsClients THEN {"restart"} ELSE {})
OwnerFrames == [from : Sockets, kind : FrameKinds, to : ClientIds \cup {NoId}]

VARIABLES
  accepted,     \* connections accepted so far; socket n was the n-th
  ready,        \* readyState of each socket
  role,         \* attachment.role
  ident,        \* attachment.clientId
  marker,       \* attachment.activeClient
  retired,      \* attachment.backendSessionRetired
  owner,        \* the stored owner lease's principal
  awake,        \* is the room object in memory?
  gateway,      \* runtime.gatewaySocket
  clients,      \* runtime.clients
  activeId,     \* runtime.activeClientId
  starts,       \* keys of runtime.pendingConnectStarts
  inFlight,     \* owner frames whose callback is suspended at the lease write
  joining,      \* owners whose fetch is suspended at the lease write
  lastOwner,    \* history: the owner connection accepted last
  exchanged,    \* history: the owners each client exchanged frames with
  slept         \* history: the active route a hibernated room went to sleep with

platform == <<accepted, ready, role, ident, marker, retired, owner>>
memory   == <<awake, gateway, clients, activeId, starts, inFlight, joining>>
history  == <<lastOwner, exchanged, slept>>
vars     == <<platform, memory, history>>
-----------------------------------------------------------------------------
IsOpen(s)  == s # NoSocket /\ ready[s] = "open"
Current    == {clients[c] : c \in ClientIds} \ {NoSocket}
Connected  == {c \in ClientIds : clients[c] # NoSocket}

Init ==
  /\ accepted = 0
  /\ ready    = [s \in Sockets |-> "none"]
  /\ role     = [s \in Sockets |-> "none"]
  /\ ident    = [s \in Sockets |-> NoId]
  /\ marker   = [s \in Sockets |-> FALSE]
  /\ retired  = [s \in Sockets |-> FALSE]
  /\ owner    = NoId
  /\ awake    = TRUE
  /\ gateway  = NoSocket
  /\ clients  = [c \in ClientIds |-> NoSocket]
  /\ activeId = NoId
  /\ starts   = {}
  /\ inFlight = {}
  /\ joining  = {}
  /\ lastOwner = NoSocket
  /\ exchanged = [s \in Sockets |-> {}]
  /\ slept     = NoId

(* selectActiveClient: the marker of every routed client follows the choice. *)
Marked(routes, choice) ==
  [s \in Sockets |-> IF \E c \in ClientIds : routes[c] = s
                     THEN choice # NoId /\ routes[choice] = s
                     ELSE marker[s]]

SelectedInMemory(c) == marker
Selected(c) == IF activeId = c THEN marker ELSE Marked(clients, c)

Without(gone)   == [c \in ClientIds |-> IF c \in gone THEN NoSocket ELSE clients[c]]
Closing(S)      == [s \in Sockets |-> IF s \in S /\ ready[s] = "open"
                                      THEN "closing" ELSE ready[s]]
SocketsOf(gone) == {clients[c] : c \in gone} \ {NoSocket}

(* dropClientState of the clients in gone, one by one: when the active      *)
(* route goes, the first remaining open client in map order becomes        *)
(* active.  On its way the route may pass over clients that go later and   *)
(* leave them marked, which matters if they stay open.                     *)
OpenRoutes(gone) == {c \in ClientIds \ gone : IsOpen(clients[c])}
Passing(gone, marks) ==
  \E passed \in SUBSET (SocketsOf(gone) \cap Unclosable) :
    marker' = [s \in Sockets |-> s \in passed \/ marks[s]]
Drop(gone) ==
  /\ clients' = Without(gone)
  /\ IF activeId \in gone
     THEN \/ /\ OpenRoutes(gone) = {}
             /\ activeId' = NoId
             /\ Passing(gone, marker)
          \/ \E c \in OpenRoutes(gone) :
               /\ activeId' = c
               /\ Passing(gone, Marked(Without(gone), c))
     ELSE UNCHANGED <<activeId, marker>>

(* retireOwnerClients, for the clients it gets to before an attachment     *)
(* write throws: an open socket keeps a tombstone in its attachment, then   *)
(* the route is dropped.  Closing the socket is left to the caller.         *)
Retire(gone) ==
  LET buried == {s \in SocketsOf(gone) : ready[s] = "open"}
  IN /\ clients'  = Without(gone)
     /\ starts'   = starts \ gone
     /\ activeId' = IF activeId \in gone THEN NoId ELSE activeId
     /\ retired'  = [s \in Sockets |-> retired[s] \/ s \in buried]
     /\ marker'   = [s \in Sockets |-> marker[s] /\ s \notin buried]

(* Is a retirement due before the next owner?  The stored lease proves an  *)
(* earlier owner even when the socket of it is no longer known.            *)
InstalledOwnerKnown == gateway # NoSocket
EarlierOwnerKnown   == gateway # NoSocket \/ owner # NoId

(* Only the socket its role and identity are mapped to is heard. *)
AnySocket(s) == TRUE
IsCurrentSocket(s) == IF role[s] = "gateway" THEN gateway = s ELSE clients[ident[s]] = s

(* Clients whose close() fails stay open, with a tombstone or without one. *)
StuckOpen(gone)    == IF CloseMayFail THEN SUBSET SocketsOf(gone) ELSE {{}}
StuckDropped(gone) == SUBSET (SocketsOf(gone) \cap Unclosable)

(* An incomplete retirement: some write throws before every client is done. *)
PartialRetirements == IF AttachmentMayFail THEN (SUBSET Connected) \ {Connected} ELSE {}
-----------------------------------------------------------------------------
(* The platform. *)

(* The peer or the network ends a connection; its close callback is due. *)
PeerDrops(s) ==
  /\ ready[s] = "open"
  /\ ready' = [ready EXCEPT ![s] = "closing"]
  /\ UNCHANGED <<accepted, role, ident, marker, retired, owner, memory, history>>

Forget ==
  /\ awake'    = FALSE
  /\ gateway'  = NoSocket
  /\ clients'  = [c \in ClientIds |-> NoSocket]
  /\ activeId' = NoId
  /\ starts'   = {}
  /\ inFlight' = {}
  /\ joining'  = {}

(* An idle room, with no callback suspended, loses its memory. *)
Hibernate ==
  /\ awake /\ inFlight = {} /\ joining = {}
  /\ Forget
  /\ slept' = activeId
  /\ UNCHANGED <<platform, lastOwner, exchanged>>

(* A deployment or a crash: every connection is lost, storage is not. *)
Restart ==
  /\ Forget
  /\ ready' = [s \in Sockets |-> IF ready[s] = "none" THEN "none" ELSE "closed"]
  /\ slept' = NoId
  /\ UNCHANGED <<accepted, role, ident, marker, retired, owner, lastOwner, exchanged>>

(* reconcileSockets: the newest open owner, and per identity the newest    *)
(* open client that is not retired; every other open socket is closed, if  *)
(* close() works.                                                          *)
UnclosedOwners == {s \in Sockets : ready[s] \in {"open", "closing"} /\ role[s] = "gateway"}
OpenOwners     == {s \in Sockets : ready[s] = "open" /\ role[s] = "gateway"}
OpenOrRetired(c) == {s \in Sockets : ready[s] = "open" /\ role[s] = "client" /\ ident[s] = c}
OpenClients(c) == {s \in Sockets : /\ ready[s] = "open" /\ role[s] = "client"
                                   /\ ident[s] = c /\ ~retired[s]}
IsNewest(s, S) == s \in S /\ \A t \in S : t <= s
Newest(S)      == IF \E s \in S : IsNewest(s, S) THEN CHOOSE s \in S : IsNewest(s, S) ELSE NoSocket
Sole(S)        == IF \E c \in S : S = {c} THEN CHOOSE c \in S : TRUE ELSE NoId

MayStayOpen(s) ==
  \/ role[s] = "gateway" /\ OwnerCloseMayFail
  \/ role[s] = "client" /\ IF retired[s] THEN CloseMayFail ELSE s \in Unclosable

Reconcile(previousActive) ==
  LET routes   == [c \in ClientIds |-> Newest(OpenClients(c))]
      routed   == {c \in ClientIds : routes[c] # NoSocket}
      marked   == {c \in routed : marker[routes[c]]}
      restored == IF Sole(marked) # NoId THEN Sole(marked) ELSE Sole(routed)
      keep     == previousActive \in routed
      kept     == {Newest(OpenOwners)} \cup {routes[c] : c \in ClientIds}
      stale    == {s \in Sockets : s \notin kept}
  IN /\ gateway'  = Newest(OpenOwners)
     /\ clients'  = routes
     /\ activeId' = IF keep THEN previousActive ELSE restored
     /\ marker'   = IF keep THEN marker ELSE Marked(routes, restored)
     /\ \E stuck \in SUBSET {s \in stale : IsOpen(s) /\ MayStayOpen(s)} :
          ready' = Closing(stale \ stuck)

(* The constructor of a room that an event has brought back. *)
Wake ==
  /\ ~awake
  /\ awake' = TRUE
  /\ Reconcile(NoId)
  /\ slept' = NoId
  /\ UNCHANGED <<accepted, role, ident, retired, owner, starts, inFlight, joining,
                 lastOwner, exchanged>>

(* A Hermes status query reconciles a room that is already running. *)
ReadStatus ==
  /\ IsHermes /\ awake
  /\ Reconcile(activeId)
  /\ UNCHANGED <<accepted, role, ident, retired, owner, awake, starts, inFlight, joining, history>>
-----------------------------------------------------------------------------
(* Owner connections. *)

(* The synchronous part of an owner's fetch: retire the previous owner's   *)
(* clients, accept the socket, replace the owner, start the lease write.   *)
OwnerJoins(o) ==
  LET s == accepted + 1
      gone == IF EarlierOwnerKnown THEN Connected ELSE {}
  IN /\ awake
     /\ accepted < MaxSockets
     /\ Cardinality(joining) < MaxInFlight
     /\ Retire(gone)
     /\ \E stuck \in StuckOpen(gone), spared \in IF OwnerCloseMayFail THEN {{}, {gateway}} ELSE {{}} :
          ready' = [Closing((SocketsOf(gone) \ stuck) \cup ({gateway} \ spared)) EXCEPT ![s] = "open"]
     /\ accepted' = s
     /\ role'     = [role EXCEPT ![s] = "gateway"]
     /\ ident'    = [ident EXCEPT ![s] = o]
     /\ gateway'  = s
     /\ owner'    = o
     /\ joining'  = joining \cup {s}
     /\ lastOwner' = s
     /\ UNCHANGED <<awake, inFlight, exchanged, slept>>

(* Retirement stops half way: the fetch answers 503, the owner stays. *)
OwnerRecoveryFails(gone) ==
  /\ awake
  /\ EarlierOwnerKnown
  /\ gone \in PartialRetirements
  /\ Retire(gone)
  /\ \E stuck \in StuckOpen(gone) : ready' = Closing(SocketsOf(gone) \ stuck)
  /\ UNCHANGED <<accepted, role, ident, owner, awake, gateway, inFlight, joining, history>>

(* The fetch resumes: handleGatewayConnected flushes the buffered connect  *)
(* starts, except those that outlived their time, to the installed owner.  *)
OwnerJoinResumes(s) ==
  /\ s \in joining
  /\ joining' = joining \ {s}
  /\ IF IsOpen(gateway)
     THEN \E timely \in SUBSET starts :
            /\ starts' = {}
            /\ exchanged' = [t \in Sockets |->
                 IF \E c \in timely : clients[c] = t /\ IsOpen(t)
                 THEN exchanged[t] \cup {gateway} ELSE exchanged[t]]
     ELSE UNCHANGED <<starts, exchanged>>
  /\ UNCHANGED <<platform, awake, gateway, clients, activeId, inFlight, lastOwner, slept>>

(* An owner frame arrives: fenced by identity, then suspended at the touch *)
(* of the lease.                                                           *)
OwnerFrame(f) ==
  /\ awake
  /\ ready[f.from] \in {"open", "closing"} /\ role[f.from] = "gateway"
  /\ IsCurrentSocket(f.from)
  /\ f.kind # "target" => f.to = NoId
  /\ f \notin inFlight /\ Cardinality(inFlight) < MaxInFlight
  /\ inFlight' = inFlight \cup {f}
  /\ owner' = ident[f.from]
  /\ UNCHANGED <<accepted, ready, role, ident, marker, retired, awake, gateway,
                 clients, activeId, starts, joining, history>>

Receivers(f) ==
  CASE f.kind = "active" -> {c \in ClientIds : c = activeId /\ IsOpen(clients[c])}
    [] f.kind = "target" -> {c \in ClientIds : c = f.to /\ IsOpen(clients[c])}
    [] f.kind = "update" -> {c \in ClientIds : IsOpen(clients[c])}
    [] OTHER -> {}

(* The callback resumes: fenced once more, then the frame is routed. *)
NoSecondFence(f)  == TRUE
StillInstalled(f) == gateway = f.from
OwnerFrameResumes(f) ==
  /\ f \in inFlight
  /\ inFlight' = inFlight \ {f}
  /\ IF ~StillInstalled(f)
     THEN UNCHANGED <<clients, activeId, marker, ready, starts, exchanged>>
     ELSE IF f.kind = "restart"
          THEN /\ Drop(Connected)
               /\ starts' = {}
               /\ \E stuck \in StuckDropped(Connected) : ready' = Closing(Current \ stuck)
               /\ UNCHANGED exchanged
          ELSE /\ exchanged' = [s \in Sockets |->
                    IF \E c \in Receivers(f) : clients[c] = s
                    THEN exchanged[s] \cup {f.from} ELSE exchanged[s]]
               /\ UNCHANGED <<clients, activeId, marker, ready, starts>>
  /\ UNCHANGED <<accepted, role, ident, retired, owner, awake, gateway, joining, lastOwner, slept>>

(* The close callback of an owner: the installed owner takes its clients   *)
(* with it and leaves its lease; a replaced one changes nothing.           *)
OwnerClosed(s) ==
  /\ awake
  /\ ready[s] = "closing" /\ role[s] = "gateway"
  /\ IF gateway = s
     THEN /\ Retire(Connected)
          /\ \E stuck \in StuckOpen(Connected) :
               ready' = [Closing(Current \ stuck) EXCEPT ![s] = "closed"]
          /\ gateway' = NoSocket
          /\ owner' = ident[s]
     ELSE /\ ready' = [ready EXCEPT ![s] = "closed"]
          /\ UNCHANGED <<marker, retired, owner, gateway, clients, activeId, starts>>
  /\ UNCHANGED <<accepted, role, ident, awake, inFlight, joining, history>>

(* The same callback when retirement stops half way: it throws. *)
OwnerClosedPartly(s, gone) ==
  /\ awake
  /\ ready[s] = "closing" /\ role[s] = "gateway" /\ gateway = s
  /\ gone \in PartialRetirements
  /\ Retire(gone)
  /\ \E stuck \in StuckOpen(gone) :
       ready' = [Closing(SocketsOf(gone) \ stuck) EXCEPT ![s] = "closed"]
  /\ UNCHANGED <<accepted, role, ident, owner, awake, gateway, inFlight, joining, history>>
-----------------------------------------------------------------------------
(* Client connections. *)

(* A full client is accepted; a previous socket of the same identity is    *)
(* closed, and the first client becomes the active route.                  *)
ClientJoins(c) ==
  LET s == accepted + 1
      routes == [clients EXCEPT ![c] = s]
  IN /\ awake
     /\ accepted < MaxSockets
     /\ accepted' = s
     /\ ready'    = [Closing({clients[c]}) EXCEPT ![s] = "open"]
     /\ role'     = [role EXCEPT ![s] = "client"]
     /\ ident'    = [ident EXCEPT ![s] = c]
     /\ clients'  = routes
     /\ IF activeId = NoId
        THEN activeId' = c /\ marker' = Marked(routes, c)
        ELSE UNCHANGED <<activeId, marker>>
     /\ UNCHANGED <<retired, owner, awake, gateway, starts, inFlight, joining, history>>

(* A client frame: only the routed socket is heard.  A control is passed   *)
(* on as it is.  A connect start, or with origin routing any other frame,  *)
(* makes its sender the active route; a request whose origin cannot be     *)
(* remembered, because its socket is closing, is dropped, and so is the    *)
(* frame of an inactive client.  A connect start waits for an owner that   *)
(* is away; the other frames do not.                                       *)
ClientFrames == {"connect", "request", "message", "control"}
ClientFrame(s, kind) ==
  LET c == ident[s]
      selecting == kind = "connect" \/ RoutesByOrigin
  IN /\ awake
     /\ role[s] = "client" /\ ready[s] \in {"open", "closing"}
     /\ IsCurrentSocket(s)
     /\ IF kind = "control"
        THEN UNCHANGED <<activeId, marker>>
        ELSE /\ selecting \/ activeId = c
             /\ RoutesByOrigin /\ kind # "message" => IsOpen(s)
             /\ activeId' = c
             /\ marker' = Selected(c)
     /\ IF IsOpen(gateway)
        THEN /\ exchanged' = [exchanged EXCEPT ![s] = @ \cup {gateway}]
             /\ UNCHANGED starts
        ELSE /\ starts' = IF kind = "connect" THEN starts \cup {c} ELSE starts
             /\ UNCHANGED exchanged
     /\ UNCHANGED <<accepted, ready, role, ident, retired, owner, awake, gateway,
                    clients, inFlight, joining, lastOwner, slept>>

(* The close callback of a client: only the routed socket takes its state. *)
ClientClosed(s) ==
  /\ awake
  /\ ready[s] = "closing" /\ role[s] = "client"
  /\ ready' = [ready EXCEPT ![s] = "closed"]
  /\ IF clients[ident[s]] = s
     THEN Drop({ident[s]}) /\ starts' = starts \ {ident[s]}
     ELSE UNCHANGED <<clients, activeId, marker, starts>>
  /\ UNCHANGED <<accepted, role, ident, retired, owner, awake, gateway, inFlight, joining, history>>

(* The alarm: clients that are gone, and open ones that missed their       *)
(* deadlines or cannot be sent a tick, are dropped; expired connect starts go; the Hermes watchdog  *)
(* may close an owner that stopped answering.                              *)
Alarm(late, expired) ==
  LET gone == {c \in Connected : ~IsOpen(clients[c])} \cup late
  IN /\ awake
     /\ late \subseteq {c \in Connected : IsOpen(clients[c])}
     /\ expired \subseteq starts
     /\ Drop(gone)
     /\ starts' = starts \ (gone \cup expired)
     /\ \E silent \in IF IsHermes /\ OpenRoutes(gone) # {} THEN {{}, {gateway}} ELSE {{}},
           stuck \in StuckDropped(late) :
          ready' = Closing((SocketsOf(late) \ stuck) \cup silent)
     /\ UNCHANGED <<accepted, role, ident, retired, owner, awake, gateway, inFlight, joining, history>>
-----------------------------------------------------------------------------
Next ==
  \/ \E s \in Sockets : PeerDrops(s)
  \/ Hibernate \/ Restart \/ Wake \/ ReadStatus
  \/ \E o \in OwnerIds : OwnerJoins(o)
  \/ \E gone \in SUBSET ClientIds : OwnerRecoveryFails(gone)
  \/ \E s \in joining : OwnerJoinResumes(s)
  \/ \E f \in OwnerFrames : OwnerFrame(f)
  \/ \E f \in inFlight : OwnerFrameResumes(f)
  \/ \E s \in Sockets : OwnerClosed(s)
  \/ \E s \in Sockets, gone \in SUBSET ClientIds : OwnerClosedPartly(s, gone)
  \/ \E c \in ClientIds : ClientJoins(c)
  \/ \E s \in Sockets, kind \in ClientFrames : ClientFrame(s, kind)
  \/ \E s \in Sockets : ClientClosed(s)
  \/ \E late, expired \in SUBSET ClientIds : Alarm(late, expired)

Spec == Init /\ [][Next]_vars
-----------------------------------------------------------------------------
(* Properties. *)

TypeOK ==
  /\ accepted \in 0 .. MaxSockets
  /\ ready  \in [Sockets -> ReadyState]
  /\ role   \in [Sockets -> {"none", "gateway", "client"}]
  /\ ident  \in [Sockets -> ClientIds \cup OwnerIds \cup {NoId}]
  /\ \A s \in Sockets : /\ role[s] = "gateway" => ident[s] \in OwnerIds
                        /\ role[s] = "client" => ident[s] \in ClientIds
  /\ marker \in [Sockets -> BOOLEAN] /\ retired \in [Sockets -> BOOLEAN]
  /\ owner \in OwnerIds \cup {NoId}
  /\ awake \in BOOLEAN
  /\ gateway \in Sockets \cup {NoSocket}
  /\ clients \in [ClientIds -> Sockets \cup {NoSocket}]
  /\ activeId \in ClientIds \cup {NoId} /\ slept \in ClientIds \cup {NoId}
  /\ starts \subseteq ClientIds
  /\ inFlight \subseteq OwnerFrames /\ joining \subseteq Sockets
  /\ lastOwner \in Sockets \cup {NoSocket}
  /\ exchanged \in [Sockets -> SUBSET Sockets]

(* No client connection ever exchanges frames with two owners: whatever    *)
(* hibernation, failed retirements and suspended callbacks do between the  *)
(* replacement of an owner and the first frame of the next (control.ts).   *)
(* Connections that outlive a close() without a tombstone are excepted: no *)
(* retirement reaches them while they are not routed, and a rebuilt room   *)
(* routes them again.                                                      *)
OneOwnerPerClientSocket ==
  \A s \in Sockets \ Unclosable : \A a, b \in exchanged[s] : a = b

(* A frame passes only between the owner accepted last and clients that no *)
(* replacement has retired: neither a frame that was suspended while its   *)
(* owner was replaced, nor a retired client left open, gets through        *)
(* (the two fences of handleGatewayMessage, the fence of webSocketMessage).*)
OnlyTheInstalledOwnerExchanges ==
  [][\A s \in Sockets : exchanged'[s] # exchanged[s] =>
        exchanged'[s] \ exchanged[s] = {lastOwner} /\ ~retired[s]]_vars

(* The room is an implementation of owner sessions: each acceptance of an  *)
(* owner succeeds the previous one, and the frames of every step are an    *)
(* exchange between the latest owner and client connections of its own,    *)
(* those that close() may leave open without a tombstone aside.            *)
BoundOwners == [s \in Sockets |-> IF s \in Unclosable THEN {} ELSE exchanged[s]]
Sessions == INSTANCE OwnerSessions WITH latest <- lastOwner, bound <- BoundOwners
ImplementsOwnerSessions == Sessions!Spec

(* The lease that decides whether another owner may take over names the    *)
(* owner that is installed, also after the constructor has rebuilt the     *)
(* room from the attachments (loadGatewayOwner, reconcileSockets).         *)
LeaseNamesOwner == gateway # NoSocket => owner = ident[gateway]

(* Hibernation never hands a live active route to another client: after    *)
(* the constructor the route is the one the room slept with, or none       *)
(* (reconcileSockets, "a socket's persisted route marker is                *)
(* authoritative"), unless a connection that outlived its close() comes    *)
(* back with the marker it was dropped with.                               *)
WakingStealsNoRoute ==
  [][~awake /\ awake' /\ slept # NoId /\ clients'[slept] # NoSocket
        => \/ activeId' \in {slept, NoId}
           \/ clients'[activeId'] \in Unclosable]_vars

(* "Current-owner identity already changed" (control.ts): a replaced owner  *)
(* is not installed again, in a rebuilt room either.  It rests on close()   *)
(* of the replaced owner, because every open owner is a candidate.          *)
ReplacedOwnerNeverReturns == gateway \in {NoSocket, lastOwner}

(* "Routing identity survives Durable Object hibernation" (types.ts): the   *)
(* active route of a sleeping room, still open, is the active route again. *)
(* Fails when the active client had reconnected: handleClientConnected     *)
(* keeps the identity active but does not mark its new socket.             *)
ActiveRouteSurvivesHibernation ==
  [][~awake /\ awake' /\ slept # NoId /\ clients'[slept] # NoSocket
        => activeId' = slept]_vars
=============================================================================
