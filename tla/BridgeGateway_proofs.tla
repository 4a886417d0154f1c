------------------------ MODULE BridgeGateway_proofs ------------------------
(***************************************************************************)
(* What BridgeGateway promises for every queue length, every number of     *)
(* clients, connects and retries.  The operators the actions are built     *)
(* from have a lemma each, which says that they keep Basic and what else   *)
(* they do; the actions then combine them.                                 *)
(***************************************************************************)
EXTENDS BridgeGateway, SequenceTheorems, FiniteSetTheorems, WellFoundedInduction, TLAPS

Frames == Connects \union {Other}

Basic(t) ==
  /\ t \in State
  /\ Len(t.queue) <= MaxQueue
  /\ t.boundary => t.gateway = "closing"
  /\ t.connecting => t.gateway \in {"connecting", "closing"}
  /\ t.gateway = "connecting" => t.connecting
  /\ t.relay # "none" \/ t.reconnect => ~t.stopped
  /\ t.reconnect => t.relay = "none"
  /\ t.relay \in {"none", "connecting"} => t.clients = 0
  /\ t.gateway = "none" \/ t.connecting => ~t.challenged
  /\ t.first # "other"
  /\ t.started /\ GatewayOpen(t) => t.first = "connect"
  /\ t.unanswered \subseteq t.inFlight
  /\ GatewayOpen(t) => QueuedConnects(t.queue) = {}

Served(t)  == RelayOpen(t) /\ Wanted(t) => t.gateway # "none" \/ t.retry
Watched(t) ==
  GatewayOpen(t) /\ RelayOpen(t) /\ t.challenged /\ ~t.started /\ t.clients > 0 /\ t.bootstraps = 0
    => t.wait = "current"

IInv == Basic(s) /\ Served(s) /\ Watched(s)

(* A record of State stays one when a field takes a value of its range.    *)
(* Updates of several fields are taken one field at a time with these.     *)
LEMMA SetStopped ==
  ASSUME NEW t \in State, NEW x \in BOOLEAN
  PROVE  [t EXCEPT !.stopped = x] \in State
  BY Zenon DEF State

LEMMA SetRelay ==
  ASSUME NEW t \in State, NEW x \in {"none", "connecting", "open", "closing"}
  PROVE  [t EXCEPT !.relay = x] \in State
  BY Zenon DEF State, Sockets

LEMMA SetReconnect ==
  ASSUME NEW t \in State, NEW x \in BOOLEAN
  PROVE  [t EXCEPT !.reconnect = x] \in State
  BY Zenon DEF State

LEMMA SetGateway ==
  ASSUME NEW t \in State, NEW x \in {"none", "connecting", "open", "closing"}
  PROVE  [t EXCEPT !.gateway = x] \in State
  BY Zenon DEF State, Sockets

LEMMA SetConnecting ==
  ASSUME NEW t \in State, NEW x \in BOOLEAN
  PROVE  [t EXCEPT !.connecting = x] \in State
  BY Zenon DEF State

LEMMA SetBoundary ==
  ASSUME NEW t \in State, NEW x \in BOOLEAN
  PROVE  [t EXCEPT !.boundary = x] \in State
  BY Zenon DEF State

LEMMA SetExpected ==
  ASSUME NEW t \in State, NEW x \in BOOLEAN
  PROVE  [t EXCEPT !.expected = x] \in State
  BY Zenon DEF State

LEMMA SetStarted ==
  ASSUME NEW t \in State, NEW x \in BOOLEAN
  PROVE  [t EXCEPT !.started = x] \in State
  BY Zenon DEF State

LEMMA SetRetry ==
  ASSUME NEW t \in State, NEW x \in BOOLEAN
  PROVE  [t EXCEPT !.retry = x] \in State
  BY Zenon DEF State

LEMMA SetWait ==
  ASSUME NEW t \in State, NEW x \in {"none", "current", "stale"}
  PROVE  [t EXCEPT !.wait = x] \in State
  BY Zenon DEF State

LEMMA SetClients ==
  ASSUME NEW t \in State, NEW x \in 0 .. MaxClients
  PROVE  [t EXCEPT !.clients = x] \in State
  BY Zenon DEF State

LEMMA SetQueue ==
  ASSUME NEW t \in State, NEW x \in Seq(Frames)
  PROVE  [t EXCEPT !.queue = x] \in State
  BY Zenon DEF State, Frames

LEMMA SetInFlight ==
  ASSUME NEW t \in State, NEW x \in SUBSET Connects
  PROVE  [t EXCEPT !.inFlight = x] \in State
  BY Zenon DEF State

LEMMA SetTries ==
  ASSUME NEW t \in State, NEW x \in [Connects -> 0 .. MaxRetries]
  PROVE  [t EXCEPT !.tries = x] \in State
  BY Zenon DEF State

LEMMA SetTimers ==
  ASSUME NEW t \in State, NEW x \in SUBSET Connects
  PROVE  [t EXCEPT !.timers = x] \in State
  BY Zenon DEF State

LEMMA SetBootstraps ==
  ASSUME NEW t \in State, NEW x \in 0 .. MaxBootstraps
  PROVE  [t EXCEPT !.bootstraps = x] \in State
  BY Zenon DEF State

LEMMA SetSuperseded ==
  ASSUME NEW t \in State, NEW x \in BOOLEAN
  PROVE  [t EXCEPT !.superseded = x] \in State
  BY Zenon DEF State

LEMMA SetLatest ==
  ASSUME NEW t \in State, NEW x \in 0 .. MaxConnects
  PROVE  [t EXCEPT !.latest = x] \in State
  BY Zenon DEF State

LEMMA SetDelivered ==
  ASSUME NEW t \in State, NEW x \in SUBSET Connects
  PROVE  [t EXCEPT !.delivered = x] \in State
  BY Zenon DEF State

LEMMA SetDiscarded ==
  ASSUME NEW t \in State, NEW x \in SUBSET Connects
  PROVE  [t EXCEPT !.discarded = x] \in State
  BY Zenon DEF State

LEMMA SetFirst ==
  ASSUME NEW t \in State, NEW x \in {"none", "connect", "other"}
  PROVE  [t EXCEPT !.first = x] \in State
  BY Zenon DEF State

LEMMA SetChallenged ==
  ASSUME NEW t \in State, NEW x \in BOOLEAN
  PROVE  [t EXCEPT !.challenged = x] \in State
  BY Zenon DEF State

LEMMA SetUnanswered ==
  ASSUME NEW t \in State, NEW x \in SUBSET Connects
  PROVE  [t EXCEPT !.unanswered = x] \in State
  BY Zenon DEF State

LEMMA SetSession ==
  ASSUME NEW t \in State, NEW x \in BOOLEAN
  PROVE  [t EXCEPT !.session = x] \in State
  BY Zenon DEF State

LEMMA SetUnaware ==
  ASSUME NEW t \in State, NEW x \in BOOLEAN
  PROVE  [t EXCEPT !.unaware = x] \in State
  BY Zenon DEF State

LEMMA Subsets ==
  ASSUME NEW t \in State, NEW c \in Connects
  PROVE  /\ t.inFlight \ {c} \in SUBSET Connects
         /\ t.unanswered \ {c} \in SUBSET Connects
         /\ t.unanswered \union {c} \in SUBSET Connects
         /\ t.timers \ {c} \in SUBSET Connects
         /\ t.timers \union {c} \in SUBSET Connects
BY DEF State

LEMMA EndLemma ==
  ASSUME NEW t \in State, NEW told \in BOOLEAN
  PROVE  /\ EndConnection(t, told) \in State
         /\ EndConnection(t, told) =
              [t EXCEPT !.first = "none", !.challenged = FALSE, !.unanswered = {},
                        !.session = FALSE, !.unaware = EndConnection(t, told).unaware]
         /\ LET e == EndConnection(t, told)
            IN /\ e.first = "none" /\ ~e.challenged /\ e.unanswered = {}
               /\ e.boundary = t.boundary /\ e.relay = t.relay /\ e.reconnect = t.reconnect
               /\ e.stopped = t.stopped /\ e.clients = t.clients /\ e.started = t.started
               /\ e.inFlight = t.inFlight /\ e.queue = t.queue /\ e.gateway = t.gateway
               /\ e.superseded = t.superseded /\ e.wait = t.wait /\ e.retry = t.retry
               /\ e.connecting = t.connecting /\ e.discarded = t.discarded
<1> DEFINE u == ~told /\ (t.unaware \/ t.session)
<1>1. u \in BOOLEAN
  OBVIOUS
<1>2. EndConnection(t, told) = [t EXCEPT !.first = "none", !.challenged = FALSE,
                                  !.unanswered = {}, !.session = FALSE, !.unaware = u]
  BY DEF EndConnection
<1> HIDE DEF u
<1>3. EndConnection(t, told) \in State
  <2>1. [t EXCEPT !.first = "none", !.challenged = FALSE,
           !.unanswered = {}, !.session = FALSE, !.unaware = u] \in State
    BY <1>1, SetFirst, SetChallenged, SetUnanswered, SetSession, SetUnaware, Zenon
  <2> QED BY <1>2, <2>1
<1>4. EndConnection(t, told).unaware = u
  BY <1>2 DEF State
<1>5. LET e == EndConnection(t, told)
      IN /\ e.first = "none" /\ ~e.challenged /\ e.unanswered = {}
         /\ e.boundary = t.boundary /\ e.relay = t.relay /\ e.reconnect = t.reconnect
         /\ e.stopped = t.stopped /\ e.clients = t.clients /\ e.started = t.started
         /\ e.inFlight = t.inFlight /\ e.queue = t.queue /\ e.gateway = t.gateway
         /\ e.superseded = t.superseded /\ e.wait = t.wait /\ e.retry = t.retry
         /\ e.connecting = t.connecting /\ e.discarded = t.discarded
  BY <1>2 DEF State
<1> QED BY <1>2, <1>3, <1>4, <1>5

LEMMA EnsureLemma ==
  ASSUME NEW t, Basic(t), Watched(t)
  PROVE  /\ Basic(Ensure(t)) /\ Watched(Ensure(t))
         /\ RelayOpen(t) => Ensure(t).gateway # "none"
         /\ Ensure(t).relay = t.relay /\ Ensure(t).clients = t.clients
         /\ Ensure(t).queue = t.queue /\ Ensure(t).boundary = t.boundary
         /\ GatewayOpen(Ensure(t)) <=> GatewayOpen(t)
<1>1. CASE t.stopped \/ ~RelayOpen(t) \/ t.connecting \/ GatewayOpen(t) \/ t.boundary
  <2>1. Ensure(t) = t
    BY <1>1 DEF Ensure
  <2> QED BY <1>1, <2>1 DEF Basic, RelayOpen, GatewayOpen
<1>2. CASE ~(t.stopped \/ ~RelayOpen(t) \/ t.connecting \/ GatewayOpen(t) \/ t.boundary)
  <2> DEFINE e == EndConnection(t, FALSE)
             r == Ensure(t)
  <2>1. r = [e EXCEPT !.connecting = TRUE, !.gateway = "connecting",
                      !.superseded = @ \/ t.gateway # "none",
                      !.wait = IF @ = "none" THEN @ ELSE "stale"]
    BY <1>2 DEF Ensure
  <2>2. /\ e \in State /\ e.first = "none" /\ ~e.challenged /\ e.unanswered = {}
        /\ e.boundary = t.boundary /\ e.relay = t.relay /\ e.reconnect = t.reconnect
        /\ e.stopped = t.stopped /\ e.clients = t.clients /\ e.started = t.started
        /\ e.inFlight = t.inFlight /\ e.queue = t.queue
    BY EndLemma DEF Basic
  <2> HIDE DEF e
  <2>3. r \in State
    <3>1. [e EXCEPT !.connecting = TRUE, !.gateway = "connecting",
                    !.superseded = @ \/ t.gateway # "none",
                    !.wait = IF @ = "none" THEN @ ELSE "stale"] \in State
      BY <2>2, SetGateway, SetConnecting, SetWait, SetSuperseded, Zenon
    <3> QED BY <2>1, <3>1
  <2>4. /\ r.connecting /\ r.gateway = "connecting" /\ r.first = "none"
        /\ ~r.challenged /\ r.unanswered = {}
        /\ r.boundary = t.boundary /\ r.relay = t.relay /\ r.reconnect = t.reconnect
        /\ r.stopped = t.stopped /\ r.clients = t.clients /\ r.started = t.started
        /\ r.inFlight = t.inFlight /\ r.queue = t.queue
    BY <2>1, <2>2 DEF State
  <2> HIDE DEF r
  <2>5. Basic(r) /\ Watched(r)
    BY <1>2, <2>3, <2>4 DEF Basic, RelayOpen, GatewayOpen, Watched
  <2> QED BY <1>2, <2>4, <2>5 DEF r, RelayOpen, GatewayOpen
<1> QED BY <1>1, <1>2

LEMMA CloseLemma ==
  ASSUME NEW t, Basic(t), NEW again \in BOOLEAN, ~again \/ GatewayOpen(t)
  PROVE  LET c == CloseGateway(t, again)
         IN /\ Basic(c) /\ Watched(c) /\ ~GatewayOpen(c)
            /\ GatewayOpen(t) => c.gateway = "closing"
            /\ c.relay = t.relay /\ c.clients = t.clients /\ c.queue = t.queue
<1> DEFINE c == CloseGateway(t, again)
           i == [t EXCEPT !.wait = "none", !.retry = FALSE, !.started = FALSE]
           b == again /\ RelayOpen(t) /\ Wanted(t)
<1>1. i \in State /\ b \in BOOLEAN
  BY SetStarted, SetRetry, SetWait, Zenon DEF Basic
<1>2. /\ i.gateway = t.gateway /\ i.boundary = t.boundary /\ i.connecting = t.connecting
      /\ i.relay = t.relay /\ i.reconnect = t.reconnect /\ i.stopped = t.stopped
      /\ i.clients = t.clients /\ i.queue = t.queue /\ i.challenged = t.challenged
      /\ i.first = t.first /\ ~i.started
      /\ i.unanswered = t.unanswered /\ i.inFlight = t.inFlight
  BY DEF Basic, State
<1> HIDE DEF i, b
<1>3. CASE t.gateway = "none"
  <2>1. c = [i EXCEPT !.boundary = FALSE, !.connecting = FALSE]
    BY <1>3 DEF CloseGateway, i, b, GatewayOpen
  <2>2. c \in State
    BY <1>1, <2>1, SetConnecting, SetBoundary, SetStarted, SetRetry, SetWait, Zenon
  <2>3. /\ c.gateway = t.gateway /\ ~c.boundary /\ ~c.connecting
        /\ c.relay = t.relay /\ c.reconnect = t.reconnect /\ c.stopped = t.stopped
        /\ c.clients = t.clients /\ c.queue = t.queue /\ c.challenged = t.challenged
        /\ c.first = t.first /\ ~c.started
        /\ c.unanswered = t.unanswered /\ c.inFlight = t.inFlight
    BY <1>1, <1>2, <2>1 DEF State
  <2> HIDE DEF c
  <2>4. Basic(c) /\ Watched(c)
    BY <1>3, <2>2, <2>3 DEF Basic, Watched, GatewayOpen
  <2> QED BY <1>3, <2>3, <2>4 DEF c, GatewayOpen
<1>4. CASE t.gateway = "closing"
  <2>1. c = [i EXCEPT !.boundary = b]
    BY <1>4 DEF CloseGateway, i, b
  <2>2. c \in State
    <3>1. [i EXCEPT !.boundary = b] \in State
      BY <1>1, SetBoundary, Zenon
    <3> QED BY <2>1, <3>1
  <2>3. /\ c.gateway = t.gateway /\ c.connecting = t.connecting
        /\ c.relay = t.relay /\ c.reconnect = t.reconnect /\ c.stopped = t.stopped
        /\ c.clients = t.clients /\ c.queue = t.queue /\ c.challenged = t.challenged
        /\ c.first = t.first /\ ~c.started
        /\ c.unanswered = t.unanswered /\ c.inFlight = t.inFlight
    BY <1>1, <1>2, <2>1 DEF State
  <2> HIDE DEF c
  <2>4. Basic(c) /\ Watched(c)
    BY <1>4, <2>2, <2>3 DEF Basic, Watched, GatewayOpen
  <2> QED BY <1>4, <2>3, <2>4 DEF c, GatewayOpen
<1>5. CASE t.gateway \notin {"none", "closing"}
  <2>1. c = [i EXCEPT !.boundary = b, !.expected = TRUE, !.gateway = "closing"]
    BY <1>5 DEF CloseGateway, i, b
  <2>2. c \in State
    <3>1. [i EXCEPT !.boundary = b, !.expected = TRUE, !.gateway = "closing"] \in State
      BY <1>1, SetGateway, SetBoundary, SetExpected, Zenon
    <3> QED BY <2>1, <3>1
  <2>3. /\ c.gateway = "closing" /\ c.connecting = t.connecting
        /\ c.relay = t.relay /\ c.reconnect = t.reconnect /\ c.stopped = t.stopped
        /\ c.clients = t.clients /\ c.queue = t.queue /\ c.challenged = t.challenged
        /\ c.first = t.first /\ ~c.started
        /\ c.unanswered = t.unanswered /\ c.inFlight = t.inFlight
    BY <1>1, <1>2, <2>1 DEF State
  <2> HIDE DEF c
  <2>4. Basic(c) /\ Watched(c)
    BY <1>5, <2>2, <2>3 DEF Basic, Watched, GatewayOpen
  <2> QED BY <1>5, <2>3, <2>4 DEF c, GatewayOpen
<1> QED BY <1>3, <1>4, <1>5

LEMMA PushLemma ==
  ASSUME NEW t, Basic(t), Watched(t), NEW m \in Frames, GatewayOpen(t) => m = Other
  PROVE  LET p == Push(t, m)
         IN /\ Basic(p) /\ Watched(p)
            /\ p.gateway = t.gateway /\ p.relay = t.relay /\ p.clients = t.clients /\ p.retry = t.retry
            /\ QueuedConnects(p.queue) \subseteq QueuedConnects(t.queue) \union ({m} \ {Other})
<1> DEFINE p == Push(t, m)
           q == IF Len(t.queue) >= MaxQueue THEN Append(Tail(t.queue), m) ELSE Append(t.queue, m)
           d == IF Len(t.queue) >= MaxQueue THEN t.discarded \union ({Head(t.queue)} \ {Other})
                                            ELSE t.discarded
<1>1. t.queue \in Seq(Frames) /\ Len(t.queue) <= MaxQueue /\ t.discarded \subseteq Connects
  BY DEF Basic, State, Frames
<1>2. q \in Seq(Frames) /\ Len(q) <= MaxQueue /\ d \subseteq Connects
  BY <1>1, QueueAssumption DEF Frames
<1>3. QueuedConnects(q) \subseteq QueuedConnects(t.queue) \union ({m} \ {Other})
  BY <1>1, QueueAssumption DEF QueuedConnects
<1>4. p = [t EXCEPT !.queue = q, !.discarded = d]
  BY DEF Push, Basic, State
<1> HIDE DEF q, d
<1>5. p \in State
  <2>1. [t EXCEPT !.queue = q, !.discarded = d] \in State
    BY <1>2, SetQueue, SetDiscarded, Zenon DEF Basic
  <2> QED BY <1>4, <2>1
<1>6. /\ p.queue = q
      /\ p.gateway = t.gateway /\ p.boundary = t.boundary /\ p.connecting = t.connecting
      /\ p.relay = t.relay /\ p.reconnect = t.reconnect /\ p.stopped = t.stopped
      /\ p.clients = t.clients /\ p.retry = t.retry /\ p.challenged = t.challenged
      /\ p.first = t.first /\ p.started = t.started /\ p.wait = t.wait
      /\ p.unanswered = t.unanswered /\ p.inFlight = t.inFlight /\ p.bootstraps = t.bootstraps
  BY <1>4 DEF Basic, State
<1> HIDE DEF p
<1>7. GatewayOpen(p) => QueuedConnects(p.queue) = {}
  BY <1>3, <1>6 DEF Basic, GatewayOpen
<1>8. Basic(p) /\ Watched(p)
  BY <1>2, <1>5, <1>6, <1>7 DEF Basic, Watched, GatewayOpen, RelayOpen
<1> QED BY <1>3, <1>6, <1>8 DEF p

LEMMA SendLemma ==
  ASSUME NEW t, Basic(t), GatewayOpen(t), NEW m \in Frames, t.started \/ IsConnect(m)
  PROVE  LET v == Send([t EXCEPT !.started = TRUE], m)
         IN /\ Basic(v) /\ Watched(v)
            /\ v.gateway = "open" /\ v.relay = t.relay /\ v.clients = t.clients /\ v.queue = t.queue
<1> DEFINE u == [t EXCEPT !.started = TRUE]
           v == Send(u, m)
           f == IF t.first = "none" THEN IF IsConnect(m) THEN "connect" ELSE "other" ELSE t.first
<1>1. u \in State
  BY SetStarted, Zenon DEF Basic
<1>2. /\ u.queue = t.queue /\ u.gateway = t.gateway /\ u.boundary = t.boundary
      /\ u.connecting = t.connecting /\ u.delivered = t.delivered
      /\ u.relay = t.relay /\ u.reconnect = t.reconnect /\ u.stopped = t.stopped
      /\ u.clients = t.clients /\ u.challenged = t.challenged
      /\ u.first = t.first /\ u.started /\ u.unanswered = t.unanswered /\ u.inFlight = t.inFlight
  BY DEF Basic, State
<1>3. f = "connect"
  BY DEF Basic, State
<1> HIDE DEF u
<1>4. CASE IsConnect(m)
  <2> DEFINE n == u.clients > 0
             g == u.inFlight \union {m}
             h == u.delivered \union {m}
             k == u.unanswered \union {m}
  <2>1. g \subseteq Connects /\ h \subseteq Connects /\ k \subseteq Connects /\ n \in BOOLEAN
    BY <1>1, <1>4 DEF State, Frames, IsConnect
  <2>2. v = [u EXCEPT !.wait = "none", !.inFlight = g, !.delivered = h, !.unanswered = k,
                      !.session = n, !.first = f]
    BY <1>1, <1>2, <1>4 DEF Send, State
  <2> HIDE DEF n, h, f
  <2>3. k \subseteq g
    BY <1>2 DEF Basic
  <2> HIDE DEF g, k
  <2>4. v \in State
    <3> DEFINE w == [u EXCEPT !.wait = "none", !.inFlight = g, !.delivered = h]
    <3>1. w \in State
      BY <1>1, <2>1, SetStarted, SetWait, SetInFlight, SetDelivered, Zenon
    <3>2. v = [w EXCEPT !.unanswered = k, !.session = n, !.first = f]
      BY <1>1, <2>2 DEF State
    <3> HIDE DEF w
    <3> QED
      <4>1. [w EXCEPT !.unanswered = k, !.session = n, !.first = f] \in State
        BY <1>3, <2>1, <3>1, SetFirst, SetUnanswered, SetSession, Zenon
      <4> QED BY <3>2, <4>1
  <2>5. /\ v.queue = t.queue /\ v.gateway = t.gateway /\ v.boundary = t.boundary
        /\ v.connecting = t.connecting
        /\ v.relay = t.relay /\ v.reconnect = t.reconnect /\ v.stopped = t.stopped
        /\ v.clients = t.clients /\ v.challenged = t.challenged
        /\ v.first = f /\ v.started /\ v.unanswered = k /\ v.inFlight = g
    BY <1>1, <1>2, <2>2 DEF State
  <2> HIDE DEF v
  <2>6. Basic(v) /\ Watched(v)
    BY <1>3, <2>3, <2>4, <2>5 DEF Basic, Watched, GatewayOpen
  <2> QED BY <2>5, <2>6 DEF v, u, GatewayOpen
<1>5. CASE ~IsConnect(m)
  <2>1. v = [u EXCEPT !.first = f]
    BY <1>1, <1>2, <1>5 DEF Send, State
  <2> HIDE DEF f
  <2>2. v \in State
    BY <1>1, <1>3, <2>1, SetStarted, SetFirst, Zenon
  <2>3. /\ v.queue = t.queue /\ v.gateway = t.gateway /\ v.boundary = t.boundary
        /\ v.connecting = t.connecting
        /\ v.relay = t.relay /\ v.reconnect = t.reconnect /\ v.stopped = t.stopped
        /\ v.clients = t.clients /\ v.challenged = t.challenged
        /\ v.first = f /\ v.started /\ v.unanswered = t.unanswered /\ v.inFlight = t.inFlight
    BY <1>1, <1>2, <2>1 DEF State
  <2> HIDE DEF v
  <2>4. Basic(v) /\ Watched(v)
    BY <1>3, <2>2, <2>3 DEF Basic, Watched, GatewayOpen
  <2> QED BY <2>3, <2>4 DEF v, u, GatewayOpen
<1> QED BY <1>4, <1>5

(* A queue with a connect has a latest one. *)
LEMMA LatestLemma ==
  ASSUME NEW q \in Seq(Frames), QueuedConnects(q) # {}
  PROVE  LET last == LatestConnect(q)
         IN /\ last \in 1 .. Len(q) /\ q[last] \in Connects /\ IsConnect(q[last])
            /\ \A j \in last+1 .. Len(q) : ~IsConnect(q[j])
<1> DEFINE I == {i \in 1 .. Len(q) : IsConnect(q[i])}
           D == {Len(q) - i : i \in I}
<1>1. Len(q) \in Nat /\ \A i \in 1 .. Len(q) : q[i] \in Frames
  OBVIOUS
<1>2. D \subseteq Nat /\ D # {}
  BY <1>1 DEF QueuedConnects, IsConnect
<1>3. PICK d \in D : \A e \in D : ~(<<e, d>> \in OpToRel(<, Nat))
  BY <1>2, WFMin, NatLessThanWellFounded
<1>4. PICK i \in I : d = Len(q) - i
  BY <1>3
<1>5. \A j \in i+1 .. Len(q) : ~IsConnect(q[j])
  <2> SUFFICES ASSUME NEW j \in i+1 .. Len(q), IsConnect(q[j]) PROVE FALSE
    OBVIOUS
  <2>1. Len(q) - j \in D
    BY <1>1, <1>4
  <2>2. Len(q) - j < d /\ Len(q) - j \in Nat /\ d \in Nat
    BY <1>1, <1>2, <1>4
  <2> QED BY <1>3, <2>1, <2>2 DEF OpToRel
<1>6. \E l \in 1 .. Len(q) : IsConnect(q[l]) /\ \A j \in l+1 .. Len(q) : ~IsConnect(q[j])
  BY <1>4, <1>5
<1>7. LatestConnect(q) = CHOOSE l \in 1 .. Len(q) :
                           IsConnect(q[l]) /\ \A j \in l+1 .. Len(q) : ~IsConnect(q[j])
  BY DEF LatestConnect
<1> QED BY <1>1, <1>6, <1>7 DEF Frames, IsConnect

(* Other frames only are no connects. *)
LEMMA OthersLemma ==
  ASSUME NEW n \in Nat
  PROVE  LET k == [i \in 1 .. n |-> Other]
         IN k \in Seq(Frames) /\ Len(k) = n /\ QueuedConnects(k) = {}
<1> DEFINE k == [i \in 1 .. n |-> Other]
<1>1. k \in Seq(Frames)
  BY DEF Frames
<1>2. Len(k) = n
  OBVIOUS
<1> QED BY <1>1, <1>2 DEF QueuedConnects

LEMMA PrunedLemma ==
  ASSUME NEW q \in Seq(Frames)
  PROVE  Pruned(q) \in Seq(Frames) /\ Len(Pruned(q)) <= Len(q)
         /\ (QueuedConnects(q) = {} => QueuedConnects(Pruned(q)) = {})
<1>1. CASE QueuedConnects(q) = {}
  BY <1>1 DEF Pruned, LatestConnect, QueuedConnects
<1>2. CASE QueuedConnects(q) # {}
  <2>1. LatestConnect(q) \in 1 .. Len(q) /\ Len(q) \in Nat
    BY <1>2, LatestLemma
  <2>2. Pruned(q) = SubSeq(q, LatestConnect(q), Len(q))
    BY <2>1 DEF Pruned
  <2> QED BY <1>2, <2>1, <2>2
<1> QED BY <1>1, <1>2

LEMMA ForwardLemma ==
  ASSUME NEW t, Basic(t), Watched(t), Served(t), NEW m \in Frames
  PROVE  LET f == ForwardOrQueue(t, m) IN Basic(f) /\ Watched(f) /\ Served(f)
<1> DEFINE f == ForwardOrQueue(t, m)
<1>1. CASE t.boundary
  <2>1. f = Push(t, m) /\ ~GatewayOpen(t) /\ t.gateway # "none"
    BY <1>1 DEF ForwardOrQueue, Basic, GatewayOpen
  <2> QED BY <2>1, PushLemma DEF Served
<1>2. CASE ~t.boundary /\ ~GatewayOpen(t)
  <2>1. f = Push(Ensure(t), m)
    BY <1>2 DEF ForwardOrQueue
  <2>2. Basic(Ensure(t)) /\ Watched(Ensure(t)) /\ ~GatewayOpen(Ensure(t))
        /\ Ensure(t).relay = t.relay /\ (RelayOpen(t) => Ensure(t).gateway # "none")
    BY <1>2, EnsureLemma
  <2> QED BY <2>1, <2>2, PushLemma DEF Served, RelayOpen
<1>3. CASE ~t.boundary /\ GatewayOpen(t) /\ (t.started \/ IsConnect(m))
  <2>1. f = Send([t EXCEPT !.started = TRUE], m)
    BY <1>3 DEF ForwardOrQueue
  <2> QED BY <1>3, <2>1, SendLemma DEF Served
<1>4. CASE ~t.boundary /\ GatewayOpen(t) /\ ~t.started /\ ~IsConnect(m)
  <2>1. f = Push(t, m)
    BY <1>4 DEF ForwardOrQueue
  <2> QED BY <1>4, <2>1, PushLemma DEF Served, IsConnect, GatewayOpen
<1> QED BY <1>1, <1>2, <1>3, <1>4

LEMMA DemandEndsLemma ==
  ASSUME NEW t, Basic(t)
  PROVE  LET e == DemandEnds(t) IN Basic(e) /\ Watched(e) /\ Served(e)
<1> DEFINE z == [t EXCEPT !.clients = 0, !.wait = "none", !.started = FALSE,
                          !.session = FALSE, !.unaware = FALSE]
           e == DropStaleIdleQueue(z)
<1>1. z \in State
  <2>1. MaxClients \in Nat /\ 0 \in 0 .. MaxClients
    BY BoundsAssumption
  <2> QED BY <2>1, SetStarted, SetWait, SetClients, SetSession, SetUnaware, Zenon DEF Basic
<1>2. /\ z.clients = 0 /\ ~z.started /\ z.queue = t.queue
      /\ z.gateway = t.gateway /\ z.boundary = t.boundary /\ z.connecting = t.connecting
      /\ z.relay = t.relay /\ z.reconnect = t.reconnect /\ z.stopped = t.stopped
      /\ z.challenged = t.challenged /\ z.first = t.first
      /\ z.unanswered = t.unanswered /\ z.inFlight = t.inFlight
  BY DEF Basic, State
<1> HIDE DEF z
<1>3. Basic(z)
  BY <1>1, <1>2 DEF Basic, GatewayOpen
<1>4. Basic(e) /\ e.clients = 0 /\ e.relay = t.relay
  <2>1. CASE QueuedConnects(z.queue) # {}
    BY <1>2, <1>3, <2>1 DEF DropStaleIdleQueue
  <2>2. CASE QueuedConnects(z.queue) = {}
    <3>1. e = [z EXCEPT !.queue = <<>>]
      BY <2>2 DEF DropStaleIdleQueue
    <3>2. e \in State /\ e.queue = <<>> /\ QueuedConnects(e.queue) = {} /\ Len(e.queue) <= MaxQueue
      <4>1. <<>> \in Seq(Frames) /\ Len(<<>>) <= MaxQueue /\ QueuedConnects(<<>>) = {}
        BY QueueAssumption DEF QueuedConnects
      <4>2. e.queue = <<>>
        BY <1>1, <3>1 DEF State
      <4>3. e \in State
        BY <1>1, <3>1, <4>1, SetQueue, Zenon
      <4> QED BY <4>1, <4>2, <4>3
    <3>3. /\ e.clients = 0 /\ ~e.started
          /\ e.gateway = t.gateway /\ e.boundary = t.boundary /\ e.connecting = t.connecting
          /\ e.relay = t.relay /\ e.reconnect = t.reconnect /\ e.stopped = t.stopped
          /\ e.challenged = t.challenged /\ e.first = t.first
          /\ e.unanswered = t.unanswered /\ e.inFlight = t.inFlight
      BY <1>1, <1>2, <3>1 DEF State
    <3> HIDE DEF e
    <3> QED BY <3>2, <3>3 DEF Basic, GatewayOpen
  <2> QED BY <2>1, <2>2
<1> HIDE DEF e
<1>5. Watched(e)
  BY <1>4 DEF Watched
<1>6. DemandEnds(t) = IF GatewayOpen(e) /\ ~Wanted(e) THEN CloseGateway(e, FALSE)
                      ELSE IF Wanted(e) THEN Ensure(e) ELSE e
  BY DEF DemandEnds, e, z
<1>7. CASE GatewayOpen(e) /\ ~Wanted(e)
  <2>1. DemandEnds(t) = CloseGateway(e, FALSE)
    BY <1>6, <1>7
  <2> QED BY <1>4, <1>7, <2>1, CloseLemma DEF Served, GatewayOpen
<1>8. CASE Wanted(e)
  <2>1. DemandEnds(t) = Ensure(e)
    BY <1>6, <1>8
  <2> QED BY <1>4, <1>5, <2>1, EnsureLemma DEF Served, RelayOpen
<1>9. CASE ~GatewayOpen(e) /\ ~Wanted(e)
  BY <1>4, <1>5, <1>6, <1>9 DEF Served
<1> QED BY <1>7, <1>8, <1>9

LEMMA DemandIsLemma ==
  ASSUME NEW t, Basic(t), Watched(t), t.relay \in {"open", "closing"}, NEW n \in 1 .. MaxClients
  PROVE  LET e == DemandIs(t, n) IN Basic(e) /\ Watched(e) /\ Served(e)
<1> DEFINE c == [t EXCEPT !.clients = n]
           p == [c EXCEPT !.queue = Pruned(@)]
<1>1. c \in State
  <2>1. MaxClients \in Nat /\ n \in 0 .. MaxClients
    BY BoundsAssumption
  <2> QED BY <2>1, SetClients, Zenon DEF Basic
<1>2. /\ c.clients = n /\ c.queue = t.queue /\ c.started = t.started
      /\ c.gateway = t.gateway /\ c.boundary = t.boundary /\ c.connecting = t.connecting
      /\ c.relay = t.relay /\ c.reconnect = t.reconnect /\ c.stopped = t.stopped
      /\ c.challenged = t.challenged /\ c.first = t.first /\ c.wait = t.wait
      /\ c.unanswered = t.unanswered /\ c.inFlight = t.inFlight /\ c.bootstraps = t.bootstraps
  BY DEF Basic, State
<1> HIDE DEF c
<1>3. Basic(c)
  BY <1>1, <1>2 DEF Basic, GatewayOpen
<1>4. Pruned(c.queue) \in Seq(Frames) /\ Len(Pruned(c.queue)) <= MaxQueue
      /\ (GatewayOpen(c) => QueuedConnects(Pruned(c.queue)) = {})
  <2>1. c.queue \in Seq(Frames) /\ Len(c.queue) <= MaxQueue /\ Len(c.queue) \in Nat
        /\ (GatewayOpen(c) => QueuedConnects(c.queue) = {})
    BY <1>3 DEF Basic, State, Frames
  <2>2. Len(Pruned(c.queue)) \in Nat /\ Len(Pruned(c.queue)) <= Len(c.queue)
    BY <2>1, PrunedLemma
  <2> QED BY <2>1, <2>2, PrunedLemma, QueueAssumption
<1>5. Basic(p)
  <2> DEFINE q == Pruned(c.queue)
  <2> HIDE DEF q
  <2>0. p = [c EXCEPT !.queue = q]
    BY <1>1 DEF State, q
  <2>1. p \in State /\ p.queue = q
    BY <1>1, <1>4, <2>0 DEF State, Frames, q
  <2>2. /\ p.clients = c.clients /\ p.started = c.started
        /\ p.gateway = c.gateway /\ p.boundary = c.boundary /\ p.connecting = c.connecting
        /\ p.relay = c.relay /\ p.reconnect = c.reconnect /\ p.stopped = c.stopped
        /\ p.challenged = c.challenged /\ p.first = c.first
        /\ p.unanswered = c.unanswered /\ p.inFlight = c.inFlight
    BY <1>1, <2>0 DEF State
  <2> HIDE DEF p
  <2> QED BY <1>3, <1>4, <2>1, <2>2 DEF Basic, GatewayOpen, q
<1>6. CASE t.clients = 0 /\ GatewayOpen(t)
  <2>1. p.gateway = "open"
    BY <1>1, <1>2, <1>6 DEF State, GatewayOpen
  <2>2. DemandIs(t, n) = Ensure(CloseGateway(p, TRUE))
    BY <1>6 DEF DemandIs, p, c
  <2> HIDE DEF p
  <2> DEFINE k == CloseGateway(p, TRUE)
  <2>3. Basic(k) /\ Watched(k)
    BY <1>5, <2>1, CloseLemma DEF GatewayOpen
  <2> HIDE DEF k
  <2>4. Basic(Ensure(k)) /\ Watched(Ensure(k)) /\ (RelayOpen(Ensure(k)) => Ensure(k).gateway # "none")
    BY <2>3, EnsureLemma DEF RelayOpen
  <2>5. Served(Ensure(k))
    BY <2>4 DEF Served
  <2>6. DemandIs(t, n) = Ensure(k)
    BY <2>2 DEF k
  <2> QED BY <2>4, <2>5, <2>6
<1>7. CASE ~(t.clients = 0 /\ GatewayOpen(t))
  <2>1. DemandIs(t, n) = Ensure(c)
    BY <1>7 DEF DemandIs, c
  <2>2. Watched(c)
    <3> SUFFICES ASSUME GatewayOpen(c), RelayOpen(c), c.challenged, ~c.started, c.bootstraps = 0
                 PROVE  c.wait = "current"
      BY DEF Watched
    <3>1. t.clients > 0
      BY <1>2, <1>7 DEF Basic, State, GatewayOpen
    <3> QED BY <1>2, <3>1 DEF Watched, GatewayOpen, RelayOpen
  <2> QED BY <1>3, <2>1, <2>2, EnsureLemma DEF Served, RelayOpen
<1> QED BY <1>6, <1>7

LEMMA ChallengeWaitLemma ==
  ASSUME NEW t, Basic(t)
  PROVE  LET w == StartChallengeWait(t)
         IN /\ Basic(w) /\ Watched(w) /\ (Served(t) => Served(w))
<1> DEFINE w == StartChallengeWait(t)
           x == IF t.stopped \/ ~GatewayOpen(t) \/ ~RelayOpen(t) \/ t.started
                     \/ t.bootstraps > 0 \/ t.clients = 0
                THEN "none" ELSE "current"
<1>1. w = [t EXCEPT !.wait = x]
  BY DEF StartChallengeWait
<1>2. x \in {"none", "current", "stale"}
  OBVIOUS
<1>3. GatewayOpen(t) /\ RelayOpen(t) /\ ~t.started /\ t.clients > 0 /\ t.bootstraps = 0 => x = "current"
  BY DEF Basic, State, RelayOpen
<1> HIDE DEF x
<1>4. w \in State
  <2>1. [t EXCEPT !.wait = x] \in State
    BY <1>2, SetWait, Zenon DEF Basic
  <2> QED BY <1>1, <2>1
<1>5. /\ w.wait = x /\ w.queue = t.queue /\ w.retry = t.retry /\ w.bootstraps = t.bootstraps
      /\ w.clients = t.clients /\ w.started = t.started
      /\ w.gateway = t.gateway /\ w.boundary = t.boundary /\ w.connecting = t.connecting
      /\ w.relay = t.relay /\ w.reconnect = t.reconnect /\ w.stopped = t.stopped
      /\ w.challenged = t.challenged /\ w.first = t.first
      /\ w.unanswered = t.unanswered /\ w.inFlight = t.inFlight
  BY <1>1 DEF Basic, State
<1> HIDE DEF w
<1>6. Basic(w) /\ Watched(w)
  BY <1>3, <1>4, <1>5 DEF Basic, Watched, GatewayOpen, RelayOpen
<1>7. Served(t) => Served(w)
  BY <1>5 DEF Served, RelayOpen, Wanted
<1> QED BY <1>6, <1>7 DEF w

LEMMA InitLemma == ASSUME Init PROVE IInv
<1>1. s \in State /\ Len(s.queue) <= MaxQueue
  <2>1. /\ 0 \in 0 .. MaxClients /\ 0 \in 0 .. MaxConnects /\ 0 \in 0 .. MaxBootstraps
        /\ 0 \in 0 .. MaxRetries /\ <<>> \in Seq(Connects \union {Other}) /\ Len(<<>>) <= MaxQueue
    BY BoundsAssumption, QueueAssumption
  <2> QED BY <2>1 DEF Init, State, Sockets
<1>2. Basic(s)
  BY <1>1 DEF Init, Basic, GatewayOpen
<1> QED BY <1>2 DEF Init, IInv, Served, Watched, RelayOpen, GatewayOpen

LEMMA StepLemma == ASSUME IInv, [Next]_vars PROVE IInv'
<1> USE DEF RelayDelivers, GatewayDelivers
<1>1. ASSUME Start
      PROVE  IInv'
  <2>1. s' \in State
    BY <1>1, SetStopped, SetRelay, Zenon DEF Start, IInv, Basic
  <2>2. /\ s'.reconnect = s.reconnect /\ s'.gateway = s.gateway /\ s'.connecting = s.connecting /\ s'.boundary = s.boundary
        /\ s'.started = s.started /\ s'.retry = s.retry /\ s'.wait = s.wait /\ s'.clients = s.clients
        /\ s'.queue = s.queue /\ s'.inFlight = s.inFlight /\ s'.bootstraps = s.bootstraps /\ s'.challenged = s.challenged
        /\ s'.first = s.first /\ s'.unanswered = s.unanswered
        /\ ~s'.stopped
        /\ s'.relay = "connecting"
    BY <1>1 DEF Start, IInv, Basic, State
  <2> QED BY <1>1, <2>1, <2>2 DEF Start, IInv, Basic, Watched, Served, GatewayOpen, RelayOpen,
             Wanted
<1>2. ASSUME Stop
      PROVE  IInv'
  <2> DEFINE e == EndConnection(s, TRUE)
             d == s.discarded \union QueuedConnects(s.queue)
  <2>0. s \in State /\ s.queue \in Seq(Frames)
    BY DEF IInv, Basic, State, Frames
  <2>1. /\ e \in State /\ e.first = "none" /\ ~e.challenged /\ e.unanswered = {}
        /\ e.superseded = s.superseded /\ e.discarded = s.discarded
    BY <2>0, EndLemma
  <2>2. d \subseteq Connects
    BY <2>0 DEF State, QueuedConnects, Frames
  <2>3. <<>> \in Seq(Frames) /\ Len(<<>>) <= MaxQueue /\ QueuedConnects(<<>>) = {}
        /\ 0 \in 0 .. MaxClients
    BY QueueAssumption, BoundsAssumption DEF QueuedConnects
  <2>4. s' = [e EXCEPT
                !.stopped = TRUE, !.relay = "none", !.reconnect = FALSE, !.gateway = "none",
                !.connecting = FALSE, !.boundary = FALSE, !.started = FALSE, !.retry = FALSE,
                !.wait = "none", !.clients = 0, !.queue = <<>>, !.inFlight = {},
                !.superseded = s.superseded \/ s.gateway # "none", !.discarded = d]
    BY <1>2, <2>1 DEF Stop, State
  <2> HIDE DEF e, d
  <2>5. s' \in State
    <3> DEFINE w == [e EXCEPT !.stopped = TRUE, !.relay = "none", !.reconnect = FALSE, !.gateway = "none",
                              !.connecting = FALSE, !.boundary = FALSE]
               x == [w EXCEPT !.started = FALSE, !.retry = FALSE, !.wait = "none", !.clients = 0]
    <3>1. w \in State
      BY <2>1, SetStopped, SetRelay, SetReconnect, SetGateway, SetConnecting, SetBoundary, Zenon
    <3>2. x \in State
      BY <2>3, <3>1, SetStopped, SetRelay, SetReconnect, SetGateway, SetConnecting,
         SetBoundary, SetStarted, SetRetry, SetWait, SetClients, Zenon
    <3>3. s' = [x EXCEPT !.queue = <<>>, !.inFlight = {},
                         !.superseded = s.superseded \/ s.gateway # "none", !.discarded = d]
      BY <2>1, <2>4 DEF State
    <3> HIDE DEF w, x
    <3> QED BY <2>2, <2>3, <3>2, <3>3, SetStopped, SetRelay, SetReconnect, SetGateway,
               SetConnecting, SetBoundary, SetStarted, SetRetry, SetWait, SetClients, SetQueue,
               SetInFlight, SetSuperseded, SetDiscarded, Zenon
  <2>6. /\ s'.stopped /\ s'.relay = "none" /\ ~s'.reconnect /\ s'.gateway = "none"
        /\ ~s'.connecting /\ ~s'.boundary /\ ~s'.started /\ s'.clients = 0 /\ s'.queue = <<>>
        /\ s'.inFlight = {} /\ s'.first = "none" /\ ~s'.challenged /\ s'.unanswered = {}
    BY <2>1, <2>4 DEF State
  <2> QED BY <2>3, <2>5, <2>6 DEF IInv, Basic, Watched, Served, GatewayOpen, RelayOpen
<1>3. ASSUME RelayReconnects
      PROVE  IInv'
  <2>1. s' \in State
    BY <1>3, SetRelay, SetReconnect, Zenon DEF RelayReconnects, IInv, Basic
  <2>2. /\ s'.stopped = s.stopped /\ s'.gateway = s.gateway /\ s'.connecting = s.connecting /\ s'.boundary = s.boundary
        /\ s'.started = s.started /\ s'.retry = s.retry /\ s'.wait = s.wait /\ s'.clients = s.clients
        /\ s'.queue = s.queue /\ s'.inFlight = s.inFlight /\ s'.bootstraps = s.bootstraps /\ s'.challenged = s.challenged
        /\ s'.first = s.first /\ s'.unanswered = s.unanswered
        /\ ~s'.reconnect
        /\ s'.relay = "connecting"
    BY <1>3 DEF RelayReconnects, IInv, Basic, State
  <2>3. s.clients = 0 => s'.clients = 0
    BY <2>2
  <2> QED BY <1>3, <2>1, <2>2, <2>3 DEF RelayReconnects, IInv, Basic, Watched, Served, GatewayOpen,
             RelayOpen, Wanted
<1>4. ASSUME RelayOpens
      PROVE  IInv'
  <2> DEFINE o == [s EXCEPT !.relay = "open"]
  <2>1. o \in State
    BY SetRelay, Zenon DEF IInv, Basic
  <2>2. /\ o.relay = "open" /\ o.stopped = s.stopped /\ o.reconnect = s.reconnect /\ o.gateway = s.gateway
        /\ o.connecting = s.connecting /\ o.boundary = s.boundary /\ o.started = s.started
        /\ o.clients = s.clients /\ o.queue = s.queue /\ o.inFlight = s.inFlight
        /\ o.challenged = s.challenged /\ o.first = s.first /\ o.unanswered = s.unanswered
    BY DEF IInv, Basic, State
  <2>3. s' = IF Wanted(o) THEN Ensure(o) ELSE o
    BY <1>4 DEF RelayOpens
  <2> HIDE DEF o
  <2>4. Basic(o) /\ Watched(o)
    BY <1>4, <2>1, <2>2 DEF RelayOpens, IInv, Basic, Watched, GatewayOpen
  <2>5. CASE Wanted(o)
    BY <2>2, <2>3, <2>4, <2>5, EnsureLemma DEF IInv, Served, RelayOpen
  <2>6. CASE ~Wanted(o)
    BY <2>3, <2>4, <2>6 DEF IInv, Served
  <2> QED BY <2>5, <2>6
<1>5. ASSUME RelayDrops
      PROVE  IInv'
  <2>1. s' \in State
    BY <1>5, SetRelay, Zenon DEF RelayDrops, IInv, Basic
  <2>2. /\ s'.stopped = s.stopped /\ s'.reconnect = s.reconnect /\ s'.gateway = s.gateway /\ s'.connecting = s.connecting
        /\ s'.boundary = s.boundary /\ s'.started = s.started /\ s'.retry = s.retry /\ s'.wait = s.wait
        /\ s'.clients = s.clients /\ s'.queue = s.queue /\ s'.inFlight = s.inFlight /\ s'.bootstraps = s.bootstraps
        /\ s'.challenged = s.challenged /\ s'.first = s.first /\ s'.unanswered = s.unanswered
        /\ s'.relay = "closing"
    BY <1>5 DEF RelayDrops, IInv, Basic, State
  <2> QED BY <1>5, <2>1, <2>2 DEF RelayDrops, IInv, Basic, Watched, Served, GatewayOpen, RelayOpen,
             Wanted
<1>6. ASSUME RelayCloses
      PROVE  IInv'
  <2> DEFINE c == [s EXCEPT !.relay = "none", !.reconnect = TRUE, !.clients = 0,
                            !.session = FALSE, !.unaware = FALSE]
  <2>1. c \in State
    <3>1. MaxClients \in Nat /\ 0 \in 0 .. MaxClients
      BY BoundsAssumption
    <3> QED BY <3>1, SetRelay, SetReconnect, SetClients, SetSession, SetUnaware, Zenon
               DEF IInv, Basic
  <2>2. /\ c.relay = "none" /\ c.stopped = s.stopped /\ c.gateway = s.gateway
        /\ c.connecting = s.connecting /\ c.boundary = s.boundary /\ c.started = s.started
        /\ c.clients = 0 /\ c.queue = s.queue /\ c.inFlight = s.inFlight
        /\ c.challenged = s.challenged /\ c.first = s.first /\ c.unanswered = s.unanswered
    BY DEF IInv, Basic, State
  <2>3. s' = CloseGateway(c, FALSE)
    BY <1>6 DEF RelayCloses
  <2> HIDE DEF c
  <2>4. Basic(c)
    BY <1>6, <2>1, <2>2 DEF RelayCloses, IInv, Basic, GatewayOpen
  <2> QED BY <2>2, <2>3, <2>4, CloseLemma DEF IInv, Served, RelayOpen
<1>7. ASSUME ConnectFrame
      PROVE  IInv'
  <2> DEFINE l == [s EXCEPT !.latest = @ + 1]
             m == s.latest + 1
  <2>1. m \in Connects /\ m \in 0 .. MaxConnects /\ m \in Frames
    BY <1>7, BoundsAssumption DEF ConnectFrame, IInv, Basic, State, Connects, Frames
  <2>2. l \in State
    BY <2>1, SetLatest, Zenon DEF IInv, Basic
  <2>3. /\ l.stopped = s.stopped /\ l.relay = s.relay /\ l.reconnect = s.reconnect
        /\ l.gateway = s.gateway /\ l.connecting = s.connecting /\ l.boundary = s.boundary
        /\ l.started = s.started /\ l.retry = s.retry /\ l.wait = s.wait /\ l.clients = s.clients
        /\ l.queue = s.queue /\ l.inFlight = s.inFlight /\ l.bootstraps = s.bootstraps
        /\ l.challenged = s.challenged /\ l.first = s.first /\ l.unanswered = s.unanswered
    BY DEF IInv, Basic, State
  <2>4. s' = ForwardOrQueue(l, m)
    BY <1>7 DEF ConnectFrame
  <2> HIDE DEF l, m
  <2>5. Basic(l) /\ Watched(l) /\ Served(l)
    BY <2>2, <2>3 DEF IInv, Basic, Watched, Served, GatewayOpen, RelayOpen, Wanted
  <2> QED BY <2>1, <2>4, <2>5, ForwardLemma DEF IInv
<1>8. ASSUME OtherFrame
      PROVE  IInv'
  BY <1>8, ForwardLemma DEF OtherFrame, IInv, Frames
<1>9. ASSUME NEW n \in 0 .. MaxClients, ClientCount(n)
      PROVE  IInv'
  <2>1. CASE n = 0
    BY <1>9, <2>1, DemandEndsLemma DEF ClientCount, IInv
  <2>2. CASE n # 0
    <3>1. n \in 1 .. MaxClients
      BY <2>2, BoundsAssumption
    <3> QED BY <1>9, <2>2, <3>1, DemandIsLemma DEF ClientCount, IInv
  <2> QED BY <2>1, <2>2
<1>10. ASSUME BootstrapStarts
      PROVE  IInv'
  <2>1. s' \in State
    <3>1. s.bootstraps + 1 \in 0 .. MaxBootstraps
      BY <1>10, BoundsAssumption DEF BootstrapStarts, IInv, Basic, State
    <3> QED BY <1>10, <3>1, SetWait, SetBootstraps, Zenon DEF BootstrapStarts, IInv, Basic
  <2>2. /\ s'.stopped = s.stopped /\ s'.relay = s.relay /\ s'.reconnect = s.reconnect /\ s'.gateway = s.gateway
        /\ s'.connecting = s.connecting /\ s'.boundary = s.boundary /\ s'.started = s.started /\ s'.retry = s.retry
        /\ s'.clients = s.clients /\ s'.queue = s.queue /\ s'.inFlight = s.inFlight /\ s'.challenged = s.challenged
        /\ s'.first = s.first /\ s'.unanswered = s.unanswered
        /\ s'.bootstraps = s.bootstraps + 1
        /\ s'.wait = "none"
    BY <1>10 DEF BootstrapStarts, IInv, Basic, State
  <2>3. s.bootstraps \in Nat
    BY BoundsAssumption DEF IInv, Basic, State
  <2> QED BY <1>10, <2>1, <2>2, <2>3 DEF BootstrapStarts, IInv, Basic, Watched, Served,
             GatewayOpen, RelayOpen, Wanted
<1>11. ASSUME BootstrapEnds
      PROVE  IInv'
  <2> DEFINE l == [s EXCEPT !.bootstraps = @ - 1]
  <2>1. s.bootstraps - 1 \in 0 .. MaxBootstraps
    BY <1>11, BoundsAssumption DEF BootstrapEnds, IInv, Basic, State
  <2>2. l \in State
    BY <2>1, SetBootstraps, Zenon DEF IInv, Basic
  <2>3. /\ l.stopped = s.stopped /\ l.relay = s.relay /\ l.reconnect = s.reconnect
        /\ l.gateway = s.gateway /\ l.connecting = s.connecting /\ l.boundary = s.boundary
        /\ l.started = s.started /\ l.retry = s.retry /\ l.clients = s.clients
        /\ l.queue = s.queue /\ l.inFlight = s.inFlight
        /\ l.challenged = s.challenged /\ l.first = s.first /\ l.unanswered = s.unanswered
    BY DEF IInv, Basic, State
  <2>4. s' = StartChallengeWait(l)
    BY <1>11 DEF BootstrapEnds
  <2> HIDE DEF l
  <2>5. Basic(l) /\ Served(l)
    BY <2>2, <2>3 DEF IInv, Basic, Served, GatewayOpen, RelayOpen, Wanted
  <2> QED BY <2>4, <2>5, ChallengeWaitLemma DEF IInv
<1>12. ASSUME ChallengeWaitEnds
      PROVE  IInv'
  <2> DEFINE r == IF s.wait = "current" /\ ~s.started /\ s.clients > 0 /\ s.relay # "none"
                  THEN "closing" ELSE s.relay
  <2>1. r \in Sockets /\ (r # s.relay => r = "closing" /\ s.relay # "none")
    BY DEF IInv, Basic, State, Sockets
  <2>2. s' = [s EXCEPT !.wait = "none", !.relay = r]
    BY <1>12 DEF ChallengeWaitEnds, IInv, Basic, State
  <2>3. r = "open" => s.relay = "open" /\ ~(s.wait = "current" /\ ~s.started /\ s.clients > 0)
    OBVIOUS
  <2> HIDE DEF r
  <2>4. s' \in State
    BY <2>1, <2>2, SetRelay, SetWait, Zenon DEF IInv, Basic
  <2>5. /\ s'.relay = r /\ s'.stopped = s.stopped /\ s'.reconnect = s.reconnect
        /\ s'.gateway = s.gateway /\ s'.connecting = s.connecting /\ s'.boundary = s.boundary
        /\ s'.started = s.started /\ s'.retry = s.retry /\ s'.clients = s.clients
        /\ s'.queue = s.queue /\ s'.inFlight = s.inFlight /\ s'.bootstraps = s.bootstraps
        /\ s'.challenged = s.challenged /\ s'.first = s.first /\ s'.unanswered = s.unanswered
    BY <2>2 DEF IInv, Basic, State
  <2>6. Basic(s') /\ Served(s')
    BY <2>1, <2>3, <2>4, <2>5 DEF IInv, Basic, Served, GatewayOpen, RelayOpen, Wanted
  <2>7. Watched(s')
    BY <2>3, <2>5 DEF IInv, Watched, GatewayOpen, RelayOpen
  <2> QED BY <2>6, <2>7 DEF IInv
<1>13. ASSUME GatewayOpens
      PROVE  IInv'
  <2> DEFINE o == [s EXCEPT !.gateway = "open", !.connecting = FALSE, !.started = FALSE,
                            !.boundary = FALSE, !.expected = FALSE]
             last == LatestConnect(o.queue)
             before == Cardinality({i \in 1 .. last - 1 : ~IsConnect(o.queue[i])})
             kept == [i \in 1 .. before |-> Other]
  <2>1. o \in State
    BY SetGateway, SetConnecting, SetBoundary, SetExpected, SetStarted, Zenon DEF IInv, Basic
  <2>2. /\ o.gateway = "open" /\ ~o.connecting /\ ~o.started /\ ~o.boundary
        /\ o.stopped = s.stopped /\ o.relay = s.relay /\ o.reconnect = s.reconnect
        /\ o.clients = s.clients /\ o.queue = s.queue /\ o.inFlight = s.inFlight
        /\ o.challenged = s.challenged /\ o.first = s.first /\ o.unanswered = s.unanswered
    BY DEF IInv, Basic, State
  <2>3. s' = Flush(o)
    BY <1>13 DEF GatewayOpens
  <2>4. o.queue \in Seq(Frames) /\ Len(o.queue) \in Nat /\ Len(o.queue) <= MaxQueue
    BY <2>2 DEF IInv, Basic, State, Frames
  <2>5. ~o.challenged
    BY <1>13, <2>2 DEF GatewayOpens, IInv, Basic
  <2> HIDE DEF o
  <2>6. CASE QueuedConnects(o.queue) = {}
    <3>1. s' = o
      BY <2>3, <2>6 DEF Flush, LatestConnect
    <3>2. Basic(o) /\ Watched(o)
      BY <2>1, <2>2, <2>4, <2>5, <2>6 DEF IInv, Basic, Watched
    <3> QED BY <2>2, <3>1, <3>2 DEF IInv, Served
  <2>7. CASE QueuedConnects(o.queue) # {}
    <3>1. last \in 1 .. Len(o.queue) /\ o.queue[last] \in Frames /\ IsConnect(o.queue[last])
      BY <2>4, <2>7, LatestLemma DEF Frames
    <3> HIDE DEF last
    <3>2. before \in Nat /\ before <= MaxQueue
      <4> DEFINE B == {i \in 1 .. last - 1 : ~IsConnect(o.queue[i])}
      <4>1. IsFiniteSet(1 .. last - 1) /\ Cardinality(1 .. last - 1) <= last /\ Cardinality(1 .. last - 1) \in Nat
        <5>1. last - 1 \in Int /\ last - 1 >= 0
          BY <2>4, <3>1
        <5>2. \A n \in Int : IsFiniteSet(1 .. n) /\ Cardinality(1 .. n) = IF 1 > n THEN 0 ELSE n - 1 + 1
          BY FS_Interval
        <5>3. Cardinality(1 .. last - 1) = IF 1 > last - 1 THEN 0 ELSE (last - 1) - 1 + 1
          BY <5>1, <5>2
        <5> QED BY <2>4, <3>1, <5>1, <5>2, <5>3
      <4>2. B \subseteq 1 .. last - 1
        OBVIOUS
      <4> HIDE DEF B
      <4>3. IsFiniteSet(B) /\ Cardinality(B) <= Cardinality(1 .. last - 1)
        BY <4>1, <4>2, FS_Subset
      <4>4. Cardinality(B) \in Nat
        BY <4>3, FS_CardinalityType
      <4> QED BY <2>4, <3>1, <4>1, <4>3, <4>4, QueueAssumption DEF B
    <3> HIDE DEF before
    <3>3. kept \in Seq(Frames) /\ Len(kept) <= MaxQueue /\ QueuedConnects(kept) = {}
      BY <3>2, OthersLemma
    <3> HIDE DEF kept
    <3> DEFINE k == [o EXCEPT !.queue = kept]
    <3>4. k \in State
      BY <2>1, <3>3, SetGateway, SetConnecting, SetBoundary, SetExpected, SetStarted, SetQueue,
         Zenon
    <3>5. /\ k.queue = kept /\ k.gateway = o.gateway /\ k.connecting = o.connecting
          /\ k.started = o.started /\ k.boundary = o.boundary /\ k.stopped = o.stopped
          /\ k.relay = o.relay /\ k.reconnect = o.reconnect /\ k.clients = o.clients
          /\ k.inFlight = o.inFlight /\ k.challenged = o.challenged /\ k.first = o.first
          /\ k.unanswered = o.unanswered
      BY <2>1 DEF State
    <3>6. s' = Send([o EXCEPT !.queue = kept, !.started = TRUE], o.queue[last])
      BY <2>3, <3>1 DEF Flush, last, before, kept
    <3>7. [o EXCEPT !.queue = kept, !.started = TRUE] = [k EXCEPT !.started = TRUE]
      BY <2>1 DEF State
    <3> HIDE DEF k
    <3>8. Basic(k)
      BY <2>2, <3>3, <3>4, <3>5 DEF IInv, Basic
    <3> QED BY <2>2, <3>1, <3>5, <3>6, <3>7, <3>8, SendLemma DEF IInv, Served, GatewayOpen
  <2> QED BY <2>6, <2>7
<1>14. ASSUME GatewayDrops
      PROVE  IInv'
  <2>1. s' \in State
    BY <1>14, SetGateway, Zenon DEF GatewayDrops, IInv, Basic
  <2>2. /\ s'.stopped = s.stopped /\ s'.relay = s.relay /\ s'.reconnect = s.reconnect /\ s'.connecting = s.connecting
        /\ s'.boundary = s.boundary /\ s'.started = s.started /\ s'.retry = s.retry /\ s'.wait = s.wait
        /\ s'.clients = s.clients /\ s'.queue = s.queue /\ s'.inFlight = s.inFlight /\ s'.bootstraps = s.bootstraps
        /\ s'.challenged = s.challenged /\ s'.first = s.first /\ s'.unanswered = s.unanswered
        /\ s'.gateway = "closing"
    BY <1>14 DEF GatewayDrops, IInv, Basic, State
  <2> QED BY <1>14, <2>1, <2>2 DEF GatewayDrops, IInv, Basic, Watched, Served, GatewayOpen,
             RelayOpen, Wanted
<1>15. ASSUME GatewayCloses
      PROVE  IInv'
  <2> DEFINE told == ~s.expected /\ s.clients > 0 /\ RelayOpen(s)
             e == EndConnection(s, told)
             c == [e EXCEPT !.gateway = "none", !.connecting = FALSE, !.started = FALSE,
                            !.boundary = FALSE, !.expected = FALSE, !.wait = "none", !.inFlight = {}]
             again == s.boundary /\ Wanted(s)
  <2>1. s \in State /\ told \in BOOLEAN
    BY DEF IInv, Basic
  <2>2. s' = IF again THEN Ensure(c) ELSE ScheduleGatewayReconnect(c)
    BY <1>15 DEF GatewayCloses
  <2> HIDE DEF told, again
  <2>3. /\ e \in State /\ e.first = "none" /\ ~e.challenged /\ e.unanswered = {}
        /\ e.relay = s.relay /\ e.reconnect = s.reconnect /\ e.stopped = s.stopped
        /\ e.clients = s.clients /\ e.queue = s.queue
    BY <2>1, EndLemma
  <2> HIDE DEF e
  <2>4. c \in State
    BY <2>3, SetGateway, SetConnecting, SetBoundary, SetExpected, SetStarted, SetWait,
       SetInFlight, Zenon
  <2>5. /\ c.first = "none" /\ ~c.challenged /\ c.unanswered = {} /\ c.gateway = "none"
        /\ ~c.connecting /\ ~c.boundary /\ ~c.started
        /\ c.relay = s.relay /\ c.reconnect = s.reconnect /\ c.stopped = s.stopped
        /\ c.clients = s.clients /\ c.queue = s.queue
    BY <2>3 DEF State
  <2> HIDE DEF c
  <2>6. Basic(c) /\ Watched(c)
    BY <2>4, <2>5 DEF IInv, Basic, Watched, GatewayOpen
  <2>7. CASE again
    BY <2>2, <2>6, <2>7, EnsureLemma DEF IInv, Served, RelayOpen
  <2>8. CASE ~again
    <3>1. CASE RelayOpen(c) /\ Wanted(c)
      <4>1. s' = [c EXCEPT !.retry = TRUE]
        BY <2>2, <2>6, <2>8, <3>1 DEF ScheduleGatewayReconnect, Basic, RelayOpen
      <4>2. s' \in State
        BY <2>4, <4>1, SetGateway, SetConnecting, SetBoundary, SetExpected, SetStarted,
           SetRetry, SetWait, SetInFlight, Zenon
      <4>3. /\ s'.retry /\ s'.first = c.first /\ s'.challenged = c.challenged
            /\ s'.unanswered = c.unanswered /\ s'.gateway = c.gateway
            /\ s'.connecting = c.connecting /\ s'.boundary = c.boundary /\ s'.started = c.started
            /\ s'.relay = c.relay /\ s'.reconnect = c.reconnect /\ s'.stopped = c.stopped
            /\ s'.clients = c.clients /\ s'.queue = c.queue /\ s'.inFlight = c.inFlight
        BY <2>4, <4>1 DEF State
      <4> QED BY <2>5, <2>6, <4>2, <4>3 DEF IInv, Basic, Watched, Served, GatewayOpen
    <3>2. CASE ~(RelayOpen(c) /\ Wanted(c))
      <4>1. s' = c
        BY <2>2, <2>8, <3>2 DEF ScheduleGatewayReconnect
      <4> QED BY <2>6, <3>2, <4>1 DEF IInv, Served
    <3> QED BY <3>1, <3>2
  <2> QED BY <2>7, <2>8
<1>16. ASSUME SupersededCloses
      PROVE  IInv'
  <2>1. PICK more \in BOOLEAN : s' = [s EXCEPT !.superseded = more]
    BY <1>16 DEF SupersededCloses
  <2>2. s' \in State
    BY <2>1, SetSuperseded, Zenon DEF IInv, Basic
  <2>3. /\ s'.stopped = s.stopped /\ s'.relay = s.relay /\ s'.reconnect = s.reconnect
        /\ s'.gateway = s.gateway /\ s'.connecting = s.connecting /\ s'.boundary = s.boundary
        /\ s'.started = s.started /\ s'.retry = s.retry /\ s'.wait = s.wait /\ s'.clients = s.clients
        /\ s'.queue = s.queue /\ s'.bootstraps = s.bootstraps
        /\ s'.challenged = s.challenged /\ s'.first = s.first
        /\ s'.unanswered = s.unanswered /\ s'.inFlight = s.inFlight
    BY <2>1 DEF IInv, Basic, State
  <2> QED BY <2>2, <2>3 DEF IInv, Basic, Watched, Served, GatewayOpen, RelayOpen, Wanted
<1>17. ASSUME GatewayRetries
      PROVE  IInv'
  <2> DEFINE l == [s EXCEPT !.retry = FALSE]
  <2>1. l \in State
    BY SetRetry, Zenon DEF IInv, Basic
  <2>2. /\ l.stopped = s.stopped /\ l.relay = s.relay /\ l.reconnect = s.reconnect
        /\ l.gateway = s.gateway /\ l.connecting = s.connecting /\ l.boundary = s.boundary
        /\ l.started = s.started /\ l.wait = s.wait /\ l.clients = s.clients
        /\ l.queue = s.queue /\ l.inFlight = s.inFlight /\ l.bootstraps = s.bootstraps
        /\ l.challenged = s.challenged /\ l.first = s.first /\ l.unanswered = s.unanswered
    BY DEF IInv, Basic, State
  <2>3. s' = Ensure(l)
    BY <1>17 DEF GatewayRetries
  <2> HIDE DEF l
  <2>4. Basic(l) /\ Watched(l)
    BY <2>1, <2>2 DEF IInv, Basic, Watched, GatewayOpen, RelayOpen
  <2> QED BY <2>3, <2>4, EnsureLemma DEF IInv, Served, RelayOpen
<1>18. ASSUME Challenge
      PROVE  IInv'
  <2> DEFINE l == [s EXCEPT !.challenged = TRUE, !.unaware = FALSE]
  <2>1. l \in State
    BY SetChallenged, SetUnaware, Zenon DEF IInv, Basic
  <2>2. /\ l.stopped = s.stopped /\ l.relay = s.relay /\ l.reconnect = s.reconnect
        /\ l.gateway = s.gateway /\ l.connecting = s.connecting /\ l.boundary = s.boundary
        /\ l.started = s.started /\ l.clients = s.clients /\ l.retry = s.retry
        /\ l.queue = s.queue /\ l.inFlight = s.inFlight
        /\ l.first = s.first /\ l.unanswered = s.unanswered
    BY DEF IInv, Basic, State
  <2>3. s' = StartChallengeWait(l)
    BY <1>18 DEF Challenge
  <2> HIDE DEF l
  <2>4. Basic(l) /\ Served(l)
    BY <1>18, <2>1, <2>2 DEF Challenge, IInv, Basic, Served, GatewayOpen, RelayOpen, Wanted
  <2> QED BY <2>3, <2>4, ChallengeWaitLemma DEF IInv
<1>19. ASSUME NEW c \in Connects, Response(c)
      PROVE  IInv'
  <2>1. s' \in State
    <3>1. [s EXCEPT !.inFlight = s.inFlight \ {c},
                    !.unanswered = s.unanswered \ {c}] \in State
      BY Subsets, SetInFlight, SetUnanswered, Zenon DEF IInv, Basic
    <3>2. s' = [s EXCEPT !.inFlight = s.inFlight \ {c}, !.unanswered = s.unanswered \ {c}]
      BY <1>19 DEF Response, IInv, Basic, State
    <3> QED BY <3>1, <3>2
  <2>2. /\ s'.stopped = s.stopped /\ s'.relay = s.relay /\ s'.reconnect = s.reconnect /\ s'.gateway = s.gateway
        /\ s'.connecting = s.connecting /\ s'.boundary = s.boundary /\ s'.started = s.started /\ s'.retry = s.retry
        /\ s'.wait = s.wait /\ s'.clients = s.clients /\ s'.queue = s.queue /\ s'.bootstraps = s.bootstraps
        /\ s'.challenged = s.challenged /\ s'.first = s.first
        /\ s'.inFlight = s.inFlight \ {c}
        /\ s'.unanswered = s.unanswered \ {c}
    BY <1>19 DEF Response, IInv, Basic, State
  <2> QED BY <1>19, <2>1, <2>2 DEF Response, IInv, Basic, Watched, Served, GatewayOpen, RelayOpen,
             Wanted
<1>20. ASSUME NEW c \in Connects, StartupResponse(c)
      PROVE  IInv'
  <2> DEFINE f == [s.tries EXCEPT ![c] = @ + 1]
  <2>1. CASE s.tries[c] < MaxRetries /\ GatewayOpen(s)
    <3>1. f \in [Connects -> 0 .. MaxRetries]
      <4>1. s.tries[c] + 1 \in 0 .. MaxRetries
        BY <2>1, BoundsAssumption DEF IInv, Basic, State
      <4> QED BY <4>1 DEF IInv, Basic, State
    <3>2. s' = [s EXCEPT !.tries[c] = @ + 1, !.timers = @ \union {c}, !.unanswered = @ \ {c}]
      BY <1>20, <2>1 DEF StartupResponse
    <3>3. s' = [s EXCEPT !.tries = f, !.timers = s.timers \union {c}, !.unanswered = s.unanswered \ {c}]
      BY <3>2 DEF IInv, Basic, State
    <3> HIDE DEF f
    <3>4. s' \in State
      <4>1. [s EXCEPT !.tries = f, !.timers = s.timers \union {c},
                      !.unanswered = s.unanswered \ {c}] \in State
        BY <3>1, Subsets, SetTries, SetTimers, SetUnanswered, Zenon DEF IInv, Basic
      <4> QED BY <3>3, <4>1
    <3>5. /\ s'.stopped = s.stopped /\ s'.relay = s.relay /\ s'.reconnect = s.reconnect
          /\ s'.gateway = s.gateway /\ s'.connecting = s.connecting /\ s'.boundary = s.boundary
          /\ s'.started = s.started /\ s'.retry = s.retry /\ s'.wait = s.wait /\ s'.clients = s.clients
          /\ s'.queue = s.queue /\ s'.bootstraps = s.bootstraps
          /\ s'.challenged = s.challenged /\ s'.first = s.first
          /\ s'.unanswered = s.unanswered \ {c} /\ s'.inFlight = s.inFlight
      BY <3>3 DEF IInv, Basic, State
    <3> QED BY <3>4, <3>5 DEF IInv, Basic, Watched, Served, GatewayOpen, RelayOpen, Wanted
  <2>2. CASE ~(s.tries[c] < MaxRetries /\ GatewayOpen(s))
    <3>1. s' = [s EXCEPT !.inFlight = s.inFlight \ {c}, !.unanswered = s.unanswered \ {c}]
      BY <1>20, <2>2 DEF StartupResponse, IInv, Basic, State
    <3>2. s' \in State
      <4>1. [s EXCEPT !.inFlight = s.inFlight \ {c},
                      !.unanswered = s.unanswered \ {c}] \in State
        BY Subsets, SetInFlight, SetUnanswered, Zenon DEF IInv, Basic
      <4> QED BY <3>1, <4>1
    <3>3. /\ s'.stopped = s.stopped /\ s'.relay = s.relay /\ s'.reconnect = s.reconnect
          /\ s'.gateway = s.gateway /\ s'.connecting = s.connecting /\ s'.boundary = s.boundary
          /\ s'.started = s.started /\ s'.retry = s.retry /\ s'.wait = s.wait /\ s'.clients = s.clients
          /\ s'.queue = s.queue /\ s'.bootstraps = s.bootstraps
          /\ s'.challenged = s.challenged /\ s'.first = s.first
          /\ s'.unanswered = s.unanswered \ {c} /\ s'.inFlight = s.inFlight \ {c}
      BY <3>1 DEF IInv, Basic, State
    <3> QED BY <3>2, <3>3 DEF IInv, Basic, Watched, Served, GatewayOpen, RelayOpen, Wanted
  <2> QED BY <2>1, <2>2
<1>21. ASSUME NEW c \in Connects, StartupRetries(c)
      PROVE  IInv'
  <2>1. CASE ~s.stopped /\ c \in s.inFlight /\ GatewayOpen(s)
    <3> DEFINE f == IF s.first = "none" THEN "connect" ELSE s.first
    <3>1. f \in {"none", "connect", "other"} /\ f # "other" /\ (s.first = "connect" => f = "connect")
      BY DEF IInv, Basic, State
    <3>2. s' = [s EXCEPT !.timers = s.timers \ {c}, !.unanswered = s.unanswered \union {c}, !.first = f]
      BY <1>21, <2>1 DEF StartupRetries, IInv, Basic, State
    <3> HIDE DEF f
    <3>3. s' \in State
      <4>1. [s EXCEPT !.timers = s.timers \ {c}, !.unanswered = s.unanswered \union {c},
                      !.first = f] \in State
        BY <3>1, Subsets, SetTimers, SetFirst, SetUnanswered, Zenon DEF IInv, Basic
      <4> QED BY <3>2, <4>1
    <3>4. /\ s'.stopped = s.stopped /\ s'.relay = s.relay /\ s'.reconnect = s.reconnect
          /\ s'.gateway = s.gateway /\ s'.connecting = s.connecting /\ s'.boundary = s.boundary
          /\ s'.started = s.started /\ s'.retry = s.retry /\ s'.wait = s.wait /\ s'.clients = s.clients
          /\ s'.queue = s.queue /\ s'.bootstraps = s.bootstraps
          /\ s'.challenged = s.challenged /\ s'.first = f /\ s'.inFlight = s.inFlight
          /\ s'.unanswered = s.unanswered \union {c}
      BY <3>2 DEF IInv, Basic, State
    <3> QED BY <2>1, <3>1, <3>3, <3>4 DEF IInv, Basic, Watched, Served, GatewayOpen, RelayOpen,
               Wanted
  <2>2. CASE ~(~s.stopped /\ c \in s.inFlight /\ GatewayOpen(s))
    <3>1. s' = [s EXCEPT !.timers = s.timers \ {c}]
      BY <1>21, <2>2 DEF StartupRetries, IInv, Basic, State
    <3>2. s' \in State
      <4>1. [s EXCEPT !.timers = s.timers \ {c}] \in State
        BY Subsets, SetTimers, Zenon DEF IInv, Basic
      <4> QED BY <3>1, <4>1
    <3>3. /\ s'.stopped = s.stopped /\ s'.relay = s.relay /\ s'.reconnect = s.reconnect
          /\ s'.gateway = s.gateway /\ s'.connecting = s.connecting /\ s'.boundary = s.boundary
          /\ s'.started = s.started /\ s'.retry = s.retry /\ s'.wait = s.wait /\ s'.clients = s.clients
          /\ s'.queue = s.queue /\ s'.bootstraps = s.bootstraps
          /\ s'.challenged = s.challenged /\ s'.first = s.first /\ s'.inFlight = s.inFlight
          /\ s'.unanswered = s.unanswered
      BY <3>1 DEF IInv, Basic, State
    <3> QED BY <3>2, <3>3 DEF IInv, Basic, Watched, Served, GatewayOpen, RelayOpen, Wanted
  <2> QED BY <2>1, <2>2
<1>22. CASE UNCHANGED vars
  BY <1>22 DEF vars, IInv, Basic, Watched, Served, GatewayOpen, RelayOpen, Wanted
<1> QED
  BY <1>1, <1>2, <1>3, <1>4, <1>5, <1>6, <1>7, <1>8, <1>9, <1>10, <1>11, <1>12, <1>13, <1>14,
     <1>15, <1>16, <1>17, <1>18, <1>19, <1>20, <1>21, <1>22 DEF Next, RelaySide, GatewaySide

THEOREM Invariance == Spec => []IInv
BY InitLemma, StepLemma, PTL DEF Spec

(* The state is what the declarations say, and the queue within its limit. *)
THEOREM TypeCorrect == Spec => []TypeOK
<1>1. IInv => TypeOK
  BY DEF IInv, Basic, TypeOK
<1> QED BY <1>1, Invariance, PTL

(* A Gateway connection starts with a connect request.                     *)
THEOREM ConnectComesFirst == Spec => []FirstFrameIsConnect
<1>1. IInv => FirstFrameIsConnect
  BY DEF IInv, Basic, FirstFrameIsConnect
<1> QED BY <1>1, Invariance, PTL

(* Whoever wants the Gateway has a socket to it or a timer for one.        *)
THEOREM NobodyIsStranded == Spec => []NeverStranded
<1>1. IInv => NeverStranded
  BY DEF IInv, Served, NeverStranded
<1> QED BY <1>1, Invariance, PTL

(* A challenge without an answer is watched by the timer that recycles the *)
(* Relay socket.                                                           *)
THEOREM ChallengesAreWatched == Spec => []ChallengeIsWatched
<1>1. IInv => ChallengeIsWatched
  BY DEF IInv, Watched, ChallengeIsWatched, Unanswered
<1> QED BY <1>1, Invariance, PTL

(* What was sent on this connection and not answered has its entry.        *)
THEOREM ConnectsAreTracked == Spec => []PendingConnectIsTracked
<1>1. IInv => PendingConnectIsTracked
  BY DEF IInv, Basic, PendingConnectIsTracked
<1> QED BY <1>1, Invariance, PTL
-----------------------------------------------------------------------------
(* The connects that wait do so in the order of their arrival.  Together    *)
(* with where the latest one is, this is inductive: pruning and flushing    *)
(* keep the last connect of the queue, and the last is the latest.          *)
InOrder(t) ==
  /\ \A i \in 1 .. Len(t.queue) : t.queue[i] <= t.latest
  /\ \A i, j \in 1 .. Len(t.queue) :
       i < j /\ IsConnect(t.queue[i]) /\ IsConnect(t.queue[j]) => t.queue[i] < t.queue[j]
Accounted(t) ==
  t.latest \in {0} \union QueuedConnects(t.queue) \union t.delivered \union t.discarded

(* Steps that leave the connects and their history alone. *)
SameConnects(r, t) ==
  /\ r.queue = t.queue /\ r.latest = t.latest
  /\ r.delivered = t.delivered /\ r.discarded = t.discarded

LEMMA SameLemma ==
  ASSUME NEW t, NEW r, InOrder(t), Accounted(t), SameConnects(r, t)
  PROVE  InOrder(r) /\ Accounted(r)
BY DEF InOrder, Accounted, SameConnects

(* Opening and closing sockets leaves the connects alone. *)
LEMMA EndKeeps ==
  ASSUME NEW t \in State, NEW told \in BOOLEAN
  PROVE  SameConnects(EndConnection(t, told), t)
BY DEF EndConnection, SameConnects, State

LEMMA EnsureKeeps ==
  ASSUME NEW t \in State
  PROVE  SameConnects(Ensure(t), t)
<1> DEFINE e == EndConnection(t, FALSE)
<1>1. e \in State /\ SameConnects(e, t)
  BY EndLemma, EndKeeps
<1> DEFINE r == [e EXCEPT !.connecting = TRUE, !.gateway = "connecting",
                          !.superseded = @ \/ t.gateway # "none",
                          !.wait = IF @ = "none" THEN @ ELSE "stale"]
<1>2. Ensure(t) = t \/ Ensure(t) = r
  BY DEF Ensure
<1> HIDE DEF e
<1>3. SameConnects(r, e)
  BY <1>1 DEF SameConnects, State
<1> HIDE DEF r
<1> QED BY <1>1, <1>2, <1>3 DEF SameConnects

LEMMA CloseKeeps ==
  ASSUME NEW t \in State, NEW again \in BOOLEAN
  PROVE  SameConnects(CloseGateway(t, again), t)
<1> DEFINE i == [t EXCEPT !.wait = "none", !.retry = FALSE, !.started = FALSE]
           g == [i EXCEPT !.boundary = FALSE, !.connecting = FALSE]
           b == again /\ RelayOpen(t) /\ Wanted(t)
<1>1. i \in State
  BY SetStarted, SetRetry, SetWait, Zenon
<1>2. SameConnects(i, t)
  BY DEF SameConnects, State
<1>3. \/ CloseGateway(t, again) = g
      \/ CloseGateway(t, again) = Ensure(g)
      \/ CloseGateway(t, again) = [i EXCEPT !.boundary = b]
      \/ CloseGateway(t, again) = [i EXCEPT !.boundary = b, !.expected = TRUE, !.gateway = "closing"]
  BY DEF CloseGateway
<1> HIDE DEF i, b
<1>4. g \in State
  BY <1>1, SetConnecting, SetBoundary, SetStarted, SetRetry, SetWait, Zenon
<1>5. SameConnects(g, t)
  BY <1>1, <1>2 DEF SameConnects, State
<1> HIDE DEF g
<1>6. SameConnects(Ensure(g), t)
  BY <1>4, <1>5, EnsureKeeps DEF SameConnects
<1>7. /\ SameConnects([i EXCEPT !.boundary = b], i)
      /\ SameConnects([i EXCEPT !.boundary = b, !.expected = TRUE, !.gateway = "closing"], i)
  BY <1>1 DEF SameConnects, State
<1> QED BY <1>2, <1>3, <1>5, <1>6, <1>7 DEF SameConnects

LEMMA EnsureType ==
  ASSUME NEW t \in State
  PROVE  Ensure(t) \in State
<1> DEFINE e == EndConnection(t, FALSE)
<1>1. e \in State
  BY EndLemma
<1>2. \/ Ensure(t) = t
      \/ Ensure(t) = [e EXCEPT !.connecting = TRUE, !.gateway = "connecting",
                               !.superseded = @ \/ t.gateway # "none",
                               !.wait = IF @ = "none" THEN @ ELSE "stale"]
  BY DEF Ensure
<1> HIDE DEF e
<1>3. [e EXCEPT !.connecting = TRUE, !.gateway = "connecting",
                !.superseded = @ \/ t.gateway # "none",
                !.wait = IF @ = "none" THEN @ ELSE "stale"] \in State
  <2> DEFINE x == IF e.wait = "none" THEN "none" ELSE "stale"
             b == e.superseded \/ t.gateway # "none"
  <2>1. x \in {"none", "current", "stale"} /\ b \in BOOLEAN
    BY DEF State
  <2>2. [e EXCEPT !.connecting = TRUE, !.gateway = "connecting",
                  !.superseded = b, !.wait = x] \in State
    BY <1>1, <2>1, SetGateway, SetConnecting, SetWait, SetSuperseded, Zenon
  <2>3. [e EXCEPT !.connecting = TRUE, !.gateway = "connecting",
                  !.superseded = @ \/ t.gateway # "none",
                  !.wait = IF @ = "none" THEN @ ELSE "stale"]
          = [e EXCEPT !.connecting = TRUE, !.gateway = "connecting",
                      !.superseded = b, !.wait = x]
    BY <1>1 DEF State
  <2> QED BY <2>2, <2>3
<1> QED BY <1>1, <1>2, <1>3

LEMMA CloseType ==
  ASSUME NEW t \in State, NEW again \in BOOLEAN
  PROVE  CloseGateway(t, again) \in State
<1> DEFINE i == [t EXCEPT !.wait = "none", !.retry = FALSE, !.started = FALSE]
           g == [i EXCEPT !.boundary = FALSE, !.connecting = FALSE]
           b == again /\ RelayOpen(t) /\ Wanted(t)
<1>1. \/ CloseGateway(t, again) = g
      \/ CloseGateway(t, again) = Ensure(g)
      \/ CloseGateway(t, again) = [i EXCEPT !.boundary = b]
      \/ CloseGateway(t, again) = [i EXCEPT !.boundary = b, !.expected = TRUE, !.gateway = "closing"]
  BY DEF CloseGateway
<1>2. i \in State /\ b \in BOOLEAN
  BY SetStarted, SetRetry, SetWait, Zenon
<1> HIDE DEF i, b
<1>3. g \in State
  BY <1>2, SetConnecting, SetBoundary, SetStarted, SetRetry, SetWait, Zenon
<1>4. /\ [i EXCEPT !.boundary = b] \in State
      /\ [i EXCEPT !.boundary = b, !.expected = TRUE, !.gateway = "closing"] \in State
  BY <1>2, SetGateway, SetBoundary, SetExpected, SetStarted, SetRetry, SetWait, Zenon
<1> HIDE DEF g
<1> QED BY <1>1, <1>3, <1>4, EnsureType

(* A frame that is queued goes to the end; what it pushes out is recorded. *)
LEMMA PushOrder ==
  ASSUME NEW t \in State, InOrder(t), NEW m \in Frames, m <= t.latest,
         Accounted(t) \/ m = t.latest,
         IsConnect(m) => \A i \in 1 .. Len(t.queue) : t.queue[i] < m
  PROVE  InOrder(Push(t, m)) /\ Accounted(Push(t, m))
<1> DEFINE full == Len(t.queue) >= MaxQueue
           q == IF full THEN Append(Tail(t.queue), m) ELSE Append(t.queue, m)
           d == IF full THEN t.discarded \union ({Head(t.queue)} \ {Other}) ELSE t.discarded
           p == Push(t, m)
<1>1. /\ p.queue = q /\ p.discarded = d /\ p.latest = t.latest /\ p.delivered = t.delivered
  BY DEF Push, State
<1>2. t.queue \in Seq(Frames) /\ Len(t.queue) \in Nat /\ MaxQueue \in Nat /\ MaxQueue > 0
  BY QueueAssumption DEF State, Frames
<1>3. t.latest \in Nat /\ \A i \in 1 .. Len(t.queue) : t.queue[i] \in Nat
  BY <1>2, BoundsAssumption DEF State, Frames, Connects, Other
<1> HIDE DEF p
<1>4. CASE full
  <2>1. q = Append(Tail(t.queue), m) /\ Len(q) = Len(t.queue) /\ Len(q) > 0
    BY <1>2, <1>4
  <2>2. \A i \in 1 .. Len(q) : q[i] = IF i = Len(q) THEN m ELSE t.queue[i + 1]
    BY <1>2, <1>4
  <2> HIDE DEF q
  <2>3. InOrder(p)
    <3>1. \A i \in 1 .. Len(q) : q[i] <= t.latest
      BY <1>2, <2>1, <2>2 DEF InOrder
    <3>2. ASSUME NEW i \in 1 .. Len(q), NEW j \in 1 .. Len(q), i < j, IsConnect(q[i]), IsConnect(q[j])
          PROVE  q[i] < q[j]
      <4>1. i + 1 \in 1 .. Len(t.queue) /\ q[i] = t.queue[i + 1]
        BY <1>2, <2>1, <2>2, <3>2
      <4>2. CASE j = Len(q)
        BY <2>1, <2>2, <3>2, <4>1, <4>2
      <4>3. CASE j # Len(q)
        <5>1. j + 1 \in 1 .. Len(t.queue) /\ q[j] = t.queue[j + 1] /\ i + 1 < j + 1
          BY <1>2, <2>1, <2>2, <3>2, <4>3
        <5> QED BY <3>2, <4>1, <5>1 DEF InOrder
      <4> QED BY <4>2, <4>3
    <3> QED BY <1>1, <3>1, <3>2 DEF InOrder
  <2>4. CASE m = t.latest
    <3>1. q[Len(q)] = m /\ Len(q) \in 1 .. Len(q)
      BY <1>2, <2>1, <2>2
    <3> QED BY <1>1, <2>3, <2>4, <3>1 DEF Accounted, QueuedConnects, Other, p
  <2>5. ASSUME NEW i \in 1 .. Len(t.queue), t.queue[i] = t.latest, t.latest # Other
        PROVE  t.latest \in QueuedConnects(q) \union d
    <3>1. CASE i = 1
      BY <1>2, <1>4, <2>5, <3>1
    <3>2. CASE i # 1
      <4>1. i - 1 \in 1 .. Len(q) /\ q[i - 1] = t.latest
        BY <1>2, <2>1, <2>2, <2>5, <3>2
      <4> QED BY <2>5, <4>1 DEF QueuedConnects
    <3> QED BY <3>1, <3>2
  <2>6. t.discarded \subseteq d
    OBVIOUS
  <2> HIDE DEF d
  <2>7. CASE Accounted(t)
    BY <1>1, <2>3, <2>5, <2>6, <2>7 DEF Accounted, QueuedConnects, p
  <2> QED BY <2>4, <2>7
<1>5. CASE ~full
  <2>1. q = Append(t.queue, m) /\ Len(q) = Len(t.queue) + 1 /\ d = t.discarded
    BY <1>2, <1>5
  <2>2. \A i \in 1 .. Len(q) : q[i] = IF i = Len(q) THEN m ELSE t.queue[i]
    BY <1>2, <1>5
  <2> HIDE DEF q, d
  <2>3. InOrder(p)
    <3>1. \A i \in 1 .. Len(q) : q[i] <= t.latest
      BY <1>2, <2>1, <2>2 DEF InOrder
    <3>2. ASSUME NEW i \in 1 .. Len(q), NEW j \in 1 .. Len(q), i < j, IsConnect(q[i]), IsConnect(q[j])
          PROVE  q[i] < q[j]
      <4>1. i \in 1 .. Len(t.queue) /\ q[i] = t.queue[i]
        BY <1>2, <2>1, <2>2, <3>2
      <4>2. CASE j = Len(q)
        BY <2>1, <2>2, <3>2, <4>1, <4>2
      <4>3. CASE j # Len(q)
        <5>1. j \in 1 .. Len(t.queue) /\ q[j] = t.queue[j]
          BY <1>2, <2>1, <2>2, <3>2, <4>3
        <5> QED BY <3>2, <4>1, <5>1 DEF InOrder
      <4> QED BY <4>2, <4>3
    <3> QED BY <1>1, <3>1, <3>2 DEF InOrder
  <2>4. CASE m = t.latest
    <3>1. q[Len(q)] = m /\ Len(q) \in 1 .. Len(q)
      BY <1>2, <2>1, <2>2
    <3> QED BY <1>1, <2>3, <2>4, <3>1 DEF Accounted, QueuedConnects, Other, p
  <2>5. QueuedConnects(t.queue) \subseteq QueuedConnects(q)
    BY <1>2, <2>1, <2>2 DEF QueuedConnects
  <2>6. CASE Accounted(t)
    BY <1>1, <2>1, <2>3, <2>5, <2>6 DEF Accounted, p
  <2> QED BY <2>4, <2>6
<1> QED BY <1>4, <1>5

(* A frame that is sent leaves the queue alone; a connect is recorded. *)
LEMMA SendKeeps ==
  ASSUME NEW t \in State, NEW m \in Frames
  PROVE  LET v == Send(t, m)
         IN /\ v.queue = t.queue /\ v.latest = t.latest /\ v.discarded = t.discarded
            /\ t.delivered \subseteq v.delivered /\ (IsConnect(m) => m \in v.delivered)
BY DEF Send, State

(* The connect a queue is flushed or pruned to is the latest it holds. *)
LEMMA LatestIsLast ==
  ASSUME NEW t \in State, InOrder(t), t.latest \in QueuedConnects(t.queue)
  PROVE  t.queue[LatestConnect(t.queue)] = t.latest
<1> DEFINE last == LatestConnect(t.queue)
<1>1. t.queue \in Seq(Frames) /\ Len(t.queue) \in Nat
  BY DEF State, Frames
<1>2. /\ last \in 1 .. Len(t.queue) /\ IsConnect(t.queue[last])
      /\ \A j \in last+1 .. Len(t.queue) : ~IsConnect(t.queue[j])
  BY <1>1, LatestLemma
<1> HIDE DEF last
<1>3. PICK i \in 1 .. Len(t.queue) : t.queue[i] = t.latest /\ IsConnect(t.queue[i])
  BY DEF QueuedConnects, IsConnect
<1>4. t.latest \in Nat /\ t.queue[last] \in Nat /\ t.queue[last] <= t.latest
  BY <1>1, <1>2, BoundsAssumption DEF State, Frames, Connects, Other, InOrder
<1>5. ~(i < last)
  BY <1>2, <1>3, <1>4 DEF InOrder
<1>6. ~(i > last)
  BY <1>1, <1>2, <1>3
<1>7. i = last
  BY <1>2, <1>5, <1>6
<1> QED BY <1>3, <1>7 DEF last

(* Only other frames in the queue: nothing can be out of order. *)
LEMMA OthersInOrder ==
  ASSUME NEW t \in State, NEW q \in Seq(Frames), QueuedConnects(q) = {}
  PROVE  InOrder([t EXCEPT !.queue = q])
<1> DEFINE r == [t EXCEPT !.queue = q]
<1>1. r.queue = q /\ r.latest = t.latest /\ t.latest \in Nat
  BY BoundsAssumption DEF State
<1>2. \A i \in 1 .. Len(q) : q[i] = 0
  BY DEF QueuedConnects, Other
<1> HIDE DEF r
<1>3. InOrder(r)
  BY <1>1, <1>2 DEF InOrder, IsConnect, Other
<1> QED BY <1>3 DEF r

(* prunePendingGatewayMessagesForFreshDemand keeps the latest connect. *)
LEMMA PruneOrder ==
  ASSUME NEW t \in State, InOrder(t), Accounted(t)
  PROVE  LET p == [t EXCEPT !.queue = Pruned(@)] IN InOrder(p) /\ Accounted(p)
<1> DEFINE q == Pruned(t.queue)
           p == [t EXCEPT !.queue = q]
           last == LatestConnect(t.queue)
<1>1. t.queue \in Seq(Frames) /\ Len(t.queue) \in Nat
  BY DEF State, Frames
<1>2. /\ p.queue = q /\ p.latest = t.latest
      /\ p.delivered = t.delivered /\ p.discarded = t.discarded
  BY DEF State
<1>3. CASE QueuedConnects(t.queue) = {}
  <2>1. q = <<>> /\ QueuedConnects(<<>>) = {} /\ <<>> \in Seq(Frames)
    BY <1>3 DEF Pruned, LatestConnect, QueuedConnects
  <2>2. InOrder(p)
    BY <2>1, OthersInOrder
  <2>3. Accounted(p)
    BY <1>2, <1>3 DEF Accounted
  <2> QED BY <2>2, <2>3
<1>4. CASE QueuedConnects(t.queue) # {}
  <2>1. last \in 1 .. Len(t.queue) /\ q = SubSeq(t.queue, last, Len(t.queue))
    BY <1>1, <1>4, LatestLemma DEF Pruned
  <2>2. t.latest \in QueuedConnects(t.queue) => t.queue[last] = t.latest
    BY LatestIsLast
  <2> HIDE DEF last
  <2>3. Len(q) = Len(t.queue) - last + 1 /\ \A i \in 1 .. Len(q) : q[i] = t.queue[last + i - 1]
    BY <1>1, <2>1
  <2> HIDE DEF q, p
  <2>4. \A i \in 1 .. Len(q) : last + i - 1 \in 1 .. Len(t.queue)
    BY <1>1, <2>1, <2>3
  <2>5. InOrder(p)
    <3>1. \A i \in 1 .. Len(q) : q[i] <= t.latest
      BY <2>3, <2>4 DEF InOrder
    <3>2. ASSUME NEW i \in 1 .. Len(q), NEW j \in 1 .. Len(q), i < j, IsConnect(q[i]), IsConnect(q[j])
          PROVE  q[i] < q[j]
      <4>1. last + i - 1 < last + j - 1
        BY <1>1, <2>1, <3>2
      <4> QED BY <2>3, <2>4, <3>2, <4>1 DEF InOrder
    <3> QED BY <1>2, <3>1, <3>2 DEF InOrder
  <2>6. ASSUME t.latest \in QueuedConnects(t.queue)
        PROVE  t.latest \in QueuedConnects(q)
    <3>1. 1 \in 1 .. Len(q) /\ q[1] = t.queue[last]
      BY <1>1, <2>1, <2>3
    <3> QED BY <2>2, <2>6, <3>1 DEF QueuedConnects
  <2>7. Accounted(p)
    BY <1>2, <2>6 DEF Accounted
  <2> QED BY <2>5, <2>7 DEF p, q
<1> QED BY <1>3, <1>4

(* flushPendingGatewayMessages sends the latest connect. *)
LEMMA FlushOrder ==
  ASSUME NEW t \in State, InOrder(t), Accounted(t)
  PROVE  InOrder(Flush(t)) /\ Accounted(Flush(t))
<1> DEFINE last == LatestConnect(t.queue)
           before == Cardinality({i \in 1 .. last - 1 : ~IsConnect(t.queue[i])})
           kept == [i \in 1 .. before |-> Other]
           k == [t EXCEPT !.queue = kept, !.started = TRUE]
<1>1. t.queue \in Seq(Frames) /\ Len(t.queue) \in Nat
  BY DEF State, Frames
<1>2. CASE QueuedConnects(t.queue) = {}
  <2>1. Flush(t) = t
    BY <1>2 DEF Flush, LatestConnect
  <2> QED BY <2>1
<1>3. CASE QueuedConnects(t.queue) # {}
  <2>1. last \in 1 .. Len(t.queue) /\ t.queue[last] \in Frames /\ IsConnect(t.queue[last])
    BY <1>1, <1>3, LatestLemma DEF Frames
  <2>2. t.latest \in QueuedConnects(t.queue) => t.queue[last] = t.latest
    BY LatestIsLast
  <2>3. Flush(t) = Send(k, t.queue[last])
    BY <2>1 DEF Flush
  <2>4. before \in Nat
    <3>1. IsFiniteSet(1 .. last - 1)
      <4>1. last - 1 \in Int /\ 1 \in Int
        BY <1>1, <2>1
      <4> QED BY <4>1, FS_Interval
    <3>2. {i \in 1 .. last - 1 : ~IsConnect(t.queue[i])} \subseteq 1 .. last - 1
      OBVIOUS
    <3> QED BY <3>1, <3>2, FS_Subset, FS_CardinalityType
  <2> HIDE DEF last, before
  <2>5. kept \in Seq(Frames) /\ QueuedConnects(kept) = {}
    BY <2>4, OthersLemma
  <2> HIDE DEF kept
  <2> DEFINE o == [t EXCEPT !.queue = kept]
  <2>6. o \in State /\ InOrder(o)
    BY <2>5, SetQueue, OthersInOrder, Zenon
  <2>7. k = [o EXCEPT !.started = TRUE]
    BY DEF State
  <2>8. o.queue = kept /\ o.latest = t.latest /\ o.delivered = t.delivered /\ o.discarded = t.discarded
    BY DEF State
  <2> HIDE DEF o, k
  <2>9. k \in State
    BY <2>6, <2>7, SetStarted, SetQueue, Zenon
  <2>10. SameConnects(k, o)
    BY <2>6, <2>7 DEF SameConnects, State
  <2> DEFINE v == Send(k, t.queue[last])
  <2>11. /\ v.queue = o.queue /\ v.latest = t.latest /\ v.discarded = t.discarded
         /\ t.delivered \subseteq v.delivered /\ t.queue[last] \in v.delivered
    BY <2>1, <2>8, <2>9, <2>10, SendKeeps DEF SameConnects
  <2> HIDE DEF v
  <2>12. InOrder(v)
    BY <2>6, <2>8, <2>11 DEF InOrder
  <2>13. Accounted(v)
    BY <2>2, <2>11 DEF Accounted
  <2> QED BY <2>3, <2>12, <2>13 DEF v
<1> QED BY <1>2, <1>3

(* forwardOrQueueGatewayMessage, of another frame or of a connect that is  *)
(* later than all that wait.                                               *)
LEMMA ForwardOrder ==
  ASSUME NEW t \in State, InOrder(t), NEW m \in Frames, m <= t.latest,
         Accounted(t) \/ m = t.latest,
         IsConnect(m) => \A i \in 1 .. Len(t.queue) : t.queue[i] < m
  PROVE  InOrder(ForwardOrQueue(t, m)) /\ Accounted(ForwardOrQueue(t, m))
<1>1. CASE t.boundary \/ (GatewayOpen(t) /\ ~(t.started \/ IsConnect(m)))
  <2>1. ForwardOrQueue(t, m) = Push(t, m)
    BY <1>1 DEF ForwardOrQueue
  <2> QED BY <2>1, PushOrder
<1>2. CASE ~t.boundary /\ ~GatewayOpen(t)
  <2> DEFINE e == Ensure(t)
  <2>1. SameConnects(e, t) /\ e \in State
    BY EnsureKeeps, EnsureType
  <2>2. ForwardOrQueue(t, m) = Push(e, m)
    BY <1>2 DEF ForwardOrQueue
  <2> HIDE DEF e
  <2>3. InOrder(e) /\ m <= e.latest /\ (Accounted(e) \/ m = e.latest)
        /\ (IsConnect(m) => \A i \in 1 .. Len(e.queue) : e.queue[i] < m)
    BY <2>1 DEF SameConnects, InOrder, Accounted
  <2> QED BY <2>1, <2>2, <2>3, PushOrder
<1>3. CASE ~t.boundary /\ GatewayOpen(t) /\ (t.started \/ IsConnect(m))
  <2> DEFINE u == [t EXCEPT !.started = TRUE]
             v == Send(u, m)
  <2>1. u \in State
    BY SetStarted, Zenon
  <2>2. SameConnects(u, t)
    BY DEF SameConnects, State
  <2>3. ForwardOrQueue(t, m) = v
    BY <1>3 DEF ForwardOrQueue
  <2> HIDE DEF u
  <2>4. /\ v.queue = t.queue /\ v.latest = t.latest /\ v.discarded = t.discarded
        /\ t.delivered \subseteq v.delivered /\ (IsConnect(m) => m \in v.delivered)
    BY <2>1, <2>2, SendKeeps DEF SameConnects
  <2> HIDE DEF v
  <2>5. InOrder(v)
    BY <2>4 DEF InOrder
  <2>6. Accounted(v)
    BY <2>4 DEF Accounted, IsConnect, Other
  <2> QED BY <2>3, <2>5, <2>6
<1> QED BY <1>1, <1>2, <1>3

(* The client count: a queue without a connect is dropped when nobody is   *)
(* left, and pruned to the latest connect when an open Gateway is recycled.*)
LEMMA DemandOrder ==
  ASSUME NEW t \in State, InOrder(t), Accounted(t), NEW n \in 0 .. MaxClients
  PROVE  /\ InOrder(DemandEnds(t)) /\ Accounted(DemandEnds(t))
         /\ InOrder(DemandIs(t, n)) /\ Accounted(DemandIs(t, n))
<1>1. InOrder(DemandEnds(t)) /\ Accounted(DemandEnds(t))
  <2> DEFINE c == [t EXCEPT !.clients = 0, !.wait = "none", !.started = FALSE,
                            !.session = FALSE, !.unaware = FALSE]
             e == DropStaleIdleQueue(c)
  <2>1. c \in State
    <3>1. 0 \in 0 .. MaxClients
      BY BoundsAssumption
    <3> QED BY <3>1, SetStarted, SetWait, SetClients, SetSession, SetUnaware, Zenon
  <2>2. SameConnects(c, t)
    BY DEF SameConnects, State
  <2>3. /\ DemandEnds(t) \in {CloseGateway(e, FALSE), Ensure(e), e}
    BY DEF DemandEnds
  <2> HIDE DEF c
  <2>4. InOrder(c) /\ Accounted(c)
    BY <2>2, SameLemma
  <2>5. e \in State /\ InOrder(e) /\ Accounted(e)
    <3>1. CASE QueuedConnects(c.queue) = {}
      <4>1. e = [c EXCEPT !.queue = <<>>] /\ <<>> \in Seq(Frames) /\ QueuedConnects(<<>>) = {}
        BY <3>1 DEF DropStaleIdleQueue, QueuedConnects
      <4>2. e \in State /\ InOrder(e)
        BY <2>1, <4>1, SetQueue, OthersInOrder, Zenon
      <4>3. e.latest = c.latest /\ e.delivered = c.delivered /\ e.discarded = c.discarded
        BY <2>1, <4>1 DEF State
      <4> QED BY <2>4, <3>1, <4>2, <4>3 DEF Accounted
    <3>2. CASE QueuedConnects(c.queue) # {}
      BY <2>1, <2>4, <3>2 DEF DropStaleIdleQueue
    <3> QED BY <3>1, <3>2
  <2> HIDE DEF e
  <2>6. SameConnects(CloseGateway(e, FALSE), e) /\ SameConnects(Ensure(e), e)
    BY <2>5, CloseKeeps, EnsureKeeps
  <2> QED BY <2>3, <2>5, <2>6, SameLemma
<1>2. InOrder(DemandIs(t, n)) /\ Accounted(DemandIs(t, n))
  <2> DEFINE c == [t EXCEPT !.clients = n]
             p == [c EXCEPT !.queue = Pruned(@)]
             k == CloseGateway(p, TRUE)
  <2>1. c \in State
    BY SetClients, Zenon
  <2>2. SameConnects(c, t)
    BY DEF SameConnects, State
  <2>3. DemandIs(t, n) = Ensure(k) \/ DemandIs(t, n) = Ensure(c)
    BY DEF DemandIs
  <2> HIDE DEF c
  <2>4. InOrder(c) /\ Accounted(c)
    BY <2>2, SameLemma
  <2>5. InOrder(p) /\ Accounted(p)
    BY <2>1, <2>4, PruneOrder
  <2>6. p \in State
    <3>1. c.queue \in Seq(Frames)
      BY <2>1 DEF State, Frames
    <3>2. Pruned(c.queue) \in Seq(Frames)
      BY <3>1, PrunedLemma
    <3>3. p = [c EXCEPT !.queue = Pruned(c.queue)]
      BY <2>1 DEF State
    <3> QED BY <2>1, <3>2, <3>3, SetClients, SetQueue, Zenon
  <2> HIDE DEF p
  <2>7. k \in State /\ SameConnects(k, p)
    BY <2>6, CloseType, CloseKeeps
  <2>8. InOrder(k) /\ Accounted(k)
    BY <2>5, <2>7, SameLemma
  <2> HIDE DEF k
  <2>9. SameConnects(Ensure(k), k) /\ SameConnects(Ensure(c), c)
    BY <2>1, <2>7, EnsureKeeps
  <2> QED BY <2>3, <2>4, <2>8, <2>9, SameLemma
<1> QED BY <1>1, <1>2

LEMMA OrderInitially == ASSUME Init PROVE InOrder(s) /\ Accounted(s)
BY DEF Init, InOrder, Accounted

LEMMA OrderPreserved ==
  ASSUME IInv, InOrder(s), Accounted(s), [Next]_vars
  PROVE  InOrder(s') /\ Accounted(s')
<1>a. s \in State /\ s.queue \in Seq(Frames) /\ s.latest \in Nat
  BY BoundsAssumption DEF IInv, Basic, State, Frames
<1>b. ASSUME SameConnects(s', s)
      PROVE  InOrder(s') /\ Accounted(s')
  BY <1>b, SameLemma
<1>1. CASE Start \/ RelayReconnects \/ RelayDrops \/ BootstrapStarts \/ ChallengeWaitEnds
  <2>1. CASE Start
    <3>1. SameConnects(s', s)
      BY <1>a, <2>1 DEF Start, SameConnects, State
    <3> QED BY <3>1, <1>b
  <2>2. CASE RelayReconnects
    <3>1. SameConnects(s', s)
      BY <1>a, <2>2 DEF RelayReconnects, SameConnects, State
    <3> QED BY <3>1, <1>b
  <2>3. CASE RelayDrops
    <3>1. SameConnects(s', s)
      BY <1>a, <2>3 DEF RelayDrops, SameConnects, State
    <3> QED BY <3>1, <1>b
  <2>4. CASE BootstrapStarts
    <3>1. SameConnects(s', s)
      BY <1>a, <2>4 DEF BootstrapStarts, SameConnects, State
    <3> QED BY <3>1, <1>b
  <2>5. CASE ChallengeWaitEnds
    <3>1. SameConnects(s', s)
      BY <1>a, <2>5 DEF ChallengeWaitEnds, SameConnects, State
    <3> QED BY <3>1, <1>b
  <2> QED BY <1>1, <2>1, <2>2, <2>3, <2>4, <2>5
<1>2. CASE GatewayDrops \/ SupersededCloses
  <2>1. SameConnects(s', s)
    BY <1>a, <1>2 DEF GatewayDrops, SupersededCloses, SameConnects, State
  <2> QED BY <2>1, <1>b
<1>3. ASSUME NEW c \in Connects, Response(c) \/ StartupResponse(c) \/ StartupRetries(c)
      PROVE  InOrder(s') /\ Accounted(s')
  <2>1. SameConnects(s', s)
    BY <1>a, <1>3 DEF Response, StartupResponse, StartupRetries, SameConnects, State
  <2> QED BY <2>1, <1>b
<1>4. CASE Stop
  <2> DEFINE e == EndConnection(s, TRUE)
             d == s.discarded \union QueuedConnects(s.queue)
  <2>1. e \in State /\ SameConnects(e, s)
    BY <1>a, EndLemma, EndKeeps
  <2>2. s' = [e EXCEPT !.stopped = TRUE, !.relay = "none", !.reconnect = FALSE, !.gateway = "none",
                !.connecting = FALSE, !.boundary = FALSE, !.started = FALSE, !.retry = FALSE,
                !.wait = "none", !.clients = 0, !.queue = <<>>, !.inFlight = {},
                !.superseded = @ \/ s.gateway # "none",
                !.discarded = @ \union QueuedConnects(s.queue)]
    BY <1>4 DEF Stop
  <2> HIDE DEF e
  <2>3. s'.queue = <<>> /\ s'.latest = s.latest /\ s'.delivered = s.delivered /\ s'.discarded = d
    BY <2>1, <2>2 DEF State, SameConnects
  <2>4. InOrder(s')
    BY <2>3 DEF InOrder
  <2>5. Accounted(s')
    BY <2>3 DEF Accounted
  <2> QED BY <2>4, <2>5
<1>5. CASE RelayOpens
  <2> DEFINE o == [s EXCEPT !.relay = "open"]
  <2>1. o \in State
    BY <1>a, SetRelay, Zenon
  <2>2. SameConnects(o, s)
    BY <1>a DEF SameConnects, State
  <2>3. s' = Ensure(o) \/ s' = o
    BY <1>5 DEF RelayOpens
  <2> HIDE DEF o
  <2> QED BY <2>1, <2>2, <2>3, EnsureKeeps, <1>b DEF SameConnects
<1>6. CASE RelayCloses
  <2> DEFINE c == [s EXCEPT !.relay = "none", !.reconnect = TRUE, !.clients = 0,
                            !.session = FALSE, !.unaware = FALSE]
  <2>1. c \in State
    <3>1. 0 \in 0 .. MaxClients
      BY BoundsAssumption
    <3> QED BY <1>a, <3>1, SetRelay, SetReconnect, SetClients, SetSession, SetUnaware, Zenon
  <2>2. SameConnects(c, s)
    BY <1>a DEF SameConnects, State
  <2>3. s' = CloseGateway(c, FALSE)
    BY <1>6 DEF RelayCloses
  <2> HIDE DEF c
  <2> QED BY <2>1, <2>2, <2>3, CloseKeeps, <1>b DEF SameConnects
<1>7. CASE ConnectFrame
  <2> DEFINE l == [s EXCEPT !.latest = @ + 1]
             m == s.latest + 1
  <2>1. m \in Connects /\ m \in 0 .. MaxConnects /\ m \in Frames /\ m \in Nat
    BY <1>7, <1>a, BoundsAssumption DEF ConnectFrame, Connects, Frames
  <2>2. l \in State
    BY <1>a, <2>1, SetLatest, Zenon
  <2>3. l.queue = s.queue /\ l.latest = m
    BY <1>a DEF State
  <2>4. s' = ForwardOrQueue(l, m)
    BY <1>7 DEF ConnectFrame
  <2>5. Len(s.queue) \in Nat /\ \A i \in 1 .. Len(s.queue) : s.queue[i] \in Nat /\ s.queue[i] < m
    BY <1>a, BoundsAssumption DEF InOrder, Frames, Connects, Other
  <2> HIDE DEF l, m
  <2>6. InOrder(l)
    <3>1. \A i \in 1 .. Len(l.queue) : l.queue[i] <= l.latest
      BY <2>1, <2>3, <2>5
    <3> QED BY <2>3, <3>1 DEF InOrder
  <2> QED BY <2>1, <2>2, <2>3, <2>4, <2>5, <2>6, ForwardOrder
<1>8. CASE OtherFrame
  <2>1. Other \in Frames /\ Other <= s.latest /\ ~IsConnect(Other)
    BY <1>a DEF Frames, Other, IsConnect
  <2>2. s' = ForwardOrQueue(s, Other)
    BY <1>8 DEF OtherFrame
  <2> QED BY <1>a, <2>1, <2>2, ForwardOrder
<1>9. ASSUME NEW n \in 0 .. MaxClients, ClientCount(n)
      PROVE  InOrder(s') /\ Accounted(s')
  <2>1. s' = DemandEnds(s) \/ s' = DemandIs(s, n)
    BY <1>9 DEF ClientCount
  <2> QED BY <1>a, <2>1, DemandOrder
<1>10. CASE BootstrapEnds
  <2> DEFINE l == [s EXCEPT !.bootstraps = @ - 1]
  <2>1. s.bootstraps - 1 \in 0 .. MaxBootstraps
    BY <1>10, <1>a, BoundsAssumption DEF BootstrapEnds, State
  <2>2. l \in State
    BY <1>a, <2>1, SetBootstraps, Zenon
  <2>3. SameConnects(l, s)
    BY <1>a DEF SameConnects, State
  <2>4. s' = StartChallengeWait(l)
    BY <1>10 DEF BootstrapEnds
  <2> HIDE DEF l
  <2>5. SameConnects(s', l)
    BY <2>2, <2>4 DEF StartChallengeWait, SameConnects, State
  <2> QED BY <2>3, <2>5, <1>b DEF SameConnects
<1>11. CASE GatewayOpens
  <2> DEFINE o == [s EXCEPT !.gateway = "open", !.connecting = FALSE, !.started = FALSE,
                            !.boundary = FALSE, !.expected = FALSE]
  <2>1. o \in State
    BY <1>a, SetGateway, SetConnecting, SetBoundary, SetExpected, SetStarted, Zenon
  <2>2. SameConnects(o, s)
    BY <1>a DEF SameConnects, State
  <2>3. s' = Flush(o)
    BY <1>11 DEF GatewayOpens
  <2> HIDE DEF o
  <2> QED BY <2>1, <2>2, <2>3, SameLemma, FlushOrder
<1>12. CASE GatewayCloses
  <2> DEFINE told == ~s.expected /\ s.clients > 0 /\ RelayOpen(s)
             e == EndConnection(s, told)
             c == [e EXCEPT !.gateway = "none", !.connecting = FALSE, !.started = FALSE,
                            !.boundary = FALSE, !.expected = FALSE, !.wait = "none", !.inFlight = {}]
  <2>1. s' = Ensure(c) \/ s' = ScheduleGatewayReconnect(c)
    BY <1>12 DEF GatewayCloses
  <2>2. told \in BOOLEAN
    BY <1>a
  <2> HIDE DEF told
  <2>3. e \in State /\ SameConnects(e, s)
    BY <1>a, <2>2, EndLemma, EndKeeps
  <2> HIDE DEF e
  <2>4. c \in State
    BY <2>3, SetGateway, SetConnecting, SetBoundary, SetExpected, SetStarted, SetWait,
       SetInFlight, Zenon
  <2>5. SameConnects(c, s)
    BY <2>3 DEF SameConnects, State
  <2> HIDE DEF c
  <2>6. SameConnects(Ensure(c), c) /\ SameConnects(ScheduleGatewayReconnect(c), c)
    <3>1. SameConnects(ScheduleGatewayReconnect(c), c)
      BY <2>4 DEF ScheduleGatewayReconnect, SameConnects, State
    <3> QED BY <2>4, <3>1, EnsureKeeps
  <2> QED BY <2>1, <2>5, <2>6, <1>b DEF SameConnects
<1>13. CASE GatewayRetries
  <2> DEFINE l == [s EXCEPT !.retry = FALSE]
  <2>1. l \in State
    BY <1>a, SetRetry, Zenon
  <2>2. SameConnects(l, s)
    BY <1>a DEF SameConnects, State
  <2>3. s' = Ensure(l)
    BY <1>13 DEF GatewayRetries
  <2> HIDE DEF l
  <2> QED BY <2>1, <2>2, <2>3, EnsureKeeps, <1>b DEF SameConnects
<1>14. CASE Challenge
  <2> DEFINE l == [s EXCEPT !.challenged = TRUE, !.unaware = FALSE]
  <2>1. l \in State
    BY <1>a, SetChallenged, SetUnaware, Zenon
  <2>2. SameConnects(l, s)
    BY <1>a DEF SameConnects, State
  <2>3. s' = StartChallengeWait(l)
    BY <1>14 DEF Challenge
  <2> HIDE DEF l
  <2>4. SameConnects(s', l)
    BY <2>1, <2>3 DEF StartChallengeWait, SameConnects, State
  <2> QED BY <2>2, <2>4, <1>b DEF SameConnects
<1>15. CASE UNCHANGED vars
  BY <1>15, <1>b DEF vars, SameConnects
<1> QED BY <1>1, <1>2, <1>3, <1>4, <1>5, <1>6, <1>7, <1>8, <1>9, <1>10, <1>11, <1>12, <1>13,
           <1>14, <1>15 DEF Next, RelaySide, GatewaySide

(* The connects that wait are in the order of their arrival.               *)
THEOREM ConnectsWaitInOrder == Spec => []InOrder(s)
<1>1. Init => IInv /\ InOrder(s) /\ Accounted(s)
  BY InitLemma, OrderInitially
<1>2. IInv /\ InOrder(s) /\ Accounted(s) /\ [Next]_vars => (IInv /\ InOrder(s) /\ Accounted(s))'
  BY StepLemma, OrderPreserved
<1> QED BY <1>1, <1>2, PTL DEF Spec

(* The latest connect waits, was sent, or was pushed out by 256 later       *)
(* frames or by a stop: neither a Gateway that reopens nor a recycled one  *)
(* loses it.                                                               *)
THEOREM LatestConnectKept == Spec => []LatestConnectIsNotLost
<1>1. Init => IInv /\ InOrder(s) /\ Accounted(s)
  BY InitLemma, OrderInitially
<1>2. IInv /\ InOrder(s) /\ Accounted(s) /\ [Next]_vars => (IInv /\ InOrder(s) /\ Accounted(s))'
  BY StepLemma, OrderPreserved
<1>3. Accounted(s) => LatestConnectIsNotLost
  BY DEF Accounted, LatestConnectIsNotLost
<1> QED BY <1>1, <1>2, <1>3, PTL DEF Spec
=============================================================================
