------------------------ MODULE GatewayClient_proofs ------------------------
(***************************************************************************)
(* What GatewayClient promises for both routes.  The inductive invariant   *)
(* has three parts: Linked, about the socket, its timers and the state     *)
(* shown, Handled, about the handshakes and the repair of the token, and   *)
(* Rooted, about the identity a transport is started with.                 *)
(* Every operator that gives up a socket leaves no handshake current       *)
(* (Idle), and from there the first two are restored.                        *)
(***************************************************************************)
EXTENDS GatewayClient, TLAPS

Linked(t) ==
  /\ t \in State
  /\ t.readiness \in {"none", "current"}
  /\ t.timer \/ t.readiness # "none" => t.socket = "open"
  /\ t.closed => t.state = "closed" /\ ~t.transport
  /\ ~t.transport => t.socket = "none" /\ ~t.retry
  /\ t.retry => t.socket = "none"
  /\ t.state = "ready" => /\ t.accepted /\ t.socket = "open" /\ t.phase = "ready"
                          /\ t.completed /\ t.readiness = "none"
  /\ t.socket = "open" => t.readiness = "current" \/ t.state = "ready"
  /\ t.state \in {"idle", "closed"} => t.socket = "none" /\ ~t.retry
  /\ Trying(t) => "current" \in t.starting \/ t.retry \/ t.socket # "none"

(* At most one deletion is under way, and it is the repair that is awaited.*)
Repaired(t) ==
  /\ t.deletions <= 1
  /\ ~t.attempted => t.deletions = 0
  /\ t.deleting # {} => t.repair = "pending"
  /\ t.deleting # Tags

NoneCurrent(t) == \A h \in t.handshakes : h.of # "current"

Handled(t) ==
  /\ Repaired(t)
  /\ \A h, k \in t.handshakes : h.of = "current" /\ k.of = "current" => h = k
  /\ \A h \in t.handshakes :
       h.of = "current" =>
         /\ t.inFlight /\ t.readiness = "current"
         /\ h.step = "persist" => t.accepted
         /\ t.deleting # {} => h.step = "repair"

Idle(t) == t \in State /\ Repaired(t) /\ NoneCurrent(t)

(* The identity is awaited only where there is no transport, and a         *)
(* transport through the Relay has one.                                    *)
Rooted(t) == t.transport => (t.relay => t.identity) /\ "current" \notin t.starting

IInv == Linked(c) /\ Handled(c) /\ Rooted(c)

HasBase(t) == {"relay", "identity", "transport", "starting"} \subseteq DOMAIN t
SameBase(r, t) ==
  /\ DOMAIN r = DOMAIN t
  /\ r.relay = t.relay /\ r.identity = t.identity
  /\ r.transport = t.transport /\ r.starting = t.starting

SameLink(r, t) ==
  /\ r.state = t.state /\ r.closed = t.closed /\ r.transport = t.transport
  /\ r.phase = t.phase /\ r.socket = t.socket /\ r.retry = t.retry /\ r.timer = t.timer
  /\ r.accepted = t.accepted /\ r.pairing = t.pairing
SameRepair(r, t) ==
  r.repair = t.repair /\ r.attempted = t.attempted /\ r.deletions = t.deletions
-----------------------------------------------------------------------------
(* A record of State stays one when a field takes a value of its range.    *)
(* Updates of several fields are taken one field at a time with these.     *)
LEMMA SetLegacy ==
  ASSUME NEW t \in State, NEW x \in BOOLEAN
  PROVE  [t EXCEPT !.legacy = x] \in State
  BY Zenon DEF State

LEMMA SetBootstrap ==
  ASSUME NEW t \in State, NEW x \in BOOLEAN
  PROVE  [t EXCEPT !.bootstrap = x] \in State
  BY Zenon DEF State

LEMMA SetState ==
  ASSUME NEW t \in State, NEW x \in {"idle", "closed", "connecting", "challenging", "pairing", "ready"}
  PROVE  [t EXCEPT !.state = x] \in State
  BY Zenon DEF State

LEMMA SetClosed ==
  ASSUME NEW t \in State, NEW x \in BOOLEAN
  PROVE  [t EXCEPT !.closed = x] \in State
  BY Zenon DEF State

LEMMA SetIdentity ==
  ASSUME NEW t \in State, NEW x \in BOOLEAN
  PROVE  [t EXCEPT !.identity = x] \in State
  BY Zenon DEF State

LEMMA SetStarting ==
  ASSUME NEW t \in State, NEW x \in SUBSET Tags
  PROVE  [t EXCEPT !.starting = x] \in State
  BY Zenon DEF State

LEMMA SetTransport ==
  ASSUME NEW t \in State, NEW x \in BOOLEAN
  PROVE  [t EXCEPT !.transport = x] \in State
  BY Zenon DEF State

LEMMA SetPhase ==
  ASSUME NEW t \in State, NEW x \in {"down", "handshaking", "ready", "closed"}
  PROVE  [t EXCEPT !.phase = x] \in State
  BY Zenon DEF State

LEMMA SetSocket ==
  ASSUME NEW t \in State, NEW x \in {"none", "connecting", "open"}
  PROVE  [t EXCEPT !.socket = x] \in State
  BY Zenon DEF State

LEMMA SetRetry ==
  ASSUME NEW t \in State, NEW x \in BOOLEAN
  PROVE  [t EXCEPT !.retry = x] \in State
  BY Zenon DEF State

LEMMA SetTimer ==
  ASSUME NEW t \in State, NEW x \in BOOLEAN
  PROVE  [t EXCEPT !.timer = x] \in State
  BY Zenon DEF State

LEMMA SetReadiness ==
  ASSUME NEW t \in State, NEW x \in {"none", "current", "stale"}
  PROVE  [t EXCEPT !.readiness = x] \in State
  BY Zenon DEF State, Tags

LEMMA SetHandshakes ==
  ASSUME NEW t \in State, NEW x \in SUBSET Handshakes
  PROVE  [t EXCEPT !.handshakes = x] \in State
  BY Zenon DEF State

LEMMA SetInFlight ==
  ASSUME NEW t \in State, NEW x \in BOOLEAN
  PROVE  [t EXCEPT !.inFlight = x] \in State
  BY Zenon DEF State

LEMMA SetCompleted ==
  ASSUME NEW t \in State, NEW x \in BOOLEAN
  PROVE  [t EXCEPT !.completed = x] \in State
  BY Zenon DEF State

LEMMA SetPairing ==
  ASSUME NEW t \in State, NEW x \in BOOLEAN
  PROVE  [t EXCEPT !.pairing = x] \in State
  BY Zenon DEF State

LEMMA SetDisabled ==
  ASSUME NEW t \in State, NEW x \in BOOLEAN
  PROVE  [t EXCEPT !.disabled = x] \in State
  BY Zenon DEF State

LEMMA SetStored ==
  ASSUME NEW t \in State, NEW x \in BOOLEAN
  PROVE  [t EXCEPT !.stored = x] \in State
  BY Zenon DEF State

LEMMA SetRepair ==
  ASSUME NEW t \in State, NEW x \in {"none", "pending", "cleared", "failed"}
  PROVE  [t EXCEPT !.repair = x] \in State
  BY Zenon DEF State

LEMMA SetDeleting ==
  ASSUME NEW t \in State, NEW x \in SUBSET Tags
  PROVE  [t EXCEPT !.deleting = x] \in State
  BY Zenon DEF State

LEMMA SetAttempted ==
  ASSUME NEW t \in State, NEW x \in BOOLEAN
  PROVE  [t EXCEPT !.attempted = x] \in State
  BY Zenon DEF State

LEMMA SetAccepted ==
  ASSUME NEW t \in State, NEW x \in BOOLEAN
  PROVE  [t EXCEPT !.accepted = x] \in State
  BY Zenon DEF State

LEMMA SetDeletions ==
  ASSUME NEW t \in State, NEW x \in {0, 1}
  PROVE  [t EXCEPT !.deletions = x] \in State
  BY DEF State

LEMMA SerialLemma ==
  ASSUME NEW t \in State
  PROVE  LET r == NextSerial(t)
         IN /\ r \in State /\ SameLink(r, t) /\ SameRepair(r, t) /\ NoneCurrent(r)
            /\ r.starting = t.starting /\ r.inFlight = t.inFlight
            /\ r.readiness = "none" <=> t.readiness = "none"
            /\ Repaired(t) => Repaired(r)
<1> DEFINE hs == {[h EXCEPT !.of = "stale", !.auth = "none"] : h \in t.handshakes}
           rd == IF t.readiness = "none" THEN t.readiness ELSE "stale"
           ds == Stale(t.deleting)
           r  == NextSerial(t)
<1>1. hs \subseteq Handshakes /\ \A h \in hs : h.of = "stale"
  <2>1. t.handshakes \subseteq Handshakes
    BY DEF State
  <2>2. ASSUME NEW h \in Handshakes
        PROVE  LET k == [h EXCEPT !.of = "stale", !.auth = "none"]
               IN k \in Handshakes /\ k.of = "stale"
    BY DEF Handshakes, Tags
  <2>3. ASSUME NEW k \in hs
        PROVE  k \in Handshakes /\ k.of = "stale"
    <3>1. PICK h \in t.handshakes : k = [h EXCEPT !.of = "stale", !.auth = "none"]
      BY <2>3
    <3>2. h \in Handshakes
      BY <2>1
    <3> QED BY <2>2, <3>1, <3>2
  <2> QED BY <2>3
<1>2. /\ ds \subseteq Tags /\ ds # Tags
      /\ ds = {} <=> t.deleting = {}
  <2>1. t.deleting \subseteq Tags
    BY DEF State
  <2> QED BY <2>1 DEF Stale, Tags
<1>3. rd \in {"none", "current", "stale"} /\ (rd = "none" <=> t.readiness = "none")
  BY DEF State, Tags
<1>4. r = [t EXCEPT !.handshakes = hs, !.readiness = rd, !.deleting = ds]
  BY DEF NextSerial, State
<1> HIDE DEF hs, rd, ds
<1>5. r \in State
  <2>1. [t EXCEPT !.handshakes = hs, !.readiness = rd, !.deleting = ds] \in State
    BY <1>1, <1>2, <1>3, SetReadiness, SetHandshakes, SetDeleting, Zenon
  <2> QED BY <1>4, <2>1
<1>6. /\ r.handshakes = hs /\ r.readiness = rd /\ r.deleting = ds
      /\ r.starting = t.starting /\ r.inFlight = t.inFlight
      /\ SameLink(r, t) /\ SameRepair(r, t)
  BY <1>4 DEF State, SameLink, SameRepair
<1> HIDE DEF r
<1>7. NoneCurrent(r)
  BY <1>1, <1>6 DEF NoneCurrent
<1>8. Repaired(t) => Repaired(r)
  BY <1>2, <1>6 DEF Repaired, SameRepair
<1> QED BY <1>3, <1>5, <1>6, <1>7, <1>8 DEF r

LEMMA EpochLemma ==
  ASSUME NEW t \in State
  PROVE  LET r == NextEpoch(t)
         IN /\ r \in State /\ SameLink(r, t) /\ SameRepair(r, t) /\ NoneCurrent(r)
            /\ r.inFlight = t.inFlight
            /\ r.readiness = "none" <=> t.readiness = "none"
            /\ Repaired(t) => Repaired(r)
<1> DEFINE u  == NextSerial(t)
           ss == Stale(t.starting)
           r  == NextEpoch(t)
<1>1. /\ u \in State /\ SameLink(u, t) /\ SameRepair(u, t) /\ NoneCurrent(u)
      /\ u.starting = t.starting /\ u.inFlight = t.inFlight
      /\ u.readiness = "none" <=> t.readiness = "none"
      /\ Repaired(t) => Repaired(u)
  BY SerialLemma
<1>2. ss \subseteq Tags
  BY DEF State, Stale, Tags
<1>3. r = [u EXCEPT !.starting = ss]
  BY <1>1 DEF NextEpoch, State
<1> HIDE DEF u, ss
<1>4. r \in State
  BY <1>1, <1>2, <1>3 DEF State
<1>5. /\ r.handshakes = u.handshakes /\ r.readiness = u.readiness /\ r.deleting = u.deleting
      /\ r.inFlight = u.inFlight /\ SameLink(r, u) /\ SameRepair(r, u)
  BY <1>1, <1>3 DEF State, SameLink, SameRepair
<1> HIDE DEF r
<1> QED BY <1>1, <1>4, <1>5 DEF NoneCurrent, Repaired, SameLink, SameRepair, r

LEMMA RejectLemma ==
  ASSUME NEW t \in State
  PROVE  LET r == RejectPending(t)
         IN /\ r \in State /\ SameLink(r, t) /\ SameRepair(r, t)
            /\ r.handshakes \subseteq t.handshakes
            /\ r.starting = t.starting /\ r.readiness = t.readiness
            /\ r.deleting = t.deleting /\ r.inFlight = t.inFlight
            /\ Idle(t) => Idle(r)
<1> DEFINE hs == {h \in t.handshakes : h.step \notin {"connect", "bootstrap"}}
           d  == t.disabled \/ (t.legacy /\ \E h \in t.handshakes : h.step = "bootstrap")
           r  == RejectPending(t)
<1>1. hs \subseteq Handshakes /\ hs \subseteq t.handshakes /\ d \in BOOLEAN
  BY DEF State
<1>2. r = [t EXCEPT !.handshakes = hs, !.disabled = d]
  BY DEF RejectPending, State
<1> HIDE DEF hs, d
<1>3. r \in State
  BY <1>1, <1>2, SetHandshakes, SetDisabled, Zenon
<1>4. /\ r.handshakes = hs /\ r.starting = t.starting /\ r.readiness = t.readiness
      /\ r.deleting = t.deleting /\ r.inFlight = t.inFlight
      /\ SameLink(r, t) /\ SameRepair(r, t)
  BY <1>2 DEF State, SameLink, SameRepair
<1> HIDE DEF r
<1> QED BY <1>1, <1>3, <1>4 DEF Idle, NoneCurrent, Repaired, SameRepair, r

LEMMA IdleHandled ==
  ASSUME NEW t, Idle(t)
  PROVE  Handled(t)
BY DEF Idle, Handled, NoneCurrent

-----------------------------------------------------------------------------
(* The transport *)
LEMMA CloseSocketLemma ==
  ASSUME NEW t \in State
  PROVE  LET r == CloseSocket(t)
         IN /\ r \in State /\ r.socket = "none" /\ ~r.timer
            /\ r.handshakes = t.handshakes /\ r.deleting = t.deleting /\ SameRepair(r, t)
            /\ r.closed = t.closed /\ r.state = t.state /\ r.readiness = t.readiness
            /\ r.transport = t.transport /\ r.pairing = t.pairing /\ r.retry = t.retry
<1> DEFINE r == CloseSocket(t)
<1>1. r \in State
  BY SetSocket, SetTimer, Zenon DEF CloseSocket
<1>2. /\ r.handshakes = t.handshakes /\ r.deleting = t.deleting /\ SameRepair(r, t)
      /\ r.closed = t.closed /\ r.state = t.state /\ r.readiness = t.readiness
      /\ r.transport = t.transport /\ r.pairing = t.pairing /\ r.retry = t.retry
  BY DEF CloseSocket, State, SameRepair
<1>3. r.socket = "none" /\ r.timer = FALSE
  BY DEF CloseSocket, State
<1> QED BY <1>1, <1>2, <1>3

LEMMA ForceLemma ==
  ASSUME NEW t \in State, Repaired(t), t.transport, ~t.closed
  PROVE  LET r == ForceReconnect(t) IN Linked(r) /\ Handled(r)
<1> DEFINE u == CloseSocket(t)
           v == NextSerial(u)
           w == RejectPending(v)
           p == IF t.pairing THEN "pairing" ELSE "connecting"
           r == ForceReconnect(t)
<1>1. /\ u \in State /\ u.transport /\ ~u.closed /\ u.socket = "none" /\ ~u.timer
      /\ u.pairing = t.pairing /\ u.deleting = t.deleting /\ SameRepair(u, t)
  BY CloseSocketLemma
<1>2. Repaired(u)
  BY <1>1 DEF Repaired, SameRepair
<1> HIDE DEF u
<1>3. v \in State /\ SameLink(v, u) /\ Idle(v)
  BY <1>1, <1>2, SerialLemma DEF Idle
<1> HIDE DEF v
<1>4. w \in State /\ SameLink(w, v) /\ Idle(w)
  BY <1>3, RejectLemma
<1>5. p = (IF w.pairing THEN "pairing" ELSE "connecting")
  BY <1>1, <1>3, <1>4 DEF SameLink
<1>6. r = [w EXCEPT !.retry = TRUE, !.phase = "down", !.inFlight = FALSE, !.completed = FALSE,
                    !.readiness = "none", !.state = p]
  BY DEF ForceReconnect, u, v
<1>7. p = "pairing" \/ p = "connecting"
  OBVIOUS
<1> HIDE DEF w, p, r
<1>8. r \in State
  BY <1>4, <1>7, <1>6, SetState, SetPhase, SetRetry, SetReadiness, SetInFlight, SetCompleted,
     Zenon
<1>9. /\ r.retry /\ r.readiness = "none" /\ r.state = p /\ r.handshakes = w.handshakes
       /\ r.socket = w.socket /\ r.timer = w.timer /\ r.closed = w.closed
       /\ r.transport = w.transport /\ r.deleting = w.deleting /\ SameRepair(r, w)
  BY <1>4, <1>6 DEF State, SameRepair
<1>10. Linked(r)
  BY <1>1, <1>3, <1>4, <1>7, <1>5, <1>8, <1>9 DEF Linked, SameLink, Trying
<1>11. Idle(r)
  BY <1>4, <1>8, <1>9 DEF Idle, NoneCurrent, Repaired, SameRepair
<1> QED BY <1>10, <1>11, IdleHandled DEF r

LEMMA OpenLemma ==
  ASSUME NEW t, Idle(t), t.transport, ~t.closed, ~t.retry, ~t.timer, t.readiness = "none"
  PROVE  LET r == OpenConnection(t) IN Linked(r) /\ Handled(r)
<1> DEFINE r == OpenConnection(t)
<1>1. r \in State
  BY SetState, SetPhase, SetSocket, Zenon DEF Idle, OpenConnection
<1>2. /\ r \in State /\ r.socket = "connecting" /\ r.state = "connecting" /\ r.transport
      /\ ~r.closed /\ ~r.retry /\ ~r.timer /\ r.readiness = "none"
      /\ r.handshakes = t.handshakes /\ r.deleting = t.deleting /\ SameRepair(r, t)
  BY <1>1 DEF Idle, OpenConnection, State, SameRepair
<1> HIDE DEF r
<1>3. Linked(r)
  BY <1>2 DEF Linked, Trying
<1>4. Idle(r)
  BY <1>2 DEF Idle, NoneCurrent, Repaired, SameRepair
<1> QED BY <1>3, <1>4, IdleHandled DEF r

LEMMA ReconnectTransportLemma ==
  ASSUME NEW t, Idle(t), t.transport, ~t.closed, t.readiness = "none"
  PROVE  LET r == ReconnectTransport(t) IN Linked(r) /\ Handled(r)
<1> DEFINE v == CloseSocket(t)
           u == [v EXCEPT !.retry = FALSE]
           w == RejectPending(u)
<1>1. /\ v \in State /\ v.transport /\ ~v.closed /\ ~v.timer /\ v.readiness = "none"
      /\ v.handshakes = t.handshakes /\ v.deleting = t.deleting /\ SameRepair(v, t)
  BY CloseSocketLemma DEF Idle
<1> HIDE DEF v
<1>2. u \in State
  BY <1>1, SetRetry, Zenon
<1>3. /\ u \in State /\ u.transport /\ ~u.closed /\ ~u.retry /\ ~u.timer /\ u.readiness = "none"
      /\ u.handshakes = t.handshakes /\ u.deleting = t.deleting /\ SameRepair(u, t)
  BY <1>1, <1>2 DEF State, SameRepair
<1> HIDE DEF u
<1>4. Idle(u)
  BY <1>3 DEF Idle, NoneCurrent, Repaired, SameRepair
<1>5. /\ Idle(w) /\ w.transport /\ ~w.closed /\ ~w.retry /\ ~w.timer /\ w.readiness = "none"
  BY <1>3, <1>4, RejectLemma DEF SameLink
<1> HIDE DEF w
<1>6. LET r == OpenConnection(w) IN Linked(r) /\ Handled(r)
  BY <1>5, OpenLemma
<1> QED BY <1>6 DEF ReconnectTransport, u, v, w

LEMMA RecycleLemma ==
  ASSUME NEW t \in State, Repaired(t), t.transport, ~t.closed
  PROVE  LET r == Recycle(t) IN Linked(r) /\ Handled(r)
<1> DEFINE u == NextSerial(t)
           v == [u EXCEPT !.readiness = "none"]
<1>1. Idle(u) /\ u.transport /\ ~u.closed
  BY SerialLemma DEF Idle, SameLink
<1> HIDE DEF u
<1>2. /\ v \in State /\ v.transport /\ ~v.closed /\ v.readiness = "none"
      /\ v.handshakes = u.handshakes /\ v.deleting = u.deleting /\ SameRepair(v, u)
  BY <1>1 DEF Idle, State, SameRepair
<1> HIDE DEF v
<1>3. Idle(v)
  BY <1>1, <1>2 DEF Idle, NoneCurrent, Repaired, SameRepair
<1>4. LET r == ReconnectTransport(v) IN Linked(r) /\ Handled(r)
  BY <1>2, <1>3, ReconnectTransportLemma
<1> QED BY <1>4 DEF Recycle, u, v

LEMMA DisconnectTransportLemma ==
  ASSUME NEW t, Idle(t), ~t.closed
  PROVE  LET r == [DisconnectTransport(t) EXCEPT !.inFlight = FALSE] IN Linked(r) /\ Handled(r)
<1> DEFINE u == CloseSocket(t)
           w == RejectPending(u)
           x == DisconnectTransport(t)
           r == [x EXCEPT !.inFlight = FALSE]
<1>1. /\ u \in State /\ ~u.closed /\ u.socket = "none" /\ ~u.timer
      /\ u.handshakes = t.handshakes /\ u.deleting = t.deleting /\ SameRepair(u, t)
  BY CloseSocketLemma DEF Idle
<1> HIDE DEF u
<1>2. Idle(u)
  BY <1>1 DEF Idle, NoneCurrent, Repaired, SameRepair
<1>3. Idle(w) /\ ~w.closed /\ w.socket = "none" /\ ~w.timer
  BY <1>1, <1>2, RejectLemma DEF SameLink
<1>4. x = [w EXCEPT !.retry = FALSE, !.phase = "closed", !.readiness = "none",
                    !.state = "closed"]
  BY DEF DisconnectTransport, u
<1> HIDE DEF w
<1>5. w \in State
  BY <1>3 DEF Idle
<1> HIDE DEF x
<1>6. x \in State
  BY <1>4, <1>5, SetState, SetPhase, SetRetry, SetReadiness, Zenon
<1>7. /\ x \in State /\ ~x.closed /\ x.socket = "none" /\ ~x.timer /\ ~x.retry
      /\ x.readiness = "none" /\ x.state = "closed"
      /\ x.handshakes = w.handshakes /\ x.deleting = w.deleting /\ SameRepair(x, w)
  BY <1>3, <1>4, <1>5, <1>6 DEF State, SameRepair
<1>8. r \in State
  BY <1>6, SetInFlight, Zenon
<1>9. /\ r \in State /\ ~r.closed /\ r.socket = "none" /\ ~r.timer /\ ~r.retry
      /\ r.readiness = "none" /\ r.state = "closed"
      /\ r.handshakes = x.handshakes /\ r.deleting = x.deleting /\ SameRepair(r, x)
  BY <1>7, <1>8 DEF State, SameRepair
<1> HIDE DEF r
<1>10. Linked(r)
  BY <1>9 DEF Linked, Trying
<1>11. Idle(r)
  BY <1>3, <1>7, <1>9 DEF Idle, NoneCurrent, Repaired, SameRepair
<1> QED BY <1>10, <1>11, IdleHandled DEF r, x

LEMMA StopLemma ==
  ASSUME NEW t, Idle(t)
  PROVE  LET r == StopTransport(t)
         IN /\ Idle(r) /\ ~r.transport /\ ~r.retry /\ r.socket = "none" /\ ~r.timer
            /\ r.closed = t.closed /\ r.state = t.state /\ r.readiness = t.readiness
<1> DEFINE u == CloseSocket(t)
           r == StopTransport(t)
<1>1. /\ u \in State /\ u.socket = "none" /\ ~u.timer
      /\ u.handshakes = t.handshakes /\ u.deleting = t.deleting /\ SameRepair(u, t)
      /\ u.closed = t.closed /\ u.state = t.state /\ u.readiness = t.readiness
  BY CloseSocketLemma DEF Idle
<1> HIDE DEF u
<1>2. r = [u EXCEPT !.transport = FALSE, !.retry = FALSE, !.phase = "closed"]
  BY DEF StopTransport, u
<1> HIDE DEF r
<1>3. r \in State
  BY <1>1, <1>2, SetTransport, SetPhase, SetRetry, Zenon
<1>4. /\ r \in State /\ ~r.transport /\ ~r.retry /\ r.socket = "none" /\ ~r.timer
      /\ r.handshakes = u.handshakes /\ r.deleting = u.deleting /\ SameRepair(r, u)
      /\ r.closed = u.closed /\ r.state = u.state /\ r.readiness = u.readiness
  BY <1>1, <1>2, <1>3 DEF State, SameRepair
<1>5. Idle(r)
  BY <1>1, <1>4 DEF Idle, NoneCurrent, Repaired, SameRepair
<1> QED BY <1>1, <1>4, <1>5 DEF r

LEMMA InstallLemma ==
  ASSUME NEW t, Idle(t), ~t.closed, t.readiness = "none"
  PROVE  LET r == InstallTransport(t) IN Linked(r) /\ Handled(r)
<1> DEFINE u == StopTransport(t)
           v == [u EXCEPT !.transport = TRUE]
<1>1. /\ Idle(u) /\ ~u.retry /\ ~u.timer /\ ~u.closed /\ u.readiness = "none"
  BY StopLemma
<1> HIDE DEF u
<1>2. v \in State
  BY <1>1, SetTransport, Zenon DEF Idle
<1>3. /\ v \in State /\ v.transport /\ ~v.retry /\ ~v.timer /\ ~v.closed /\ v.readiness = "none"
      /\ v.handshakes = u.handshakes /\ v.deleting = u.deleting /\ SameRepair(v, u)
  BY <1>1, <1>2 DEF Idle, State, SameRepair
<1> HIDE DEF v
<1>4. Idle(v)
  BY <1>1, <1>3 DEF Idle, NoneCurrent, Repaired, SameRepair
<1>5. LET r == OpenConnection(v) IN Linked(r) /\ Handled(r)
  BY <1>3, <1>4, OpenLemma
<1> QED BY <1>5 DEF InstallTransport, u, v
-----------------------------------------------------------------------------
(* The client's operations *)
LEMMA ConnectLemma ==
  ASSUME NEW t \in State, Repaired(t), t.state \in {"idle", "closed"},
         t.socket = "none", ~t.retry, ~t.timer, t.readiness = "none"
  PROVE  LET r == ConnectClient(t) IN Linked(r) /\ Handled(r)
<1> DEFINE u == NextEpoch(t)
           v == [u EXCEPT !.closed = FALSE, !.pairing = FALSE, !.attempted = FALSE,
                          !.state = "connecting", !.deletions = 0]
           r == StartTransport(v)
<1>1. ConnectClient(t) = r
  BY DEF ConnectClient
<1>2. /\ u \in State /\ SameLink(u, t) /\ SameRepair(u, t) /\ NoneCurrent(u) /\ Repaired(u)
      /\ u.readiness = "none"
  BY EpochLemma
<1> HIDE DEF u
<1>3. v = [u EXCEPT !.closed = FALSE, !.pairing = FALSE, !.attempted = FALSE,
                    !.state = "connecting", !.deletions = 0]
  OBVIOUS
<1> HIDE DEF v
<1>4. v \in State
  BY <1>2, <1>3, SetState, SetClosed, SetPairing, SetAttempted, SetDeletions, Zenon
<1>5. /\ ~v.closed /\ ~v.attempted /\ v.state = "connecting" /\ v.deletions = 0
      /\ v.transport = u.transport /\ v.socket = u.socket /\ v.retry = u.retry
      /\ v.timer = u.timer /\ v.readiness = "none" /\ v.handshakes = u.handshakes
      /\ v.deleting = u.deleting /\ v.repair = u.repair
  BY <1>2, <1>3 DEF State
<1>6. Idle(v)
  BY <1>2, <1>4, <1>5 DEF Idle, NoneCurrent, Repaired
<1>7. CASE ~(v.relay /\ ~v.identity)
  <2>1. r = InstallTransport(v)
    BY <1>7 DEF StartTransport
  <2> QED BY <1>1, <1>5, <1>6, <2>1, InstallLemma
<1>8. CASE v.relay /\ ~v.identity
  <2> DEFINE ss == v.starting \union {"current"}
  <2>1. r = [v EXCEPT !.starting = ss]
    BY <1>4, <1>8 DEF StartTransport, State
  <2>2. ss \subseteq Tags /\ "current" \in ss
    BY <1>4 DEF State, Tags
  <2> HIDE DEF ss, r
  <2>3. r \in State
    BY <1>4, <2>1, <2>2 DEF State
  <2>4. /\ "current" \in r.starting /\ SameLink(r, v) /\ SameRepair(r, v)
        /\ r.readiness = v.readiness /\ r.handshakes = v.handshakes /\ r.deleting = v.deleting
    BY <1>4, <2>1, <2>2 DEF State, SameLink, SameRepair
  <2>5. Idle(r)
    BY <1>6, <2>3, <2>4 DEF Idle, NoneCurrent, Repaired, SameRepair
  <2>6. Linked(r)
    BY <1>2, <1>5, <2>3, <2>4 DEF Linked, SameLink, Trying
  <2> QED BY <1>1, <2>5, <2>6, IdleHandled
<1> QED BY <1>7, <1>8

LEMMA DisconnectLemma ==
  ASSUME NEW t \in State, Repaired(t)
  PROVE  LET r == DisconnectClient(t) IN Linked(r) /\ Handled(r)
<1> DEFINE u == NextEpoch(t)
           v == RejectPending(u)
           w == StopTransport(v)
           r == DisconnectClient(t)
<1>1. Idle(u)
  BY EpochLemma DEF Idle
<1> HIDE DEF u
<1>2. Idle(v)
  BY <1>1, RejectLemma DEF Idle
<1> HIDE DEF v
<1>3. Idle(w) /\ ~w.transport /\ ~w.retry /\ w.socket = "none" /\ ~w.timer
  BY <1>2, StopLemma
<1>4. r = [w EXCEPT !.closed = TRUE, !.pairing = FALSE, !.readiness = "none",
                    !.state = "closed"]
  BY DEF DisconnectClient, u, v
<1> HIDE DEF w, r
<1>5. r \in State
  BY <1>3, <1>4, SetState, SetClosed, SetReadiness, SetPairing, Zenon DEF Idle
<1>6. /\ r.closed /\ r.state = "closed" /\ r.readiness = "none"
      /\ ~r.transport /\ ~r.retry /\ r.socket = "none" /\ ~r.timer
      /\ r.handshakes = w.handshakes /\ r.deleting = w.deleting /\ SameRepair(r, w)
  BY <1>3, <1>4 DEF Idle, State, SameRepair
<1>7. Linked(r)
  BY <1>5, <1>6 DEF Linked, Trying
<1>8. Idle(r)
  BY <1>3, <1>5, <1>6 DEF Idle, NoneCurrent, Repaired, SameRepair
<1> QED BY <1>7, <1>8, IdleHandled DEF r

LEMMA FailRepairLemma ==
  ASSUME NEW t \in State, Repaired(t), t.deleting = {}
  PROVE  LET r == FailRepair(t) IN Linked(r) /\ Handled(r)
<1> DEFINE u == [t EXCEPT !.repair = "none"]
<1>1. /\ u \in State /\ u.deleting = {} /\ u.attempted = t.attempted
      /\ u.deletions = t.deletions
  BY DEF State
<1>2. Repaired(u)
  BY <1>1 DEF Repaired
<1> HIDE DEF u
<1>3. LET r == DisconnectClient(u) IN Linked(r) /\ Handled(r)
  BY <1>1, <1>2, DisconnectLemma
<1> QED BY <1>3 DEF FailRepair, u

LEMMA ReconnectLemma ==
  ASSUME NEW t \in State, Repaired(t), ~t.transport => t.socket = "none" /\ ~t.retry,
         t.timer => t.socket = "open"
  PROVE  LET r == ReconnectClient(t) IN Linked(r) /\ Handled(r)
<1> DEFINE u == NextSerial(t)
           v == RejectPending(u)
           w == [v EXCEPT !.closed = FALSE, !.pairing = FALSE, !.completed = FALSE,
                          !.inFlight = FALSE, !.readiness = "none"]
           x == [w EXCEPT !.state = "closed"]
<1>1. Idle(u) /\ SameLink(u, t)
  BY SerialLemma DEF Idle
<1> HIDE DEF u
<1>2. Idle(v) /\ SameLink(v, t)
  BY <1>1, RejectLemma DEF Idle, SameLink
<1>3. w = [v EXCEPT !.closed = FALSE, !.pairing = FALSE, !.completed = FALSE,
                    !.inFlight = FALSE, !.readiness = "none"]
  OBVIOUS
<1>4. ReconnectClient(t) = IF t.transport THEN ReconnectTransport(w) ELSE ConnectClient(x)
  BY DEF ReconnectClient, u
<1> HIDE DEF v, w
<1>5. w \in State
  BY <1>2, <1>3, SetClosed, SetReadiness, SetInFlight, SetCompleted, SetPairing, Zenon DEF Idle
<1>6. /\ ~w.closed /\ w.readiness = "none" /\ w.transport = v.transport
      /\ w.socket = v.socket /\ w.retry = v.retry /\ w.timer = v.timer
      /\ w.handshakes = v.handshakes /\ w.deleting = v.deleting /\ SameRepair(w, v)
  BY <1>2, <1>3 DEF Idle, State, SameRepair
<1>7. Idle(w)
  BY <1>2, <1>5, <1>6 DEF Idle, NoneCurrent, Repaired, SameRepair
<1>8. CASE t.transport
  BY <1>2, <1>4, <1>6, <1>7, <1>8, ReconnectTransportLemma DEF SameLink
<1>9. CASE ~t.transport
  <2>1. /\ x \in State /\ x.state = "closed" /\ x.readiness = "none"
        /\ x.socket = w.socket /\ x.retry = w.retry /\ x.timer = w.timer
        /\ x.deleting = w.deleting /\ SameRepair(x, w)
    BY <1>5, <1>6 DEF State, SameRepair
  <2> HIDE DEF x
  <2>2. Repaired(x)
    BY <1>7, <2>1 DEF Idle, Repaired, SameRepair
  <2>3. x.socket = "none" /\ ~x.retry /\ ~x.timer
    BY <1>2, <1>6, <1>9, <2>1 DEF SameLink
  <2> QED BY <1>4, <1>9, <2>1, <2>2, <2>3, ConnectLemma
<1> QED BY <1>8, <1>9

LEMMA TransportOpenLemma ==
  ASSUME NEW t \in State, Repaired(t), t.transport, ~t.closed, ~t.retry, t.socket = "open",
         t.state \in {"pairing", "challenging"}
  PROVE  LET r == TransportOpen(t)
         IN /\ Linked(r) /\ Handled(r) /\ NoneCurrent(r)
            /\ r.socket = "open" /\ r.transport /\ ~r.closed /\ ~r.retry
            /\ r.readiness = "current"
<1> DEFINE u == NextSerial(t)
           r == TransportOpen(t)
<1>1. Idle(u) /\ SameLink(u, t)
  BY SerialLemma DEF Idle
<1>2. r = [u EXCEPT !.inFlight = FALSE, !.completed = FALSE, !.readiness = "current",
                    !.accepted = FALSE]
  BY DEF TransportOpen
<1> HIDE DEF u, r
<1>3. r \in State
  BY <1>1, <1>2, SetReadiness, SetInFlight, SetCompleted, SetAccepted, Zenon DEF Idle
<1>4. /\ r.readiness = "current" /\ r.state = u.state /\ r.closed = u.closed
      /\ r.transport = u.transport /\ r.socket = u.socket /\ r.retry = u.retry
      /\ r.handshakes = u.handshakes /\ r.deleting = u.deleting /\ SameRepair(r, u)
  BY <1>1, <1>2 DEF Idle, State, SameRepair
<1>5. Idle(r)
  BY <1>1, <1>3, <1>4 DEF Idle, NoneCurrent, Repaired, SameRepair
<1>6. Linked(r)
  BY <1>1, <1>3, <1>4 DEF Linked, SameLink, Trying
<1> QED BY <1>1, <1>4, <1>5, <1>6, IdleHandled DEF r, SameLink, Idle

LEMMA MarkReadyLemma ==
  ASSUME NEW t, Linked(t), Idle(t), t.accepted, t.completed, ~t.closed
  PROVE  LET r == MarkReady(t) IN Linked(r) /\ Handled(r)
<1> DEFINE b == t.timer /\ ~t.relay
           r == MarkReady(t)
<1>1. CASE t.socket # "open"
  BY <1>1, IdleHandled DEF MarkReady
<1>2. CASE t.socket = "open"
  <2>1. b \in BOOLEAN
    BY DEF Idle, State
  <2>2. r = [t EXCEPT !.phase = "ready", !.state = "ready", !.readiness = "none",
                      !.timer = b]
    BY <1>2 DEF MarkReady, Idle, State
  <2> HIDE DEF b, r
  <2>3. r \in State
    BY <2>1, <2>2, SetState, SetPhase, SetTimer, SetReadiness, Zenon DEF Idle
  <2>4. /\ r.phase = "ready" /\ r.state = "ready" /\ r.readiness = "none"
        /\ r.socket = t.socket /\ r.transport = t.transport /\ r.closed = t.closed
        /\ r.retry = t.retry /\ r.accepted = t.accepted /\ r.completed = t.completed
        /\ r.handshakes = t.handshakes /\ r.deleting = t.deleting /\ SameRepair(r, t)
    BY <2>2 DEF Idle, State, SameRepair
  <2>5. Idle(r)
    BY <2>3, <2>4 DEF Idle, NoneCurrent, Repaired, SameRepair
  <2>6. Linked(r)
    BY <1>2, <2>3, <2>4 DEF Linked, Trying
  <2> QED BY <2>5, <2>6, IdleHandled DEF r
<1> QED BY <1>1, <1>2
-----------------------------------------------------------------------------
(* The handshakes *)
LEMMA HandshakesLemma ==
  ASSUME NEW t, Linked(t), Repaired(t), NEW hs, hs \subseteq Handshakes
  PROVE  LET r == [t EXCEPT !.handshakes = hs]
         IN /\ Linked(r) /\ Repaired(r) /\ r \in State /\ r.handshakes = hs
            /\ SameLink(r, t) /\ SameRepair(r, t) /\ r.deleting = t.deleting
            /\ r.inFlight = t.inFlight /\ r.readiness = t.readiness
            /\ r.starting = t.starting /\ r.completed = t.completed
<1> DEFINE r == [t EXCEPT !.handshakes = hs]
<1>1. r \in State /\ r.handshakes = hs
  BY DEF Linked, State
<1>2. /\ SameLink(r, t) /\ SameRepair(r, t) /\ r.deleting = t.deleting
      /\ r.inFlight = t.inFlight /\ r.readiness = t.readiness
      /\ r.starting = t.starting /\ r.completed = t.completed
  BY DEF Linked, State, SameLink, SameRepair
<1> HIDE DEF r
<1>3. Linked(r)
  BY <1>1, <1>2 DEF Linked, SameLink, Trying
<1>4. Repaired(r)
  BY <1>2 DEF Repaired, SameRepair
<1> QED BY <1>1, <1>2, <1>3, <1>4 DEF r

(* A handshake that ends; the current one leaves none. *)
LEMMA OverLemma ==
  ASSUME NEW t, Linked(t), Handled(t), NEW h \in t.handshakes
  PROVE  LET r == Over(t, h)
         IN /\ Linked(r) /\ Handled(r) /\ r \in State /\ r.handshakes = t.handshakes \ {h}
            /\ h.of = "current" => Idle(r)
            /\ SameLink(r, t) /\ SameRepair(r, t) /\ r.deleting = t.deleting
            /\ r.inFlight = t.inFlight /\ r.readiness = t.readiness
<1> DEFINE r == Over(t, h)
<1>1. r = [t EXCEPT !.handshakes = t.handshakes \ {h}]
  BY DEF Over, Linked, State
<1>2. t.handshakes \ {h} \subseteq Handshakes
  BY DEF Linked, State
<1> HIDE DEF r
<1>3. /\ Linked(r) /\ Repaired(r) /\ r \in State /\ r.handshakes = t.handshakes \ {h}
      /\ SameLink(r, t) /\ SameRepair(r, t) /\ r.deleting = t.deleting
      /\ r.inFlight = t.inFlight /\ r.readiness = t.readiness
  BY <1>1, <1>2, HandshakesLemma DEF Handled
<1>4. Handled(r)
  BY <1>3 DEF Handled, SameLink
<1>5. h.of = "current" => NoneCurrent(r)
  BY <1>3 DEF Handled, NoneCurrent
<1> QED BY <1>3, <1>4, <1>5 DEF r, Idle

(* A handshake that goes on to its next step *)
LEMMA ProceedLemma ==
  ASSUME NEW t, Linked(t), Handled(t), NEW h \in t.handshakes, h.of = "current",
         t.deleting = {}, NEW k \in Handshakes, k.of = "current",
         k.step = "persist" => t.accepted
  PROVE  LET r == Proceed(t, h, k.step, k.auth) IN Linked(r) /\ Handled(r)
<1> DEFINE u  == Over(t, h)
           hs == u.handshakes \union {k}
           r  == Proceed(t, h, k.step, k.auth)
<1>1. /\ Linked(u) /\ Idle(u) /\ SameLink(u, t) /\ u.deleting = {} /\ u.inFlight = t.inFlight
      /\ u.readiness = t.readiness /\ Repaired(u)
  BY OverLemma DEF Idle
<1>2. k = [step |-> k.step, of |-> "current", auth |-> k.auth]
  BY DEF Handshakes
<1>3. r = [u EXCEPT !.handshakes = hs]
  BY <1>1, <1>2 DEF Proceed, Idle, State
<1> HIDE DEF u, r
<1>4. hs \subseteq Handshakes
  BY <1>1 DEF Idle, State
<1>5. t.inFlight /\ t.readiness = "current"
  BY DEF Handled
<1> HIDE DEF hs
<1>6. /\ Linked(r) /\ Repaired(r) /\ r.handshakes = hs /\ SameLink(r, u) /\ r.deleting = {}
      /\ r.inFlight /\ r.readiness = "current"
  <2>1. LET q == [u EXCEPT !.handshakes = hs]
        IN /\ Linked(q) /\ Repaired(q) /\ q.handshakes = hs /\ SameLink(q, u)
           /\ q.deleting = u.deleting /\ q.inFlight = u.inFlight
           /\ q.readiness = u.readiness
    BY <1>1, <1>4, HandshakesLemma
  <2> QED BY <1>1, <1>3, <1>5, <2>1
<1>7. Handled(r)
  BY <1>1, <1>6 DEF Handled, Idle, NoneCurrent, SameLink, hs
<1> QED BY <1>6, <1>7 DEF r

LEMMA BeginLemma ==
  ASSUME NEW t, Linked(t), Repaired(t), NoneCurrent(t), t.readiness = "current"
  PROVE  LET r == BeginHandshake(t) IN Linked(r) /\ Handled(r)
<1> DEFINE s  == IF t.repair = "none" THEN "token" ELSE "repair"
           k  == [step |-> s, of |-> "current", auth |-> "none"]
           hs == t.handshakes \union {k}
           b  == t.timer /\ t.relay
           u  == [t EXCEPT !.inFlight = TRUE, !.timer = b]
           r  == BeginHandshake(t)
<1>1. k \in Handshakes
  BY DEF Handshakes, Tags
<1>2. hs \subseteq Handshakes
  BY <1>1 DEF Linked, State
<1>3. r = [u EXCEPT !.handshakes = hs]
  BY DEF BeginHandshake, Linked, State
<1>4. b \in BOOLEAN /\ (b => t.timer)
  BY DEF Linked, State
<1>5. k.of = "current" /\ (t.deleting # {} => k.step = "repair") /\ k.step # "persist"
  BY DEF Repaired
<1> HIDE DEF k, b, r
<1>6. u \in State
  BY <1>4, SetInFlight, SetTimer, Zenon DEF Linked
<1>7. /\ u.inFlight /\ u.timer = b /\ u.handshakes = t.handshakes
       /\ u.state = t.state /\ u.closed = t.closed /\ u.transport = t.transport
       /\ u.phase = t.phase /\ u.socket = t.socket /\ u.retry = t.retry
  BY DEF Linked, State
<1>8. /\ u.accepted = t.accepted /\ u.completed = t.completed /\ u.starting = t.starting
       /\ u.readiness = "current" /\ u.deleting = t.deleting /\ SameRepair(u, t)
  BY DEF Linked, State, SameRepair
<1> HIDE DEF u
<1>9. Linked(u) /\ Repaired(u)
  BY <1>4, <1>6, <1>7, <1>8 DEF Linked, Trying, Repaired, SameRepair
<1> HIDE DEF hs
<1>10. /\ Linked(r) /\ Repaired(r) /\ r.handshakes = hs /\ r.deleting = t.deleting
      /\ r.inFlight /\ r.readiness = "current"
  BY <1>2, <1>3, <1>9, <1>6, <1>7, <1>8, HandshakesLemma
<1>11. Handled(r)
  BY <1>5, <1>10 DEF Handled, NoneCurrent, hs
<1> QED BY <1>10, <1>11 DEF r

(* The first refusal of the stored token starts the only deletion. *)
LEMMA RepairLemma ==
  ASSUME NEW t, Linked(t), Idle(t), t.deleting = {}, ~t.attempted
  PROVE  LET r == Repair(t) IN Linked(r) /\ Handled(r)
<1> DEFINE d == IF t.deletions < 2 THEN t.deletions + 1 ELSE t.deletions
           y == [t EXCEPT !.deletions = d]
           x == [y EXCEPT !.attempted = TRUE, !.repair = "pending"]
           r == [x EXCEPT !.deleting = {"current"}, !.inFlight = FALSE]
<1>1. d = 1
  BY DEF Idle, Repaired
<1>2. y \in State /\ y.deletions = 1 /\ y.handshakes = t.handshakes /\ SameLink(y, t)
      /\ y.readiness = t.readiness /\ y.starting = t.starting /\ y.completed = t.completed
  BY <1>1 DEF Idle, State, SameLink
<1> HIDE DEF y
<1>3. x \in State
  BY <1>2, SetRepair, SetAttempted, SetDeletions, Zenon
<1>4. x \in State /\ x.deletions = 1 /\ x.handshakes = t.handshakes /\ SameLink(x, t)
      /\ x.attempted /\ x.repair = "pending"
      /\ x.readiness = t.readiness /\ x.starting = t.starting /\ x.completed = t.completed
  BY <1>2, <1>3 DEF State, SameLink
<1> HIDE DEF x
<1>5. r \in State
  BY <1>4, SetInFlight, SetRepair, SetDeleting, SetAttempted, SetDeletions, Zenon DEF Tags
<1>6. r \in State /\ r.deletions = 1 /\ r.handshakes = t.handshakes /\ SameLink(r, t)
      /\ r.attempted /\ r.repair = "pending" /\ r.deleting = {"current"}
      /\ r.readiness = t.readiness /\ r.starting = t.starting /\ r.completed = t.completed
  BY <1>4, <1>5 DEF State, SameLink
<1>7. Repair(t) = r
  BY <1>1 DEF Repair, Idle, State, x, y
<1> HIDE DEF r
<1>8. Idle(r)
  BY <1>6 DEF Idle, Repaired, NoneCurrent, Tags
<1>9. Linked(r)
  BY <1>6 DEF Linked, SameLink, Trying
<1> QED BY <1>7, <1>8, <1>9, IdleHandled

(* A current handshake that fails, for each reason *)
LEMMA FailsLemma ==
  ASSUME NEW t, Linked(t), Handled(t), NEW h \in t.handshakes, h.of = "current",
         h.step # "repair", t.socket = "open", ~t.closed, NEW why \in Reasons
  PROVE  LET r == Fails(t, h, why) IN Linked(r) /\ Handled(r)
<1> DEFINE u == Over(t, h)
           r == Fails(t, h, why)
<1>1. /\ Linked(u) /\ Idle(u) /\ u \in State /\ Repaired(u) /\ u.deleting = {}
      /\ u.readiness = "current"
      /\ u.socket = "open" /\ u.transport /\ ~u.closed
  BY OverLemma DEF Handled, Idle, Linked, SameLink
<1> HIDE DEF u
<1>2. CASE why = "mismatch"
  <2>1. r = Mismatch(u, h.auth)
    BY <1>2 DEF Fails, u
  <2>2. CASE h.auth # "device" \/ u.attempted
    BY <1>1, <2>1, <2>2, FailRepairLemma DEF Mismatch
  <2>3. CASE ~(h.auth # "device" \/ u.attempted)
    BY <1>1, <2>1, <2>3, RepairLemma DEF Mismatch
  <2> QED BY <2>2, <2>3
<1>3. CASE why = "pairing"
  <2>1. r = [u EXCEPT !.pairing = TRUE, !.state = "pairing", !.inFlight = FALSE]
    BY <1>3 DEF Fails, u
  <2> HIDE DEF r
  <2>2. r \in State
    BY <1>1, <2>1, SetState, SetInFlight, SetPairing, Zenon
  <2>3. /\ r \in State /\ r.state = "pairing" /\ r.readiness = "current"
        /\ r.closed = u.closed /\ r.transport = u.transport /\ r.phase = u.phase
        /\ r.socket = u.socket /\ r.retry = u.retry
        /\ r.handshakes = u.handshakes /\ r.deleting = {} /\ SameRepair(r, u)
    <3>1. /\ r.closed = u.closed /\ r.transport = u.transport /\ r.phase = u.phase
          /\ r.socket = u.socket /\ r.retry = u.retry /\ r.handshakes = u.handshakes
      BY <1>1, <2>1 DEF State
    <3>2. r.state = "pairing" /\ r.readiness = u.readiness /\ r.deleting = u.deleting
      BY <1>1, <2>1 DEF State
    <3>3. SameRepair(r, u)
      BY <1>1, <2>1 DEF State, SameRepair
    <3> QED BY <1>1, <2>2, <3>1, <3>2, <3>3
  <2>4. Idle(r)
    BY <1>1, <2>3 DEF Idle, NoneCurrent, Repaired, SameRepair
  <2>5. Linked(r)
    BY <1>1, <2>3 DEF Linked, Trying
  <2> QED BY <2>4, <2>5, IdleHandled DEF r
<1>4. CASE why = "fatal"
  <2>1. r = [DisconnectTransport(u) EXCEPT !.inFlight = FALSE]
    BY <1>4 DEF Fails, u
  <2> QED BY <1>1, <2>1, DisconnectTransportLemma
<1>5. CASE why = "schema"
  <2> DEFINE d == u.disabled \/ (t.legacy /\ h.auth \in {"bootstrap", "setup"})
             v == [u EXCEPT !.disabled = d]
  <2>1. r = Recycle(v)
    BY <1>5 DEF Fails, u
  <2>2. d \in BOOLEAN
    BY <1>1 DEF State, Linked
  <2> HIDE DEF d
  <2>3. /\ v \in State /\ v.transport /\ ~v.closed /\ v.deleting = {}
        /\ SameRepair(v, u)
    BY <1>1, <2>2 DEF State, SameRepair
  <2> HIDE DEF v
  <2>4. Repaired(v)
    BY <1>1, <2>3 DEF Repaired, SameRepair
  <2> QED BY <2>1, <2>3, <2>4, RecycleLemma
<1>6. CASE why = "other"
  <2>1. r = Recycle(u)
    BY <1>6 DEF Fails, u
  <2> QED BY <1>1, <2>1, RecycleLemma
<1>7. CASE why = "rejected"
  <2>1. r = FailRepair(u)
    BY <1>7 DEF Fails, u
  <2> QED BY <1>1, <2>1, FailRepairLemma
<1> QED BY <1>2, <1>3, <1>4, <1>5, <1>6, <1>7 DEF Reasons

(* A handshake that succeeds *)
LEMMA SucceedsLemma ==
  ASSUME NEW t, Linked(t), Handled(t), NEW h \in t.handshakes, h.of = "current",
         h.step # "repair", t.socket = "open", ~t.closed, t.accepted, NEW issued \in BOOLEAN
  PROVE  LET r == Succeeds(t, h, issued) IN Linked(r) /\ Handled(r)
<1> DEFINE u == Over(t, h)
<1>1. /\ Linked(u) /\ Idle(u) /\ u \in State /\ Repaired(u) /\ u.deleting = {}
      /\ u.readiness = "current" /\ u.socket = "open" /\ u.transport /\ ~u.closed /\ u.accepted
  BY OverLemma DEF Handled, Idle, Linked, SameLink
<1> HIDE DEF u
<1>2. CASE h.auth = "setup" /\ issued
  <2>1. Succeeds(t, h, issued) = ReconnectClient(u)
    BY <1>2 DEF Succeeds, u
  <2> QED BY <1>1, <2>1, ReconnectLemma
<1>3. CASE h.auth = "setup" /\ ~issued
  <2>1. Succeeds(t, h, issued) = Fails(t, h, "other")
    BY <1>3 DEF Succeeds
  <2>2. "other" \in Reasons
    BY DEF Reasons
  <2> QED BY <2>1, <2>2, FailsLemma
<1>4. CASE h.auth # "setup"
  <2> DEFINE y == [u EXCEPT !.deletions = 0]
             v == [u EXCEPT !.completed = TRUE, !.attempted = FALSE, !.pairing = FALSE,
                            !.inFlight = FALSE, !.deletions = 0]
  <2>1. Succeeds(t, h, issued) = MarkReady(v)
    BY <1>4 DEF Succeeds, u
  <2>2. v = [y EXCEPT !.completed = TRUE, !.attempted = FALSE, !.pairing = FALSE,
                      !.inFlight = FALSE]
    OBVIOUS
  <2>3. y \in State
    BY <1>1 DEF State
  <2>4. y.deletions = 0 /\ y.repair = u.repair /\ y.handshakes = u.handshakes
        /\ y.deleting = {} /\ SameLink(y, u) /\ y.readiness = "current"
    BY <1>1 DEF State, SameLink
  <2> HIDE DEF y, v
  <2>5. v \in State
    BY <2>2, <2>3, SetInFlight, SetCompleted, SetPairing, SetAttempted, SetDeletions, Zenon
  <2>6. /\ v.completed /\ ~v.attempted /\ v.deletions = 0 /\ v.repair = u.repair
        /\ v.state = u.state /\ v.closed = u.closed /\ v.transport = u.transport
        /\ v.phase = u.phase /\ v.socket = u.socket /\ v.retry = u.retry
        /\ v.timer = u.timer /\ v.accepted /\ v.readiness = "current"
        /\ v.handshakes = u.handshakes /\ v.deleting = {}
    <3>1. /\ v.completed /\ ~v.attempted /\ v.deletions = y.deletions /\ v.repair = y.repair
          /\ v.handshakes = y.handshakes /\ v.deleting = y.deleting
          /\ v.accepted = y.accepted /\ v.readiness = y.readiness
      BY <2>2, <2>3 DEF State
    <3>2. /\ v.state = y.state /\ v.closed = y.closed /\ v.transport = y.transport
          /\ v.phase = y.phase /\ v.socket = y.socket /\ v.retry = y.retry
          /\ v.timer = y.timer
      BY <2>2, <2>3 DEF State
    <3> QED BY <1>1, <2>4, <3>1, <3>2 DEF SameLink
  <2>7. Idle(v)
    BY <1>1, <2>5, <2>6 DEF Idle, NoneCurrent, Repaired
  <2>8. Linked(v)
    BY <1>1, <2>5, <2>6 DEF Linked, Trying
  <2> QED BY <1>1, <2>1, <2>6, <2>7, <2>8, MarkReadyLemma
<1> QED BY <1>2, <1>3, <1>4
-----------------------------------------------------------------------------
(* The invariant is inductive. *)
LEMMA InitLemma == Init => IInv
<1> SUFFICES ASSUME Init PROVE IInv
  OBVIOUS
<1>1. PICK relay \in Routes, legacy \in BOOLEAN, bootstrap \in BOOLEAN, identity \in BOOLEAN,
           stored \in BOOLEAN :
        c = [relay |-> relay, legacy |-> legacy, bootstrap |-> bootstrap, state |-> "idle",
             closed |-> FALSE, identity |-> identity, starting |-> {}, transport |-> FALSE,
             phase |-> "closed", socket |-> "none", retry |-> FALSE, timer |-> FALSE,
             readiness |-> "none", handshakes |-> {}, inFlight |-> FALSE, completed |-> FALSE,
             pairing |-> FALSE, disabled |-> FALSE, stored |-> stored, repair |-> "none",
             deleting |-> {}, attempted |-> FALSE, accepted |-> FALSE, deletions |-> 0]
  BY DEF Init
<1>2. c \in State
  BY <1>1 DEF State
<1>3. Linked(c)
  BY <1>1, <1>2 DEF Linked, Trying
<1>4. Handled(c)
  BY <1>1 DEF Handled, Repaired, Tags
<1> QED BY <1>1, <1>3, <1>4 DEF IInv, Rooted

LEMMA ConfigureLemma == IInv /\ Configure => Linked(c') /\ Handled(c') /\ ~c'.transport
<1> SUFFICES ASSUME IInv, Configure PROVE Linked(c') /\ Handled(c') /\ ~c'.transport
  OBVIOUS
<1> DEFINE e == NextEpoch(c)
           changed == [e EXCEPT !.disabled = FALSE, !.attempted = FALSE, !.pairing = FALSE,
                                !.readiness = "none", !.deletions = 0]
<1>1. PICK legacy \in BOOLEAN, bootstrap \in BOOLEAN :
        c' = [StopTransport(RejectPending([changed EXCEPT !.legacy = legacy])) EXCEPT
                !.bootstrap = bootstrap,
                !.state = IF @ = "idle" /\ ~c.transport THEN @ ELSE "closed"]
  BY DEF Configure
<1> DEFINE y == [e EXCEPT !.deletions = 0]
           x == [y EXCEPT !.disabled = FALSE, !.attempted = FALSE, !.pairing = FALSE]
           z == [x EXCEPT !.readiness = "none", !.legacy = legacy]
           w == StopTransport(RejectPending(z))
           p == IF w.state = "idle" /\ ~c.transport THEN "idle" ELSE "closed"
<1>2. e \in State /\ SameLink(e, c) /\ NoneCurrent(e) /\ Repaired(e)
  BY EpochLemma DEF IInv, Linked, Handled
<1>3. [changed EXCEPT !.legacy = legacy] = z
  BY <1>2 DEF State
<1> HIDE DEF e
<1>4. /\ y \in State /\ y.deletions = 0 /\ y.handshakes = e.handshakes
      /\ y.deleting = e.deleting /\ y.repair = e.repair /\ y.closed = e.closed
      /\ y.state = e.state
  BY <1>2 DEF State
<1> HIDE DEF y
<1>5. x \in State
  BY <1>4, SetPairing, SetDisabled, SetAttempted, SetDeletions, Zenon
<1>6. /\ x \in State /\ x.deletions = 0 /\ ~x.attempted /\ x.handshakes = y.handshakes
      /\ x.deleting = y.deleting /\ x.repair = y.repair /\ x.closed = y.closed
      /\ x.state = y.state
  BY <1>4, <1>5 DEF State
<1> HIDE DEF x
<1>7. z \in State
  BY <1>6, SetLegacy, SetReadiness, SetPairing, SetDisabled, SetAttempted, SetDeletions, Zenon
<1>8. /\ z \in State /\ z.deletions = 0 /\ ~z.attempted /\ z.handshakes = x.handshakes
      /\ z.deleting = x.deleting /\ z.repair = x.repair /\ z.closed = x.closed
      /\ z.readiness = "none" /\ z.state = x.state
  BY <1>6, <1>7 DEF State
<1> HIDE DEF z
<1>9. Idle(z)
  BY <1>2, <1>4, <1>6, <1>8 DEF Idle, NoneCurrent, Repaired
<1>10. Idle(RejectPending(z)) /\ RejectPending(z).readiness = "none"
  BY <1>8, <1>9, RejectLemma
<1>11. Idle(w) /\ ~w.transport /\ ~w.retry /\ w.socket = "none" /\ ~w.timer
      /\ w.readiness = "none" /\ w.closed = c.closed /\ w.state = c.state
  BY <1>2, <1>4, <1>6, <1>8, <1>9, <1>10, StopLemma, RejectLemma DEF SameLink
<1>12. c' = [w EXCEPT !.bootstrap = bootstrap, !.state = p]
  BY <1>1, <1>3, <1>11 DEF Idle, State
<1>13. p \in {"idle", "closed"} /\ (c.closed => p = "closed")
  BY <1>11 DEF IInv, Linked
<1> HIDE DEF w, p
<1>14. c' \in State
  BY <1>11, <1>12, <1>13, SetLegacy, SetBootstrap, SetState, SetReadiness, SetPairing,
     SetDisabled, SetAttempted, SetDeletions, Zenon DEF Idle
<1>15. /\ c' \in State /\ c'.state = p /\ c'.closed = w.closed /\ c'.transport = w.transport
       /\ c'.retry = w.retry /\ c'.socket = w.socket /\ c'.timer = w.timer
       /\ c'.readiness = w.readiness /\ c'.handshakes = w.handshakes
       /\ c'.deleting = w.deleting /\ SameRepair(c', w)
  BY <1>11, <1>12, <1>14 DEF Idle, State, SameRepair
<1>16. Linked(c')
  BY <1>11, <1>13, <1>15 DEF Linked, Trying
<1>17. Idle(c')
  BY <1>11, <1>15 DEF Idle, NoneCurrent, Repaired, SameRepair
<1> QED BY <1>11, <1>15, <1>16, <1>17, IdleHandled
-----------------------------------------------------------------------------
(* Rooted: only the operators that start or stop a transport touch it. *)
LEMMA SameBaseLemma ==
  ASSUME NEW t, HasBase(t)
  PROVE  /\ SameBase(NextSerial(t), t) /\ SameBase(RejectPending(t), t)
         /\ SameBase(ForceReconnect(t), t) /\ SameBase(ReconnectTransport(t), t)
         /\ SameBase(DisconnectTransport(t), t) /\ SameBase(Recycle(t), t)
         /\ SameBase(TransportOpen(t), t) /\ SameBase(MarkReady(t), t)
         /\ SameBase(BeginHandshake(t), t) /\ SameBase(BeginHandshake(RestartBackend(t)), t)
         /\ SameBase(Repair(t), t) /\ SameBase(OpenConnection(t), t)
<1>1. SameBase(NextSerial(t), t)
  BY DEF HasBase, SameBase, NextSerial
<1>2. SameBase(RejectPending(t), t)
  BY DEF HasBase, SameBase, RejectPending
<1>3. SameBase(NextSerial(t), t) /\ SameBase(RejectPending(t), t)
  BY <1>1, <1>2
<1>4. SameBase(ForceReconnect(t), t)
  <2> DEFINE u == CloseSocket(t)
             v == NextSerial(u)
  <2>1. SameBase(u, t) /\ HasBase(u)
    BY DEF HasBase, SameBase, CloseSocket
  <2> HIDE DEF u
  <2>2. SameBase(v, u) /\ HasBase(v)
    BY <2>1 DEF HasBase, SameBase, NextSerial
  <2> HIDE DEF v
  <2>3. LET w == RejectPending(v) IN SameBase(w, v) /\ HasBase(w)
    BY <2>2 DEF HasBase, SameBase, RejectPending
  <2>4. SameBase(ForceReconnect(t), RejectPending(v))
    BY <2>3 DEF HasBase, SameBase, ForceReconnect, u, v
  <2> QED BY <2>1, <2>2, <2>3, <2>4 DEF SameBase
<1>5. SameBase(ReconnectTransport(t), t) /\ SameBase(OpenConnection(t), t)
  BY DEF HasBase, SameBase, ReconnectTransport, OpenConnection, CloseSocket, RejectPending
<1>6. SameBase(DisconnectTransport(t), t)
  BY DEF HasBase, SameBase, DisconnectTransport, CloseSocket, RejectPending
<1>7. SameBase(Recycle(t), t)
  <2> DEFINE u == [NextSerial(t) EXCEPT !.readiness = "none"]
  <2>1. SameBase(u, t) /\ HasBase(u)
    BY DEF HasBase, SameBase, NextSerial
  <2> HIDE DEF u
  <2>2. SameBase(ReconnectTransport(u), u)
    BY <2>1 DEF HasBase, SameBase, ReconnectTransport, OpenConnection, CloseSocket, RejectPending
  <2> QED BY <2>1, <2>2 DEF SameBase, Recycle, u
<1>8. SameBase(TransportOpen(t), t) /\ SameBase(MarkReady(t), t)
  BY DEF HasBase, SameBase, TransportOpen, NextSerial, MarkReady
<1>9. SameBase(BeginHandshake(t), t)
  BY DEF HasBase, SameBase, BeginHandshake
<1>10. SameBase(Repair(t), t)
  BY DEF HasBase, SameBase, Repair
<1>11. SameBase(BeginHandshake(t), t) /\ SameBase(Repair(t), t)
  BY <1>9, <1>10
<1>12. SameBase(BeginHandshake(RestartBackend(t)), t)
  <2> DEFINE r == RestartBackend(t)
  <2>1. SameBase(r, t)
    BY DEF HasBase, SameBase, RestartBackend, TransportOpen, NextSerial, RejectPending
  <2>2. HasBase(r)
    BY <2>1 DEF HasBase, SameBase
  <2> HIDE DEF r
  <2>3. SameBase(BeginHandshake(r), r)
    BY <2>2 DEF HasBase, SameBase, BeginHandshake
  <2> QED BY <2>1, <2>3 DEF SameBase, r
<1> QED BY <1>3, <1>4, <1>5, <1>6, <1>7, <1>8, <1>11, <1>12

LEMMA RootedSame ==
  ASSUME NEW t, NEW r, SameBase(r, t)
  PROVE  /\ Rooted(t) => Rooted(r)
         /\ HasBase(t) => HasBase(r)
BY DEF SameBase, Rooted, HasBase

LEMMA ConnectRooted ==
  ASSUME NEW t, HasBase(t), Rooted(t)
  PROVE  Rooted(ConnectClient(t))
<1> DEFINE v == [NextEpoch(t) EXCEPT
                   !.closed = FALSE, !.pairing = FALSE, !.attempted = FALSE,
                   !.state = "connecting", !.deletions = 0]
<1>1. /\ DOMAIN v = DOMAIN t /\ v.relay = t.relay /\ v.identity = t.identity
      /\ v.transport = t.transport /\ v.starting = Stale(t.starting)
  BY DEF HasBase, NextEpoch, NextSerial
<1>2. "current" \notin v.starting
  BY <1>1 DEF Stale
<1>3. ConnectClient(t) = IF t.state \notin {"idle", "closed"} THEN t ELSE StartTransport(v)
  BY DEF ConnectClient
<1> HIDE DEF v
<1>4. CASE v.relay /\ ~v.identity
  BY <1>1, <1>3, <1>4 DEF Rooted, HasBase, StartTransport
<1>5. CASE ~(v.relay /\ ~v.identity)
  BY <1>1, <1>2, <1>3, <1>5 DEF Rooted, HasBase, StartTransport, InstallTransport,
     OpenConnection, StopTransport, CloseSocket
<1> QED BY <1>4, <1>5

LEMMA DisconnectRooted ==
  ASSUME NEW t, HasBase(t)
  PROVE  Rooted(DisconnectClient(t)) /\ Rooted(FailRepair(t))
BY DEF HasBase, Rooted, DisconnectClient, FailRepair, StopTransport, CloseSocket,
       RejectPending, NextEpoch, NextSerial

LEMMA ReconnectRooted ==
  ASSUME NEW t, HasBase(t), Rooted(t)
  PROVE  Rooted(ReconnectClient(t))
<1> DEFINE w == [RejectPending(NextSerial(t)) EXCEPT
                   !.closed = FALSE, !.pairing = FALSE, !.completed = FALSE,
                   !.inFlight = FALSE, !.readiness = "none"]
           x == [w EXCEPT !.state = "closed"]
<1>1. SameBase(w, t) /\ SameBase(x, t)
  BY DEF HasBase, SameBase, NextSerial, RejectPending
<1>2. ReconnectClient(t) = IF t.transport THEN ReconnectTransport(w) ELSE ConnectClient(x)
  BY DEF ReconnectClient
<1> HIDE DEF w, x
<1>3. HasBase(w) /\ Rooted(w) /\ HasBase(x) /\ Rooted(x)
  BY <1>1, RootedSame
<1>4. Rooted(ReconnectTransport(w)) /\ Rooted(ConnectClient(x))
  BY <1>3, SameBaseLemma, RootedSame, ConnectRooted
<1> QED BY <1>2, <1>4

LEMMA FailsRooted ==
  ASSUME NEW t, HasBase(t), Rooted(t), NEW h, NEW why \in Reasons
  PROVE  Rooted(Fails(t, h, why))
<1> DEFINE u == Over(t, h)
           d == u.disabled \/ (t.legacy /\ h.auth \in {"bootstrap", "setup"})
<1>1. HasBase(u) /\ Rooted(u)
  BY DEF Over, HasBase, Rooted
<1> HIDE DEF u
<1>2. CASE why = "mismatch"
  <2>1. Fails(t, h, why) = Mismatch(u, h.auth)
    BY <1>2 DEF Fails, u
  <2> QED BY <1>1, <2>1, SameBaseLemma, RootedSame, DisconnectRooted DEF Mismatch
<1>3. CASE why = "pairing"
  BY <1>1, <1>3 DEF Fails, u, HasBase, Rooted
<1>4. CASE why = "fatal"
  <2>1. HasBase(DisconnectTransport(u)) /\ Rooted(DisconnectTransport(u))
    BY <1>1, SameBaseLemma, RootedSame
  <2> HIDE DEF u
  <2>2. Fails(t, h, why) = [DisconnectTransport(u) EXCEPT !.inFlight = FALSE]
    BY <1>4 DEF Fails, u
  <2> QED BY <2>1, <2>2 DEF HasBase, Rooted
<1>5. CASE why = "schema"
  <2>1. Fails(t, h, why) = Recycle([u EXCEPT !.disabled = d])
    BY <1>5 DEF Fails, u
  <2>2. HasBase([u EXCEPT !.disabled = d]) /\ Rooted([u EXCEPT !.disabled = d])
    BY <1>1 DEF HasBase, Rooted
  <2> QED BY <2>1, <2>2, SameBaseLemma, RootedSame
<1>6. CASE why = "other"
  <2>1. Fails(t, h, why) = Recycle(u)
    BY <1>6 DEF Fails, u
  <2> QED BY <1>1, <2>1, SameBaseLemma, RootedSame
<1>7. CASE why = "rejected"
  <2>1. Fails(t, h, why) = FailRepair(u)
    BY <1>7 DEF Fails, u
  <2> QED BY <1>1, <2>1, DisconnectRooted
<1> QED BY <1>2, <1>3, <1>4, <1>5, <1>6, <1>7 DEF Reasons

LEMMA SucceedsRooted ==
  ASSUME NEW t, HasBase(t), Rooted(t), NEW h, NEW issued \in BOOLEAN
  PROVE  Rooted(Succeeds(t, h, issued))
<1> DEFINE u == Over(t, h)
           v == [u EXCEPT !.completed = TRUE, !.attempted = FALSE, !.pairing = FALSE,
                          !.inFlight = FALSE, !.deletions = 0]
<1>1. HasBase(u) /\ Rooted(u) /\ HasBase(v) /\ Rooted(v)
  BY DEF Over, HasBase, Rooted
<1>2. "other" \in Reasons
  BY DEF Reasons
<1>3. Rooted(ReconnectClient(u)) /\ Rooted(Fails(t, h, "other")) /\ Rooted(MarkReady(v))
  BY <1>1, <1>2, ReconnectRooted, FailsRooted, SameBaseLemma, RootedSame
<1> QED BY <1>3 DEF Succeeds
-----------------------------------------------------------------------------
(* Each action *)
Kept(t) == Linked(t) /\ Handled(t) /\ Rooted(t)

LEMMA Facts ==
  ASSUME IInv
  PROVE  /\ c \in State /\ HasBase(c) /\ Linked(c) /\ Handled(c) /\ Rooted(c) /\ Repaired(c)
         /\ c.socket = "open" => c.transport /\ ~c.closed
BY DEF IInv, Linked, Handled, State, HasBase

LEMMA OperationsLemma ==
  ASSUME IInv, Connect \/ Disconnect \/ Reconnect \/ Configure
  PROVE  Kept(c')
<1>1. CASE Connect
  <2>1. Rooted(c')
    BY <1>1, Facts, ConnectRooted DEF Connect
  <2>2. CASE c.state \notin {"idle", "closed"}
    BY <1>1, <2>2, Facts DEF Connect, ConnectClient, Kept
  <2>3. CASE c.state \in {"idle", "closed"}
    <3>1. c.socket = "none" /\ ~c.retry /\ ~c.timer /\ c.readiness = "none"
      BY <2>3, Facts DEF Linked
    <3> QED BY <1>1, <2>1, <2>3, <3>1, Facts, ConnectLemma DEF Connect, Kept
  <2> QED BY <2>2, <2>3
<1>2. CASE Disconnect
  BY <1>2, Facts, DisconnectLemma, DisconnectRooted DEF Disconnect, Kept
<1>3. CASE Reconnect
  <2>1. /\ ~c.transport => c.socket = "none" /\ ~c.retry
        /\ c.timer => c.socket = "open"
    BY Facts DEF Linked
  <2> QED BY <1>3, <2>1, Facts, ReconnectLemma, ReconnectRooted DEF Reconnect, Kept
<1>4. CASE Configure
  <2>1. Linked(c') /\ Handled(c') /\ ~c'.transport
    BY <1>4, ConfigureLemma
  <2> QED BY <2>1 DEF Kept, Rooted
<1> QED BY <1>1, <1>2, <1>3, <1>4

LEMMA StartsLemma ==
  ASSUME IInv, NEW tag \in Tags, Starts(tag) \/ StartFails(tag)
  PROVE  Kept(c')
<1> DEFINE ss     == c.starting \ {tag}
           over   == [c EXCEPT !.starting = ss]
           loaded == [c EXCEPT !.identity = TRUE, !.starting = ss]
<1>1. tag \in c.starting
  BY DEF Starts, StartFails
<1>2. ss \subseteq Tags /\ (tag = "stale" => ("current" \in ss <=> "current" \in c.starting))
  BY Facts DEF State
<1>3. tag = "current" => /\ ~c.transport /\ c.socket = "none" /\ ~c.retry /\ ~c.timer
                         /\ c.readiness = "none" /\ NoneCurrent(c)
  BY <1>1, Facts DEF Linked, Rooted, Handled, NoneCurrent
<1>4. ASSUME Starts(tag) PROVE Kept(c')
  <2>1. c' = IF tag = "stale" \/ c.closed THEN loaded ELSE InstallTransport(loaded)
    BY <1>4, Facts DEF Starts, State
  <2> HIDE DEF ss
  <2>2. /\ loaded \in State /\ SameLink(loaded, c) /\ SameRepair(loaded, c)
        /\ loaded.handshakes = c.handshakes /\ loaded.deleting = c.deleting
        /\ loaded.readiness = c.readiness /\ loaded.inFlight = c.inFlight
        /\ loaded.completed = c.completed /\ loaded.starting = ss
    BY <1>2, Facts DEF State, SameLink, SameRepair
  <2>3. HasBase(loaded) /\ loaded.identity /\ loaded.transport = c.transport
    BY Facts DEF HasBase
  <2> HIDE DEF loaded
  <2>4. CASE tag = "stale" \/ c.closed
    <3>1. Linked(loaded)
      BY <1>2, <2>2, <2>4, Facts DEF Linked, SameLink, Trying
    <3>2. Handled(loaded)
      BY <2>2, Facts DEF Handled, Repaired, SameRepair, SameLink
    <3>3. Rooted(loaded)
      BY <2>2, <2>3, Facts DEF Rooted, ss
    <3> QED BY <2>1, <2>4, <3>1, <3>2, <3>3 DEF Kept
  <2>5. CASE ~(tag = "stale" \/ c.closed)
    <3>1. Idle(loaded) /\ ~loaded.closed /\ loaded.readiness = "none"
      BY <1>3, <2>2, <2>5, Facts DEF Idle, NoneCurrent, Repaired, SameRepair, SameLink, Tags
    <3>2. Rooted(InstallTransport(loaded))
      BY <2>2, <2>3, <2>5 DEF HasBase, InstallTransport, OpenConnection, StopTransport,
         CloseSocket, Rooted, Tags, ss
    <3> QED BY <2>1, <2>5, <3>1, <3>2, InstallLemma DEF Kept
  <2> QED BY <2>4, <2>5
<1>5. ASSUME StartFails(tag) PROVE Kept(c')
  <2> DEFINE failed == [over EXCEPT !.state = "closed"]
  <2>1. c' = IF tag = "stale" \/ c.closed THEN over ELSE failed
    BY <1>5, Facts DEF StartFails, State
  <2> HIDE DEF ss
  <2>2. /\ over \in State /\ SameLink(over, c) /\ SameRepair(over, c)
        /\ over.handshakes = c.handshakes /\ over.deleting = c.deleting
        /\ over.readiness = c.readiness /\ over.inFlight = c.inFlight
        /\ over.completed = c.completed /\ over.starting = ss
        /\ over.relay = c.relay /\ over.identity = c.identity
    BY <1>2, Facts DEF State, SameLink, SameRepair
  <2> HIDE DEF over
  <2>3. CASE tag = "stale" \/ c.closed
    <3>1. Linked(over)
      BY <1>2, <2>2, <2>3, Facts DEF Linked, SameLink, Trying
    <3>2. Handled(over)
      BY <2>2, Facts DEF Handled, Repaired, SameRepair, SameLink
    <3>3. Rooted(over)
      BY <2>2, Facts DEF Rooted, SameLink, ss
    <3> QED BY <2>1, <2>3, <3>1, <3>2, <3>3 DEF Kept
  <2>4. CASE ~(tag = "stale" \/ c.closed)
    <3>1. /\ failed \in State /\ failed.state = "closed" /\ failed.closed = c.closed
          /\ failed.transport = c.transport /\ failed.socket = c.socket
          /\ failed.retry = c.retry /\ failed.timer = c.timer
          /\ failed.readiness = c.readiness
          /\ failed.handshakes = c.handshakes /\ failed.deleting = c.deleting
          /\ SameRepair(failed, c)
      BY <2>2 DEF State, SameLink, SameRepair
    <3> HIDE DEF failed
    <3>2. Linked(failed)
      BY <1>3, <2>4, <3>1, Facts DEF Linked, Trying, Tags
    <3>3. Idle(failed)
      BY <1>3, <2>4, <3>1, Facts DEF Idle, NoneCurrent, Repaired, SameRepair, Tags
    <3>4. ~failed.transport
      BY <1>3, <2>4, <3>1 DEF Tags
    <3> QED BY <2>1, <2>4, <3>2, <3>3, <3>4, IdleHandled DEF Kept, Rooted
  <2> QED BY <2>3, <2>4
<1> QED BY <1>4, <1>5

LEMMA SocketLemma ==
  ASSUME IInv, SocketOpens \/ SocketCloses \/ RetryTimer
  PROVE  Kept(c')
<1>1. CASE SocketOpens
  <2> DEFINE p == IF c.pairing THEN "pairing" ELSE "challenging"
             u == [c EXCEPT !.socket = "open", !.phase = "handshaking", !.timer = TRUE,
                            !.state = p]
  <2>1. c' = TransportOpen(u) /\ c.socket = "connecting"
    BY <1>1 DEF SocketOpens
  <2>2. p \in {"pairing", "challenging"}
    OBVIOUS
  <2>3. c.transport /\ ~c.closed /\ ~c.retry
    BY <2>1, Facts DEF Linked
  <2> HIDE DEF p
  <2>4. u \in State
    BY <2>2, Facts, SetState, SetPhase, SetSocket, SetTimer, Zenon
  <2>5. /\ u \in State /\ u.socket = "open" /\ u.state = p /\ u.transport = c.transport
        /\ u.closed = c.closed /\ u.retry = c.retry
        /\ u.deleting = c.deleting /\ SameRepair(u, c)
    BY <2>4, Facts DEF State, SameRepair
  <2>6. HasBase(u) /\ Rooted(u)
    BY Facts DEF HasBase, Rooted
  <2> HIDE DEF u
  <2>7. Repaired(u)
    BY <2>5, Facts DEF Repaired, SameRepair
  <2>8. Rooted(c')
    BY <2>1, <2>6, SameBaseLemma, RootedSame
  <2> QED BY <2>1, <2>2, <2>3, <2>5, <2>7, <2>8, TransportOpenLemma DEF Kept
<1>2. CASE SocketCloses
  <2>1. c' = ForceReconnect(c) /\ c.socket # "none"
    BY <1>2 DEF SocketCloses
  <2>2. c.transport /\ ~c.closed
    BY <2>1, Facts DEF Linked
  <2>3. Rooted(c')
    BY <2>1, Facts, SameBaseLemma, RootedSame
  <2> QED BY <2>1, <2>2, <2>3, Facts, ForceLemma DEF Kept
<1>3. CASE RetryTimer
  <2> DEFINE u == [c EXCEPT !.retry = FALSE]
  <2>1. c' = OpenConnection(u) /\ c.retry
    BY <1>3 DEF RetryTimer
  <2>2. /\ c.transport /\ ~c.closed /\ c.socket = "none" /\ ~c.timer /\ c.readiness = "none"
        /\ NoneCurrent(c)
    BY <2>1, Facts DEF Linked, Handled, NoneCurrent
  <2>3. u \in State
    BY Facts, SetRetry, Zenon
  <2>4. /\ u \in State /\ u.transport /\ ~u.closed /\ ~u.retry /\ ~u.timer
        /\ u.readiness = "none" /\ u.handshakes = c.handshakes
        /\ u.deleting = c.deleting /\ SameRepair(u, c)
    BY <2>2, <2>3, Facts DEF State, SameRepair
  <2>5. HasBase(u) /\ Rooted(u)
    BY Facts DEF HasBase, Rooted
  <2> HIDE DEF u
  <2>6. Idle(u)
    BY <2>2, <2>4, Facts DEF Idle, NoneCurrent, Repaired, SameRepair
  <2>7. Rooted(c')
    BY <2>1, <2>5, SameBaseLemma, RootedSame
  <2> QED BY <2>1, <2>4, <2>6, <2>7, OpenLemma DEF Kept
<1> QED BY <1>1, <1>2, <1>3

(* A change of the pairing flag and the deadline alone *)
LEMMA TimerLemma ==
  ASSUME IInv, NEW b \in BOOLEAN, b => c.timer, NEW p \in BOOLEAN
  PROVE  Kept([c EXCEPT !.timer = b, !.pairing = p])
<1> DEFINE u == [c EXCEPT !.timer = b, !.pairing = p]
<1>1. u \in State
  BY Facts, SetTimer, SetPairing, Zenon
<1>2. /\ u.timer = b /\ u.state = c.state /\ u.closed = c.closed
      /\ u.transport = c.transport /\ u.phase = c.phase /\ u.socket = c.socket
      /\ u.retry = c.retry /\ u.readiness = c.readiness /\ u.accepted = c.accepted
  BY Facts DEF State
<1>3. /\ u.starting = c.starting /\ u.relay = c.relay /\ u.identity = c.identity
      /\ u.handshakes = c.handshakes /\ u.inFlight = c.inFlight /\ u.completed = c.completed
      /\ u.deleting = c.deleting /\ SameRepair(u, c)
  BY Facts DEF State, SameRepair
<1> HIDE DEF u
<1>4. Linked(u)
  BY <1>2, <1>3, <1>1, Facts DEF Linked, Trying
<1>5. Handled(u)
  BY <1>2, <1>3, Facts DEF Handled, Repaired, SameRepair
<1>6. Rooted(u)
  BY <1>2, <1>3, Facts DEF Rooted
<1> QED BY <1>4, <1>5, <1>6 DEF Kept, u

LEMMA TimersLemma ==
  ASSUME IInv, HandshakeTimer \/ FirstFrame \/ ReadinessTimer
  PROVE  Kept(c')
<1>1. ASSUME c' = [c EXCEPT !.timer = FALSE] PROVE Kept(c')
  <2>1. c' = [c EXCEPT !.timer = FALSE, !.pairing = c.pairing]
    BY <1>1, Facts DEF State
  <2>2. c.pairing \in BOOLEAN
    BY Facts DEF State
  <2> QED BY <2>1, <2>2, TimerLemma
<1>2. CASE FirstFrame
  BY <1>1, <1>2 DEF FirstFrame
<1>3. CASE HandshakeTimer
  <2>1. CASE c.socket # "open" \/ c.phase = "ready"
    BY <1>1, <1>3, <2>1 DEF HandshakeTimer
  <2>2. CASE ~(c.socket # "open" \/ c.phase = "ready")
    <3>1. c' = ForceReconnect(c) /\ c.socket = "open"
      BY <1>3, <2>2 DEF HandshakeTimer
    <3>2. Rooted(c')
      BY <3>1, Facts, SameBaseLemma, RootedSame
    <3> QED BY <3>1, <3>2, Facts, ForceLemma DEF Kept
  <2> QED BY <2>1, <2>2
<1>4. CASE ReadinessTimer
  <2> DEFINE u == [c EXCEPT !.readiness = "none"]
  <2>1. c' = Recycle(u)
    <3>1. c.readiness = "current" /\ c.socket = "open" /\ ~c.closed /\ c.state # "ready"
      BY <1>4, Facts DEF ReadinessTimer, Linked
    <3> QED BY <1>4, <3>1 DEF ReadinessTimer, IsCurrent
  <2>2. /\ u \in State /\ u.transport = c.transport /\ u.closed = c.closed
        /\ u.deleting = c.deleting /\ SameRepair(u, c)
    BY Facts DEF State, SameRepair
  <2>3. HasBase(u) /\ Rooted(u)
    BY Facts DEF HasBase, Rooted
  <2> HIDE DEF u
  <2>4. Repaired(u)
    BY <2>2, Facts DEF Repaired, SameRepair
  <2>5. u.transport /\ ~u.closed
    BY <1>4, <2>2, Facts DEF ReadinessTimer, Linked
  <2>6. Rooted(c')
    BY <2>1, <2>3, SameBaseLemma, RootedSame
  <2> QED BY <2>1, <2>2, <2>4, <2>5, <2>6, RecycleLemma DEF Kept
<1> QED BY <1>2, <1>3, <1>4

LEMMA RestartLemma ==
  ASSUME IInv, c.socket = "open"
  PROVE  LET r == RestartBackend(c)
         IN Linked(r) /\ Repaired(r) /\ NoneCurrent(r) /\ r.readiness = "current"
<1> DEFINE v == RejectPending(c)
           u == NextSerial(v)
           y == [u EXCEPT !.inFlight = FALSE, !.completed = FALSE, !.readiness = "current",
                          !.accepted = FALSE]
           p == IF c.pairing THEN "pairing" ELSE "challenging"
           r == RestartBackend(c)
<1>1. /\ v \in State /\ SameLink(v, c) /\ SameRepair(v, c) /\ v.deleting = c.deleting
  BY Facts, RejectLemma
<1>2. Repaired(v)
  BY <1>1, Facts DEF Repaired, SameRepair
<1> HIDE DEF v
<1>3. /\ u \in State /\ SameLink(u, v) /\ NoneCurrent(u) /\ Repaired(u)
  BY <1>1, <1>2, SerialLemma
<1>4. r = [y EXCEPT !.state = p, !.phase = "handshaking", !.timer = TRUE]
  BY DEF RestartBackend, TransportOpen, v
<1> HIDE DEF u
<1>5. y \in State
  BY <1>3, SetReadiness, SetInFlight, SetCompleted, SetAccepted, Zenon
<1>6. /\ y \in State /\ y.readiness = "current" /\ SameRepair(y, u)
      /\ y.transport = u.transport /\ y.closed = u.closed /\ y.socket = u.socket
      /\ y.retry = u.retry /\ y.handshakes = u.handshakes /\ y.deleting = u.deleting
  BY <1>3, <1>5 DEF State, SameRepair
<1> HIDE DEF y, r
<1>7. p \in {"pairing", "challenging"}
  OBVIOUS
<1> HIDE DEF p
<1>8. r \in State
  BY <1>4, <1>6, <1>7, SetState, SetPhase, SetTimer, SetReadiness, SetInFlight, SetCompleted,
     SetAccepted, Zenon
<1>9. /\ r \in State /\ r.readiness = "current" /\ SameRepair(r, y) /\ r.state = p
      /\ r.transport = y.transport /\ r.closed = y.closed /\ r.socket = y.socket
      /\ r.retry = y.retry /\ r.handshakes = y.handshakes /\ r.deleting = y.deleting
  BY <1>4, <1>6, <1>8 DEF State, SameRepair
<1>10. Linked(r)
  BY <1>1, <1>3, <1>6, <1>7, <1>9, Facts DEF Linked, SameLink, Trying
<1>11. Repaired(r) /\ NoneCurrent(r)
  BY <1>3, <1>6, <1>9 DEF Repaired, NoneCurrent, SameRepair
<1> QED BY <1>9, <1>10, <1>11 DEF r

LEMMA MessageLemma ==
  ASSUME IInv, Challenge \/ \E approved \in BOOLEAN : PairingResolved(approved)
  PROVE  Kept(c')
<1>1. ASSUME Challenge PROVE Kept(c')
  <2>1. c.socket = "open" /\ ~c.inFlight
    BY <1>1 DEF Challenge
  <2>2. CASE c.completed /\ ~c.relay
    <3>1. c' = ReconnectClient(c)
      BY <1>1, <2>2 DEF Challenge
    <3>2. c.transport /\ (c.timer => c.socket = "open")
      BY <2>1, Facts
    <3> QED BY <3>1, <3>2, Facts, ReconnectLemma, ReconnectRooted DEF Kept
  <2>3. CASE c.completed /\ c.relay
    <3>1. c' = BeginHandshake(RestartBackend(c))
      BY <1>1, <2>3 DEF Challenge
    <3>2. Linked(c') /\ Handled(c')
      BY <2>1, <3>1, RestartLemma, BeginLemma
    <3> QED BY <3>1, <3>2, Facts, SameBaseLemma, RootedSame DEF Kept
  <2>4. CASE ~c.completed
    <3>1. c' = BeginHandshake(c)
      BY <1>1, <2>4 DEF Challenge
    <3>2. NoneCurrent(c) /\ c.readiness = "current"
      BY <2>1, <2>4, Facts DEF Handled, NoneCurrent, Linked
    <3> QED BY <3>1, <3>2, Facts, BeginLemma, SameBaseLemma, RootedSame DEF Kept
  <2>5. c.completed \in BOOLEAN /\ c.relay \in BOOLEAN
    BY Facts, RoutesAssumption DEF State
  <2> QED BY <2>2, <2>3, <2>4
<1>2. ASSUME NEW approved \in BOOLEAN, PairingResolved(approved) PROVE Kept(c')
  <2> DEFINE b == c.timer /\ c.relay
             u == [c EXCEPT !.timer = b, !.pairing = FALSE]
  <2>1. b \in BOOLEAN /\ (b => c.timer)
    BY Facts DEF State
  <2>2. c' = IF approved THEN ReconnectClient(u) ELSE u
    BY <1>2, Zenon DEF PairingResolved
  <2>3. Kept(u)
    BY <2>1, TimerLemma
  <2>4. HasBase(u)
    BY Facts DEF HasBase
  <2> HIDE DEF u
  <2>5. /\ u \in State /\ Repaired(u) /\ (~u.transport => u.socket = "none" /\ ~u.retry)
        /\ u.timer => u.socket = "open"
    BY <2>3 DEF Kept, Linked, Handled
  <2>6. Kept(ReconnectClient(u))
    BY <2>3, <2>4, <2>5, ReconnectLemma, ReconnectRooted DEF Kept
  <2> QED BY <2>2, <2>3, <2>6
<1> QED BY <1>1, <1>2

(* The deletion of the stored token *)
LEMMA DeletionLemma ==
  ASSUME IInv, NEW tag \in Tags, TokenDeleted(tag) \/ DeletionFails(tag)
  PROVE  Kept(c')
<1> DEFINE ds   == c.deleting \ {tag}
           gone == [c EXCEPT !.deleting = ds, !.stored = FALSE, !.repair = "cleared"]
           kept == [c EXCEPT !.deleting = ds, !.repair = "failed"]
<1>1. tag \in c.deleting /\ c.deleting \subseteq Tags /\ c.deleting # Tags
  BY Facts DEF TokenDeleted, DeletionFails, State, Repaired
<1>2. ds = {}
  BY <1>1 DEF Tags
<1>3. ASSUME NEW u, u = gone \/ u = kept
      PROVE  Linked(u) /\ Handled(u) /\ Rooted(u) /\ HasBase(u) /\ u.deleting = {}
             /\ u.closed = c.closed /\ u.transport = c.transport
  <2>1. u \in State
    <3>1. ds \in SUBSET Tags
      BY <1>1
    <3> HIDE DEF ds
    <3>2. gone \in State
      BY <3>1, Facts, SetStored, SetRepair, SetDeleting, Zenon
    <3>3. kept \in State
      BY <3>1, Facts, SetRepair, SetDeleting, Zenon
    <3> QED BY <1>3, <3>2, <3>3
  <2>2. /\ SameLink(u, c) /\ u.attempted = c.attempted /\ u.deletions = c.deletions
        /\ u.handshakes = c.handshakes /\ u.deleting = {}
    <3>1. ASSUME u = gone
          PROVE  /\ SameLink(u, c) /\ u.attempted = c.attempted /\ u.deletions = c.deletions
                 /\ u.handshakes = c.handshakes /\ u.deleting = {}
      BY <1>2, <3>1, Facts DEF State, SameLink
    <3>2. ASSUME u = kept
          PROVE  /\ SameLink(u, c) /\ u.attempted = c.attempted /\ u.deletions = c.deletions
                 /\ u.handshakes = c.handshakes /\ u.deleting = {}
      BY <1>2, <3>2, Facts DEF State, SameLink
    <3> QED BY <1>3, <3>1, <3>2
  <2>3. /\ u.readiness = c.readiness /\ u.starting = c.starting
        /\ u.completed = c.completed /\ u.inFlight = c.inFlight
    BY <1>2, <1>3, Facts DEF State
  <2>4. HasBase(u) /\ Rooted(u)
    BY <1>3, Facts DEF HasBase, Rooted
  <2> HIDE DEF gone, kept
  <2>5. Linked(u)
    BY <2>1, <2>2, <2>3, Facts DEF Linked, SameLink, Trying
  <2>6. Handled(u)
    BY <2>2, <2>3, Facts DEF Handled, Repaired, SameLink, Tags
  <2> QED BY <2>2, <2>4, <2>5, <2>6 DEF SameLink
<1>4. IsCurrent(c, tag) => c.transport /\ ~c.closed
  BY Facts DEF IsCurrent
<1>5. CASE TokenDeleted(tag)
  <2>1. c' = IF IsCurrent(c, tag) THEN Recycle(gone) ELSE gone
    BY <1>5 DEF TokenDeleted
  <2>2. /\ Linked(gone) /\ Handled(gone) /\ Rooted(gone) /\ HasBase(gone)
        /\ gone.closed = c.closed /\ gone.transport = c.transport
    BY <1>3
  <2> HIDE DEF gone
  <2>3. CASE IsCurrent(c, tag)
    <3>1. gone \in State /\ Repaired(gone)
      BY <2>2 DEF Linked, Handled
    <3> QED BY <1>4, <2>1, <2>2, <2>3, <3>1, RecycleLemma, SameBaseLemma, RootedSame DEF Kept
  <2>4. CASE ~IsCurrent(c, tag)
    BY <2>1, <2>2, <2>4 DEF Kept
  <2> QED BY <2>3, <2>4
<1>6. CASE DeletionFails(tag)
  <2>1. c' = IF IsCurrent(c, tag) THEN FailRepair(kept) ELSE kept
    BY <1>6 DEF DeletionFails
  <2>2. /\ Linked(kept) /\ Handled(kept) /\ Rooted(kept) /\ HasBase(kept) /\ kept.deleting = {}
    BY <1>3
  <2> HIDE DEF kept
  <2>3. CASE IsCurrent(c, tag)
    <3>1. kept \in State /\ Repaired(kept)
      BY <2>2 DEF Linked, Handled
    <3> QED BY <2>1, <2>2, <2>3, <3>1, FailRepairLemma, DisconnectRooted DEF Kept
  <2>4. CASE ~IsCurrent(c, tag)
    BY <2>1, <2>2, <2>4 DEF Kept
  <2> QED BY <2>3, <2>4
<1> QED BY <1>5, <1>6

(* The fields a step of a handshake notes before it goes on *)
LEMMA NotedLemma ==
  ASSUME IInv, NEW u,
         \/ u = c
         \/ u = [c EXCEPT !.repair = "none"] /\ c.repair # "pending"
         \/ u = [c EXCEPT !.disabled = TRUE]
         \/ u = [c EXCEPT !.accepted = TRUE]
         \/ u = [c EXCEPT !.stored = TRUE]
  PROVE  /\ Linked(u) /\ Handled(u) /\ Rooted(u) /\ HasBase(u)
         /\ u.handshakes = c.handshakes /\ u.deleting = c.deleting
         /\ u.closed = c.closed /\ u.socket = c.socket
         /\ c.accepted \/ u = [c EXCEPT !.accepted = TRUE] => u.accepted
<1>1. u \in State
  <2>1. CASE u = c
    BY <2>1, Facts
  <2>2. CASE u = [c EXCEPT !.repair = "none"]
    BY <2>2, Facts DEF State
  <2>3. CASE u = [c EXCEPT !.disabled = TRUE]
    BY <2>3, Facts, SetDisabled, Zenon
  <2>4. CASE u = [c EXCEPT !.accepted = TRUE]
    BY <2>4, Facts, SetAccepted, Zenon
  <2>5. CASE u = [c EXCEPT !.stored = TRUE]
    BY <2>5, Facts, SetStored, Zenon
  <2> QED BY <2>1, <2>2, <2>3, <2>4, <2>5
<1>2. /\ u.state = c.state /\ u.closed = c.closed /\ u.transport = c.transport
      /\ u.phase = c.phase /\ u.socket = c.socket /\ u.retry = c.retry /\ u.timer = c.timer
      /\ c.accepted \/ u = [c EXCEPT !.accepted = TRUE] => u.accepted
  BY Facts DEF State
<1>3. /\ u.attempted = c.attempted /\ u.deletions = c.deletions
      /\ u.repair = c.repair \/ c.repair # "pending"
      /\ u.handshakes = c.handshakes /\ u.deleting = c.deleting
      /\ u.readiness = c.readiness /\ u.starting = c.starting
      /\ u.completed = c.completed /\ u.inFlight = c.inFlight
  BY Facts DEF State
<1>4. HasBase(u) /\ Rooted(u)
  BY Facts DEF HasBase, Rooted
<1>5. Linked(u)
  BY <1>1, <1>2, <1>3, Facts DEF Linked, Trying
<1>6. Handled(u)
  BY <1>2, <1>3, Facts DEF Handled, Repaired
<1> QED BY <1>2, <1>3, <1>4, <1>5, <1>6

LEMMA StaleStepLemma ==
  ASSUME NEW t, Linked(t), Handled(t), Rooted(t), HasBase(t), NEW h \in t.handshakes
  PROVE  Kept(Over(t, h)) /\ HasBase(Over(t, h))
<1>1. Rooted(Over(t, h)) /\ HasBase(Over(t, h))
  BY DEF Over, HasBase, Rooted
<1> QED BY <1>1, OverLemma DEF Kept

LEMMA NextStepLemma ==
  ASSUME NEW t, Linked(t), Handled(t), Rooted(t), HasBase(t), NEW h \in t.handshakes,
         h.of = "current", t.deleting = {},
         NEW step \in {"token", "bootstrap", "connect", "persist"},
         NEW auth \in {"none", "device", "bootstrap", "setup", "other"},
         step = "persist" => t.accepted
  PROVE  Kept(Proceed(t, h, step, auth))
<1> DEFINE k == [step |-> step, of |-> "current", auth |-> auth]
<1>1. k \in Handshakes /\ k.of = "current" /\ k.step = step /\ k.auth = auth
  BY DEF Handshakes, Tags
<1>2. k.step = "persist" => t.accepted
  BY <1>1
<1> HIDE DEF k
<1>3. Linked(Proceed(t, h, step, auth)) /\ Handled(Proceed(t, h, step, auth))
  BY <1>1, <1>2, ProceedLemma
<1>4. Rooted(Proceed(t, h, step, auth))
  BY DEF Proceed, Over, HasBase, Rooted
<1> QED BY <1>3, <1>4 DEF Kept

LEMMA FailStepLemma ==
  ASSUME NEW t, Linked(t), Handled(t), Rooted(t), HasBase(t), NEW h \in t.handshakes,
         h.step # "repair", IsCurrent(t, h.of), NEW why \in Reasons
  PROVE  Kept(Fails(t, h, why))
BY FailsLemma, FailsRooted DEF Kept, IsCurrent

LEMMA SuccessStepLemma ==
  ASSUME NEW t, Linked(t), Handled(t), Rooted(t), HasBase(t), NEW h \in t.handshakes,
         h.step # "repair", IsCurrent(t, h.of), t.accepted, NEW issued \in BOOLEAN
  PROVE  Kept(Succeeds(t, h, issued))
BY SucceedsLemma, SucceedsRooted DEF Kept, IsCurrent

LEMMA HandshakeLemma ==
  ASSUME IInv, NEW h \in Handshakes, HandshakeStep(h)
  PROVE  Kept(c')
<1>1. h \in c.handshakes
  BY DEF HandshakeStep, RepairAwaited, TokenRead, BootstrapIssued, BootstrapDenied,
         ConnectAccepted, ConnectRefused, TokenPersisted, PersistFails, At
<1>2. /\ IsCurrent(c, h.of) => h.of = "current"
      /\ IsCurrent(c, h.of) /\ h.step # "repair" => c.deleting = {}
      /\ IsCurrent(c, h.of) /\ h.step = "persist" => c.accepted
  BY <1>1, Facts DEF IsCurrent, Handled
<1>3. Kept(Over(c, h))
  BY <1>1, Facts, StaleStepLemma
<1>4. "other" \in Reasons
  BY DEF Reasons
<1>5. CASE RepairAwaited(h)
  <2> DEFINE u == [c EXCEPT !.repair = "none"]
  <2>1. c.repair # "pending" /\ c.deleting = {}
    BY <1>5, Facts DEF RepairAwaited, Repaired
  <2>2. Linked(u) /\ Handled(u) /\ Rooted(u) /\ HasBase(u) /\ u.handshakes = c.handshakes
        /\ u.deleting = {}
    BY <2>1, NotedLemma
  <2> HIDE DEF u
  <2>3. CASE ~IsCurrent(c, h.of)
    BY <1>3, <1>5, <2>3 DEF RepairAwaited
  <2>4. CASE IsCurrent(c, h.of) /\ c.repair = "failed"
    <3>1. c' = FailRepair(Over(c, h))
      BY <1>5, <2>4 DEF RepairAwaited
    <3>2. /\ Over(c, h) \in State /\ Repaired(Over(c, h)) /\ Over(c, h).deleting = {}
          /\ HasBase(Over(c, h))
      BY <1>1, <2>1, Facts, OverLemma, StaleStepLemma DEF Handled
    <3> QED BY <3>1, <3>2, FailRepairLemma, DisconnectRooted DEF Kept
  <2>5. CASE IsCurrent(c, h.of) /\ c.repair # "failed"
    <3>1. c' = Proceed(u, h, "token", "none")
      BY <1>5, <2>5 DEF RepairAwaited, u
    <3> QED BY <1>1, <1>2, <2>2, <2>5, <3>1, NextStepLemma
  <2> QED BY <2>3, <2>4, <2>5
<1>6. ASSUME NEW found \in BOOLEAN, TokenRead(h, found) PROVE Kept(c')
  <2>1. h.step = "token"
    BY <1>6 DEF TokenRead, At
  <2>2. CASE ~IsCurrent(c, h.of)
    BY <1>3, <1>6, <2>2 DEF TokenRead
  <2>3. CASE IsCurrent(c, h.of)
    <3>1. ASSUME NEW step \in {"token", "bootstrap", "connect"},
                 NEW auth \in {"none", "device", "bootstrap", "setup", "other"}
          PROVE  Kept(Proceed(c, h, step, auth))
      BY <1>1, <1>2, <2>1, <2>3, Facts, NextStepLemma
    <3>2. \/ c' = Proceed(c, h, "connect", "device")
          \/ c' = Proceed(c, h, "bootstrap", "none")
          \/ \E auth \in {"bootstrap", "setup"} : c' = Proceed(c, h, "connect", auth)
          \/ c' = Proceed(c, h, "connect", "other")
      <4>1. c.relay \in BOOLEAN /\ c.bootstrap \in BOOLEAN /\ c.disabled \in BOOLEAN
        BY Facts, RoutesAssumption DEF State
      <4>2. CASE found
        BY <1>6, <2>3, <4>2 DEF TokenRead
      <4>3. CASE ~found /\ c.bootstrap /\ c.relay /\ ~c.disabled
        BY <1>6, <2>3, <4>3 DEF TokenRead
      <4>4. CASE ~found /\ c.bootstrap /\ ~c.relay
        BY <1>6, <2>3, <4>4 DEF TokenRead
      <4>5. CASE ~found /\ (~c.bootstrap \/ (c.relay /\ c.disabled))
        BY <1>6, <2>3, <4>5 DEF TokenRead
      <4> QED BY <4>1, <4>2, <4>3, <4>4, <4>5
    <3> QED BY <3>1, <3>2
  <2> QED BY <2>2, <2>3
<1>7. CASE BootstrapIssued(h)
  <2>1. h.step = "bootstrap" /\ IsCurrent(c, h.of)
    BY <1>7 DEF BootstrapIssued, At
  <2>2. PICK auth \in {"bootstrap", "setup"} : c' = Proceed(c, h, "connect", auth)
    BY <1>7 DEF BootstrapIssued
  <2> QED BY <1>1, <1>2, <2>1, <2>2, Facts, NextStepLemma
<1>8. CASE BootstrapDenied(h)
  <2> DEFINE u == [c EXCEPT !.disabled = TRUE]
  <2>1. h.step = "bootstrap" /\ IsCurrent(c, h.of)
    BY <1>8 DEF BootstrapDenied, At
  <2>2. c' = IF c.legacy THEN Proceed(u, h, "connect", "other") ELSE Fails(c, h, "other")
    BY <1>8 DEF BootstrapDenied
  <2>3. Linked(u) /\ Handled(u) /\ Rooted(u) /\ HasBase(u) /\ u.handshakes = c.handshakes
        /\ u.deleting = c.deleting
    BY NotedLemma
  <2> HIDE DEF u
  <2>4. Kept(Proceed(u, h, "connect", "other"))
    BY <1>1, <1>2, <2>1, <2>3, NextStepLemma
  <2>5. Kept(Fails(c, h, "other"))
    BY <1>1, <1>4, <2>1, Facts, FailStepLemma
  <2> QED BY <2>2, <2>4, <2>5
<1>9. ASSUME NEW issued \in BOOLEAN, ConnectAccepted(h, issued) PROVE Kept(c')
  <2> DEFINE u == [c EXCEPT !.accepted = TRUE]
  <2>1. h.step = "connect" /\ IsCurrent(c, h.of)
    BY <1>9 DEF ConnectAccepted, At
  <2>2. c' = IF issued THEN Proceed(u, h, "persist", h.auth) ELSE Succeeds(u, h, FALSE)
    BY <1>9 DEF ConnectAccepted
  <2>3. Linked(u) /\ Handled(u) /\ Rooted(u) /\ HasBase(u) /\ u.handshakes = c.handshakes
        /\ u.deleting = c.deleting /\ u.closed = c.closed /\ u.socket = c.socket /\ u.accepted
    BY NotedLemma
  <2> HIDE DEF u
  <2>4. h.auth \in {"none", "device", "bootstrap", "setup", "other"}
    BY DEF Handshakes
  <2>5. Kept(Proceed(u, h, "persist", h.auth))
    BY <1>1, <1>2, <2>1, <2>3, <2>4, NextStepLemma
  <2>6. Kept(Succeeds(u, h, FALSE))
    BY <1>1, <2>1, <2>3, SuccessStepLemma DEF IsCurrent
  <2> QED BY <2>2, <2>5, <2>6
<1>10. ASSUME NEW why \in Reasons, ConnectRefused(h, why) PROVE Kept(c')
  BY <1>1, <1>10, Facts, FailStepLemma DEF ConnectRefused, At
<1>11. CASE TokenPersisted(h)
  <2> DEFINE u == [c EXCEPT !.stored = TRUE]
  <2>1. h.step = "persist"
    BY <1>11 DEF TokenPersisted, At
  <2>2. c' = IF IsCurrent(c, h.of) THEN Succeeds(u, h, TRUE) ELSE Over(u, h)
    BY <1>11 DEF TokenPersisted
  <2>3. Linked(u) /\ Handled(u) /\ Rooted(u) /\ HasBase(u) /\ u.handshakes = c.handshakes
        /\ u.closed = c.closed /\ u.socket = c.socket /\ (c.accepted => u.accepted)
    BY NotedLemma
  <2> HIDE DEF u
  <2>4. IsCurrent(c, h.of) => Kept(Succeeds(u, h, TRUE))
    BY <1>1, <1>2, <2>1, <2>3, SuccessStepLemma DEF IsCurrent
  <2>5. Kept(Over(u, h))
    BY <1>1, <2>3, StaleStepLemma
  <2> QED BY <2>2, <2>4, <2>5
<1>12. CASE PersistFails(h)
  <2>1. h.step = "persist"
    BY <1>12 DEF PersistFails, At
  <2>2. IsCurrent(c, h.of) => Kept(Fails(c, h, "other"))
    BY <1>1, <1>4, <2>1, Facts, FailStepLemma
  <2> QED BY <1>3, <1>12, <2>2 DEF PersistFails
<1> QED BY <1>5, <1>6, <1>7, <1>8, <1>9, <1>10, <1>11, <1>12 DEF HandshakeStep
-----------------------------------------------------------------------------
LEMMA NextLemma == IInv /\ [Next]_vars => IInv'
<1> SUFFICES ASSUME IInv, [Next]_vars PROVE IInv'
  OBVIOUS
<1>1. CASE UNCHANGED vars
  BY <1>1 DEF vars, IInv
<1>2. ASSUME Next PROVE Kept(c')
  BY <1>2, OperationsLemma, StartsLemma, DeletionLemma, SocketLemma, TimersLemma,
     MessageLemma, HandshakeLemma DEF Next
<1> QED BY <1>1, <1>2 DEF IInv, Kept

(* The inductive invariant holds in every reachable state. *)
THEOREM Invariance == Spec => []IInv
BY InitLemma, NextLemma, PTL DEF Spec

(* Every field stays in its range, and a deadline of the handshake belongs *)
(* to an open socket.                                                      *)
THEOREM TypeCorrect == Spec => []TypeOK
<1>1. IInv => TypeOK
  BY DEF IInv, Linked, TypeOK
<1> QED BY <1>1, Invariance, PTL

(* The client is ready only over a socket on which a connect request of    *)
(* its own was accepted, whatever an earlier socket still answers.         *)
THEOREM ReadyMeansAuthenticated == Spec => []ReadyIsAuthenticated
<1>1. IInv => ReadyIsAuthenticated
  BY DEF IInv, Linked, ReadyIsAuthenticated
<1> QED BY <1>1, Invariance, PTL

(* Nothing that disconnect() left awaited opens a socket again. *)
THEOREM DisconnectStays == Spec => []DisconnectIsFinal
<1>1. IInv => DisconnectIsFinal
  BY DEF IInv, Linked, DisconnectIsFinal
<1> QED BY <1>1, Invariance, PTL

(* A client that tries to connect always has something under way that ends.*)
THEOREM TriesAreWatched == Spec => []TryingIsWatched
<1>1. IInv => TryingIsWatched
  <2> SUFFICES ASSUME IInv, Trying(c)
               PROVE  \/ "current" \in c.starting \/ c.retry \/ c.socket = "connecting"
                      \/ c.socket = "open" /\ c.readiness = "current"
    BY DEF TryingIsWatched
  <2> QED BY DEF IInv, Linked, State, Trying
<1> QED BY <1>1, Invariance, PTL

(* At most one handshake acts on the socket. *)
THEOREM HandshakesDoNotOverlap == Spec => []OneHandshake
<1>1. IInv => OneHandshake
  BY DEF IInv, Handled, OneHandshake
<1> QED BY <1>1, Invariance, PTL

(* No handshake that is acted on passes the repair of the stored token. *)
THEOREM RepairsAreAwaited == Spec => []RepairIsAwaited
<1>1. IInv => RepairIsAwaited
  BY DEF IInv, Handled, RepairIsAwaited
<1> QED BY <1>1, Invariance, PTL

(* A connection deletes the stored token at most once before it succeeds. *)
THEOREM RepairsAreBounded == Spec => []RepairIsBounded
<1>1. IInv => RepairIsBounded
  BY DEF IInv, Handled, Repaired, RepairIsBounded
<1> QED BY <1>1, Invariance, PTL
=============================================================================
