--------------------------- MODULE RoomHeartbeat ---------------------------
(***************************************************************************)
(* The clock of a room: the one alarm that ticks its clients, expires      *)
(* those that do not answer, and lets the watchdog ping the bridge.  The   *)
(* deadline of the alarm is stored; what the watchdog knows is memory.     *)
(* Every time is kept as an age or a distance from now: `alarm' is what is *)
(* left until the deadline, `pending' the age of the outstanding ping.     *)
(*                                                                         *)
(* Clients here have claimed client-pong and finished their handshake      *)
(* (others are never expired for silence), and no socket is restricted to  *)
(* pairing.  The allowance for large transfers only raises the timeouts.   *)
(***************************************************************************)
EXTENDS Integers, FiniteSets

CONSTANTS
  ClientIds,          \* identities full clients connect with
  NoAge,              \* no alarm, or no ping
  Interval,           \* HEARTBEAT_INTERVAL_MS
  ClientPongTimeout,  \* CLIENT_PONG_TIMEOUT_MS, as configured
  PingTimeout,        \* GATEWAY_PING_TIMEOUT_MS
  Watchdog,           \* policy.watchdog is not 'none' (Hermes)
  MayForget,          \* the room may hibernate
  Lateness,           \* an alarm is delivered this late at most
  MaxReply,           \* a client answers a tick within this time, or never
  MaxOwnerReply,      \* a bridge answers a ping within this time, or never
  MaxPostponed,       \* bound: events that meet one overdue alarm
  MaxAge              \* bound: ages of the watchdog that are told apart

ASSUME TimesAssumption ==
  /\ {Interval, ClientPongTimeout, PingTimeout} \subseteq Nat \ {0}
  /\ {Lateness, MaxReply, MaxOwnerReply, MaxPostponed} \subseteq Nat
  /\ MaxAge \in Nat /\ MaxAge >= PingTimeout
ASSUME SwitchesAssumption == {Watchdog, MayForget} \subseteq BOOLEAN
ASSUME NoAgeAssumption    == NoAge \notin Int

VARIABLES
  alarm,       \* stored: time left until the deadline, if one is set
  postponed,   \* how often the alarm was moved after its deadline
  client,      \* the routed socket of each client, or why there is none
  answering,   \* the clients that answer ticks
  sincePong,   \* age of lastPongAt in each attachment
  ticks,       \* ages of the unanswered ticks of answering clients
  owner,       \* the installed bridge: "never", "open", "closing", "gone",
               \* or "stale", closed by the watchdog
  bridge,      \* it "answers" pings, "ignores" them, or is "dead"
  pings,       \* ages of the pings an answering bridge has not answered
  pending,     \* memory: age of pendingGatewayPingAt
  capability,  \* memory: gatewayPingCapability
  sinceOwner   \* memory: age of gatewayLastActivityAt

clientVars == <<client, answering, sincePong, ticks>>
ownerVars  == <<owner, bridge, pings>>
memory     == <<pending, capability, sinceOwner>>
vars == <<alarm, postponed, clientVars, ownerVars, memory>>
-----------------------------------------------------------------------------
Least(a, b)    == IF a <= b THEN a ELSE b
Greatest(a, b) == IF a >= b THEN a ELSE b

PongTimeoutAsConfigured == ClientPongTimeout
PongTimeout == Greatest(ClientPongTimeout, 3 * Interval)

Open   == {c \in ClientIds : client[c] = "open"}
Mapped == {c \in ClientIds : client[c] \in {"open", "closing"}}

(* The ages the watchdog compares: activity is as recent as the ping, or   *)
(* the ping has timed out.                                                 *)
Heard    == sinceOwner <= pending
TimedOut == pending >= PingTimeout

(* Where ensureHeartbeat wants the deadline, with a ping of age p.         *)
Deadline(p) ==
  IF Watchdog /\ p # NoAge THEN Least(Interval, Greatest(0, PingTimeout - p))
  ELSE Interval

(* It keeps a deadline that is still ahead and no later.                   *)
NeverKept(p) == FALSE
Kept(p) == alarm # NoAge /\ alarm > 0 /\ alarm <= Deadline(p)

Overdue == alarm # NoAge /\ alarm <= 0

(* ensureHeartbeat, for the clients open and the ping of age p it finds.   *)
EnsureHeartbeat(open, p, reset) ==
  LET moved == reset \/ ~Kept(p) IN
  /\ alarm' = IF open = {} THEN NoAge ELSE IF moved THEN Deadline(p) ELSE alarm
  /\ IF open # {} /\ moved /\ Overdue
     THEN postponed < MaxPostponed /\ postponed' = postponed + 1
     ELSE UNCHANGED postponed

(* A socket that is no longer open has no unanswered ticks.                *)
WithClients(gone, reason) ==
  /\ client' = [c \in ClientIds |-> IF c \in gone THEN reason ELSE client[c]]
  /\ ticks'  = [c \in ClientIds |-> IF c \in gone THEN {} ELSE ticks[c]]

ForgetPing == pending' = NoAge /\ capability' = "unknown"
-----------------------------------------------------------------------------
Init ==
  /\ alarm = NoAge /\ postponed = 0
  /\ client    = [c \in ClientIds |-> "none"]
  /\ answering = {}
  /\ sincePong = [c \in ClientIds |-> 0]
  /\ ticks     = [c \in ClientIds |-> {}]
  /\ owner = "never" /\ bridge = "dead" /\ pings = {}
  /\ pending = NoAge /\ capability = "unknown" /\ sinceOwner = MaxAge + 1

(* Time passes, unless the platform owes an alarm or a peer an answer.     *)
Pass ==
  /\ alarm # NoAge => alarm > -Lateness
  /\ \A c \in ClientIds : MaxReply \notin ticks[c]
  /\ MaxOwnerReply \notin pings
  /\ alarm' = IF alarm = NoAge THEN NoAge ELSE alarm - 1
  /\ sincePong' = [c \in ClientIds |->
       IF client[c] = "open" THEN Least(sincePong[c] + 1, PongTimeout + 1) ELSE 0]
  /\ ticks' = [c \in ClientIds |-> {a + 1 : a \in ticks[c]}]
  /\ pings' = {a + 1 : a \in pings}
  /\ pending' = IF pending = NoAge THEN NoAge ELSE Least(pending + 1, MaxAge)
  /\ sinceOwner' = IF pending = MaxAge /\ Heard THEN sinceOwner
                   ELSE Least(sinceOwner + 1, MaxAge + 1)
  /\ UNCHANGED <<postponed, client, answering, owner, bridge, capability>>
-----------------------------------------------------------------------------
(* Clients. *)
ClientJoins(c) ==
  /\ client'    = [client EXCEPT ![c] = "open"]
  /\ answering' = answering \union {c}
  /\ sincePong' = [sincePong EXCEPT ![c] = 0]
  /\ ticks'     = [ticks EXCEPT ![c] = {}]
  /\ EnsureHeartbeat(Open \union {c}, pending, FALSE)
  /\ UNCHANGED <<ownerVars, memory>>

(* The client is lost without a trace: its socket stays open.              *)
ClientGoesSilent(c) ==
  /\ client[c] = "open" /\ c \in answering
  /\ answering' = answering \ {c}
  /\ ticks' = [ticks EXCEPT ![c] = {}]
  /\ UNCHANGED <<alarm, postponed, client, sincePong, ownerVars, memory>>

ClientDrops(c) ==
  /\ client[c] = "open"
  /\ WithClients({c}, "closing")
  /\ UNCHANGED <<alarm, postponed, answering, sincePong, ownerVars, memory>>

ClientClosed(c) ==
  /\ client[c] = "closing"
  /\ WithClients({c}, "none")
  /\ EnsureHeartbeat(Open, pending, FALSE)
  /\ UNCHANGED <<answering, sincePong, ownerVars, memory>>

(* acknowledgeClientPong. *)
ClientPong(c) ==
  /\ \E a \in ticks[c] : ticks' = [ticks EXCEPT ![c] = @ \ {a}]
  /\ sincePong' = [sincePong EXCEPT ![c] = 0]
  /\ UNCHANGED <<alarm, postponed, client, answering, ownerVars, memory>>

(* The close callback of a socket the room has already forgotten.          *)
UnroutedClosed ==
  /\ EnsureHeartbeat(Open, pending, FALSE)
  /\ UNCHANGED <<clientVars, ownerVars, memory>>
-----------------------------------------------------------------------------
(* The bridge. *)
(* The watchdog's memory, in replaceGateway. *)
OwnerSwapped   == pending' = NoAge /\ UNCHANGED capability
OwnerInstalled == ForgetPing

(* An owner is accepted; the clients of an earlier one are retired.        *)
OwnerJoins(kind) ==
  LET retired == IF owner = "never" THEN {} ELSE Mapped IN
  /\ owner' = "open" /\ bridge' = kind /\ pings' = {}
  /\ OwnerInstalled /\ sinceOwner' = 0
  /\ WithClients(retired, "none")
  /\ EnsureHeartbeat(Open \ retired, pending', FALSE)
  /\ UNCHANGED <<answering, sincePong>>

OwnerGoesSilent ==
  /\ owner = "open" /\ bridge # "dead"
  /\ bridge' = "dead" /\ pings' = {}
  /\ UNCHANGED <<alarm, postponed, clientVars, owner, memory>>

OwnerDrops ==
  /\ owner = "open"
  /\ owner' = "closing" /\ bridge' = "dead" /\ pings' = {}
  /\ UNCHANGED <<alarm, postponed, clientVars, memory>>

OwnerClosed ==
  /\ owner \in {"closing", "stale"}
  /\ owner' = "gone"
  /\ ForgetPing
  /\ WithClients(Mapped, "none")
  /\ EnsureHeartbeat({}, NoAge, FALSE)
  /\ UNCHANGED <<answering, sincePong, bridge, pings, sinceOwner>>

(* Any frame of the owner but the pong, answers to contention probes       *)
(* within their deadline included.                                         *)
OwnerFrame ==
  /\ owner = "open" /\ bridge # "dead"
  /\ sinceOwner' = 0
  /\ UNCHANGED <<alarm, postponed, clientVars, ownerVars, pending, capability>>

OwnerPong ==
  /\ owner = "open"
  /\ \E a \in pings : pings' = pings \ {a}
  /\ sinceOwner' = 0 /\ pending' = NoAge /\ capability' = "supported"
  /\ EnsureHeartbeat(Open, NoAge, TRUE)
  /\ UNCHANGED <<clientVars, owner, bridge>>
-----------------------------------------------------------------------------
(* reconcileGatewayLiveness, with the clients that are still open.         *)
NotYetProven    == capability # "supported"

WatchdogIdle(open) ==
  /\ ~Watchdog \/ owner # "open" \/ open = {} \/ capability = "unsupported"
  /\ IF Watchdog THEN pending' = NoAge ELSE UNCHANGED pending
  /\ capability' = IF Watchdog /\ owner # "open" THEN "unknown" ELSE capability
  /\ UNCHANGED <<owner, bridge, pings>>

WatchdogAsksAgain ==
  /\ pending # NoAge /\ (Heard \/ ~TimedOut)
  /\ pending' = 0
  /\ UNCHANGED <<owner, bridge, pings, capability>>

WatchdogWaits ==
  /\ pending # NoAge /\ (Heard \/ ~TimedOut)
  /\ pending' = IF Heard THEN NoAge ELSE pending
  /\ UNCHANGED <<owner, bridge, pings, capability>>

WatchdogGivesUp ==
  /\ pending # NoAge /\ ~Heard /\ TimedOut
  /\ pending' = NoAge
  /\ IF NotYetProven
     THEN capability' = "unsupported" /\ UNCHANGED <<owner, bridge, pings>>
     ELSE /\ owner' = "stale" /\ bridge' = "dead" /\ pings' = {}
          /\ UNCHANGED capability

WatchdogPings ==
  /\ pending = NoAge
  /\ pending' = 0
  /\ pings' = IF bridge = "answers" THEN pings \union {0} ELSE pings
  /\ UNCHANGED <<owner, bridge, capability>>

ReconcileGatewayLiveness(open) ==
  \/ WatchdogIdle(open)
  \/ /\ Watchdog /\ owner = "open" /\ open # {} /\ capability # "unsupported"
     /\ WatchdogWaits \/ WatchdogGivesUp \/ WatchdogPings

(* alarm().  The clients that have expired are closed and forgotten, with  *)
(* those that were closing; the others get a tick.                         *)
Expired == {c \in Open : sincePong[c] > PongTimeout}

Alarm ==
  LET staying == Open \ Expired IN
  /\ Overdue
  /\ client' = [c \in ClientIds |->
       IF c \in Expired THEN "expired"
       ELSE IF client[c] = "closing" THEN "none" ELSE client[c]]
  /\ ticks' = [c \in ClientIds |->
       IF c \notin staying THEN {}
       ELSE IF c \in answering THEN ticks[c] \union {0} ELSE ticks[c]]
  /\ ReconcileGatewayLiveness(staying)
  /\ alarm' = IF staying = {} THEN NoAge ELSE Deadline(pending')
  /\ postponed' = 0
  /\ UNCHANGED <<answering, sincePong, sinceOwner>>
-----------------------------------------------------------------------------
(* reconcileSockets leaves out what is no longer open.                     *)
Reconciled ==
  /\ WithClients(Mapped \ Open, "none")
  /\ owner' = IF owner \in {"closing", "stale"} THEN "gone" ELSE owner
  /\ UNCHANGED <<answering, sincePong, bridge, pings>>

(* A status query reconciles the sockets; the watchdog keeps its memory.   *)
ReadStatus ==
  /\ Reconciled
  /\ sinceOwner' = IF owner = "open" THEN sinceOwner ELSE MaxAge + 1
  /\ UNCHANGED <<alarm, postponed, pending, capability>>

(* An event wakes a room that was put to sleep: of the owner's activity it *)
(* knows when it connected, which may be any time before.                  *)
Rebuild ==
  /\ MayForget
  /\ Reconciled
  /\ ForgetPing
  /\ \E age \in {sinceOwner, MaxAge + 1} : sinceOwner' = age
  /\ EnsureHeartbeat(Open, NoAge, FALSE)

Next ==
  \/ Pass \/ Alarm \/ UnroutedClosed \/ ReadStatus \/ Rebuild
  \/ \E c \in ClientIds : \/ ClientJoins(c) \/ ClientGoesSilent(c)
                          \/ ClientDrops(c) \/ ClientClosed(c) \/ ClientPong(c)
  \/ \E kind \in {"answers", "ignores"} : OwnerJoins(kind)
  \/ OwnerGoesSilent \/ OwnerDrops \/ OwnerClosed \/ OwnerFrame \/ OwnerPong

Spec == Init /\ [][Next]_vars

(* Time passes, the platform delivers due alarms, and peers that answer do *)
(* so.  Nobody has to connect, to leave or to send anything else.          *)
Fairness ==
  /\ WF_vars(Pass) /\ WF_vars(Alarm) /\ WF_vars(OwnerPong)
  /\ \A c \in ClientIds : WF_vars(ClientPong(c))

FairSpec == Spec /\ Fairness
-----------------------------------------------------------------------------
(* The alarm is never further away than an interval, the watchdog's ping   *)
(* is no older than the bound tells apart, and unanswered ticks and pings  *)
(* are owed by peers that answer.                                          *)
TypeOK ==
  /\ alarm \in (-Lateness .. Interval) \union {NoAge}
  /\ postponed \in 0 .. MaxPostponed
  /\ client \in [ClientIds -> {"none", "open", "closing", "expired"}]
  /\ answering \subseteq ClientIds
  /\ sincePong \in [ClientIds -> 0 .. PongTimeout + 1]
  /\ ticks \in [ClientIds -> SUBSET (0 .. MaxReply)]
  /\ owner \in {"never", "open", "closing", "gone", "stale"}
  /\ bridge \in {"answers", "ignores", "dead"}
  /\ pings \subseteq 0 .. MaxOwnerReply
  /\ pending \in (0 .. MaxAge) \union {NoAge}
  /\ capability \in {"unknown", "supported", "unsupported"}
  /\ sinceOwner \in 0 .. MaxAge + 1

(* pruneStaleHandshakeClients never expires a client that answers its      *)
(* ticks: ticks reach it often enough, however joins, closes, pongs and    *)
(* rebuilt rooms move the alarm (heartbeat.ts:40, runtime.ts:49).          *)
AnsweringClientsStay ==
  [][\A c \in ClientIds :
       client[c] = "open" /\ c \in answering => client'[c] # "expired"]_vars

(* The watchdog closes neither a bridge that answers its pings nor one     *)
(* that has never learned to, whichever bridge was installed before and    *)
(* whatever the room has forgotten.                                        *)
OnlyDeadBridgesAreClosed ==
  [][owner = "open" /\ bridge # "dead" => owner' # "stale"]_vars

(* A client that has gone silent is dropped in the end: no traffic of the  *)
(* others keeps putting the alarm off.                                     *)
SilentClientsGo ==
  \A c \in ClientIds :
    client[c] = "open" /\ c \notin answering
      ~> client[c] # "open" \/ c \in answering

(* A bridge that has died, is known to answer pings, and has clients.      *)
DeadBridge == owner = "open" /\ bridge = "dead" /\ capability = "supported" /\ Open # {}
Settled    == owner # "open" \/ bridge # "dead" \/ Open = {}

(* Such a bridge is closed, by the watchdog if nobody else does, or the    *)
(* room has slept and forgotten about it.                                  *)
DeadBridgesGoUnlessForgotten == DeadBridge ~> Settled \/ capability = "unknown"

(* Such a bridge is closed, also in a room that sleeps: "closes a gateway  *)
(* after ping timeout only once gateway_pong support was proven".          *)
DeadBridgesGo == DeadBridge ~> Settled
=============================================================================
