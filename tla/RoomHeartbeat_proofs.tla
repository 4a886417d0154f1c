------------------------ MODULE RoomHeartbeat_proofs ------------------------
(***************************************************************************)
(* What RoomHeartbeat promises for every interval, timeout and number of   *)
(* clients.  Its safety rests on arithmetic about deadlines: SomeAlarm and *)
(* InTime bound when the next tick leaves, BridgeKnown what the watchdog   *)
(* may have learned.                                                       *)
(***************************************************************************)
EXTENDS RoomHeartbeat, TLAPS

LEMMA DeadlineType ==
  ASSUME NEW p \in (0 .. MaxAge) \union {NoAge}
  PROVE  Deadline(p) \in 0 .. Interval
BY TimesAssumption, NoAgeAssumption DEF Deadline, Least, Greatest

LEMMA TimeoutType == PongTimeout \in Nat
BY TimesAssumption DEF PongTimeout, Greatest

(* What ensureHeartbeat leaves is well-formed. *)
LEMMA EnsureType ==
  ASSUME TypeOK, NEW open, NEW p \in (0 .. MaxAge) \union {NoAge},
         NEW reset \in BOOLEAN, EnsureHeartbeat(open, p, reset)
  PROVE  /\ alarm' \in (-Lateness .. Interval) \union {NoAge}
         /\ postponed' \in 0 .. MaxPostponed
BY DeadlineType, TimesAssumption DEF TypeOK, EnsureHeartbeat

LEMMA InitType == Init => TypeOK
BY TimesAssumption, TimeoutType DEF Init, TypeOK

LEMMA PassType == ASSUME TypeOK, Pass PROVE TypeOK'
<1>1. alarm' \in (-Lateness .. Interval) \union {NoAge}
  BY TimesAssumption, NoAgeAssumption DEF TypeOK, Pass
<1>2. sincePong' \in [ClientIds -> 0 .. PongTimeout + 1]
  BY TimeoutType DEF TypeOK, Pass, Least
<1>3. ticks' \in [ClientIds -> SUBSET (0 .. MaxReply)]
  <2>1. ASSUME NEW c \in ClientIds, NEW a \in ticks[c]
        PROVE  a + 1 \in 0 .. MaxReply
    BY <2>1, TimesAssumption DEF TypeOK, Pass
  <2> QED BY <2>1 DEF Pass
<1>4. pings' \subseteq 0 .. MaxOwnerReply
  <2>1. ASSUME NEW a \in pings
        PROVE  a + 1 \in 0 .. MaxOwnerReply
    BY <2>1, TimesAssumption DEF TypeOK, Pass
  <2> QED BY <2>1 DEF Pass
<1>5. pending' \in (0 .. MaxAge) \union {NoAge}
  BY TimesAssumption, NoAgeAssumption DEF TypeOK, Pass, Least
<1>6. sinceOwner' \in 0 .. MaxAge + 1
  BY TimesAssumption DEF TypeOK, Pass, Least
<1> QED BY <1>1, <1>2, <1>3, <1>4, <1>5, <1>6 DEF TypeOK, Pass

LEMMA AlarmType == ASSUME TypeOK, Alarm PROVE TypeOK'
<1> DEFINE staying == Open \ Expired
<1>1. /\ pending' \in (0 .. MaxAge) \union {NoAge}
      /\ capability' \in {"unknown", "supported", "unsupported"}
      /\ owner' \in {"never", "open", "closing", "gone", "stale"}
      /\ bridge' \in {"answers", "ignores", "dead"}
      /\ pings' \subseteq 0 .. MaxOwnerReply
  <2>1. ReconcileGatewayLiveness(staying)
    BY DEF Alarm
  <2>2. CASE WatchdogIdle(staying)
    BY <2>2 DEF WatchdogIdle, TypeOK
  <2>3. CASE WatchdogWaits
    BY <2>3 DEF WatchdogWaits, TypeOK
  <2>4. CASE WatchdogGivesUp
    BY <2>4 DEF WatchdogGivesUp, TypeOK
  <2>5. CASE WatchdogPings
    BY <2>5, TimesAssumption DEF WatchdogPings, TypeOK
  <2> QED BY <2>1, <2>2, <2>3, <2>4, <2>5 DEF ReconcileGatewayLiveness
<1>2. alarm' \in (-Lateness .. Interval) \union {NoAge} /\ postponed' \in 0 .. MaxPostponed
  BY <1>1, DeadlineType, TimesAssumption DEF Alarm
<1>3. client' \in [ClientIds -> {"none", "open", "closing", "expired"}]
  BY DEF Alarm, TypeOK
<1>4. ticks' \in [ClientIds -> SUBSET (0 .. MaxReply)]
  BY TimesAssumption DEF Alarm, TypeOK
<1> QED BY <1>1, <1>2, <1>3, <1>4 DEF Alarm, TypeOK

LEMMA WithClientsType ==
  ASSUME TypeOK, NEW gone, NEW reason \in {"none", "closing"}, WithClients(gone, reason)
  PROVE  /\ client' \in [ClientIds -> {"none", "open", "closing", "expired"}]
         /\ ticks' \in [ClientIds -> SUBSET (0 .. MaxReply)]
BY DEF TypeOK, WithClients

LEMMA ClientStepType ==
  ASSUME TypeOK, NEW c \in ClientIds,
         ClientJoins(c) \/ ClientGoesSilent(c) \/ ClientDrops(c) \/ ClientClosed(c) \/ ClientPong(c)
  PROVE  TypeOK'
<1>1. CASE ClientJoins(c)
  <2>1. alarm' \in (-Lateness .. Interval) \union {NoAge} /\ postponed' \in 0 .. MaxPostponed
    BY <1>1, EnsureType DEF ClientJoins, TypeOK
  <2> QED BY <1>1, <2>1, TimeoutType DEF ClientJoins, ownerVars, memory, TypeOK
<1>2. CASE ClientGoesSilent(c)
  BY <1>2 DEF ClientGoesSilent, ownerVars, memory, TypeOK
<1>3. CASE ClientDrops(c)
  BY <1>3, WithClientsType DEF ClientDrops, ownerVars, memory, TypeOK
<1>4. CASE ClientClosed(c)
  <2>1. alarm' \in (-Lateness .. Interval) \union {NoAge} /\ postponed' \in 0 .. MaxPostponed
    BY <1>4, EnsureType DEF ClientClosed, TypeOK
  <2> QED BY <1>4, <2>1, WithClientsType DEF ClientClosed, ownerVars, memory, TypeOK
<1>5. CASE ClientPong(c)
  BY <1>5, TimeoutType DEF ClientPong, ownerVars, memory, TypeOK
<1> QED BY <1>1, <1>2, <1>3, <1>4, <1>5

LEMMA RoomStepType ==
  ASSUME TypeOK, UnroutedClosed \/ ReadStatus \/ Rebuild
  PROVE  TypeOK'
<1>1. CASE UnroutedClosed
  <2>1. alarm' \in (-Lateness .. Interval) \union {NoAge} /\ postponed' \in 0 .. MaxPostponed
    BY <1>1, EnsureType DEF UnroutedClosed, TypeOK
  <2> QED BY <1>1, <2>1 DEF UnroutedClosed, clientVars, ownerVars, memory, TypeOK
<1>2. CASE ReadStatus
  BY <1>2, WithClientsType, TimesAssumption DEF ReadStatus, Reconciled, TypeOK
<1>3. CASE Rebuild
  <2>1. alarm' \in (-Lateness .. Interval) \union {NoAge} /\ postponed' \in 0 .. MaxPostponed
    BY <1>3, EnsureType DEF Rebuild
  <2> QED BY <1>3, <2>1, WithClientsType, TimesAssumption DEF Rebuild, Reconciled, ForgetPing,
             TypeOK
<1> QED BY <1>1, <1>2, <1>3

LEMMA OwnerStepType ==
  ASSUME TypeOK,
         \/ \E kind \in {"answers", "ignores"} : OwnerJoins(kind)
         \/ OwnerGoesSilent \/ OwnerDrops \/ OwnerClosed \/ OwnerFrame \/ OwnerPong
  PROVE  TypeOK'
<1>1. ASSUME NEW kind \in {"answers", "ignores"}, OwnerJoins(kind)
      PROVE  TypeOK'
  <2>1. alarm' \in (-Lateness .. Interval) \union {NoAge} /\ postponed' \in 0 .. MaxPostponed
    <3>1. pending' = NoAge
      BY <1>1 DEF OwnerJoins, OwnerInstalled, ForgetPing
    <3> QED BY <1>1, <3>1, EnsureType DEF OwnerJoins
  <2> QED BY <1>1, <2>1, WithClientsType, TimesAssumption DEF OwnerJoins, OwnerInstalled,
             ForgetPing, TypeOK
<1>2. CASE OwnerGoesSilent
  BY <1>2 DEF OwnerGoesSilent, clientVars, memory, TypeOK
<1>3. CASE OwnerDrops
  BY <1>3 DEF OwnerDrops, clientVars, memory, TypeOK
<1>4. CASE OwnerClosed
  <2>1. alarm' \in (-Lateness .. Interval) \union {NoAge} /\ postponed' \in 0 .. MaxPostponed
    BY <1>4, EnsureType DEF OwnerClosed
  <2> QED BY <1>4, <2>1, WithClientsType DEF OwnerClosed, ForgetPing, TypeOK
<1>5. CASE OwnerFrame
  BY <1>5, TimesAssumption DEF OwnerFrame, clientVars, ownerVars, TypeOK
<1>6. CASE OwnerPong
  <2>1. alarm' \in (-Lateness .. Interval) \union {NoAge} /\ postponed' \in 0 .. MaxPostponed
    BY <1>6, EnsureType DEF OwnerPong
  <2> QED BY <1>6, <2>1, TimesAssumption DEF OwnerPong, clientVars, TypeOK
<1> QED BY <1>1, <1>2, <1>3, <1>4, <1>5, <1>6

LEMMA NextType == ASSUME TypeOK, [Next]_vars PROVE TypeOK'
<1>1. CASE UNCHANGED vars
  BY <1>1 DEF vars, clientVars, ownerVars, memory, TypeOK
<1>2. CASE Next
  BY <1>2, PassType, AlarmType, ClientStepType, RoomStepType, OwnerStepType DEF Next
<1> QED BY <1>1, <1>2

(* The deadlines, ages and states of the room stay well-formed: an alarm   *)
(* is never further ahead than one interval (ensureHeartbeat, heartbeat.ts *)
(* :28), for any timeout of the watchdog.                                  *)
THEOREM TypeCorrect == Spec => []TypeOK
<1>1. Init => TypeOK
  BY InitType
<1>2. TypeOK /\ [Next]_vars => TypeOK'
  BY NextType
<1> QED BY <1>1, <1>2, PTL DEF Spec
-----------------------------------------------------------------------------
(* What the watchdog may know.  It takes support for proven only of the    *)
(* installed bridge, and a ping it waits for is one that a bridge which    *)
(* answers still owes.                                                     *)
BridgeKnown ==
  /\ pings # {} => bridge = "answers"
  /\ owner = "open" /\ capability = "supported" => bridge # "ignores"
  /\ owner = "open" /\ bridge = "answers" /\ pending # NoAge => pending \in pings

(* A bridge answers before the watchdog loses patience.                    *)
PromptBridge == MaxOwnerReply < PingTimeout

LEMMA InitBridge == Init => BridgeKnown
BY DEF Init, BridgeKnown

LEMMA PassBridge ==
  ASSUME PromptBridge, TypeOK, BridgeKnown, Pass
  PROVE  BridgeKnown'
<1>1. ASSUME owner = "open", bridge = "answers", pending # NoAge
      PROVE  pending' \in pings'
  <2>1. pending \in pings /\ pending # MaxOwnerReply
    BY <1>1 DEF BridgeKnown, Pass
  <2>2. pending \in Int /\ pending < MaxOwnerReply
    BY <2>1, TimesAssumption DEF TypeOK
  <2>3. pending' = pending + 1
    BY <1>1, <2>2, TimesAssumption DEF Pass, Least, PromptBridge
  <2> QED BY <2>1, <2>3 DEF Pass
<1>2. pending' # NoAge => pending # NoAge
  BY DEF Pass
<1>3. pings' # {} => pings # {}
  BY DEF Pass
<1>4. UNCHANGED <<owner, bridge, capability>>
  BY DEF Pass
<1> QED BY <1>1, <1>2, <1>3, <1>4 DEF BridgeKnown

(* An alarm closes no bridge that lives, and keeps what is known.          *)
LEMMA AlarmBridge ==
  ASSUME PromptBridge, TypeOK, BridgeKnown, Alarm
  PROVE  /\ BridgeKnown'
         /\ owner = "open" /\ bridge # "dead" => owner' # "stale"
<1> DEFINE staying == Open \ Expired
<1>1. ReconcileGatewayLiveness(staying)
  BY DEF Alarm
<1>2. CASE WatchdogIdle(staying)
  BY <1>2 DEF WatchdogIdle, BridgeKnown
<1>3. CASE WatchdogWaits
  BY <1>3 DEF WatchdogWaits, BridgeKnown
<1>4. CASE owner = "open" /\ WatchdogGivesUp
  <2>1. pending \in Int /\ pending >= PingTimeout
    BY <1>4 DEF WatchdogGivesUp, TimedOut, TypeOK
  <2>2. pending \notin pings
    BY <2>1, TimesAssumption DEF PromptBridge, TypeOK
  <2>3. bridge # "answers"
    BY <1>4, <2>2 DEF BridgeKnown, WatchdogGivesUp
  <2>4. capability = "supported" => bridge = "dead"
    BY <1>4, <2>3 DEF BridgeKnown, TypeOK
  <2> QED BY <1>4, <2>3, <2>4 DEF WatchdogGivesUp, NotYetProven, BridgeKnown
<1>5. CASE WatchdogPings
  BY <1>5 DEF WatchdogPings, BridgeKnown
<1> QED BY <1>1, <1>2, <1>3, <1>4, <1>5 DEF ReconcileGatewayLiveness

LEMMA OtherBridge ==
  ASSUME BridgeKnown, [Next]_vars, ~Pass, ~Alarm
  PROVE  /\ BridgeKnown'
         /\ owner = "open" /\ bridge # "dead" => owner' # "stale"
<1>1. CASE \/ UNCHANGED vars \/ UnroutedClosed
           \/ \E c \in ClientIds : \/ ClientJoins(c) \/ ClientGoesSilent(c)
                                   \/ ClientDrops(c) \/ ClientClosed(c) \/ ClientPong(c)
  <2>1. UNCHANGED <<ownerVars, memory>>
    BY <1>1 DEF vars, UnroutedClosed, ClientJoins, ClientGoesSilent, ClientDrops, ClientClosed,
       ClientPong
  <2> QED BY <2>1 DEF ownerVars, memory, BridgeKnown
<1>2. CASE ReadStatus
  BY <1>2 DEF ReadStatus, Reconciled, BridgeKnown
<1>3. CASE Rebuild
  BY <1>3 DEF Rebuild, Reconciled, ForgetPing, BridgeKnown
<1>4. ASSUME NEW kind \in {"answers", "ignores"}, OwnerJoins(kind)
      PROVE  BridgeKnown' /\ owner' # "stale"
  BY <1>4 DEF OwnerJoins, OwnerInstalled, ForgetPing, BridgeKnown
<1>5. CASE OwnerGoesSilent \/ OwnerDrops \/ OwnerClosed
  BY <1>5 DEF OwnerGoesSilent, OwnerDrops, OwnerClosed, ForgetPing, memory, BridgeKnown
<1>6. CASE OwnerFrame
  BY <1>6 DEF OwnerFrame, ownerVars, BridgeKnown
<1>7. CASE OwnerPong
  BY <1>7 DEF OwnerPong, BridgeKnown
<1> QED BY <1>1, <1>2, <1>3, <1>4, <1>5, <1>6, <1>7 DEF Next

(* If bridges that answer do so before the timeout, reconcileGatewayLive-  *)
(* ness (heartbeat.ts:59) closes only dead ones, whatever the room forgets *)
(* and whichever bridges replace each other.                               *)
THEOREM LiveBridgesStay == PromptBridge /\ Spec => OnlyDeadBridgesAreClosed
<1> SUFFICES ASSUME PromptBridge
             PROVE  Spec => OnlyDeadBridgesAreClosed
  OBVIOUS
<1> DEFINE Spared == owner = "open" /\ bridge # "dead" => owner' # "stale"
<1>1. Init => TypeOK /\ BridgeKnown
  BY InitType, InitBridge
<1>2. TypeOK /\ BridgeKnown /\ [Next]_vars => (TypeOK /\ BridgeKnown)'
  BY NextType, PassBridge, AlarmBridge, OtherBridge
<1>3. TypeOK /\ BridgeKnown /\ [Next]_vars => [Spared]_vars
  <2>1. ASSUME Pass PROVE Spared
    BY <2>1 DEF Pass
  <2> QED BY <2>1, AlarmBridge, OtherBridge
<1> QED BY <1>1, <1>2, <1>3, PTL DEF Spec, OnlyDeadBridgesAreClosed
-----------------------------------------------------------------------------
(* When the next tick leaves.  `Step' is what one postponement costs,      *)
(* `Slack' what those still to come may cost, and `Limit' the age of the   *)
(* last pong at which the next tick has left.                              *)
Step  == Interval + Lateness
Slack == (MaxPostponed - postponed) * Step
Limit == MaxOwnerReply + Step + MaxPostponed * Step

(* Clients, the bridge and the platform are prompt: what can delay a tick  *)
(* and its answer fits into the timeout that clientPongTimeoutMs leaves.   *)
PromptPeers == Limit + MaxReply <= PongTimeout

SomeAlarm == Open # {} => alarm # NoAge

(* A tick is on its way to c and will be answered in time, or one will     *)
(* leave in time: the alarm, or the pong that may still reset it, is close *)
(* enough.                                                                 *)
Ticked(c) == \E a \in ticks[c] : sincePong[c] <= Limit + a
WillTick(c) ==
  /\ sincePong[c] + alarm + Lateness + Slack <= Limit
  /\ \A a \in pings : sincePong[c] + (MaxOwnerReply - a) + Step + Slack <= Limit

InTime == \A c \in Open \cap answering : Ticked(c) \/ WillTick(c)

Timely == TypeOK /\ SomeAlarm /\ InTime

LEMMA Products ==
  ASSUME NEW n \in 0 .. MaxPostponed
  PROVE  /\ (MaxPostponed - n) * Step \in Nat
         /\ (MaxPostponed - n) * Step <= MaxPostponed * Step
         /\ n < MaxPostponed =>
              (MaxPostponed - (n + 1)) * Step = (MaxPostponed - n) * Step - Step
<1>1. Step \in Nat /\ MaxPostponed \in Nat
  BY TimesAssumption DEF Step
<1>2. \A k \in Nat, d \in Nat : k * d \in Nat
  OBVIOUS
<1>3. n * Step \in Nat /\ MaxPostponed * Step \in Nat /\ (MaxPostponed - n) * Step \in Nat
  BY <1>1, <1>2
<1>4. (MaxPostponed - n) * Step = MaxPostponed * Step - n * Step
  BY <1>1
<1>5. (MaxPostponed - (n + 1)) * Step = (MaxPostponed - n) * Step - Step
  BY <1>1
<1> QED BY <1>3, <1>4, <1>5

LEMMA SlackType == ASSUME TypeOK PROVE Slack \in Nat /\ Slack <= MaxPostponed * Step
BY Products DEF TypeOK, Slack

LEMMA LimitType == Step \in Nat /\ MaxPostponed * Step \in Nat /\ Limit \in Nat
<1>1. Step \in Nat /\ MaxPostponed \in Nat
  BY TimesAssumption DEF Step
<1>2. \A k \in Nat, d \in Nat : k * d \in Nat
  OBVIOUS
<1>3. MaxPostponed * Step \in Nat
  BY <1>1, <1>2
<1> QED BY <1>1, <1>3, TimesAssumption DEF Limit

(* ensureHeartbeat never moves the next tick beyond what was allowed for:  *)
(* a deadline that is ahead only comes closer, and an overdue one uses up  *)
(* slack.                                                                  *)
LEMMA EnsureInTime ==
  ASSUME TypeOK, NEW open, open # {}, NEW p \in (0 .. MaxAge) \union {NoAge},
         EnsureHeartbeat(open, p, FALSE)
  PROVE  /\ alarm' # NoAge
         /\ Slack' <= Slack
         /\ alarm # NoAge => alarm' + Slack' <= alarm + Slack
<1>1. Deadline(p) \in 0 .. Interval
  BY DeadlineType
<1>2. alarm' # NoAge
  BY <1>1, NoAgeAssumption, TimesAssumption DEF EnsureHeartbeat, Kept
<1>3. Slack \in Nat /\ postponed \in 0 .. MaxPostponed
  BY SlackType DEF TypeOK
<1>4. CASE Overdue /\ ~Kept(p)
  <2>1. postponed < MaxPostponed /\ postponed' = postponed + 1 /\ alarm' = Deadline(p)
    BY <1>4 DEF EnsureHeartbeat
  <2>2. Slack' = Slack - Step
    BY <1>3, <2>1, Products DEF Slack
  <2> QED BY <1>1, <1>2, <1>3, <1>4, <2>1, <2>2, LimitType, TimesAssumption DEF Overdue, Step,
             TypeOK
<1>5. CASE ~(Overdue /\ ~Kept(p))
  <2>1. postponed' = postponed /\ alarm' = IF Kept(p) THEN alarm ELSE Deadline(p)
    BY <1>5 DEF EnsureHeartbeat
  <2>2. Slack' = Slack
    BY <2>1 DEF Slack
  <2>3. alarm # NoAge => alarm' <= alarm
    BY <1>1, <1>5, <2>1, TimesAssumption DEF Overdue, Kept, TypeOK
  <2> QED BY <1>1, <1>2, <1>3, <2>1, <2>2, <2>3, TimesAssumption DEF TypeOK
<1> QED BY <1>4, <1>5

(* A client that has just answered, or joined, is in time.                 *)
LEMMA FreshInTime ==
  ASSUME TypeOK', alarm' # NoAge, NEW c \in ClientIds, sincePong'[c] = 0
  PROVE  WillTick(c)'
<1>1. /\ alarm' \in Int /\ alarm' <= Interval
      /\ Slack' \in Nat /\ Slack' <= MaxPostponed * Step
  BY Products, TimesAssumption DEF TypeOK, Slack
<1>2. 0 + alarm' + Lateness + Slack' <= Limit
  BY <1>1, LimitType, TimesAssumption DEF Limit, Step
<1>3. \A a \in pings' : 0 + (MaxOwnerReply - a) + Step + Slack' <= Limit
  BY <1>1, LimitType, TimesAssumption DEF Limit, TypeOK
<1> QED BY <1>2, <1>3 DEF WillTick, Limit, Step

(* Steps that leave a client and its unanswered ticks alone, take no ping  *)
(* back and move the alarm by ensureHeartbeat keep it in time.             *)
LEMMA StillInTime ==
  ASSUME TypeOK, TypeOK', NEW c \in ClientIds, Ticked(c) \/ WillTick(c),
         sincePong'[c] = sincePong[c], ticks'[c] = ticks[c], pings' \subseteq pings,
         alarm # NoAge, alarm' # NoAge, Slack' <= Slack, alarm' + Slack' <= alarm + Slack
  PROVE  (Ticked(c) \/ WillTick(c))'
<1>1. CASE Ticked(c)
  BY <1>1 DEF Ticked, Limit, Step
<1>2. CASE WillTick(c)
  <2>1. /\ sincePong[c] \in Int /\ alarm \in Int /\ alarm' \in Int /\ Lateness \in Int
        /\ Slack \in Int /\ Slack' \in Int /\ Limit \in Int
    BY SlackType, LimitType, TimesAssumption, Products DEF TypeOK, Slack
  <2>2. sincePong'[c] + alarm' + Lateness + Slack' <= Limit
    BY <1>2, <2>1 DEF WillTick
  <2>3. ASSUME NEW a \in pings'
        PROVE  sincePong'[c] + (MaxOwnerReply - a) + Step + Slack' <= Limit
    <3>1. MaxOwnerReply \in Int /\ Step \in Int
      BY LimitType, TimesAssumption
    <3>2. a \in pings /\ a \in Int
      BY <2>3, <3>1 DEF TypeOK
    <3>3. sincePong[c] + (MaxOwnerReply - a) + Step + Slack <= Limit
      BY <1>2, <3>2 DEF WillTick
    <3> QED BY <2>1, <3>1, <3>2, <3>3
  <2>4. WillTick(c)'
    BY <2>2, <2>3 DEF WillTick, Limit, Step
  <2> QED BY <2>4
<1> QED BY <1>1, <1>2

(* Steps that leave the clients and the alarm alone as well.               *)
LEMMA IdleInTime ==
  ASSUME Timely, TypeOK', UNCHANGED <<alarm, postponed, sincePong>>, pings' \subseteq pings,
         \A c \in ClientIds : client'[c] = "open" /\ c \in answering' =>
             client[c] = "open" /\ c \in answering /\ ticks'[c] = ticks[c],
         \A c \in ClientIds : client'[c] = "open" => client[c] = "open"
  PROVE  Timely'
<1>1. Slack' = Slack /\ Slack \in Nat
  BY SlackType DEF Slack, Timely
<1>2. SomeAlarm'
  BY DEF Timely, SomeAlarm, Open
<1>3. ASSUME NEW c \in ClientIds, client'[c] = "open", c \in answering'
      PROVE  (Ticked(c) \/ WillTick(c))'
  <2>1. c \in Open \cap answering /\ ticks'[c] = ticks[c] /\ alarm # NoAge
    BY <1>3 DEF Timely, SomeAlarm, Open
  <2>2. Ticked(c) \/ WillTick(c)
    BY <2>1 DEF Timely, InTime
  <2>3. alarm' + Slack' <= alarm + Slack
    BY <1>1, <2>1, TimesAssumption DEF Timely, TypeOK
  <2> QED BY <1>1, <2>1, <2>2, <2>3, StillInTime DEF Timely
<1> QED BY <1>2, <1>3 DEF Timely, InTime, Open

(* Steps that end in ensureHeartbeat, for the clients open after them.     *)
LEMMA EnsuredInTime ==
  ASSUME Timely, TypeOK', NEW p \in (0 .. MaxAge) \union {NoAge}, pings' \subseteq pings,
         EnsureHeartbeat(Open', p, FALSE),
         \A c \in ClientIds : client'[c] = "open" /\ c \in answering' =>
             \/ sincePong'[c] = 0
             \/ /\ client[c] = "open" /\ c \in answering
                /\ sincePong'[c] = sincePong[c] /\ ticks'[c] = ticks[c]
  PROVE  Timely'
<1>1. Open' # {} => alarm' # NoAge /\ Slack' <= Slack
  BY EnsureInTime DEF Timely
<1>2. ASSUME NEW c \in ClientIds, client'[c] = "open", c \in answering'
      PROVE  (Ticked(c) \/ WillTick(c))'
  <2>0. Open' # {}
    BY <1>2 DEF Open
  <2>1. CASE sincePong'[c] = 0
    BY <1>1, <2>0, <2>1, FreshInTime
  <2>2. CASE sincePong'[c] # 0
    <3>1. c \in Open \cap answering /\ sincePong'[c] = sincePong[c] /\ ticks'[c] = ticks[c]
      BY <1>2, <2>2 DEF Open
    <3>2. alarm # NoAge /\ (Ticked(c) \/ WillTick(c))
      BY <3>1 DEF Timely, SomeAlarm, InTime
    <3>3. alarm' + Slack' <= alarm + Slack
      BY <2>0, <3>2, EnsureInTime DEF Timely
    <3> QED BY <1>1, <2>0, <3>1, <3>2, <3>3, StillInTime DEF Timely
  <2> QED BY <2>1, <2>2
<1> QED BY <1>1, <1>2 DEF Timely, SomeAlarm, InTime, Open

LEMMA PassInTime == ASSUME Timely, TypeOK', Pass PROVE Timely'
<1>1. SomeAlarm' /\ Slack' = Slack
  BY NoAgeAssumption, TimesAssumption DEF Timely, TypeOK, SomeAlarm, Open, Pass, Slack
<1>2. ASSUME NEW c \in Open \cap answering
      PROVE  (Ticked(c) \/ WillTick(c))'
  <2>1. sincePong[c] \in Nat /\ sincePong'[c] \in Nat /\ sincePong'[c] <= sincePong[c] + 1
    BY <1>2, TimeoutType DEF Timely, TypeOK, Pass, Open, Least
  <2>2. CASE Ticked(c)
    <3>1. PICK a \in ticks[c] : sincePong[c] <= Limit + a
      BY <2>2 DEF Ticked
    <3>2. a \in Nat
      BY <1>2, <3>1, TimesAssumption DEF Timely, TypeOK
    <3>3. a + 1 \in ticks'[c]
      BY <1>2, <3>1 DEF Pass, Open
    <3>4. sincePong'[c] <= Limit + (a + 1)
      BY <2>1, <3>1, <3>2, LimitType
    <3>5. Ticked(c)'
      BY <3>3, <3>4 DEF Ticked, Limit, Step
    <3> QED BY <3>5
  <2>3. CASE WillTick(c)
    <3>1. alarm # NoAge /\ alarm \in Int /\ alarm' = alarm - 1 /\ Slack \in Nat
      BY <1>2, SlackType, TimesAssumption DEF Timely, TypeOK, SomeAlarm, Pass
    <3>2. sincePong'[c] + alarm' + Lateness + Slack' <= Limit
      BY <1>1, <2>1, <2>3, <3>1, LimitType, TimesAssumption DEF WillTick
    <3>3. ASSUME NEW a \in pings
          PROVE  sincePong'[c] + (MaxOwnerReply - (a + 1)) + Step + Slack' <= Limit
      <4>1. a \in Nat /\ MaxOwnerReply \in Nat
        BY <3>3, TimesAssumption DEF Timely, TypeOK
      <4>2. sincePong[c] + (MaxOwnerReply - a) + Step + Slack <= Limit
        BY <2>3, <3>3 DEF WillTick
      <4> QED BY <1>1, <2>1, <3>1, <4>1, <4>2, LimitType
    <3>4. \A b \in pings' : sincePong'[c] + (MaxOwnerReply - b) + Step + Slack' <= Limit
      BY <3>3 DEF Pass
    <3>5. WillTick(c)'
      BY <3>2, <3>4 DEF WillTick, Limit, Step
    <3> QED BY <3>5
  <2> QED BY <1>2, <2>2, <2>3 DEF Timely, InTime
<1>3. Open' = Open /\ answering' = answering
  BY DEF Pass, Open
<1> QED BY <1>1, <1>2, <1>3 DEF Timely, InTime

(* An alarm finds every client that answers within the timeout, and ticks  *)
(* it.                                                                     *)
LEMMA AlarmInTime ==
  ASSUME PromptPeers, Timely, TypeOK', Alarm
  PROVE  /\ Timely'
         /\ \A c \in ClientIds : client[c] = "open" /\ c \in answering => client'[c] = "open"
<1>1. ASSUME NEW c \in Open \cap answering
      PROVE  /\ c \notin Expired
             /\ Ticked(c)'
  <2>1. sincePong[c] \in Nat /\ alarm \in Int /\ alarm >= -Lateness /\ Slack \in Nat
    BY <1>1, SlackType, TimeoutType, TimesAssumption DEF Timely, TypeOK, Open, Alarm, Overdue
  <2>2. \/ sincePong[c] <= Limit
        \/ \E a \in ticks[c] : sincePong[c] <= Limit + a
    <3>1. CASE WillTick(c)
      BY <2>1, <3>1, LimitType, TimesAssumption DEF WillTick
    <3> QED BY <1>1, <3>1 DEF Timely, InTime, Ticked
  <2>3. \A a \in ticks[c] : a \in Nat /\ a <= MaxReply
    BY <1>1, TimesAssumption DEF Timely, TypeOK
  <2>4. c \notin Expired
    <3>1. sincePong[c] <= Limit + MaxReply
      BY <2>1, <2>2, <2>3, LimitType, TimesAssumption
    <3> QED BY <2>1, <3>1, LimitType, TimeoutType, TimesAssumption DEF PromptPeers, Expired
  <2>5. ticks'[c] = ticks[c] \union {0} /\ sincePong' = sincePong
    BY <1>1, <2>4 DEF Alarm, Open
  <2>6. Ticked(c)'
    <3>1. sincePong[c] <= Limit + 0 \/ \E a \in ticks[c] : sincePong[c] <= Limit + a
      BY <2>2, LimitType
    <3> QED BY <2>5, <3>1 DEF Ticked, Limit, Step
  <2> QED BY <2>4, <2>6
<1>2. \A c \in ClientIds : client'[c] = "open" => c \in Open \ Expired
  BY DEF Alarm, Open, Expired
<1>3. SomeAlarm'
  <2>1. pending' \in (0 .. MaxAge) \union {NoAge}
    BY DEF TypeOK
  <2>2. Deadline(pending') # NoAge
    BY <2>1, DeadlineType, NoAgeAssumption
  <2> QED BY <1>2, <2>2 DEF SomeAlarm, Alarm, Open
<1>4. InTime'
  BY <1>1, <1>2 DEF InTime, Open, Alarm
<1>5. \A c \in ClientIds : client[c] = "open" /\ c \in answering => client'[c] = "open"
  BY <1>1 DEF Alarm, Open
<1> QED BY <1>3, <1>4, <1>5 DEF Timely

(* The pong of the bridge gives the alarm a whole interval again.          *)
LEMMA OwnerPongInTime == ASSUME Timely, TypeOK', OwnerPong PROVE Timely'
<1>1. PICK a \in pings : pings' = pings \ {a}
  BY DEF OwnerPong
<1>2. /\ UNCHANGED <<client, answering, sincePong, ticks>>
      /\ EnsureHeartbeat(Open, NoAge, TRUE)
  BY DEF OwnerPong, clientVars
<1>3. Deadline(NoAge) = Interval
  BY DEF Deadline
<1>4. Slack' <= Slack /\ Slack' \in Nat /\ Slack \in Nat
  <2>1. postponed \in 0 .. MaxPostponed /\ postponed' \in 0 .. MaxPostponed
    BY DEF Timely, TypeOK
  <2>2. postponed' = postponed \/ (postponed < MaxPostponed /\ postponed' = postponed + 1)
    BY <1>2 DEF EnsureHeartbeat
  <2>3. Slack \in Nat /\ Slack' \in Nat
    BY <2>1, Products DEF Slack
  <2>4. CASE postponed' = postponed
    BY <2>3, <2>4 DEF Slack
  <2>5. CASE postponed < MaxPostponed /\ postponed' = postponed + 1
    BY <2>1, <2>3, <2>5, Products, LimitType DEF Slack
  <2> QED BY <2>2, <2>3, <2>4, <2>5
<1>5. ASSUME NEW c \in Open \cap answering
      PROVE  (Ticked(c) \/ WillTick(c))'
  <2>1. alarm' = Interval
    BY <1>2, <1>3, <1>5 DEF EnsureHeartbeat
  <2>2. CASE Ticked(c)
    BY <1>2, <2>2 DEF Ticked, Limit, Step
  <2>3. CASE WillTick(c)
    <3>1. sincePong[c] \in Nat /\ a \in Nat /\ a <= MaxOwnerReply /\ MaxOwnerReply \in Nat
      BY <1>5, TimeoutType, TimesAssumption DEF Timely, TypeOK, Open
    <3>2. sincePong[c] + (MaxOwnerReply - a) + Step + Slack <= Limit
      BY <2>3 DEF WillTick
    <3>3. sincePong[c] + Interval + Lateness + Slack' <= Limit
      BY <1>4, <3>1, <3>2, LimitType, TimesAssumption DEF Step
    <3>4. ASSUME NEW b \in pings'
          PROVE  sincePong[c] + (MaxOwnerReply - b) + Step + Slack' <= Limit
      <4>1. b \in Nat /\ sincePong[c] + (MaxOwnerReply - b) + Step + Slack <= Limit
        BY <1>1, <2>3, <3>4, TimesAssumption DEF WillTick, Timely, TypeOK
      <4> QED BY <1>4, <3>1, <4>1, LimitType
    <3>5. WillTick(c)'
      BY <1>2, <2>1, <3>3, <3>4 DEF WillTick, Limit, Step
    <3> QED BY <3>5
  <2> QED BY <1>5, <2>2, <2>3 DEF Timely, InTime
<1>6. SomeAlarm'
  BY <1>2, <1>3, NoAgeAssumption, TimesAssumption DEF SomeAlarm, EnsureHeartbeat, Open
<1> QED BY <1>2, <1>5, <1>6 DEF Timely, InTime, Open

LEMMA ClientStepInTime ==
  ASSUME Timely, TypeOK', NEW c \in ClientIds,
         ClientJoins(c) \/ ClientGoesSilent(c) \/ ClientDrops(c) \/ ClientClosed(c)
  PROVE  Timely'
<1>1. CASE ClientJoins(c)
  <2>1. Open' = Open \union {c}
    BY <1>1 DEF ClientJoins, Open, Timely, TypeOK
  <2> QED BY <1>1, <2>1, EnsuredInTime DEF ClientJoins, ownerVars, Timely, TypeOK
<1>2. CASE ClientGoesSilent(c)
  BY <1>2, IdleInTime DEF ClientGoesSilent, ownerVars, Timely, TypeOK
<1>3. CASE ClientDrops(c)
  BY <1>3, IdleInTime DEF ClientDrops, WithClients, ownerVars, Timely, TypeOK
<1>4. CASE ClientClosed(c)
  <2>1. Open' = Open
    BY <1>4 DEF ClientClosed, WithClients, Open
  <2> QED BY <1>4, <2>1, EnsuredInTime DEF ClientClosed, WithClients, ownerVars, Timely, TypeOK
<1> QED BY <1>1, <1>2, <1>3, <1>4

LEMMA ClientPongInTime ==
  ASSUME Timely, TypeOK', NEW c \in ClientIds, ClientPong(c)
  PROVE  Timely'
<1>1. UNCHANGED <<alarm, postponed, client, answering, pings>>
  BY DEF ClientPong, ownerVars
<1>2. SomeAlarm' /\ Slack' = Slack /\ Slack \in Nat
  BY <1>1, SlackType DEF Timely, SomeAlarm, Open, Slack
<1>3. ASSUME NEW d \in Open \cap answering
      PROVE  (Ticked(d) \/ WillTick(d))'
  <2>1. alarm # NoAge /\ alarm' # NoAge /\ (Ticked(d) \/ WillTick(d)) /\ d \in ClientIds
    BY <1>1, <1>3 DEF Timely, SomeAlarm, InTime, Open
  <2>2. CASE d = c
    <3>1. sincePong'[c] = 0
      BY DEF ClientPong, Timely, TypeOK
    <3> QED BY <2>1, <2>2, <3>1, FreshInTime
  <2>3. CASE d # c
    <3>1. sincePong'[d] = sincePong[d] /\ ticks'[d] = ticks[d]
      BY <2>1, <2>3 DEF ClientPong, Timely, TypeOK
    <3>2. alarm' + Slack' <= alarm + Slack
      BY <1>1, <1>2, <2>1, TimesAssumption DEF Timely, TypeOK
    <3> QED BY <1>1, <1>2, <2>1, <3>1, <3>2, StillInTime DEF Timely
  <2> QED BY <2>2, <2>3
<1> QED BY <1>1, <1>2, <1>3 DEF Timely, InTime, Open

LEMMA RoomStepInTime ==
  ASSUME Timely, TypeOK', UnroutedClosed \/ ReadStatus \/ Rebuild
  PROVE  Timely'
<1>1. CASE UnroutedClosed
  <2>1. Open' = Open
    BY <1>1 DEF UnroutedClosed, clientVars, Open
  <2> QED BY <1>1, <2>1, EnsuredInTime DEF UnroutedClosed, clientVars, ownerVars, Timely, TypeOK
<1>2. CASE ReadStatus
  BY <1>2, IdleInTime DEF ReadStatus, Reconciled, WithClients, Mapped, Open
<1>3. CASE Rebuild
  <2>1. Open' = Open
    BY <1>3 DEF Rebuild, Reconciled, WithClients, Mapped, Open
  <2> QED BY <1>3, <2>1, EnsuredInTime DEF Rebuild, Reconciled, WithClients, Mapped, Open
<1> QED BY <1>1, <1>2, <1>3

LEMMA OwnerStepInTime ==
  ASSUME Timely, TypeOK',
         \/ \E kind \in {"answers", "ignores"} : OwnerJoins(kind)
         \/ OwnerGoesSilent \/ OwnerDrops \/ OwnerClosed \/ OwnerFrame
  PROVE  Timely'
<1>1. ASSUME NEW kind \in {"answers", "ignores"}, OwnerJoins(kind)
      PROVE  Timely'
  <2> DEFINE retired == IF owner = "never" THEN {} ELSE Mapped
  <2>1. WithClients(retired, "none") /\ pings' = {} /\ pending' = NoAge
    BY <1>1 DEF OwnerJoins, OwnerInstalled, ForgetPing
  <2>2. Open' = Open \ retired
    BY <2>1 DEF WithClients, Open
  <2>3. EnsureHeartbeat(Open', NoAge, FALSE) /\ UNCHANGED <<answering, sincePong>>
    BY <1>1, <2>1, <2>2 DEF OwnerJoins
  <2>4. ASSUME NEW c \in ClientIds, client'[c] = "open"
        PROVE  client[c] = "open" /\ ticks'[c] = ticks[c]
    BY <2>1, <2>4 DEF WithClients
  <2> HIDE DEF retired
  <2> QED BY <2>1, <2>3, <2>4, EnsuredInTime
<1>2. CASE OwnerGoesSilent
  BY <1>2, IdleInTime DEF OwnerGoesSilent, clientVars
<1>3. CASE OwnerDrops
  BY <1>3, IdleInTime DEF OwnerDrops, clientVars
<1>4. CASE OwnerClosed
  <2>1. Open' = {}
    BY <1>4 DEF OwnerClosed, WithClients, Mapped, Open
  <2> QED BY <2>1 DEF Timely, SomeAlarm, InTime
<1>5. CASE OwnerFrame
  BY <1>5, IdleInTime DEF OwnerFrame, clientVars, ownerVars
<1> QED BY <1>1, <1>2, <1>3, <1>4, <1>5

(* Only an alarm expires clients. *)
LEMMA OnlyAlarmsExpire ==
  ASSUME TypeOK, [Next]_vars, ~Alarm, NEW c \in ClientIds, client[c] = "open"
  PROVE  client'[c] # "expired"
BY DEF Next, vars, clientVars, Pass, UnroutedClosed, ReadStatus, Rebuild, Reconciled, WithClients,
       ClientJoins, ClientGoesSilent, ClientDrops, ClientClosed, ClientPong, OwnerJoins,
       OwnerGoesSilent, OwnerDrops, OwnerClosed, OwnerFrame, OwnerPong, TypeOK

LEMMA NextInTime == ASSUME PromptPeers, Timely, [Next]_vars PROVE Timely'
<1>1. TypeOK'
  BY NextType DEF Timely
<1>2. CASE UNCHANGED vars
  BY <1>1, <1>2, IdleInTime DEF vars, clientVars, ownerVars
<1>3. CASE Next
  BY <1>1, <1>3, PassInTime, AlarmInTime, OwnerPongInTime, ClientStepInTime,
     ClientPongInTime, RoomStepInTime, OwnerStepInTime DEF Next
<1> QED BY <1>2, <1>3

(* If clients and bridges answer promptly and alarms are not too late,     *)
(* with all that can postpone a tick within clientPongTimeoutMs (runtime.  *)
(* ts:47), no client that answers its ticks is ever expired.               *)
THEOREM AnsweringClientsAreKept == PromptPeers /\ Spec => AnsweringClientsStay
<1> SUFFICES ASSUME PromptPeers
             PROVE  Spec => AnsweringClientsStay
  OBVIOUS
<1> DEFINE Stays == \A c \in ClientIds :
                      client[c] = "open" /\ c \in answering => client'[c] # "expired"
<1>1. Init => Timely
  BY InitType DEF Init, Timely, SomeAlarm, InTime, Open
<1>2. Timely /\ [Next]_vars => Timely'
  BY NextInTime
<1>3. Timely /\ [Next]_vars => [Stays]_vars
  <2>1. ASSUME Timely, Alarm PROVE Stays
    BY <2>1, NextType, AlarmInTime DEF Timely, Next
  <2>2. ASSUME Timely, [Next]_vars, ~Alarm PROVE Stays
    BY <2>2, OnlyAlarmsExpire DEF Timely
  <2> QED BY <2>1, <2>2
<1> QED BY <1>1, <1>2, <1>3, PTL DEF Spec, AnsweringClientsStay
=============================================================================
