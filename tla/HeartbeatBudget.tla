-------------------------- MODULE HeartbeatBudget --------------------------
(***************************************************************************)
(* The echo budget of one Relay socket: a peer (the bridge, or a phone)    *)
(* probes the Relay with pings, and the Relay echoes a ping only while the *)
(* budget kept in the socket's attachment has credit.  Nothing of this is  *)
(* held in memory, so hibernation is no action here.                       *)
(*                                                                         *)
(* The pings are those of a current, open, full socket with the echo       *)
(* capability; consumeOwnerHeartbeatControl swallows all others.  They     *)
(* travel in order and with bounded delay, and the wall clock the Relay    *)
(* reads may step back.                                                    *)
(***************************************************************************)
EXTENDS Integers, Sequences

CONSTANTS
  Cost,              \* ECHO_COST_MS: what one echo costs
  Burst,             \* MAX_CREDIT_MS in echoes
  Second,            \* the period of the rate-limit diagnostic
  MaxTransit,        \* a ping arrives within this time
  MaxInTransit,      \* bound: pings under way
  MaxTime,           \* bound: the clock
  NoBudget, NoTime   \* "undefined"

ASSUME CostAssumption     == Cost \in Nat \ {0} /\ Burst \in Nat \ {0} /\ Second \in Nat \ {0}
ASSUME PeerAssumption     == MaxTransit \in Nat /\ MaxInTransit \in Nat
ASSUME TimeAssumption     == MaxTime \in Nat
ASSUME NothingAssumption  == NoTime \notin Int /\ NoBudget \notin [updatedAt : Nat, creditMs : Nat]

MaxCredit == Burst * Cost
Times     == 0 .. MaxTime
Budgets   == [updatedAt : Times, creditMs : 0 .. MaxCredit]

VARIABLES
  now,        \* Date.now()
  budget,     \* attachment.heartbeatEchoBudget
  lastPingAt, \* attachment.lastOwnerPingAt, all an older Relay has stored
  noted,      \* attachment.lastOwnerPingRateLimitedAt
  transit,    \* send times of the pings under way, oldest first
  lastSent,   \* when the peer sent its latest ping
  paced,      \* history: a fresh socket, and every ping Cost after the one before
  charged,    \* history: when the ping charged last had been sent
  shadow,     \* history: the budget had refused pings been saved as well
  window,     \* history: echoes since one of them, and its place in time
  steady      \* history: the clock has not stepped back

attachment == <<budget, lastPingAt, noted>>
peer       == <<transit, lastSent, paced>>
clock      == <<now, steady>>
history    == <<charged, shadow, window>>
vars       == <<clock, attachment, peer, history>>
-----------------------------------------------------------------------------
Lesser(a, b)  == IF a <= b THEN a ELSE b
Greater(a, b) == IF a <= b THEN b ELSE a

(* takeHeartbeatEchoCredit.  A fresh socket has the whole burst; one that  *)
(* an older Relay has served has spent its credit at its last ping.        *)
Anchor(stored, last, t) == IF stored # NoBudget THEN stored.updatedAt
                           ELSE IF last # NoTime THEN last ELSE t
Credit(stored, last)    == IF stored # NoBudget
                           THEN Greater(0, Lesser(MaxCredit, stored.creditMs))
                           ELSE IF last # NoTime THEN 0 ELSE MaxCredit

AvailableWithoutBurst(stored, last, t) ==
  Lesser(Cost, Credit(stored, last) + Greater(0, t - Anchor(stored, last, t)))
Available(stored, last, t) ==
  Lesser(MaxCredit, Credit(stored, last) + Greater(0, t - Anchor(stored, last, t)))

Allowed(stored, last, t) == Available(stored, last, t) >= Cost

BudgetAtClock(stored, last, t) ==
  [updatedAt |-> t,
   creditMs  |-> Available(stored, last, t) - (IF Allowed(stored, last, t) THEN Cost ELSE 0)]
BudgetWithoutRefill(stored, last, t) ==
  [updatedAt |-> Greater(t, Anchor(stored, last, t)),
   creditMs  |-> IF Allowed(stored, last, t) THEN Available(stored, last, t) - Cost
                                              ELSE Credit(stored, last)]
NextBudget(stored, last, t) ==
  [updatedAt |-> Greater(t, Anchor(stored, last, t)),
   creditMs  |-> Available(stored, last, t) - (IF Allowed(stored, last, t) THEN Cost ELSE 0)]

(* The fixed second a refusal is diagnosed for. *)
DiagnosticSecond(b) == b.updatedAt \div Second
NotYetNoted(second) == noted # second
-----------------------------------------------------------------------------
Init ==
  /\ now = 0
  /\ budget = NoBudget
  /\ lastPingAt \in {NoTime, 0}   \* fresh, or served by an older Relay
  /\ noted = NoTime
  /\ transit = <<>>
  /\ lastSent = NoTime
  /\ paced = (lastPingAt = NoTime)
  /\ charged = NoTime
  /\ shadow = NoBudget
  /\ window = [echoes |-> 0, from |-> 0]
  /\ steady = TRUE

(* Time passes, and no ping under way is delayed beyond its limit. *)
Tick ==
  /\ now < MaxTime
  /\ now' = now + 1
  /\ \A i \in 1 .. Len(transit) : now < transit[i] + MaxTransit
  /\ UNCHANGED <<steady, attachment, peer, history>>

ClockStepsBack ==
  /\ \E t \in Times : t < now /\ now' = t
  /\ steady' = FALSE
  /\ UNCHANGED <<attachment, peer, history>>

Ready == lastSent # NoTime => lastSent + Cost <= now
SendPing ==
  /\ Len(transit) < MaxInTransit
  /\ transit' = Append(transit, now)
  /\ lastSent' = now
  /\ paced' = (paced /\ Ready)
  /\ UNCHANGED <<clock, attachment, history>>

(* A ping is admitted: the charge is stored before the reply is sent, and  *)
(* sending may still fail.  Any echo may open a new window of the history. *)
Echo(sent, opens) ==
  LET next == NextBudget(budget, lastPingAt, now)
  IN /\ transit # <<>>
     /\ transit' = Tail(transit)
     /\ Allowed(budget, lastPingAt, now)
     /\ budget' = next
     /\ lastPingAt' = next.updatedAt
     /\ charged' = Head(transit)
     /\ shadow' = NextBudget(shadow, lastPingAt, now)
     /\ window' = IF ~sent THEN window
                  ELSE IF opens \/ window.echoes = 0
                  THEN [echoes |-> 1, from |-> next.updatedAt]
                  ELSE [window EXCEPT !.echoes = @ + 1]
     /\ UNCHANGED <<clock, noted, lastSent, paced>>

(* The charge cannot be stored: the ping is not answered. *)
EchoNotStored ==
  /\ transit # <<>>
  /\ transit' = Tail(transit)
  /\ Allowed(budget, lastPingAt, now)
  /\ UNCHANGED <<clock, attachment, lastSent, paced, history>>

(* A ping is refused; its budget is not saved.  One diagnostic is written  *)
(* for each fixed second, if the second can be stored.                     *)
Refuse(stored) ==
  LET second == DiagnosticSecond(NextBudget(budget, lastPingAt, now))
  IN /\ transit # <<>>
     /\ transit' = Tail(transit)
     /\ ~Allowed(budget, lastPingAt, now)
     /\ noted' = IF NotYetNoted(second) /\ stored THEN second ELSE noted
     /\ shadow' = NextBudget(shadow, lastPingAt, now)
     /\ UNCHANGED <<clock, budget, lastPingAt, lastSent, paced, charged, window>>

Next ==
  \/ Tick \/ ClockStepsBack \/ SendPing
  \/ \E sent, opens \in BOOLEAN : Echo(sent, opens)
  \/ EchoNotStored
  \/ \E stored \in BOOLEAN : Refuse(stored)

Spec == Init /\ [][Next]_vars
-----------------------------------------------------------------------------
(* Properties. *)

TypeOK ==
  /\ now \in Times
  /\ budget \in Budgets \cup {NoBudget} /\ shadow \in Budgets \cup {NoBudget}
  /\ lastPingAt \in Times \cup {NoTime} /\ noted \in Times \cup {NoTime}
  /\ transit \in Seq(Times)
  /\ lastSent \in Times \cup {NoTime} /\ charged \in Times \cup {NoTime}
  /\ window \in [echoes : Nat, from : Times]
  /\ steady \in BOOLEAN /\ paced \in BOOLEAN

(* From any echo to a later one there are never more echoes than the burst *)
(* and one for each Cost of clock time between them, however refused pings,*)
(* failed writes and a clock that steps back fall ("never gains elapsed    *)
(* credit or moves the anchor backwards on clock rollback").               *)
EchoesArePaced ==
  window.echoes > 0 => /\ budget # NoBudget
                       /\ Cost * window.echoes <= MaxCredit + (budget.updatedAt - window.from)

(* "A rejected budget need not be saved: without consumption its next      *)
(* refill is equivalent": at every clock reading, the budget as stored and *)
(* the one that saved each refusal admit alike, and admit to the same      *)
(* budget.                                                                 *)
RefusalsNeedNoWrite ==
  \A t \in Times :
    /\ Allowed(budget, lastPingAt, t) <=> Allowed(shadow, lastPingAt, t)
    /\ Allowed(budget, lastPingAt, t) =>
         NextBudget(budget, lastPingAt, t) = NextBudget(shadow, lastPingAt, t)

(* A peer that paces its pings by Cost is never refused by a fresh socket, *)
(* however the network bunches them, while no ping is delayed by more than *)
(* the rest of the burst ("a small arrival burst tolerates independently   *)
(* delayed, well-paced probes").                                           *)
PacedPeer == MaxTransit <= MaxCredit - Cost /\ steady /\ paced
PacedPingsAreAdmitted ==
  PacedPeer /\ transit # <<>> => Allowed(budget, lastPingAt, now)
=============================================================================
