----------------------------- MODULE OwnerPong -----------------------------
(***************************************************************************)
(* How a bridge finds out that its Relay socket is dead: the probe cycle   *)
(* of RelayOwnerPong, the allowance for large frames of RelayTransferLease *)
(* and the schedule of RelayOwnerCadence, on one socket whose Relay has    *)
(* negotiated the echo capability (relay.ready).                           *)
(*                                                                         *)
(* A cycle sends a protocol ping and, Spacing later, an application echo   *)
(* as a hedge; either answer proves the socket alive until the deadline    *)
(* they share.  A large frame delays the answers behind it, so it opens a  *)
(* window in which the deadline is suspended, and the probes sent before   *)
(* the frame prove nothing.                                                *)
(*                                                                         *)
(* Every time is what is left, or an age.  The code reads two clocks; the  *)
(* wall clock may run ahead of the other by Jump (the computer slept), and *)
(* be set back.  `ahead' is where it is, and each stored time remembers    *)
(* where it was.                                                           *)
(***************************************************************************)
EXTENDS Integers

CONSTANTS
  Repeats,     \* the cadence repeats itself; FALSE is Hermes
  Idle,        \* idleIntervalMs
  Active,      \* ACTIVE_INTERVAL_MS
  Timeout,     \* DEFAULT_TIMEOUT_MS
  Spacing,     \* the delay of the hedge, and between echoes
  Lease,       \* RELAY_TRANSFER_LEASE_MS
  Jump,        \* how far the wall clock may run ahead
  Lateness,    \* a timer fires this late at most
  MaxReply,    \* a Relay that answers does so within this time
  MaxTransfer, \* bound: how long a large frame takes
  Never        \* a timer that is not set, a window that is not open

ASSUME TimesAssumption ==
  /\ {Idle, Active, Timeout, Spacing, Lease, Jump} \subseteq Nat \ {0}
  /\ {Lateness, MaxReply, MaxTransfer} \subseteq Nat
  /\ Active <= Idle /\ Repeats \subseteq BOOLEAN /\ Never \notin Int

Probes    == {"ping", "echo"}
Timers(m) == (-Lateness .. m) \union {Never}

Least(a, b)    == IF a <= b THEN a ELSE b
Greatest(a, b) == IF a >= b THEN a ELSE b

VARIABLE p          \* the state of the heartbeat, a record

vars == <<p>>

State ==
  [repeat    : Repeats,
   transfers : BOOLEAN,             \* transferEnabled
   failed    : BOOLEAN,
   probes    : SUBSET Probes,       \* the nonces of cycle; {} is no cycle
   left      : 0 .. Timeout,        \* until cycle.deadline
   leftAhead : BOOLEAN,
   fresh     : BOOLEAN,             \* cycle.generation is the revision
   timer     : Timers(Timeout + Lease), \* cycle.timer
   hedge     : Timers(Spacing),     \* cycle.hedgeTimer
   refresh   : Timers(Spacing),     \* refreshTimer
   window    : (0 .. Lease) \union {Never},  \* until transfer.deadline
   windowAhead : BOOLEAN,
   expired   : BOOLEAN,             \* transfer.expired
   incoming  : BOOLEAN,             \* incomingBytes, of a frame hinted at
   outgoing  : BOOLEAN,             \* outgoingPending
   sinceEcho : 0 .. Spacing,        \* age of lastEchoAt, as far as it matters
   echoAhead : BOOLEAN,
   tick      : Timers(Idle),        \* the timer of the cadence
   long      : BOOLEAN,             \* and whether it was armed with Idle
   present   : BOOLEAN,             \* the count of clients is positive
   ahead     : BOOLEAN,
   blocked   : 0 .. MaxTransfer,    \* network: until the large frames are through
   owed      : (0 .. MaxReply + MaxTransfer) \union {Never}, \* until an answer comes
   sound     : BOOLEAN,  \* history: clock, link and transfers as they should be
   steady    : BOOLEAN,  \* history: the wall clock did not jump
   proofs    : SUBSET Probes, \* history: probes sent after the last large frame
   exact     : BOOLEAN,  \* history: every confirmation was exact
   spaced    : BOOLEAN,  \* history: every echo Spacing after the one before
   silent    : Nat,      \* history: time since the last proof
   watched   : Nat]      \* history: and with clients present
-----------------------------------------------------------------------------
(* What a deadline or an age loses or gains by the wall clock: the nearer  *)
(* of the two deadlines counts.                                            *)
Drift(t, then) == IF t.ahead /\ ~then THEN Jump ELSE 0

(* remainingMs and graceMs of the transfer lease; reading what has run out *)
(* latches it, and makes the probes of the cycle old.                      *)
Remaining(t) ==
  IF t.window = Never \/ t.expired THEN 0
  ELSE Greatest(0, t.window - Drift(t, t.windowAhead))
Latch(t) ==
  IF t.window # Never /\ Remaining(t) = 0 THEN [t EXCEPT !.expired = TRUE, !.fresh = FALSE] ELSE t
GraceIncoming(t) == IF t.incoming THEN Remaining(t) ELSE 0
Grace(t)         == IF t.incoming \/ t.outgoing THEN Remaining(t) ELSE 0

(* isExpired *)
Expired(t) ==
  \/ t.window # Never /\ Remaining(t) = 0
  \/ t.left <= Drift(t, t.leftAhead) /\ Grace(t) = 0

(* clearCycle; the answers to its probes will be swallowed *)
Clear(t) ==
  [t EXCEPT !.probes = {}, !.left = 0, !.leftAhead = FALSE, !.fresh = FALSE, !.timer = Never,
            !.hedge = Never, !.owed = Never, !.proofs = {}]

(* timeout: the runtime terminates the socket *)
Fail(t) == [Clear(t) EXCEPT !.failed = TRUE, !.refresh = Never]

(* The link is not sound any more: nobody knows when what passes it comes. *)
Unsound(t) == [t EXCEPT !.sound = FALSE, !.owed = Never, !.blocked = 0]

(* beginCycle *)
BeginCycle(t) ==
  Latch([t EXCEPT !.left = Timeout, !.leftAhead = t.ahead, !.fresh = TRUE,
                  !.timer = IF t.window = Never THEN Timeout ELSE Least(Timeout, Remaining(t)),
                  !.owed = IF t.sound THEN t.blocked + MaxReply ELSE Never])

(* startProtocolPing, and the ping itself *)
StartPing(t) ==
  IF t.probes # {} \/ t.refresh # Never THEN t
  ELSE [BeginCycle(t) EXCEPT !.probes = {"ping"}, !.proofs = {"ping"},
                             !.hedge = IF Timeout > Spacing THEN Spacing ELSE Never]

(* request, of the hedge and of the refresh; sending may throw *)
Request(t, sent) ==
  LET cycle  == IF t.probes = {} THEN BeginCycle(t) ELSE t
      echoed == [cycle EXCEPT !.probes = @ \union {"echo"}, !.proofs = @ \union {"echo"},
                              !.hedge = Never, !.sinceEcho = 0, !.echoAhead = t.ahead,
                              !.spaced = @ /\ t.sinceEcho = Spacing]
  IN IF Expired(cycle) THEN Fail(cycle)
     ELSE IF sent THEN echoed
     ELSE IF "ping" \in t.probes THEN Unsound(echoed) ELSE Fail(Unsound(echoed))

(* scheduleFreshEcho and refreshAfterTransfer *)
FreshEchoAtOnce(t) ==
  IF t.refresh # Never THEN t ELSE [Latch(t) EXCEPT !.refresh = 0]
FreshEcho(t) ==
  IF t.refresh # Never THEN t
  ELSE [Latch(t) EXCEPT
          !.refresh = Least(Greatest(0, Spacing - (t.sinceEcho + Drift(t, t.echoAhead))),
                            Remaining(t))]
RefreshBesideCycle(t)   == FreshEcho(t)
RefreshAfterTransfer(t) == FreshEcho(Clear(t))

(* begin of the transfer lease: its deadline is that of the first frame.   *)
BeginRenewing(t) ==
  [t EXCEPT !.fresh = FALSE, !.proofs = {}, !.window = Lease, !.windowAhead = t.ahead]
Begin(t) ==
  [t EXCEPT !.fresh = FALSE, !.proofs = {}, !.window = IF @ = Never THEN Lease ELSE @,
            !.windowAhead = IF t.window = Never THEN t.ahead ELSE @]

(* RelayOwnerCadence.schedule *)
Schedule(t) ==
  IF t.tick # Never THEN t
  ELSE [t EXCEPT !.tick = IF t.present THEN Active ELSE Idle, !.long = ~t.present]

(* confirmCycle and confirmProbe.  A confirmation is exact if the deadline *)
(* on neither clock has passed, or a window suspends it, and the probe was *)
(* sent by this cycle after the last large frame began.                    *)
Confirm(t, probe) ==
  LET intime == t.left > Drift(t, t.leftAhead) \/ Grace(t) > 0
      exact  == intime /\ probe \in t.proofs
      proven == [Clear(t) EXCEPT
                   !.refresh = Never, !.window = Never, !.windowAhead = FALSE,
                   !.expired = FALSE, !.outgoing = FALSE, !.blocked = 0,
                   !.silent = 0, !.watched = 0, !.exact = @ /\ exact]
  IN IF t.repeat THEN proven ELSE Schedule(proven)
ConfirmWithoutLease(t, probe) == IF Expired(t) THEN Fail(t) ELSE Confirm(t, probe)
ConfirmCycle(t, probe) ==
  IF Expired(t) THEN Fail(t)
  ELSE IF t.transfers /\ (~t.fresh \/ t.incoming) THEN FreshEcho(Clear(t))
  ELSE Confirm(t, probe)
-----------------------------------------------------------------------------
(* The Relay is ready: the cadence was armed when the socket opened.       *)
Negotiated(repeat, transfers, tick) ==
  [repeat |-> repeat, transfers |-> transfers, failed |-> FALSE, probes |-> {},
   left |-> 0, leftAhead |-> FALSE, fresh |-> FALSE, timer |-> Never, hedge |-> Never,
   refresh |-> Never, window |-> Never, windowAhead |-> FALSE, expired |-> FALSE,
   incoming |-> FALSE, outgoing |-> FALSE, sinceEcho |-> Spacing, echoAhead |-> FALSE,
   tick |-> tick, long |-> TRUE, present |-> FALSE, ahead |-> FALSE, blocked |-> 0,
   owed |-> Never, sound |-> TRUE, steady |-> TRUE, proofs |-> {},
   exact |-> TRUE, spaced |-> TRUE, silent |-> 0, watched |-> 0]

Init == \E repeat \in Repeats, transfers \in BOOLEAN, tick \in 0 .. Idle :
          p = Negotiated(repeat, transfers, tick)

Alive == ~p.failed

(* The socket closes, and the runtime connects again. *)
Reconnects ==
  \E repeat \in Repeats, transfers \in BOOLEAN, tick \in 0 .. Idle :
    p' = Negotiated(repeat, transfers, tick)

Later(timer)  == IF timer = Never THEN Never ELSE timer - 1
Sooner(left)  == IF left = Never THEN Never ELSE Greatest(0, left - 1)
Waits(timer)  == timer # Never => timer > -Lateness
Due(timer)    == timer # Never /\ timer <= 0

(* Time passes.  No timer is later than Lateness; a sound link lets a      *)
(* large frame through and answers when it has to.                         *)
Pass ==
  /\ Alive
  /\ Waits(p.timer) /\ Waits(p.hedge) /\ Waits(p.refresh) /\ Waits(p.tick)
  /\ p.owed # 0 /\ ~(p.sound /\ p.incoming /\ p.blocked = 0)
  /\ p' = [p EXCEPT
             !.left = Sooner(@), !.window = Sooner(@), !.owed = Sooner(@), !.blocked = Sooner(@),
             !.timer = Later(@), !.hedge = Later(@), !.refresh = Later(@), !.tick = Later(@),
             !.sinceEcho = Least(Spacing, @ + 1), !.silent = @ + 1,
             !.watched = IF p.present THEN @ + 1 ELSE 0]

ClockJumps ==
  /\ Alive
  /\ p' = [Unsound(p) EXCEPT !.ahead = ~@, !.steady = FALSE]

LinkBreaks ==
  /\ Alive
  /\ p' = Unsound(p)

(* onTick of the runtimes; Hermes schedules the next one when it is proven.*)
Tick ==
  /\ Alive /\ Due(p.tick)
  /\ LET ticked == StartPing([p EXCEPT !.tick = Never])
     IN p' = IF p.repeat THEN Schedule(ticked) ELSE ticked

(* RelayOwnerCadence.observe: a timer is only moved earlier. *)
ClientCount(present) ==
  /\ Alive
  /\ LET sooner  == present /\ p.long /\ p.tick # Never /\ Active < Idle
     IN p' = [p EXCEPT !.present = present, !.watched = IF present THEN @ ELSE 0,
                       !.long = @ /\ ~sooner,
                       !.tick = IF sooner THEN Greatest(0, @ - (Idle - Active)) ELSE @]

(* hedgeTimer *)
Hedge(sent) ==
  /\ Alive /\ Due(p.hedge)
  /\ p' = Request(p, sent)

(* refreshTimer *)
Refresh(sent) ==
  /\ Alive /\ Due(p.refresh)
  /\ LET fired == [p EXCEPT !.refresh = Never]
     IN p' = IF fired.window # Never /\ Remaining(fired) = 0 THEN Fail(fired)
             ELSE Request(fired, sent)

(* The timer of the cycle: a window suspends it. *)
CycleEnds ==
  /\ Alive /\ Due(p.timer)
  /\ p' = IF Grace(p) > 0 THEN [p EXCEPT !.timer = Grace(p)] ELSE Fail(p)

(* handleControl and confirmTransportPong: an answer with a nonce of the   *)
(* cycle.  Any other changes nothing.                                      *)
Answer(probe) ==
  /\ Alive
  /\ probe \in p.probes
  /\ p' = ConfirmCycle(p, probe)

(* noteTransfer, a relay.transfer-start, and the frame it announced.  A    *)
(* frame of a sound link is through, and answered, within the window.      *)
Through(t, time) ==
  LET blocked == Greatest(t.blocked, time)
  IN IF t.sound /\ blocked + Spacing + Lateness + MaxReply < Remaining(t)
     THEN [t EXCEPT !.blocked = blocked,
                    !.owed = IF @ = Never THEN Never ELSE Greatest(@, blocked)]
     ELSE Unsound(t)

SendLarge(time) ==
  /\ Alive /\ p.transfers
  /\ p' = RefreshAfterTransfer(Through([Begin(p) EXCEPT !.outgoing = TRUE], time))

Hint(time) ==
  /\ Alive /\ p.transfers
  /\ p' = Through([Begin(p) EXCEPT !.incoming = TRUE], time)

LargeArrives ==
  /\ Alive /\ p.incoming
  /\ p' = RefreshAfterTransfer([p EXCEPT !.incoming = FALSE,
                                         !.blocked = IF p.outgoing THEN @ ELSE 0])

Next ==
  \/ Reconnects \/ Pass \/ ClockJumps \/ LinkBreaks
  \/ Tick \/ \E present \in BOOLEAN : ClientCount(present)
  \/ \E sent \in BOOLEAN : Hedge(sent) \/ Refresh(sent)
  \/ CycleEnds
  \/ \E probe \in Probes : Answer(probe)
  \/ \E time \in 0 .. MaxTransfer : SendLarge(time) \/ Hint(time)
  \/ LargeArrives

Spec == Init /\ [][Next]_vars
-----------------------------------------------------------------------------
(* A cycle, the wait for a refresh and the suspension by a large frame     *)
(* exclude or include each other: a refresh waits instead of a cycle, and  *)
(* what suspends the deadline has a window.                                *)
TypeOK ==
  /\ p \in State
  /\ p.refresh # Never => p.probes = {}
  /\ p.probes # {} <=> p.timer # Never
  /\ p.incoming \/ p.outgoing => p.window # Never

(* Only an exact answer confirms: to a probe of the current cycle that was *)
(* sent after the last large frame began, before the deadline on either    *)
(* clock unless a window suspends it ("either current-cycle/current-       *)
(* transfer-generation reply confirms once", the connection diagnostics).  *)
ConfirmationsAreExact == p.exact

(* The echoes of a socket are Spacing apart, whatever starts them: a hedge,*)
(* a large frame or a stale answer.  The Relay's budget for echoes relies  *)
(* on it.                                                                  *)
EchoesAreSpaced == p.steady => p.spaced

(* A dead socket is given up: within the cadence and the deadline, and     *)
(* what a window adds once ("business traffic cannot clear it", "a lost    *)
(* round trip is nominally detected within 5 seconds of cadence plus its   *)
(* existing 5-second probe deadline", excluding large transfers).          *)
Suspended == IF p.window = Never THEN 0 ELSE Lease - p.window
Late      == 5 * Lateness
SilenceIsNoticed ==
  /\ p.silent <= Idle + Timeout + Suspended + Late
  /\ p.watched <= Active + Timeout + Suspended + Late

(* A Relay that answers in time is kept, although large frames delay its   *)
(* answers, as long as they are through within the window.                 *)
AnsweringRelayIsKept == p.sound /\ MaxReply < Timeout => ~p.failed
=============================================================================
