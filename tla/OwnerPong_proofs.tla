-------------------------- MODULE OwnerPong_proofs --------------------------
(***************************************************************************)
(* What OwnerPong promises, for all times and for both runtimes.  The      *)
(* inductive invariant has a part for each property: Shaped, which says    *)
(* what of a probe cycle can be set together, Proven for confirmations,    *)
(* Paced for echoes, Armed and Noticed for silence, Kept for answers.      *)
(***************************************************************************)
EXTENDS OwnerPong, TLAPS

Shaped(t) ==
  /\ t.refresh # Never => t.probes = {} /\ t.window # Never
  /\ t.probes # {} <=> t.timer # Never
  /\ t.hedge # Never => t.probes = {"ping"}
  /\ t.probes # {} /\ ~t.fresh => t.window # Never
  /\ t.incoming \/ t.outgoing => t.window # Never
  /\ t.window # Never => t.transfers
  /\ t.failed => t.probes = {} /\ t.refresh = Never

(* The probes of a cycle are proofs unless a large frame made them old. *)
Proven(t) ==
  /\ t.exact
  /\ t.fresh \/ ~t.transfers \/ t.probes = {} => t.proofs = t.probes

(* A timer that will send an echo is Spacing after the last one, or the    *)
(* window has run out when it fires.                                       *)
Paced(t) ==
  t.steady =>
    /\ t.spaced /\ ~t.ahead
    /\ t.hedge # Never => t.sinceEcho = Spacing \/ t.sinceEcho + t.hedge >= Spacing
    /\ t.refresh # Never =>
         \/ t.sinceEcho = Spacing \/ t.sinceEcho + t.refresh >= Spacing
         \/ t.expired \/ t.window <= Greatest(t.refresh, 0)

Quiet(t) == ~t.failed /\ t.probes = {} /\ t.refresh = Never

(* A quiet socket has a tick ahead, and soon if there are clients. *)
Armed(t) ==
  /\ Quiet(t) \/ t.repeat => t.tick # Never
  /\ t.tick # Never /\ (t.present \/ ~t.long) => t.tick <= Active
  /\ t.tick # Never /\ t.present /\ Active < Idle => ~t.long
  /\ ~t.present => t.watched = 0

(* Where a silence is in the course of a tick, a cycle and a window.  It is *)
(* age old; limit is the cadence, the deadline and the delay of both.      *)
Bounded(t, age, limit) ==
  /\ t.window # Never /\ t.window > 0 => age <= limit + Lateness + Lease - t.window
  /\ t.probes # {} =>
       \/ age + t.timer <= limit
       \/ t.window # Never /\ age + t.timer <= limit + Lateness + Lease
  /\ t.refresh # Never => age + t.refresh <= limit + 2 * Lateness + Lease

Limit(cadence) == cadence + Timeout + 2 * Lateness

InTime(t) ==
  LET suspended == IF t.window = Never THEN 0 ELSE Lease - t.window
  IN /\ t.silent  <= Idle + Timeout + suspended + 5 * Lateness
     /\ t.watched <= Active + Timeout + suspended + 5 * Lateness

Noticed(t) ==
  /\ InTime(t)
  /\ Quiet(t) => t.silent + t.tick <= Idle + (IF t.long THEN 0 ELSE Lateness)
  /\ Quiet(t) /\ t.present => t.watched + t.tick <= Active
  /\ t.probes # {} /\ t.window = Never => t.timer <= Timeout
  /\ ~t.failed => /\ Bounded(t, t.silent, Limit(Idle))
                  /\ Bounded(t, t.watched, Limit(Active))

(* The answer of a sound link comes before the deadline, or before the end *)
(* of the window that suspends it.                                         *)
Kept(t) ==
  t.sound /\ MaxReply < Timeout =>
    /\ ~t.failed /\ ~t.ahead /\ ~t.expired
    /\ t.incoming \/ t.outgoing \/ t.blocked = 0
    /\ t.probes # {} =>
         /\ t.owed # Never /\ t.owed <= t.blocked + MaxReply
         /\ t.incoming \/ t.outgoing \/ (t.owed < t.left /\ t.owed < t.timer)
         /\ t.window # Never => t.owed < t.window
         /\ t.fresh \/ t.incoming
    /\ t.refresh # Never => t.blocked + MaxReply + t.refresh + Lateness < t.window
    /\ t.incoming => t.blocked + Spacing + Lateness + MaxReply < t.window
    /\ Quiet(t) /\ t.window # Never => t.incoming

Inv(t) ==
  t \in State /\ Shaped(t) /\ Proven(t) /\ Paced(t) /\ Armed(t) /\ Noticed(t) /\ Kept(t)

IInv == Inv(p)

-----------------------------------------------------------------------------
(* What the operators of the model leave as it is, in four groups. *)
SameLine(r, t) ==
  /\ r.repeat = t.repeat /\ r.transfers = t.transfers /\ r.tick = t.tick /\ r.long = t.long
  /\ r.present = t.present /\ r.ahead = t.ahead /\ r.steady = t.steady
  /\ r.silent = t.silent /\ r.watched = t.watched /\ r.exact = t.exact
SameEcho(r, t) ==
  r.sinceEcho = t.sinceEcho /\ r.echoAhead = t.echoAhead /\ r.spaced = t.spaced
SameLink(r, t) == r.blocked = t.blocked /\ r.sound = t.sound
SameWindow(r, t) ==
  /\ r.window = t.window /\ r.windowAhead = t.windowAhead
  /\ r.incoming = t.incoming /\ r.outgoing = t.outgoing
SameCycle(r, t) ==
  /\ r.probes = t.probes /\ r.left = t.left /\ r.leftAhead = t.leftAhead
  /\ r.timer = t.timer /\ r.hedge = t.hedge /\ r.owed = t.owed /\ r.proofs = t.proofs
NoCycle(r) ==
  /\ r.probes = {} /\ r.timer = Never /\ r.hedge = Never /\ r.proofs = {} /\ ~r.fresh

(* The fields of a state that are compared or decided on. *)
Timed(time, max) == time # Never => time \in Int /\ time >= -Lateness /\ time <= max
Numbers(t) ==
  /\ t.left \in Int /\ t.left >= 0 /\ t.left <= Timeout
  /\ Timed(t.timer, Timeout + Lease) /\ Timed(t.hedge, Spacing)
  /\ Timed(t.refresh, Spacing) /\ Timed(t.tick, Idle)
  /\ t.window # Never => t.window \in Int /\ t.window >= 0 /\ t.window <= Lease
  /\ t.sinceEcho \in Int /\ t.sinceEcho >= 0 /\ t.sinceEcho <= Spacing
  /\ t.blocked \in Int /\ t.blocked >= 0 /\ t.blocked <= MaxTransfer
  /\ t.owed # Never => t.owed \in Int /\ t.owed >= 0 /\ t.owed <= MaxReply + MaxTransfer
  /\ t.silent \in Int /\ t.silent >= 0 /\ t.watched \in Int /\ t.watched >= 0
Flags(t) ==
  /\ t.repeat \in BOOLEAN /\ t.transfers \in BOOLEAN /\ t.failed \in BOOLEAN
  /\ t.fresh \in BOOLEAN /\ t.expired \in BOOLEAN /\ t.long \in BOOLEAN
  /\ t.incoming \in BOOLEAN /\ t.outgoing \in BOOLEAN /\ t.present \in BOOLEAN
  /\ t.ahead \in BOOLEAN /\ t.sound \in BOOLEAN /\ t.steady \in BOOLEAN
  /\ t.exact \in BOOLEAN /\ t.spaced \in BOOLEAN

LEMMA Constants ==
  /\ Idle \in Int /\ Idle > 0 /\ Active \in Int /\ Active > 0 /\ Active <= Idle
  /\ Timeout \in Int /\ Timeout > 0 /\ Spacing \in Int /\ Spacing > 0
  /\ Lease \in Int /\ Lease > 0 /\ Jump \in Int /\ Jump > 0
  /\ Lateness \in Int /\ Lateness >= 0 /\ MaxReply \in Int /\ MaxReply >= 0
  /\ MaxTransfer \in Int /\ MaxTransfer >= 0
  /\ Repeats \subseteq BOOLEAN /\ Never \notin Int
BY TimesAssumption

LEMMA NumbersLemma ==
  ASSUME NEW t \in State
  PROVE  Numbers(t) /\ Flags(t) /\ t.probes \subseteq Probes /\ t.proofs \subseteq Probes
<1>1. Timed(t.timer, Timeout + Lease) /\ Timed(t.hedge, Spacing) /\ Timed(t.refresh, Spacing)
  BY Constants DEF State, Timers, Timed
<1>2. Timed(t.tick, Idle)
  BY Constants DEF State, Timers, Timed
<1>3. Flags(t) /\ t.probes \subseteq Probes /\ t.proofs \subseteq Probes
  BY Constants DEF State, Flags
<1> QED BY <1>1, <1>2, <1>3, Constants DEF State, Numbers

LEMMA Members ==
  /\ 0 \in Nat /\ 0 \in 0 .. Timeout /\ Timeout \in 0 .. Timeout
  /\ 0 \in 0 .. MaxTransfer
  /\ 0 \in 0 .. Spacing /\ Spacing \in 0 .. Spacing
  /\ Lease \in 0 .. Lease
  /\ Never \in Timers(Timeout + Lease) /\ Never \in Timers(Spacing) /\ Never \in Timers(Idle)
  /\ Spacing \in Timers(Spacing) /\ Idle \in Timers(Idle) /\ Active \in Timers(Idle)
BY Constants DEF Timers

(* A record of State stays one when a field takes a value of its range.    *)
(* Updates of several fields are taken one field at a time with these.     *)
LEMMA SetFailed ==
  ASSUME NEW t \in State, NEW x \in BOOLEAN
  PROVE  [t EXCEPT !.failed = x] \in State
  BY Zenon DEF State

LEMMA SetProbes ==
  ASSUME NEW t \in State, NEW x \in SUBSET Probes
  PROVE  [t EXCEPT !.probes = x] \in State
  BY Zenon DEF State

LEMMA SetLeft ==
  ASSUME NEW t \in State, NEW x \in 0 .. Timeout
  PROVE  [t EXCEPT !.left = x] \in State
  BY Zenon DEF State

LEMMA SetLeftAhead ==
  ASSUME NEW t \in State, NEW x \in BOOLEAN
  PROVE  [t EXCEPT !.leftAhead = x] \in State
  BY Zenon DEF State

LEMMA SetFresh ==
  ASSUME NEW t \in State, NEW x \in BOOLEAN
  PROVE  [t EXCEPT !.fresh = x] \in State
  BY Zenon DEF State

LEMMA SetTimer ==
  ASSUME NEW t \in State, NEW x \in Timers(Timeout + Lease)
  PROVE  [t EXCEPT !.timer = x] \in State
  BY Zenon DEF State

LEMMA SetHedge ==
  ASSUME NEW t \in State, NEW x \in Timers(Spacing)
  PROVE  [t EXCEPT !.hedge = x] \in State
  BY Zenon DEF State

LEMMA SetRefresh ==
  ASSUME NEW t \in State, NEW x \in Timers(Spacing)
  PROVE  [t EXCEPT !.refresh = x] \in State
  BY Zenon DEF State

LEMMA SetWindow ==
  ASSUME NEW t \in State, NEW x \in (0 .. Lease) \union {Never}
  PROVE  [t EXCEPT !.window = x] \in State
  BY Zenon DEF State

LEMMA SetWindowAhead ==
  ASSUME NEW t \in State, NEW x \in BOOLEAN
  PROVE  [t EXCEPT !.windowAhead = x] \in State
  BY Zenon DEF State

LEMMA SetExpired ==
  ASSUME NEW t \in State, NEW x \in BOOLEAN
  PROVE  [t EXCEPT !.expired = x] \in State
  BY Zenon DEF State

LEMMA SetIncoming ==
  ASSUME NEW t \in State, NEW x \in BOOLEAN
  PROVE  [t EXCEPT !.incoming = x] \in State
  BY Zenon DEF State

LEMMA SetOutgoing ==
  ASSUME NEW t \in State, NEW x \in BOOLEAN
  PROVE  [t EXCEPT !.outgoing = x] \in State
  BY Zenon DEF State

LEMMA SetSinceEcho ==
  ASSUME NEW t \in State, NEW x \in 0 .. Spacing
  PROVE  [t EXCEPT !.sinceEcho = x] \in State
  BY Zenon DEF State

LEMMA SetEchoAhead ==
  ASSUME NEW t \in State, NEW x \in BOOLEAN
  PROVE  [t EXCEPT !.echoAhead = x] \in State
  BY Zenon DEF State

LEMMA SetTick ==
  ASSUME NEW t \in State, NEW x \in Timers(Idle)
  PROVE  [t EXCEPT !.tick = x] \in State
  BY Zenon DEF State

LEMMA SetLong ==
  ASSUME NEW t \in State, NEW x \in BOOLEAN
  PROVE  [t EXCEPT !.long = x] \in State
  BY Zenon DEF State

LEMMA SetPresent ==
  ASSUME NEW t \in State, NEW x \in BOOLEAN
  PROVE  [t EXCEPT !.present = x] \in State
  BY Zenon DEF State

LEMMA SetAhead ==
  ASSUME NEW t \in State, NEW x \in BOOLEAN
  PROVE  [t EXCEPT !.ahead = x] \in State
  BY Zenon DEF State

LEMMA SetBlocked ==
  ASSUME NEW t \in State, NEW x \in 0 .. MaxTransfer
  PROVE  [t EXCEPT !.blocked = x] \in State
  BY Zenon DEF State

LEMMA SetOwed ==
  ASSUME NEW t \in State, NEW x \in (0 .. MaxReply + MaxTransfer) \union {Never}
  PROVE  [t EXCEPT !.owed = x] \in State
  BY Zenon DEF State

LEMMA SetSound ==
  ASSUME NEW t \in State, NEW x \in BOOLEAN
  PROVE  [t EXCEPT !.sound = x] \in State
  BY Zenon DEF State

LEMMA SetSteady ==
  ASSUME NEW t \in State, NEW x \in BOOLEAN
  PROVE  [t EXCEPT !.steady = x] \in State
  BY Zenon DEF State

LEMMA SetProofs ==
  ASSUME NEW t \in State, NEW x \in SUBSET Probes
  PROVE  [t EXCEPT !.proofs = x] \in State
  BY Zenon DEF State

LEMMA SetExact ==
  ASSUME NEW t \in State, NEW x \in BOOLEAN
  PROVE  [t EXCEPT !.exact = x] \in State
  BY Zenon DEF State

LEMMA SetSpaced ==
  ASSUME NEW t \in State, NEW x \in BOOLEAN
  PROVE  [t EXCEPT !.spaced = x] \in State
  BY Zenon DEF State

LEMMA SetSilent ==
  ASSUME NEW t \in State, NEW x \in Nat
  PROVE  [t EXCEPT !.silent = x] \in State
  BY Zenon DEF State

LEMMA SetWatched ==
  ASSUME NEW t \in State, NEW x \in Nat
  PROVE  [t EXCEPT !.watched = x] \in State
  BY Zenon DEF State

LEMMA RemainingLemma ==
  ASSUME NEW t \in State
  PROVE  /\ Remaining(t) \in 0 .. Lease
         /\ t.window = Never => Remaining(t) = 0
         /\ t.window # Never => Remaining(t) <= t.window
         /\ ~t.ahead /\ ~t.expired /\ t.window # Never => Remaining(t) = t.window
         /\ Grace(t) = IF t.incoming \/ t.outgoing THEN Remaining(t) ELSE 0
BY Constants, NumbersLemma DEF Remaining, Grace, Drift, Greatest, Numbers, Flags

LEMMA LatchLemma ==
  ASSUME NEW t \in State
  PROVE  LET r == Latch(t)
         IN /\ r \in State
            /\ SameLine(r, t) /\ SameEcho(r, t) /\ SameLink(r, t) /\ SameWindow(r, t)
            /\ SameCycle(r, t) /\ r.failed = t.failed /\ r.refresh = t.refresh
            /\ IF t.window # Never /\ Remaining(t) = 0
               THEN r.expired /\ ~r.fresh
               ELSE r.expired = t.expired /\ r.fresh = t.fresh
<1> DEFINE u == [t EXCEPT !.expired = TRUE, !.fresh = FALSE]
<1>1. u \in State
  BY SetFresh, SetExpired, Zenon
<1>2. /\ SameLine(u, t) /\ SameEcho(u, t) /\ SameLink(u, t) /\ SameWindow(u, t)
      /\ SameCycle(u, t) /\ u.failed = t.failed /\ u.refresh = t.refresh
      /\ u.expired /\ ~u.fresh
  BY DEF State, SameLine, SameEcho, SameLink, SameWindow, SameCycle
<1>3. Latch(t) = IF t.window # Never /\ Remaining(t) = 0 THEN u ELSE t
  BY DEF Latch
<1> HIDE DEF u
<1> QED BY <1>1, <1>2, <1>3 DEF SameLine, SameEcho, SameLink, SameWindow, SameCycle

LEMMA ClearLemma ==
  ASSUME NEW t \in State
  PROVE  LET r == Clear(t)
         IN /\ r \in State /\ NoCycle(r)
            /\ SameLine(r, t) /\ SameEcho(r, t) /\ SameLink(r, t) /\ SameWindow(r, t)
            /\ r.failed = t.failed /\ r.refresh = t.refresh /\ r.expired = t.expired
<1>1. Clear(t) \in State
  <2>1. {} \in SUBSET Probes
    OBVIOUS
  <2> QED BY <2>1, Members, SetProbes, SetLeft, SetLeftAhead, SetFresh, SetTimer, SetHedge,
             SetOwed, SetProofs, Zenon DEF Clear
<1> QED BY <1>1 DEF Clear, State, NoCycle, SameLine, SameEcho, SameLink, SameWindow

LEMMA FailLemma ==
  ASSUME NEW t \in State
  PROVE  LET r == Fail(t)
         IN /\ r \in State /\ NoCycle(r) /\ r.failed /\ r.refresh = Never
            /\ SameLine(r, t) /\ SameEcho(r, t) /\ SameLink(r, t) /\ SameWindow(r, t)
<1> DEFINE u == Clear(t)
<1>1. /\ u \in State /\ NoCycle(u)
      /\ SameLine(u, t) /\ SameEcho(u, t) /\ SameLink(u, t) /\ SameWindow(u, t)
  BY ClearLemma
<1>2. Fail(t) = [u EXCEPT !.failed = TRUE, !.refresh = Never]
  BY DEF Fail
<1> HIDE DEF u
<1>3. Fail(t) \in State
  <2>1. [u EXCEPT !.failed = TRUE, !.refresh = Never] \in State
    BY <1>1, Members, SetFailed, SetRefresh, Zenon
  <2> QED BY <1>2, <2>1
<1> QED BY <1>1, <1>2, <1>3 DEF State, NoCycle, SameLine, SameEcho, SameLink, SameWindow

LEMMA UnsoundLemma ==
  ASSUME NEW t \in State
  PROVE  LET r == Unsound(t)
         IN /\ r \in State /\ ~r.sound
            /\ SameLine(r, t) /\ SameEcho(r, t) /\ SameWindow(r, t)
            /\ r.probes = t.probes /\ r.left = t.left /\ r.timer = t.timer /\ r.hedge = t.hedge
            /\ r.proofs = t.proofs /\ r.fresh = t.fresh /\ r.expired = t.expired
            /\ r.failed = t.failed /\ r.refresh = t.refresh
<1>1. Unsound(t) \in State
  BY Members, SetBlocked, SetOwed, SetSound, Zenon DEF Unsound
<1> QED BY <1>1 DEF Unsound, State, SameLine, SameEcho, SameWindow

(* A cycle that begins has its deadline Timeout ahead, and looks at the    *)
(* window before it ends.                                                  *)
LEMMA BeginCycleLemma ==
  ASSUME NEW t \in State
  PROVE  LET r == BeginCycle(t)
         IN /\ r \in State
            /\ SameLine(r, t) /\ SameEcho(r, t) /\ SameLink(r, t) /\ SameWindow(r, t)
            /\ r.probes = t.probes /\ r.proofs = t.proofs /\ r.hedge = t.hedge
            /\ r.failed = t.failed /\ r.refresh = t.refresh
            /\ r.left = Timeout /\ r.leftAhead = t.ahead
            /\ r.timer = IF t.window = Never THEN Timeout ELSE Least(Timeout, Remaining(t))
            /\ t.sound => r.owed = t.blocked + MaxReply
            /\ IF t.window # Never /\ Remaining(t) = 0
               THEN r.expired /\ ~r.fresh
               ELSE r.expired = t.expired /\ r.fresh
<1> DEFINE e == IF t.window = Never THEN Timeout ELSE Least(Timeout, Remaining(t))
           o == IF t.sound THEN t.blocked + MaxReply ELSE Never
           u == [t EXCEPT !.left = Timeout, !.leftAhead = t.ahead, !.fresh = TRUE,
                          !.timer = e, !.owed = o]
<1>1. e \in Timers(Timeout + Lease)
  BY Constants, RemainingLemma DEF Timers, Least
<1>2. o \in (0 .. MaxReply + MaxTransfer) \union {Never}
  BY Constants, NumbersLemma DEF Numbers
<1>3. BeginCycle(t) = Latch(u)
  BY DEF BeginCycle
<1> HIDE DEF e, o
<1>4. u \in State
  <2>1. t.ahead \in BOOLEAN
    BY DEF State
  <2> QED BY <1>1, <1>2, <2>1, Members, SetLeft, SetLeftAhead, SetFresh, SetTimer, SetOwed, Zenon
<1>5. /\ SameLine(u, t) /\ SameEcho(u, t) /\ SameLink(u, t) /\ SameWindow(u, t)
      /\ u.probes = t.probes /\ u.proofs = t.proofs /\ u.hedge = t.hedge
      /\ u.failed = t.failed /\ u.refresh = t.refresh /\ u.expired = t.expired
      /\ u.left = Timeout /\ u.leftAhead = t.ahead /\ u.timer = e /\ u.owed = o /\ u.fresh
  BY DEF State, SameLine, SameEcho, SameLink, SameWindow
<1> HIDE DEF u
<1>6. Remaining(u) = Remaining(t)
  BY <1>5 DEF Remaining, Drift, SameWindow, SameLine
<1> QED BY <1>3, <1>4, <1>5, <1>6, LatchLemma
        DEF e, o, SameLine, SameEcho, SameLink, SameWindow, SameCycle

LEMMA StartPingLemma ==
  ASSUME NEW t \in State, t.probes = {}, t.refresh = Never
  PROVE  LET r == StartPing(t)
         IN /\ r \in State
            /\ SameLine(r, t) /\ SameEcho(r, t) /\ SameLink(r, t) /\ SameWindow(r, t)
            /\ r.probes = {"ping"} /\ r.proofs = {"ping"}
            /\ r.hedge = IF Timeout > Spacing THEN Spacing ELSE Never
            /\ r.failed = t.failed /\ r.refresh = Never /\ r.left = Timeout
            /\ r.timer = IF t.window = Never THEN Timeout ELSE Least(Timeout, Remaining(t))
            /\ t.sound => r.owed = t.blocked + MaxReply
            /\ IF t.window # Never /\ Remaining(t) = 0
               THEN r.expired /\ ~r.fresh
               ELSE r.expired = t.expired /\ r.fresh
<1> DEFINE u == BeginCycle(t)
           h == IF Timeout > Spacing THEN Spacing ELSE Never
<1>1. h \in Timers(Spacing) /\ {"ping"} \subseteq Probes
  BY Members DEF Probes
<1>2. StartPing(t) = [u EXCEPT !.probes = {"ping"}, !.proofs = {"ping"}, !.hedge = h]
  BY DEF StartPing
<1>3. u \in State
  BY BeginCycleLemma
<1> HIDE DEF u, h
<1>4. StartPing(t) \in State
  <2>1. [u EXCEPT !.probes = {"ping"}, !.proofs = {"ping"}, !.hedge = h] \in State
    BY <1>1, <1>3, SetProbes, SetHedge, SetProofs, Zenon
  <2> QED BY <1>2, <2>1
<1>5. LET r == StartPing(t)
      IN /\ SameLine(r, u) /\ SameEcho(r, u) /\ SameLink(r, u) /\ SameWindow(r, u)
         /\ r.probes = {"ping"} /\ r.proofs = {"ping"} /\ r.hedge = h
         /\ r.failed = u.failed /\ r.refresh = u.refresh /\ r.left = u.left
         /\ r.timer = u.timer /\ r.owed = u.owed /\ r.expired = u.expired /\ r.fresh = u.fresh
  BY <1>2, <1>3 DEF State, SameLine, SameEcho, SameLink, SameWindow
<1> HIDE DEF StartPing
<1> QED BY <1>4, <1>5, BeginCycleLemma DEF u, h, SameLine, SameEcho, SameLink, SameWindow

(* An echo is sent, or throws, or the cycle has expired by then. *)
LEMMA RequestLemma ==
  ASSUME NEW t \in State, NEW sent \in BOOLEAN
  PROVE  LET r     == Request(t, sent)
             cycle == IF t.probes = {} THEN BeginCycle(t) ELSE t
             late  == t.spaced /\ t.sinceEcho = Spacing
         IN /\ r \in State /\ SameLine(r, t) /\ SameWindow(r, t)
            /\ \/ /\ Expired(cycle) /\ r.failed /\ NoCycle(r) /\ r.refresh = Never
                  /\ SameEcho(r, t) /\ SameLink(r, t)
               \/ /\ ~r.sound /\ r.failed /\ NoCycle(r) /\ r.refresh = Never
                  /\ r.spaced = late
               \/ /\ ~Expired(cycle) /\ r.spaced = late
                  /\ r.probes = t.probes \union {"echo"} /\ r.proofs = t.proofs \union {"echo"}
                  /\ r.hedge = Never /\ r.left = cycle.left /\ r.timer = cycle.timer
                  /\ r.fresh = cycle.fresh /\ r.expired = cycle.expired
                  /\ r.failed = t.failed /\ r.refresh = t.refresh
                  /\ r.sound => t.sound /\ r.blocked = t.blocked /\ r.owed = cycle.owed
<1> DEFINE u == IF t.probes = {} THEN BeginCycle(t) ELSE t
           late == t.spaced /\ t.sinceEcho = Spacing
           pr == u.probes \union {"echo"}
           pf == u.proofs \union {"echo"}
           e == [u EXCEPT !.probes = pr, !.proofs = pf,
                          !.hedge = Never, !.sinceEcho = 0, !.echoAhead = t.ahead,
                          !.spaced = late]
           v == Unsound(e)
           r == Request(t, sent)
<1>1. /\ u \in State /\ SameLine(u, t) /\ SameEcho(u, t) /\ SameLink(u, t) /\ SameWindow(u, t)
      /\ u.probes = t.probes /\ u.proofs = t.proofs /\ u.failed = t.failed
      /\ u.refresh = t.refresh
  BY BeginCycleLemma DEF SameLine, SameEcho, SameLink, SameWindow
<1>2. pr \subseteq Probes /\ pf \subseteq Probes
  BY <1>1, NumbersLemma DEF Probes
<1>3. late \in BOOLEAN
  OBVIOUS
<1>4. r = IF Expired(u) THEN Fail(u)
          ELSE IF sent THEN e
          ELSE IF "ping" \in t.probes THEN v ELSE Fail(v)
  <2>1. e = [u EXCEPT !.probes = @ \union {"echo"}, !.proofs = @ \union {"echo"},
                      !.hedge = Never, !.sinceEcho = 0, !.echoAhead = t.ahead,
                      !.spaced = @ /\ t.sinceEcho = Spacing]
    <3>1. u.spaced = t.spaced
      BY <1>1 DEF SameEcho
    <3> QED BY <3>1, <1>1 DEF State
  <2> QED BY <2>1 DEF Request
<1> HIDE DEF pr, pf, late, r
<1>5. e \in State
  <2>1. t.ahead \in BOOLEAN
    BY DEF State
  <2> HIDE DEF u
  <2> QED BY <1>1, <1>2, <1>3, <2>1, Members, SetProbes, SetHedge, SetSinceEcho, SetEchoAhead,
             SetProofs, SetSpaced, Zenon
<1>6. /\ SameLine(e, u) /\ SameLink(e, u) /\ SameWindow(e, u)
      /\ e.probes = pr /\ e.proofs = pf /\ e.hedge = Never /\ e.spaced = late
      /\ e.left = u.left /\ e.timer = u.timer /\ e.fresh = u.fresh /\ e.expired = u.expired
      /\ e.failed = u.failed /\ e.refresh = u.refresh /\ e.owed = u.owed
  <2> HIDE DEF u
  <2> QED BY <1>1 DEF State, SameLine, SameLink, SameWindow
<1> HIDE DEF e
<1>7. /\ v \in State /\ ~v.sound /\ SameLine(v, e) /\ SameEcho(v, e) /\ SameWindow(v, e)
      /\ v.probes = e.probes /\ v.left = e.left /\ v.timer = e.timer /\ v.hedge = e.hedge
      /\ v.proofs = e.proofs /\ v.fresh = e.fresh /\ v.expired = e.expired
      /\ v.failed = e.failed /\ v.refresh = e.refresh
  BY <1>5, UnsoundLemma
<1> HIDE DEF v
<1>8. LET f == Fail(u)
      IN /\ f \in State /\ NoCycle(f) /\ f.failed /\ f.refresh = Never
         /\ SameLine(f, t) /\ SameEcho(f, t) /\ SameLink(f, t) /\ SameWindow(f, t)
  <2> HIDE DEF u
  <2> QED BY <1>1, FailLemma DEF SameLine, SameEcho, SameLink, SameWindow
<1>9. LET f == Fail(v)
      IN /\ f \in State /\ NoCycle(f) /\ f.failed /\ f.refresh = Never
         /\ SameLine(f, v) /\ SameEcho(f, v) /\ SameLink(f, v) /\ SameWindow(f, v)
  BY <1>7, FailLemma
<1>10. CASE Expired(u)
  BY <1>4, <1>8, <1>10 DEF r
<1>11. CASE ~Expired(u) /\ sent
  <2> HIDE DEF u
  <2>1. r = e
    BY <1>4, <1>11
  <2>2. r \in State /\ SameLine(r, t) /\ SameWindow(r, t)
    BY <1>1, <1>5, <1>6, <2>1 DEF SameLine, SameWindow
  <2>3. /\ r.probes = t.probes \union {"echo"} /\ r.proofs = t.proofs \union {"echo"}
        /\ r.sound = t.sound /\ r.blocked = t.blocked
    BY <1>1, <1>6, <2>1 DEF pr, pf, SameLink
  <2> QED BY <1>1, <1>6, <1>11, <2>1, <2>2, <2>3 DEF r, late, u
<1>12. CASE ~Expired(u) /\ ~sent /\ "ping" \in t.probes
  <2> HIDE DEF u
  <2>1. r = v
    BY <1>4, <1>12
  <2>2. r \in State /\ SameLine(r, t) /\ SameWindow(r, t)
    BY <1>1, <1>6, <1>7, <2>1 DEF SameLine, SameWindow
  <2>3. /\ r.probes = t.probes \union {"echo"} /\ r.proofs = t.proofs \union {"echo"}
        /\ r.spaced = late
    BY <1>1, <1>6, <1>7, <2>1 DEF pr, pf, SameEcho
  <2> QED BY <1>1, <1>6, <1>7, <1>12, <2>1, <2>2, <2>3 DEF r, late, u
<1>13. CASE ~Expired(u) /\ ~sent /\ "ping" \notin t.probes
  <2> HIDE DEF u
  <2>1. r = Fail(v)
    BY <1>4, <1>13
  <2>2. r \in State /\ SameLine(r, t) /\ SameWindow(r, t)
    BY <1>1, <1>6, <1>7, <1>9, <2>1 DEF SameLine, SameWindow
  <2>3. ~r.sound /\ r.failed /\ NoCycle(r) /\ r.refresh = Never /\ r.spaced = late
    BY <1>6, <1>7, <1>9, <2>1 DEF SameEcho, SameLink
  <2> QED BY <2>2, <2>3 DEF r, late
<1> QED BY <1>10, <1>11, <1>12, <1>13

LEMMA FreshEchoLemma ==
  ASSUME NEW t \in State
  PROVE  LET r    == FreshEcho(t)
             wait == Greatest(0, Spacing - (t.sinceEcho + Drift(t, t.echoAhead)))
         IN /\ r \in State
            /\ SameLine(r, t) /\ SameEcho(r, t) /\ SameLink(r, t) /\ SameWindow(r, t)
            /\ SameCycle(r, t) /\ r.failed = t.failed /\ r.refresh # Never
            /\ t.refresh # Never => r = t
            /\ t.refresh = Never =>
                 /\ r.refresh = Least(wait, Remaining(t))
                 /\ r.refresh >= 0 /\ r.refresh <= Spacing /\ r.refresh <= Remaining(t)
                 /\ IF t.window # Never /\ Remaining(t) = 0
                    THEN r.expired /\ ~r.fresh
                    ELSE r.expired = t.expired /\ r.fresh = t.fresh
<1> DEFINE u == Latch(t)
           w == Least(Greatest(0, Spacing - (t.sinceEcho + Drift(t, t.echoAhead))), Remaining(t))
           v == [u EXCEPT !.refresh = w]
<1>1. w \in Int /\ w >= 0 /\ w <= Spacing /\ w <= Remaining(t)
  <2>1. Drift(t, t.echoAhead) \in Int /\ Drift(t, t.echoAhead) >= 0
    BY Constants DEF Drift
  <2> QED BY <2>1, Constants, NumbersLemma, RemainingLemma DEF Numbers, Least, Greatest
<1>2. w \in Timers(Spacing) /\ w # Never
  BY <1>1, Constants DEF Timers
<1>3. FreshEcho(t) = IF t.refresh # Never THEN t ELSE v
  BY DEF FreshEcho
<1>4. u \in State
  BY LatchLemma
<1> HIDE DEF u, w
<1>5. v \in State
  BY <1>2, <1>4 DEF State
<1>6. /\ SameLine(v, u) /\ SameEcho(v, u) /\ SameLink(v, u) /\ SameWindow(v, u)
      /\ SameCycle(v, u) /\ v.failed = u.failed /\ v.refresh = w
      /\ v.expired = u.expired /\ v.fresh = u.fresh
  BY <1>4 DEF State, SameLine, SameEcho, SameLink, SameWindow, SameCycle
<1> HIDE DEF v
<1>7. CASE t.refresh # Never
  BY <1>3, <1>7 DEF SameLine, SameEcho, SameLink, SameWindow, SameCycle
<1>8. CASE t.refresh = Never
  <2>1. FreshEcho(t) = v
    BY <1>3, <1>8
  <2>2. /\ SameLine(v, t) /\ SameEcho(v, t) /\ SameLink(v, t) /\ SameWindow(v, t)
        /\ SameCycle(v, t) /\ v.failed = t.failed
        /\ IF t.window # Never /\ Remaining(t) = 0
           THEN v.expired /\ ~v.fresh
           ELSE v.expired = t.expired /\ v.fresh = t.fresh
    BY <1>6, LatchLemma DEF u, SameLine, SameEcho, SameLink, SameWindow, SameCycle
  <2> QED BY <1>1, <1>2, <1>5, <1>6, <1>8, <2>1, <2>2 DEF w
<1> QED BY <1>7, <1>8

(* A cycle is given up for an echo of its own. *)
LEMMA ClearedLemma ==
  ASSUME NEW t \in State
  PROVE  LET r    == FreshEcho(Clear(t))
             wait == Greatest(0, Spacing - (t.sinceEcho + Drift(t, t.echoAhead)))
         IN /\ r \in State /\ NoCycle(r)
            /\ SameLine(r, t) /\ SameEcho(r, t) /\ SameLink(r, t) /\ SameWindow(r, t)
            /\ r.failed = t.failed /\ r.refresh # Never
            /\ t.refresh # Never => r.refresh = t.refresh /\ r.expired = t.expired
            /\ t.refresh = Never =>
                 /\ r.refresh = Least(wait, Remaining(t))
                 /\ r.refresh >= 0 /\ r.refresh <= Spacing /\ r.refresh <= Remaining(t)
                 /\ r.expired <=> t.expired \/ (t.window # Never /\ Remaining(t) = 0)
<1> DEFINE u == Clear(t)
           r == FreshEcho(u)
<1>1. /\ u \in State /\ NoCycle(u)
      /\ SameLine(u, t) /\ SameEcho(u, t) /\ SameLink(u, t) /\ SameWindow(u, t)
      /\ u.failed = t.failed /\ u.refresh = t.refresh /\ u.expired = t.expired
  BY ClearLemma
<1>2. Remaining(u) = Remaining(t) /\ Drift(u, u.echoAhead) = Drift(t, t.echoAhead)
  BY <1>1 DEF Remaining, Drift, SameWindow, SameLine, SameEcho
<1> HIDE DEF u
<1>3. /\ r \in State
      /\ SameLine(r, u) /\ SameEcho(r, u) /\ SameLink(r, u) /\ SameWindow(r, u)
      /\ SameCycle(r, u) /\ r.failed = u.failed /\ r.refresh # Never
      /\ u.refresh # Never => r = u
  BY <1>1, FreshEchoLemma
<1>4. SameLine(r, t) /\ SameEcho(r, t) /\ SameLink(r, t) /\ SameWindow(r, t)
  BY <1>1, <1>3 DEF SameLine, SameEcho, SameLink, SameWindow
<1>5. CASE t.refresh # Never
  BY <1>1, <1>3, <1>4, <1>5 DEF u
<1>6. CASE t.refresh = Never
  <2>1. /\ r.refresh = Least(Greatest(0, Spacing - (u.sinceEcho + Drift(u, u.echoAhead))),
                             Remaining(u))
        /\ r.refresh >= 0 /\ r.refresh <= Spacing /\ r.refresh <= Remaining(u)
        /\ IF u.window # Never /\ Remaining(u) = 0
           THEN r.expired /\ ~r.fresh
           ELSE r.expired = u.expired /\ r.fresh = u.fresh
    BY <1>1, <1>6, FreshEchoLemma
  <2>2. r.expired <=> t.expired \/ (t.window # Never /\ Remaining(t) = 0)
    BY <1>1, <1>2, <1>3, <2>1, NumbersLemma DEF SameWindow, Flags
  <2>3. NoCycle(r)
    BY <1>1, <1>3, <2>1 DEF SameCycle, NoCycle
  <2> QED BY <1>1, <1>2, <1>3, <1>4, <1>6, <2>1, <2>2, <2>3 DEF u, SameEcho
<1> QED BY <1>5, <1>6

LEMMA BeginLemma ==
  ASSUME NEW t \in State
  PROVE  LET r == Begin(t)
         IN /\ r \in State
            /\ SameLine(r, t) /\ SameEcho(r, t) /\ SameLink(r, t)
            /\ r.probes = t.probes /\ r.left = t.left /\ r.timer = t.timer /\ r.hedge = t.hedge
            /\ r.owed = t.owed /\ r.failed = t.failed /\ r.refresh = t.refresh
            /\ r.expired = t.expired /\ r.incoming = t.incoming /\ r.outgoing = t.outgoing
            /\ ~r.fresh /\ r.proofs = {} /\ r.window # Never
            /\ t.window # Never => r.window = t.window
            /\ t.window = Never => r.window = Lease
<1> DEFINE w == IF t.window = Never THEN Lease ELSE t.window
           a == IF t.window = Never THEN t.ahead ELSE t.windowAhead
<1>1. /\ w \in (0 .. Lease) \union {Never} /\ a \in BOOLEAN /\ w # Never
  BY Members, Constants DEF State
<1>2. Begin(t) = [t EXCEPT !.fresh = FALSE, !.proofs = {}, !.window = w, !.windowAhead = a]
  BY DEF Begin, State
<1> HIDE DEF w, a
<1>3. Begin(t) \in State
  <2>1. {} \in SUBSET Probes
    OBVIOUS
  <2> QED
    <3>1. [t EXCEPT !.fresh = FALSE, !.proofs = {}, !.window = w, !.windowAhead = a] \in State
      BY <1>1, <2>1, SetFresh, SetWindow, SetWindowAhead, SetProofs, Zenon
    <3> QED BY <1>2, <3>1
<1>4. /\ t.window # Never => w = t.window
      /\ t.window = Never => w = Lease
  BY DEF w
<1> QED BY <1>1, <1>2, <1>3, <1>4 DEF State, SameLine, SameEcho, SameLink

(* A large frame that a sound link lets through leaves time for an echo    *)
(* and its answer in the window.                                           *)
LEMMA ThroughLemma ==
  ASSUME NEW t \in State, NEW time \in 0 .. MaxTransfer
  PROVE  LET r == Through(t, time)
         IN /\ r \in State
            /\ SameLine(r, t) /\ SameEcho(r, t) /\ SameWindow(r, t)
            /\ r.probes = t.probes /\ r.left = t.left /\ r.timer = t.timer /\ r.hedge = t.hedge
            /\ r.proofs = t.proofs /\ r.fresh = t.fresh /\ r.expired = t.expired
            /\ r.failed = t.failed /\ r.refresh = t.refresh
            /\ r.sound =>
                 /\ t.sound /\ r.blocked >= t.blocked
                 /\ r.blocked + Spacing + Lateness + MaxReply < Remaining(t)
                 /\ t.owed = Never => r.owed = Never
                 /\ t.owed # Never => r.owed = Greatest(t.owed, r.blocked)
<1> DEFINE b == Greatest(t.blocked, time)
           o == IF t.owed = Never THEN Never ELSE Greatest(t.owed, b)
           u == [t EXCEPT !.blocked = b, !.owed = o]
           v == Unsound(t)
<1>1. /\ b \in 0 .. MaxTransfer /\ b >= t.blocked
      /\ o \in (0 .. MaxReply + MaxTransfer) \union {Never}
  BY Constants, NumbersLemma DEF Numbers, Greatest
<1>2. Through(t, time) =
        IF t.sound /\ b + Spacing + Lateness + MaxReply < Remaining(t) THEN u ELSE v
  BY DEF Through, State
<1>3. /\ t.owed = Never => o = Never
      /\ t.owed # Never => o = Greatest(t.owed, b)
  OBVIOUS
<1> HIDE DEF b, o
<1>4. u \in State
  BY <1>1, SetBlocked, SetOwed, Zenon
<1>5. /\ SameLine(u, t) /\ SameEcho(u, t) /\ SameWindow(u, t)
      /\ u.probes = t.probes /\ u.left = t.left /\ u.timer = t.timer /\ u.hedge = t.hedge
      /\ u.proofs = t.proofs /\ u.fresh = t.fresh /\ u.expired = t.expired
      /\ u.failed = t.failed /\ u.refresh = t.refresh
      /\ u.sound = t.sound /\ u.blocked = b /\ u.owed = o
  BY DEF State, SameLine, SameEcho, SameWindow
<1> HIDE DEF u
<1>6. /\ v \in State /\ ~v.sound
      /\ SameLine(v, t) /\ SameEcho(v, t) /\ SameWindow(v, t)
      /\ v.probes = t.probes /\ v.left = t.left /\ v.timer = t.timer /\ v.hedge = t.hedge
      /\ v.proofs = t.proofs /\ v.fresh = t.fresh /\ v.expired = t.expired
      /\ v.failed = t.failed /\ v.refresh = t.refresh
  BY UnsoundLemma
<1> HIDE DEF v
<1>7. CASE t.sound /\ b + Spacing + Lateness + MaxReply < Remaining(t)
  BY <1>1, <1>2, <1>3, <1>4, <1>5, <1>7
<1>8. CASE ~(t.sound /\ b + Spacing + Lateness + MaxReply < Remaining(t))
  BY <1>2, <1>6, <1>8
<1> QED BY <1>7, <1>8

LEMMA ScheduleLemma ==
  ASSUME NEW t \in State
  PROVE  LET r == Schedule(t)
         IN /\ r \in State /\ r.tick # Never
            /\ t.tick # Never => r.tick = t.tick /\ r.long = t.long
            /\ t.tick = Never => /\ r.tick = IF t.present THEN Active ELSE Idle
                                 /\ r.long <=> ~t.present
            /\ SameEcho(r, t) /\ SameLink(r, t) /\ SameWindow(r, t) /\ SameCycle(r, t)
            /\ r.failed = t.failed /\ r.refresh = t.refresh /\ r.expired = t.expired
            /\ r.fresh = t.fresh /\ r.repeat = t.repeat /\ r.transfers = t.transfers
            /\ r.present = t.present /\ r.ahead = t.ahead /\ r.steady = t.steady
            /\ r.silent = t.silent /\ r.watched = t.watched /\ r.exact = t.exact
<1> DEFINE k == IF t.present THEN Active ELSE Idle
           l == ~t.present
           u == [t EXCEPT !.tick = k, !.long = l]
<1>1. k \in Timers(Idle) /\ k # Never /\ l \in BOOLEAN
  BY Members, Constants
<1>2. Schedule(t) = IF t.tick # Never THEN t ELSE u
  BY DEF Schedule
<1>3. k = (IF t.present THEN Active ELSE Idle) /\ (l <=> ~t.present)
  OBVIOUS
<1> HIDE DEF k, l
<1>4. u \in State
  BY <1>1, SetTick, SetLong, Zenon
<1>5. /\ u.tick = k /\ u.long = l
      /\ SameEcho(u, t) /\ SameLink(u, t) /\ SameWindow(u, t) /\ SameCycle(u, t)
      /\ u.failed = t.failed /\ u.refresh = t.refresh /\ u.expired = t.expired
      /\ u.fresh = t.fresh /\ u.repeat = t.repeat /\ u.transfers = t.transfers
      /\ u.present = t.present /\ u.ahead = t.ahead /\ u.steady = t.steady
      /\ u.silent = t.silent /\ u.watched = t.watched /\ u.exact = t.exact
  BY DEF State, SameEcho, SameLink, SameWindow, SameCycle
<1> HIDE DEF u
<1>6. CASE t.tick # Never
  BY <1>2, <1>6 DEF SameEcho, SameLink, SameWindow, SameCycle
<1>7. CASE t.tick = Never
  BY <1>1, <1>2, <1>3, <1>4, <1>5, <1>7
<1> QED BY <1>6, <1>7

(* A confirmation ends the cycle and the window, and begins a new silence. *)
LEMMA ConfirmLemma ==
  ASSUME NEW t \in State, NEW probe \in Probes
  PROVE  LET r      == Confirm(t, probe)
             intime == t.left > Drift(t, t.leftAhead) \/ Grace(t) > 0
         IN /\ r \in State /\ NoCycle(r) /\ SameEcho(r, t)
            /\ r.refresh = Never /\ r.window = Never /\ ~r.expired /\ ~r.outgoing
            /\ r.incoming = t.incoming /\ r.blocked = 0 /\ r.sound = t.sound
            /\ r.failed = t.failed /\ r.repeat = t.repeat /\ r.transfers = t.transfers
            /\ r.present = t.present /\ r.ahead = t.ahead /\ r.steady = t.steady
            /\ r.silent = 0 /\ r.watched = 0
            /\ t.exact /\ intime /\ probe \in t.proofs => r.exact
            /\ t.repeat \/ t.tick # Never => r.tick = t.tick /\ r.long = t.long
            /\ ~t.repeat /\ t.tick = Never => /\ r.tick = IF t.present THEN Active ELSE Idle
                                              /\ r.long <=> ~t.present
<1> DEFINE intime == t.left > Drift(t, t.leftAhead) \/ Grace(t) > 0
           x == t.exact /\ intime /\ probe \in t.proofs
           u == Clear(t)
           v == [u EXCEPT !.refresh = Never, !.window = Never, !.windowAhead = FALSE,
                          !.expired = FALSE, !.outgoing = FALSE, !.blocked = 0,
                          !.silent = 0, !.watched = 0, !.exact = x]
           r == Confirm(t, probe)
<1>1. /\ u \in State /\ NoCycle(u)
      /\ SameLine(u, t) /\ SameEcho(u, t) /\ SameLink(u, t) /\ SameWindow(u, t)
      /\ u.failed = t.failed
  BY ClearLemma
<1>2. r = IF t.repeat THEN v ELSE Schedule(v)
  <2>1. v = [u EXCEPT !.refresh = Never, !.window = Never, !.windowAhead = FALSE,
                      !.expired = FALSE, !.outgoing = FALSE, !.blocked = 0,
                      !.silent = 0, !.watched = 0,
                      !.exact = @ /\ (intime /\ probe \in t.proofs)]
    <3>1. u.exact = t.exact
      BY <1>1 DEF SameLine
    <3>2. x = (u.exact /\ (intime /\ probe \in t.proofs))
      BY <3>1
    <3> HIDE DEF x, intime, u
    <3> QED BY <3>2, <1>1 DEF State
  <2> QED BY <2>1 DEF Confirm
<1>3. x \in BOOLEAN
  BY NumbersLemma DEF Flags
<1> HIDE DEF u, x, r
<1>4. v \in State
  <2>1. Never \in (0 .. Lease) \union {Never}
    OBVIOUS
  <2> QED BY <1>1, <1>3, <2>1, Members, SetRefresh, SetWindow, SetWindowAhead, SetExpired,
             SetOutgoing, SetBlocked, SetExact, SetSilent, SetWatched, Zenon
<1>5. /\ NoCycle(v) /\ SameEcho(v, u) /\ v.refresh = Never /\ v.window = Never
      /\ ~v.expired /\ ~v.outgoing /\ v.incoming = u.incoming /\ v.blocked = 0
      /\ v.sound = u.sound /\ v.failed = u.failed /\ v.repeat = u.repeat
      /\ v.transfers = u.transfers /\ v.present = u.present /\ v.ahead = u.ahead
      /\ v.steady = u.steady /\ v.silent = 0 /\ v.watched = 0 /\ v.exact = x
      /\ v.tick = u.tick /\ v.long = u.long
  BY <1>1 DEF State, NoCycle, SameEcho
<1> HIDE DEF v
<1>6. /\ NoCycle(v) /\ SameEcho(v, t) /\ v.incoming = t.incoming /\ v.sound = t.sound
      /\ v.failed = t.failed /\ v.repeat = t.repeat /\ v.transfers = t.transfers
      /\ v.present = t.present /\ v.ahead = t.ahead /\ v.steady = t.steady
      /\ v.tick = t.tick /\ v.long = t.long
  BY <1>1, <1>5 DEF SameLine, SameEcho, SameLink, SameWindow
<1>7. t.exact /\ intime /\ probe \in t.proofs => x
  BY DEF x
<1>8. CASE t.repeat
  <2>1. r = v
    BY <1>2, <1>8
  <2> QED BY <1>4, <1>5, <1>6, <1>7, <1>8, <2>1 DEF r
<1>9. CASE ~t.repeat
  <2>1. r = Schedule(v)
    BY <1>2, <1>9
  <2>2. /\ r \in State /\ r.tick # Never
        /\ v.tick # Never => r.tick = v.tick /\ r.long = v.long
        /\ v.tick = Never => /\ r.tick = IF v.present THEN Active ELSE Idle
                             /\ r.long <=> ~v.present
        /\ SameEcho(r, v) /\ SameLink(r, v) /\ SameWindow(r, v) /\ SameCycle(r, v)
        /\ r.failed = v.failed /\ r.refresh = v.refresh /\ r.expired = v.expired
        /\ r.fresh = v.fresh /\ r.repeat = v.repeat /\ r.transfers = v.transfers
        /\ r.present = v.present /\ r.ahead = v.ahead /\ r.steady = v.steady
        /\ r.silent = v.silent /\ r.watched = v.watched /\ r.exact = v.exact
    BY <1>4, <2>1, ScheduleLemma
  <2>3. NoCycle(r) /\ SameEcho(r, t)
    BY <1>6, <2>2 DEF NoCycle, SameCycle, SameEcho
  <2> QED BY <1>5, <1>6, <1>7, <1>9, <2>2, <2>3 DEF r, SameLink, SameWindow
<1> QED BY <1>8, <1>9
-----------------------------------------------------------------------------
(* The steps.  A socket that is given up keeps the invariant, unless its   *)
(* Relay would have answered.                                              *)
LEMMA FailedInv ==
  ASSUME NEW t, Inv(t), NEW r \in State, r.failed, NoCycle(r), r.refresh = Never,
         SameLine(r, t), SameWindow(r, t), t.steady => r.spaced,
         r.sound => ~(MaxReply < Timeout)
  PROVE  Inv(r)
<1>1. Shaped(r)
  BY DEF Inv, Shaped, NoCycle, SameLine, SameWindow
<1>2. Proven(r)
  BY DEF Inv, Proven, NoCycle, SameLine
<1>3. Paced(r)
  BY DEF Inv, Paced, NoCycle, SameLine
<1>4. Armed(r)
  BY DEF Inv, Armed, Quiet, SameLine
<1>5. Noticed(r)
  BY DEF Inv, Noticed, InTime, Quiet, NoCycle, SameLine, SameWindow
<1>6. Kept(r)
  BY DEF Kept
<1> QED BY <1>1, <1>2, <1>3, <1>4, <1>5, <1>6 DEF Inv

LEMMA NegotiatedInv ==
  ASSUME NEW repeat \in Repeats, NEW transfers \in BOOLEAN, NEW tick \in 0 .. Idle
  PROVE  Inv(Negotiated(repeat, transfers, tick))
<1> DEFINE r == Negotiated(repeat, transfers, tick)
<1>1. tick \in Timers(Idle) /\ tick # Never /\ tick \in Int /\ tick <= Idle
  BY Constants DEF Timers
<1>2. r \in State
  BY <1>1, Members DEF Negotiated, State, Probes
<1>3. Shaped(r) /\ Proven(r)
  BY DEF Negotiated, Shaped, Proven
<1>4. Paced(r) /\ Armed(r)
  BY <1>1 DEF Negotiated, Paced, Armed, Quiet
<1>5. Noticed(r)
  BY <1>1, Constants DEF Negotiated, Noticed, InTime, Bounded, Quiet
<1>6. Kept(r)
  BY DEF Negotiated, Kept, Quiet
<1> QED BY <1>2, <1>3, <1>4, <1>5, <1>6 DEF Inv

LEMMA LinkBreaksInv == Inv(p) /\ LinkBreaks => Inv(p')
<1> SUFFICES ASSUME Inv(p), LinkBreaks
             PROVE  Inv(p')
  OBVIOUS
<1> DEFINE t == p
           r == Unsound(t)
<1>1. /\ r \in State /\ ~r.sound
      /\ SameLine(r, t) /\ SameEcho(r, t) /\ SameWindow(r, t)
      /\ r.probes = t.probes /\ r.left = t.left /\ r.timer = t.timer /\ r.hedge = t.hedge
      /\ r.proofs = t.proofs /\ r.fresh = t.fresh /\ r.expired = t.expired
      /\ r.failed = t.failed /\ r.refresh = t.refresh
  BY UnsoundLemma DEF Inv
<1>2. p' = r
  BY DEF LinkBreaks
<1> HIDE DEF r
<1>3. Shaped(r) /\ Proven(r)
  BY <1>1 DEF Inv, Shaped, Proven, SameLine, SameWindow
<1>4. Paced(r)
  BY <1>1 DEF Inv, Paced, SameLine, SameEcho, SameWindow
<1>5. Armed(r)
  BY <1>1 DEF Inv, Armed, Quiet, SameLine
<1>6. Noticed(r)
  BY <1>1 DEF Inv, Noticed, InTime, Bounded, Quiet, SameLine, SameWindow
<1>7. Kept(r)
  BY <1>1 DEF Kept
<1> QED BY <1>1, <1>2, <1>3, <1>4, <1>5, <1>6, <1>7 DEF Inv

LEMMA ClockJumpsInv == Inv(p) /\ ClockJumps => Inv(p')
<1> SUFFICES ASSUME Inv(p), ClockJumps
             PROVE  Inv(p')
  OBVIOUS
<1> DEFINE t == p
           u == Unsound(t)
           a == ~u.ahead
           r == [u EXCEPT !.ahead = a, !.steady = FALSE]
<1>1. /\ u \in State /\ ~u.sound
      /\ SameLine(u, t) /\ SameEcho(u, t) /\ SameWindow(u, t)
      /\ u.probes = t.probes /\ u.left = t.left /\ u.timer = t.timer /\ u.hedge = t.hedge
      /\ u.proofs = t.proofs /\ u.fresh = t.fresh /\ u.expired = t.expired
      /\ u.failed = t.failed /\ u.refresh = t.refresh
  BY UnsoundLemma DEF Inv
<1>2. p' = r
  BY <1>1 DEF ClockJumps, State
<1>3. a \in BOOLEAN
  OBVIOUS
<1> HIDE DEF u, a
<1>4. r \in State
  BY <1>1, <1>3, SetAhead, SetSteady, Zenon
<1>5. /\ ~r.sound /\ ~r.steady
      /\ r.repeat = t.repeat /\ r.transfers = t.transfers /\ r.tick = t.tick
      /\ r.long = t.long /\ r.present = t.present
      /\ r.silent = t.silent /\ r.watched = t.watched /\ r.exact = t.exact
      /\ SameWindow(r, t)
      /\ r.probes = t.probes /\ r.timer = t.timer /\ r.hedge = t.hedge
      /\ r.proofs = t.proofs /\ r.fresh = t.fresh
      /\ r.failed = t.failed /\ r.refresh = t.refresh
  BY <1>1 DEF State, SameLine, SameWindow
<1> HIDE DEF r
<1>6. Shaped(r) /\ Proven(r)
  BY <1>5 DEF Inv, Shaped, Proven, SameWindow
<1>7. Paced(r) /\ Kept(r)
  BY <1>5 DEF Paced, Kept
<1>8. Armed(r)
  BY <1>5 DEF Inv, Armed, Quiet
<1>9. Noticed(r)
  BY <1>5 DEF Inv, Noticed, InTime, Bounded, Quiet, SameWindow
<1> QED BY <1>2, <1>4, <1>6, <1>7, <1>8, <1>9 DEF Inv

(* A timer is moved earlier, but not before now. *)
LEMMA ClientCountInv ==
  ASSUME NEW present \in BOOLEAN, Inv(p), ClientCount(present)
  PROVE  Inv(p')
<1> DEFINE t == p
           sooner == present /\ t.long /\ t.tick # Never /\ Active < Idle
           w == IF present THEN t.watched ELSE 0
           l == t.long /\ ~sooner
           k == IF sooner THEN Greatest(0, t.tick - (Idle - Active)) ELSE t.tick
           r == [t EXCEPT !.present = present, !.watched = w, !.long = l, !.tick = k]
<1>1. t \in State /\ Numbers(t) /\ Flags(t)
  BY NumbersLemma DEF Inv
<1>2. p' = r
  BY <1>1 DEF ClientCount, State
<1>3. /\ w \in Nat /\ l \in BOOLEAN /\ k \in Timers(Idle)
      /\ k = Never <=> t.tick = Never
      /\ sooner => k >= 0 /\ k <= Idle /\ k <= Greatest(0, t.tick) /\ k <= Active /\ ~l
      /\ ~sooner => k = t.tick /\ (l <=> t.long)
  <2>1. w \in Nat
    BY <1>1, Members DEF State
  <2>2. CASE sooner
    <3>1. /\ t.tick \in Int /\ t.tick <= Idle
      BY <1>1, <2>2 DEF Numbers, Timed
    <3>2. k = Greatest(0, t.tick - (Idle - Active))
      BY <2>2
    <3> HIDE DEF sooner, k
    <3>3. /\ k \in Int /\ k >= 0 /\ k <= Idle /\ k <= Active /\ k <= Greatest(0, t.tick)
      BY <3>1, <3>2, Constants DEF Greatest
    <3>4. k \in Timers(Idle) /\ k # Never
      BY <3>3, Constants DEF Timers
    <3> QED BY <2>1, <2>2, <3>3, <3>4, <1>1 DEF Flags, sooner
  <2>3. CASE ~sooner
    <3>1. t.tick \in Timers(Idle)
      BY <1>1 DEF State
    <3> QED BY <2>1, <2>3, <3>1, <1>1 DEF Flags
  <2> QED BY <2>2, <2>3
<1>4. w = (IF present THEN t.watched ELSE 0)
  OBVIOUS
<1> HIDE DEF w, l, k
<1>5. r \in State
  BY <1>1, <1>3, SetTick, SetLong, SetPresent, SetWatched, Zenon
<1>6. /\ r.present = present /\ r.watched = w /\ (r.long <=> l) /\ r.tick = k
      /\ r.repeat = t.repeat /\ r.transfers = t.transfers /\ r.ahead = t.ahead
      /\ r.steady = t.steady /\ r.silent = t.silent /\ r.exact = t.exact
      /\ SameEcho(r, t) /\ SameLink(r, t) /\ SameWindow(r, t) /\ SameCycle(r, t)
      /\ r.failed = t.failed /\ r.refresh = t.refresh /\ r.expired = t.expired
      /\ r.fresh = t.fresh
  BY <1>1 DEF State, SameEcho, SameLink, SameWindow, SameCycle
<1> HIDE DEF r
<1>7. Shaped(r) /\ Proven(r)
  BY <1>6 DEF Inv, Shaped, Proven, SameWindow, SameCycle
<1>8. Paced(r)
  BY <1>6 DEF Inv, Paced, SameEcho, SameWindow, SameCycle
<1>9. Armed(r)
  <2>1. Armed(t)
    BY DEF Inv
  <2>2. Quiet(r) <=> Quiet(t)
    BY <1>6 DEF Quiet, SameCycle
  <2>3. CASE sooner
    BY <1>3, <1>4, <1>6, <2>1, <2>2, <2>3 DEF Armed
  <2>4. CASE ~sooner
    <3>1. r.tick = t.tick /\ (r.long <=> t.long)
      BY <1>3, <1>6, <2>4
    <3>2. r.tick # Never /\ (r.present \/ ~r.long) => r.tick <= Active
      <4>1. ASSUME r.tick # Never, r.present, t.long
            PROVE  r.tick <= Active
        <5>1. ~(Active < Idle)
          BY <2>4, <3>1, <4>1, <1>6
        <5> QED BY <5>1, <3>1, <4>1, <1>1, Constants DEF Numbers, Timed
      <4> QED BY <2>1, <3>1, <4>1 DEF Armed
    <3>3. r.tick # Never /\ r.present /\ Active < Idle => ~r.long
      BY <1>6, <2>4, <3>1
    <3> QED BY <1>4, <1>6, <2>1, <2>2, <3>1, <3>2, <3>3 DEF Armed
  <2> QED BY <2>3, <2>4
<1>10. Noticed(r)
  <2>1. Noticed(t) /\ Armed(t)
    BY DEF Inv
  <2>2. Quiet(r) <=> Quiet(t)
    BY <1>6 DEF Quiet, SameCycle
  <2>3. w <= t.watched /\ w \in Int
    BY <1>1, <1>4 DEF Numbers
  <2>4. InTime(r)
    BY <1>1, <1>6, <2>1, <2>3, Constants DEF Noticed, InTime, SameWindow, Numbers
  <2>5. ~r.failed => /\ Bounded(r, r.silent, Limit(Idle))
                     /\ Bounded(r, r.watched, Limit(Active))
    <3>1. Limit(Idle) \in Int /\ Limit(Active) \in Int
      BY Constants DEF Limit
    <3>2. Bounded(t, t.silent, Limit(Idle)) => Bounded(r, r.silent, Limit(Idle))
      BY <1>6 DEF Bounded, SameWindow, SameCycle
    <3>3. Bounded(t, t.watched, Limit(Active)) => Bounded(r, w, Limit(Active))
      BY <1>1, <1>6, <2>3, <3>1, Constants
         DEF Bounded, SameWindow, SameCycle, Numbers, Timed, Inv, Shaped
    <3> QED BY <1>6, <2>1, <3>2, <3>3 DEF Noticed
  <2>6. Quiet(r) => r.silent + r.tick <= Idle + (IF r.long THEN 0 ELSE Lateness)
    <3> SUFFICES ASSUME Quiet(r)
                 PROVE  r.silent + r.tick <= Idle + (IF r.long THEN 0 ELSE Lateness)
      OBVIOUS
    <3>1. /\ t.tick # Never
          /\ t.silent + t.tick <= Idle + (IF t.long THEN 0 ELSE Lateness)
      BY <2>1, <2>2 DEF Noticed, Armed
    <3>2. t.tick \in Int /\ t.tick >= -Lateness /\ t.silent \in Int
      BY <1>1, <3>1 DEF Numbers, Timed
    <3>3. CASE sooner
      <4>1. k \in Int /\ k <= Greatest(0, t.tick) /\ ~r.long
        BY <1>3, <1>6, <3>3, <3>1, Constants DEF Timers
      <4>2. k <= t.tick + Lateness
        BY <3>2, <4>1, Constants DEF Greatest
      <4>3. t.silent + t.tick <= Idle
        <5>1. t.long
          BY <3>3
        <5> QED BY <3>1, <3>2, <5>1, Constants
      <4> QED BY <1>6, <3>2, <4>1, <4>2, <4>3, Constants
    <3>4. CASE ~sooner
      BY <1>3, <1>6, <3>1, <3>4
    <3> QED BY <3>3, <3>4
  <2>7. Quiet(r) /\ r.present => r.watched + r.tick <= Active
    <3> SUFFICES ASSUME Quiet(r), r.present
                 PROVE  r.watched + r.tick <= Active
      OBVIOUS
    <3>1. t.tick # Never /\ r.tick # Never
      BY <1>3, <1>6, <2>1, <2>2 DEF Armed
    <3>2. r.tick \in Int /\ r.tick <= Active
      BY <3>1, <1>5, <1>9, NumbersLemma DEF Armed, Numbers, Timed
    <3>3. CASE t.present
      <4>1. ~sooner
        BY <2>1, <3>1, <3>3 DEF Armed
      <4> QED BY <1>3, <1>4, <1>6, <2>1, <2>2, <3>3, <4>1 DEF Noticed
    <3>4. CASE ~t.present
      <4>1. r.watched = 0
        BY <1>4, <1>6, <2>1, <3>4 DEF Armed
      <4> QED BY <3>2, <4>1, Constants
    <3> QED BY <3>3, <3>4
  <2>8. r.probes # {} /\ r.window = Never => r.timer <= Timeout
    BY <1>6, <2>1 DEF Noticed, SameWindow, SameCycle
  <2> QED BY <2>4, <2>5, <2>6, <2>7, <2>8 DEF Noticed
<1>11. Kept(r)
  BY <1>6 DEF Inv, Kept, Quiet, SameLink, SameWindow, SameCycle
<1> QED BY <1>2, <1>5, <1>7, <1>8, <1>9, <1>10, <1>11 DEF Inv

(* A silence that is bounded where it is in its course is bounded at all.  *)
LEMMA NoticedLemma ==
  ASSUME NEW r \in State, Shaped(r), Armed(r), ~r.failed,
         Quiet(r) => r.silent + r.tick <= Idle + (IF r.long THEN 0 ELSE Lateness),
         Quiet(r) /\ r.present => r.watched + r.tick <= Active,
         r.probes # {} /\ r.window = Never => r.timer <= Timeout,
         Bounded(r, r.silent, Limit(Idle)), Bounded(r, r.watched, Limit(Active))
  PROVE  Noticed(r)
<1>1. Numbers(r)
  BY NumbersLemma
<1>2. ASSUME NEW age \in Int, NEW cadence \in Int, age >= 0, Bounded(r, age, Limit(cadence)),
             Quiet(r) => age <= cadence + 2 * Lateness
      PROVE  age <= cadence + Timeout + (IF r.window = Never THEN 0 ELSE Lease - r.window)
                      + 5 * Lateness
  <2>1. CASE Quiet(r)
    BY <1>1, <1>2, <2>1, Constants DEF Numbers
  <2>2. CASE r.window # Never /\ r.window > 0
    BY <1>1, <1>2, <2>2, Constants DEF Numbers, Bounded, Limit
  <2>3. CASE ~Quiet(r) /\ r.window = Never
    <3>1. r.probes # {} /\ r.timer # Never
      BY <2>3 DEF Quiet, Shaped
    <3> QED BY <1>1, <1>2, <2>3, <3>1, Constants DEF Numbers, Timed, Bounded, Limit
  <2>4. CASE ~Quiet(r) /\ r.window # Never /\ r.window = 0
    <3>1. CASE r.probes # {}
      <4>1. r.timer # Never
        BY <3>1 DEF Shaped
      <4> QED BY <1>1, <1>2, <2>4, <3>1, <4>1, Constants DEF Numbers, Timed, Bounded, Limit
    <3>2. CASE r.refresh # Never
      BY <1>1, <1>2, <2>4, <3>2, Constants DEF Numbers, Timed, Bounded, Limit
    <3> QED BY <2>4, <3>1, <3>2 DEF Quiet
  <2> QED BY <1>1, <2>1, <2>2, <2>3, <2>4, Constants DEF Numbers
<1>3. Quiet(r) => r.tick # Never
  BY DEF Armed
<1>4. Quiet(r) => r.silent <= Idle + 2 * Lateness
  BY <1>1, <1>3, Constants DEF Numbers, Timed
<1>5. Quiet(r) => r.watched <= Active + 2 * Lateness
  BY <1>1, <1>3, Constants DEF Numbers, Timed, Armed
<1>6. InTime(r)
  BY <1>1, <1>2, <1>4, <1>5, Constants DEF InTime, Numbers
<1> QED BY <1>6 DEF Noticed

LEMMA PassInv == Inv(p) /\ Pass => Inv(p')
<1> SUFFICES ASSUME Inv(p), Pass
             PROVE  Inv(p')
  OBVIOUS
<1> DEFINE t == p
           left == Sooner(t.left)
           window == Sooner(t.window)
           owed == Sooner(t.owed)
           blocked == Sooner(t.blocked)
           timer == Later(t.timer)
           hedge == Later(t.hedge)
           refresh == Later(t.refresh)
           tick == Later(t.tick)
           since == Least(Spacing, t.sinceEcho + 1)
           silent == t.silent + 1
           watched == IF t.present THEN t.watched + 1 ELSE 0
           r == [t EXCEPT !.left = left, !.window = window, !.owed = owed, !.blocked = blocked,
                          !.timer = timer, !.hedge = hedge, !.refresh = refresh,
                          !.tick = tick, !.sinceEcho = since, !.silent = silent,
                          !.watched = watched]
<1>1. t \in State /\ Numbers(t) /\ Flags(t)
  BY NumbersLemma DEF Inv
<1>2. p' = r
  BY <1>1 DEF Pass, State
<1>3. /\ Waits(t.timer) /\ Waits(t.hedge) /\ Waits(t.refresh) /\ Waits(t.tick)
      /\ t.owed # 0 /\ ~(t.sound /\ t.incoming /\ t.blocked = 0) /\ ~t.failed
  BY DEF Pass, Alive
<1>4. ASSUME NEW time, NEW max \in Int, time \in Timers(max), Waits(time)
      PROVE  /\ Later(time) \in Timers(max)
             /\ Later(time) = Never <=> time = Never
             /\ time # Never => time \in Int /\ Later(time) = time - 1
  BY <1>4, Constants DEF Later, Waits, Timers
<1>5. ASSUME NEW time, NEW max \in Int, time \in (0 .. max) \union {Never}
      PROVE  /\ Sooner(time) \in (0 .. max) \union {Never}
             /\ Sooner(time) = Never <=> time = Never
             /\ time # Never => time \in Int /\ Sooner(time) = Greatest(0, time - 1)
  BY <1>5, Constants DEF Sooner, Greatest
<1>6. /\ timer \in Timers(Timeout + Lease) /\ hedge \in Timers(Spacing)
      /\ refresh \in Timers(Spacing) /\ tick \in Timers(Idle)
      /\ timer = Never <=> t.timer = Never
      /\ hedge = Never <=> t.hedge = Never
      /\ refresh = Never <=> t.refresh = Never
      /\ tick = Never <=> t.tick = Never
      /\ t.timer # Never => timer = t.timer - 1
      /\ t.hedge # Never => hedge = t.hedge - 1
      /\ t.refresh # Never => refresh = t.refresh - 1
      /\ t.tick # Never => tick = t.tick - 1
  <2>1. /\ t.timer \in Timers(Timeout + Lease) /\ t.hedge \in Timers(Spacing)
        /\ t.refresh \in Timers(Spacing) /\ t.tick \in Timers(Idle)
    BY <1>1 DEF State
  <2>2. Timeout + Lease \in Int /\ Spacing \in Int /\ Idle \in Int
    BY Constants
  <2> QED BY <1>3, <1>4, <2>1, <2>2
<1>7. /\ window \in (0 .. Lease) \union {Never}
      /\ owed \in (0 .. MaxReply + MaxTransfer) \union {Never}
      /\ window = Never <=> t.window = Never
      /\ owed = Never <=> t.owed = Never
      /\ t.window # Never => window = Greatest(0, t.window - 1)
      /\ t.owed # Never => owed = Greatest(0, t.owed - 1)
  <2>1. /\ t.window \in (0 .. Lease) \union {Never}
        /\ t.owed \in (0 .. MaxReply + MaxTransfer) \union {Never}
    BY <1>1 DEF State
  <2>2. Lease \in Int /\ MaxReply + MaxTransfer \in Int
    BY Constants
  <2> QED BY <1>5, <2>1, <2>2
<1>8. /\ left \in 0 .. Timeout /\ left = Greatest(0, t.left - 1)
      /\ blocked \in 0 .. MaxTransfer /\ blocked = Greatest(0, t.blocked - 1)
      /\ since \in 0 .. Spacing /\ since = Least(Spacing, t.sinceEcho + 1)
      /\ silent \in Nat /\ silent = t.silent + 1
      /\ watched \in Nat /\ watched = IF t.present THEN t.watched + 1 ELSE 0
  BY <1>1, Constants DEF Numbers, Sooner, Greatest, Least
<1> HIDE DEF left, window, owed, blocked, timer, hedge, refresh, tick, since, silent, watched
<1>9. r \in State
  <2>1. /\ timer \in Timers(Timeout + Lease) /\ hedge \in Timers(Spacing)
        /\ refresh \in Timers(Spacing) /\ tick \in Timers(Idle)
        /\ window \in (0 .. Lease) \union {Never}
        /\ owed \in (0 .. MaxReply + MaxTransfer) \union {Never}
        /\ left \in 0 .. Timeout /\ blocked \in 0 .. MaxTransfer
        /\ since \in 0 .. Spacing /\ silent \in Nat /\ watched \in Nat
    BY <1>6, <1>7, <1>8
  <2> QED BY <1>1, <2>1, SetLeft, SetTimer, SetHedge, SetRefresh, SetWindow, SetSinceEcho,
     SetTick, SetBlocked, SetOwed, SetSilent, SetWatched, Zenon
<1>10. /\ r.left = left /\ r.window = window /\ r.owed = owed /\ r.blocked = blocked
       /\ r.timer = timer /\ r.hedge = hedge /\ r.refresh = refresh /\ r.tick = tick
       /\ r.sinceEcho = since /\ r.silent = silent /\ r.watched = watched
       /\ r.repeat = t.repeat /\ r.transfers = t.transfers /\ r.failed = t.failed
       /\ r.probes = t.probes /\ r.fresh = t.fresh /\ r.proofs = t.proofs
       /\ r.windowAhead = t.windowAhead /\ r.expired = t.expired
       /\ r.incoming = t.incoming /\ r.outgoing = t.outgoing /\ r.long = t.long
       /\ r.present = t.present /\ r.ahead = t.ahead /\ r.sound = t.sound
       /\ r.steady = t.steady /\ r.exact = t.exact /\ r.spaced = t.spaced
  BY <1>1 DEF State
<1> HIDE DEF r
<1>11. Shaped(r) /\ Proven(r)
  BY <1>6, <1>7, <1>10 DEF Inv, Shaped, Proven
<1>12. Paced(r)
  <2> SUFFICES ASSUME r.steady
               PROVE  Paced(r)
    BY DEF Paced
  <2>1. /\ t.spaced /\ ~t.ahead
        /\ t.hedge # Never => t.sinceEcho = Spacing \/ t.sinceEcho + t.hedge >= Spacing
        /\ t.refresh # Never =>
             \/ t.sinceEcho = Spacing \/ t.sinceEcho + t.refresh >= Spacing
             \/ t.expired \/ t.window <= Greatest(t.refresh, 0)
    BY <1>10 DEF Inv, Paced
  <2>2. r.hedge # Never => r.sinceEcho = Spacing \/ r.sinceEcho + r.hedge >= Spacing
    BY <1>1, <1>6, <1>8, <1>10, <2>1, Constants DEF Numbers, Timed, Least
  <2>3. r.refresh # Never =>
             \/ r.sinceEcho = Spacing \/ r.sinceEcho + r.refresh >= Spacing
             \/ r.expired \/ r.window <= Greatest(r.refresh, 0)
    <3> SUFFICES ASSUME r.refresh # Never
                 PROVE  \/ r.sinceEcho = Spacing \/ r.sinceEcho + r.refresh >= Spacing
                        \/ r.expired \/ r.window <= Greatest(r.refresh, 0)
      OBVIOUS
    <3>1. t.refresh # Never /\ t.window # Never
      BY <1>6, <1>10 DEF Inv, Shaped
    <3>2. CASE t.sinceEcho = Spacing \/ t.sinceEcho + t.refresh >= Spacing \/ t.expired
      BY <1>1, <1>6, <1>8, <1>10, <3>1, <3>2, Constants DEF Numbers, Timed, Least
    <3>3. CASE t.window <= Greatest(t.refresh, 0)
      BY <1>1, <1>6, <1>7, <1>10, <3>1, <3>3, Constants DEF Numbers, Timed, Greatest
    <3> QED BY <2>1, <3>1, <3>2, <3>3
  <2> QED BY <1>10, <2>1, <2>2, <2>3 DEF Paced
<1>13. Armed(r)
  BY <1>1, <1>6, <1>8, <1>10, Constants DEF Inv, Armed, Quiet, Numbers, Timed
<1>14. Noticed(r)
  <2>1. ASSUME NEW age \in Int, NEW after \in Int, NEW limit \in Int, after <= age + 1,
               Bounded(t, age, limit)
        PROVE  Bounded(r, after, limit)
    <3>1. r.window # Never /\ r.window > 0 => after <= limit + Lateness + Lease - r.window
      BY <1>1, <1>7, <1>10, <2>1, Constants DEF Numbers, Bounded, Greatest
    <3>2. r.probes # {} => \/ after + r.timer <= limit
                           \/ r.window # Never /\ after + r.timer <= limit + Lateness + Lease
      <4> SUFFICES ASSUME r.probes # {}
                   PROVE  \/ after + r.timer <= limit
                          \/ r.window # Never /\ after + r.timer <= limit + Lateness + Lease
        OBVIOUS
      <4>1. t.timer # Never /\ t.probes # {}
        BY <1>10 DEF Inv, Shaped
      <4> QED BY <1>1, <1>6, <1>7, <1>10, <2>1, <4>1, Constants DEF Numbers, Timed, Bounded
    <3>3. r.refresh # Never => after + r.refresh <= limit + 2 * Lateness + Lease
      BY <1>1, <1>6, <1>10, <2>1, Constants DEF Numbers, Timed, Bounded
    <3> QED BY <3>1, <3>2, <3>3 DEF Bounded
  <2>2. Noticed(t) /\ Armed(t) /\ Limit(Idle) \in Int /\ Limit(Active) \in Int
    BY Constants DEF Inv, Limit
  <2>3. /\ t.silent \in Int /\ t.watched \in Int /\ r.silent \in Int /\ r.watched \in Int
        /\ r.silent = t.silent + 1 /\ r.watched <= t.watched + 1
    BY <1>1, <1>8, <1>10, Constants DEF Numbers
  <2>4. Bounded(r, r.silent, Limit(Idle)) /\ Bounded(r, r.watched, Limit(Active))
    <3>1. Bounded(t, t.silent, Limit(Idle)) /\ Bounded(t, t.watched, Limit(Active))
      BY <1>3, <2>2 DEF Noticed
    <3>2. r.silent <= t.silent + 1
      BY <2>3
    <3> QED BY <2>1, <2>2, <2>3, <3>1, <3>2
  <2>5. Quiet(r) <=> Quiet(t)
    BY <1>6, <1>10 DEF Quiet
  <2>6. Quiet(r) => r.silent + r.tick <= Idle + (IF r.long THEN 0 ELSE Lateness)
    <3> SUFFICES ASSUME Quiet(r)
                 PROVE  r.silent + r.tick <= Idle + (IF r.long THEN 0 ELSE Lateness)
      OBVIOUS
    <3>1. t.tick # Never /\ t.silent + t.tick <= Idle + (IF t.long THEN 0 ELSE Lateness)
      BY <2>2, <2>5 DEF Noticed, Armed
    <3>2. r.silent + r.tick = t.silent + t.tick
      BY <1>1, <1>6, <1>10, <2>3, <3>1 DEF Numbers, Timed
    <3> QED BY <1>10, <3>1, <3>2
  <2>7. Quiet(r) /\ r.present => r.watched + r.tick <= Active
    <3> SUFFICES ASSUME Quiet(r), r.present
                 PROVE  r.watched + r.tick <= Active
      OBVIOUS
    <3>1. t.tick # Never /\ t.watched + t.tick <= Active
      BY <1>10, <2>2, <2>5 DEF Noticed, Armed
    <3>2. r.watched + r.tick = t.watched + t.tick
      BY <1>1, <1>6, <1>8, <1>10, <3>1 DEF Numbers, Timed
    <3> QED BY <3>1, <3>2
  <2>8. r.probes # {} /\ r.window = Never => r.timer <= Timeout
    <3> SUFFICES ASSUME r.probes # {}, r.window = Never
                 PROVE  r.timer <= Timeout
      OBVIOUS
    <3>1. t.timer # Never /\ t.timer <= Timeout
      BY <1>7, <1>10, <2>2 DEF Noticed, Inv, Shaped
    <3> QED BY <1>1, <1>6, <1>10, <3>1, Constants DEF Numbers, Timed
  <2>9. ~r.failed
    BY <1>3, <1>10
  <2> QED BY <1>9, <1>11, <1>13, <2>4, <2>6, <2>7, <2>8, <2>9, NoticedLemma
<1>15. Kept(r)
  <2> SUFFICES ASSUME r.sound, MaxReply < Timeout
               PROVE  Kept(r)
    BY DEF Kept
  <2>1. Kept(t) /\ t.sound
    BY <1>10 DEF Inv
  <2>2. /\ ~r.failed /\ ~r.ahead /\ ~r.expired
        /\ r.incoming \/ r.outgoing \/ r.blocked = 0
        /\ r.fresh = t.fresh
    BY <1>8, <1>10, <2>1, Constants DEF Kept, Greatest
  <2>3. ASSUME r.probes # {}
        PROVE  /\ r.owed # Never /\ r.owed <= r.blocked + MaxReply
               /\ r.incoming \/ r.outgoing \/ (r.owed < r.left /\ r.owed < r.timer)
               /\ r.window # Never => r.owed < r.window
               /\ r.fresh \/ r.incoming
    <3>1. /\ t.owed # Never /\ t.owed <= t.blocked + MaxReply
          /\ t.incoming \/ t.outgoing \/ (t.owed < t.left /\ t.owed < t.timer)
          /\ t.window # Never => t.owed < t.window
          /\ t.fresh \/ t.incoming
      BY <1>10, <2>1, <2>3 DEF Kept
    <3>2. t.owed \in Int /\ t.owed > 0 /\ r.owed = t.owed - 1
      BY <1>1, <1>3, <1>7, <1>10, <3>1, Constants DEF Numbers, Greatest
    <3>3. r.owed # Never /\ r.owed <= r.blocked + MaxReply
      BY <1>1, <1>8, <1>10, <3>1, <3>2, Constants DEF Numbers, Greatest
    <3>4. t.timer # Never
      BY <1>10, <2>3 DEF Inv, Shaped
    <3>5. r.incoming \/ r.outgoing \/ (r.owed < r.left /\ r.owed < r.timer)
      BY <1>1, <1>6, <1>8, <1>10, <3>1, <3>2, <3>4, Constants DEF Numbers, Timed, Greatest
    <3>6. r.window # Never => r.owed < r.window
      BY <1>1, <1>7, <1>10, <3>1, <3>2, Constants DEF Numbers, Greatest
    <3> QED BY <1>10, <3>1, <3>3, <3>5, <3>6
  <2>4. r.refresh # Never => r.blocked + MaxReply + r.refresh + Lateness < r.window
    <3> SUFFICES ASSUME r.refresh # Never
                 PROVE  r.blocked + MaxReply + r.refresh + Lateness < r.window
      OBVIOUS
    <3>1. /\ t.refresh # Never /\ t.window # Never
          /\ t.blocked + MaxReply + t.refresh + Lateness < t.window
      BY <1>6, <1>10, <2>1 DEF Inv, Shaped, Kept
    <3> QED BY <1>1, <1>3, <1>6, <1>7, <1>8, <1>10, <3>1, Constants
            DEF Numbers, Timed, Greatest, Waits
  <2>5. r.incoming => r.blocked + Spacing + Lateness + MaxReply < r.window
    <3> SUFFICES ASSUME r.incoming
                 PROVE  r.blocked + Spacing + Lateness + MaxReply < r.window
      OBVIOUS
    <3>1. /\ t.incoming /\ t.window # Never /\ t.blocked # 0
          /\ t.blocked + Spacing + Lateness + MaxReply < t.window
      BY <1>3, <1>10, <2>1 DEF Inv, Shaped, Kept
    <3> QED BY <1>1, <1>7, <1>8, <1>10, <3>1, Constants DEF Numbers, Greatest
  <2>6. Quiet(r) /\ r.window # Never => r.incoming
    BY <1>6, <1>7, <1>10, <2>1 DEF Kept, Quiet
  <2> QED BY <2>2, <2>3, <2>4, <2>5, <2>6 DEF Kept
<1> QED BY <1>2, <1>9, <1>11, <1>12, <1>13, <1>14, <1>15 DEF Inv

(* The cycle of a link that answers has not expired. *)
LEMMA NotExpired ==
  ASSUME NEW t \in State, Shaped(t), Kept(t), t.sound, MaxReply < Timeout, t.probes # {}
  PROVE  ~Expired(t) /\ (t.incoming \/ t.outgoing => Grace(t) > 0)
<1>1. /\ ~t.ahead /\ ~t.expired /\ t.owed # Never
      /\ t.incoming \/ t.outgoing \/ t.owed < t.left
      /\ t.window # Never => t.owed < t.window
      /\ t.incoming \/ t.outgoing => t.window # Never
  BY DEF Kept, Shaped
<1>2. Numbers(t)
  BY NumbersLemma
<1>3. t.window # Never => Remaining(t) = t.window /\ t.window > 0
  BY <1>1, <1>2, RemainingLemma, Constants DEF Numbers
<1>4. t.incoming \/ t.outgoing => Grace(t) > 0
  BY <1>1, <1>3, RemainingLemma
<1>5. Drift(t, t.leftAhead) = 0
  BY <1>1 DEF Drift
<1>6. ~(t.left <= 0 /\ Grace(t) = 0)
  BY <1>1, <1>2, <1>4, Constants DEF Numbers
<1>7. ~(t.window # Never /\ Remaining(t) = 0)
  BY <1>2, <1>3 DEF Numbers
<1> QED BY <1>4, <1>5, <1>6, <1>7 DEF Expired

LEMMA CycleEndsInv == Inv(p) /\ CycleEnds => Inv(p')
<1> SUFFICES ASSUME Inv(p), CycleEnds
             PROVE  Inv(p')
  OBVIOUS
<1> DEFINE t == p
           g == Grace(t)
           r == [t EXCEPT !.timer = g]
<1>1. t \in State /\ Numbers(t) /\ Flags(t) /\ Shaped(t)
  BY NumbersLemma DEF Inv
<1>2. ~t.failed /\ t.timer # Never /\ t.timer <= 0 /\ t.probes # {}
  BY <1>1 DEF CycleEnds, Alive, Due, Shaped
<1>3. p' = IF g > 0 THEN r ELSE Fail(t)
  BY DEF CycleEnds
<1>4. /\ g \in Int /\ g >= 0
      /\ g > 0 => t.window # Never /\ g <= t.window /\ (t.incoming \/ t.outgoing)
  BY <1>1, RemainingLemma, Constants DEF Shaped
<1> HIDE DEF g
<1>5. CASE g > 0
  <2>1. g \in Timers(Timeout + Lease) /\ g # Never /\ g <= Lease
    BY <1>1, <1>4, <1>5, Constants DEF Timers, Numbers
  <2>2. r \in State
    BY <1>1, <2>1 DEF State
  <2>3. /\ r.timer = g
        /\ SameLine(r, t) /\ SameEcho(r, t) /\ SameLink(r, t) /\ SameWindow(r, t)
        /\ r.probes = t.probes /\ r.left = t.left /\ r.hedge = t.hedge /\ r.owed = t.owed
        /\ r.proofs = t.proofs /\ r.fresh = t.fresh /\ r.expired = t.expired
        /\ r.failed = t.failed /\ r.refresh = t.refresh
    BY <1>1 DEF State, SameLine, SameEcho, SameLink, SameWindow
  <2> HIDE DEF r
  <2>4. Shaped(r) /\ Proven(r)
    BY <1>2, <2>1, <2>3 DEF Inv, Shaped, Proven, SameWindow, SameLine
  <2>5. Paced(r)
    BY <2>3 DEF Inv, Paced, SameLine, SameEcho, SameWindow
  <2>6. Armed(r)
    BY <2>3 DEF Inv, Armed, Quiet, SameLine
  <2>7. Noticed(r)
    <3>1. Noticed(t) /\ Limit(Idle) \in Int /\ Limit(Active) \in Int
      BY Constants DEF Inv, Limit
    <3>2. ASSUME NEW age \in Int, NEW limit \in Int, Bounded(t, age, limit)
          PROVE  Bounded(r, age, limit)
      BY <1>1, <1>4, <1>5, <2>3, <3>2, Constants DEF Bounded, SameWindow, Numbers
    <3>3. Bounded(r, r.silent, Limit(Idle)) /\ Bounded(r, r.watched, Limit(Active))
      BY <1>1, <1>2, <2>3, <3>1, <3>2 DEF Noticed, SameLine, Numbers
    <3>4. ~Quiet(r) /\ r.window # Never
      BY <1>2, <1>4, <1>5, <2>3 DEF Quiet, SameWindow
    <3> QED BY <1>2, <2>2, <2>3, <2>4, <2>6, <3>3, <3>4, NoticedLemma
  <2>8. Kept(r)
    BY <1>2, <1>4, <1>5, <2>3 DEF Inv, Kept, Quiet, SameLine, SameLink, SameWindow
  <2> QED BY <1>3, <1>5, <2>2, <2>4, <2>5, <2>6, <2>7, <2>8 DEF Inv
<1>6. CASE ~(g > 0)
  <2> DEFINE f == Fail(t)
  <2>1. /\ f \in State /\ NoCycle(f) /\ f.failed /\ f.refresh = Never
        /\ SameLine(f, t) /\ SameEcho(f, t) /\ SameLink(f, t) /\ SameWindow(f, t)
    BY <1>1, FailLemma
  <2> HIDE DEF f
  <2>2. ~(t.sound /\ MaxReply < Timeout)
    <3> SUFFICES ASSUME t.sound, MaxReply < Timeout
                 PROVE  FALSE
      OBVIOUS
    <3>1. t.incoming \/ t.outgoing \/ t.owed < t.timer
      BY <1>2 DEF Inv, Kept
    <3>2. t.owed # Never
      BY <1>2 DEF Inv, Kept
    <3>3. ~(t.incoming \/ t.outgoing)
      BY <1>1, <1>2, <1>6, NotExpired DEF Inv, g
    <3> QED BY <1>1, <1>2, <3>1, <3>2, <3>3 DEF Numbers, Timed
  <2>3. t.steady => f.spaced
    BY <2>1 DEF Inv, Paced, SameEcho
  <2> QED BY <1>3, <1>6, <2>1, <2>2, <2>3, FailedInv DEF f, SameLink
<1> QED BY <1>5, <1>6

LEMMA HedgeInv ==
  ASSUME NEW sent \in BOOLEAN, Inv(p), Hedge(sent)
  PROVE  Inv(p')
<1> DEFINE t == p
           r == Request(t, sent)
           late == t.spaced /\ t.sinceEcho = Spacing
<1>1. t \in State /\ Numbers(t) /\ Flags(t) /\ Shaped(t)
  BY NumbersLemma DEF Inv
<1>2. ~t.failed /\ t.hedge # Never /\ t.hedge <= 0 /\ t.probes = {"ping"} /\ p' = r
  BY <1>1 DEF Hedge, Alive, Due, Shaped
<1>3. t.probes # {} /\ t.timer # Never /\ t.refresh = Never
  BY <1>1, <1>2 DEF Shaped
<1>4. /\ r \in State /\ SameLine(r, t) /\ SameWindow(r, t)
      /\ \/ /\ Expired(t) /\ r.failed /\ NoCycle(r) /\ r.refresh = Never
            /\ SameEcho(r, t) /\ SameLink(r, t)
         \/ /\ ~r.sound /\ r.failed /\ NoCycle(r) /\ r.refresh = Never
            /\ r.spaced = late
         \/ /\ ~Expired(t) /\ r.spaced = late
            /\ r.probes = t.probes \union {"echo"} /\ r.proofs = t.proofs \union {"echo"}
            /\ r.hedge = Never /\ r.left = t.left /\ r.timer = t.timer
            /\ r.fresh = t.fresh /\ r.expired = t.expired
            /\ r.failed = t.failed /\ r.refresh = t.refresh
            /\ r.sound => t.sound /\ r.blocked = t.blocked /\ r.owed = t.owed
  BY <1>1, <1>3, RequestLemma
<1>5. t.steady => late
  BY <1>1, <1>2, Constants DEF Inv, Paced, Numbers, Timed
<1> HIDE DEF r, late
<1>6. CASE Expired(t) /\ r.failed /\ NoCycle(r) /\ r.refresh = Never
           /\ SameEcho(r, t) /\ SameLink(r, t)
  <2>1. ~(t.sound /\ MaxReply < Timeout)
    BY <1>1, <1>3, <1>6, NotExpired DEF Inv
  <2>2. t.steady => r.spaced
    BY <1>6 DEF Inv, Paced, SameEcho
  <2> QED BY <1>2, <1>4, <1>6, <2>1, <2>2, FailedInv DEF SameLink
<1>7. CASE ~r.sound /\ r.failed /\ NoCycle(r) /\ r.refresh = Never /\ r.spaced = late
  BY <1>2, <1>4, <1>5, <1>7, FailedInv
<1>8. CASE /\ r.spaced = late
           /\ r.probes = t.probes \union {"echo"} /\ r.proofs = t.proofs \union {"echo"}
           /\ r.hedge = Never /\ r.left = t.left /\ r.timer = t.timer
           /\ r.fresh = t.fresh /\ r.expired = t.expired
           /\ r.failed = t.failed /\ r.refresh = t.refresh
           /\ r.sound => t.sound /\ r.blocked = t.blocked /\ r.owed = t.owed
  <2>1. r.probes # {}
    BY <1>8
  <2>2. Shaped(r)
    BY <1>1, <1>2, <1>3, <1>4, <1>8, <2>1 DEF Shaped, SameLine, SameWindow
  <2>3. Proven(r)
    BY <1>4, <1>8, <2>1 DEF Inv, Proven, SameLine
  <2>4. Paced(r)
    BY <1>3, <1>4, <1>5, <1>8 DEF Inv, Paced, SameLine
  <2>5. Armed(r)
    BY <1>4, <2>1 DEF Inv, Armed, Quiet, SameLine
  <2>6. Noticed(r)
    BY <1>2, <1>3, <1>4, <1>8, <2>1 DEF Inv, Noticed, InTime, Bounded, Quiet, SameLine, SameWindow
  <2>7. Kept(r)
    <3> SUFFICES ASSUME r.sound, MaxReply < Timeout
                 PROVE  Kept(r)
      BY DEF Kept
    <3>1. t.sound /\ r.blocked = t.blocked /\ r.owed = t.owed
      BY <1>8
    <3> QED BY <1>3, <1>4, <1>8, <2>1, <3>1 DEF Inv, Kept, Quiet, SameLine, SameWindow
  <2> QED BY <1>2, <1>4, <2>2, <2>3, <2>4, <2>5, <2>6, <2>7 DEF Inv
<1> QED BY <1>4, <1>6, <1>7, <1>8

LEMMA RefreshInv ==
  ASSUME NEW sent \in BOOLEAN, Inv(p), Refresh(sent)
  PROVE  Inv(p')
<1> DEFINE t == p
           u == [t EXCEPT !.refresh = Never]
           c == BeginCycle(u)
           r == Request(u, sent)
           late == u.spaced /\ u.sinceEcho = Spacing
<1>1. t \in State /\ Numbers(t) /\ Flags(t) /\ Shaped(t) /\ Limit(Idle) \in Int /\ Limit(Active) \in Int
  BY NumbersLemma, Constants DEF Inv, Limit
<1>2. ~t.failed /\ t.refresh # Never /\ t.refresh <= 0
  BY DEF Refresh, Alive, Due
<1>3. t.probes = {} /\ t.window # Never /\ t.transfers /\ t.hedge = Never /\ t.proofs = {}
  BY <1>1, <1>2 DEF Inv, Shaped, Proven
<1>4. p' = IF u.window # Never /\ Remaining(u) = 0 THEN Fail(u) ELSE r
  BY DEF Refresh
<1>5. /\ u \in State /\ u.refresh = Never
      /\ SameLine(u, t) /\ SameEcho(u, t) /\ SameLink(u, t) /\ SameWindow(u, t) /\ SameCycle(u, t)
      /\ u.failed = t.failed /\ u.expired = t.expired /\ u.fresh = t.fresh
  BY <1>1, Members DEF State, SameLine, SameEcho, SameLink, SameWindow, SameCycle
<1> HIDE DEF u
<1>6. /\ u.probes = {} /\ u.proofs = {} /\ u.hedge = Never /\ u.window # Never
      /\ u.window = t.window /\ Numbers(u)
  BY <1>3, <1>5, NumbersLemma DEF SameCycle, SameWindow
<1>7. t.sound /\ MaxReply < Timeout =>
        /\ ~u.ahead /\ ~u.expired /\ Remaining(u) = u.window
        /\ u.blocked + MaxReply < u.window
        /\ u.incoming \/ u.outgoing \/ u.blocked = 0
        /\ u.incoming => u.blocked + Spacing + Lateness + MaxReply < u.window
  <2> SUFFICES ASSUME t.sound, MaxReply < Timeout
               PROVE  /\ ~u.ahead /\ ~u.expired /\ Remaining(u) = u.window
                      /\ u.blocked + MaxReply < u.window
                      /\ u.incoming \/ u.outgoing \/ u.blocked = 0
                      /\ u.incoming => u.blocked + Spacing + Lateness + MaxReply < u.window
    OBVIOUS
  <2>1. /\ ~t.ahead /\ ~t.expired /\ t.blocked + MaxReply + t.refresh + Lateness < t.window
        /\ t.incoming \/ t.outgoing \/ t.blocked = 0
        /\ t.incoming => t.blocked + Spacing + Lateness + MaxReply < t.window
    BY <1>2 DEF Inv, Kept
  <2>2. t.blocked + MaxReply < t.window
    BY <1>1, <1>2, <1>3, <2>1, Constants DEF Numbers, Timed
  <2>3. /\ ~u.ahead /\ ~u.expired /\ u.blocked = t.blocked /\ u.window = t.window
        /\ u.incoming = t.incoming /\ u.outgoing = t.outgoing
    BY <1>5, <2>1 DEF SameLine, SameLink, SameWindow
  <2>4. Remaining(u) = u.window
    BY <1>5, <1>6, <2>3, RemainingLemma
  <2> QED BY <2>1, <2>2, <2>3, <2>4
<1>8. t.steady => u.spaced
  BY <1>5 DEF Inv, Paced, SameEcho
<1>9. CASE Remaining(u) = 0
  <2> DEFINE f == Fail(u)
  <2>1. /\ f \in State /\ NoCycle(f) /\ f.failed /\ f.refresh = Never
        /\ SameLine(f, u) /\ SameEcho(f, u) /\ SameLink(f, u) /\ SameWindow(f, u)
    BY <1>5, FailLemma
  <2>2. p' = f
    BY <1>4, <1>6, <1>9
  <2> HIDE DEF f
  <2>3. SameLine(f, t) /\ SameWindow(f, t) /\ f.sound = t.sound /\ (t.steady => f.spaced)
    BY <1>5, <1>8, <2>1 DEF SameLine, SameEcho, SameLink, SameWindow
  <2>4. ~(t.sound /\ MaxReply < Timeout)
    BY <1>6, <1>7, <1>9, Constants DEF Numbers
  <2> QED BY <2>1, <2>2, <2>3, <2>4, FailedInv
<1>10. CASE Remaining(u) # 0
  <2>1. /\ c \in State
        /\ SameLine(c, u) /\ SameEcho(c, u) /\ SameLink(c, u) /\ SameWindow(c, u)
        /\ c.probes = {} /\ c.proofs = {} /\ c.hedge = Never
        /\ c.failed = u.failed /\ c.refresh = Never
        /\ c.left = Timeout /\ c.leftAhead = u.ahead
        /\ c.timer = Least(Timeout, Remaining(u))
        /\ u.sound => c.owed = u.blocked + MaxReply
        /\ c.expired = u.expired /\ c.fresh
    BY <1>5, <1>6, <1>10, BeginCycleLemma
  <2>2. /\ r \in State /\ SameLine(r, u) /\ SameWindow(r, u)
        /\ \/ /\ Expired(c) /\ r.failed /\ NoCycle(r) /\ r.refresh = Never
              /\ SameEcho(r, u) /\ SameLink(r, u)
           \/ /\ ~r.sound /\ r.failed /\ NoCycle(r) /\ r.refresh = Never
              /\ r.spaced = late
           \/ /\ ~Expired(c) /\ r.spaced = late
              /\ r.probes = u.probes \union {"echo"} /\ r.proofs = u.proofs \union {"echo"}
              /\ r.hedge = Never /\ r.left = c.left /\ r.timer = c.timer
              /\ r.fresh = c.fresh /\ r.expired = c.expired
              /\ r.failed = u.failed /\ r.refresh = u.refresh
              /\ r.sound => u.sound /\ r.blocked = u.blocked /\ r.owed = c.owed
    BY <1>5, <1>6, RequestLemma
  <2>3. p' = r
    BY <1>4, <1>10
  <2>4. Remaining(u) \in Int /\ Remaining(u) > 0 /\ Remaining(u) <= t.window
    BY <1>5, <1>6, <1>10, RemainingLemma
  <2>5. t.steady => late
    <3> SUFFICES ASSUME t.steady
                 PROVE  u.sinceEcho = Spacing
      BY <1>8
    <3>1. ~t.ahead /\ (\/ t.sinceEcho = Spacing \/ t.sinceEcho + t.refresh >= Spacing
                       \/ t.expired \/ t.window <= Greatest(t.refresh, 0))
      BY <1>2 DEF Inv, Paced
    <3>2. ~t.expired
      BY <1>5, <1>10 DEF Remaining
    <3>3. ~(t.window <= Greatest(t.refresh, 0))
      BY <1>1, <1>2, <2>4, <1>3, Constants DEF Greatest, Numbers, Timed
    <3>4. t.sinceEcho = Spacing
      BY <1>1, <1>2, <3>1, <3>2, <3>3, Constants DEF Numbers, Timed
    <3> QED BY <1>5, <3>4 DEF SameEcho
  <2> HIDE DEF r, late, c
  <2>6. /\ SameLine(r, t) /\ SameWindow(r, t)
    BY <1>5, <2>2 DEF SameLine, SameWindow
  <2>7. CASE Expired(c) /\ r.failed /\ NoCycle(r) /\ r.refresh = Never
             /\ SameEcho(r, u) /\ SameLink(r, u)
    <3>1. ~(t.sound /\ MaxReply < Timeout)
      <4> SUFFICES ASSUME t.sound, MaxReply < Timeout
                   PROVE  ~Expired(c)
        BY <2>7
      <4>1. Remaining(c) = Remaining(u) /\ ~c.ahead
        BY <1>7, <2>1 DEF Remaining, Drift, SameLine, SameWindow
      <4>2. Drift(c, c.leftAhead) = 0
        BY <4>1 DEF Drift
      <4> QED BY <1>10, <2>1, <4>1, <4>2, Constants DEF Expired
    <3>2. (t.steady => r.spaced) /\ r.sound = t.sound
      BY <1>5, <1>8, <2>7 DEF SameEcho, SameLink
    <3>3. SameLine(r, t) /\ SameWindow(r, t)
      BY <1>5, <2>2 DEF SameLine, SameWindow
    <3> QED BY <2>2, <2>3, <2>7, <3>1, <3>2, <3>3, FailedInv
  <2>8. CASE ~r.sound /\ r.failed /\ NoCycle(r) /\ r.refresh = Never /\ r.spaced = late
    <3>1. SameLine(r, t) /\ SameWindow(r, t)
      BY <1>5, <2>2 DEF SameLine, SameWindow
    <3> QED BY <2>2, <2>3, <2>5, <2>8, <3>1, FailedInv
  <2>9. CASE /\ r.spaced = late
             /\ r.probes = u.probes \union {"echo"} /\ r.proofs = u.proofs \union {"echo"}
             /\ r.hedge = Never /\ r.left = c.left /\ r.timer = c.timer
             /\ r.fresh = c.fresh /\ r.expired = c.expired
             /\ r.failed = u.failed /\ r.refresh = u.refresh
             /\ r.sound => u.sound /\ r.blocked = u.blocked /\ r.owed = c.owed
    <3>1. SameLine(r, t) /\ SameWindow(r, t)
      BY <1>5, <2>2 DEF SameLine, SameWindow
    <3>2. /\ r.probes # {} /\ r.proofs = r.probes /\ r.hedge = Never /\ r.refresh = Never
          /\ r.timer = Least(Timeout, Remaining(u)) /\ r.left = Timeout /\ r.fresh
          /\ r.expired = t.expired /\ ~r.failed /\ r.window = t.window
      BY <1>2, <1>5, <1>6, <2>1, <2>9, <3>1 DEF SameWindow
    <3>3. r.timer \in Int /\ r.timer <= Timeout /\ r.timer <= t.window
      BY <2>4, <3>2, <1>1, <1>3, Constants DEF Least, Numbers
    <3>4. r.timer # Never
      BY <3>3, Constants
    <3>5. Shaped(r)
      BY <1>1, <1>3, <3>1, <3>2, <3>4 DEF Shaped, SameLine, SameWindow
    <3>6. Proven(r)
      BY <3>1, <3>2 DEF Inv, Proven, SameLine
    <3>7. Paced(r)
      BY <2>5, <2>9, <3>1, <3>2 DEF Inv, Paced, SameLine
    <3>8. Armed(r)
      BY <3>1, <3>2 DEF Inv, Armed, Quiet, SameLine
    <3>9. Noticed(r)
      <4>1. Bounded(t, t.silent, Limit(Idle)) /\ Bounded(t, t.watched, Limit(Active))
        BY <1>2 DEF Inv, Noticed
      <4>2. ASSUME NEW age \in Int, NEW limit \in Int, Bounded(t, age, limit)
            PROVE  Bounded(r, age, limit)
        <5>1. t.window \in Int /\ t.window > 0
          BY <2>4, <1>1, <1>3 DEF Numbers
        <5> QED BY <1>3, <3>2, <3>3, <4>2, <5>1, Constants DEF Bounded
      <4>3. Bounded(r, r.silent, Limit(Idle)) /\ Bounded(r, r.watched, Limit(Active))
        BY <1>1, <3>1, <4>1, <4>2 DEF SameLine, Numbers
      <4>4. ~Quiet(r)
        BY <3>2 DEF Quiet
      <4> QED BY <2>2, <3>2, <3>3, <3>5, <3>8, <4>3, <4>4, NoticedLemma
    <3>10. Kept(r)
      <4> SUFFICES ASSUME r.sound, MaxReply < Timeout
                   PROVE  Kept(r)
        BY DEF Kept
      <4>1. /\ t.sound /\ r.blocked = u.blocked /\ r.owed = u.blocked + MaxReply
        BY <1>5, <2>1, <2>9 DEF SameLink
      <4>2. /\ ~u.ahead /\ ~u.expired /\ Remaining(u) = u.window
            /\ u.blocked + MaxReply < u.window
            /\ u.incoming \/ u.outgoing \/ u.blocked = 0
            /\ u.incoming => u.blocked + Spacing + Lateness + MaxReply < u.window
        BY <1>7, <4>1
      <4>3. /\ ~r.ahead /\ ~r.expired /\ r.incoming = u.incoming /\ r.outgoing = u.outgoing
            /\ r.window = u.window
        BY <1>5, <1>6, <2>2, <3>2, <4>2 DEF SameLine, SameWindow
      <4>4. r.owed \in Int /\ r.owed # Never
        BY <1>6, <4>1, Constants DEF Numbers
      <4>5. r.incoming \/ r.outgoing \/ (r.owed < r.left /\ r.owed < r.timer)
        BY <1>6, <3>2, <4>1, <4>2, <4>3, Constants DEF Numbers, Least
      <4> QED BY <1>6, <3>2, <4>1, <4>2, <4>3, <4>4, <4>5, Constants DEF Kept, Quiet, Numbers
    <3> QED BY <2>2, <2>3, <3>5, <3>6, <3>7, <3>8, <3>9, <3>10 DEF Inv
  <2> QED BY <2>2, <2>7, <2>8, <2>9
<1> QED BY <1>9, <1>10

LEMMA TickInv == Inv(p) /\ Tick => Inv(p')
<1> SUFFICES ASSUME Inv(p), Tick
             PROVE  Inv(p')
  OBVIOUS
<1> DEFINE t == p
           u == [t EXCEPT !.tick = Never]
           v == StartPing(u)
           r == IF t.repeat THEN Schedule(v) ELSE v
           pings == t.probes = {} /\ t.refresh = Never
           after == IF ~t.repeat THEN Never ELSE IF t.present THEN Active ELSE Idle
           long == IF t.repeat THEN ~t.present ELSE t.long
<1>1. /\ t \in State /\ Numbers(t) /\ Flags(t) /\ Shaped(t)
      /\ Limit(Idle) \in Int /\ Limit(Active) \in Int
  BY NumbersLemma, Constants DEF Inv, Limit
<1>2. ~t.failed /\ t.tick # Never /\ t.tick <= 0 /\ p' = r
  BY DEF Tick, Alive, Due
<1>3. /\ u \in State /\ u.tick = Never
      /\ SameEcho(u, t) /\ SameLink(u, t) /\ SameWindow(u, t) /\ SameCycle(u, t)
      /\ u.failed = t.failed /\ u.refresh = t.refresh /\ u.expired = t.expired
      /\ u.fresh = t.fresh /\ u.repeat = t.repeat /\ u.transfers = t.transfers
      /\ u.present = t.present /\ u.ahead = t.ahead /\ u.steady = t.steady
      /\ u.silent = t.silent /\ u.watched = t.watched /\ u.exact = t.exact /\ u.long = t.long
  BY <1>1, Members DEF State, SameEcho, SameLink, SameWindow, SameCycle
<1> HIDE DEF u
<1>4. /\ v \in State
      /\ SameLine(v, u) /\ SameEcho(v, u) /\ SameLink(v, u) /\ SameWindow(v, u)
      /\ v.failed = u.failed /\ v.refresh = u.refresh
      /\ ~pings => SameCycle(v, u) /\ v.expired = u.expired /\ v.fresh = u.fresh
      /\ pings => /\ v.probes = {"ping"} /\ v.proofs = {"ping"}
                  /\ v.hedge = IF Timeout > Spacing THEN Spacing ELSE Never
                  /\ v.left = Timeout
                  /\ v.timer = IF u.window = Never THEN Timeout ELSE Least(Timeout, Remaining(u))
                  /\ u.sound => v.owed = u.blocked + MaxReply
                  /\ IF u.window # Never /\ Remaining(u) = 0
                     THEN v.expired /\ ~v.fresh
                     ELSE v.expired = u.expired /\ v.fresh
  <2>1. CASE pings
    BY <1>3, <2>1, StartPingLemma DEF SameCycle
  <2>2. CASE ~pings
    <3>1. v = u
      BY <1>3, <2>2 DEF StartPing, SameCycle
    <3> QED BY <1>3, <2>2, <3>1 DEF SameLine, SameEcho, SameLink, SameWindow, SameCycle
  <2> QED BY <2>1, <2>2
<1> HIDE DEF v
<1>5. /\ r \in State /\ r.tick = after /\ (r.long <=> long)
      /\ SameEcho(r, v) /\ SameLink(r, v) /\ SameWindow(r, v) /\ SameCycle(r, v)
      /\ r.failed = v.failed /\ r.refresh = v.refresh /\ r.expired = v.expired
      /\ r.fresh = v.fresh /\ r.repeat = v.repeat /\ r.transfers = v.transfers
      /\ r.present = v.present /\ r.ahead = v.ahead /\ r.steady = v.steady
      /\ r.silent = v.silent /\ r.watched = v.watched /\ r.exact = v.exact
  <2>1. v.tick = Never /\ v.present = t.present /\ v.long = t.long
    BY <1>3, <1>4 DEF SameLine
  <2>2. CASE t.repeat
    <3>1. r = Schedule(v)
      BY <2>2
    <3> HIDE DEF r
    <3> QED BY <1>4, <2>1, <2>2, <3>1, ScheduleLemma
  <2>3. CASE ~t.repeat
    BY <1>4, <2>1, <2>3 DEF SameEcho, SameLink, SameWindow, SameCycle
  <2> QED BY <2>2, <2>3
<1> HIDE DEF r
<1>6. /\ SameEcho(r, t) /\ SameLink(r, t) /\ SameWindow(r, t)
      /\ ~r.failed /\ r.refresh = t.refresh
      /\ r.repeat = t.repeat /\ r.transfers = t.transfers
      /\ r.present = t.present /\ r.ahead = t.ahead /\ r.steady = t.steady
      /\ r.silent = t.silent /\ r.watched = t.watched /\ r.exact = t.exact
  BY <1>2, <1>3, <1>4, <1>5 DEF SameLine, SameEcho, SameLink, SameWindow
<1>7. Armed(r)
  <2>1. ~Quiet(r)
    BY <1>1, <1>3, <1>4, <1>5, <1>6 DEF Quiet, SameCycle
  <2>2. Active # Never /\ Idle # Never
    BY Constants
  <2> QED BY <1>1, <1>5, <1>6, <2>1, <2>2, Constants DEF Inv, Armed, Flags
<1>8. CASE ~pings
  <2>1. SameCycle(r, t) /\ r.expired = t.expired /\ r.fresh = t.fresh
    BY <1>3, <1>4, <1>5, <1>8 DEF SameCycle
  <2>2. Shaped(r) /\ Proven(r)
    BY <1>6, <2>1 DEF Inv, Shaped, Proven, SameWindow, SameCycle
  <2>3. Paced(r)
    BY <1>6, <2>1 DEF Inv, Paced, SameWindow, SameCycle, SameEcho
  <2>4. Noticed(r)
    BY <1>6, <1>8, <2>1, <1>2 DEF Inv, Noticed, InTime, Bounded, Quiet, SameWindow, SameCycle
  <2>5. Kept(r)
    BY <1>6, <1>8, <2>1 DEF Inv, Kept, Quiet, SameLink, SameWindow, SameCycle
  <2> QED BY <1>2, <1>5, <1>7, <2>2, <2>3, <2>4, <2>5 DEF Inv
<1>9. CASE pings
  <2>1. /\ r.probes = {"ping"} /\ r.proofs = {"ping"} /\ r.refresh = Never
        /\ r.hedge = IF Timeout > Spacing THEN Spacing ELSE Never
        /\ r.left = Timeout
        /\ r.timer = IF t.window = Never THEN Timeout ELSE Least(Timeout, Remaining(u))
        /\ t.sound => r.owed = t.blocked + MaxReply
        /\ IF t.window # Never /\ Remaining(u) = 0
           THEN r.expired /\ ~r.fresh
           ELSE r.expired = t.expired /\ r.fresh
    BY <1>3, <1>4, <1>5, <1>6, <1>9 DEF SameCycle, SameLink, SameWindow
  <2>2. /\ r.timer \in Int /\ r.timer # Never /\ r.timer <= Timeout
        /\ t.window # Never => r.timer <= t.window
        /\ Remaining(u) \in 0 .. Lease
    BY <1>1, <1>3, <2>1, RemainingLemma, Constants DEF Least, Numbers, SameWindow
  <2>3. Quiet(t)
    BY <1>2, <1>9 DEF Quiet
  <2>4. Shaped(r)
    BY <1>1, <1>6, <2>1, <2>2 DEF Shaped, SameWindow
  <2>5. Proven(r)
    BY <1>6, <2>1 DEF Inv, Proven
  <2>6. Paced(r)
    BY <1>1, <1>6, <2>1, Constants DEF Inv, Paced, SameEcho, Numbers
  <2>7. Noticed(r)
    <3>1. /\ t.silent <= Idle + 2 * Lateness /\ t.watched <= Active + 2 * Lateness
          /\ Bounded(t, t.silent, Limit(Idle)) /\ Bounded(t, t.watched, Limit(Active))
      BY <1>1, <1>2, <2>3, Constants DEF Inv, Noticed, Armed, Numbers, Timed
    <3>2. ASSUME NEW age \in Int, NEW cadence \in Int, age <= cadence + 2 * Lateness,
                 Bounded(t, age, Limit(cadence))
          PROVE  Bounded(r, age, Limit(cadence))
      BY <1>6, <2>1, <2>2, <3>2, Constants DEF Bounded, SameWindow, Limit
    <3>3. Bounded(r, r.silent, Limit(Idle)) /\ Bounded(r, r.watched, Limit(Active))
      BY <1>1, <1>6, <3>1, <3>2, Constants DEF Numbers
    <3>4. ~Quiet(r)
      BY <2>1 DEF Quiet
    <3> QED BY <1>5, <1>6, <1>7, <2>2, <2>4, <3>3, <3>4, NoticedLemma
  <2>8. Kept(r)
    <3> SUFFICES ASSUME r.sound, MaxReply < Timeout
                 PROVE  Kept(r)
      BY DEF Kept
    <3>1. /\ t.sound /\ r.blocked = t.blocked /\ r.owed = t.blocked + MaxReply
      BY <1>6, <2>1 DEF SameLink
    <3>2. /\ ~t.ahead /\ ~t.expired
          /\ t.incoming \/ t.outgoing \/ t.blocked = 0
          /\ t.incoming => t.blocked + Spacing + Lateness + MaxReply < t.window
          /\ t.window # Never => t.incoming
      BY <2>3, <3>1 DEF Inv, Kept
    <3>3. t.window # Never => Remaining(u) = t.window
      <4>1. ~u.ahead /\ ~u.expired /\ u.window = t.window
        BY <1>3, <3>2 DEF SameWindow
      <4> QED BY <1>3, <4>1, RemainingLemma
    <3>4. t.window # Never => t.blocked + MaxReply < t.window
      BY <1>1, <3>2, Constants DEF Numbers
    <3>5. /\ ~r.ahead /\ ~r.expired /\ r.fresh /\ r.incoming = t.incoming
          /\ r.outgoing = t.outgoing /\ r.window = t.window
      BY <1>1, <1>6, <2>1, <3>2, <3>3, <3>4, Constants DEF Numbers, SameWindow
    <3>6. r.owed \in Int /\ r.owed # Never
      BY <1>1, <3>1, Constants DEF Numbers
    <3>7. r.incoming \/ r.outgoing \/ (r.owed < r.left /\ r.owed < r.timer)
      <4> SUFFICES ASSUME ~(r.incoming \/ r.outgoing)
                   PROVE  r.owed < r.left /\ r.owed < r.timer
        OBVIOUS
      <4>1. t.window = Never /\ t.blocked = 0
        BY <3>2, <3>5
      <4> QED BY <2>1, <3>1, <4>1, Constants
    <3> QED BY <1>6, <2>1, <3>1, <3>2, <3>4, <3>5, <3>6, <3>7, Constants DEF Kept, Quiet
  <2> QED BY <1>2, <1>5, <1>7, <2>4, <2>5, <2>6, <2>7, <2>8 DEF Inv
<1> QED BY <1>8, <1>9

(* A cycle that makes way for an echo in the window of a large frame. *)
Pausable(t) ==
  /\ ~t.failed /\ t.window # Never /\ t.transfers /\ t.exact
  /\ t.steady => t.spaced /\ ~t.ahead
  /\ t.refresh # Never => Paced(t)
  /\ Armed(t)
  /\ Bounded(t, t.silent, Limit(Idle)) /\ Bounded(t, t.watched, Limit(Active))
  /\ t.refresh = Never => /\ t.silent <= Limit(Idle) + 2 * Lateness + Lease
                          /\ t.watched <= Limit(Active) + 2 * Lateness + Lease
  /\ t.sound /\ MaxReply < Timeout =>
       /\ ~t.ahead /\ ~t.expired
       /\ t.incoming \/ t.outgoing \/ t.blocked = 0
       /\ t.blocked + Spacing + Lateness + MaxReply < t.window

LEMMA ClearedInv ==
  ASSUME NEW t \in State, Pausable(t)
  PROVE  Inv(FreshEcho(Clear(t)))
<1> DEFINE r == FreshEcho(Clear(t))
           wait == Greatest(0, Spacing - (t.sinceEcho + Drift(t, t.echoAhead)))
<1>1. /\ Numbers(t) /\ Limit(Idle) \in Int /\ Limit(Active) \in Int
  BY NumbersLemma, Constants DEF Limit
<1>2. /\ r \in State /\ NoCycle(r)
      /\ SameLine(r, t) /\ SameEcho(r, t) /\ SameLink(r, t) /\ SameWindow(r, t)
      /\ r.failed = t.failed /\ r.refresh # Never
      /\ t.refresh # Never => r.refresh = t.refresh /\ r.expired = t.expired
      /\ t.refresh = Never =>
           /\ r.refresh = Least(wait, Remaining(t))
           /\ r.refresh >= 0 /\ r.refresh <= Spacing /\ r.refresh <= Remaining(t)
           /\ r.expired <=> t.expired \/ (t.window # Never /\ Remaining(t) = 0)
  BY ClearedLemma
<1> HIDE DEF r
<1>3. /\ r.refresh \in Int /\ r.refresh >= -Lateness /\ r.refresh <= Spacing
  BY <1>2, NumbersLemma DEF Numbers, Timed
<1>4. Remaining(t) \in Int /\ Remaining(t) >= 0 /\ Remaining(t) <= t.window
  BY RemainingLemma DEF Pausable
<1>5. Shaped(r) /\ Proven(r)
  BY <1>2 DEF Pausable, Shaped, Proven, NoCycle, SameLine, SameWindow
<1>6. Paced(r)
  <2> SUFFICES ASSUME r.steady
               PROVE  Paced(r)
    BY DEF Paced
  <2>1. t.steady /\ t.spaced /\ ~t.ahead /\ r.spaced /\ ~r.ahead /\ r.hedge = Never
    BY <1>2 DEF Pausable, SameLine, SameEcho, NoCycle
  <2>2. CASE t.refresh # Never
    BY <1>2, <2>1, <2>2 DEF Pausable, Paced, SameEcho, SameWindow
  <2>3. CASE t.refresh = Never
    <3>1. wait = Greatest(0, Spacing - t.sinceEcho)
      BY <1>1, <2>1 DEF Drift, Numbers
    <3>2. r.sinceEcho = t.sinceEcho /\ r.window = t.window
      BY <1>2 DEF SameEcho, SameWindow
    <3>3. CASE r.refresh = wait
      BY <1>1, <2>1, <3>1, <3>2, <3>3, Constants DEF Paced, Numbers, Greatest
    <3>4. CASE r.refresh # wait
      <4>1. r.refresh = Remaining(t)
        BY <1>2, <2>3, <3>4 DEF Least
      <4>2. t.expired \/ r.window <= Greatest(r.refresh, 0)
        <5>1. ~t.expired => Remaining(t) = t.window
          BY <2>1, RemainingLemma DEF Pausable
        <5> QED BY <1>4, <3>2, <4>1, <5>1 DEF Greatest
      <4> QED BY <1>2, <2>1, <2>3, <4>2 DEF Paced
    <3> QED BY <3>3, <3>4
  <2> QED BY <2>2, <2>3
<1>7. Armed(r)
  BY <1>2 DEF Pausable, Armed, Quiet, SameLine
<1>8. Noticed(r)
  <2>1. ASSUME NEW age \in Int, NEW limit \in Int, Bounded(t, age, limit),
               t.refresh = Never => age <= limit + 2 * Lateness + Lease
        PROVE  Bounded(r, age, limit)
    <3>1. r.window = t.window /\ r.probes = {}
      BY <1>2 DEF SameWindow, NoCycle
    <3>2. age + r.refresh <= limit + 2 * Lateness + Lease
      <4>1. CASE t.refresh # Never
        BY <1>2, <2>1, <4>1 DEF Bounded
      <4>2. CASE t.refresh = Never /\ t.window > 0
        BY <1>1, <1>2, <1>3, <1>4, <2>1, <4>2, Constants DEF Bounded, Pausable, Numbers
      <4>3. CASE t.refresh = Never /\ ~(t.window > 0)
        <5>1. r.refresh = 0
          BY <1>1, <1>2, <1>3, <1>4, <4>3, Constants DEF Pausable, Numbers
        <5> QED BY <2>1, <4>3, <5>1, Constants
      <4> QED BY <4>1, <4>2, <4>3
    <3> QED BY <2>1, <3>1, <3>2 DEF Bounded
  <2>2. Bounded(r, r.silent, Limit(Idle)) /\ Bounded(r, r.watched, Limit(Active))
    BY <1>1, <1>2, <2>1 DEF Pausable, SameLine, Numbers
  <2>3. ~Quiet(r) /\ r.probes = {} /\ ~r.failed
    BY <1>2 DEF Quiet, NoCycle, Pausable
  <2> QED BY <1>2, <1>5, <1>7, <2>2, <2>3, NoticedLemma
<1>9. Kept(r)
  <2> SUFFICES ASSUME r.sound, MaxReply < Timeout
               PROVE  Kept(r)
    BY DEF Kept
  <2>1. /\ t.sound /\ ~t.ahead /\ ~t.expired
        /\ t.blocked + Spacing + Lateness + MaxReply < t.window
    BY <1>2 DEF Pausable, SameLink
  <2>2. ~r.expired
    <3>1. Remaining(t) = t.window
      BY <2>1, RemainingLemma DEF Pausable
    <3>2. t.window \in Int /\ t.window > 0
      BY <1>1, <2>1, Constants DEF Pausable, Numbers
    <3> QED BY <1>2, <2>1, <3>1, <3>2
  <2>3. /\ r.blocked = t.blocked /\ r.window = t.window /\ r.incoming = t.incoming
        /\ r.outgoing = t.outgoing /\ ~r.ahead /\ ~r.failed /\ r.probes = {}
    BY <1>2, <2>1 DEF Pausable, SameLine, SameLink, SameWindow, NoCycle
  <2>4. r.blocked + MaxReply + r.refresh + Lateness < r.window
    BY <1>1, <1>3, <2>1, <2>3, Constants DEF Pausable, Numbers
  <2>5. r.incoming \/ r.outgoing \/ r.blocked = 0
    BY <2>1, <2>3 DEF Pausable
  <2> QED BY <1>2, <2>1, <2>2, <2>3, <2>4, <2>5 DEF Kept, Quiet
<1> QED BY <1>2, <1>5, <1>6, <1>7, <1>8, <1>9 DEF Inv, r

(* A silence that waits for no echo of its own. *)
LEMMA AgesLemma ==
  ASSUME NEW t, Inv(t), ~t.failed, t.refresh = Never
  PROVE  /\ t.silent <= Limit(Idle) + 2 * Lateness + Lease
         /\ t.watched <= Limit(Active) + 2 * Lateness + Lease
         /\ t.window = Never => /\ t.silent <= Limit(Idle) + Lateness
                                /\ t.watched <= Limit(Active) + Lateness
<1>1. t \in State /\ Numbers(t) /\ Shaped(t)
  BY NumbersLemma DEF Inv
<1>2. CASE t.probes = {}
  <2>1. Quiet(t) /\ t.tick # Never /\ (t.present => t.tick <= Active)
    BY <1>2 DEF Quiet, Inv, Armed
  <2>2. t.silent <= Idle + 2 * Lateness
    BY <1>1, <2>1, Constants DEF Inv, Noticed, Numbers, Timed
  <2>3. t.watched <= Active + 2 * Lateness
    BY <1>1, <2>1, Constants DEF Inv, Noticed, Armed, Numbers, Timed
  <2> QED BY <1>1, <2>2, <2>3, Constants DEF Limit, Numbers
<1>3. CASE t.probes # {}
  <2>1. t.timer # Never
    BY <1>1, <1>3 DEF Shaped
  <2>2. ASSUME NEW age \in Int, NEW limit \in Int, Bounded(t, age, limit)
        PROVE  /\ age <= limit + 2 * Lateness + Lease
               /\ t.window = Never => age <= limit + Lateness
    BY <1>1, <1>3, <2>1, <2>2, Constants DEF Bounded, Numbers, Timed
  <2>3. Bounded(t, t.silent, Limit(Idle)) /\ Bounded(t, t.watched, Limit(Active))
    BY DEF Inv, Noticed
  <2> QED BY <1>1, <2>2, <2>3, Constants DEF Limit, Numbers
<1> QED BY <1>2, <1>3

LEMMA AnswerInv ==
  ASSUME NEW probe \in Probes, Inv(p), Answer(probe)
  PROVE  Inv(p')
<1> DEFINE t == p
           old == t.transfers /\ (~t.fresh \/ t.incoming)
<1>1. t \in State /\ Numbers(t) /\ Flags(t) /\ Shaped(t)
  BY NumbersLemma DEF Inv
<1>2. /\ ~t.failed /\ probe \in t.probes /\ t.probes # {} /\ t.timer # Never
      /\ t.refresh = Never
  BY <1>1 DEF Answer, Alive, Shaped
<1>3. p' = IF Expired(t) THEN Fail(t)
           ELSE IF old THEN FreshEcho(Clear(t)) ELSE Confirm(t, probe)
  BY DEF Answer, ConfirmCycle
<1>4. CASE Expired(t)
  <2> DEFINE f == Fail(t)
  <2>1. /\ f \in State /\ NoCycle(f) /\ f.failed /\ f.refresh = Never
        /\ SameLine(f, t) /\ SameEcho(f, t) /\ SameLink(f, t) /\ SameWindow(f, t)
    BY <1>1, FailLemma
  <2>2. p' = f
    BY <1>3, <1>4
  <2> HIDE DEF f
  <2>3. ~(t.sound /\ MaxReply < Timeout)
    BY <1>1, <1>2, <1>4, NotExpired DEF Inv
  <2>4. t.steady => f.spaced
    BY <2>1 DEF Inv, Paced, SameEcho
  <2> QED BY <2>1, <2>2, <2>3, <2>4, FailedInv DEF SameLink
<1>5. CASE ~Expired(t) /\ old
  <2>1. p' = FreshEcho(Clear(t))
    BY <1>3, <1>5
  <2>2. t.window # Never
    BY <1>1, <1>2, <1>5 DEF Shaped
  <2>3. Bounded(t, t.silent, Limit(Idle)) /\ Bounded(t, t.watched, Limit(Active))
    BY <1>2 DEF Inv, Noticed
  <2>5. /\ t.silent <= Limit(Idle) + 2 * Lateness + Lease
        /\ t.watched <= Limit(Active) + 2 * Lateness + Lease
    BY <1>2, AgesLemma
  <2>6. t.sound /\ MaxReply < Timeout =>
          /\ ~t.ahead /\ ~t.expired
          /\ t.incoming \/ t.outgoing \/ t.blocked = 0
          /\ t.blocked + Spacing + Lateness + MaxReply < t.window
    BY <1>2, <1>5 DEF Inv, Kept
  <2>7. Pausable(t)
    BY <1>2, <1>5, <2>2, <2>3, <2>5, <2>6 DEF Pausable, Inv, Proven, Paced
  <2> QED BY <1>1, <2>1, <2>7, ClearedInv
<1>6. CASE ~Expired(t) /\ ~old
  <2> DEFINE r == Confirm(t, probe)
             intime == t.left > Drift(t, t.leftAhead) \/ Grace(t) > 0
  <2>1. p' = r
    BY <1>3, <1>6
  <2>2. intime
    <3>1. Grace(t) \in Int /\ Grace(t) >= 0 /\ Drift(t, t.leftAhead) \in Int
      BY <1>1, RemainingLemma, Constants DEF Drift
    <3> QED BY <1>1, <1>6, <3>1 DEF Expired, Numbers
  <2>3. t.exact /\ probe \in t.proofs
    BY <1>1, <1>2, <1>6 DEF Inv, Proven, Flags
  <2>4. ~t.incoming
    BY <1>1, <1>6 DEF Shaped
  <2>5. /\ r \in State /\ NoCycle(r) /\ SameEcho(r, t)
        /\ r.refresh = Never /\ r.window = Never /\ ~r.expired /\ ~r.outgoing
        /\ r.incoming = t.incoming /\ r.blocked = 0 /\ r.sound = t.sound
        /\ r.failed = t.failed /\ r.repeat = t.repeat /\ r.transfers = t.transfers
        /\ r.present = t.present /\ r.ahead = t.ahead /\ r.steady = t.steady
        /\ r.silent = 0 /\ r.watched = 0
        /\ t.exact /\ intime /\ probe \in t.proofs => r.exact
        /\ t.repeat \/ t.tick # Never => r.tick = t.tick /\ r.long = t.long
        /\ ~t.repeat /\ t.tick = Never => /\ r.tick = IF t.present THEN Active ELSE Idle
                                          /\ r.long <=> ~t.present
    BY <1>1, ConfirmLemma
  <2> HIDE DEF r, intime
  <2>6. Shaped(r) /\ Proven(r)
    BY <1>2, <2>2, <2>3, <2>4, <2>5 DEF Shaped, Proven, NoCycle
  <2>7. Paced(r)
    BY <2>5 DEF Inv, Paced, SameEcho, NoCycle
  <2>8. Numbers(r) /\ Flags(r)
    BY <2>5, NumbersLemma
  <2>9. Armed(r)
    <3>1. Active # Never /\ Idle # Never
      BY Constants
    <3>2. CASE t.repeat \/ t.tick # Never
      BY <1>1, <2>5, <2>8, <3>1, <3>2, Constants DEF Inv, Armed, Flags
    <3>3. CASE ~(t.repeat \/ t.tick # Never)
      BY <1>1, <2>5, <2>8, <3>1, <3>3, Constants DEF Armed, Flags
    <3> QED BY <3>2, <3>3
  <2>10. Noticed(r)
    <3>1. r.tick # Never /\ r.tick <= Idle /\ (r.present \/ ~r.long => r.tick <= Active)
      <4>1. r.tick # Never
        BY <1>2, <2>5, <2>9 DEF Armed, Quiet, NoCycle
      <4> QED BY <2>8, <2>9, <4>1 DEF Armed, Numbers, Timed
    <3>2. Bounded(r, 0, Limit(Idle)) /\ Bounded(r, 0, Limit(Active))
      BY <2>5 DEF Bounded, NoCycle
    <3>3. r.silent + r.tick <= Idle + (IF r.long THEN 0 ELSE Lateness)
      BY <2>5, <2>8, <3>1, Constants DEF Numbers, Timed
    <3>4. r.present => r.watched + r.tick <= Active
      BY <2>5, <2>8, <3>1, Constants DEF Numbers, Timed
    <3> QED BY <1>2, <2>5, <2>6, <2>9, <3>2, <3>3, <3>4, NoticedLemma DEF NoCycle
  <2>11. Kept(r)
    BY <1>2, <2>4, <2>5 DEF Inv, Kept, Quiet, NoCycle
  <2> QED BY <2>1, <2>5, <2>6, <2>7, <2>9, <2>10, <2>11 DEF Inv
<1> QED BY <1>4, <1>5, <1>6

(* What a large frame that begins leaves of the cycle and its silence. *)
LEMMA OpenedLemma ==
  ASSUME NEW t, Inv(t), ~t.failed, t.transfers, NEW time \in 0 .. MaxTransfer,
         NEW v \in State, SameLine(v, t), SameEcho(v, t), SameLink(v, t),
         v.probes = t.probes, v.left = t.left, v.timer = t.timer, v.hedge = t.hedge,
         v.owed = t.owed, ~v.failed, v.refresh = t.refresh, v.expired = t.expired,
         ~v.fresh, v.proofs = {}, v.window # Never,
         t.window # Never => v.window = t.window, t.window = Never => v.window = Lease,
         v.incoming \/ v.outgoing
  PROVE  LET w == Through(v, time)
         IN /\ w \in State /\ SameLine(w, t) /\ SameEcho(w, t) /\ SameWindow(w, v)
            /\ w.probes = t.probes /\ w.left = t.left /\ w.timer = t.timer /\ w.hedge = t.hedge
            /\ w.proofs = {} /\ ~w.fresh /\ ~w.failed /\ w.refresh = t.refresh
            /\ Paced(w) /\ Pausable(w)
            /\ w.sound /\ MaxReply < Timeout =>
                 /\ t.sound /\ ~w.expired /\ w.blocked >= t.blocked
                 /\ t.owed # Never => w.owed = Greatest(t.owed, w.blocked)
<1> DEFINE w == Through(v, time)
<1>1. /\ t \in State /\ Numbers(t) /\ Shaped(t)
      /\ Limit(Idle) \in Int /\ Limit(Active) \in Int
  BY NumbersLemma, Constants DEF Inv, Limit
<1>2. /\ w \in State
      /\ SameLine(w, v) /\ SameEcho(w, v) /\ SameWindow(w, v)
      /\ w.probes = v.probes /\ w.left = v.left /\ w.timer = v.timer /\ w.hedge = v.hedge
      /\ w.proofs = v.proofs /\ w.fresh = v.fresh /\ w.expired = v.expired
      /\ w.failed = v.failed /\ w.refresh = v.refresh
      /\ w.sound =>
           /\ v.sound /\ w.blocked >= v.blocked
           /\ w.blocked + Spacing + Lateness + MaxReply < Remaining(v)
           /\ v.owed = Never => w.owed = Never
           /\ v.owed # Never => w.owed = Greatest(v.owed, w.blocked)
  BY ThroughLemma
<1> HIDE DEF w
<1>3. SameLine(w, t) /\ SameEcho(w, t)
  BY <1>2 DEF SameLine, SameEcho
<1>4. w.window = v.window /\ w.incoming = v.incoming /\ w.outgoing = v.outgoing
  BY <1>2 DEF SameWindow
<1>5. t.refresh # Never => t.window # Never /\ t.probes = {}
  BY <1>1 DEF Shaped
<1>6. Paced(w)
  <2>1. t.refresh # Never => w.window = t.window
    BY <1>4, <1>5
  <2> QED BY <1>2, <1>3, <2>1 DEF Inv, Paced, SameLine, SameEcho
<1>7. Armed(w)
  BY <1>2, <1>3 DEF Inv, Armed, Quiet, SameLine
<1>8. ASSUME NEW age \in Int, NEW limit \in Int, Bounded(t, age, limit),
             t.window = Never => age <= limit + Lateness
      PROVE  Bounded(w, age, limit)
  <2>1. w.window > 0 => age <= limit + Lateness + Lease - w.window
    <3>1. CASE t.window = Never
      <4>1. w.window = Lease
        BY <1>4, <3>1
      <4> QED BY <1>8, <3>1, <4>1, Constants
    <3>2. CASE t.window # Never
      BY <1>4, <1>8, <3>2 DEF Bounded
    <3> QED BY <3>1, <3>2
  <2>2. w.window # Never /\ w.probes = t.probes /\ w.timer = t.timer /\ w.refresh = t.refresh
    BY <1>2, <1>4
  <2> QED BY <1>8, <2>1, <2>2 DEF Bounded
<1>9. t.window = Never => t.refresh = Never
  BY <1>5
<1>10. Bounded(t, t.silent, Limit(Idle)) /\ Bounded(t, t.watched, Limit(Active))
  BY DEF Inv, Noticed
<1>11. Bounded(w, w.silent, Limit(Idle)) /\ Bounded(w, w.watched, Limit(Active))
  <2>1. t.window = Never => /\ t.silent <= Limit(Idle) + Lateness
                            /\ t.watched <= Limit(Active) + Lateness
    BY <1>9, AgesLemma
  <2>2. w.silent = t.silent /\ w.watched = t.watched
    BY <1>3 DEF SameLine
  <2> QED BY <1>1, <1>8, <1>10, <2>1, <2>2 DEF Numbers
<1>12. w.sound /\ MaxReply < Timeout =>
         /\ t.sound /\ ~w.expired /\ ~w.ahead /\ w.blocked >= t.blocked
         /\ t.owed # Never => w.owed = Greatest(t.owed, w.blocked)
         /\ w.blocked + Spacing + Lateness + MaxReply < w.window
  <2> SUFFICES ASSUME w.sound, MaxReply < Timeout
               PROVE  /\ t.sound /\ ~w.expired /\ ~w.ahead /\ w.blocked >= t.blocked
                      /\ t.owed # Never => w.owed = Greatest(t.owed, w.blocked)
                      /\ w.blocked + Spacing + Lateness + MaxReply < w.window
    OBVIOUS
  <2>1. t.sound /\ w.blocked >= t.blocked
    BY <1>2 DEF SameLink
  <2>2. ~v.ahead /\ ~v.expired /\ ~w.ahead /\ ~w.expired
    BY <1>2, <1>3, <2>1 DEF Inv, Kept, SameLine
  <2>3. Remaining(v) = v.window
    BY <2>2, RemainingLemma
  <2> QED BY <1>2, <1>4, <2>1, <2>2, <2>3
<1>13. t.refresh = Never => /\ w.silent <= Limit(Idle) + 2 * Lateness + Lease
                            /\ w.watched <= Limit(Active) + 2 * Lateness + Lease
  BY <1>3, AgesLemma DEF SameLine
<1>14. w.transfers /\ w.exact /\ (w.steady => w.spaced /\ ~w.ahead)
  BY <1>3 DEF Inv, Proven, Paced, SameLine, SameEcho
<1>15. Pausable(w)
  BY <1>2, <1>4, <1>6, <1>7, <1>11, <1>12, <1>13, <1>14 DEF Pausable
<1> QED BY <1>2, <1>3, <1>6, <1>12, <1>15 DEF w

LEMMA HintInv ==
  ASSUME NEW time \in 0 .. MaxTransfer, Inv(p), Hint(time)
  PROVE  Inv(p')
<1> DEFINE t == p
           u == Begin(t)
           v == [u EXCEPT !.incoming = TRUE]
           r == Through(v, time)
<1>1. t \in State /\ Numbers(t) /\ Shaped(t)
  BY NumbersLemma DEF Inv
<1>2. ~t.failed /\ t.transfers /\ p' = r
  BY DEF Hint, Alive
<1>3. /\ u \in State
      /\ SameLine(u, t) /\ SameEcho(u, t) /\ SameLink(u, t)
      /\ u.probes = t.probes /\ u.left = t.left /\ u.timer = t.timer /\ u.hedge = t.hedge
      /\ u.owed = t.owed /\ u.failed = t.failed /\ u.refresh = t.refresh
      /\ u.expired = t.expired /\ u.incoming = t.incoming /\ u.outgoing = t.outgoing
      /\ ~u.fresh /\ u.proofs = {} /\ u.window # Never
      /\ t.window # Never => u.window = t.window
      /\ t.window = Never => u.window = Lease
  BY <1>1, BeginLemma
<1> HIDE DEF u
<1>4. v \in State
  BY <1>3, SetIncoming, Zenon
<1>5. /\ v \in State /\ v.incoming /\ v.outgoing = u.outgoing /\ v.window = u.window
      /\ SameLine(v, u) /\ SameEcho(v, u) /\ SameLink(v, u)
      /\ v.probes = u.probes /\ v.left = u.left /\ v.timer = u.timer /\ v.hedge = u.hedge
      /\ v.owed = u.owed /\ v.failed = u.failed /\ v.refresh = u.refresh
      /\ v.expired = u.expired /\ v.fresh = u.fresh /\ v.proofs = u.proofs
  BY <1>3, <1>4 DEF State, SameLine, SameEcho, SameLink
<1> HIDE DEF v
<1>6. SameLine(v, t) /\ SameEcho(v, t) /\ SameLink(v, t)
  BY <1>3, <1>5 DEF SameLine, SameEcho, SameLink
<1>7. /\ r \in State /\ SameLine(r, t) /\ SameEcho(r, t) /\ SameWindow(r, v)
      /\ r.probes = t.probes /\ r.left = t.left /\ r.timer = t.timer /\ r.hedge = t.hedge
      /\ r.proofs = {} /\ ~r.fresh /\ ~r.failed /\ r.refresh = t.refresh
      /\ Paced(r) /\ Pausable(r)
      /\ r.sound /\ MaxReply < Timeout =>
           /\ t.sound /\ ~r.expired /\ r.blocked >= t.blocked
           /\ t.owed # Never => r.owed = Greatest(t.owed, r.blocked)
  BY <1>2, <1>3, <1>5, <1>6, OpenedLemma
<1> HIDE DEF r
<1>8. r.incoming /\ r.window # Never /\ r.transfers /\ r.exact /\ Armed(r)
  BY <1>3, <1>5, <1>7 DEF SameWindow, Pausable
<1>9. Shaped(r) /\ Proven(r)
  BY <1>1, <1>7, <1>8 DEF Shaped, Proven
<1>10. Noticed(r)
  <2>1. Quiet(r) => r.silent + r.tick <= Idle + (IF r.long THEN 0 ELSE Lateness)
    BY <1>2, <1>7 DEF Inv, Noticed, Quiet, SameLine
  <2>2. Quiet(r) /\ r.present => r.watched + r.tick <= Active
    BY <1>2, <1>7 DEF Inv, Noticed, Quiet, SameLine
  <2> QED BY <1>7, <1>8, <1>9, <2>1, <2>2, NoticedLemma DEF Pausable
<1>11. Kept(r)
  <2> SUFFICES ASSUME r.sound, MaxReply < Timeout
               PROVE  Kept(r)
    BY DEF Kept
  <2>1. /\ t.sound /\ ~r.expired /\ r.blocked >= t.blocked /\ ~r.ahead
        /\ t.owed # Never => r.owed = Greatest(t.owed, r.blocked)
        /\ r.blocked + Spacing + Lateness + MaxReply < r.window
    BY <1>7 DEF Pausable
  <2>2. Numbers(r)
    BY <1>7, NumbersLemma
  <2>3. r.probes # {} => /\ r.owed # Never /\ r.owed <= r.blocked + MaxReply
                         /\ r.owed < r.window
    <3> SUFFICES ASSUME r.probes # {}
                 PROVE  /\ r.owed # Never /\ r.owed <= r.blocked + MaxReply
                        /\ r.owed < r.window
      OBVIOUS
    <3>1. t.owed # Never /\ t.owed <= t.blocked + MaxReply
      BY <1>7, <2>1 DEF Inv, Kept
    <3>2. r.owed = Greatest(t.owed, r.blocked) /\ r.owed \in Int /\ r.owed # Never
      BY <1>1, <2>1, <2>2, <3>1, Constants DEF Numbers, Greatest
    <3> QED BY <1>1, <1>8, <2>1, <2>2, <3>1, <3>2, Constants DEF Numbers, Greatest
  <2>4. r.refresh # Never => r.blocked + MaxReply + r.refresh + Lateness < r.window
    BY <1>8, <2>1, <2>2, Constants DEF Numbers, Timed
  <2> QED BY <1>7, <1>8, <2>1, <2>3, <2>4 DEF Kept
<1> QED BY <1>2, <1>7, <1>8, <1>9, <1>10, <1>11 DEF Inv

LEMMA SendLargeInv ==
  ASSUME NEW time \in 0 .. MaxTransfer, Inv(p), SendLarge(time)
  PROVE  Inv(p')
<1> DEFINE t == p
           u == Begin(t)
           v == [u EXCEPT !.outgoing = TRUE]
           w == Through(v, time)
<1>1. t \in State /\ ~t.failed /\ t.transfers /\ p' = FreshEcho(Clear(w))
  BY DEF Inv, SendLarge, Alive, RefreshAfterTransfer
<1>2. /\ u \in State
      /\ SameLine(u, t) /\ SameEcho(u, t) /\ SameLink(u, t)
      /\ u.probes = t.probes /\ u.left = t.left /\ u.timer = t.timer /\ u.hedge = t.hedge
      /\ u.owed = t.owed /\ u.failed = t.failed /\ u.refresh = t.refresh
      /\ u.expired = t.expired /\ ~u.fresh /\ u.proofs = {} /\ u.window # Never
      /\ t.window # Never => u.window = t.window
      /\ t.window = Never => u.window = Lease
  BY <1>1, BeginLemma
<1> HIDE DEF u
<1>3. v \in State
  BY <1>2, SetOutgoing, Zenon
<1>4. /\ v \in State /\ v.outgoing /\ v.window = u.window
      /\ SameLine(v, u) /\ SameEcho(v, u) /\ SameLink(v, u)
      /\ v.probes = u.probes /\ v.left = u.left /\ v.timer = u.timer /\ v.hedge = u.hedge
      /\ v.owed = u.owed /\ v.failed = u.failed /\ v.refresh = u.refresh
      /\ v.expired = u.expired /\ v.fresh = u.fresh /\ v.proofs = u.proofs
  BY <1>2, <1>3 DEF State, SameLine, SameEcho, SameLink
<1> HIDE DEF v
<1>5. SameLine(v, t) /\ SameEcho(v, t) /\ SameLink(v, t)
  BY <1>2, <1>4 DEF SameLine, SameEcho, SameLink
<1>6. w \in State /\ Pausable(w)
  BY <1>1, <1>2, <1>4, <1>5, OpenedLemma
<1> QED BY <1>1, <1>6, ClearedInv

LEMMA LargeArrivesInv == Inv(p) /\ LargeArrives => Inv(p')
<1> SUFFICES ASSUME Inv(p), LargeArrives
             PROVE  Inv(p')
  OBVIOUS
<1> DEFINE t == p
           b == IF t.outgoing THEN t.blocked ELSE 0
           u == [t EXCEPT !.incoming = FALSE, !.blocked = b]
<1>1. t \in State /\ Numbers(t) /\ Shaped(t) /\ ~t.failed /\ t.incoming
  BY NumbersLemma DEF Inv, LargeArrives, Alive
<1>2. p' = FreshEcho(Clear(u))
  BY DEF LargeArrives, RefreshAfterTransfer, Inv, State
<1>3. /\ b \in 0 .. MaxTransfer /\ b <= t.blocked
      /\ t.outgoing \/ b = 0
  BY <1>1, Constants DEF Numbers
<1> HIDE DEF b
<1>4. u \in State
  BY <1>1, <1>3, SetIncoming, SetBlocked, Zenon
<1>5. /\ u \in State /\ SameLine(u, t) /\ SameEcho(u, t) /\ SameCycle(u, t)
      /\ u.window = t.window /\ u.outgoing = t.outgoing /\ u.blocked = b
      /\ u.sound = t.sound /\ u.failed = t.failed /\ u.refresh = t.refresh
      /\ u.expired = t.expired /\ u.fresh = t.fresh
  BY <1>1, <1>3, <1>4 DEF State, SameLine, SameEcho, SameCycle
<1> HIDE DEF u
<1>6. u.window # Never /\ u.transfers /\ ~u.failed
  BY <1>1, <1>5 DEF Shaped, SameLine
<1>7. u.exact /\ (u.steady => u.spaced /\ ~u.ahead) /\ Paced(u)
  BY <1>5 DEF Inv, Proven, Paced, SameLine, SameEcho, SameCycle
<1>8. Armed(u)
  BY <1>5 DEF Inv, Armed, Quiet, SameLine, SameCycle
<1>9. Bounded(u, u.silent, Limit(Idle)) /\ Bounded(u, u.watched, Limit(Active))
  BY <1>1, <1>5 DEF Inv, Noticed, Bounded, SameLine, SameCycle
<1>10. u.refresh = Never => /\ u.silent <= Limit(Idle) + 2 * Lateness + Lease
                           /\ u.watched <= Limit(Active) + 2 * Lateness + Lease
  BY <1>1, <1>5, AgesLemma DEF SameLine
<1>11. u.sound /\ MaxReply < Timeout =>
         /\ ~u.ahead /\ ~u.expired
         /\ u.incoming \/ u.outgoing \/ u.blocked = 0
         /\ u.blocked + Spacing + Lateness + MaxReply < u.window
  <2> SUFFICES ASSUME u.sound, MaxReply < Timeout
               PROVE  /\ ~u.ahead /\ ~u.expired
                      /\ u.outgoing \/ u.blocked = 0
                      /\ u.blocked + Spacing + Lateness + MaxReply < u.window
    OBVIOUS
  <2>1. /\ ~t.ahead /\ ~t.expired
        /\ t.blocked + Spacing + Lateness + MaxReply < t.window
    BY <1>1, <1>5 DEF Inv, Kept
  <2>2. t.window \in Int
    BY <1>1 DEF Shaped, Numbers
  <2> QED BY <1>1, <1>3, <1>5, <2>1, <2>2, Constants DEF SameLine, Numbers
<1>12. Pausable(u)
  BY <1>6, <1>7, <1>8, <1>9, <1>10, <1>11 DEF Pausable
<1> QED BY <1>2, <1>5, <1>12, ClearedInv
-----------------------------------------------------------------------------
LEMMA InitLemma == Init => IInv
BY NegotiatedInv DEF Init, IInv

LEMMA NextLemma == IInv /\ [Next]_vars => IInv'
<1> SUFFICES ASSUME Inv(p), [Next]_vars
             PROVE  Inv(p')
  BY DEF IInv
<1>1. CASE UNCHANGED vars
  BY <1>1 DEF vars
<1>2. CASE Reconnects
  BY <1>2, NegotiatedInv DEF Reconnects
<1>3. CASE \E present \in BOOLEAN : ClientCount(present)
  BY <1>3, ClientCountInv
<1>4. CASE \E sent \in BOOLEAN : Hedge(sent) \/ Refresh(sent)
  BY <1>4, HedgeInv, RefreshInv
<1>5. CASE \E probe \in Probes : Answer(probe)
  BY <1>5, AnswerInv
<1>6. CASE \E time \in 0 .. MaxTransfer : SendLarge(time) \/ Hint(time)
  BY <1>6, SendLargeInv, HintInv
<1>7. CASE Pass \/ ClockJumps \/ LinkBreaks \/ Tick \/ CycleEnds \/ LargeArrives
  BY <1>7, PassInv, ClockJumpsInv, LinkBreaksInv, TickInv, CycleEndsInv, LargeArrivesInv
<1> QED BY <1>1, <1>2, <1>3, <1>4, <1>5, <1>6, <1>7 DEF Next

(* The inductive invariant holds in every reachable state. *)
THEOREM Invariance == Spec => []IInv
BY InitLemma, NextLemma, PTL DEF Spec

(* The timers, the window and the probes of a cycle fit together. *)
THEOREM TypeCorrect == Spec => []TypeOK
<1>1. IInv => TypeOK
  BY DEF IInv, Inv, Shaped, TypeOK
<1> QED BY <1>1, Invariance, PTL

(* Only an answer to a probe of the current cycle, sent after the last     *)
(* large frame began, and within the deadline unless a window suspends it, *)
(* confirms the socket.                                                    *)
THEOREM Exactness == Spec => []ConfirmationsAreExact
<1>1. IInv => ConfirmationsAreExact
  BY DEF IInv, Inv, Proven, ConfirmationsAreExact
<1> QED BY <1>1, Invariance, PTL

(* The echoes of a socket are Spacing apart while the wall clock is steady.*)
THEOREM EchoSpacing == Spec => []EchoesAreSpaced
<1>1. IInv => EchoesAreSpaced
  BY DEF IInv, Inv, Paced, EchoesAreSpaced
<1> QED BY <1>1, Invariance, PTL

(* No socket is silent for longer than the cadence, the deadline and what  *)
(* a large frame adds once.                                                *)
THEOREM SilenceNoticed == Spec => []SilenceIsNoticed
<1>1. IInv => SilenceIsNoticed
  BY DEF IInv, Inv, Noticed, InTime, SilenceIsNoticed, Suspended, Late
<1> QED BY <1>1, Invariance, PTL

(* A Relay that answers before the deadline is never given up, as long as  *)
(* the large frames are through within their window.                       *)
THEOREM AnsweringKept == Spec => []AnsweringRelayIsKept
<1>1. IInv => AnsweringRelayIsKept
  BY DEF IInv, Inv, Kept, AnsweringRelayIsKept
<1> QED BY <1>1, Invariance, PTL
=============================================================================
