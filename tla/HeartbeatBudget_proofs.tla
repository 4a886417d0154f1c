----------------------- MODULE HeartbeatBudget_proofs -----------------------
(***************************************************************************)
(* What HeartbeatBudget promises for every cost, burst, pace of the peer   *)
(* and delay of the network.  Each part is an inductive invariant of its   *)
(* own on top of the typing: the echoes of a window paid for by credit and *)
(* elapsed time, the shadow budget that a refusal would have saved, and    *)
(* the credit a paced peer still has, given how late its last ping was.    *)
(***************************************************************************)
EXTENDS HeartbeatBudget, TLAPS

(* Arithmetic about the burst, so that products stay out of what follows.  *)
LEMMA CreditBounds ==
  MaxCredit \in Nat /\ Cost \in Nat /\ Cost >= 1 /\ MaxCredit >= Cost
<1>1. \A m, n \in Nat \ {0} : m * n \in Nat /\ m * n >= n
  OBVIOUS
<1> QED BY <1>1, CostAssumption DEF MaxCredit

(* The cost of a number of echoes. *)
LEMMA EchoCost ==
  ASSUME NEW e \in Nat
  PROVE  /\ Cost * e \in Nat
         /\ Cost * (e + 1) = Cost * e + Cost
         /\ Cost * 1 = Cost
BY CostAssumption

(* The times and the "undefined" values are distinct. *)
LEMMA Distinct == NoTime \notin Times /\ NoBudget \notin Budgets
<1>1. Times \subseteq Int
  BY TimeAssumption DEF Times
<1>2. Budgets \subseteq [updatedAt : Nat, creditMs : Nat]
  BY CreditBounds, TimeAssumption DEF Budgets, Times
<1> QED BY <1>1, <1>2, NothingAssumption

(* takeHeartbeatEchoCredit on well-typed input: what it reads, and what    *)
(* credit is available at a clock reading.                                 *)
LEMMA CreditFacts ==
  ASSUME NEW b \in Budgets \cup {NoBudget}, NEW last \in Times \cup {NoTime}, NEW t \in Times
  PROVE  /\ Anchor(b, last, t) \in Times
         /\ Credit(b, last) \in 0 .. MaxCredit
         /\ b # NoBudget => Anchor(b, last, t) = b.updatedAt /\ Credit(b, last) = b.creditMs
         /\ Available(b, last, t) \in 0 .. MaxCredit
         /\ t < Anchor(b, last, t) => Available(b, last, t) = Credit(b, last)
         /\ LET refilled == Credit(b, last) + (t - Anchor(b, last, t))
            IN  t >= Anchor(b, last, t) =>
                  Available(b, last, t) = IF refilled <= MaxCredit THEN refilled ELSE MaxCredit
<1>1. Anchor(b, last, t) \in Times
  BY DEF Anchor, Budgets
<1>2. /\ Credit(b, last) \in 0 .. MaxCredit
      /\ b # NoBudget => Credit(b, last) = b.creditMs
  BY CreditBounds DEF Credit, Budgets, Greater, Lesser
<1>3. b # NoBudget => Anchor(b, last, t) = b.updatedAt
  BY DEF Anchor
<1>4. Times \subseteq Int
  BY TimeAssumption DEF Times
<1> DEFINE c == Credit(b, last)
           u == Anchor(b, last, t)
<1>5. c \in Int /\ u \in Int /\ t \in Int /\ MaxCredit \in Nat /\ c \in 0 .. MaxCredit
  <2>1. u \in Int /\ t \in Int
    BY <1>1, <1>4
  <2>2. c \in 0 .. MaxCredit
    BY <1>2
  <2> HIDE DEF c, u
  <2> QED BY <2>1, <2>2, CreditBounds
<1>6. Available(b, last, t) = Lesser(MaxCredit, c + Greater(0, t - u))
  BY DEF Available
<1> HIDE DEF c, u
<1>7. /\ Available(b, last, t) \in 0 .. MaxCredit
      /\ t < u => Available(b, last, t) = c
      /\ t >= u => Available(b, last, t) = IF c + (t - u) <= MaxCredit THEN c + (t - u) ELSE MaxCredit
  BY <1>5, <1>6 DEF Lesser, Greater
<1> QED BY <1>1, <1>2, <1>3, <1>7 DEF c, u

(* All of these are integers. *)
LEMMA CreditNumbers ==
  ASSUME NEW b \in Budgets \cup {NoBudget}, NEW last \in Times \cup {NoTime}, NEW t \in Times
  PROVE  /\ t \in Nat /\ Anchor(b, last, t) \in Nat
         /\ Credit(b, last) \in Nat /\ Available(b, last, t) \in Nat
<1>1. Times \subseteq Nat /\ 0 .. MaxCredit \subseteq Nat
  BY TimeAssumption, CreditBounds DEF Times
<1>2. /\ Anchor(b, last, t) \in Times
      /\ Credit(b, last) \in 0 .. MaxCredit /\ Available(b, last, t) \in 0 .. MaxCredit
  BY CreditFacts
<1> QED BY <1>1, <1>2

(* The budget a call leaves behind. *)
LEMMA NextFacts ==
  ASSUME NEW b \in Budgets \cup {NoBudget}, NEW last \in Times \cup {NoTime}, NEW t \in Times
  PROVE  /\ NextBudget(b, last, t) \in Budgets
         /\ NextBudget(b, last, t).updatedAt = IF t >= Anchor(b, last, t) THEN t ELSE Anchor(b, last, t)
         /\ NextBudget(b, last, t).creditMs =
              IF Allowed(b, last, t) THEN Available(b, last, t) - Cost ELSE Available(b, last, t)
<1>1. Times \subseteq Int
  BY TimeAssumption DEF Times
<1>2. /\ Anchor(b, last, t) \in Times /\ Anchor(b, last, t) \in Int /\ t \in Int
      /\ Available(b, last, t) \in 0 .. MaxCredit
      /\ MaxCredit \in Nat /\ Cost \in Nat
  BY <1>1, CreditFacts, CreditBounds
<1>3. /\ NextBudget(b, last, t).updatedAt = Greater(t, Anchor(b, last, t))
      /\ NextBudget(b, last, t).creditMs = Available(b, last, t) - (IF Allowed(b, last, t) THEN Cost ELSE 0)
      /\ NextBudget(b, last, t) = [updatedAt |-> NextBudget(b, last, t).updatedAt,
                                   creditMs  |-> NextBudget(b, last, t).creditMs]
  BY DEF NextBudget
<1>4. NextBudget(b, last, t).updatedAt = IF t >= Anchor(b, last, t) THEN t ELSE Anchor(b, last, t)
  BY <1>2, <1>3 DEF Greater
<1>5. NextBudget(b, last, t).creditMs =
        IF Allowed(b, last, t) THEN Available(b, last, t) - Cost ELSE Available(b, last, t)
  BY <1>2, <1>3
<1>6. NextBudget(b, last, t).creditMs \in 0 .. MaxCredit
  BY <1>2, <1>5 DEF Allowed
<1>7. NextBudget(b, last, t).updatedAt \in Times
  BY <1>2, <1>4
<1> QED BY <1>3, <1>4, <1>5, <1>6, <1>7 DEF Budgets

-----------------------------------------------------------------------------
(* Typing. *)

(* Every state of the specification is well typed. *)
THEOREM TypeCorrect == Spec => []TypeOK
<1>1. Init => TypeOK
  BY TimeAssumption DEF Init, TypeOK, Times
<1>2. TypeOK /\ [Next]_vars => TypeOK'
  <2> SUFFICES ASSUME TypeOK, [Next]_vars PROVE TypeOK'
    OBVIOUS
  <2> USE TimeAssumption
  <2>1. CASE Tick
    BY <2>1 DEF Tick, TypeOK, Times, clock, attachment, peer, history
  <2>2. CASE ClockStepsBack
    BY <2>2 DEF ClockStepsBack, TypeOK, clock, attachment, peer, history
  <2>3. CASE SendPing
    BY <2>3 DEF SendPing, TypeOK, clock, attachment, history
  <2>4. ASSUME NEW sent \in BOOLEAN, NEW opens \in BOOLEAN, Echo(sent, opens)
        PROVE  TypeOK'
    <3>1. /\ NextBudget(budget, lastPingAt, now) \in Budgets
          /\ NextBudget(shadow, lastPingAt, now) \in Budgets
      BY NextFacts DEF TypeOK
    <3>2. NextBudget(budget, lastPingAt, now).updatedAt \in Times
      BY <3>1 DEF Budgets
    <3>3. transit' \in Seq(Times) /\ charged' \in Times
      BY <2>4 DEF Echo, TypeOK
    <3>4. window' \in [echoes : Nat, from : Times]
      BY <2>4, <3>2 DEF Echo, TypeOK
    <3> QED BY <2>4, <3>1, <3>2, <3>3, <3>4 DEF Echo, TypeOK, clock
  <2>5. CASE EchoNotStored
    BY <2>5 DEF EchoNotStored, TypeOK, clock, attachment, history
  <2>6. ASSUME NEW stored \in BOOLEAN, Refuse(stored)
        PROVE  TypeOK'
    <3> DEFINE second == DiagnosticSecond(NextBudget(budget, lastPingAt, now))
    <3>1. /\ NextBudget(budget, lastPingAt, now) \in Budgets
          /\ NextBudget(shadow, lastPingAt, now) \in Budgets
      BY NextFacts DEF TypeOK
    <3>2. \A n \in Nat, d \in Nat \ {0} : n \div d \in Nat /\ n \div d <= n
      OBVIOUS
    <3>3. second \in Times
      <4>1. NextBudget(budget, lastPingAt, now).updatedAt \in 0 .. MaxTime
        BY <3>1 DEF Budgets, Times
      <4> QED BY <4>1, <3>2, CostAssumption DEF DiagnosticSecond, Times
    <3> HIDE DEF second
    <3>4. noted' \in Times \cup {NoTime}
      <4>1. CASE noted' = second
        BY <4>1, <3>3
      <4>2. CASE noted' = noted
        BY <4>2 DEF TypeOK
      <4> QED BY <4>1, <4>2, <2>6 DEF Refuse, second
    <3>5. transit' \in Seq(Times)
      BY <2>6 DEF Refuse, TypeOK
    <3> QED BY <2>6, <3>1, <3>4, <3>5 DEF Refuse, TypeOK, clock
  <2>7. CASE UNCHANGED vars
    BY <2>7 DEF vars, clock, attachment, peer, history, TypeOK
  <2> QED BY <2>1, <2>2, <2>3, <2>4, <2>5, <2>6, <2>7 DEF Next
<1> QED BY <1>1, <1>2, PTL DEF Spec

-----------------------------------------------------------------------------
(* Pacing: the echoes of a window and the credit that is left are paid for *)
(* by the burst and by the time the stored anchor has moved.               *)
WindowPaid ==
  window.echoes > 0 =>
    /\ budget # NoBudget
    /\ Cost * window.echoes + budget.creditMs <= MaxCredit + (budget.updatedAt - window.from)

(* An admitted ping keeps the account of its window balanced. *)
LEMMA EchoKeepsAccount ==
  ASSUME TypeOK, WindowPaid, NEW sent \in BOOLEAN, NEW opens \in BOOLEAN, Echo(sent, opens)
  PROVE  WindowPaid'
<1> DEFINE next == NextBudget(budget, lastPingAt, now)
           a == Available(budget, lastPingAt, now)
           u == Anchor(budget, lastPingAt, now)
           c == Credit(budget, lastPingAt)
           e == window.echoes
<1>0. budget \in Budgets \cup {NoBudget} /\ lastPingAt \in Times \cup {NoTime} /\ now \in Times
  BY DEF TypeOK
<1>1. /\ next \in Budgets
      /\ next.updatedAt = IF now >= u THEN now ELSE u
      /\ next.creditMs = a - Cost
      /\ a >= Cost
      /\ a <= MaxCredit
  <2>1. Allowed(budget, lastPingAt, now)
    BY DEF Echo
  <2>2. a \in 0 .. MaxCredit
    BY <1>0, CreditFacts
  <2>3. next \in Budgets /\ next.updatedAt = IF now >= u THEN now ELSE u
    BY <1>0, NextFacts
  <2>4. next.creditMs = a - Cost
    BY <1>0, <2>1, NextFacts
  <2>5. a >= Cost
    BY <2>1 DEF Allowed
  <2> QED BY <2>2, <2>3, <2>4, <2>5, CreditBounds
<1>2. /\ now \in Int /\ u \in Int /\ c \in Int /\ a \in Int
      /\ budget # NoBudget => u = budget.updatedAt /\ c = budget.creditMs
      /\ now < u => a = c
      /\ now >= u => a <= c + (now - u)
  <2>1. /\ budget # NoBudget => u = budget.updatedAt /\ c = budget.creditMs
        /\ now < u => a = c
        /\ now >= u => a = IF c + (now - u) <= MaxCredit THEN c + (now - u) ELSE MaxCredit
    BY <1>0, CreditFacts
  <2>2. now \in Int /\ u \in Int /\ c \in Int /\ a \in Int /\ MaxCredit \in Nat
    BY <1>0, CreditNumbers, CreditBounds
  <2> HIDE DEF u, c, a
  <2> QED BY <2>1, <2>2
<1>3. /\ budget' = next
      /\ \/ window' = window
         \/ window' = [echoes |-> 1, from |-> next.updatedAt]
         \/ e > 0 /\ window' = [window EXCEPT !.echoes = e + 1]
  BY DEF Echo, TypeOK
<1>4. next # NoBudget /\ next.updatedAt \in Int /\ next.creditMs \in Int
  BY <1>1, Distinct, TimeAssumption, CreditBounds DEF Budgets, Times
<1>5. e \in Nat /\ window.from \in Int /\ Cost * e \in Nat /\ MaxCredit \in Nat /\ Cost \in Nat
      /\ Cost * (e + 1) = Cost * e + Cost /\ Cost * 1 = Cost
  BY EchoCost, CreditBounds, TimeAssumption DEF TypeOK, Times
<1>6. e > 0 => /\ budget # NoBudget
               /\ Cost * e + c <= MaxCredit + (u - window.from)
  BY <1>2 DEF WindowPaid
<1> HIDE DEF next, a, u, c
<1>7. CASE window' = window
  <2>1. e > 0 => Cost * e + next.creditMs <= MaxCredit + (next.updatedAt - window.from)
    BY <1>1, <1>2, <1>4, <1>5, <1>6
  <2> QED BY <2>1, <1>3, <1>4, <1>7 DEF WindowPaid
<1>8. CASE window' = [echoes |-> 1, from |-> next.updatedAt]
  <2>1. window'.echoes = 1 /\ window'.from = next.updatedAt
    BY <1>8
  <2>2. Cost + next.creditMs <= MaxCredit + (next.updatedAt - next.updatedAt)
    BY <1>1, <1>2, <1>4, <1>5
  <2>3. Cost * window'.echoes = Cost
    BY <2>1, <1>5
  <2> QED BY <2>1, <2>2, <2>3, <1>3, <1>4 DEF WindowPaid
<1>9. CASE e > 0 /\ window' = [window EXCEPT !.echoes = e + 1]
  <2>1. window'.echoes = e + 1 /\ window'.from = window.from
    BY <1>9 DEF TypeOK
  <2>2. Cost * e + Cost + next.creditMs <= MaxCredit + (next.updatedAt - window.from)
    BY <1>1, <1>2, <1>4, <1>5, <1>6, <1>9
  <2> QED BY <2>1, <2>2, <1>3, <1>4, <1>5 DEF WindowPaid
<1> QED BY <1>3, <1>7, <1>8, <1>9

(* From one echo to a later one there are at most the burst and an echo    *)
(* for each Cost of clock time between them.                               *)
THEOREM Pacing == Spec => []EchoesArePaced
<1>1. Init => WindowPaid
  BY DEF Init, WindowPaid
<1>2. TypeOK /\ WindowPaid /\ [Next]_vars => WindowPaid'
  <2> SUFFICES ASSUME TypeOK, WindowPaid, [Next]_vars PROVE WindowPaid'
    OBVIOUS
  <2>1. ASSUME NEW sent \in BOOLEAN, NEW opens \in BOOLEAN, Echo(sent, opens)
        PROVE  WindowPaid'
    BY <2>1, EchoKeepsAccount
  <2>2. ASSUME UNCHANGED <<budget, window>> PROVE WindowPaid'
    BY <2>2 DEF WindowPaid
  <2>3. \/ UNCHANGED <<budget, window>>
        \/ \E sent, opens \in BOOLEAN : Echo(sent, opens)
    BY DEF Next, Tick, ClockStepsBack, SendPing, EchoNotStored, Refuse,
           vars, clock, attachment, history
  <2> QED BY <2>1, <2>2, <2>3
<1>3. TypeOK /\ WindowPaid => EchoesArePaced
  <2> SUFFICES ASSUME TypeOK, WindowPaid, window.echoes > 0 PROVE EchoesArePaced
    BY DEF EchoesArePaced
  <2>1. budget \in Budgets
    BY DEF WindowPaid, TypeOK
  <2>2. /\ budget.creditMs \in Nat /\ budget.updatedAt \in Int /\ window.from \in Int
        /\ MaxCredit \in Nat /\ Cost * window.echoes \in Nat
    BY <2>1, EchoCost, CreditBounds, TimeAssumption DEF TypeOK, Budgets, Times
  <2> QED BY <2>2 DEF WindowPaid, EchoesArePaced
<1> QED BY <1>1, <1>2, <1>3, TypeCorrect, PTL DEF Spec

-----------------------------------------------------------------------------
(* Refusals: the shadow budget is the stored one, or the stored one with   *)
(* its refill since then already counted, too little for an echo.          *)
ShadowFollows ==
  \/ shadow = budget
  \/ /\ shadow # NoBudget
     /\ budget # NoBudget \/ lastPingAt # NoTime
     /\ LET u == Anchor(budget, lastPingAt, now)
        IN  /\ shadow.updatedAt >= u
            /\ shadow.creditMs = Credit(budget, lastPingAt) + (shadow.updatedAt - u)
     /\ shadow.creditMs < Cost

(* Such a shadow budget is refused and admitted with the stored one. *)
LEMMA ShadowAgrees ==
  ASSUME TypeOK, ShadowFollows, NEW t \in Times
  PROVE  /\ Allowed(budget, lastPingAt, t) <=> Allowed(shadow, lastPingAt, t)
         /\ Allowed(budget, lastPingAt, t) =>
              NextBudget(budget, lastPingAt, t) = NextBudget(shadow, lastPingAt, t)
<1>1. CASE shadow = budget
  BY <1>1
<1>2. CASE shadow # budget
  <2> DEFINE u == Anchor(budget, lastPingAt, t)
             c == Credit(budget, lastPingAt)
             a == Available(budget, lastPingAt, t)
             z == Available(shadow, lastPingAt, t)
             v == shadow.updatedAt
             w == shadow.creditMs
  <2>0. /\ budget \in Budgets \cup {NoBudget} /\ shadow \in Budgets \cup {NoBudget}
        /\ lastPingAt \in Times \cup {NoTime}
    BY DEF TypeOK
  <2>1. /\ shadow # NoBudget /\ shadow \in Budgets
        /\ u = Anchor(budget, lastPingAt, now)
        /\ v >= u /\ w = c + (v - u) /\ w < Cost
        /\ Anchor(shadow, lastPingAt, t) = v /\ Credit(shadow, lastPingAt) = w
    BY <1>2, CreditFacts DEF ShadowFollows, TypeOK, Anchor
  <2>2. /\ t \in Int /\ u \in Int /\ v \in Int /\ c \in Nat /\ w \in Nat
        /\ Cost \in Nat /\ MaxCredit \in Nat /\ Cost <= MaxCredit
    <3>1. t \in Nat /\ u \in Nat /\ c \in Nat
      BY <2>0, CreditNumbers
    <3>2. v \in Nat /\ w \in Nat
      BY <2>0, <2>1, CreditNumbers
    <3> QED BY <3>1, <3>2, CreditBounds
  <2>3. /\ t < u => a = c
        /\ t >= u => a = IF c + (t - u) <= MaxCredit THEN c + (t - u) ELSE MaxCredit
    BY CreditFacts DEF TypeOK
  <2>4. /\ t < v => z = w
        /\ t >= v => z = IF w + (t - v) <= MaxCredit THEN w + (t - v) ELSE MaxCredit
    BY <2>1, CreditFacts DEF TypeOK
  <2>5. /\ NextBudget(budget, lastPingAt, t).updatedAt = IF t >= u THEN t ELSE u
        /\ NextBudget(shadow, lastPingAt, t).updatedAt = IF t >= v THEN t ELSE v
        /\ Allowed(budget, lastPingAt, t) <=> a >= Cost
        /\ Allowed(shadow, lastPingAt, t) <=> z >= Cost
    <3>1. NextBudget(budget, lastPingAt, t).updatedAt = IF t >= u THEN t ELSE u
      BY <2>0, NextFacts
    <3>2. NextBudget(shadow, lastPingAt, t).updatedAt = IF t >= v THEN t ELSE v
      BY <2>0, <2>1, NextFacts
    <3>3. Allowed(budget, lastPingAt, t) <=> a >= Cost
      BY DEF Allowed
    <3>4. Allowed(shadow, lastPingAt, t) <=> z >= Cost
      BY DEF Allowed
    <3> QED BY <3>1, <3>2, <3>3, <3>4
  <2>6. /\ Allowed(budget, lastPingAt, t) => NextBudget(budget, lastPingAt, t).creditMs = a - Cost
        /\ Allowed(shadow, lastPingAt, t) => NextBudget(shadow, lastPingAt, t).creditMs = z - Cost
        /\ NextBudget(budget, lastPingAt, t) \in Budgets
        /\ NextBudget(shadow, lastPingAt, t) \in Budgets
    BY <2>1, NextFacts DEF TypeOK
  <2>7. \A x, y \in Budgets : x.updatedAt = y.updatedAt /\ x.creditMs = y.creditMs => x = y
    BY DEF Budgets
  <2> DEFINE p == NextBudget(budget, lastPingAt, t)
             q == NextBudget(shadow, lastPingAt, t)
  <2> HIDE DEF u, c, a, z, v, w, p, q
  <2>8. /\ t < v => a < Cost /\ z < Cost
        /\ t >= v => t >= u /\ a = z
    BY <2>1, <2>2, <2>3, <2>4
  <2>9. a \in Int /\ z \in Int
    BY <2>2, <2>3, <2>4
  <2>10. Allowed(budget, lastPingAt, t) <=> Allowed(shadow, lastPingAt, t)
    BY <2>2, <2>5, <2>8, <2>9
  <2>11. ASSUME Allowed(budget, lastPingAt, t)
         PROVE  p = q
    <3>1. t >= v /\ a = z /\ t >= u
      BY <2>2, <2>5, <2>8, <2>9, <2>11
    <3>2. p.updatedAt = q.updatedAt /\ p.creditMs = q.creditMs
      BY <3>1, <2>5, <2>6, <2>10, <2>11 DEF p, q
    <3> QED BY <3>2, <2>6, <2>7 DEF p, q
  <2> QED BY <2>10, <2>11 DEF p, q
<1> QED BY <1>1, <1>2

(* A refused ping leaves the shadow too little credit again. *)
LEMMA RefusalKeepsShadow ==
  ASSUME TypeOK, ShadowFollows, NEW stored \in BOOLEAN, Refuse(stored)
  PROVE  ShadowFollows'
<1> DEFINE u == Anchor(budget, lastPingAt, now)
           c == Credit(budget, lastPingAt)
           v == Anchor(shadow, lastPingAt, now)
           w == Credit(shadow, lastPingAt)
           z == Available(shadow, lastPingAt, now)
           next == NextBudget(shadow, lastPingAt, now)
<1>0. /\ budget \in Budgets \cup {NoBudget} /\ shadow \in Budgets \cup {NoBudget}
      /\ lastPingAt \in Times \cup {NoTime} /\ now \in Times
  BY DEF TypeOK
<1>1. /\ UNCHANGED <<now, budget, lastPingAt>> /\ shadow' = next
      /\ ~Allowed(shadow, lastPingAt, now)
  BY ShadowAgrees DEF Refuse, TypeOK, clock
<1>2. /\ next \in Budgets /\ next # NoBudget
      /\ next.updatedAt = IF now >= v THEN now ELSE v
      /\ next.creditMs = z /\ z < Cost
      /\ now < v => z = w
      /\ now >= v => z = IF w + (now - v) <= MaxCredit THEN w + (now - v) ELSE MaxCredit
  <2>1. next \in Budgets /\ next.creditMs = z /\ z \in 0 .. MaxCredit
    BY <1>1, NextFacts, CreditFacts DEF TypeOK
  <2>2. z < Cost
    BY <1>1, <2>1, CreditBounds DEF Allowed
  <2>3. next.updatedAt = IF now >= v THEN now ELSE v
    BY NextFacts DEF TypeOK
  <2> QED BY <2>1, <2>2, <2>3, CreditFacts, Distinct DEF TypeOK
<1>3. /\ now \in Int /\ u \in Int /\ v \in Int /\ c \in Int /\ w \in Int
      /\ Cost \in Nat /\ MaxCredit \in Nat /\ Cost <= MaxCredit
  <2>1. now \in Int /\ u \in Int /\ c \in Int
    BY <1>0, CreditNumbers
  <2>2. v \in Nat /\ w \in Nat
    BY ONLY <1>0, CreditNumbers
  <2> HIDE DEF u, c, v, w
  <2> QED BY <2>1, <2>2, CreditBounds
<1>4. v >= u /\ w = c + (v - u)
  <2>1. CASE shadow = budget
    BY <2>1, <1>3
  <2>2. CASE shadow # budget
    BY <2>2, CreditFacts DEF ShadowFollows, TypeOK
  <2> QED BY <2>1, <2>2
<1>5. budget # NoBudget \/ lastPingAt # NoTime
  <2>1. budget = NoBudget /\ lastPingAt = NoTime => shadow = NoBudget
    BY DEF ShadowFollows
  <2>2. shadow = NoBudget /\ lastPingAt = NoTime => w = MaxCredit /\ v = now
    BY DEF Credit, Anchor
  <2> HIDE DEF v, w, z, next
  <2> QED BY <2>1, <2>2, <1>2, <1>3
<1>6. Anchor(budget, lastPingAt, now)' = u /\ Credit(budget, lastPingAt)' = c
  BY <1>1
<1> HIDE DEF u, c, v, w, z, next
<1>7. next.updatedAt >= u /\ next.creditMs = c + (next.updatedAt - u) /\ next.creditMs < Cost
  BY <1>2, <1>3, <1>4
<1> QED BY <1>1, <1>2, <1>5, <1>6, <1>7 DEF ShadowFollows, u, c

(* Saving the budget of a refused ping would change no later answer. *)
THEOREM RefusalsFree == Spec => []RefusalsNeedNoWrite
<1>1. Init => ShadowFollows
  BY DEF Init, ShadowFollows
<1>2. TypeOK /\ ShadowFollows /\ [Next]_vars => ShadowFollows'
  <2> SUFFICES ASSUME TypeOK, ShadowFollows, [Next]_vars PROVE ShadowFollows'
    OBVIOUS
  <2>1. ASSUME NEW sent \in BOOLEAN, NEW opens \in BOOLEAN, Echo(sent, opens)
        PROVE  ShadowFollows'
    BY <2>1, ShadowAgrees DEF Echo, TypeOK, ShadowFollows
  <2>2. ASSUME NEW stored \in BOOLEAN, Refuse(stored) PROVE ShadowFollows'
    BY <2>2, RefusalKeepsShadow
  <2>3. ASSUME UNCHANGED <<budget, lastPingAt, shadow>> PROVE ShadowFollows'
    BY <2>3 DEF ShadowFollows, Anchor, Credit
  <2>4. \/ UNCHANGED <<budget, lastPingAt, shadow>>
        \/ \E sent, opens \in BOOLEAN : Echo(sent, opens)
        \/ \E stored \in BOOLEAN : Refuse(stored)
    BY DEF Next, Tick, ClockStepsBack, SendPing, EchoNotStored,
           vars, clock, attachment, history
  <2> QED BY <2>1, <2>2, <2>3, <2>4
<1>3. TypeOK /\ ShadowFollows => RefusalsNeedNoWrite
  BY ShadowAgrees DEF RefusalsNeedNoWrite
<1> QED BY <1>1, <1>2, <1>3, TypeCorrect, PTL DEF Spec

-----------------------------------------------------------------------------
(* Paced peers: pings under way are Cost apart and none is overdue.        *)
PingsInOrder ==
  /\ \A i \in 1 .. Len(transit) :
       /\ lastSent # NoTime /\ transit[i] <= lastSent
       /\ now <= transit[i] + MaxTransit
  /\ \A i \in 1 .. Len(transit) - 1 : transit[i] + Cost <= transit[i + 1]
  /\ lastSent # NoTime => lastSent <= now

(* Each charge was for an earlier ping, and the later that ping came, the  *)
(* less of the credit it left can be missing.                              *)
CreditForLatecomers ==
  /\ budget = NoBudget => lastPingAt = NoTime
  /\ budget # NoBudget =>
       /\ charged # NoTime /\ lastSent # NoTime /\ charged <= lastSent
       /\ transit # <<>> => charged + Cost <= transit[1]
       /\ budget.updatedAt \in charged .. now
       /\ budget.updatedAt <= charged + MaxTransit
       /\ MaxCredit - budget.creditMs <= Cost + MaxTransit - (budget.updatedAt - charged)

PacedState == PingsInOrder /\ CreditForLatecomers

(* What is read of a well-typed state, as integers. *)
LEMMA PacedNumbers ==
  ASSUME TypeOK
  PROVE  /\ now \in Int
         /\ lastSent # NoTime => lastSent \in Int
         /\ charged # NoTime => charged \in Int
         /\ \A i \in 1 .. Len(transit) : transit[i] \in Int
         /\ budget # NoBudget => budget.updatedAt \in Int /\ budget.creditMs \in 0 .. MaxCredit
         /\ Len(transit) \in Nat /\ transit \in Seq(Times)
<1>1. Times \subseteq Int
  BY TimeAssumption DEF Times
<1>2. transit \in Seq(Times)
  BY DEF TypeOK
<1>3. \A i \in 1 .. Len(transit) : transit[i] \in Int
  <2>1. \A i \in 1 .. Len(transit) : transit[i] \in Times
    BY <1>2
  <2> QED BY <1>1, <2>1
<1>4. budget # NoBudget => budget.updatedAt \in Int /\ budget.creditMs \in 0 .. MaxCredit
  BY <1>1 DEF TypeOK, Budgets
<1> QED BY <1>1, <1>2, <1>3, <1>4 DEF TypeOK

(* Taking the head of the pings under way keeps the others in order. *)
LEMMA TailInOrder ==
  ASSUME TypeOK, PingsInOrder, transit # <<>>, transit' = Tail(transit), UNCHANGED <<now, lastSent>>
  PROVE  /\ PingsInOrder'
         /\ transit' # <<>> => transit[1] + Cost <= transit'[1]
<1>1. /\ Len(transit) \in Nat \ {0} /\ Len(transit') = Len(transit) - 1
      /\ \A i \in 1 .. Len(transit') : transit'[i] = transit[i + 1]
  BY PacedNumbers
<1>2. \A i \in 1 .. Len(transit') : i + 1 \in 1 .. Len(transit)
  BY <1>1
<1>3. \A i \in 1 .. Len(transit') - 1 :
        /\ i \in 1 .. Len(transit') /\ i + 1 \in 1 .. Len(transit')
        /\ i + 1 \in 1 .. Len(transit) - 1
  BY <1>1
<1>4. \A i \in 1 .. Len(transit') - 1 : transit'[i] + Cost <= transit'[i + 1]
  BY <1>1, <1>3 DEF PingsInOrder
<1>5. \A i \in 1 .. Len(transit') :
        lastSent # NoTime /\ transit'[i] <= lastSent /\ now <= transit'[i] + MaxTransit
  BY <1>1, <1>2 DEF PingsInOrder
<1>6. transit' # <<>> => transit[1] + Cost <= transit'[1]
  <2>1. transit' # <<>> => 1 \in 1 .. Len(transit') /\ 1 \in 1 .. Len(transit) - 1
    BY <1>1, PacedNumbers
  <2> QED BY <2>1, <1>1 DEF PingsInOrder
<1> QED BY <1>4, <1>5, <1>6 DEF PingsInOrder

(* The next ping of a paced peer finds the credit of an echo. *)
LEMMA PacedPingHasCredit ==
  ASSUME TypeOK, PacedPeer, PacedState, transit # <<>>
  PROVE  Allowed(budget, lastPingAt, now)
<1> DEFINE u == Anchor(budget, lastPingAt, now)
           c == Credit(budget, lastPingAt)
           a == Available(budget, lastPingAt, now)
<1>0. budget \in Budgets \cup {NoBudget} /\ lastPingAt \in Times \cup {NoTime} /\ now \in Times
  BY DEF TypeOK
<1>1. /\ now \in Int /\ u \in Int /\ c \in Int
      /\ now >= u => a = IF c + (now - u) <= MaxCredit THEN c + (now - u) ELSE MaxCredit
  <2>1. now >= u => a = IF c + (now - u) <= MaxCredit THEN c + (now - u) ELSE MaxCredit
    BY <1>0, CreditFacts
  <2>2. now \in Nat /\ u \in Nat /\ c \in Nat
    BY ONLY <1>0, CreditNumbers
  <2> HIDE DEF u, c, a
  <2> QED BY <2>1, <2>2
<1>2. CASE budget = NoBudget
  <2>1. c = MaxCredit /\ u = now
    BY <1>2 DEF PacedState, CreditForLatecomers, Credit, Anchor
  <2> HIDE DEF u, c, a
  <2> QED BY <2>1, <1>1, CreditBounds DEF Allowed, a
<1>3. CASE budget # NoBudget
  <2>1. u = budget.updatedAt /\ c = budget.creditMs
    BY <1>0, <1>3, CreditFacts
  <2>2. 1 \in 1 .. Len(transit)
    BY PacedNumbers
  <2>3. transit[1] \in Int /\ charged \in Int /\ charged + Cost <= transit[1]
        /\ u <= now /\ now <= transit[1] + MaxTransit /\ transit[1] <= now
    BY <2>1, <2>2, <1>3, PacedNumbers DEF PacedState, PingsInOrder, CreditForLatecomers
  <2>4. MaxCredit - c <= Cost + MaxTransit - (u - charged)
    BY <2>1, <1>3 DEF PacedState, CreditForLatecomers
  <2>5. MaxTransit <= MaxCredit - Cost /\ MaxTransit \in Int
    BY PeerAssumption DEF PacedPeer
  <2> HIDE DEF u, c, a
  <2>6. a >= Cost
    BY <2>3, <2>4, <2>5, <1>1, CreditBounds
  <2> QED BY <2>6 DEF Allowed, a
<1> QED BY <1>2, <1>3

(* Charging it leaves the credit its successors need. *)
LEMMA PacedEcho ==
  ASSUME TypeOK, PacedPeer, PacedState,
         NEW sent \in BOOLEAN, NEW opens \in BOOLEAN, Echo(sent, opens)
  PROVE  PacedState'
<1> DEFINE u == Anchor(budget, lastPingAt, now)
           c == Credit(budget, lastPingAt)
           a == Available(budget, lastPingAt, now)
           next == NextBudget(budget, lastPingAt, now)
           head == transit[1]
<1>0. budget \in Budgets \cup {NoBudget} /\ lastPingAt \in Times \cup {NoTime} /\ now \in Times
  BY DEF TypeOK
<1>1. /\ transit # <<>> /\ transit' = Tail(transit) /\ UNCHANGED <<now, lastSent>>
      /\ budget' = next /\ lastPingAt' = next.updatedAt /\ charged' = head
      /\ Allowed(budget, lastPingAt, now)
  BY DEF Echo, clock
<1>2. PingsInOrder' /\ (transit' # <<>> => head + Cost <= transit'[1])
  BY <1>1, TailInOrder DEF PacedState
<1>3. /\ now \in Int /\ u \in Int /\ c \in Int /\ a \in Int
      /\ now >= u => a = IF c + (now - u) <= MaxCredit THEN c + (now - u) ELSE MaxCredit
  BY <1>0, CreditFacts, CreditNumbers
<1>4. next \in Budgets /\ next # NoBudget
  BY <1>0, NextFacts, Distinct
<1>5. next.updatedAt = (IF now >= u THEN now ELSE u) /\ next.creditMs = a - Cost
  BY <1>0, <1>1, NextFacts
<1>6. /\ head \in Int /\ head # NoTime /\ lastSent # NoTime
      /\ head <= lastSent /\ lastSent <= now /\ now <= head + MaxTransit
      /\ lastSent \in Int
  <2>1. 1 \in 1 .. Len(transit)
    BY <1>1, PacedNumbers
  <2>2. head \in Times
    BY <2>1 DEF TypeOK
  <2> QED BY <2>1, <2>2, Distinct, PacedNumbers DEF PacedState, PingsInOrder
<1>7. /\ u <= now
      /\ \/ u = now /\ c = MaxCredit
         \/ /\ charged \in Int /\ charged + Cost <= head
            /\ MaxCredit - c <= Cost + MaxTransit - (u - charged)
  <2>1. CASE budget = NoBudget
    <3>1. c = MaxCredit /\ u = now
      BY <2>1 DEF PacedState, CreditForLatecomers, Credit, Anchor
    <3> QED BY <3>1, <1>3
  <2>2. CASE budget # NoBudget
    <3>1. u = budget.updatedAt /\ c = budget.creditMs
      BY <1>0, <2>2, CreditFacts
    <3>2. charged \in Int /\ u \in charged .. now /\ charged + Cost <= head
          /\ MaxCredit - c <= Cost + MaxTransit - (u - charged)
      BY <3>1, <2>2, <1>1, PacedNumbers DEF PacedState, CreditForLatecomers
    <3> HIDE DEF u, c, head
    <3> QED BY <3>2, <1>3, <1>6
  <2> QED BY <2>1, <2>2
<1> HIDE DEF u, c, a, next, head
<1>8. /\ next.updatedAt = now
      /\ MaxCredit - next.creditMs <= Cost + MaxTransit - (now - head)
  <2>1. next.updatedAt = now /\ next.creditMs = a - Cost
    BY <1>3, <1>5, <1>7
  <2>2. CASE a = MaxCredit
    BY <2>1, <2>2, <1>3, <1>6, CreditBounds, PeerAssumption
  <2>3. CASE a = c + (now - u) /\ ~(u = now /\ c = MaxCredit)
    BY <2>1, <2>3, <1>3, <1>6, <1>7, CreditBounds, PeerAssumption
  <2> QED BY <2>2, <2>3, <1>3, <1>7, CreditBounds
<1>9. next.updatedAt \in head .. now /\ next.updatedAt <= head + MaxTransit
  BY <1>3, <1>6, <1>8
<1> QED BY <1>1, <1>2, <1>4, <1>6, <1>8, <1>9 DEF PacedState, CreditForLatecomers

(* A ping that leaves keeps its distance from the ones before. *)
LEMMA PacedSend ==
  ASSUME TypeOK, PacedPeer, paced', PacedState, SendPing
  PROVE  PacedState'
<1>1. /\ transit' = Append(transit, now) /\ lastSent' = now
      /\ UNCHANGED <<now, budget, lastPingAt, charged>>
  BY DEF SendPing, clock, attachment, history
<1>2. lastSent # NoTime => lastSent + Cost <= now
  BY DEF SendPing, Ready, PacedPeer
<1>3. now # NoTime /\ now \in Int /\ MaxTransit \in Nat /\ Cost \in Nat
  BY Distinct, PacedNumbers, PeerAssumption, CreditBounds DEF TypeOK
<1> DEFINE n == Len(transit)
<1>4. /\ n \in Nat /\ Len(transit') = n + 1 /\ transit'[n + 1] = now
      /\ \A i \in 1 .. n : transit'[i] = transit[i]
  BY <1>1, <1>3, PacedNumbers
<1>5. \A i \in 1 .. n : transit[i] \in Int /\ transit[i] + Cost <= now /\ transit[i] <= now
  BY <1>2, <1>3, PacedNumbers DEF PacedState, PingsInOrder
<1>6. PingsInOrder'
  <2>1. \A i \in 1 .. n + 1 : transit'[i] <= now /\ now <= transit'[i] + MaxTransit
    <3>1. \A i \in 1 .. n : now <= transit[i] + MaxTransit
      BY DEF PacedState, PingsInOrder
    <3> QED BY <3>1, <1>3, <1>4, <1>5
  <2>2. \A i \in 1 .. (n + 1) - 1 : transit'[i] + Cost <= transit'[i + 1]
    <3>1. \A i \in 1 .. n - 1 : transit[i] + Cost <= transit[i + 1]
      BY DEF PacedState, PingsInOrder
    <3>2. \A i \in 1 .. n - 1 : transit'[i] + Cost <= transit'[i + 1]
      BY <3>1, <1>4
    <3>3. n \in 1 .. n => transit'[n] + Cost <= transit'[n + 1]
      BY <1>4, <1>5
    <3> QED BY <3>2, <3>3, <1>4
  <2> HIDE DEF n
  <2> QED BY <2>1, <2>2, <1>1, <1>3, <1>4 DEF PingsInOrder
<1>7. CreditForLatecomers'
  <2> SUFFICES ASSUME budget # NoBudget
               PROVE  charged <= now /\ charged + Cost <= transit'[1]
    BY <1>1, <1>3 DEF PacedState, CreditForLatecomers
  <2>1. /\ charged \in Int /\ lastSent \in Int /\ charged <= lastSent /\ lastSent # NoTime
    BY PacedNumbers DEF PacedState, CreditForLatecomers
  <2>2. CASE n = 0
    BY <2>1, <2>2, <1>2, <1>3, <1>4
  <2>3. CASE n # 0
    <3>1. transit # <<>> /\ 1 \in 1 .. n /\ transit'[1] = transit[1]
      BY <2>3, <1>4
    <3> QED BY <3>1, <2>1, <1>2, <1>3 DEF PacedState, CreditForLatecomers
  <2> QED BY <2>2, <2>3
<1> QED BY <1>6, <1>7 DEF PacedState

(* A paced peer is never refused while no ping is delayed by more than the *)
(* rest of the burst.                                                      *)
THEOREM PacedAdmitted == Spec => []PacedPingsAreAdmitted
<1> DEFINE Inv == PacedPeer => PacedState
<1>1. Init => Inv
  <2> SUFFICES ASSUME Init, PacedPeer PROVE PacedState
    OBVIOUS
  <2>1. lastPingAt = NoTime
    BY Zenon DEF Init, PacedPeer
  <2>2. transit = <<>> /\ Len(transit) = 0 /\ lastSent = NoTime /\ budget = NoBudget
    BY DEF Init
  <2> QED BY <2>1, <2>2 DEF PacedState, PingsInOrder, CreditForLatecomers
<1>2. TypeOK /\ Inv /\ [Next]_vars => Inv'
  <2> SUFFICES ASSUME TypeOK, PacedPeer, steady', paced', PacedState, [Next]_vars PROVE PacedState'
    BY DEF PacedPeer, Next, vars, clock, peer, Tick, ClockStepsBack, SendPing, Echo, EchoNotStored,
       Refuse
  <2>1. CASE Tick
    <3>1. /\ now' = now + 1 /\ UNCHANGED <<transit, lastSent, budget, lastPingAt, charged>>
          /\ \A i \in 1 .. Len(transit) : now < transit[i] + MaxTransit
      BY <2>1 DEF Tick, clock, attachment, peer, history
    <3>2. PingsInOrder'
      BY <3>1, PacedNumbers, PeerAssumption DEF PacedState, PingsInOrder
    <3>3. CreditForLatecomers'
      BY <3>1, PacedNumbers DEF PacedState, CreditForLatecomers
    <3> QED BY <3>2, <3>3 DEF PacedState
  <2>2. CASE SendPing
    BY <2>2, PacedSend
  <2>3. ASSUME NEW sent \in BOOLEAN, NEW opens \in BOOLEAN, Echo(sent, opens)
        PROVE  PacedState'
    BY <2>3, PacedEcho
  <2>4. ASSUME transit # <<>>, transit' = Tail(transit),
               UNCHANGED <<now, lastSent, budget, lastPingAt, charged>>
        PROVE  PacedState'
    <3>1. PingsInOrder' /\ (transit' # <<>> => transit[1] + Cost <= transit'[1])
      BY <2>4, TailInOrder DEF PacedState
    <3>2. budget # NoBudget /\ transit' # <<>> => charged + Cost <= transit'[1]
      <4> SUFFICES ASSUME budget # NoBudget, transit' # <<>> PROVE charged + Cost <= transit'[1]
        OBVIOUS
      <4>1. 1 \in 1 .. Len(transit) /\ 1 \in 1 .. Len(transit') /\ Len(transit') = Len(transit) - 1
            /\ transit'[1] = transit[2] /\ 2 \in 1 .. Len(transit)
        BY <2>4, PacedNumbers
      <4>2. charged \in Int /\ transit[1] \in Int /\ transit'[1] \in Int /\ charged + Cost <= transit[1]
        BY <4>1, <2>4, PacedNumbers DEF PacedState, CreditForLatecomers
      <4> QED BY <4>2, <3>1, CreditBounds
    <3>3. CreditForLatecomers'
      BY <2>4, <3>2 DEF PacedState, CreditForLatecomers
    <3> QED BY <3>1, <3>3 DEF PacedState
  <2>5. CASE UNCHANGED vars
    BY <2>5 DEF vars, clock, attachment, peer, history, PacedState, PingsInOrder,
       CreditForLatecomers
  <2>6. EchoNotStored \/ (\E stored \in BOOLEAN : Refuse(stored))
          => /\ transit # <<>> /\ transit' = Tail(transit)
             /\ UNCHANGED <<now, lastSent, budget, lastPingAt, charged>>
    BY DEF EchoNotStored, Refuse, clock, attachment, history
  <2>7. ~ClockStepsBack
    BY DEF ClockStepsBack
  <2> QED BY <2>1, <2>2, <2>3, <2>4, <2>5, <2>6, <2>7 DEF Next
<1>3. TypeOK /\ Inv => PacedPingsAreAdmitted
  BY PacedPingHasCredit DEF PacedPingsAreAdmitted
<1> QED BY <1>1, <1>2, <1>3, TypeCorrect, PTL DEF Spec
=============================================================================
