------------------------ MODULE RelayRequests_proofs ------------------------
(***************************************************************************)
(* What RelayRequests promises for every set of clients and ids, TTL and   *)
(* capacity.  The steps fall into five kinds as far as entries go (Kinds); *)
(* the invariants are proved for each kind.                                *)
(***************************************************************************)
EXTENDS RelayRequests, FiniteSetTheorems, TLAPS

(* The kinds of steps. *)
Still ==
  /\ UNCHANGED <<pending, owed, asked>>
  /\ \A c \in ClientIds : routed'[c] = "none" <=> routed[c] = "none"

Leaving(gone) ==
  /\ Forget(gone)
  /\ now' = now
  /\ \A c \in ClientIds \ gone : routed'[c] = routed[c]

Accepted(c, id) ==
  /\ IsOpen(c)
  /\ ~Duplicate(c, id)
  /\ HasRoom(c)
  /\ pending' = [pending EXCEPT ![c] = Remembered(c, id)]
  /\ owed'    = [owed EXCEPT ![c][id] = @ + 1]
  /\ asked'   = [asked EXCEPT ![c][id] = now]
  /\ UNCHANGED <<now, routed>>

Declined(c, id) ==
  /\ IsOpen(c)
  /\ ~Duplicate(c, id)
  /\ pending' = [pending EXCEPT ![c] = Rejected(c, id)]
  /\ UNCHANGED <<now, routed, owed, asked>>

Answered(c, id) ==
  /\ Origins(id) = {c}
  /\ pending' = [pending EXCEPT ![c] = Consumed(c, id)]
  /\ owed'    = [owed EXCEPT ![c][id] = @ - 1]
  /\ asked'   = [asked EXCEPT ![c][id] = NoTime]
  /\ UNCHANGED <<now, routed>>

(* Every step is of one of these kinds. *)
LEMMA Kinds ==
  ASSUME TypeOK, [Next]_vars
  PROVE  \/ Still
         \/ \E gone \in SUBSET ClientIds : Leaving(gone)
         \/ \E c \in ClientIds, id \in Ids : Accepted(c, id) \/ Declined(c, id) \/ Answered(c, id)
<1> USE DEF clock
<1>1. CASE UNCHANGED vars
  BY <1>1 DEF vars, clock, Still
<1>2. CASE Tick \/ ClockStepsBack \/ OwnerDrops
  BY <1>2 DEF Tick, ClockStepsBack, OwnerDrops, Still
<1>3. ASSUME NEW c \in ClientIds, ClientJoins(c)
      PROVE  \E gone \in SUBSET ClientIds : Leaving(gone)
  <2>1. Leaving({c})
    BY <1>3 DEF ClientJoins, Leaving, TypeOK
  <2> QED BY <2>1
<1>4. ASSUME NEW c \in ClientIds, ClientDrops(c)
      PROVE  Still
  BY <1>4 DEF ClientDrops, Still, TypeOK
<1>5. ASSUME NEW c \in ClientIds, ClientLeaves(c)
      PROVE  \E gone \in SUBSET ClientIds : Leaving(gone)
  <2>1. Leaving({c})
    BY <1>5 DEF ClientLeaves, Leaving, TypeOK
  <2> QED BY <2>1
<1>6. ASSUME NEW c \in ClientIds, NEW id \in Ids, NEW connect \in BOOLEAN, NEW storable \in BOOLEAN,
             Request(c, id, connect, storable)
      PROVE  Still \/ Accepted(c, id) \/ Declined(c, id)
  BY <1>6 DEF Request, Still, Accepted, Declined
<1>7. ASSUME NEW id \in Ids, Answer(id)
      PROVE  \E c \in ClientIds : Answered(c, id)
  BY <1>7 DEF Answer, Answered
<1>8. CASE OwnerJoins
  <2> DEFINE retired == IF owner = "never" THEN {} ELSE ClientIds
  <2>1. Leaving(retired)
    BY <1>8 DEF OwnerJoins, Leaving, Cleared
  <2>2. retired \in SUBSET ClientIds
    OBVIOUS
  <2> QED BY <2>1, <2>2
<1>9. CASE OwnerClosed
  <2>1. Leaving(ClientIds)
    BY <1>9 DEF OwnerClosed, Leaving
  <2> QED BY <2>1
<1>10. CASE Reconcile
  <2> DEFINE gone == {c \in ClientIds : routed[c] = "closing"}
  <2>1. Leaving(gone)
    BY <1>10 DEF Reconcile, Leaving, Cleared
  <2>2. gone \in SUBSET ClientIds
    OBVIOUS
  <2> QED BY <2>1, <2>2
<1> QED
  BY <1>1, <1>2, <1>3, <1>4, <1>5, <1>6, <1>7, <1>8, <1>9, <1>10 DEF Next

(* What an attachment within its capacity counts. *)
LEMMA LiveFacts ==
  ASSUME TypeOK, NEW c \in ClientIds
  PROVE  /\ Live(c) = {e \in pending[c] : now < e.expiresAt /\ e.expiresAt <= now + TTL}
         /\ IsFiniteSet(Live(c))
         /\ Cardinality(Live(c)) <= MaxPending
         /\ Live(c) \subseteq Entries
<1>1. IsFiniteSet(pending[c]) /\ Cardinality(pending[c]) \in Nat /\ Cardinality(pending[c]) <= MaxPending
  BY FS_CardinalityType DEF TypeOK
<1>2. Live(c) = {e \in pending[c] : now < e.expiresAt /\ e.expiresAt <= now + TTL}
  BY <1>1, TTLAssumption DEF Live
<1>3. Live(c) \in SUBSET pending[c]
  BY <1>2
<1>4. IsFiniteSet(Live(c)) /\ Cardinality(Live(c)) <= Cardinality(pending[c])
  BY <1>1, <1>3, FS_Subset
<1>5. Cardinality(Live(c)) \in Nat
  BY <1>4, FS_CardinalityType
<1>6. pending[c] \subseteq Entries
  BY DEF TypeOK
<1> QED BY <1>1, <1>2, <1>3, <1>4, <1>5, <1>6, TTLAssumption

(* The entry a request at this time gets. *)
LEMMA NewEntry ==
  ASSUME TypeOK, NEW id \in Ids
  PROVE  [id |-> id, expiresAt |-> now + TTL] \in Entries
BY TTLAssumption, BoundsAssumption DEF TypeOK, Entries, Times

(* Accepting, taking and rejecting stay within the capacity. *)
LEMMA Capacity ==
  ASSUME TypeOK, NEW c \in ClientIds, NEW id \in Ids
  PROVE  /\ Consumed(c, id) \subseteq Live(c) /\ Rejected(c, id) \subseteq Live(c)
         /\ \A S \in SUBSET Live(c) :
              S \in SUBSET Entries /\ IsFiniteSet(S) /\ Cardinality(S) <= MaxPending
         /\ Remembered(c, id) \in SUBSET Entries /\ IsFiniteSet(Remembered(c, id))
         /\ HasRoom(c) => Cardinality(Remembered(c, id)) <= MaxPending
<1> DEFINE e == [id |-> id, expiresAt |-> now + TTL]
<1>1. Consumed(c, id) \subseteq Live(c) /\ Rejected(c, id) \subseteq Live(c)
  BY DEF Consumed, Rejected, Remembered
<1>2. IsFiniteSet(Live(c)) /\ Cardinality(Live(c)) <= MaxPending /\ Live(c) \subseteq Entries
  BY LiveFacts
<1>3. Cardinality(Live(c)) \in Nat
  BY <1>2, FS_CardinalityType
<1>4. ASSUME NEW S \in SUBSET Live(c)
      PROVE  S \in SUBSET Entries /\ IsFiniteSet(S) /\ Cardinality(S) <= MaxPending
  <2>1. IsFiniteSet(S) /\ Cardinality(S) <= Cardinality(Live(c))
    BY <1>2, FS_Subset
  <2>2. Cardinality(S) \in Nat
    BY <2>1, FS_CardinalityType
  <2> QED BY <2>1, <2>2, <1>2, <1>3, TTLAssumption
<1>5. e \in Entries
  BY NewEntry
<1>6. /\ IsFiniteSet(Live(c) \cup {e})
      /\ Cardinality(Live(c) \cup {e}) <= Cardinality(Live(c)) + 1
  <2>1. /\ IsFiniteSet(Live(c) \cup {e})
        /\ Cardinality(Live(c) \cup {e}) =
             IF e \in Live(c) THEN Cardinality(Live(c)) ELSE Cardinality(Live(c)) + 1
    BY <1>2, FS_AddElement
  <2> QED BY <2>1, <1>3
<1>7. Remembered(c, id) = Live(c) \cup {e}
  BY DEF Remembered
<1>8. Cardinality(Live(c) \cup {e}) \in Nat
  BY <1>6, FS_CardinalityType
<1> HIDE DEF e
<1>9. HasRoom(c) => Cardinality(Remembered(c, id)) <= MaxPending
  BY <1>3, <1>6, <1>7, <1>8, TTLAssumption DEF HasRoom
<1> QED BY <1>1, <1>2, <1>4, <1>5, <1>6, <1>7, <1>9
-----------------------------------------------------------------------------
LEMMA InitTypes == Init => TypeOK
BY FS_EmptySet, TTLAssumption, BoundsAssumption
   DEF Init, TypeOK, Times, NothingOwed, NothingAsked

(* Clocks, connections and the owner keep their types. *)
LEMMA PlainTypes ==
  ASSUME TypeOK, [Next]_vars
  PROVE  /\ now' \in Times
         /\ routed' \in [ClientIds -> {"none", "open", "closing"}]
         /\ owner' \in {"never", "open", "closing", "gone"}
         /\ steady' \in BOOLEAN
<1> USE DEF TypeOK, clock
<1>1. CASE UNCHANGED vars
  BY <1>1 DEF vars
<1>2. CASE Tick \/ ClockStepsBack
  <2>1. now' \in Times
    BY <1>2, BoundsAssumption DEF Tick, ClockStepsBack, Times
  <2> QED BY <1>2, <2>1, Zenon DEF Tick, ClockStepsBack
<1>3. CASE \E c \in ClientIds : ClientJoins(c) \/ ClientDrops(c) \/ ClientLeaves(c)
  BY <1>3 DEF ClientJoins, ClientDrops, ClientLeaves
<1>4. CASE \E c \in ClientIds, id \in Ids, connect \in BOOLEAN, storable \in BOOLEAN :
             Request(c, id, connect, storable)
  BY <1>4 DEF Request
<1>5. CASE \E id \in Ids : Answer(id)
  BY <1>5 DEF Answer
<1>6. CASE OwnerJoins \/ OwnerDrops \/ OwnerClosed \/ Reconcile
  BY <1>6 DEF OwnerJoins, OwnerDrops, OwnerClosed, Reconcile, Cleared
<1> QED BY <1>1, <1>2, <1>3, <1>4, <1>5, <1>6 DEF Next

LEMMA TypeStep == TypeOK /\ [Next]_vars => TypeOK'
<1> SUFFICES ASSUME TypeOK, [Next]_vars PROVE TypeOK'
  OBVIOUS
<1>1. CASE Still
  BY <1>1, PlainTypes DEF Still, TypeOK
<1>2. ASSUME NEW gone \in SUBSET ClientIds, Leaving(gone) PROVE TypeOK'
  <2>1. pending' \in [ClientIds -> SUBSET Entries]
    BY <1>2 DEF Leaving, Forget, Cleared, TypeOK
  <2>2. ASSUME NEW c \in ClientIds
        PROVE  IsFiniteSet(pending'[c]) /\ Cardinality(pending'[c]) <= MaxPending
    <3>1. pending'[c] = {} \/ pending'[c] = pending[c]
      BY <1>2 DEF Leaving, Forget, Cleared
    <3>2. IsFiniteSet(pending[c]) /\ Cardinality(pending[c]) <= MaxPending
      BY DEF TypeOK
    <3>3. IsFiniteSet({}) /\ Cardinality({}) <= MaxPending
      <4>1. IsFiniteSet({}) /\ Cardinality({}) = 0
        BY FS_EmptySet
      <4> QED BY <4>1, TTLAssumption
    <3> QED BY <3>1, <3>2, <3>3, Zenon
  <2>3. owed' \in [ClientIds -> [Ids -> Int]] /\ asked' \in [ClientIds -> [Ids -> Times \union {NoTime}]]
    BY <1>2 DEF Leaving, Forget, Cleared, NothingOwed, NothingAsked, TypeOK
  <2> QED BY <2>1, <2>2, <2>3, PlainTypes DEF TypeOK
<1>3. ASSUME NEW c \in ClientIds, NEW id \in Ids, Accepted(c, id) \/ Declined(c, id) \/ Answered(c, id)
      PROVE  TypeOK'
  <2>1. PICK S : /\ pending' = [pending EXCEPT ![c] = S]
                 /\ S \in SUBSET Entries /\ IsFiniteSet(S) /\ Cardinality(S) <= MaxPending
    <3>1. CASE Accepted(c, id)
      BY <3>1, Capacity DEF Accepted
    <3>2. CASE Declined(c, id)
      BY <3>2, Capacity DEF Declined
    <3>3. CASE Answered(c, id)
      BY <3>3, Capacity DEF Answered
    <3> QED BY <1>3, <3>1, <3>2, <3>3
  <2>2. /\ pending' \in [ClientIds -> SUBSET Entries]
        /\ \A d \in ClientIds : IsFiniteSet(pending'[d]) /\ Cardinality(pending'[d]) <= MaxPending
    BY <2>1 DEF TypeOK
  <2>3. owed' \in [ClientIds -> [Ids -> Int]]
    <3>1. PICK n \in Int : owed' = [owed EXCEPT ![c][id] = n]
      BY <1>3 DEF Accepted, Declined, Answered, TypeOK
    <3> QED BY <3>1 DEF TypeOK
  <2>4. asked' \in [ClientIds -> [Ids -> Times \union {NoTime}]]
    <3>1. asked \in [ClientIds -> [Ids -> Times \union {NoTime}]] /\ now \in Times
      BY DEF TypeOK
    <3>2. CASE Accepted(c, id)
      BY <3>1, <3>2 DEF Accepted
    <3>3. CASE Declined(c, id)
      BY <3>1, <3>3 DEF Declined
    <3>4. CASE Answered(c, id)
      BY <3>1, <3>4 DEF Answered
    <3> QED BY <1>3, <3>2, <3>3, <3>4
  <2> QED BY <2>2, <2>3, <2>4, PlainTypes DEF TypeOK
<1> QED BY <1>1, <1>2, <1>3, Kinds

(* The variables keep their types, and no socket holds more entries than   *)
(* rememberPendingRequest allows.                                          *)
THEOREM TypeCorrect == Spec => []TypeOK
BY InitTypes, TypeStep, PTL DEF Spec
-----------------------------------------------------------------------------
(* Responses and requests: every entry stands for a request that is owed   *)
(* an answer, one per id.                                                  *)
OwedInv == AnsweredOnlyIfAsked /\ EntriesAreOwed

LEMMA OwedStep == TypeOK /\ OwedInv /\ [Next]_vars => OwedInv'
<1> SUFFICES ASSUME TypeOK, OwedInv, [Next]_vars PROVE OwedInv'
  OBVIOUS
<1> USE DEF OwedInv, AnsweredOnlyIfAsked, EntriesAreOwed
<1>1. CASE Still
  BY <1>1 DEF Still
<1>2. ASSUME NEW gone \in SUBSET ClientIds, Leaving(gone) PROVE OwedInv'
  <2>1. \A c \in ClientIds :
          \/ pending'[c] = {} /\ owed'[c] = NothingOwed
          \/ pending'[c] = pending[c] /\ owed'[c] = owed[c]
    BY <1>2 DEF Leaving, Forget, Cleared
  <2> QED BY <2>1 DEF NothingOwed
<1>3. ASSUME NEW c \in ClientIds, NEW id \in Ids, Accepted(c, id) PROVE OwedInv'
  <2>1. id \notin IdsOf(Live(c))
    BY <1>3 DEF Accepted, Duplicate, IsOpen
  <2>2. Live(c) \subseteq pending[c] /\ pending[c] \subseteq Entries
    BY LiveFacts DEF TypeOK
  <2>3. /\ \A d \in ClientIds : d # c => pending'[d] = pending[d] /\ owed'[d] = owed[d]
        /\ pending'[c] = Live(c) \union {[id |-> id, expiresAt |-> now + TTL]}
        /\ \A i \in Ids : owed'[c][i] = IF i = id THEN owed[c][i] + 1 ELSE owed[c][i]
    BY <1>3 DEF Accepted, Remembered, TypeOK
  <2>4. \A i \in Ids : owed[c][i] \in Int /\ owed[c][i] >= 0
    BY DEF TypeOK
  <2>5. \A e \in pending'[c] : e.id \in Ids /\ owed'[c][e.id] > 0
    BY <2>2, <2>3, <2>4 DEF Entries
  <2>6. \A e, f \in pending'[c] : e.id = f.id => e = f
    BY <2>1, <2>2, <2>3 DEF IdsOf
  <2> QED BY <2>3, <2>4, <2>5, <2>6
<1>4. ASSUME NEW c \in ClientIds, NEW id \in Ids, Declined(c, id) PROVE OwedInv'
  <2>1. Rejected(c, id) \subseteq pending[c]
    BY LiveFacts, Capacity
  <2>2. \A d \in ClientIds : pending'[d] \subseteq pending[d] /\ owed'[d] = owed[d]
    BY <1>4, <2>1 DEF Declined, TypeOK
  <2> QED BY <2>2
<1>5. ASSUME NEW c \in ClientIds, NEW id \in Ids, Answered(c, id) PROVE OwedInv'
  <2>1. PICK e \in pending[c] : e.id = id
    <3>1. id \in IdsOf(Live(c))
      BY <1>5 DEF Answered, Origins
    <3> QED BY <3>1, LiveFacts DEF IdsOf
  <2>2. owed[c][id] > 0
    BY <2>1
  <2>3. /\ \A d \in ClientIds : d # c => pending'[d] = pending[d] /\ owed'[d] = owed[d]
        /\ pending'[c] = Consumed(c, id)
        /\ \A i \in Ids : owed'[c][i] = IF i = id THEN owed[c][i] - 1 ELSE owed[c][i]
    BY <1>5 DEF Answered, TypeOK
  <2>4. pending'[c] \subseteq pending[c] /\ \A f \in pending'[c] : f.id # id /\ f.id \in Ids
    BY <2>3, LiveFacts DEF Consumed, Entries
  <2>5. \A i \in Ids : owed[c][i] \in Int /\ owed[c][i] >= 0
    BY DEF TypeOK
  <2>6. \A i \in Ids : owed'[c][i] >= 0
    BY <2>2, <2>3, <2>5
  <2>7. \A f \in pending'[c] : owed'[c][f.id] > 0
    BY <2>3, <2>4
  <2> QED BY <2>3, <2>4, <2>6, <2>7
<1> QED BY <1>1, <1>2, <1>3, <1>4, <1>5, Kinds

LEMMA OwedAlways == Spec => []OwedInv
<1>1. Init => OwedInv
  BY DEF Init, OwedInv, AnsweredOnlyIfAsked, EntriesAreOwed, NothingOwed
<1> QED BY <1>1, OwedStep, TypeCorrect, PTL DEF Spec

(* No connection gets more responses for an id than it has sent requests,  *)
(* however clients choose ids, owners repeat answers and the clock jumps.  *)
THEOREM AtMostOneAnswer == Spec => []AnsweredOnlyIfAsked
BY OwedAlways, PTL DEF OwedInv

(* The capacity of a connection is used by requests it waits for only.     *)
THEOREM CapacityReturns == Spec => []EntriesAreOwed
BY OwedAlways, PTL DEF OwedInv
-----------------------------------------------------------------------------
(* While the clock does not step back: entries expire within the TTL, two  *)
(* clients have no entry of the same id at a time, and a request that is   *)
(* waited for and not expired has its entry.                               *)
UnroutedHoldNothing == \A c \in ClientIds : routed[c] = "none" => pending[c] = {}
ExpireWithinTTL     == \A c \in ClientIds : \A e \in pending[c] : e.expiresAt <= now + TTL
OneOrigin ==
  \A c, d \in ClientIds : \A e \in pending[c], f \in pending[d] :
    now < e.expiresAt /\ now < f.expiresAt /\ e.id = f.id => c = d
AskedIsPending ==
  \A c \in ClientIds, id \in Ids :
    asked[c][id] # NoTime =>
      /\ asked[c][id] <= now
      /\ now < asked[c][id] + TTL => [id |-> id, expiresAt |-> asked[c][id] + TTL] \in pending[c]
TimelyInv == UnroutedHoldNothing /\ ExpireWithinTTL /\ OneOrigin /\ AskedIsPending

LEMMA ClockForward ==
  ASSUME TypeOK, steady', [Next]_vars
  PROVE  steady /\ now \in Nat /\ now' \in Nat /\ now <= now'
<1>1. now \in Nat
  BY BoundsAssumption DEF TypeOK, Times
<1>2. steady /\ (now' = now \/ now' = now + 1)
  BY DEF Next, vars, clock, Tick, ClockStepsBack, ClientJoins, ClientDrops, ClientLeaves,
         Request, Answer, OwnerJoins, OwnerDrops, OwnerClosed, Reconcile
<1> QED BY <1>1, <1>2

(* The times of well-typed states are numbers. *)
LEMMA Numbers ==
  ASSUME TypeOK
  PROVE  /\ now \in Nat /\ TTL \in Nat /\ TTL >= 1
         /\ \A c \in ClientIds : \A e \in pending[c] : e.id \in Ids /\ e.expiresAt \in Nat
         /\ \A c \in ClientIds, id \in Ids : asked[c][id] # NoTime => asked[c][id] \in Nat
         /\ now # NoTime
<1>1. now \in Nat /\ Times \subseteq Nat
  BY BoundsAssumption DEF TypeOK, Times
<1>2. TTL \in Nat /\ TTL >= 1
  BY TTLAssumption
<1>3. \A c \in ClientIds : \A e \in pending[c] : e.id \in Ids /\ e.expiresAt \in Nat
  BY <1>2, BoundsAssumption DEF TypeOK, Entries
<1>4. \A c \in ClientIds, id \in Ids : asked[c][id] # NoTime => asked[c][id] \in Nat
  BY <1>1 DEF TypeOK
<1> QED BY <1>1, <1>2, <1>3, <1>4, NothingAssumption

(* Steps that change no entry, or forget those of connections that leave.  *)
LEMMA TimelyForgetting ==
  ASSUME TypeOK, TimelyInv, steady', [Next]_vars,
         Still \/ \E gone \in SUBSET ClientIds : Leaving(gone)
  PROVE  TimelyInv'
<1>1. now \in Nat /\ now' \in Nat /\ now <= now'
  BY ClockForward
<1>2. \A c \in ClientIds :
        \/ pending'[c] = pending[c] /\ asked'[c] = asked[c] /\ (routed'[c] = "none" <=> routed[c] = "none")
        \/ pending'[c] = {} /\ asked'[c] = NothingAsked
  BY DEF Still, Leaving, Forget, Cleared
<1>3. UnroutedHoldNothing'
  BY <1>2 DEF TimelyInv, UnroutedHoldNothing
<1>4. ExpireWithinTTL'
  BY <1>1, <1>2, Numbers DEF TimelyInv, ExpireWithinTTL
<1>5. OneOrigin'
  <2> SUFFICES ASSUME NEW c \in ClientIds, NEW d \in ClientIds,
                      NEW e \in pending'[c], NEW f \in pending'[d],
                      now' < e.expiresAt, now' < f.expiresAt, e.id = f.id
               PROVE  c = d
    BY DEF OneOrigin
  <2>1. e \in pending[c] /\ f \in pending[d]
    BY <1>2
  <2>2. now < e.expiresAt /\ now < f.expiresAt
    BY <1>1, <2>1, Numbers
  <2> QED BY <2>1, <2>2 DEF TimelyInv, OneOrigin
<1>6. AskedIsPending'
  <2> SUFFICES ASSUME NEW c \in ClientIds, NEW id \in Ids, asked'[c][id] # NoTime
               PROVE  /\ asked'[c][id] <= now'
                      /\ now' < asked'[c][id] + TTL =>
                           [id |-> id, expiresAt |-> asked'[c][id] + TTL] \in pending'[c]
    BY DEF AskedIsPending
  <2>1. pending'[c] = pending[c] /\ asked'[c] = asked[c]
    BY <1>2 DEF NothingAsked
  <2> QED BY <1>1, <2>1, Numbers DEF TimelyInv, AskedIsPending
<1> QED BY <1>3, <1>4, <1>5, <1>6 DEF TimelyInv

(* An unexpired entry counts. *)
LEMMA UnexpiredIsLive ==
  ASSUME TypeOK, TimelyInv, NEW c \in ClientIds, NEW e \in pending[c]
  PROVE  e \in Live(c) <=> now < e.expiresAt
BY LiveFacts DEF TimelyInv, ExpireWithinTTL

(* Steps that leave of the entries of one client at least those of other   *)
(* ids than the one they are about.                                        *)
LEMMA TimelyRemoving ==
  ASSUME TypeOK, TimelyInv, NEW c \in ClientIds, NEW id \in Ids,
         NEW S, S \subseteq pending[c],
         \A e \in Live(c) : e.id # id => e \in S,
         pending' = [pending EXCEPT ![c] = S],
         UNCHANGED <<now, routed>>,
         \A d \in ClientIds, i \in Ids : asked'[d][i] = asked[d][i] \/ asked'[d][i] = NoTime,
         asked'[c][id] = NoTime \/ now >= asked[c][id] + TTL
  PROVE  TimelyInv'
<1>1. \A d \in ClientIds : pending'[d] \subseteq pending[d]
  BY DEF TypeOK
<1>2. UnroutedHoldNothing' /\ ExpireWithinTTL' /\ OneOrigin'
  BY <1>1 DEF TimelyInv, UnroutedHoldNothing, ExpireWithinTTL, OneOrigin
<1>3. AskedIsPending'
  <2> SUFFICES ASSUME NEW d \in ClientIds, NEW i \in Ids, asked'[d][i] # NoTime
               PROVE  /\ asked'[d][i] <= now
                      /\ now < asked'[d][i] + TTL =>
                           [id |-> i, expiresAt |-> asked'[d][i] + TTL] \in pending'[d]
    BY DEF AskedIsPending
  <2>1. asked'[d][i] = asked[d][i] /\ asked[d][i] \in Nat
    BY Numbers
  <2>2. /\ asked[d][i] <= now
        /\ now < asked[d][i] + TTL => [id |-> i, expiresAt |-> asked[d][i] + TTL] \in pending[d]
    BY <2>1 DEF TimelyInv, AskedIsPending
  <2>3. CASE d # c
    BY <2>1, <2>2, <2>3 DEF TypeOK
  <2>4. CASE d = c
    <3>1. ASSUME now < asked[c][i] + TTL PROVE [id |-> i, expiresAt |-> asked[c][i] + TTL] \in S
      <4>1. i # id
        BY <2>1, <2>4, <3>1, Numbers
      <4>2. [id |-> i, expiresAt |-> asked[c][i] + TTL] \in Live(c)
        BY <2>2, <2>4, <3>1, UnexpiredIsLive
      <4> QED BY <4>1, <4>2
    <3> QED BY <2>1, <2>2, <2>4, <3>1 DEF TypeOK
  <2> QED BY <2>3, <2>4
<1> QED BY <1>2, <1>3 DEF TimelyInv

(* An accepted request: its id is on no routed socket, so its entry is the *)
(* only unexpired one of that id.                                          *)
LEMMA TimelyAccepting ==
  ASSUME TypeOK, TimelyInv, NEW c \in ClientIds, NEW id \in Ids, Accepted(c, id)
  PROVE  TimelyInv'
<1> DEFINE new == [id |-> id, expiresAt |-> now + TTL]
<1>1. /\ \A d \in ClientIds : d # c => pending'[d] = pending[d] /\ asked'[d] = asked[d]
      /\ pending'[c] = Live(c) \union {new}
      /\ \A i \in Ids : asked'[c][i] = IF i = id THEN now ELSE asked[c][i]
      /\ now' = now /\ routed' = routed /\ routed[c] # "none"
  BY DEF Accepted, Remembered, IsOpen, TypeOK
<1>2. \A d \in ClientIds : \A e \in pending'[d] : e \in pending[d] \/ (d = c /\ e = new)
  BY <1>1, LiveFacts
<1>3. UnroutedHoldNothing'
  BY <1>1 DEF TimelyInv, UnroutedHoldNothing
<1>4. ExpireWithinTTL'
  BY <1>1, <1>2, Numbers DEF TimelyInv, ExpireWithinTTL
<1>5. ASSUME NEW d \in ClientIds, NEW e \in pending[d], now < e.expiresAt
      PROVE  e.id # id
  <2>1. e \in Live(d)
    BY <1>5, UnexpiredIsLive
  <2>2. routed[d] # "none"
    BY DEF TimelyInv, UnroutedHoldNothing
  <2> QED BY <2>1, <2>2 DEF Accepted, Duplicate, IdsOf
<1>6. OneOrigin'
  <2> SUFFICES ASSUME NEW d1 \in ClientIds, NEW d2 \in ClientIds,
                      NEW e \in pending'[d1], NEW f \in pending'[d2],
                      now < e.expiresAt, now < f.expiresAt, e.id = f.id
               PROVE  d1 = d2
    BY <1>1 DEF OneOrigin
  <2>1. CASE e \in pending[d1] /\ f \in pending[d2]
    BY <2>1 DEF TimelyInv, OneOrigin
  <2>2. CASE e \in pending[d1] /\ d2 = c /\ f = new
    BY <2>2, <1>5
  <2>3. CASE d1 = c /\ e = new /\ f \in pending[d2]
    BY <2>3, <1>5
  <2>4. CASE d1 = c /\ d2 = c
    BY <2>4
  <2> QED BY <1>2, <2>1, <2>2, <2>3, <2>4
<1>7. AskedIsPending'
  <2> SUFFICES ASSUME NEW d \in ClientIds, NEW i \in Ids, asked'[d][i] # NoTime
               PROVE  /\ asked'[d][i] <= now
                      /\ now < asked'[d][i] + TTL =>
                           [id |-> i, expiresAt |-> asked'[d][i] + TTL] \in pending'[d]
    BY <1>1 DEF AskedIsPending
  <2>1. CASE d # c
    BY <1>1, <2>1 DEF TimelyInv, AskedIsPending
  <2>2. CASE d = c /\ i = id
    BY <1>1, <2>2, Numbers
  <2>3. CASE d = c /\ i # id
    <3>1. asked'[c][i] = asked[c][i] /\ asked[c][i] # NoTime
      BY <1>1, <2>3
    <3>2. /\ asked[c][i] <= now
          /\ now < asked[c][i] + TTL => [id |-> i, expiresAt |-> asked[c][i] + TTL] \in pending[c]
      BY <3>1 DEF TimelyInv, AskedIsPending
    <3>3. now < asked[c][i] + TTL => [id |-> i, expiresAt |-> asked[c][i] + TTL] \in Live(c)
      BY <3>2, UnexpiredIsLive
    <3> QED BY <1>1, <2>3, <3>1, <3>2, <3>3
  <2> QED BY <2>1, <2>2, <2>3
<1> QED BY <1>3, <1>4, <1>6, <1>7 DEF TimelyInv

LEMMA TimelyStep ==
  ASSUME TypeOK, steady => TimelyInv, [Next]_vars, steady'
  PROVE  TimelyInv'
<1>0. TimelyInv
  BY ClockForward
<1>1. CASE Still \/ \E gone \in SUBSET ClientIds : Leaving(gone)
  BY <1>0, <1>1, TimelyForgetting
<1>2. ASSUME NEW c \in ClientIds, NEW id \in Ids, Accepted(c, id) PROVE TimelyInv'
  BY <1>0, <1>2, TimelyAccepting
<1>3. ASSUME NEW c \in ClientIds, NEW id \in Ids, Declined(c, id) PROVE TimelyInv'
  <2>1. Rejected(c, id) \subseteq pending[c] /\ \A e \in Live(c) : e.id # id => e \in Rejected(c, id)
    BY LiveFacts, Capacity DEF Rejected, Remembered
  <2>2. asked[c][id] = NoTime \/ now >= asked[c][id] + TTL
    <3> SUFFICES ASSUME asked[c][id] # NoTime, now < asked[c][id] + TTL PROVE FALSE
      BY Numbers
    <3> DEFINE e == [id |-> id, expiresAt |-> asked[c][id] + TTL]
    <3>1. e \in pending[c] /\ e.id = id /\ now < e.expiresAt
      BY <1>0 DEF TimelyInv, AskedIsPending
    <3>2. e \in Live(c)
      BY <1>0, <3>1, UnexpiredIsLive
    <3> QED BY <1>3, <3>1, <3>2 DEF Declined, Duplicate, IdsOf, IsOpen
  <2>3. /\ pending' = [pending EXCEPT ![c] = Rejected(c, id)]
        /\ UNCHANGED <<now, routed, asked>>
    BY <1>3 DEF Declined
  <2> QED BY <2>1, <2>2, <2>3, <1>0, TimelyRemoving
<1>4. ASSUME NEW c \in ClientIds, NEW id \in Ids, Answered(c, id) PROVE TimelyInv'
  <2>1. Consumed(c, id) \subseteq pending[c] /\ \A e \in Live(c) : e.id # id => e \in Consumed(c, id)
    BY LiveFacts DEF Consumed
  <2>2. /\ pending' = [pending EXCEPT ![c] = Consumed(c, id)]
        /\ UNCHANGED <<now, routed>>
        /\ \A d \in ClientIds, i \in Ids : asked'[d][i] = asked[d][i] \/ asked'[d][i] = NoTime
        /\ asked'[c][id] = NoTime
    BY <1>4 DEF Answered, TypeOK
  <2> QED BY <2>1, <2>2, <1>0, TimelyRemoving
<1> QED BY <1>1, <1>2, <1>3, <1>4, Kinds

(* While the clock has not stepped back, the answer to an accepted request *)
(* that comes within the TTL reaches the connection that asked.            *)
THEOREM TimelyDelivery == Spec => []TimelyAnswersArrive
<1> DEFINE Inv == steady => TimelyInv
<1>1. Init => Inv
  BY DEF Init, TimelyInv, UnroutedHoldNothing, ExpireWithinTTL, OneOrigin, AskedIsPending,
         NothingAsked
<1>2. TypeOK /\ Inv /\ [Next]_vars => Inv'
  BY TimelyStep
<1>3. TypeOK /\ Inv => TimelyAnswersArrive
  <2> SUFFICES ASSUME TypeOK, TimelyInv, NEW c \in ClientIds, NEW id \in Ids, Awaited(c, id)
               PROVE  Origins(id) = {c}
    BY DEF TimelyAnswersArrive
  <2> DEFINE e == [id |-> id, expiresAt |-> asked[c][id] + TTL]
  <2>1. e \in pending[c] /\ now < e.expiresAt /\ e.id = id
    BY DEF Awaited, TimelyInv, AskedIsPending
  <2>2. c \in Origins(id)
    BY <2>1, UnexpiredIsLive DEF Origins, IdsOf, Awaited
  <2>3. ASSUME NEW d \in Origins(id) PROVE d = c
    <3>1. PICK f \in Live(d) : f.id = id
      BY DEF Origins, IdsOf
    <3>2. f \in pending[d] /\ now < f.expiresAt /\ d \in ClientIds
      BY LiveFacts DEF Origins
    <3> QED BY <2>1, <3>1, <3>2 DEF TimelyInv, OneOrigin
  <2> QED BY <2>2, <2>3
<1> QED BY <1>1, <1>2, <1>3, TypeCorrect, PTL DEF Spec
=============================================================================
