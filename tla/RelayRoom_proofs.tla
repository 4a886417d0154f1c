-------------------------- MODULE RelayRoom_proofs --------------------------
(***************************************************************************)
(* Proofs about the relay room, for every number of connections, every set *)
(* of identities and every backend policy.                                 *)
(*                                                                         *)
(* The inductive invariant says, beyond the property itself, who may still *)
(* be heard: every open client that no retirement has marked is routed (so *)
(* that the next retirement reaches it), has only talked to the owner      *)
(* accepted last, and the only open owner is that owner.  The connections  *)
(* in Unclosable, which a close() of the room may leave open without a     *)
(* tombstone, are excepted; the invariant says that they do no harm to the *)
(* others, whichever they are.                                             *)
(***************************************************************************)
EXTENDS RelayRoom, TLAPS

(* Sockets whose turn has not come. *)
Untouched ==
  \A s \in Sockets : s > accepted =>
     ready[s] = "none" /\ role[s] = "none" /\ ~retired[s] /\ exchanged[s] = {}

(* The installed owner is the last one, and the lease is its. *)
LastOwner ==
  /\ gateway \in {NoSocket, lastOwner}
  /\ lastOwner <= accepted
  /\ owner = NoId => lastOwner = NoSocket
  /\ lastOwner # NoSocket => role[lastOwner] = "gateway" /\ owner = ident[lastOwner]

(* Only the last owner can be open, and a running room has installed it. *)
OpenOwnerIsLast ==
  \A s \in Sockets : ready[s] = "open" /\ role[s] = "gateway" =>
     s = lastOwner /\ (awake => s = gateway)

(* Every route leads to a client socket of its identity. *)
RoutesAreClients ==
  \A c \in ClientIds : clients[c] # NoSocket =>
     role[clients[c]] = "client" /\ ident[clients[c]] = c /\ ~retired[clients[c]]

(* Retirement is for clients. *)
OnlyClientsRetired == \A s \in Sockets : retired[s] => role[s] = "client"

(* An open client that no retirement has marked, and that close() closes. *)
Live(s) == ready[s] = "open" /\ role[s] = "client" /\ ~retired[s] /\ s \notin Unclosable

(* A running room routes every live client. *)
LiveAreRouted ==
  \A s \in Sockets : Live(s) =>
     ident[s] \in ClientIds /\ (awake => clients[ident[s]] = s)

(* Whoever may still be heard has only talked to the last owner. *)
BoundToLastOwner ==
  \A s \in Sockets \ Unclosable :
    Live(s) \/ s \in Current => exchanged[s] \subseteq {lastOwner}

(* A sleeping room remembers nothing. *)
Asleep ==
  ~awake => /\ gateway = NoSocket
            /\ \A c \in ClientIds : clients[c] = NoSocket
            /\ inFlight = {}

(* What holds of the routes, also when the close of an owner fails. *)
Routing ==
  /\ Untouched
  /\ RoutesAreClients
  /\ OnlyClientsRetired
  /\ LiveAreRouted
  /\ Asleep

IInv ==
  /\ Routing
  /\ LastOwner
  /\ OpenOwnerIsLast
  /\ BoundToLastOwner
  /\ OneOwnerPerClientSocket
-----------------------------------------------------------------------------
(* What the helpers of the actions do to the state. *)

(* Closing only turns open sockets into closing ones (WebSocket.close). *)
LEMMA ClosingFacts ==
  ASSUME TypeOK, NEW S
  PROVE  /\ Closing(S) \in [Sockets -> ReadyState]
         /\ \A s \in Sockets : /\ Closing(S)[s] = "open" <=> ready[s] = "open" /\ s \notin S
                               /\ Closing(S)[s] = "none" <=> ready[s] = "none"
BY DEF TypeOK, Closing, ReadyState

(* Removing routes leaves the others as they are. *)
LEMMA WithoutFacts ==
  ASSUME TypeOK, NEW gone
  PROVE  /\ Without(gone) \in [ClientIds -> Sockets \cup {NoSocket}]
         /\ \A c \in ClientIds : Without(gone)[c] = IF c \in gone THEN NoSocket ELSE clients[c]
BY DEF TypeOK, Without

(* Marking a choice yields markers (selectActiveClient). *)
LEMMA MarkedType ==
  ASSUME TypeOK, NEW routes, NEW choice
  PROVE  Marked(routes, choice) \in [Sockets -> BOOLEAN]
<1>1. ASSUME NEW s \in Sockets
      PROVE (IF \E c \in ClientIds : routes[c] = s
             THEN choice # NoId /\ routes[choice] = s ELSE marker[s]) \in BOOLEAN
  BY DEF TypeOK
<1> QED
  BY <1>1 DEF Marked

(* Dropping clients keeps the active route an identity or none. *)
LEMMA DropType ==
  ASSUME TypeOK, NEW gone, Drop(gone)
  PROVE  /\ clients' = Without(gone)
         /\ clients' \in [ClientIds -> Sockets \cup {NoSocket}]
         /\ activeId' \in ClientIds \cup {NoId}
         /\ marker' \in [Sockets -> BOOLEAN]
<1>0. clients' = Without(gone) /\ clients' \in [ClientIds -> Sockets \cup {NoSocket}]
  BY WithoutFacts DEF Drop
<1>1. ASSUME NEW marks \in [Sockets -> BOOLEAN], Passing(gone, marks)
      PROVE  marker' \in [Sockets -> BOOLEAN]
  BY <1>1 DEF Passing
<1>2. CASE activeId \in gone /\ activeId' = NoId /\ Passing(gone, marker)
  BY <1>0, <1>1, <1>2 DEF TypeOK
<1>3. ASSUME activeId \in gone, NEW c \in OpenRoutes(gone),
             activeId' = c, Passing(gone, Marked(Without(gone), c))
      PROVE  activeId' \in ClientIds \cup {NoId} /\ marker' \in [Sockets -> BOOLEAN]
  BY <1>1, <1>3, MarkedType DEF OpenRoutes
<1>4. CASE activeId \notin gone
  BY <1>0, <1>4 DEF Drop, TypeOK
<1> QED
  BY <1>0, <1>2, <1>3, <1>4 DEF Drop

(* The newest of a set is a member of it, when there is one. *)
LEMMA NewestFacts ==
  ASSUME NEW S \in SUBSET Sockets
  PROVE  Newest(S) \in S \cup {NoSocket}
BY DEF Newest, IsNewest

(* The sole member of a set of identities is an identity. *)
LEMMA SoleFacts ==
  ASSUME NEW S \in SUBSET ClientIds
  PROVE  Sole(S) \in ClientIds \cup {NoId}
BY DEF Sole

(* Rebuilding the room (reconcileSockets): what it installs was open and    *)
(* unretired before, and only that, and sockets whose close may fail, can  *)
(* remain open.                                                            *)
LEMMA ReconcileFacts ==
  ASSUME TypeOK, NEW previous, Reconcile(previous),
         previous \in ClientIds \cup {NoId}
  PROVE  /\ gateway' \in OpenOwners \cup {NoSocket}
         /\ clients' \in [ClientIds -> Sockets \cup {NoSocket}]
         /\ \A c \in ClientIds : clients'[c] \in OpenClients(c) \cup {NoSocket}
         /\ activeId' \in ClientIds \cup {NoId}
         /\ marker' \in [Sockets -> BOOLEAN]
         /\ ready' \in [Sockets -> ReadyState]
         /\ \A s \in Sockets : ready'[s] = "none" <=> ready[s] = "none"
         /\ \A s \in Sockets : ready'[s] = "open" =>
              /\ ready[s] = "open"
              /\ MayStayOpen(s) \/ s = gateway' \/ \E c \in ClientIds : clients'[c] = s
<1> DEFINE routes   == [c \in ClientIds |-> Newest(OpenClients(c))]
           routed   == {c \in ClientIds : routes[c] # NoSocket}
           marked   == {c \in routed : marker[routes[c]]}
           restored == IF Sole(marked) # NoId THEN Sole(marked) ELSE Sole(routed)
           keep     == previous \in routed
           kept     == {Newest(OpenOwners)} \cup {routes[c] : c \in ClientIds}
           stale    == {s \in Sockets : s \notin kept}
<1>1. /\ gateway' = Newest(OpenOwners)
      /\ clients' = routes
      /\ activeId' = IF keep THEN previous ELSE restored
      /\ marker' = IF keep THEN marker ELSE Marked(routes, restored)
  BY DEF Reconcile
<1>2. PICK stuck \in SUBSET {s \in stale : IsOpen(s) /\ MayStayOpen(s)} :
        ready' = Closing(stale \ stuck)
  BY DEF Reconcile
<1>3. gateway' \in OpenOwners \cup {NoSocket}
  BY <1>1, NewestFacts DEF OpenOwners
<1>4. \A c \in ClientIds : routes[c] \in OpenClients(c) \cup {NoSocket}
  BY NewestFacts DEF OpenClients
<1>5. routes \in [ClientIds -> Sockets \cup {NoSocket}]
  BY <1>4 DEF OpenClients
<1>6. restored \in ClientIds \cup {NoId}
  BY SoleFacts
<1>7. marker' \in [Sockets -> BOOLEAN]
  BY <1>1, MarkedType DEF TypeOK
<1>8. /\ ready' \in [Sockets -> ReadyState]
      /\ \A s \in Sockets : /\ ready'[s] = "none" <=> ready[s] = "none"
                            /\ ready'[s] = "open" <=> ready[s] = "open" /\ s \notin stale \ stuck
  BY <1>2, ClosingFacts
<1>9. ASSUME NEW s \in Sockets, ready'[s] = "open"
      PROVE  /\ ready[s] = "open"
             /\ MayStayOpen(s) \/ s = gateway' \/ \E c \in ClientIds : clients'[c] = s
  <2>1. ready[s] = "open" /\ s \notin stale \ stuck
    BY <1>8, <1>9
  <2>2. CASE s \in stuck
    BY <2>1, <2>2, <1>2
  <2>3. CASE s \in kept
    BY <2>1, <2>3, <1>1
  <2> QED
    BY <2>1, <2>2, <2>3
<1> QED
  BY <1>1, <1>3, <1>4, <1>5, <1>6, <1>7, <1>8, <1>9

(* Retirement (retireOwnerClients): the routes are gone and every open      *)
(* socket they led to carries the tombstone; nothing else is retired.      *)
LEMMA RetireFacts ==
  ASSUME TypeOK, NEW gone \in SUBSET ClientIds, Retire(gone)
  PROVE  /\ clients' = Without(gone)
         /\ clients' \in [ClientIds -> Sockets \cup {NoSocket}]
         /\ starts' \in SUBSET ClientIds
         /\ activeId' \in ClientIds \cup {NoId}
         /\ retired' \in [Sockets -> BOOLEAN]
         /\ marker' \in [Sockets -> BOOLEAN]
         /\ \A s \in Sockets : /\ retired[s] => retired'[s]
                               /\ s \in SocketsOf(gone) /\ ready[s] = "open" => retired'[s]
                               /\ retired'[s] => retired[s] \/ s \in SocketsOf(gone)
BY WithoutFacts DEF TypeOK, Retire
-----------------------------------------------------------------------------
(* The state stays in its type under every operation of the room. *)
LEMMA TypePreserved == TypeOK /\ [Next]_vars => TypeOK'
<1> SUFFICES ASSUME TypeOK, [Next]_vars PROVE TypeOK'
  OBVIOUS
<1> USE IdsAssumption, BoundsAssumption
<1>1. ASSUME NEW s \in Sockets, PeerDrops(s) PROVE TypeOK'
  BY <1>1 DEF TypeOK, PeerDrops, memory, history, ReadyState
<1>2. CASE Hibernate
  BY <1>2 DEF TypeOK, Hibernate, Forget, platform
<1>3. CASE Restart
  BY <1>3 DEF TypeOK, Restart, Forget, ReadyState
<1>4. CASE Wake
  <2>1. Reconcile(NoId) BY <1>4 DEF Wake
  <2> QED
    BY <1>4, <2>1, ReconcileFacts DEF TypeOK, Wake, OpenOwners, OpenClients
<1>5. CASE ReadStatus
  <2>1. Reconcile(activeId) /\ activeId \in ClientIds \cup {NoId} BY <1>5 DEF ReadStatus, TypeOK
  <2> QED
    BY <1>5, <2>1, ReconcileFacts DEF TypeOK, ReadStatus, OpenOwners, OpenClients, history
<1>6. ASSUME NEW o \in OwnerIds, OwnerJoins(o) PROVE TypeOK'
  <2> DEFINE s == accepted + 1
             gone == IF EarlierOwnerKnown THEN Connected ELSE {}
  <2>1. /\ s \in Sockets /\ gone \in SUBSET ClientIds /\ Retire(gone)
    BY <1>6 DEF OwnerJoins, TypeOK, Sockets, Connected
  <2>2. PICK stuck, spared : ready' = [Closing((SocketsOf(gone) \ stuck) \cup ({gateway} \ spared)) EXCEPT ![s] = "open"]
    BY <1>6 DEF OwnerJoins
  <2>3. ready' \in [Sockets -> ReadyState]
    BY <2>1, <2>2, ClosingFacts DEF ReadyState
  <2>4. accepted' \in 0 .. MaxSockets
    BY <1>6, <2>1 DEF OwnerJoins, Sockets
  <2> HIDE DEF s, gone
  <2>6. /\ role' = [role EXCEPT ![s] = "gateway"] /\ ident' = [ident EXCEPT ![s] = o]
        /\ gateway' = s /\ owner' = o /\ joining' = joining \cup {s} /\ lastOwner' = s
        /\ UNCHANGED <<awake, inFlight, exchanged, slept>>
    BY <1>6 DEF OwnerJoins, s
  <2> QED
    BY <2>1, <2>3, <2>4, <2>6, RetireFacts DEF TypeOK
<1>7. ASSUME NEW gone \in SUBSET ClientIds, OwnerRecoveryFails(gone) PROVE TypeOK'
  <2>1. Retire(gone) BY <1>7 DEF OwnerRecoveryFails
  <2>2. ready' \in [Sockets -> ReadyState]
    BY <1>7, ClosingFacts DEF OwnerRecoveryFails
  <2> QED
    BY <1>7, <2>1, <2>2, RetireFacts DEF TypeOK, OwnerRecoveryFails, history
<1>8. ASSUME NEW s \in joining, OwnerJoinResumes(s) PROVE TypeOK'
  <2>1. starts' \in SUBSET ClientIds /\ exchanged' \in [Sockets -> SUBSET Sockets]
    BY <1>8 DEF OwnerJoinResumes, TypeOK, IsOpen
  <2> QED
    BY <1>8, <2>1 DEF TypeOK, OwnerJoinResumes, platform
<1>9. ASSUME NEW f \in OwnerFrames, OwnerFrame(f) PROVE TypeOK'
  <2>1. ident[f.from] \in OwnerIds
    BY <1>9 DEF OwnerFrame, TypeOK, OwnerFrames
  <2> QED
    BY <1>9, <2>1 DEF TypeOK, OwnerFrame, history
<1>10. ASSUME NEW f \in inFlight, OwnerFrameResumes(f) PROVE TypeOK'
  <2>1. CASE ~StillInstalled(f)
    BY <1>10, <2>1 DEF TypeOK, OwnerFrameResumes
  <2>2. CASE StillInstalled(f) /\ f.kind = "restart"
    <3>1. Drop(Connected) /\ starts' = {}
      BY <1>10, <2>2 DEF OwnerFrameResumes
    <3>2. PICK stuck : ready' = Closing(Current \ stuck)
      BY <1>10, <2>2 DEF OwnerFrameResumes
    <3>3. ready' \in [Sockets -> ReadyState]
      BY <3>2, ClosingFacts
    <3> QED
      BY <1>10, <2>2, <3>1, <3>3, DropType DEF TypeOK, OwnerFrameResumes
  <2>3. CASE StillInstalled(f) /\ f.kind # "restart"
    <3>1. f.from \in Sockets
      BY <1>10 DEF TypeOK, OwnerFrames
    <3>2. exchanged' \in [Sockets -> SUBSET Sockets]
      BY <1>10, <2>3, <3>1 DEF TypeOK, OwnerFrameResumes
    <3> QED
      BY <1>10, <2>3, <3>2 DEF TypeOK, OwnerFrameResumes
  <2> QED
    BY <2>1, <2>2, <2>3
<1>11. ASSUME NEW s \in Sockets, OwnerClosed(s) PROVE TypeOK'
  <2>1. CASE gateway = s
    <3>1. Retire(Connected) /\ Connected \in SUBSET ClientIds
      BY <1>11, <2>1 DEF OwnerClosed, Connected
    <3>2. ready' \in [Sockets -> ReadyState]
      <4>1. PICK stuck : ready' = [Closing(Current \ stuck) EXCEPT ![s] = "closed"]
        BY <1>11, <2>1 DEF OwnerClosed
      <4> QED
        BY <4>1, ClosingFacts DEF ReadyState
    <3>3. owner' \in OwnerIds
      BY <1>11, <2>1 DEF OwnerClosed, TypeOK
    <3> QED
      BY <1>11, <2>1, <3>1, <3>2, <3>3, RetireFacts DEF TypeOK, OwnerClosed, history
  <2>2. CASE gateway # s
    BY <1>11, <2>2 DEF TypeOK, OwnerClosed, history, ReadyState
  <2> QED
    BY <2>1, <2>2
<1>12. ASSUME NEW s \in Sockets, NEW gone \in SUBSET ClientIds, OwnerClosedPartly(s, gone)
       PROVE TypeOK'
  <2>1. Retire(gone) BY <1>12 DEF OwnerClosedPartly
  <2>2. ready' \in [Sockets -> ReadyState]
    BY <1>12, ClosingFacts DEF OwnerClosedPartly, ReadyState
  <2> QED
    BY <1>12, <2>1, <2>2, RetireFacts DEF TypeOK, OwnerClosedPartly, history
<1>13. ASSUME NEW c \in ClientIds, ClientJoins(c) PROVE TypeOK'
  <2> DEFINE s == accepted + 1
             routes == [clients EXCEPT ![c] = s]
  <2>1. s \in Sockets /\ accepted' \in 0 .. MaxSockets
    BY <1>13 DEF ClientJoins, TypeOK, Sockets
  <2>2. ready' \in [Sockets -> ReadyState]
    BY <1>13, ClosingFacts DEF ClientJoins, ReadyState
  <2>3. activeId' \in ClientIds \cup {NoId} /\ marker' \in [Sockets -> BOOLEAN]
    BY <1>13, MarkedType DEF ClientJoins, TypeOK
  <2>4. /\ role' = [role EXCEPT ![s] = "client"] /\ ident' = [ident EXCEPT ![s] = c]
        /\ clients' = routes
        /\ UNCHANGED <<retired, owner, awake, gateway, starts, inFlight, joining, history>>
    BY <1>13 DEF ClientJoins
  <2> HIDE DEF s
  <2> QED
    BY <2>1, <2>2, <2>3, <2>4 DEF TypeOK, history
<1>14. ASSUME NEW s \in Sockets, NEW kind \in ClientFrames, ClientFrame(s, kind) PROVE TypeOK'
  <2>1. ident[s] \in ClientIds
    BY <1>14 DEF ClientFrame, TypeOK
  <2>2. activeId' \in ClientIds \cup {NoId} /\ marker' \in [Sockets -> BOOLEAN]
    BY <1>14, <2>1, MarkedType DEF ClientFrame, TypeOK, Selected
  <2>3. starts' \in SUBSET ClientIds /\ exchanged' \in [Sockets -> SUBSET Sockets]
    BY <1>14, <2>1 DEF ClientFrame, TypeOK, IsOpen
  <2> QED
    BY <1>14, <2>2, <2>3 DEF ClientFrame, TypeOK
<1>15. ASSUME NEW s \in Sockets, ClientClosed(s) PROVE TypeOK'
  <2>1. ready' \in [Sockets -> ReadyState]
    BY <1>15 DEF ClientClosed, TypeOK, ReadyState
  <2>2. CASE clients[ident[s]] = s
    <3>1. Drop({ident[s]}) /\ starts' = starts \ {ident[s]}
      BY <1>15, <2>2 DEF ClientClosed
    <3> QED
      BY <1>15, <2>1, <3>1, DropType DEF TypeOK, ClientClosed, history
  <2>3. CASE clients[ident[s]] # s
    BY <1>15, <2>1, <2>3 DEF TypeOK, ClientClosed, history
  <2> QED
    BY <2>2, <2>3
<1>16. ASSUME NEW late \in SUBSET ClientIds, NEW expired \in SUBSET ClientIds, Alarm(late, expired)
       PROVE TypeOK'
  <2> DEFINE gone == {c \in Connected : ~IsOpen(clients[c])} \cup late
  <2>1. Drop(gone) /\ starts' = starts \ (gone \cup expired)
    BY <1>16 DEF Alarm
  <2>2. ready' \in [Sockets -> ReadyState]
    BY <1>16, ClosingFacts DEF Alarm
  <2> HIDE DEF gone
  <2> QED
    BY <1>16, <2>1, <2>2, DropType DEF TypeOK, Alarm, history
<1>17. CASE UNCHANGED vars
  BY <1>17 DEF TypeOK, vars, platform, memory, history
<1> QED
  BY <1>1, <1>2, <1>3, <1>4, <1>5, <1>6, <1>7, <1>8, <1>9, <1>10, <1>11, <1>12, <1>13, <1>14,
     <1>15, <1>16, <1>17 DEF Next

(* The attachments and the memory of the room always have the shape the     *)
(* code reads them with.                                                   *)
THEOREM TypeCorrect == Spec => []TypeOK
<1>1. Init => TypeOK
  BY BoundsAssumption DEF Init, TypeOK, ReadyState, Sockets, NoSocket
<1> QED
  BY <1>1, TypePreserved, PTL DEF Spec
-----------------------------------------------------------------------------
(* Most steps accept no connection.  What such a step may do to the routes:  *)
(* connections only close, routes are kept, dropped or found among the open *)
(* sockets, what stays live stays routed, and only routed clients are sent  *)
(* frames or heard.                                                        *)
QuietRoutes ==
  /\ UNCHANGED <<accepted, role, ident>>
  /\ \A s \in Sockets : /\ ready'[s] = "open" => ready[s] = "open"
                        /\ ready[s] = "none" => ready'[s] = "none"
                        /\ retired[s] => retired'[s]
                        /\ retired'[s] => retired[s] \/ s \in Current
  /\ \A c \in ClientIds : clients'[c] # NoSocket =>
       /\ clients'[c] = clients[c] \/ clients'[c] \in OpenClients(c)
       /\ ~retired'[clients'[c]]
  /\ awake' => \A s \in Sockets :
       ready'[s] = "open" /\ role[s] = "client" /\ ~retired'[s] /\ s \notin Unclosable
         => clients'[ident[s]] = s
  /\ \A s \in Sockets : exchanged'[s] # exchanged[s] => s \in Current
  /\ ~awake' => /\ gateway' = NoSocket
                /\ \A c \in ClientIds : clients'[c] = NoSocket
                /\ inFlight' = {}

(* And to the owners: they are kept, dropped or found among the open        *)
(* sockets, and frames pass between the installed owner and clients.       *)
QuietOwners ==
  /\ UNCHANGED lastOwner
  /\ awake' => \A s \in Sockets : ready'[s] = "open" /\ role[s] = "gateway" => s = gateway'
  /\ gateway' \in {gateway, NoSocket} \cup OpenOwners
  /\ owner' = owner \/ (gateway # NoSocket /\ owner' = ident[gateway])
  /\ \A s \in Sockets : exchanged'[s] # exchanged[s] =>
       gateway # NoSocket /\ exchanged'[s] = exchanged[s] \cup {gateway}

(* null is not a socket. *)
LEMMA NoSocketIsNone == NoSocket \notin Sockets
BY DEF NoSocket, Sockets

(* Routes lead to clients only. *)
LEMMA CurrentAreClients ==
  ASSUME Routing
  PROVE  \A s \in Current : role[s] = "client" /\ clients[ident[s]] = s /\ ident[s] \in ClientIds
BY DEF Current, RoutesAreClients, Routing

(* A step that only takes routes away, or finds them, keeps them correct.   *)
LEMMA QuietKeepsRouting ==
  ASSUME TypeOK, TypeOK', Routing, QuietRoutes
  PROVE  Routing'
<1> USE NoSocketIsNone, IdsAssumption
<1>1. Untouched'
  BY CurrentAreClients DEF Untouched, QuietRoutes, Routing
<1>2. RoutesAreClients'
  BY DEF RoutesAreClients, OpenClients, QuietRoutes, Routing
<1>3. OnlyClientsRetired'
  BY CurrentAreClients DEF OnlyClientsRetired, QuietRoutes, Routing
<1>4. LiveAreRouted'
  BY DEF LiveAreRouted, Live, QuietRoutes, Routing
<1>5. Asleep'
  BY DEF Asleep, QuietRoutes
<1> QED
  BY <1>1, <1>2, <1>3, <1>4, <1>5 DEF Routing

(* One step per operation of the room that accepts nobody: it is quiet.     *)
LEMMA QuietSteps ==
  ASSUME TypeOK, TypeOK', Routing, [Next]_vars,
         ~\E c \in ClientIds : ClientJoins(c), ~\E o \in OwnerIds : OwnerJoins(o)
  PROVE  QuietRoutes
<1> USE NoSocketIsNone, IdsAssumption
<1>1. ASSUME NEW s \in Sockets, PeerDrops(s) PROVE QuietRoutes
  BY <1>1 DEF QuietRoutes, PeerDrops, memory, history, TypeOK, Routing, RoutesAreClients,
              LiveAreRouted, Live, Asleep
<1>2. CASE Hibernate
  BY <1>2 DEF QuietRoutes, Hibernate, Forget, platform
<1>3. CASE Restart
  BY <1>3 DEF QuietRoutes, Restart, Forget
<1>4. CASE Wake \/ ReadStatus
  <2>1. PICK previous \in ClientIds \cup {NoId} : Reconcile(previous)
    BY <1>4 DEF Wake, ReadStatus, TypeOK
  <2>2. UNCHANGED <<accepted, role, ident, retired, exchanged>> /\ awake'
    BY <1>4 DEF Wake, ReadStatus, history
  <2>3. \A s \in Sockets : ready'[s] = "open" =>
          MayStayOpen(s) \/ s = gateway' \/ \E c \in ClientIds : clients'[c] = s
    BY <2>1, ReconcileFacts
  <2>4. /\ \A c \in ClientIds : clients'[c] \in OpenClients(c) \cup {NoSocket}
        /\ gateway' \in OpenOwners \cup {NoSocket}
    BY <2>1, ReconcileFacts
  <2>5. \A s \in Sockets : ready'[s] = "open" /\ role[s] = "client" /\ ~retired[s]
                             /\ s \notin Unclosable => clients'[ident[s]] = s
    BY <2>3, <2>4 DEF OpenClients, OpenOwners, MayStayOpen
  <2> QED
    BY <2>1, <2>2, <2>4, <2>5, ReconcileFacts DEF QuietRoutes, OpenClients
<1>5. ASSUME NEW gone \in SUBSET ClientIds, Retire(gone), awake, UNCHANGED exchanged,
             UNCHANGED <<accepted, role, ident, awake>>,
             \A s \in Sockets : /\ ready'[s] = "open" => ready[s] = "open"
                                /\ ready[s] = "none" => ready'[s] = "none"
      PROVE  QuietRoutes
  <2>1. SocketsOf(gone) \subseteq Current
    BY <1>5 DEF SocketsOf, Current
  <2>2. \A c \in ClientIds : clients'[c] = IF c \in gone THEN NoSocket ELSE clients[c]
    BY <1>5, RetireFacts, WithoutFacts
  <2>3. \A s \in Sockets : /\ retired[s] => retired'[s]
                           /\ retired'[s] => retired[s] \/ s \in SocketsOf(gone)
                           /\ s \in SocketsOf(gone) /\ ready[s] = "open" => retired'[s]
    BY <1>5, RetireFacts
  <2>4. \A c \in ClientIds \ gone : clients[c] # NoSocket =>
          clients[c] \in Sockets /\ ~retired[clients[c]] /\ clients[c] \notin SocketsOf(gone)
    BY <1>5 DEF SocketsOf, Routing, RoutesAreClients, TypeOK
  <2>5. \A c \in ClientIds : clients'[c] # NoSocket =>
          clients'[c] = clients[c] /\ ~retired'[clients'[c]]
    BY <2>2, <2>3, <2>4
  <2>6. \A s \in Sockets : Live(s) /\ s \notin SocketsOf(gone) => clients'[ident[s]] = s
    BY <1>5, <2>2 DEF SocketsOf, Routing, LiveAreRouted
  <2>7. \A s \in Sockets : ready'[s] = "open" /\ role[s] = "client" /\ ~retired'[s]
                             /\ s \notin Unclosable => clients'[ident[s]] = s
    BY <1>5, <2>3, <2>6 DEF Live
  <2> QED
    BY <1>5, <2>1, <2>3, <2>5, <2>7 DEF QuietRoutes
<1>6. ASSUME NEW gone \in SUBSET ClientIds, OwnerRecoveryFails(gone) PROVE QuietRoutes
  <2>1. /\ Retire(gone) /\ awake
        /\ UNCHANGED <<accepted, role, ident, awake, exchanged>>
    BY <1>6 DEF OwnerRecoveryFails, history
  <2>2. \A s \in Sockets : /\ ready'[s] = "open" => ready[s] = "open"
                           /\ ready[s] = "none" => ready'[s] = "none"
    BY <1>6, ClosingFacts DEF OwnerRecoveryFails
  <2> QED
    BY <1>5, <2>1, <2>2
<1>7. ASSUME NEW s \in Sockets, NEW gone \in SUBSET ClientIds, OwnerClosedPartly(s, gone)
      PROVE  QuietRoutes
  <2>1. /\ Retire(gone) /\ awake
        /\ UNCHANGED <<accepted, role, ident, awake, exchanged>>
    BY <1>7 DEF OwnerClosedPartly, history
  <2>2. PICK stuck : ready' = [Closing(SocketsOf(gone) \ stuck) EXCEPT ![s] = "closed"]
    BY <1>7 DEF OwnerClosedPartly
  <2>3. \A t \in Sockets : /\ ready'[t] = "open" => ready[t] = "open"
                           /\ ready[t] = "none" => ready'[t] = "none"
    BY <1>7, <2>2, ClosingFacts DEF OwnerClosedPartly
  <2> QED
    BY <1>5, <2>1, <2>3
<1>8. ASSUME NEW s \in Sockets, OwnerClosed(s) PROVE QuietRoutes
  <2>1. /\ UNCHANGED <<accepted, role, ident, awake, exchanged>>
        /\ awake /\ ready[s] = "closing"
    BY <1>8 DEF OwnerClosed, history
  <2>2. CASE gateway = s
    <3>1. Retire(Connected) /\ Connected \in SUBSET ClientIds
      BY <1>8, <2>2 DEF OwnerClosed, Connected
    <3>2. PICK stuck : ready' = [Closing(Current \ stuck) EXCEPT ![s] = "closed"]
      BY <1>8, <2>2 DEF OwnerClosed
    <3>3. \A t \in Sockets : /\ ready'[t] = "open" => ready[t] = "open" /\ t # s
                             /\ ready[t] = "none" => ready'[t] = "none"
      BY <2>1, <3>2, ClosingFacts
    <3> QED
      BY <1>5, <2>1, <3>1, <3>3
  <2>3. CASE gateway # s
    <3>1. ready' = [ready EXCEPT ![s] = "closed"] /\ UNCHANGED <<retired, clients>>
      BY <1>8, <2>3 DEF OwnerClosed
    <3> QED
      BY <2>1, <3>1 DEF QuietRoutes, TypeOK, Routing, RoutesAreClients, LiveAreRouted, Live
  <2> QED
    BY <2>2, <2>3
<1>9. ASSUME UNCHANGED <<accepted, ready, role, ident, retired, awake, clients>>, awake,
             \A s \in Sockets : exchanged'[s] # exchanged[s] => s \in Current
      PROVE  QuietRoutes
  BY <1>9 DEF QuietRoutes, Routing, RoutesAreClients, LiveAreRouted, Live
<1>10. ASSUME NEW s \in joining, OwnerJoinResumes(s) PROVE QuietRoutes
  <2>1. UNCHANGED <<accepted, ready, role, ident, retired, awake, gateway, clients, inFlight>>
    BY <1>10 DEF OwnerJoinResumes, platform
  <2>2. \A t \in Sockets : exchanged'[t] # exchanged[t] => t \in Current
    BY <1>10 DEF OwnerJoinResumes, TypeOK, Current
  <2> QED
    BY <2>1, <2>2 DEF QuietRoutes, Routing, RoutesAreClients, LiveAreRouted, Live, Asleep
<1>11. ASSUME NEW f \in OwnerFrames, OwnerFrame(f) PROVE QuietRoutes
  BY <1>9, <1>11 DEF OwnerFrame, history
<1>12. ASSUME NEW gone, Drop(gone), awake, UNCHANGED <<accepted, role, ident, retired, awake, exchanged>>,
              \A s \in Sockets : /\ ready'[s] = "open" =>
                                      ready[s] = "open" /\ s \notin SocketsOf(gone) \ Unclosable
                                 /\ ready[s] = "none" => ready'[s] = "none"
       PROVE  QuietRoutes
  <2>1. \A c \in ClientIds : clients'[c] = IF c \in gone THEN NoSocket ELSE clients[c]
    BY <1>12, DropType, WithoutFacts
  <2>2. \A s \in Sockets : Live(s)' => Live(s) /\ s \notin SocketsOf(gone)
    BY <1>12 DEF Live
  <2>3. \A s \in Sockets : Live(s)' => clients'[ident[s]] = s
    BY <1>12, <2>1, <2>2 DEF SocketsOf, Routing, LiveAreRouted
  <2>4. \A c \in ClientIds : clients'[c] # NoSocket =>
          clients'[c] = clients[c] /\ ~retired[clients'[c]]
    BY <2>1 DEF Routing, RoutesAreClients
  <2> QED
    BY <1>12, <2>3, <2>4 DEF QuietRoutes, Live
<1>13. ASSUME NEW f \in inFlight, OwnerFrameResumes(f) PROVE QuietRoutes
  <2>1. UNCHANGED <<accepted, role, ident, retired, awake>>
    BY <1>13 DEF OwnerFrameResumes
  <2>2. awake
    BY <1>13 DEF Routing, Asleep
  <2>3. CASE StillInstalled(f) /\ f.kind = "restart"
    <3>1. Drop(Connected) /\ UNCHANGED exchanged
      BY <1>13, <2>3 DEF OwnerFrameResumes
    <3>2. PICK stuck \in StuckDropped(Connected) : ready' = Closing(Current \ stuck)
      BY <1>13, <2>3 DEF OwnerFrameResumes
    <3>3. stuck \subseteq Unclosable /\ SocketsOf(Connected) \subseteq Current
      BY <3>2 DEF StuckDropped, SocketsOf, Connected, Current
    <3>4. \A s \in Sockets : /\ ready'[s] = "open" =>
                                  ready[s] = "open" /\ s \notin SocketsOf(Connected) \ Unclosable
                             /\ ready[s] = "none" => ready'[s] = "none"
      BY <3>2, <3>3, ClosingFacts
    <3> QED
      BY <1>12, <2>1, <2>2, <3>1, <3>4
  <2>4. CASE ~(StillInstalled(f) /\ f.kind = "restart")
    <3>1. /\ UNCHANGED <<clients, ready>>
          /\ \A t \in Sockets : exchanged'[t] # exchanged[t] => t \in Current
      <4>1. CASE StillInstalled(f)
        <5>1. \A c \in Receivers(f) : c \in ClientIds
          BY DEF Receivers
        <5> QED
          BY <1>13, <2>4, <4>1, <5>1 DEF OwnerFrameResumes, TypeOK, Current
      <4> QED
        BY <1>13, <4>1 DEF OwnerFrameResumes
    <3> QED
      BY <1>9, <2>1, <2>2, <3>1
  <2> QED
    BY <2>3, <2>4
<1>14. ASSUME NEW s \in Sockets, NEW kind \in ClientFrames, ClientFrame(s, kind) PROVE QuietRoutes
  <2>1. UNCHANGED <<accepted, ready, role, ident, retired, awake, clients>> /\ awake
    BY <1>14 DEF ClientFrame
  <2>2. s \in Current
    BY <1>14 DEF ClientFrame, IsCurrentSocket, Current, TypeOK
  <2>3. \A t \in Sockets : exchanged'[t] # exchanged[t] => t \in Current
    BY <1>14, <2>2 DEF ClientFrame, TypeOK
  <2> QED
    BY <1>9, <2>1, <2>3
<1>15. ASSUME NEW s \in Sockets, ClientClosed(s) PROVE QuietRoutes
  <2>1. /\ UNCHANGED <<accepted, role, ident, retired, awake, exchanged>>
        /\ awake /\ ready[s] = "closing" /\ ready' = [ready EXCEPT ![s] = "closed"]
    BY <1>15 DEF ClientClosed, history
  <2>2. \A t \in Sockets : /\ ready'[t] = "open" => ready[t] = "open" /\ t # s
                           /\ ready[t] = "none" => ready'[t] = "none"
    BY <2>1 DEF TypeOK
  <2>3. CASE clients[ident[s]] = s
    <3>1. Drop({ident[s]}) /\ SocketsOf({ident[s]}) = {s}
      BY <1>15, <2>3 DEF ClientClosed, SocketsOf
    <3> QED
      BY <1>12, <2>1, <2>2, <3>1
  <2>4. CASE clients[ident[s]] # s
    <3>1. UNCHANGED clients
      BY <1>15, <2>4 DEF ClientClosed
    <3> QED
      BY <2>1, <2>2, <3>1 DEF QuietRoutes, Routing, RoutesAreClients, LiveAreRouted, Live
  <2> QED
    BY <2>3, <2>4
<1>16. ASSUME NEW late \in SUBSET ClientIds, NEW expired \in SUBSET ClientIds, Alarm(late, expired)
       PROVE QuietRoutes
  <2> DEFINE gone == {c \in Connected : ~IsOpen(clients[c])} \cup late
  <2>1. /\ UNCHANGED <<accepted, role, ident, retired, awake, exchanged>>
        /\ awake /\ Drop(gone)
    BY <1>16 DEF Alarm, history
  <2>2. \E silent : \E stuck \in StuckDropped(late) :
          ready' = Closing((SocketsOf(late) \ stuck) \cup silent)
    BY <1>16, Zenon DEF Alarm
  <2>3. \A t \in Sockets : /\ ready'[t] = "open" =>
                                ready[t] = "open" /\ t \notin SocketsOf(late) \ Unclosable
                           /\ ready[t] = "none" => ready'[t] = "none"
    BY <2>2, ClosingFacts DEF StuckDropped
  <2>4. \A t \in SocketsOf(gone) : t \in SocketsOf(late) \/ ready[t] # "open"
    BY DEF SocketsOf, IsOpen
  <2> HIDE DEF gone
  <2> QED
    BY <1>12, <2>1, <2>3, <2>4
<1>17. CASE UNCHANGED vars
  BY <1>17 DEF QuietRoutes, vars, platform, memory, history, Routing, RoutesAreClients,
               LiveAreRouted, Live, Asleep
<1> QED
  BY <1>1, <1>2, <1>3, <1>4, <1>6, <1>7, <1>8, <1>10, <1>11, <1>13, <1>14, <1>15, <1>16, <1>17
     DEF Next

(* What the acceptance of a client, and of an owner, does to the sockets.   *)
LEMMA ClientJoinFacts ==
  ASSUME TypeOK, Routing, NEW c \in ClientIds, ClientJoins(c),
         NEW s, s = accepted + 1
  PROVE  /\ s \in Sockets /\ accepted' = s /\ awake
         /\ UNCHANGED <<retired, owner, awake, gateway, inFlight, lastOwner, exchanged>>
         /\ role[s] = "none" /\ ~retired[s] /\ exchanged[s] = {}
         /\ role'[s] = "client" /\ ident'[s] = c
         /\ \A t \in Sockets : t # s =>
              /\ role'[t] = role[t] /\ ident'[t] = ident[t]
              /\ ready'[t] = "open" => ready[t] = "open" /\ t # clients[c]
              /\ ready[t] = "none" => ready'[t] = "none"
         /\ \A d \in ClientIds : clients'[d] = IF d = c THEN s ELSE clients[d]
         /\ \A d \in ClientIds : clients[d] # s
         /\ \A t \in Sockets : t > s => t > accepted /\ t # s
<1> USE NoSocketIsNone
<1>0. s \in Sockets /\ \A t \in Sockets : t > s => t > accepted /\ t # s
  BY BoundsAssumption DEF ClientJoins, TypeOK, Sockets
<1>1. /\ accepted' = s /\ awake
      /\ role' = [role EXCEPT ![s] = "client"] /\ ident' = [ident EXCEPT ![s] = c]
      /\ clients' = [clients EXCEPT ![c] = s]
      /\ ready' = [Closing({clients[c]}) EXCEPT ![s] = "open"]
      /\ UNCHANGED <<retired, owner, awake, gateway, inFlight, lastOwner, exchanged>>
  BY DEF ClientJoins, history
<1>2. \A t \in Sockets : t # s => /\ ready'[t] = "open" => ready[t] = "open" /\ t # clients[c]
                                  /\ ready[t] = "none" => ready'[t] = "none"
  BY <1>1, ClosingFacts
<1>3. ready[s] = "none" /\ role[s] = "none" /\ ~retired[s] /\ exchanged[s] = {}
  BY <1>0 DEF Routing, Untouched, TypeOK, Sockets

<1>4. \A t \in Sockets : t # s => role'[t] = role[t] /\ ident'[t] = ident[t]
  BY <1>1 DEF TypeOK
<1>5. role'[s] = "client" /\ ident'[s] = c
  BY <1>0, <1>1 DEF TypeOK
<1>6. \A d \in ClientIds : clients'[d] = IF d = c THEN s ELSE clients[d]
  BY <1>1 DEF TypeOK
<1>7. \A d \in ClientIds : clients[d] # s
  BY <1>0, <1>3 DEF Routing, RoutesAreClients
<1> QED
  BY <1>0, <1>1, <1>2, <1>3, <1>4, <1>5, <1>6, <1>7

LEMMA OwnerJoinFacts ==
  ASSUME TypeOK, Routing, NEW o \in OwnerIds, OwnerJoins(o),
         NEW s, s = accepted + 1,
         NEW gone, gone = IF EarlierOwnerKnown THEN Connected ELSE {}
  PROVE  /\ s \in Sockets /\ accepted' = s /\ awake
         /\ gateway' = s /\ owner' = o /\ lastOwner' = s
         /\ UNCHANGED <<awake, inFlight, exchanged>>
         /\ ready[s] = "none" /\ role[s] = "none" /\ ~retired[s]
         /\ role'[s] = "gateway" /\ ident'[s] = o
         /\ \A t \in Sockets : t # s =>
              /\ role'[t] = role[t] /\ ident'[t] = ident[t]
              /\ ready'[t] = "open" => ready[t] = "open" /\ (~OwnerCloseMayFail => t # gateway)
              /\ ready[t] = "none" => ready'[t] = "none"
         /\ \A t \in Sockets : /\ t \in SocketsOf(gone) /\ ready[t] = "open" => retired'[t]
                               /\ retired'[t] => retired[t] \/ t \in SocketsOf(gone)
                               /\ retired[t] => retired'[t]
         /\ \A c \in ClientIds : clients'[c] = IF c \in gone THEN NoSocket ELSE clients[c]
         /\ gone \in SUBSET ClientIds /\ SocketsOf(gone) \subseteq Current
         /\ \A t \in Sockets : t > s => t > accepted /\ t # s
<1> USE NoSocketIsNone
<1>0. s \in Sockets /\ \A t \in Sockets : t > s => t > accepted /\ t # s
  BY BoundsAssumption DEF OwnerJoins, TypeOK, Sockets
<1>1. /\ accepted' = s /\ awake /\ Retire(gone) /\ gone \in SUBSET ClientIds
      /\ role' = [role EXCEPT ![s] = "gateway"] /\ ident' = [ident EXCEPT ![s] = o]
      /\ gateway' = s /\ owner' = o /\ lastOwner' = s
      /\ UNCHANGED <<awake, inFlight, exchanged>>
  BY DEF OwnerJoins, Connected
<1>2. PICK stuck \in StuckOpen(gone), spared \in IF OwnerCloseMayFail THEN {{}, {gateway}} ELSE {{}} :
        ready' = [Closing((SocketsOf(gone) \ stuck) \cup ({gateway} \ spared)) EXCEPT ![s] = "open"]
  BY DEF OwnerJoins
<1>3. \A t \in Sockets : t # s =>
        /\ ready'[t] = "open" => ready[t] = "open" /\ t \notin {gateway} \ spared
        /\ ready[t] = "none" => ready'[t] = "none"
  BY <1>2, ClosingFacts
<1>4. ~OwnerCloseMayFail => spared = {}
  BY <1>2
<1>5. ready[s] = "none" /\ role[s] = "none" /\ ~retired[s]
  BY <1>0 DEF Routing, Untouched, TypeOK, Sockets
<1>6. \A t \in Sockets : t # s => role'[t] = role[t] /\ ident'[t] = ident[t]
  BY <1>1 DEF TypeOK
<1>7. role'[s] = "gateway" /\ ident'[s] = o
  BY <1>0, <1>1 DEF TypeOK
<1>8. /\ \A c \in ClientIds : clients'[c] = IF c \in gone THEN NoSocket ELSE clients[c]
      /\ \A t \in Sockets : /\ t \in SocketsOf(gone) /\ ready[t] = "open" => retired'[t]
                            /\ retired'[t] => retired[t] \/ t \in SocketsOf(gone)
                            /\ retired[t] => retired'[t]
  BY <1>1, RetireFacts, WithoutFacts
<1>9. SocketsOf(gone) \subseteq Current
  BY <1>1 DEF SocketsOf, Current
<1> QED
  BY <1>0, <1>1, <1>3, <1>4, <1>5, <1>6, <1>7, <1>8, <1>9

(* The routes stay correct under every operation. *)
LEMMA RoutingPreserved ==
  ASSUME TypeOK, TypeOK', Routing, [Next]_vars
  PROVE  Routing'
<1> USE NoSocketIsNone, IdsAssumption
<1>1. ASSUME NEW c \in ClientIds, ClientJoins(c) PROVE Routing'
  <2>1. PICK s : s = accepted + 1
    OBVIOUS
  <2>2. Untouched'
    BY <1>1, <2>1, ClientJoinFacts DEF Untouched, Routing
  <2>3. RoutesAreClients'
    BY <1>1, <2>1, ClientJoinFacts DEF RoutesAreClients, Routing, TypeOK
  <2>4. OnlyClientsRetired'
    BY <1>1, <2>1, ClientJoinFacts DEF OnlyClientsRetired, Routing
  <2>5. \A t \in Sockets : t # s /\ Live(t)' => Live(t) /\ t # clients[c]
    BY <1>1, <2>1, ClientJoinFacts DEF Live
  <2>6. LiveAreRouted'
    BY <1>1, <2>1, <2>5, ClientJoinFacts DEF LiveAreRouted, Routing
  <2>7. Asleep'
    BY <1>1, <2>1, ClientJoinFacts DEF Asleep
  <2> QED
    BY <2>2, <2>3, <2>4, <2>6, <2>7 DEF Routing
<1>2. ASSUME NEW o \in OwnerIds, OwnerJoins(o) PROVE Routing'
  <2>1. PICK s : s = accepted + 1
    OBVIOUS
  <2>2. PICK gone : gone = IF EarlierOwnerKnown THEN Connected ELSE {}
    OBVIOUS
  <2>3. \A t \in SocketsOf(gone) : role[t] = "client"
    BY <1>2, <2>1, <2>2, OwnerJoinFacts, CurrentAreClients
  <2>4. Untouched'
    BY <1>2, <2>1, <2>2, <2>3, OwnerJoinFacts DEF Untouched, Routing
  <2>5. \A t \in Sockets : Live(t)' => t # s /\ Live(t) /\ t \notin SocketsOf(gone)
    BY <1>2, <2>1, <2>2, OwnerJoinFacts DEF Live
  <2>6. \A c \in ClientIds : clients'[c] # NoSocket =>
          /\ clients'[c] = clients[c] /\ clients[c] \in Sockets
          /\ clients[c] # s /\ clients[c] \notin SocketsOf(gone)
    <3>0. \A c \in ClientIds : clients'[c] = IF c \in gone THEN NoSocket ELSE clients[c]
      BY <1>2, <2>2 DEF OwnerJoins, Retire, Without
    <3>1. \A c \in ClientIds : clients'[c] # NoSocket =>
            c \notin gone /\ clients'[c] = clients[c] /\ clients[c] \in Sockets
      BY <3>0 DEF TypeOK
    <3>2. \A c \in ClientIds \ gone : clients[c] # NoSocket => clients[c] \notin SocketsOf(gone)
      BY <2>2 DEF Connected, SocketsOf, Routing, RoutesAreClients
    <3>3. role[s] = "none"
      BY <1>2, <2>1, <2>2, OwnerJoinFacts
    <3> QED
      BY <3>1, <3>2, <3>3 DEF Routing, RoutesAreClients
  <2>7. RoutesAreClients'
    BY <1>2, <2>1, <2>2, <2>6, OwnerJoinFacts DEF RoutesAreClients, Routing
  <2>8. OnlyClientsRetired'
    BY <1>2, <2>1, <2>2, <2>3, OwnerJoinFacts DEF OnlyClientsRetired, Routing
  <2>9. LiveAreRouted'
    <3>0. \A t \in Sockets : Live(t)' => ident'[t] = ident[t] /\ ident[t] \in ClientIds
                                         /\ clients[ident[t]] = t
      BY <1>2, <2>1, <2>2, <2>5, OwnerJoinFacts DEF LiveAreRouted, Routing
    <3>1. \A t \in Sockets : Live(t)' => ident'[t] = ident[t] /\ ident[t] \in ClientIds
                                         /\ clients[ident[t]] = t /\ ident[t] \notin gone
      BY <2>5, <3>0 DEF SocketsOf
    <3> QED
      BY <1>2, <2>1, <2>2, <3>1, OwnerJoinFacts DEF LiveAreRouted
  <2>10. Asleep'
    BY <1>2, <2>1, <2>2, OwnerJoinFacts DEF Asleep
  <2> QED
    BY <2>4, <2>7, <2>8, <2>9, <2>10 DEF Routing
<1> QED
  BY <1>1, <1>2, QuietSteps, QuietKeepsRouting

(* In a running room routes lead to client connections of their identity    *)
(* that no retirement has marked, and every such connection that is open   *)
(* is routed, whichever closes and attachment writes fail; only those that *)
(* survived a close() of the room without a tombstone may be forgotten.    *)
THEOREM RoutesAreCorrect == Spec => [](TypeOK /\ Routing)
<1>1. Init => TypeOK
  BY BoundsAssumption DEF Init, TypeOK, ReadyState, Sockets, NoSocket
<1>2. Init => Routing
  BY BoundsAssumption, NoSocketIsNone
     DEF Init, Routing, Untouched, RoutesAreClients, OnlyClientsRetired, LiveAreRouted, Live,
         Asleep, Sockets, NoSocket
<1>3. TypeOK /\ Routing /\ [Next]_vars => TypeOK' /\ Routing'
  BY TypePreserved, RoutingPreserved
<1> QED
  BY <1>1, <1>2, <1>3, PTL DEF Spec
-----------------------------------------------------------------------------
(* A step that is quiet, for the routes and for the owners, preserves the   *)
(* invariant.                                                              *)
LEMMA QuietPreserves ==
  ASSUME TypeOK, TypeOK', IInv, QuietRoutes, QuietOwners
  PROVE  IInv'
<1> USE NoSocketIsNone, IdsAssumption
<1>1. Routing'
  BY QuietKeepsRouting DEF IInv
<1>2. LastOwner'
  BY DEF LastOwner, OpenOwnerIsLast, OpenOwners, QuietRoutes, QuietOwners, IInv, TypeOK
<1>3. OpenOwnerIsLast'
  BY DEF OpenOwnerIsLast, QuietRoutes, QuietOwners, IInv
<1>4. \A s \in Sockets \ Unclosable : (Live(s) \/ s \in Current)' => Live(s) \/ s \in Current
  <2>1. \A s \in Sockets : Live(s)' => Live(s)
    BY DEF Live, QuietRoutes
  <2>2. \A s \in Sockets \ Unclosable : s \in Current' => Live(s) \/ s \in Current
    BY DEF Live, QuietRoutes, Current, OpenClients
  <2> QED
    BY <2>1, <2>2
<1>5. \A s \in Sockets : exchanged'[s] # exchanged[s] =>
        s \in Current /\ gateway # NoSocket /\ exchanged'[s] = exchanged[s] \cup {gateway}
  BY DEF QuietRoutes, QuietOwners
<1>6. \A s \in Sockets \ Unclosable :
        exchanged'[s] # exchanged[s] => exchanged'[s] \subseteq {lastOwner}
  BY <1>5 DEF IInv, BoundToLastOwner, LastOwner
<1>7. BoundToLastOwner'
  BY <1>4, <1>6 DEF BoundToLastOwner, QuietOwners, IInv
<1>8. OneOwnerPerClientSocket'
  BY <1>6 DEF OneOwnerPerClientSocket, IInv
<1> QED
  BY <1>1, <1>2, <1>3, <1>7, <1>8 DEF IInv

(* One step per operation of the room that accepts nobody.                  *)
LEMMA QuietOwnerSteps ==
  ASSUME ~OwnerCloseMayFail, TypeOK, TypeOK', IInv, [Next]_vars, QuietRoutes,
         ~\E c \in ClientIds : ClientJoins(c), ~\E o \in OwnerIds : OwnerJoins(o)
  PROVE  QuietOwners
<1> USE NoSocketIsNone
<1>1. CASE Wake \/ ReadStatus
  <2>1. PICK previous \in ClientIds \cup {NoId} : Reconcile(previous)
    BY <1>1 DEF Wake, ReadStatus, TypeOK
  <2>2. UNCHANGED <<role, retired, owner, lastOwner, exchanged>>
    BY <1>1 DEF Wake, ReadStatus, history
  <2>3. /\ gateway' \in OpenOwners \cup {NoSocket}
        /\ \A c \in ClientIds : clients'[c] \in OpenClients(c) \cup {NoSocket}
        /\ \A s \in Sockets : ready'[s] = "open" =>
              MayStayOpen(s) \/ s = gateway' \/ \E c \in ClientIds : clients'[c] = s
    BY <2>1, ReconcileFacts
  <2>4. \A s \in Sockets : role[s] = "gateway" => ~MayStayOpen(s)
    BY DEF MayStayOpen
  <2>5. \A s \in Sockets : ready'[s] = "open" /\ role[s] = "gateway" => s = gateway'
    BY <2>3, <2>4 DEF OpenClients
  <2> QED
    BY <2>2, <2>3, <2>5 DEF QuietOwners
<1>2. ASSUME UNCHANGED <<role, owner, awake, gateway, lastOwner, exchanged>>
      PROVE  QuietOwners
  BY <1>2 DEF QuietOwners, QuietRoutes, IInv, OpenOwnerIsLast
<1>3. ASSUME UNCHANGED <<role, gateway, awake, lastOwner>>, owner' = owner,
             \A s \in Sockets : exchanged'[s] # exchanged[s] =>
               gateway # NoSocket /\ exchanged'[s] = exchanged[s] \cup {gateway}
      PROVE  QuietOwners
  BY <1>3 DEF QuietOwners, QuietRoutes, IInv, OpenOwnerIsLast
<1>4. CASE \E s \in Sockets : PeerDrops(s)
  BY <1>2, <1>4 DEF PeerDrops, memory, history
<1>5. CASE Hibernate \/ Restart
  BY <1>5 DEF QuietOwners, Hibernate, Restart, Forget, platform
<1>6. CASE \E gone \in SUBSET ClientIds : OwnerRecoveryFails(gone)
  BY <1>2, <1>6 DEF OwnerRecoveryFails, history
<1>7. CASE \E s \in Sockets, gone \in SUBSET ClientIds : OwnerClosedPartly(s, gone)
  BY <1>2, <1>7 DEF OwnerClosedPartly, history
<1>8. ASSUME NEW s \in Sockets, OwnerClosed(s) PROVE QuietOwners
  <2>1. UNCHANGED <<role, ident, awake, lastOwner, exchanged>> /\ awake
    BY <1>8 DEF OwnerClosed, history
  <2>2. CASE gateway = s
    <3>1. gateway' = NoSocket /\ owner' = ident[s] /\ ready'[s] # "open"
      BY <1>8, <2>2 DEF OwnerClosed, TypeOK, Closing
    <3>2. \A t \in Sockets : ready'[t] = "open" /\ role[t] = "gateway" => FALSE
      BY <2>1, <2>2, <3>1 DEF QuietRoutes, IInv, OpenOwnerIsLast
    <3> QED
      BY <2>1, <2>2, <3>1, <3>2 DEF QuietOwners
  <2>3. CASE gateway # s
    BY <1>2, <1>8, <2>1, <2>3 DEF OwnerClosed
  <2> QED
    BY <2>2, <2>3
<1>9. CASE \E s \in joining : OwnerJoinResumes(s)
  BY <1>3, <1>9 DEF OwnerJoinResumes, platform, TypeOK, IsOpen
<1>10. CASE \E f \in OwnerFrames : OwnerFrame(f)
  <2>1. PICK f \in OwnerFrames : OwnerFrame(f)
    BY <1>10
  <2>2. /\ UNCHANGED <<role, ident, awake, gateway, lastOwner, exchanged>>
        /\ gateway = f.from /\ owner' = ident[f.from] /\ f.from \in Sockets
    BY <2>1 DEF OwnerFrame, IsCurrentSocket, history, OwnerFrames
  <2> QED
    BY <2>2 DEF QuietOwners, QuietRoutes, IInv, OpenOwnerIsLast
<1>11. ASSUME NEW f \in inFlight, OwnerFrameResumes(f) PROVE QuietOwners
  <2>1. UNCHANGED <<role, owner, awake, gateway, lastOwner>>
    BY <1>11 DEF OwnerFrameResumes
  <2>2. f.from \in Sockets
    BY DEF TypeOK, OwnerFrames
  <2>3. \A t \in Sockets : exchanged'[t] # exchanged[t] =>
          gateway # NoSocket /\ exchanged'[t] = exchanged[t] \cup {gateway}
    BY <1>11, <2>2 DEF OwnerFrameResumes, StillInstalled, TypeOK
  <2> QED
    BY <1>3, <2>1, <2>3
<1>12. CASE \E s \in Sockets, kind \in ClientFrames : ClientFrame(s, kind)
  BY <1>3, <1>12 DEF ClientFrame, TypeOK, IsOpen
<1>13. CASE \E s \in Sockets : ClientClosed(s)
  BY <1>2, <1>13 DEF ClientClosed, history
<1>14. CASE \E late, expired \in SUBSET ClientIds : Alarm(late, expired)
  BY <1>2, <1>14 DEF Alarm, history
<1>15. CASE UNCHANGED vars
  BY <1>2, <1>15 DEF vars, platform, memory, history
<1> QED
  BY <1>1, <1>4, <1>5, <1>6, <1>7, <1>8, <1>9, <1>10, <1>11, <1>12, <1>13, <1>14, <1>15 DEF Next

(* And the two that accept a connection. *)
LEMMA InvariantPreserved ==
  ASSUME ~OwnerCloseMayFail, TypeOK, IInv, [Next]_vars
  PROVE  IInv'
<1> USE NoSocketIsNone
<1>0. TypeOK' /\ Routing /\ Routing'
  BY TypePreserved, RoutingPreserved DEF IInv
<1>1. ASSUME NEW c \in ClientIds, ClientJoins(c) PROVE IInv'
  <2>1. PICK s : s = accepted + 1
    OBVIOUS
  <2>2. s # lastOwner /\ lastOwner <= s
    BY <2>1, BoundsAssumption DEF IInv, LastOwner, TypeOK, Sockets, NoSocket
  <2>3. LastOwner'
    BY <1>0, <1>1, <2>1, <2>2, ClientJoinFacts DEF LastOwner, IInv, TypeOK
  <2>4. OpenOwnerIsLast'
    BY <1>0, <1>1, <2>1, ClientJoinFacts DEF OpenOwnerIsLast, IInv
  <2>5. \A t \in Sockets : t # s /\ Live(t)' => Live(t)
    BY <1>0, <1>1, <2>1, ClientJoinFacts DEF Live
  <2>6. \A t \in Sockets : t \in Current' => t \in Current \cup {s}
    BY <1>0, <1>1, <2>1, ClientJoinFacts DEF Current
  <2>7. BoundToLastOwner'
    BY <1>0, <1>1, <2>1, <2>5, <2>6, ClientJoinFacts DEF BoundToLastOwner, IInv
  <2>8. OneOwnerPerClientSocket'
    BY <1>0, <1>1, <2>1, ClientJoinFacts DEF OneOwnerPerClientSocket, IInv
  <2> QED
    BY <1>0, <2>3, <2>4, <2>7, <2>8 DEF IInv
<1>2. ASSUME NEW o \in OwnerIds, OwnerJoins(o) PROVE IInv'
  <2>1. PICK s : s = accepted + 1
    OBVIOUS
  <2>2. PICK gone : gone = IF EarlierOwnerKnown THEN Connected ELSE {}
    OBVIOUS
  <2>3. s <= s /\ s # NoSocket
    BY <2>1, BoundsAssumption DEF TypeOK, NoSocket
  <2>4. LastOwner'
    BY <1>0, <1>2, <2>1, <2>2, <2>3, IdsAssumption, OwnerJoinFacts DEF LastOwner
  <2>5. OpenOwnerIsLast'
    BY <1>0, <1>2, <2>1, <2>2, OwnerJoinFacts DEF OpenOwnerIsLast, IInv
  <2>6. \A t \in Sockets : Live(t)' => t # s /\ Live(t) /\ t \notin SocketsOf(gone)
    BY <1>0, <1>2, <2>1, <2>2, OwnerJoinFacts DEF Live
  <2>7. \A t \in Sockets \ Unclosable : Live(t)' \/ t \in Current' => exchanged[t] = {}
    <3>1. CASE EarlierOwnerKnown
      <4>1. \A t \in Sockets : t \notin Current'
        BY <1>0, <1>2, <2>1, <2>2, <3>1, OwnerJoinFacts DEF Connected, Current
      <4>2. \A t \in Sockets : Live(t) => t \in SocketsOf(gone)
        BY <1>0, <1>2, <2>1, <2>2, <3>1, OwnerJoinFacts
           DEF Routing, LiveAreRouted, SocketsOf, Connected
      <4> QED
        BY <2>6, <4>1, <4>2
    <3>2. CASE ~EarlierOwnerKnown
      <4>1. lastOwner = NoSocket /\ gone = {}
        BY <2>2, <3>2 DEF EarlierOwnerKnown, IInv, LastOwner
      <4>2. \A t \in Sockets : t \in Current' => t \in Current
        BY <1>0, <1>2, <2>1, <2>2, <4>1, OwnerJoinFacts DEF Current
      <4> QED
        BY <2>6, <4>1, <4>2 DEF IInv, BoundToLastOwner, TypeOK
    <3> QED
      BY <3>1, <3>2
  <2>8. UNCHANGED exchanged
    BY <1>0, <1>2, <2>1, <2>2, OwnerJoinFacts
  <2>9. BoundToLastOwner' /\ OneOwnerPerClientSocket'
    BY <2>7, <2>8 DEF BoundToLastOwner, OneOwnerPerClientSocket, IInv
  <2> QED
    BY <1>0, <2>4, <2>5, <2>9 DEF IInv
<1> QED
  BY <1>0, <1>1, <1>2, QuietSteps, QuietOwnerSteps, QuietPreserves

(* An empty room satisfies the invariant. *)
LEMMA InvariantInitially == Init => IInv
BY BoundsAssumption, NoSocketIsNone
   DEF Init, IInv, Routing, Untouched, LastOwner, OpenOwnerIsLast, RoutesAreClients, OnlyClientsRetired,
       LiveAreRouted, Live, BoundToLastOwner, Current, Asleep, OneOwnerPerClientSocket,
       Sockets, NoSocket

(* As long as a replaced owner's close succeeds, the invariant holds.       *)
THEOREM Invariance ==
  ASSUME ~OwnerCloseMayFail
  PROVE  Spec => [](TypeOK /\ IInv)
<1>1. Init => TypeOK /\ IInv
  BY InvariantInitially, BoundsAssumption DEF Init, TypeOK, ReadyState, Sockets, NoSocket
<1>2. TypeOK /\ IInv /\ [Next]_vars => (TypeOK /\ IInv)'
  BY TypePreserved, InvariantPreserved
<1> QED
  BY <1>1, <1>2, PTL DEF Spec

(* No client connection ever exchanges frames with two owners, whatever     *)
(* retirements fail, frames are suspended and rooms are rebuilt meanwhile,  *)
(* but for one that a failed close() left open without a tombstone.         *)
THEOREM OneOwner ==
  ASSUME ~OwnerCloseMayFail
  PROVE  Spec => []OneOwnerPerClientSocket
<1>1. IInv => OneOwnerPerClientSocket
  BY DEF IInv
<1> QED
  BY <1>1, Invariance, PTL

(* The stored lease names the installed owner.                              *)
THEOREM LeaseCorrect ==
  ASSUME ~OwnerCloseMayFail
  PROVE  Spec => []LeaseNamesOwner
<1>1. IInv => LeaseNamesOwner
  BY DEF IInv, LastOwner, LeaseNamesOwner
<1> QED
  BY <1>1, Invariance, PTL

(* An owner that was replaced, and whose close succeeded, never returns.    *)
THEOREM NoReturn ==
  ASSUME ~OwnerCloseMayFail
  PROVE  Spec => []ReplacedOwnerNeverReturns
<1>1. IInv => ReplacedOwnerNeverReturns
  BY DEF IInv, LastOwner, ReplacedOwnerNeverReturns
<1> QED
  BY <1>1, Invariance, PTL

(* In every step, whoever is sent a frame or heard is a client the last     *)
(* owner serves, and nobody a retirement has marked.                        *)
LEMMA ExchangeStep ==
  ASSUME TypeOK, IInv, [Next]_vars, NEW s \in Sockets, exchanged'[s] # exchanged[s]
  PROVE  /\ lastOwner \in Sockets /\ lastOwner' = lastOwner
         /\ exchanged'[s] = exchanged[s] \cup {lastOwner} /\ ~retired[s]
         /\ s \notin Unclosable => exchanged[s] \subseteq {lastOwner}
<1> USE NoSocketIsNone
<1>1. ASSUME s \in Current, gateway # NoSocket, lastOwner' = lastOwner,
             exchanged'[s] = exchanged[s] \cup {gateway}
      PROVE  /\ lastOwner \in Sockets /\ lastOwner' = lastOwner
             /\ exchanged'[s] = exchanged[s] \cup {lastOwner} /\ ~retired[s]
             /\ s \notin Unclosable => exchanged[s] \subseteq {lastOwner}
  BY <1>1 DEF IInv, Routing, LastOwner, BoundToLastOwner, RoutesAreClients, Current, TypeOK
<1>2. ASSUME NEW t \in joining, OwnerJoinResumes(t)
      PROVE  /\ s \in Current /\ gateway # NoSocket /\ lastOwner' = lastOwner
             /\ exchanged'[s] = exchanged[s] \cup {gateway}
  BY <1>2 DEF OwnerJoinResumes, TypeOK, Current, IsOpen
<1>3. ASSUME NEW f \in inFlight, OwnerFrameResumes(f)
      PROVE  /\ s \in Current /\ gateway # NoSocket /\ lastOwner' = lastOwner
             /\ exchanged'[s] = exchanged[s] \cup {gateway}
  <2>1. f.from \in Sockets /\ \A c \in Receivers(f) : c \in ClientIds
    BY DEF TypeOK, OwnerFrames, Receivers
  <2>2. StillInstalled(f) /\ f.kind # "restart" /\ lastOwner' = lastOwner
    BY <1>3 DEF OwnerFrameResumes
  <2> QED
    BY <1>3, <2>1, <2>2 DEF OwnerFrameResumes, StillInstalled, TypeOK, Current
<1>4. ASSUME NEW t \in Sockets, NEW kind \in ClientFrames, ClientFrame(t, kind)
      PROVE  /\ s \in Current /\ gateway # NoSocket /\ lastOwner' = lastOwner
             /\ exchanged'[s] = exchanged[s] \cup {gateway}
  BY <1>4 DEF ClientFrame, IsCurrentSocket, TypeOK, Current, IsOpen
<1>5. ASSUME ~(\E t \in joining : OwnerJoinResumes(t)), ~(\E f \in inFlight : OwnerFrameResumes(f)),
             ~(\E t \in Sockets, kind \in ClientFrames : ClientFrame(t, kind))
      PROVE  UNCHANGED exchanged
  BY <1>5 DEF Next, vars, history, PeerDrops, Hibernate, Restart, Wake, ReadStatus, OwnerJoins,
              OwnerRecoveryFails, OwnerFrame, OwnerClosed, OwnerClosedPartly, ClientJoins,
              ClientClosed, Alarm
<1> QED
  BY <1>1, <1>2, <1>3, <1>4, <1>5

(* A frame passes only between the last owner and clients it may serve.     *)
THEOREM OnlyTheInstalledOwner ==
  ASSUME ~OwnerCloseMayFail
  PROVE  Spec => OnlyTheInstalledOwnerExchanges
<1>1. TypeOK /\ IInv /\ [Next]_vars =>
        [\A s \in Sockets : exchanged'[s] # exchanged[s] =>
           exchanged'[s] \ exchanged[s] = {lastOwner} /\ ~retired[s]]_vars
  BY ExchangeStep
<1> QED
  BY <1>1, Invariance, PTL DEF Spec, OnlyTheInstalledOwnerExchanges
-----------------------------------------------------------------------------
(* The room implements owner sessions.  Only the acceptance of an owner     *)
(* changes the owner accepted last, to a connection that is newer, and no   *)
(* frame passes in that step.                                              *)
LEMMA SuccessionStep ==
  ASSUME TypeOK, IInv, [Next]_vars, lastOwner' # lastOwner
  PROVE  lastOwner' \in Sockets /\ lastOwner' > lastOwner /\ UNCHANGED exchanged
<1>1. PICK o \in OwnerIds : OwnerJoins(o)
  BY DEF Next, vars, history, PeerDrops, Hibernate, Restart, Wake, ReadStatus,
         OwnerRecoveryFails, OwnerJoinResumes, OwnerFrame, OwnerFrameResumes, OwnerClosed,
         OwnerClosedPartly, ClientJoins, ClientFrame, ClientClosed, Alarm
<1>2. lastOwner' = accepted + 1 /\ accepted < MaxSockets /\ UNCHANGED exchanged
  BY <1>1 DEF OwnerJoins
<1>3. lastOwner \in Nat /\ lastOwner <= accepted /\ accepted \in Nat
  BY BoundsAssumption DEF IInv, LastOwner, TypeOK, Sockets, NoSocket
<1> QED
  BY <1>2, <1>3, BoundsAssumption DEF Sockets

(* A step of the room is a succession, an exchange with the clients that    *)
(* were sent a frame or heard, or nothing the sessions see.                *)
LEMMA SessionStep ==
  ASSUME TypeOK, TypeOK', IInv, [Next]_vars
  PROVE  [Sessions!Next]_(Sessions!vars)
<1>1. CASE lastOwner' # lastOwner
  <2>1. Sessions!Succeed(lastOwner') /\ lastOwner' \in Sockets
    BY <1>1, SuccessionStep DEF Sessions!Succeed, BoundOwners
  <2> QED
    BY <2>1 DEF Sessions!Next
<1>2. CASE lastOwner' = lastOwner /\ BoundOwners' # BoundOwners
  <2> DEFINE S == {s \in Sockets \ Unclosable : exchanged'[s] # exchanged[s]}
  <2>1. \A s \in S : /\ lastOwner \in Sockets
                     /\ exchanged'[s] = exchanged[s] \cup {lastOwner}
                     /\ exchanged[s] \subseteq {lastOwner}
    BY ExchangeStep
  <2>2. \E s \in Sockets : s \in S
    BY <1>2 DEF BoundOwners
  <2>3. lastOwner # 0
    BY <2>1, <2>2, NoSocketIsNone DEF NoSocket
  <2>4. \A s \in Sockets \ Unclosable :
          exchanged'[s] = IF s \in S THEN {lastOwner} ELSE exchanged[s]
    BY <2>1
  <2>5. BoundOwners' = [s \in Sockets |-> IF s \in S THEN {lastOwner} ELSE BoundOwners[s]]
    BY <2>4 DEF BoundOwners
  <2>6. Sessions!Exchange(S)
    <3>1. \A s \in S : BoundOwners[s] \subseteq {lastOwner}
      BY <2>1 DEF BoundOwners
    <3> QED
      BY <1>2, <2>3, <2>5, <3>1 DEF Sessions!Exchange
  <2>7. S \in SUBSET Sockets
    OBVIOUS
  <2> QED
    BY <2>6, <2>7 DEF Sessions!Next
<1>3. CASE lastOwner' = lastOwner /\ BoundOwners' = BoundOwners
  BY <1>3 DEF Sessions!vars
<1> QED
  BY <1>1, <1>2, <1>3

(* The room is an implementation of owner sessions, with any number of      *)
(* connections, whatever is lost, suspended or rebuilt on the way.         *)
THEOREM RoomImplementsOwnerSessions ==
  ASSUME ~OwnerCloseMayFail
  PROVE  Spec => ImplementsOwnerSessions
<1>1. Init => Sessions!Init
  BY DEF Init, Sessions!Init, NoSocket, BoundOwners
<1>2. TypeOK /\ TypeOK' /\ IInv /\ [Next]_vars => [Sessions!Next]_(Sessions!vars)
  BY SessionStep
<1> QED
  BY <1>1, <1>2, Invariance, PTL DEF Spec, ImplementsOwnerSessions, Sessions!Spec
-----------------------------------------------------------------------------
(* The marker of an attachment follows the active route: in a running room  *)
(* no other routed socket carries it, and in a sleeping one no client that  *)
(* the constructor may route carries it but the one the room slept with.   *)
(* A socket without the marker may be the active route, but not conversely. *)
(* Connections that outlived a close() may carry it and are excepted.      *)
MarkersFollow ==
  /\ \A s \in Sockets : marker[s] => s <= accepted
  /\ awake => \A c \in ClientIds :
       clients[c] \notin Unclosable \cup {NoSocket} /\ marker[clients[c]] => activeId = c
  /\ ~awake => \A s \in Sockets : Live(s) /\ marker[s] => slept = ident[s]

(* A step that marks nobody, and keeps the active route of every marked     *)
(* socket it still routes, keeps that.                                     *)
LEMMA KeptMarkers ==
  ASSUME TypeOK, TypeOK', MarkersFollow, awake, awake', accepted <= accepted',
         \A s \in Sockets : marker'[s] => s <= accepted',
         \A c \in ClientIds :
           clients'[c] \notin Unclosable \cup {NoSocket} /\ marker'[clients'[c]] =>
             /\ clients'[c] = clients[c] /\ marker[clients[c]]
             /\ activeId = c => activeId' = c
  PROVE  MarkersFollow'
<1>1. \A c \in ClientIds :
        clients'[c] \notin Unclosable \cup {NoSocket} /\ marker'[clients'[c]] => activeId' = c
  BY DEF MarkersFollow
<1> QED
  BY <1>1 DEF MarkersFollow

(* A routed socket has been accepted.                                       *)
LEMMA RoutedAreAccepted ==
  ASSUME TypeOK, Routing
  PROVE  \A s \in Current : s \in Sockets /\ s <= accepted
<1>1. \A s \in Sockets : s \in Nat /\ accepted \in Nat
  BY BoundsAssumption DEF Sockets, TypeOK
<1> QED
  BY <1>1 DEF Current, Routing, RoutesAreClients, Untouched, TypeOK

(* And so does selectActiveClient, which marks the routed sockets anew,     *)
(* also when it leaves marks on connections that close() leaves open.      *)
LEMMA ChosenMarkers ==
  ASSUME TypeOK, TypeOK', Routing', MarkersFollow, awake', accepted <= accepted',
         NEW passed \in SUBSET (Sockets \cap Unclosable),
         \A s \in passed : s <= accepted',
         \A s \in Sockets : marker'[s] => s \in passed \/ Marked(clients', activeId')[s]
  PROVE  MarkersFollow'
<1>1. \A s \in Sockets : s \in Nat /\ accepted \in Nat /\ accepted' \in Nat
  BY BoundsAssumption DEF Sockets, TypeOK
<1>2. \A s \in Sockets : marker'[s] /\ s \notin passed =>
        IF \E c \in ClientIds : clients'[c] = s
        THEN activeId' # NoId /\ clients'[activeId'] = s ELSE marker[s]
  BY DEF Marked
<1>3. \A s \in Sockets : marker'[s] => s <= accepted'
  <2>1. \A c \in ClientIds : clients'[c] \in Sockets => clients'[c] <= accepted'
    BY <1>1, NoSocketIsNone DEF Routing, RoutesAreClients, Untouched
  <2> QED
    BY <1>1, <1>2, <2>1 DEF MarkersFollow
<1>4. ASSUME NEW c \in ClientIds, clients'[c] \notin Unclosable \cup {NoSocket},
             marker'[clients'[c]]
      PROVE  activeId' = c
  <2>1. clients'[c] \in Sockets /\ clients'[c] \notin passed
    BY <1>4 DEF TypeOK
  <2>2. activeId' \in ClientIds /\ clients'[activeId'] = clients'[c]
    BY <1>2, <1>4, <2>1 DEF TypeOK
  <2>3. ident'[clients'[c]] = c /\ ident'[clients'[activeId']] = activeId'
    BY <1>4, <2>2 DEF Routing, RoutesAreClients
  <2> QED
    BY <2>2, <2>3
<1> QED
  BY <1>3, <1>4 DEF MarkersFollow

(* Rebuilding a room keeps the route it is given, or marks another.         *)
LEMMA ReconcileMarkers ==
  ASSUME TypeOK, NEW previous \in ClientIds \cup {NoId}, Reconcile(previous)
  PROVE  \/ /\ previous \in ClientIds /\ clients'[previous] # NoSocket
            /\ activeId' = previous /\ marker' = marker
         \/ marker' = Marked(clients', activeId')
<1> DEFINE routes   == [c \in ClientIds |-> Newest(OpenClients(c))]
           routed   == {c \in ClientIds : routes[c] # NoSocket}
           marked   == {c \in routed : marker[routes[c]]}
           restored == IF Sole(marked) # NoId THEN Sole(marked) ELSE Sole(routed)
           keep     == previous \in routed
<1>1. /\ clients' = routes
      /\ activeId' = IF keep THEN previous ELSE restored
      /\ marker' = IF keep THEN marker ELSE Marked(routes, restored)
  BY DEF Reconcile
<1>2. keep => previous \in ClientIds /\ routes[previous] # NoSocket
  OBVIOUS
<1> HIDE DEF routes, restored, keep
<1> QED
  BY <1>1, <1>2

(* One step per operation of the room.                                      *)
LEMMA MarkersPreserved ==
  ASSUME TypeOK, TypeOK', Routing, Routing', MarkersFollow, [Next]_vars
  PROVE  MarkersFollow'
<1> USE NoSocketIsNone, IdsAssumption
<1>a. accepted \in Nat /\ accepted + 1 \in Nat /\ accepted <= accepted + 1
  BY BoundsAssumption DEF TypeOK
<1>b. \A s \in Sockets : marker[s] => s <= accepted
  BY DEF MarkersFollow
<1>c. ASSUME awake', accepted' \in {accepted, accepted + 1},
             marker' = Marked(clients', activeId')
      PROVE  MarkersFollow'
  <2>1. \A s \in Sockets : marker'[s] => s \in {} \/ Marked(clients', activeId')[s]
    BY <1>c
  <2>2. accepted <= accepted' /\ {} \in SUBSET (Sockets \cap Unclosable)
    BY <1>a, <1>c
  <2> QED
    BY <1>c, <2>1, <2>2, ChosenMarkers
<1>d. ASSUME UNCHANGED <<accepted, role, ident, marker, retired, awake, clients, activeId, slept>>,
             \A s \in Sockets : ready'[s] = "open" => ready[s] = "open"
      PROVE  MarkersFollow'
  BY <1>d DEF MarkersFollow, Live
<1>e. ASSUME NEW gone, Retire(gone), awake, awake', accepted' \in {accepted, accepted + 1}
      PROVE  MarkersFollow'
  <2>1. \A c \in ClientIds : clients'[c] # NoSocket => c \notin gone /\ clients'[c] = clients[c]
    BY <1>e, WithoutFacts DEF Retire
  <2>2. /\ \A s \in Sockets : marker'[s] => marker[s]
        /\ \A c \in ClientIds \ gone : activeId = c => activeId' = c
    BY <1>e DEF Retire
  <2>3. accepted <= accepted' /\ \A s \in Sockets : marker'[s] => s <= accepted'
    BY <1>a, <1>e, <1>b, <2>2 DEF Sockets
  <2> QED
    BY <1>e, <2>1, <2>2, <2>3, KeptMarkers DEF TypeOK
<1>f. ASSUME NEW gone, Drop(gone), awake, awake', accepted' = accepted
      PROVE  MarkersFollow'
  <2>1. \A c \in ClientIds : clients'[c] # NoSocket => c \notin gone /\ clients'[c] = clients[c]
    BY <1>f, WithoutFacts DEF Drop
  <2>2. CASE activeId \notin gone
    BY <1>a, <1>f, <1>b, <2>1, <2>2, KeptMarkers DEF Drop
  <2>3. ASSUME activeId \in gone, Passing(gone, marker)
        PROVE  MarkersFollow'
    <3>1. PICK passed \in SUBSET (Current \cap Unclosable) :
            marker' = [s \in Sockets |-> s \in passed \/ marker[s]]
      BY <2>3 DEF Passing, SocketsOf, Current, Connected
    <3>2. \A s \in Sockets : marker'[s] => s \in passed \/ marker[s]
      BY <3>1
    <3>3. \A s \in Sockets : marker'[s] => s <= accepted
      BY <3>2, <1>b, RoutedAreAccepted
    <3> QED
      BY <1>a, <1>f, <2>1, <2>3, <3>2, <3>3, KeptMarkers DEF TypeOK
  <2>4. ASSUME activeId \in gone, Passing(gone, Marked(clients', activeId'))
        PROVE  MarkersFollow'
    <3>1. PICK passed \in SUBSET (Current \cap Unclosable) :
            marker' = [s \in Sockets |-> s \in passed \/ Marked(clients', activeId')[s]]
      BY <2>4 DEF Passing, SocketsOf, Current, Connected
    <3>2. passed \in SUBSET (Sockets \cap Unclosable) /\ \A s \in passed : s <= accepted'
      BY <1>f, <3>1, RoutedAreAccepted
    <3>3. \A s \in Sockets : marker'[s] => s \in passed \/ Marked(clients', activeId')[s]
      BY <3>1
    <3>4. accepted <= accepted'
      BY <1>a, <1>f
    <3> QED
      BY <1>f, <3>2, <3>3, <3>4, ChosenMarkers
  <2> QED
    BY <1>f, <2>2, <2>3, <2>4 DEF Drop
<1>1. CASE \E s \in Sockets : PeerDrops(s)
  BY <1>1, <1>d DEF PeerDrops, memory, history, TypeOK
<1>2. CASE Hibernate
  <2>1. ~awake' /\ awake /\ slept' = activeId /\ UNCHANGED platform
    BY <1>2 DEF Hibernate, Forget
  <2>2. \A s \in Sockets : Live(s) /\ marker[s] => activeId = ident[s]
    BY <2>1 DEF Routing, LiveAreRouted, MarkersFollow, Live
  <2> QED
    BY <2>1, <2>2 DEF MarkersFollow, platform, Live
<1>3. CASE Restart
  BY <1>3 DEF Restart, Forget, MarkersFollow, Live
<1>4. CASE Wake
  <2>1. Reconcile(NoId) /\ awake' /\ accepted' = accepted
    BY <1>4 DEF Wake
  <2>2. marker' = Marked(clients', activeId')
    BY <2>1, ReconcileMarkers
  <2> QED
    BY <1>c, <2>1, <2>2
<1>5. CASE ReadStatus
  <2>1. Reconcile(activeId) /\ awake /\ awake' /\ accepted' = accepted
    BY <1>5 DEF ReadStatus
  <2>2. activeId \in ClientIds \cup {NoId}
    BY DEF TypeOK
  <2>3. CASE activeId' = activeId /\ marker' = marker
    <3>1. \A c \in ClientIds : clients'[c] \notin Unclosable \cup {NoSocket} =>
            clients'[c] = clients[c]
      BY <2>1, <2>2, ReconcileFacts DEF OpenClients, Routing, LiveAreRouted, Live
    <3> QED
      BY <1>a, <1>b, <2>1, <2>3, <3>1, KeptMarkers
  <2>4. CASE marker' = Marked(clients', activeId')
    BY <1>c, <2>1, <2>4
  <2> QED
    BY <2>1, <2>2, <2>3, <2>4, ReconcileMarkers
<1>6. ASSUME NEW o \in OwnerIds, OwnerJoins(o) PROVE MarkersFollow'
  <2>1. PICK gone : Retire(gone)
    BY <1>6 DEF OwnerJoins
  <2> QED
    BY <1>6, <1>e, <2>1 DEF OwnerJoins
<1>7. ASSUME NEW gone, OwnerRecoveryFails(gone) PROVE MarkersFollow'
  BY <1>7, <1>e DEF OwnerRecoveryFails
<1>8. ASSUME NEW s \in Sockets, OwnerClosed(s) PROVE MarkersFollow'
  <2>1. CASE gateway = s
    BY <1>8, <2>1, <1>e DEF OwnerClosed
  <2>2. CASE gateway # s
    BY <1>8, <2>2, <1>d DEF OwnerClosed, history, TypeOK
  <2> QED
    BY <2>1, <2>2
<1>9. ASSUME NEW s \in Sockets, NEW gone, OwnerClosedPartly(s, gone) PROVE MarkersFollow'
  BY <1>9, <1>e DEF OwnerClosedPartly
<1>10. CASE \E s \in joining : OwnerJoinResumes(s)
  BY <1>10, <1>d DEF OwnerJoinResumes, platform
<1>11. CASE \E f \in OwnerFrames : OwnerFrame(f)
  BY <1>11, <1>d DEF OwnerFrame, history
<1>12. ASSUME NEW f \in inFlight, OwnerFrameResumes(f) PROVE MarkersFollow'
  <2>1. CASE StillInstalled(f) /\ f.kind = "restart"
    <3>1. awake
      BY DEF Routing, Asleep
    <3> QED
      BY <1>12, <2>1, <3>1, <1>f DEF OwnerFrameResumes
  <2>2. CASE ~(StillInstalled(f) /\ f.kind = "restart")
    BY <1>12, <2>2, <1>d DEF OwnerFrameResumes
  <2> QED
    BY <2>1, <2>2
<1>13. ASSUME NEW c \in ClientIds, ClientJoins(c) PROVE MarkersFollow'
  <2>1. /\ awake /\ awake' /\ accepted' = accepted + 1 /\ accepted + 1 \in Sockets
        /\ clients' = [clients EXCEPT ![c] = accepted + 1]
    BY <1>13, <1>a, BoundsAssumption DEF ClientJoins, Sockets, TypeOK
  <2>2. CASE activeId = NoId
    <3>1. marker' = Marked(clients', activeId')
      BY <1>13, <2>1, <2>2 DEF ClientJoins
    <3> QED
      BY <1>c, <2>1, <3>1
  <2>3. CASE activeId # NoId
    <3>1. UNCHANGED <<activeId, marker>>
      BY <1>13, <2>3 DEF ClientJoins
    <3>2. ~marker[accepted + 1]
      BY <1>a, <2>1 DEF MarkersFollow
    <3>3. \A d \in ClientIds : marker'[clients'[d]] => clients'[d] = clients[d]
      BY <2>1, <3>1, <3>2 DEF TypeOK
    <3>4. \A s \in Sockets : marker'[s] => s <= accepted'
      BY <1>a, <1>b, <2>1, <3>1 DEF Sockets
    <3> QED
      BY <1>a, <2>1, <3>1, <3>3, <3>4, KeptMarkers
  <2> QED
    BY <2>2, <2>3
<1>14. ASSUME NEW s \in Sockets, NEW kind \in ClientFrames, ClientFrame(s, kind)
       PROVE  MarkersFollow'
  <2>1. UNCHANGED <<accepted, ready, role, ident, retired, awake, clients, slept>> /\ awake
    BY <1>14 DEF ClientFrame
  <2>2. CASE activeId' = activeId /\ marker' = marker
    BY <2>1, <2>2, <1>d
  <2>3. CASE marker' = Marked(clients', activeId')
    BY <1>c, <2>1, <2>3
  <2> QED
    BY <1>14, <2>1, <2>2, <2>3 DEF ClientFrame, Selected
<1>15. ASSUME NEW s \in Sockets, ClientClosed(s) PROVE MarkersFollow'
  <2>1. awake /\ awake' /\ accepted' = accepted /\ ready' = [ready EXCEPT ![s] = "closed"]
    BY <1>15 DEF ClientClosed
  <2>2. CASE clients[ident[s]] = s
    BY <1>15, <2>1, <2>2, <1>f DEF ClientClosed
  <2>3. CASE clients[ident[s]] # s
    BY <1>15, <2>1, <2>3, <1>d DEF ClientClosed, history, TypeOK
  <2> QED
    BY <2>2, <2>3
<1>16. ASSUME NEW late, NEW expired, Alarm(late, expired) PROVE MarkersFollow'
  <2>1. PICK gone : Drop(gone)
    BY <1>16 DEF Alarm
  <2> QED
    BY <1>16, <1>f, <2>1 DEF Alarm
<1>17. CASE UNCHANGED vars
  BY <1>17, <1>d DEF vars, platform, memory, history
<1> QED
  BY <1>1, <1>2, <1>3, <1>4, <1>5, <1>6, <1>7, <1>8, <1>9, <1>10, <1>11, <1>12, <1>13, <1>14,
     <1>15, <1>16, <1>17 DEF Next

(* The sole member of a set is its only member, and an empty set has none.  *)
LEMMA SoleIsOnly ==
  ASSUME NEW S
  PROVE  Sole(S) # NoId => S = {Sole(S)}
BY DEF Sole

(* A room that wakes gives the active route to no other client, but to one  *)
(* that outlived its close().                                              *)
LEMMA WakingStep ==
  ASSUME TypeOK, MarkersFollow, [Next]_vars,
         ~awake, awake', slept # NoId, clients'[slept] # NoSocket
  PROVE  activeId' \in {slept, NoId} \/ clients'[activeId'] \in Unclosable
<1> DEFINE routes   == [c \in ClientIds |-> Newest(OpenClients(c))]
           routed   == {c \in ClientIds : routes[c] # NoSocket}
           marked   == {c \in routed : marker[routes[c]]}
           restored == IF Sole(marked) # NoId THEN Sole(marked) ELSE Sole(routed)
<1>1. Reconcile(NoId)
  BY DEF Next, Wake, vars, memory, PeerDrops, Hibernate, Restart, Forget, ReadStatus,
         OwnerJoins, OwnerRecoveryFails, OwnerJoinResumes, OwnerFrame, OwnerFrameResumes,
         OwnerClosed, OwnerClosedPartly, ClientJoins, ClientFrame, ClientClosed, Alarm
<1>2. clients' = routes /\ activeId' = restored
  BY <1>1, IdsAssumption DEF Reconcile
<1>3. \A c \in marked : c = slept \/ routes[c] \in Unclosable
  <2>1. \A c \in routed : routes[c] \in OpenClients(c)
    BY NewestFacts DEF OpenClients
  <2> QED
    BY <2>1 DEF OpenClients, MarkersFollow, Live
<1>4. slept \in routed
  BY <1>2 DEF TypeOK
<1> HIDE DEF routes, routed, marked
<1>5. CASE Sole(marked) # NoId
  BY <1>2, <1>3, <1>5, SoleIsOnly
<1>6. CASE Sole(marked) = NoId
  BY <1>2, <1>4, <1>6, SoleIsOnly
<1> QED
  BY <1>5, <1>6

(* Hibernation never hands the active route of an open client to another:   *)
(* the marker the constructor reads follows the route in every running     *)
(* room, whatever joins, drops, retirements and status queries do to it.   *)
THEOREM WakingKeepsTheRoute == Spec => WakingStealsNoRoute
<1>1. Init => MarkersFollow
  BY DEF Init, MarkersFollow
<1>2. TypeOK /\ Routing /\ MarkersFollow /\ (TypeOK /\ Routing)' /\ [Next]_vars => MarkersFollow'
  BY MarkersPreserved
<1>3. TypeOK /\ MarkersFollow /\ [Next]_vars =>
        [~awake /\ awake' /\ slept # NoId /\ clients'[slept] # NoSocket
           => activeId' \in {slept, NoId} \/ clients'[activeId'] \in Unclosable]_vars
  BY WakingStep
<1> QED
  BY <1>1, <1>2, <1>3, RoutesAreCorrect, PTL DEF Spec, WakingStealsNoRoute
=============================================================================
