--------------------------- MODULE RelayRequests ---------------------------
(***************************************************************************)
(* The pending requests of a room that routes responses by origin (every   *)
(* backend but OpenClaw).  The origin of a request is an entry, its id and *)
(* the time it expires, in the attachment of the socket it came from.  The *)
(* map from ids to clients is computed from the entries whenever it is     *)
(* read, so the room remembers nothing of it and loses nothing of it in    *)
(* hibernation.                                                            *)
(*                                                                         *)
(* A client is its routed connection: RelayRoom shows that a connection    *)
(* that has left the routes is not routed again (as long as close works),  *)
(* and the entries of unrouted connections are never read.  Clients may    *)
(* use any id, also one of another client or one in use, and the owner may *)
(* answer any id, at any time, more than once or never.                    *)
(***************************************************************************)
EXTENDS Integers, FiniteSets

CONSTANTS
  ClientIds,         \* identities full clients connect with
  Ids,               \* request ids
  NoTime,            \* no time
  TTL,               \* PENDING_REQUEST_TTL_MS
  MaxPending,        \* MAX_PENDING_REQUESTS
  MaxTime,           \* bound: the clock
  MaxOwed            \* bound: unanswered requests of one id and connection

ASSUME TTLAssumption     == TTL \in Nat \ {0} /\ MaxPending \in Nat \ {0}
ASSUME BoundsAssumption  == MaxTime \in Nat /\ MaxOwed \in Nat
ASSUME NothingAssumption == NoTime \notin Int

Times   == 0 .. MaxTime
Entries == [id : Ids, expiresAt : 0 .. (MaxTime + TTL)]

VARIABLES
  now,       \* Date.now()
  routed,    \* readyState of the routed socket of each client
  pending,   \* attachment.pendingRequests of that socket
  owner,     \* the bridge: "never" seen, "open", "closing", or "gone"
  owed,      \* history: requests less responses, on the routed connection
  asked,     \* history: when the unanswered request was passed on or kept
  steady     \* history: the clock has not stepped back

clock == <<now, steady>>
vars  == <<clock, routed, pending, owner, owed, asked>>
-----------------------------------------------------------------------------
IsOpen(c) == routed[c] = "open"

(* pendingRequests: the entries of an attachment that count now.           *)
Live(c) ==
  IF Cardinality(pending[c]) > MaxPending THEN {}
  ELSE {e \in pending[c] : now < e.expiresAt /\ e.expiresAt <= now + TTL}
IdsOf(entries) == {e.id : e \in entries}

(* restorePendingRequests: the open clients an answer may belong to.       *)
Origins(id) == {c \in ClientIds : IsOpen(c) /\ id \in IdsOf(Live(c))}

(* rememberPendingRequest refuses an id that any routed socket waits for,  *)
(* and one more than MaxPending.                                           *)
DuplicateOnOwnSocket(c, id) == id \in IdsOf(Live(c))
Duplicate(c, id) == \E d \in ClientIds : routed[d] # "none" /\ id \in IdsOf(Live(d))
HasRoom(c)    == Cardinality(Live(c)) < MaxPending

(* The entries after a request was accepted. *)
Remembered(c, id) == Live(c) \union {[id |-> id, expiresAt |-> now + TTL]}

(* takePendingRequest consumes the entry an answer was found by. *)
KeptForRetries(c, id) == Live(c)
Consumed(c, id)       == {e \in Live(c) : e.id # id}

(* rejectClientRequestWithoutBridge takes the new entry again. *)
RejectedButKept(c, id) == Remembered(c, id)
Rejected(c, id)        == {e \in Remembered(c, id) : e.id # id}

(* A client whose connection leaves the routes: nothing it waited for can  *)
(* reach it.                                                               *)
Cleared(f, none, gone) == [c \in ClientIds |-> IF c \in gone THEN none ELSE f[c]]
NothingOwed  == [id \in Ids |-> 0]
NothingAsked == [id \in Ids |-> NoTime]
Forget(gone) ==
  /\ pending' = Cleared(pending, {}, gone)
  /\ owed'    = Cleared(owed, NothingOwed, gone)
  /\ asked'   = Cleared(asked, NothingAsked, gone)
-----------------------------------------------------------------------------
Init ==
  /\ now = 0
  /\ routed  = [c \in ClientIds |-> "none"]
  /\ pending = [c \in ClientIds |-> {}]
  /\ owner   = "never"
  /\ owed    = [c \in ClientIds |-> NothingOwed]
  /\ asked   = [c \in ClientIds |-> NothingAsked]
  /\ steady  = TRUE

Tick ==
  /\ now < MaxTime
  /\ now' = now + 1
  /\ UNCHANGED <<steady, routed, pending, owner, owed, asked>>

ClockStepsBack ==
  /\ \E t \in Times : t < now /\ now' = t
  /\ steady' = FALSE
  /\ UNCHANGED <<routed, pending, owner, owed, asked>>

(* A client connects; the attachment of its new socket has no entries, and *)
(* a previous socket of its identity is closed and no longer routed.       *)
ClientJoins(c) ==
  /\ routed' = [routed EXCEPT ![c] = "open"]
  /\ Forget({c})
  /\ UNCHANGED <<clock, owner>>

(* The peer or the network ends a connection; the room is told later.      *)
ClientDrops(c) ==
  /\ routed[c] = "open"
  /\ routed' = [routed EXCEPT ![c] = "closing"]
  /\ UNCHANGED <<clock, pending, owner, owed, asked>>

(* A client leaves the routes: after its close callback, or because the    *)
(* alarm drops it and closes its socket.                                   *)
ClientLeaves(c) ==
  /\ routed[c] # "none"
  /\ routed' = [routed EXCEPT ![c] = "none"]
  /\ Forget({c})
  /\ UNCHANGED <<clock, owner>>

(* A request of a client.  A refused one is answered by the room, as is    *)
(* one that finds no open owner, unless it starts a connection and is      *)
(* buffered; those are paid back at once and leave owed as it is.  A       *)
(* refusal also stands for metadata too large or not storable.  Requests   *)
(* buffered by a closing socket are dropped silently.                      *)
Request(c, id, connect, storable) ==
  /\ IsOpen(c)
  /\ owed[c][id] < MaxOwed
  /\ IF Duplicate(c, id) \/ ~HasRoom(c) \/ ~storable
     THEN UNCHANGED <<pending, owed, asked>>
     ELSE IF owner = "open" \/ connect
     THEN /\ pending' = [pending EXCEPT ![c] = Remembered(c, id)]
          /\ owed'    = [owed EXCEPT ![c][id] = @ + 1]
          /\ asked'   = [asked EXCEPT ![c][id] = now]
     ELSE /\ pending' = [pending EXCEPT ![c] = Rejected(c, id)]
          /\ UNCHANGED <<owed, asked>>
  /\ UNCHANGED <<clock, routed, owner>>

(* The owner answers an id.  The answer is dropped unless exactly one      *)
(* client waits for it.                                                    *)
Answer(id) ==
  /\ owner \in {"open", "closing"}
  /\ \E c \in ClientIds :
       /\ Origins(id) = {c}
       /\ pending' = [pending EXCEPT ![c] = Consumed(c, id)]
       /\ owed'    = [owed EXCEPT ![c][id] = @ - 1]
       /\ asked'   = [asked EXCEPT ![c][id] = NoTime]
  /\ UNCHANGED <<clock, routed, owner>>

(* An owner comes.  If the room knows of an earlier one, the clients of    *)
(* that one are retired and closed.                                        *)
OwnerJoins ==
  LET retired == IF owner = "never" THEN {} ELSE ClientIds
  IN  /\ owner' = "open"
      /\ routed' = Cleared(routed, "none", retired)
      /\ Forget(retired)
      /\ UNCHANGED clock

OwnerDrops ==
  /\ owner = "open"
  /\ owner' = "closing"
  /\ UNCHANGED <<clock, routed, pending, owed, asked>>

(* The close callback of the installed owner retires the clients. *)
OwnerClosed ==
  /\ owner \in {"open", "closing"}
  /\ owner' = "gone"
  /\ routed' = Cleared(routed, "none", ClientIds)
  /\ Forget(ClientIds)
  /\ UNCHANGED clock

(* The room is rebuilt from its sockets, after hibernation or for a status *)
(* query: open ones keep their attachments, closing ones are left out.     *)
Reconcile ==
  LET gone == {c \in ClientIds : routed[c] = "closing"}
  IN  /\ routed' = Cleared(routed, "none", gone)
      /\ Forget(gone)
      /\ owner' = IF owner = "closing" THEN "gone" ELSE owner
      /\ UNCHANGED clock

Next ==
  \/ Tick
  \/ ClockStepsBack
  \/ \E c \in ClientIds : ClientJoins(c) \/ ClientDrops(c) \/ ClientLeaves(c)
  \/ \E c \in ClientIds, id \in Ids, connect \in BOOLEAN, storable \in BOOLEAN :
       Request(c, id, connect, storable)
  \/ \E id \in Ids : Answer(id)
  \/ OwnerJoins
  \/ OwnerDrops
  \/ OwnerClosed
  \/ Reconcile

Spec == Init /\ [][Next]_vars
-----------------------------------------------------------------------------
(* Types; a socket never holds more entries than MaxPending, which the     *)
(* room could no longer read (pendingRequests gives up on longer lists).   *)
TypeOK ==
  /\ now \in Times
  /\ routed  \in [ClientIds -> {"none", "open", "closing"}]
  /\ pending \in [ClientIds -> SUBSET Entries]
  /\ \A c \in ClientIds : IsFiniteSet(pending[c]) /\ Cardinality(pending[c]) <= MaxPending
  /\ owner \in {"never", "open", "closing", "gone"}
  /\ owed  \in [ClientIds -> [Ids -> Int]]
  /\ asked \in [ClientIds -> [Ids -> Times \union {NoTime}]]
  /\ steady \in BOOLEAN

(* A connection gets no more responses for an id than it has sent requests *)
(* with it: an answer that is late, repeated or meant for another client   *)
(* or for an earlier connection of the same client reaches nobody who has  *)
(* not asked (takePendingRequest).                                         *)
AnsweredOnlyIfAsked == \A c \in ClientIds, id \in Ids : owed[c][id] >= 0

(* A connection's capacity is used up only by requests it still waits for: *)
(* neither answers, refusals, a missing bridge, expiry, owners that go nor *)
(* a rebuilt room leave entries behind.                                    *)
EntriesAreOwed ==
  \A c \in ClientIds :
    /\ \A e \in pending[c] : owed[c][e.id] > 0
    /\ \A e, f \in pending[c] : e.id = f.id => e = f

(* The answer to an accepted request reaches the connection that asked if  *)
(* it comes within the TTL: the entry is neither evicted, nor hidden by    *)
(* another client that uses the same id, nor forgotten by a rebuilt room.  *)
(* A clock that steps back may lose it.                                    *)
Awaited(c, id) == IsOpen(c) /\ asked[c][id] # NoTime /\ now < asked[c][id] + TTL
TimelyAnswersArrive ==
  steady =>
    \A c \in ClientIds, id \in Ids : Awaited(c, id) => Origins(id) = {c}
=============================================================================
