-------------------------- MODULE MCRelayRequests --------------------------
(***************************************************************************)
(* RelayRequests for TLC: clients and ids are interchangeable.             *)
(***************************************************************************)
EXTENDS RelayRequests, TLC

ClientsAndIds == Permutations(ClientIds) \union Permutations(Ids)

(* When a request was made matters only while the clock has been steady.   *)
OwedView == <<now, routed, pending, owner, owed, IF steady THEN asked ELSE NoTime>>
=============================================================================
