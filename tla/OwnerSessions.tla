--------------------------- MODULE OwnerSessions ---------------------------
(***************************************************************************)
(* What a Relay room promises about ownership, without saying how.         *)
(*                                                                         *)
(* Owner connections succeed one another in the order in which they are    *)
(* accepted.  A client connection may exchange frames with the latest      *)
(* owner only, and with at most one owner during its whole life: when the  *)
(* owner is succeeded, the client connections that talked to it have to    *)
(* be replaced by fresh ones (control.ts, "only this captured generation   *)
(* can be removed"; routing.ts, "a stale owner must never broadcast into   *)
(* the replacement's client generation").                                  *)
(***************************************************************************)
EXTENDS Naturals

CONSTANT Sockets          \* numbers of the connections, in acceptance order

VARIABLES
  latest,                 \* the owner connection accepted last, 0 before the first
  bound                   \* bound[s]: the owners client connection s exchanged frames with

vars == <<latest, bound>>

Init ==
  /\ latest = 0
  /\ bound = [s \in Sockets |-> {}]

(* A newer owner takes over; no session is carried across. *)
Succeed(o) ==
  /\ o > latest
  /\ latest' = o
  /\ UNCHANGED bound

(* Frames pass between the latest owner and client connections it alone owns. *)
Exchange(S) ==
  /\ latest # 0
  /\ \A s \in S : bound[s] \subseteq {latest}
  /\ bound' = [s \in Sockets |-> IF s \in S THEN {latest} ELSE bound[s]]
  /\ UNCHANGED latest

Next ==
  \/ \E o \in Sockets : Succeed(o)
  \/ \E S \in SUBSET Sockets : Exchange(S)

Spec == Init /\ [][Next]_vars
=============================================================================
