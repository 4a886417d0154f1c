---------------------------- MODULE MCRelayRoom ----------------------------
(* A small instance of the relay room for TLC. *)
EXTENDS RelayRoom, TLC

CONSTANTS phone, tablet, bridge, laptop

(* Identities of the same kind are interchangeable. *)
Symmetric == Permutations({phone, tablet}) \cup Permutations({bridge, laptop})

(* No guard and no route property reads who exchanged frames with whom. *)
RouteView == <<platform, memory, slept>>
=============================================================================
