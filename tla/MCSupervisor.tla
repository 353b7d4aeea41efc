---------------------------- MODULE MCSupervisor ----------------------------
(* Supervisor with two walls and one client; see the cfg files.              *)
EXTENDS Supervisor

CONSTANTS c1, a, b

(* Two faults of any kind; a third may only be a spawn that fails, the one   *)
(* that leaves a request of a nested restart without a renderer.             *)
TwoThenSpawn == [kind \in Faults |-> IF kind = "spawn" THEN 3 ELSE 2]
=============================================================================
