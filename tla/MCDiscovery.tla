----------------------------- MODULE MCDiscovery -----------------------------
(***************************************************************************)
(* Instances of Discovery for TLC: two hosts the coordinator may run at, a *)
(* worker that broadcasts and one that has COORDINATOR_HOST set.           *)
(***************************************************************************)
EXTENDS Discovery

CONSTANTS h1, h2, wBroadcast, wDirect

MCDirectHost == [w \in Workers |-> IF w = wDirect THEN h1 ELSE None]
=============================================================================
