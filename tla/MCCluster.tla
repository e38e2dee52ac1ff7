------------------------------ MODULE MCCluster ------------------------------
(***************************************************************************)
(* Instances of Cluster for TLC.                                           *)
(***************************************************************************)
EXTENDS Claims, FrameInv, ClusterQueue

CONSTANTS w1, w2

\* A GPU machine with little RAM, and a larger one without a GPU.
MCProfile ==
  [w \in Workers |->
     IF w = w1 THEN [cpuCores |-> 4, ramGb |-> 16, gpuAvailable |-> TRUE]
               ELSE [cpuCores |-> 8, ramGb |-> 64, gpuAvailable |-> FALSE]]

AnyWorker == [requiresGpu |-> FALSE, minRamGb |-> 0, wellFormed |-> TRUE]
NeedsGpu == [requiresGpu |-> TRUE, minRamGb |-> 0, wellFormed |-> TRUE]
BadPayload == [requiresGpu |-> FALSE, minRamGb |-> 0, wellFormed |-> FALSE]

PlainJobs == {AnyWorker}
MixedJobs == {AnyWorker, NeedsGpu}
AllJobs == {AnyWorker, NeedsGpu, BadPayload}

OneSession == [w \in Workers |-> 1]
TwoSessions == [w \in Workers |-> 2]
OneReconnect == [w \in Workers |-> IF w = w1 THEN 2 ELSE 1]
=============================================================================
