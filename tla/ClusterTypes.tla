---------------------------- MODULE ClusterTypes ----------------------------
(***************************************************************************)
(* The constants and value sets every other module speaks about: workers,  *)
(* their hardware, the jobs users submit, and the WebSocket connections    *)
(* between the coordinator and its workers.                                *)
(***************************************************************************)
EXTENDS Naturals, Sequences

CONSTANTS
  Workers,      (* the node identities (NODE_ID) of the worker processes   *)
  Profile,      (* the hardware each worker reports when it registers      *)
  Needs,        (* what the payloads of submitted jobs may ask for         *)
  MaxTasks,     (* bound: tasks ever submitted                             *)
  MaxSessions,  (* bound: connections each worker ever opens               *)
  Requests,     (* bound: HTTP requests the coordinator serves at a time   *)
  None          (* Python's None                                           *)

\* GB of RAM are whole numbers here; the code only compares them.
HardwareProfile == [cpuCores: Nat, ramGb: Nat, gpuAvailable: BOOLEAN]

\* wellFormed is FALSE for a payload whose minRamGb float() rejects.
Need == [requiresGpu: BOOLEAN, minRamGb: Nat, wellFormed: BOOLEAN]

\* Tasks are named by their position in the insertion order of _tasks.
TaskIds == 1 .. MaxTasks

\* A connection is the k-th WebSocket a worker opens.
Conns == UNION {{w} \X (1 .. MaxSessions[w]) : w \in Workers}

Owner(c) == c[1]

\* The coroutines of the coordinator: one per connection, one per request.
Coroutines == Conns \cup Requests

ASSUME ProfileAssumption == Profile \in [Workers -> HardwareProfile]
ASSUME NeedsAssumption   == Needs \subseteq Need
ASSUME BoundsAssumption  == MaxTasks \in Nat /\ MaxSessions \in [Workers -> Nat]
ASSUME RequestAssumption == Requests \cap Conns = {}
ASSUME NoneAssumption    ==
  None \notin Workers \cup Needs \cup Coroutines /\ None \notin TaskIds
=============================================================================
