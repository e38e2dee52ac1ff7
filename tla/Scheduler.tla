------------------------------ MODULE Scheduler ------------------------------
(***************************************************************************)
(* The choice of a worker for a task (scheduler.py, _selectWorker).  The   *)
(* code returns one worker; the model returns the set of workers it may    *)
(* return, which has more than one element only when several tie on        *)
(* (cpuCores, ramGb) and the code takes the one registered first.          *)
(***************************************************************************)
EXTENDS ClusterTypes

\* Variant: only the number of cores is compared.
OutranksByCores(v, w) == Profile[v].cpuCores > Profile[w].cpuCores

\* The sort key (cpuCores, ramGb) compared as Python compares tuples.
Outranks(v, w) ==
  \/ Profile[v].cpuCores > Profile[w].cpuCores
  \/ /\ Profile[v].cpuCores = Profile[w].cpuCores
     /\ Profile[v].ramGb > Profile[w].ramGb

\* Variant: the RAM requirement is relaxed while one worker still meets it.
EligibleOffByOne(need, workers) ==
  LET enough == {w \in workers : Profile[w].ramGb >= need.minRamGb}
  IN  IF \A v, w \in enough : v = w THEN workers ELSE enough

\* Workers with enough RAM or, when there is none, all of them.
Eligible(need, workers) ==
  LET enough == {w \in workers : Profile[w].ramGb >= need.minRamGb}
  IN  IF enough = {} THEN workers ELSE enough

Candidates(need, workers) ==
  {w \in Eligible(need, workers) :
     need.requiresGpu => Profile[w].gpuAvailable}

SelectWorker(need, workers) ==
  LET candidates == Candidates(need, workers)
  IN  {w \in candidates : \A v \in candidates : ~ Outranks(v, w)}
=============================================================================
