------------------------------- MODULE IdlePool -------------------------------
(***************************************************************************)
(* The scheduler's choice for one waiting task while the pool of idle      *)
(* workers changes: workers become idle and busy, arrive and leave.  The   *)
(* pool is an environment; the module under study is Scheduler.            *)
(***************************************************************************)
EXTENDS Scheduler

VARIABLES
  need,   (* what the waiting task asks for                                *)
  idle    (* the workers getAvailableWorkers returns                       *)

poolVars == <<need, idle>>

Selection == SelectWorker(need, idle)

PoolInit == need \in Needs /\ idle = {}

BecomeIdle(w) == w \notin idle /\ idle' = idle \cup {w} /\ UNCHANGED need

BecomeBusy(w) == w \in idle /\ idle' = idle \ {w} /\ UNCHANGED need

PoolNext == \E w \in Workers : BecomeIdle(w) \/ BecomeBusy(w)

PoolSpec == PoolInit /\ [][PoolNext]_poolVars

-----------------------------------------------------------------------------

EnoughRam(w) == Profile[w].ramGb >= need.minRamGb

\* Worker w is at least as large as v.
AsLarge(w, v) ==
  \/ Profile[w].cpuCores > Profile[v].cpuCores
  \/ Profile[w].cpuCores = Profile[v].cpuCores /\ Profile[w].ramGb >= Profile[v].ramGb

\* What _selectWorker selects, without the order in which it looks: a worker
\* that has a GPU if the task requires one, has the RAM asked for unless nobody
\* idle has, and is the largest of the workers for which the same can be said.
\* The docstring of Scheduler says "prefer" of the GPU, which is mandatory here
\* as in the code, and "skip" of workers below the threshold, which the code
\* takes when all are below it.
BestFit(w) ==
  LET Fits(v) == /\ need.requiresGpu => Profile[v].gpuAvailable
                 /\ EnoughRam(v) \/ \A u \in idle : ~ EnoughRam(u)
  IN  /\ w \in idle
      /\ Fits(w)
      /\ \A v \in idle : Fits(v) => AsLarge(w, v)

\* _selectWorker returns a best fit whenever there is one, and nothing else: no
\* early return or relaxed filter of it loses the largest of the workers that fit.
SelectionIsBestFit == Selection = {w \in Workers : BestFit(w)}

\* When a worker that was not selected becomes busy, the choice stays the same,
\* although the filters and the maximum are computed over another list.
ChoiceIgnoresBystanders ==
  [][\A w \in Workers :
       BecomeBusy(w) /\ Selection # {} /\ w \notin Selection
         => Selection' = Selection]_poolVars
===============================================================================
