--------------------------- MODULE SchedulerProofs ---------------------------
(***************************************************************************)
(* Proofs, for every pool of workers and every hardware, about the choice  *)
(* _selectWorker makes.                                                    *)
(***************************************************************************)
EXTENDS IdlePool, TLAPS

LEMMA ProfileTypes ==
  ASSUME NEW w \in Workers
  PROVE  Profile[w].cpuCores \in Nat /\ Profile[w].ramGb \in Nat
BY ProfileAssumption DEF HardwareProfile

LEMMA OutranksIsStrictWeakOrder ==
  ASSUME NEW u \in Workers, NEW v \in Workers, NEW w \in Workers
  PROVE  /\ ~ Outranks(u, v) /\ ~ Outranks(v, w) => ~ Outranks(u, w)
         /\ Outranks(u, v) => ~ Outranks(v, u)
         /\ ~ Outranks(v, w) <=> AsLarge(w, v)
BY ProfileTypes DEF Outranks, AsLarge

LEMMA PoolTypes == PoolSpec => [](need \in Needs /\ idle \subseteq Workers)
<1>1. PoolInit => need \in Needs /\ idle \subseteq Workers
  BY DEF PoolInit
<1>2. (need \in Needs /\ idle \subseteq Workers) /\ [PoolNext]_poolVars
        => (need \in Needs /\ idle \subseteq Workers)'
  BY DEF PoolNext, BecomeIdle, BecomeBusy, poolVars
<1> QED
  BY <1>1, <1>2, PTL DEF PoolSpec

\* _selectWorker, with its early returns and its filters in the order of the
\* code, returns exactly the best fits, for every pool and hardware.
THEOREM BestFitIsSelected == PoolSpec => []SelectionIsBestFit
<1>1. ASSUME need \in Needs, idle \subseteq Workers
      PROVE  SelectionIsBestFit
  <2>1. \A v, w \in Workers : AsLarge(w, v) <=> ~ Outranks(v, w)
    BY OutranksIsStrictWeakOrder
  <2>2. \A v \in Workers :
          v \in Candidates(need, idle) <=>
            /\ v \in idle
            /\ need.requiresGpu => Profile[v].gpuAvailable
            /\ EnoughRam(v) \/ \A u \in idle : ~ EnoughRam(u)
    BY <1>1 DEF Candidates, Eligible, EnoughRam
  <2>3. Candidates(need, idle) \subseteq Workers
    BY <1>1 DEF Candidates, Eligible
  <2> QED
    BY <1>1, <2>1, <2>2, <2>3
    DEF SelectionIsBestFit, Selection, SelectWorker, BestFit
<1> QED
  BY <1>1, PoolTypes, PTL

\* What does not matter, does not: a worker that was not chosen may leave the
\* pool without changing the choice.
LEMMA BystanderLeaves ==
  ASSUME idle \subseteq Workers, NEW w \in Workers,
         BecomeBusy(w), Selection # {}, w \notin Selection
  PROVE  Selection' = Selection
<1> DEFINE C == Candidates(need, idle)
           D == Candidates(need, idle \ {w})
<1>1. Selection = {n \in C : \A v \in C : ~ Outranks(v, n)}
  BY DEF Selection, SelectWorker
<1>2. Selection' = {n \in D : \A v \in D : ~ Outranks(v, n)}
  BY DEF Selection, SelectWorker, BecomeBusy
<1>3. C \subseteq Workers
  BY DEF Candidates, Eligible
<1>4. PICK s \in C : \A v \in C : ~ Outranks(v, s)
  BY <1>1
<1>5. s # w
  BY <1>1, <1>4
<1>6. D = C \ {w}
  <2>1. CASE {v \in idle : Profile[v].ramGb >= need.minRamGb} = {}
    BY <2>1 DEF Candidates, Eligible
  <2>2. CASE {v \in idle : Profile[v].ramGb >= need.minRamGb} # {}
    <3>1. s \in {v \in idle \ {w} : Profile[v].ramGb >= need.minRamGb}
      BY <1>4, <1>5, <2>2 DEF Candidates, Eligible
    <3> QED
      BY <2>2, <3>1 DEF Candidates, Eligible
  <2> QED
    BY <2>1, <2>2
<1> HIDE DEF C, D
<1>7. s \in D /\ \A v \in D : ~ Outranks(v, s)
  BY <1>4, <1>5, <1>6
<1>8. ASSUME NEW n \in D, \A v \in D : ~ Outranks(v, n)
      PROVE  \A v \in C : ~ Outranks(v, n)
  <2> SUFFICES ASSUME w \in C
               PROVE  ~ Outranks(w, n)
    BY <1>6, <1>8
  <2>1. ~ Outranks(w, s) /\ ~ Outranks(s, n)
    BY <1>4, <1>7, <1>8
  <2> QED
    BY <1>3, <1>4, <1>6, <1>8, <2>1, OutranksIsStrictWeakOrder
<1>9. \A n : n \in Selection => n \in Selection'
  BY <1>1, <1>2, <1>6
<1>10. \A n : n \in Selection' => n \in Selection
  BY <1>1, <1>2, <1>6, <1>8
<1> QED
  BY <1>9, <1>10

\* The choice is stable in every pool: bystanders never change it.
THEOREM ChoiceIsStable == PoolSpec => ChoiceIgnoresBystanders
<1>1. ASSUME idle \subseteq Workers
      PROVE  [\A w \in Workers :
                BecomeBusy(w) /\ Selection # {} /\ w \notin Selection
                  => Selection' = Selection]_poolVars
  BY <1>1, BystanderLeaves
<1> QED
  BY <1>1, PoolTypes, PTL DEF ChoiceIgnoresBystanders
=============================================================================
