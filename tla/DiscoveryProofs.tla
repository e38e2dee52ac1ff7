--------------------------- MODULE DiscoveryProofs ---------------------------
(***************************************************************************)
(* Proofs about discovery and the two retry loops, for every set of        *)
(* workers and hosts: types, and the pace at which a worker retries.       *)
(***************************************************************************)
EXTENDS Discovery, TLAPS

\* The pace after n failures.  It is the inductive strengthening of
\* BackoffFollowsFailures that a worker's delay is this in every phase, not
\* only while it sleeps.
PaceOf(n) ==
  LET uncapped == RECONNECT_BASE_DELAY * 2 ^ n
  IN  IF uncapped > RECONNECT_MAX_DELAY THEN RECONNECT_MAX_DELAY ELSE uncapped

DelayInv == \A w \in Workers : delay[w] = PaceOf(failures[w])

\* One more failure doubles the pace, up to the ceiling; five reach it.
LEMMA PaceValues ==
  /\ PaceOf(0) = 1 /\ PaceOf(1) = 2 /\ PaceOf(2) = 4
  /\ PaceOf(3) = 8 /\ PaceOf(4) = 16 /\ PaceOf(5) = 30
<1>1. 2^0 = 1 /\ 2^1 = 2 /\ 2^2 = 4 /\ 2^3 = 8 /\ 2^4 = 16 /\ 2^5 = 32
  OBVIOUS
<1>. QED
  BY <1>1 DEF PaceOf, RECONNECT_BASE_DELAY, RECONNECT_MAX_DELAY

LEMMA PaceDoubles ==
  ASSUME NEW n \in 0 .. 5
  PROVE  PaceOf(IF n < 5 THEN n + 1 ELSE n)
           = IF 2 * PaceOf(n) <= RECONNECT_MAX_DELAY
               THEN 2 * PaceOf(n) ELSE RECONNECT_MAX_DELAY
<1>1. n = 0 \/ n = 1 \/ n = 2 \/ n = 3 \/ n = 4 \/ n = 5
  OBVIOUS
<1>. QED
  BY <1>1, PaceValues DEF RECONNECT_MAX_DELAY

-----------------------------------------------------------------------------
(* The steps of a worker, and those of everybody else.                     *)

LEMMA ResolvedTypes ==
  ASSUME DiscoveryTypeOK, DelayInv, NEW w \in Workers, NEW h \in Hosts,
         Resolved(w, h), UNCHANGED serverVars
  PROVE  DiscoveryTypeOK' /\ DelayInv'
<1>. USE DEF DiscoveryTypeOK, Resolved, CloseSocket, serverVars,
             RECONNECT_BASE_DELAY, RECONNECT_MAX_DELAY
<1>1. DiscoveryTypeOK'
  <2>1. phase' \in [Workers -> Phases]
    BY DEF Phases
  <2>2. delay' \in [Workers -> 1 .. 30] /\ failures' \in [Workers -> 0 .. 5]
    OBVIOUS
  <2>3. request' \subseteq Workers /\ reply' \in [Workers -> Hosts \cup Strays \cup {None}]
    OBVIOUS
  <2>. QED
    BY <2>1, <2>2, <2>3
<1>2. DelayInv'
  BY PaceValues DEF DelayInv
<1>. QED
  BY <1>1, <1>2

LEMMA ReplyTypes ==
  ASSUME DiscoveryTypeOK, DelayInv, NEW w \in Workers, ReceiveReply(w)
  PROVE  DiscoveryTypeOK' /\ DelayInv'
<1>1. UNCHANGED serverVars
  BY DEF ReceiveReply
<1>2. ASSUME NEW h \in Hosts, Resolved(w, h) PROVE DiscoveryTypeOK' /\ DelayInv'
  BY <1>1, <1>2, ResolvedTypes
<1>3. CASE /\ reply' = [reply EXCEPT ![w] = None]
           /\ UNCHANGED <<request, phase, delay, address, failures>>
  BY <1>1, <1>3 DEF DiscoveryTypeOK, DelayInv, serverVars
<1>4. CASE /\ phase' = [phase EXCEPT ![w] = "dead"]
           /\ CloseSocket(w)
           /\ UNCHANGED <<delay, address, failures>>
  <2>1. phase' \in [Workers -> Phases]
    BY <1>4 DEF DiscoveryTypeOK, Phases
  <2>. QED
    BY <1>1, <1>4, <2>1 DEF DiscoveryTypeOK, DelayInv, CloseSocket, serverVars
<1>5. DirectHost[w] # None => DirectHost[w] \in Hosts
  BY HostAssumption
<1>. QED
  BY <1>2, <1>3, <1>4, <1>5 DEF ReceiveReply

LEMMA WakeTypes ==
  ASSUME DiscoveryTypeOK, DelayInv, NEW w \in Workers, Wake(w)
  PROVE  DiscoveryTypeOK' /\ DelayInv'
<1>. USE DEF DiscoveryTypeOK, Wake, DoubleDelay, CountFailure, serverVars
<1>1. phase' \in [Workers -> Phases]
  BY DEF Phases
<1>2. failures' \in [Workers -> 0 .. 5]
  OBVIOUS
<1>3. delay' \in [Workers -> RECONNECT_BASE_DELAY .. RECONNECT_MAX_DELAY]
  BY DEF RECONNECT_BASE_DELAY, RECONNECT_MAX_DELAY
<1>4. DiscoveryTypeOK'
  BY <1>1, <1>2, <1>3
<1>5. ASSUME NEW v \in Workers PROVE delay'[v] = PaceOf(failures'[v])
  <2>1. CASE v # w
    BY <2>1 DEF DelayInv
  <2>2. CASE v = w
    <3>1. PICK n \in 0 .. 5 : n = failures[w]
      OBVIOUS
    <3>2. delay[w] = PaceOf(n)
      BY <3>1 DEF DelayInv
    <3>3. failures'[w] = IF n < 5 THEN n + 1 ELSE n
      BY <3>1
    <3>4. delay'[w] = IF 2 * PaceOf(n) <= RECONNECT_MAX_DELAY
                        THEN 2 * PaceOf(n) ELSE RECONNECT_MAX_DELAY
      BY <3>2
    <3>. QED
      BY <2>2, <3>3, <3>4, PaceDoubles
  <2>. QED
    BY <2>1, <2>2
<1>. QED
  BY <1>4, <1>5 DEF DelayInv

\* Every other step of a worker moves it to another phase at most, and leaves
\* its pace alone or resets it together with the count of its failures.
LEMMA WorkerTypes ==
  ASSUME DiscoveryTypeOK, DelayInv, NEW w \in Workers, WorkerNext(w)
  PROVE  DiscoveryTypeOK' /\ DelayInv'
<1>. USE DEF DiscoveryTypeOK, serverVars
<1>1. CASE SendRequest(w)
  BY <1>1 DEF SendRequest, Phases, DelayInv
<1>2. CASE SendRaises(w)
  BY <1>2 DEF SendRaises, Phases, DelayInv
<1>3. CASE ReceiveReply(w)
  BY <1>3, ReplyTypes
<1>4. CASE Timeout(w)
  BY <1>4 DEF Timeout, CloseSocket, Phases, DelayInv
<1>5. CASE ConnectSucceeds(w)
  <2>. USE <1>5 DEF ConnectSucceeds, Accepted, RECONNECT_BASE_DELAY
  <2>1. DiscoveryTypeOK'
    BY DEF Phases, RECONNECT_MAX_DELAY
  <2>2. DelayInv'
    BY PaceValues DEF DelayInv
  <2>. QED
    BY <2>1, <2>2
<1>6. CASE ConnectFails(w)
  BY <1>6 DEF ConnectFails, Phases, DelayInv
<1>7. CASE SessionEnds(w)
  BY <1>7 DEF SessionEnds, Phases, DelayInv
<1>8. CASE Wake(w)
  BY <1>8, WakeTypes
<1>. QED
  BY <1>1, <1>2, <1>3, <1>4, <1>5, <1>6, <1>7, <1>8 DEF WorkerNext

\* The coordinator and the network never touch a worker's loops.
LEMMA OthersTypes ==
  ASSUME DiscoveryTypeOK, DelayInv,
         \/ \E h \in Hosts : CoordinatorStart(h)
         \/ Bind \/ Stop \/ StopSeen \/ CoordinatorExit
         \/ \E w \in Workers : Answer(w) \/ AnswerFails(w) \/ LoseDatagram(w) \/ Stray(w)
  PROVE  DiscoveryTypeOK' /\ DelayInv'
<1>. USE DEF DiscoveryTypeOK, DelayInv
<1>1. ASSUME NEW h \in Hosts, CoordinatorStart(h) PROVE DiscoveryTypeOK' /\ DelayInv'
  BY <1>1 DEF CoordinatorStart
<1>2. CASE Bind
  BY <1>2 DEF Bind
<1>3. CASE Stop
  BY <1>3 DEF Stop
<1>4. CASE StopSeen
  BY <1>4 DEF StopSeen
<1>5. CASE CoordinatorExit
  BY <1>5 DEF CoordinatorExit
<1>6. ASSUME NEW w \in Workers, Answer(w) PROVE DiscoveryTypeOK' /\ DelayInv'
  BY <1>6 DEF Answer, Receive, ReceiveLate
<1>7. ASSUME NEW w \in Workers, AnswerFails(w) PROVE DiscoveryTypeOK' /\ DelayInv'
  BY <1>7 DEF AnswerFails, Receive, ReceiveLate
<1>8. ASSUME NEW w \in Workers, LoseDatagram(w) PROVE DiscoveryTypeOK' /\ DelayInv'
  BY <1>8 DEF LoseDatagram, serverVars
<1>9. ASSUME NEW w \in Workers, Stray(w) PROVE DiscoveryTypeOK' /\ DelayInv'
  BY <1>9 DEF Stray, serverVars
<1>. QED
  BY <1>1, <1>2, <1>3, <1>4, <1>5, <1>6, <1>7, <1>8, <1>9

-----------------------------------------------------------------------------

LEMMA DelayInvariance == DiscoverySpec => [](DiscoveryTypeOK /\ DelayInv)
<1>1. DiscoveryInit => DiscoveryTypeOK /\ DelayInv
  BY PaceValues DEF DiscoveryInit, DiscoveryTypeOK, DelayInv, Phases,
                    RECONNECT_BASE_DELAY, RECONNECT_MAX_DELAY
<1>2. DiscoveryTypeOK /\ DelayInv /\ [DiscoveryNext]_discoveryVars
        => DiscoveryTypeOK' /\ DelayInv'
  <2>. SUFFICES ASSUME DiscoveryTypeOK, DelayInv, [DiscoveryNext]_discoveryVars
                PROVE  DiscoveryTypeOK' /\ DelayInv'
    OBVIOUS
  <2>1. CASE UNCHANGED discoveryVars
    BY <2>1 DEF discoveryVars, DiscoveryTypeOK, DelayInv
  <2>2. CASE DiscoveryNext
    BY <2>2, WorkerTypes, OthersTypes DEF DiscoveryNext
  <2>. QED
    BY <2>1, <2>2
<1>. QED
  BY <1>1, <1>2, PTL DEF DiscoverySpec

\* The types: in particular no delay is below the base or above the ceiling,
\* however the resolving loop and run's own loop hand over to each other.
THEOREM DiscoveryTypes == DiscoverySpec => []DiscoveryTypeOK
BY DelayInvariance, PTL

\* A worker always sleeps for the base delay doubled once per failure since
\* its loop was last reset, up to RECONNECT_MAX_DELAY: every reset of the
\* delay is a reset of the count, and every sleep that ends is one failure.
THEOREM BackoffIsExact == DiscoverySpec => []BackoffFollowsFailures
<1>1. DelayInv => BackoffFollowsFailures
  BY DEF DelayInv, BackoffFollowsFailures, PaceOf
<1>. QED
  BY <1>1, DelayInvariance, PTL
=============================================================================
