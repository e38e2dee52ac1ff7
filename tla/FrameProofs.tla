----------------------------- MODULE FrameProofs -----------------------------
(***************************************************************************)
(* Proofs, for every set of workers, jobs, requests and every bound, that  *)
(* an acknowledgement is the first frame a worker can read and that no     *)
(* registered worker stays busy without a cause.                           *)
(***************************************************************************)
EXTENDS FrameInv, ClusterProofs, SequenceTheorems

-----------------------------------------------------------------------------
(* Queues of frames.                                                       *)

LEMMA FrameAppended ==
  ASSUME NEW S, NEW q \in Seq(S), NEW f \in S
  PROVE  /\ Append(q, f) # << >>
         /\ q # << >> => Head(Append(q, f)) = Head(q)
         /\ \A i \in DOMAIN q : i \in DOMAIN Append(q, f) /\ Append(q, f)[i] = q[i]
         /\ \E i \in DOMAIN Append(q, f) : Append(q, f)[i] = f
<1>1. /\ Len(q) \in Nat
      /\ DOMAIN q = 1 .. Len(q)
      /\ DOMAIN Append(q, f) = 1 .. Len(q) + 1
      /\ \A i \in 1 .. Len(q) : Append(q, f)[i] = q[i]
      /\ Append(q, f)[Len(q) + 1] = f
  BY AppendProperties, LenProperties
<1>2. Append(q, f) # << >>
  BY AppendProperties
<1>3. q # << >> => Head(Append(q, f)) = Head(q)
  BY SMT
<1> QED
  BY <1>1, <1>2, <1>3

LEMMA FrameConsumed ==
  ASSUME NEW S, NEW q \in Seq(S), q # << >>
  PROVE  \A i \in DOMAIN q :
           \/ q[i] = Head(q)
           \/ i - 1 \in DOMAIN Tail(q) /\ Tail(q)[i - 1] = q[i]
<1>1. /\ Len(q) \in Nat /\ Len(q) > 0
      /\ DOMAIN q = 1 .. Len(q)
      /\ Len(Tail(q)) = Len(q) - 1
      /\ DOMAIN Tail(q) = 1 .. Len(q) - 1
      /\ \A i \in 1 .. Len(Tail(q)) : Tail(q)[i] = q[i + 1]
      /\ Head(q) = q[1]
  BY HeadTailProperties, LenProperties, EmptySeq
<1> QED
  BY <1>1

LEMMA PrefixHead ==
  ASSUME NEW S, NEW q \in Seq(S), NEW i \in 0 .. Len(q)
  PROVE  /\ q = << >> => SubSeq(q, 1, i) = << >>
         /\ SubSeq(q, 1, i) # << >>
              => q # << >> /\ Head(SubSeq(q, 1, i)) = Head(q)
<1>1. Len(q) \in Nat /\ (q = << >> <=> Len(q) = 0)
  BY EmptySeq, LenProperties
<1>2. /\ SubSeq(q, 1, i) \in Seq(S)
      /\ Len(SubSeq(q, 1, i)) = i
      /\ \A j \in 1 .. i : SubSeq(q, 1, i)[j] = q[j]
  BY <1>1, SMT
<1>3. SubSeq(q, 1, i) = << >> <=> i = 0
  BY <1>2, EmptySeq
<1>4. SubSeq(q, 1, i) # << >> => Head(SubSeq(q, 1, i)) = Head(q)
  BY <1>1, <1>2, <1>3, HeadTailProperties
<1> QED
  BY <1>1, <1>3, <1>4

-----------------------------------------------------------------------------
(* What a turn of dispatchPending does to frames and registrations.        *)

\* Turns start on a registry N that keeps no registration but those there
\* are; a node busy in N is busy already, the step that leads to the turn
\* read no frame from it, and it is not the rolled back node whose handler
\* is not serving.
Benign(h, N) ==
  \A n \in Registered(N) :
    LET c == N[n].websocket
    IN  /\ n \in Registered(nodes) /\ c = nodes[n].websocket
        /\ N[n].isBusy =>
             /\ nodes[n].isBusy
             /\ toCoord'[c] = toCoord[c]
             /\ pc[h] \in Sending /\ job[h].node = n /\ job[h].websocket = c
                  => pc[c] \notin {"ack", "done"}

\* A coroutine that ends a connection leaves no registration behind, at
\* least while no task is malformed.
Leaves(h, N) ==
  \A n \in Registered(N) : N[n].websocket = h =>
    pc'[h] # "finally" /\ (AllWellFormed' => pc'[h] # "done")

\* Coroutine h has marked node n busy and is sending it a task.
Marks(h, n, c) ==
  /\ pc[h] \in Sending /\ job[h].node = n /\ job[h].websocket = c
  /\ link[c] = "open" =>
       \E i \in DOMAIN toWorker[c] : toWorker[c][i].type = "TASK_ASSIGN"

LEMMA TurnEffect ==
  ASSUME BasicInv, NEW h \in Coroutines, NEW T \in Tables,
         NEW N \in Registries, Turn(h, T, N), Benign(h, N)
  PROVE  /\ \A d \in Conns :
              \/ toWorker'[d] = toWorker[d]
              \/ /\ link[d] = "open"
                 /\ \E n \in Registered(N) : /\ N[n].websocket = d
                                            /\ ~ N[n].isBusy /\ nodes'[n].isBusy
                 /\ \E f \in WorkerFrames : toWorker'[d] = Append(toWorker[d], f)
         /\ \A m \in Registered(nodes)' :
              /\ m \in Registered(N)
              /\ nodes'[m].websocket = N[m].websocket
              /\ N[m].isBusy => nodes'[m].isBusy
              /\ nodes'[m].isBusy => N[m].isBusy \/ Marks(h, m, N[m].websocket)'
         /\ \A d \in Conns : link'[d] = "open" => link[d] = "open"
<1>1. PICK at \in Locations :
        /\ Moves(h, at)
        /\ \/ at \in Sending /\ AssignTask(h, T, N, at) /\ UNCHANGED link
           \/ /\ EndDispatch(h, T, N, at)
              /\ IF at = "done" THEN link' = [link EXCEPT ![h] = "closed"]
                                ELSE UNCHANGED link
  BY DEF Turn
<1>2. \A d \in Conns : link'[d] = "open" => link[d] = "open"
  BY <1>1 DEF BasicInv, TypeOK, NetTypeOK
<1>3. CASE at \in Sending /\ AssignTask(h, T, N, at) /\ UNCHANGED link
  <2>1. PICK t \in TaskIds, n \in Workers :
          /\ CanAssign(T, N, t, n)
          /\ nodes' = SetNodeBusy(N, n, TRUE)
          /\ toWorker' = Delivering(N[n].websocket, AssignFrame(t))
          /\ job' = [job EXCEPT ![h] = [task |-> t, node |-> n,
                                        websocket |-> N[n].websocket]]
    BY <1>3 DEF AssignTask
  <2>2. n \in Registered(N) /\ ~ N[n].isBusy
    BY <2>1
    DEF CanAssign, SelectWorker, Candidates, Eligible, GetAvailableWorkers
  <2> DEFINE c == N[n].websocket
  <2>3. c \in Conns /\ n \in Registered(nodes) /\ nodes[n].websocket = c
    BY <2>2, RegistryTypes DEF Benign, Registered
  <2>4. toWorker \in [Conns -> Seq(WorkerFrames)] /\ AssignFrame(t) \in WorkerFrames
    BY FrameTypes DEF BasicInv, TypeOK, NetTypeOK
  <2>5. /\ \A d \in Conns \ {c} : toWorker'[d] = toWorker[d]
        /\ link[c] = "open" => toWorker'[c] = Append(toWorker[c], AssignFrame(t))
        /\ link[c] # "open" => toWorker'[c] = toWorker[c]
    BY <2>1, <2>3, <2>4 DEF Delivering
  <2>6. Marks(h, n, c)'
    <3>1. pc'[h] \in Sending /\ job'[h].node = n /\ job'[h].websocket = c
      BY <1>1, <1>3, <2>1 DEF Moves, BasicInv, TypeOK, CoordTypeOK
    <3>2. ASSUME link[c] = "open"
          PROVE  \E i \in DOMAIN toWorker'[c] : toWorker'[c][i].type = "TASK_ASSIGN"
      <4>1. toWorker[c] \in Seq(WorkerFrames)
        BY <2>3, <2>4
      <4>2. \E i \in DOMAIN toWorker'[c] : toWorker'[c][i] = AssignFrame(t)
        BY <2>4, <2>5, <3>2, <4>1, FrameAppended
      <4> QED
        BY <4>2 DEF AssignFrame
    <3> QED
      BY <1>3, <3>1, <3>2 DEF Marks
  <2>7. \A m \in Registered(nodes)' :
          /\ m \in Registered(N)
          /\ nodes'[m].websocket = N[m].websocket
          /\ m # n => nodes'[m] = N[m]
    BY <2>1, <2>2 DEF SetNodeBusy, Registered, Registries, WorkerNode
  <2>8. nodes'[n].isBusy
    BY <2>1, <2>2 DEF SetNodeBusy, Registries, WorkerNode
  <2> QED
    BY <1>2, <2>2, <2>3, <2>4, <2>5, <2>6, <2>7, <2>8
<1>4. CASE EndDispatch(h, T, N, at)
  BY <1>2, <1>4 DEF EndDispatch, Registered
<1> QED
  BY <1>1, <1>3, <1>4

\* A result stays owed while frames are only added to its connection.
LEMMA OwesKept ==
  ASSUME TypeOK, NEW c \in Conns, Owes(c), toCoord'[c] = toCoord[c],
         \/ toWorker'[c] = toWorker[c]
         \/ \E f \in WorkerFrames : toWorker'[c] = Append(toWorker[c], f),
         UNCHANGED workerVars
  PROVE  Owes(c)'
<1>1. toWorker[c] \in Seq(WorkerFrames)
  BY DEF TypeOK, NetTypeOK
<1>2. \A i \in DOMAIN toWorker[c] :
        i \in DOMAIN toWorker'[c] /\ toWorker'[c][i] = toWorker[c][i]
  BY <1>1, FrameAppended
<1> QED
  BY <1>2 DEF Owes, workerVars, Socket

LEMMA TurnFrames ==
  ASSUME BasicInv, FInv, NEW h \in Coroutines, NEW T \in Tables,
         NEW N \in Registries, Turn(h, T, N), Benign(h, N), Leaves(h, N),
         AllWellFormed' => AllWellFormed, UNCHANGED workerVars
  PROVE  FInv'
<1> USE DEF BasicInv
<1>1. \A d \in Conns :
        \/ toWorker'[d] = toWorker[d]
        \/ /\ link[d] = "open"
           /\ \E n \in Registered(nodes) : nodes[n].websocket = d
           /\ \E f \in WorkerFrames : toWorker'[d] = Append(toWorker[d], f)
  BY TurnEffect DEF Benign
<1>2. \A m \in Registered(nodes)' :
        /\ m \in Registered(N)
        /\ nodes'[m].websocket = N[m].websocket
        /\ nodes'[m].isBusy => N[m].isBusy \/ Marks(h, m, N[m].websocket)'
  BY TurnEffect
<1>3. \A d \in Conns : link'[d] = "open" => link[d] = "open"
  BY TurnEffect
<1>4. \A m \in Registered(nodes)' :
        /\ m \in Registered(nodes)
        /\ nodes'[m].websocket = nodes[m].websocket
        /\ nodes[m].websocket \in Conns
        /\ Owner(nodes[m].websocket) = m
        /\ pc[nodes[m].websocket] # "idle"
  BY <1>2 DEF Benign, RegistryInv, Served
<1>5. UNCHANGED <<session, phase, executing>>
  BY DEF workerVars
<1>6. \A g \in Coroutines \ {h} : pc'[g] = pc[g] /\ job'[g] = job[g]
  BY TurnMoves
<1>7. OpenInv'
  <2>1. ASSUME NEW d \in Conns, pc'[d] = "idle"
        PROVE  toWorker'[d] = << >>
    <3>1. pc[d] = "idle"
      <4>1. PICK at \in Locations : Moves(h, at)
        BY DEF Turn
      <4> QED
        BY <2>1, <4>1, ConnFacts DEF Moves, TypeOK, CoordTypeOK
    <3>2. \A n \in Registered(nodes) : nodes[n].websocket # d
      BY <3>1 DEF RegistryInv, Served
    <3> QED
      BY <1>1, <3>1, <3>2 DEF FInv, OpenInv
  <2> QED
    BY <1>3, <1>5, <2>1 DEF FInv, OpenInv, Socket
<1>8. TaskInv'
  BY <1>5 DEF FInv, TaskInv
<1>9. AckInv'
  <2> SUFFICES ASSUME NEW w \in Workers, phase[w] = "register"
               PROVE  LET c == Socket(w)
                      IN  /\ toWorker'[c] # << >> => Head(toWorker'[c]) = AckFrame
                          /\ link'[c] = "open" /\ toWorker'[c] = << >>
                               => \A n \in Registered(nodes)' : nodes'[n].websocket # c
    BY <1>5 DEF AckInv, Socket
  <2>1. PICK c \in Conns : c = Socket(w)
    BY SocketFacts DEF TypeOK, WorkerTypeOK, WorkerInv, Socket
  <2>2. /\ toWorker[c] # << >> => Head(toWorker[c]) = AckFrame
        /\ link[c] = "open" /\ toWorker[c] = << >>
             => \A n \in Registered(nodes) : nodes[n].websocket # c
    BY <2>1 DEF FInv, AckInv
  <2>3. toWorker[c] \in Seq(WorkerFrames)
    BY DEF TypeOK, NetTypeOK
  <2>4. CASE toWorker'[c] = toWorker[c]
    BY <1>3, <1>4, <2>1, <2>2, <2>4
  <2>5. CASE /\ link[c] = "open"
             /\ \E n \in Registered(nodes) : nodes[n].websocket = c
             /\ \E f \in WorkerFrames : toWorker'[c] = Append(toWorker[c], f)
    <3>1. toWorker[c] # << >>
      BY <2>2, <2>5
    <3>2. toWorker'[c] # << >> /\ Head(toWorker'[c]) = Head(toWorker[c])
      BY <2>3, <2>5, <3>1, FrameAppended
    <3> QED
      BY <2>1, <2>2, <3>1, <3>2
  <2> QED
    BY <1>1, <2>4, <2>5
<1>10. BusyOwes'
  <2> SUFFICES ASSUME NEW m \in Registered(nodes)', nodes'[m].isBusy,
                      NEW c, c = nodes'[m].websocket, link'[c] = "open"
               PROVE  Owes(c)'
    BY DEF BusyOwes
  <2>1. c \in Conns /\ c = N[m].websocket /\ m \in Registered(N)
    BY <1>2, <1>4
  <2>2. CASE N[m].isBusy
    <3>1. Owes(c) /\ toCoord'[c] = toCoord[c]
      BY <1>3, <2>1, <2>2 DEF Benign, FInv, BusyOwes
    <3> QED
      BY <1>1, <2>1, <3>1, OwesKept
  <2>3. CASE Marks(h, m, c)'
    BY <2>3 DEF Marks, Owes
  <2> QED
    BY <1>2, <2>1, <2>2, <2>3
<1>11. BusyUnacked'
  <2> SUFFICES ASSUME NEW m \in Registered(nodes)', NEW c, c = nodes'[m].websocket
               PROVE  /\ pc'[c] # "finally"
                      /\ AllWellFormed' /\ nodes'[m].isBusy /\ pc'[c] \in {"ack", "done"}
                           => \E g \in Coroutines :
                                pc'[g] \in Sending /\ job'[g].node = m
                                                   /\ job'[g].websocket = c
    BY DEF BusyUnacked
  <2>1. /\ c \in Coroutines /\ c \in Conns /\ c = N[m].websocket
        /\ m \in Registered(N)
        /\ m \in Registered(nodes) /\ c = nodes[m].websocket
    BY <1>2, <1>4, ConnFacts
  <2>2. pc'[c] # "finally"
    <3>1. CASE c = h
      BY <2>1, <3>1 DEF Leaves
    <3>2. CASE c # h
      BY <1>6, <2>1, <3>2 DEF FInv, BusyUnacked
    <3> QED
      BY <3>1, <3>2
  <2>3. ASSUME AllWellFormed', nodes'[m].isBusy, pc'[c] \in {"ack", "done"}
        PROVE  \E g \in Coroutines :
                 pc'[g] \in Sending /\ job'[g].node = m /\ job'[g].websocket = c
    <3>1. c # h
      <4>1. \E at \in Locations \ {"ack"} : pc' = [pc EXCEPT ![h] = at]
        BY DEF Turn, Moves, Sending
      <4> QED
        BY <2>1, <2>3, <4>1 DEF Leaves, TypeOK, CoordTypeOK
    <3>2. pc'[c] = pc[c]
      BY <1>6, <2>1, <3>1
    <3>3. CASE N[m].isBusy
      <4>1. /\ nodes[m].isBusy
            /\ pc[h] \in Sending /\ job[h].node = m /\ job[h].websocket = c
                 => pc[c] \notin {"ack", "done"}
        BY <2>1, <3>3 DEF Benign
      <4>2. PICK g \in Coroutines :
              pc[g] \in Sending /\ job[g].node = m /\ job[g].websocket = c
        BY <2>1, <2>3, <3>2, <4>1 DEF FInv, BusyUnacked
      <4>3. g # h
        BY <2>3, <3>2, <4>1, <4>2
      <4> QED
        BY <1>6, <4>2, <4>3
    <3>4. CASE Marks(h, m, c)'
      BY <3>4 DEF Marks
    <3> QED
      BY <1>2, <2>1, <2>3, <3>3, <3>4
  <2> QED
    BY <2>2, <2>3
<1> QED
  BY <1>7, <1>8, <1>9, <1>10, <1>11 DEF FInv

-----------------------------------------------------------------------------
(* Single sessions: what a turn does to what is owed.                      *)

LEMMA TypesAppended ==
  ASSUME NEW S, NEW q \in Seq(S), NEW f \in S, NEW type
  PROVE  OfType(Append(q, f), type)
           = OfType(q, type) \cup {i \in {Len(q) + 1} : f.type = type}
<1>1. /\ Len(q) \in Nat
      /\ DOMAIN q = 1 .. Len(q)
      /\ DOMAIN Append(q, f) = 1 .. Len(q) + 1
      /\ \A i \in 1 .. Len(q) : Append(q, f)[i] = q[i]
      /\ Append(q, f)[Len(q) + 1] = f
  BY AppendProperties, LenProperties
<1>2. \A i \in 1 .. Len(q) + 1 : i \in 1 .. Len(q) \/ i = Len(q) + 1
  BY <1>1
<1> QED
  BY <1>1, <1>2 DEF OfType

LEMMA TypesConsumed ==
  ASSUME NEW S, NEW q \in Seq(S), q # << >>, NEW type
  PROVE  /\ \A i \in OfType(Tail(q), type) : i + 1 \in OfType(q, type)
         /\ OfType(Tail(q), type) \subseteq Nat \ {0}
         /\ Head(q).type # type /\ OfType(q, type) # {} => OfType(Tail(q), type) # {}
         /\ Head(q).type = type => 1 \in OfType(q, type)
<1>1. /\ Len(q) \in Nat /\ Len(q) > 0
      /\ DOMAIN q = 1 .. Len(q)
      /\ DOMAIN Tail(q) = 1 .. Len(q) - 1
      /\ \A i \in 1 .. Len(q) - 1 : Tail(q)[i] = q[i + 1]
      /\ Head(q) = q[1]
  BY HeadTailProperties, LenProperties, EmptySeq
<1>2. \A i \in 1 .. Len(q) - 1 : i + 1 \in 1 .. Len(q) /\ i \in Nat \ {0}
  BY <1>1
<1>3. \A i \in 1 .. Len(q) : i = 1 \/ (i - 1 \in 1 .. Len(q) - 1 /\ (i - 1) + 1 = i)
  BY <1>1
<1>4. \A i \in OfType(Tail(q), type) : i + 1 \in OfType(q, type) /\ i \in Nat \ {0}
  BY <1>1, <1>2 DEF OfType
<1>5. ASSUME Head(q).type # type, NEW i \in OfType(q, type)
      PROVE  i - 1 \in OfType(Tail(q), type)
  <2>1. i \in 1 .. Len(q) /\ q[i].type = type /\ i # 1
    BY <1>1, <1>5 DEF OfType
  <2>2. i - 1 \in 1 .. Len(q) - 1 /\ Tail(q)[i - 1] = q[i]
    BY <1>1, <1>3, <2>1
  <2> QED
    BY <1>1, <2>1, <2>2 DEF OfType
<1>6. Head(q).type = type => 1 \in OfType(q, type)
  BY <1>1 DEF OfType
<1> QED
  BY <1>4, <1>5, <1>6

\* What the lemmas below say of a queue of which the first frame is read.
LEMMA SetsConsumed ==
  ASSUME NEW S, NEW q \in Seq(S), q # << >>, NEW type
  PROVE  LET before == OfType(q, type)
             after  == OfType(Tail(q), type)
         IN  /\ before = {} => after = {}
             /\ before \subseteq {1} => after = {}
             /\ (\A i, j \in before : i = j) => \A i, j \in after : i = j
             /\ (\A i, j \in before : i = j) /\ Head(q).type = type => after = {}
             /\ Head(q).type # type => (after = {} <=> before = {})
<1> DEFINE before == OfType(q, type)
           after  == OfType(Tail(q), type)
<1>1. /\ \A i \in after : i + 1 \in before
      /\ \A i \in after : i \in Nat /\ i # 0
      /\ Head(q).type # type /\ before # {} => after # {}
      /\ Head(q).type = type => 1 \in before
  BY TypesConsumed
<1> HIDE DEF before, after
<1>2. before \subseteq {1} => after = {}
  BY <1>1
<1>3. (\A i, j \in before : i = j) => \A i, j \in after : i = j
  BY <1>1
<1>4. (\A i, j \in before : i = j) /\ Head(q).type = type => after = {}
  BY <1>1
<1> QED
  BY <1>1, <1>2, <1>3, <1>4 DEF before, after

\* On an open connection, what is owed is one of three things.
LEMMA OwesParts ==
  ASSUME NEW c, c = Socket(Owner(c))
  PROVE  Owes(c) <=> Assigns(c) # {} \/ executing[Owner(c)] # None \/ Results(c) # {}
BY DEF Owes, Assigns, Results, OfType

\* In its first session a worker has no other connection that is served.
LEMMA OneConnection ==
  ASSUME TypeOK, SessionInv, NEW c \in Conns, NEW d \in Conns, Owner(c) = Owner(d),
         session[Owner(c)] = 1, pc[c] # "idle", pc[d] # "idle"
  PROVE  c = d
<1>1. \A e \in Conns :
        pc[e] # "idle" /\ session[Owner(e)] = 1 => e = <<Owner(e), 1>>
  <2> SUFFICES ASSUME NEW w \in Workers, NEW k \in 1 .. MaxSessions[w],
                      NEW e, e = <<w, k>>, pc[e] # "idle", session[Owner(e)] = 1
               PROVE  e = <<Owner(e), 1>>
    BY DEF Conns
  <2>1. MaxSessions[w] \in Nat /\ Owner(e) = w
    BY BoundsAssumption DEF Owner
  <2>2. k <= 1
    BY <2>1 DEF SessionInv
  <2>3. k = 1
    BY <2>1, <2>2
  <2> QED
    BY <2>1, <2>3
<1> QED
  BY <1>1

\* A node that is not busy when a turn starts owes nothing any more.
Frees(N) ==
  \A n \in Registered(N) :
    LET c == N[n].websocket
    IN  ~ N[n].isBusy /\ link[c] = "open" /\ session[Owner(c)] = 1 =>
          /\ Assigns(c) = {} /\ executing[Owner(c)] = None
          /\ OfType(toCoord'[c], "TASK_RESULT") = {}

\* The step reads at most one frame of each connection.
ReadsFirst ==
  \A c \in Conns :
    \/ toCoord'[c] = toCoord[c]
    \/ toCoord[c] # << >> /\ toCoord'[c] = Tail(toCoord[c])

LEMMA TurnIdle ==
  ASSUME BasicInv, FInv, FirstInv, NEW h \in Coroutines, NEW T \in Tables,
         NEW N \in Registries, Turn(h, T, N), Benign(h, N), Frees(N),
         ReadsFirst, UNCHANGED workerVars
  PROVE  FirstInv'
<1> SUFFICES ASSUME NEW d \in Conns, link'[d] = "open", session[Owner(d)] = 1
             PROVE  IdleAt(d)'
  BY DEF FirstInv, workerVars
<1>1. /\ \/ toWorker'[d] = toWorker[d]
         \/ /\ \E n \in Registered(N) : /\ N[n].websocket = d
                                        /\ ~ N[n].isBusy /\ nodes'[n].isBusy
            /\ \E f \in WorkerFrames : toWorker'[d] = Append(toWorker[d], f)
      /\ \A m \in Registered(nodes)' :
           /\ m \in Registered(N)
           /\ nodes'[m].websocket = N[m].websocket
           /\ N[m].isBusy => nodes'[m].isBusy
      /\ link[d] = "open"
  BY TurnEffect
<1>2. \A m \in Registered(N) :
        /\ m \in Registered(nodes) /\ nodes[m].websocket = N[m].websocket
        /\ Owner(N[m].websocket) = m
  BY DEF Benign, BasicInv, RegistryInv, Served
<1>3. /\ executing'[Owner(d)] = executing[Owner(d)]
      /\ d = Socket(Owner(d)) /\ d = Socket(Owner(d))'
  BY <1>1 DEF FInv, OpenInv, workerVars, Socket
<1>4. toWorker[d] \in Seq(WorkerFrames) /\ toCoord[d] \in Seq(CoordFrames)
  BY DEF BasicInv, TypeOK, NetTypeOK
<1>5. IdleAt(d)
  BY <1>1 DEF FirstInv
<1>6. /\ Results(d) = {} => Results(d)' = {}
      /\ (\A i, j \in Results(d) : i = j) => \A i, j \in Results(d)' : i = j
      /\ Registrations(d)' # {} => /\ toCoord'[d] = toCoord[d]
                                   /\ Registrations(d)' = Registrations(d)
  <2>1. CASE toCoord'[d] = toCoord[d]
    BY <2>1 DEF Results, Registrations
  <2>2. CASE toCoord[d] # << >> /\ toCoord'[d] = Tail(toCoord[d])
    <3>1. Registrations(d)' = {}
      BY <1>4, <1>5, <2>2, SetsConsumed DEF Registrations, IdleAt
    <3>2. /\ Results(d) = {} => Results(d)' = {}
          /\ (\A i, j \in Results(d) : i = j) => \A i, j \in Results(d)' : i = j
      <4>1. PICK q \in Seq(CoordFrames) : q = toCoord[d]
        BY <1>4
      <4>2. Results(d) = OfType(q, "TASK_RESULT") /\ q # << >>
            /\ Results(d)' = OfType(Tail(q), "TASK_RESULT")
        BY <2>2, <4>1 DEF Results
      <4> QED
        BY <4>2, SetsConsumed
    <3> QED
      BY <3>1, <3>2
  <2> QED
    BY <2>1, <2>2 DEF ReadsFirst
<1>7. Owes(d)' <=> Assigns(d)' # {} \/ executing'[Owner(d)] # None \/ Results(d)' # {}
  BY <1>3 DEF Owes, Assigns, Results, OfType
<1>8. Owes(d) <=> Assigns(d) # {} \/ executing[Owner(d)] # None \/ Results(d) # {}
  BY <1>3, OwesParts
<1>9. \A n \in Workers : RegisteredOn(n, d)' => RegisteredOn(n, d) /\ n \in Registered(N)
                                                 /\ N[n].websocket = d
  BY <1>1, <1>2 DEF RegisteredOn
<1>10. CASE toWorker'[d] = toWorker[d]
  <2>1. Assigns(d)' = Assigns(d)
    BY <1>10 DEF Assigns
  <2>2. OwesOnce(d)'
    BY <1>3, <1>5, <1>6, <2>1 DEF IdleAt, OwesOnce
  <2>3. ASSUME NEW n \in Workers, RegisteredOn(n, d)', Owes(d)'
        PROVE  nodes'[n].isBusy
    <3>1. N[n].isBusy
      BY <1>1, <1>3, <1>7, <1>9, <2>1, <2>3 DEF Frees, Results
    <3> QED
      BY <1>1, <2>3, <3>1 DEF RegisteredOn
  <2>4. Registrations(d)' # {} => ~ Owes(d)'
    BY <1>3, <1>5, <1>6, <1>7, <1>8, <2>1 DEF IdleAt, Results
  <2> QED
    BY <1>5, <1>6, <1>9, <2>2, <2>3, <2>4 DEF IdleAt
<1>11. ASSUME NEW n \in Registered(N), N[n].websocket = d, ~ N[n].isBusy,
              nodes'[n].isBusy,
              NEW f \in WorkerFrames, toWorker'[d] = Append(toWorker[d], f)
       PROVE  IdleAt(d)'
  <2>1. Assigns(d) = {} /\ executing[Owner(d)] = None /\ Results(d)' = {}
    BY <1>1, <1>11 DEF Frees, Results
  <2>2. Assigns(d)' \subseteq {Len(toWorker[d]) + 1}
    BY <1>4, <1>11, <2>1, TypesAppended DEF Assigns
  <2>3. OwesOnce(d)'
    BY <1>3, <2>1, <2>2 DEF OwesOnce
  <2>4. \A m \in Workers : RegisteredOn(m, d)' => m = n
    BY <1>2, <1>9, <1>11
  <2>5. Registrations(d) = {}
    BY <1>2, <1>5, <1>11 DEF IdleAt, RegisteredOn, Registered
  <2> QED
    BY <1>6, <1>11, <2>3, <2>4, <2>5 DEF IdleAt
<1> QED
  BY <1>1, <1>10, <1>11

\* A step of coroutine h that is such a turn.
StepTurn(h) ==
  \E T \in Tables, N \in Registries :
    /\ Turn(h, T, N) /\ Benign(h, N) /\ Leaves(h, N)
    /\ SessionInv /\ FirstInv => Frees(N)
    /\ AllWellFormed' => AllWellFormed

LEMMA StepTurnKeeps ==
  ASSUME BasicInv, FInv, NEW h \in Coroutines, StepTurn(h), ReadsFirst,
         UNCHANGED workerVars
  PROVE  FInv' /\ (SessionInv /\ FirstInv => FirstInv')
BY TurnFrames, TurnIdle DEF StepTurn

-----------------------------------------------------------------------------
(* The pieces of dispatch code.                                            *)

LEMMA BenignCleanedUp ==
  ASSUME BasicInv, NEW c \in Conns, NEW N \in Registries, Benign(c, N)
  PROVE  LET M == Unregister(N, Owner(c))
         IN  /\ Benign(c, M) /\ (Frees(N) => Frees(M))
             /\ \A n \in Registered(M) : M[n].websocket # c
<1> DEFINE M == Unregister(N, Owner(c))
<1>1. Owner(c) \in Workers
  BY ConnFacts
<1>2. \A n \in Registered(M) : n \in Registered(N) /\ n # Owner(c) /\ M[n] = N[n]
  BY <1>1 DEF Unregister, Registered, NoNode, Registries
<1>3. Benign(c, M) /\ (Frees(N) => Frees(M))
  BY <1>2 DEF Benign, Frees
<1>4. \A n \in Registered(M) : M[n].websocket # c
  BY <1>2 DEF Benign, BasicInv, RegistryInv, Served
<1> QED
  BY <1>3, <1>4

LEMMA FinallyStep ==
  ASSUME BasicInv, FInv, NEW c \in Conns, NEW T \in Tables,
         NEW N \in Registries, Finally(c, T, N), pc[c] # "done",
         Benign(c, N), SessionInv /\ FirstInv => Frees(N),
         WellFormed(T) => AllWellFormed,
         nodeId[c] = None => ~ CanDispatch(T, N) /\ ~ WellFormed(T)
  PROVE  StepTurn(c)
<1>1. TypeOK /\ HandlerInv /\ c \in Coroutines
  BY ConnFacts DEF BasicInv
<1>2. CASE nodeId[c] = None
  <2>1. /\ EndDispatch(c, T, N, "done")
        /\ link' = [link EXCEPT ![c] = "closed"]
        /\ UNCHANGED nodeId
    BY <1>2 DEF Finally
  <2>2. Moves(c, "done")
    BY <2>1, ConnFacts DEF Moves, EndDispatch, Locations, Sending
  <2>3. Turn(c, T, N)
    BY <1>2, <2>1, <2>2 DEF Turn, Locations, Sending
  <2>4. ~ AllWellFormed'
    BY <1>2, <2>1 DEF EndDispatch, AllWellFormed, WellFormed
  <2>5. pc'[c] = "done"
    BY <1>1, <2>1 DEF EndDispatch, TypeOK, CoordTypeOK
  <2>6. Leaves(c, N)
    BY <2>4, <2>5 DEF Leaves
  <2> QED
    BY <1>1, <2>3, <2>4, <2>6 DEF StepTurn
<1>3. CASE nodeId[c] # None
  <2> DEFINE S == FailTasksAssignedTo(T, nodeId[c])
             M == Unregister(N, nodeId[c])
  <2>1. nodeId[c] \in Workers /\ nodeId[c] = Owner(c)
    BY <1>1, <1>3, ConnFacts DEF HandlerInv
  <2>2. FinallyDispatch(c, S, M)
    BY <1>3 DEF Finally
  <2>3. M \in Registries
    BY <2>1, RegistryTypes
  <2>4. S \in Tables
    BY <2>1 DEF FailTasksAssignedTo, Tables, Task, TaskStatus
  <2>5. /\ Benign(c, M) /\ Leaves(c, M)
        /\ SessionInv /\ FirstInv => Frees(M)
    BY <2>1, BenignCleanedUp DEF Leaves
  <2>6. WellFormed(S) => AllWellFormed
    BY <2>1 DEF FailTasksAssignedTo, WellFormed, Tables, Task
  <2>7. Turn(c, S, M)
    BY <2>1, <2>2, FinallyTurn
  <2> HIDE DEF S, M
  <2>8. AllWellFormed' => AllWellFormed
    BY <1>1, <2>3, <2>4, <2>6, <2>7, TurnTables
  <2> QED
    BY <1>1, <2>3, <2>4, <2>5, <2>7, <2>8 DEF StepTurn
<1> QED
  BY <1>2, <1>3

LEMMA HandlerStep ==
  ASSUME BasicInv, FInv, NEW c \in Conns, NEW T \in Tables,
         NEW N \in Registries, NEW at \in {"register", "result"},
         at = "register" => pc[c] \in {"ack", "register"},
         at = "result" => pc[c] \in {"recv", "result"},
         HandlerDispatch(c, T, N, at),
         Benign(c, N), SessionInv /\ FirstInv => Frees(N),
         WellFormed(T) => AllWellFormed
  PROVE  StepTurn(c)
<1>1. TypeOK /\ HandlerInv /\ c \in Coroutines
  BY ConnFacts DEF BasicInv
<1>2. CASE SelectionRaises(T, N)
  <2>1. ~ CanDispatch(T, N) /\ ~ WellFormed(T)
    BY <1>2, RaisesNoDispatch, RaisesMalformed
  <2>2. Finally(c, T, N)
    BY <1>2, <2>1 DEF HandlerDispatch, AssignTask, CanDispatch
  <2> QED
    BY <2>1, <2>2, FinallyStep
<1>3. CASE ~ SelectionRaises(T, N)
  <2>1. Turn(c, T, N)
    BY <1>1, <1>3, HandlerTurn
  <2>2. pc'[c] \in {"recv", "register", "result"}
    BY <1>1, <1>3
    DEF HandlerDispatch, AssignTask, EndDispatch, TypeOK, CoordTypeOK
  <2>3. Leaves(c, N)
    BY <2>2 DEF Leaves
  <2>4. AllWellFormed' => AllWellFormed
    BY <1>1, <2>1, TurnTables
  <2> QED
    BY <1>1, <2>1, <2>3, <2>4 DEF StepTurn
<1> QED
  BY <1>2, <1>3

LEMMA RequestStep ==
  ASSUME BasicInv, FInv, NEW h \in Requests, NEW T \in Tables,
         NEW N \in Registries, RequestDispatch(h, T, N),
         Benign(h, N), SessionInv /\ FirstInv => Frees(N),
         WellFormed(T) => AllWellFormed
  PROVE  StepTurn(h)
<1>1. TypeOK /\ HandlerInv /\ h \in Coroutines /\ h \notin Conns
  BY ConnFacts DEF BasicInv
<1>2. Turn(h, T, N)
  BY RequestTurn
<1>3. Leaves(h, N)
  BY <1>1, RegistryTypes DEF Leaves, Registered
<1>4. AllWellFormed' => AllWellFormed
  BY <1>1, <1>2, TurnTables
<1> QED
  BY <1>1, <1>2, <1>3, <1>4 DEF StepTurn

LEMMA ResumeStep ==
  ASSUME BasicInv, FInv, NEW h \in Coroutines, NEW T \in Tables,
         NEW N \in Registries, ResumeDispatch(h, T, N),
         Benign(h, N), SessionInv /\ FirstInv => Frees(N),
         WellFormed(T) => AllWellFormed
  PROVE  StepTurn(h)
<1>1. TypeOK /\ HandlerInv
  BY DEF BasicInv
<1>2. CASE pc[h] = "request" /\ RequestDispatch(h, T, N)
  BY <1>1, <1>2, RequestStep DEF HandlerInv, Coroutines
<1>3. CASE pc[h] \in {"register", "result"} /\ HandlerDispatch(h, T, N, pc[h])
  <2>1. h \in Conns
    BY <1>1, <1>3 DEF HandlerInv, Coroutines
  <2>2. PICK at \in {"register", "result"} : at = pc[h]
    BY <1>3
  <2> QED
    BY <1>3, <2>1, <2>2, HandlerStep
<1>4. CASE pc[h] = "finally" /\ FinallyDispatch(h, T, N)
  <2>1. h \in Conns
    BY <1>1, <1>4 DEF HandlerInv, Coroutines
  <2>2. Turn(h, T, N)
    BY <1>4, <2>1, FinallyTurn
  <2>3. Leaves(h, N)
    BY <1>4 DEF Leaves, Benign, FInv, BusyUnacked
  <2>4. AllWellFormed' => AllWellFormed
    BY <1>1, <2>2, TurnTables
  <2> QED
    BY <2>2, <2>3, <2>4 DEF StepTurn
<1> QED
  BY <1>2, <1>3, <1>4 DEF ResumeDispatch

-----------------------------------------------------------------------------
(* The steps of the coordinator.                                           *)

\* What every step of the cluster does.
KeepsFrames == FInv' /\ (SessionInv /\ FirstInv => FirstInv')

LEMMA FreesNow ==
  ASSUME BasicInv, FInv, FirstInv, UNCHANGED toCoord
  PROVE  Frees(nodes)
<1> SUFFICES ASSUME NEW n \in Registered(nodes), NEW c, c = nodes[n].websocket,
                    ~ nodes[n].isBusy, link[c] = "open", session[Owner(c)] = 1
             PROVE  Assigns(c) = {} /\ executing[Owner(c)] = None /\ Results(c) = {}
  BY DEF Frees, Results
<1>1. c \in Conns /\ RegisteredOn(n, c)
  BY DEF BasicInv, RegistryInv, Served, RegisteredOn
<1>2. ~ Owes(c) /\ c = Socket(Owner(c))
  BY <1>1 DEF FirstInv, IdleAt, FInv, OpenInv, Registered
<1> QED
  BY <1>2, OwesParts

LEMMA ResolveFInv ==
  ASSUME BasicInv, FInv, NEW h \in Coroutines, Resolve(h), UNCHANGED workerVars
  PROVE  KeepsFrames
<1>1. tasks \in Tables /\ nodes \in Registries
  BY DEF BasicInv, TypeOK, CoordTypeOK, Tables, Registries
<1>2. WellFormed(tasks) => AllWellFormed
  BY DEF WellFormed, AllWellFormed
<1>3. UNCHANGED toCoord /\ ReadsFirst
  BY DEF Resolve, SendSucceeded, SendFailed, ReadsFirst
<1>4. CASE SendSucceeded(h)
  <2>1. \A n \in Registered(nodes) :
          pc[h] \in Sending /\ job[h].websocket = nodes[n].websocket
            => pc[nodes[n].websocket] \notin {"ack", "done"}
    BY <1>1, <1>4, RegistryTypes DEF SendSucceeded, BasicInv, DoneClosed, Registered
  <2>2. Benign(h, nodes) /\ (FirstInv => Frees(nodes))
    BY <1>3, <2>1, FreesNow DEF Benign
  <2>3. StepTurn(h)
    BY <1>1, <1>2, <1>4, <2>2, ResumeStep DEF SendSucceeded
  <2> QED
    BY <1>3, <2>3, StepTurnKeeps DEF KeepsFrames
<1>5. CASE SendFailed(h)
  <2> DEFINE T == MarkTaskFailed(tasks, job[h].task)
             N == SetNodeBusy(nodes, job[h].node, FALSE)
  <2>1. /\ job[h] \in Assignment
        /\ Served(job[h].websocket, job[h].node)
        /\ link[job[h].websocket] = "closed"
        /\ ResumeDispatch(h, T, N)
    BY <1>5 DEF SendFailed, BasicInv, AssignmentInv
  <2>2. job[h].task \in TaskIds /\ job[h].node \in Workers
    BY <2>1 DEF Assignment
  <2>3. T \in Tables /\ N \in Registries
    BY <1>1, <2>2, TableTypes, RegistryTypes
  <2>4. WellFormed(T) => AllWellFormed
    BY <1>1, <1>2, <2>2, TableHistory
  <2>5. \A n \in Registered(N) :
          /\ n \in Registered(nodes) /\ N[n].websocket = nodes[n].websocket
          /\ N[n].isBusy => nodes[n].isBusy /\ n # job[h].node
          /\ n # job[h].node => N[n] = nodes[n]
    BY <1>1, <2>2 DEF SetNodeBusy, Registered, Registries, WorkerNode
  <2>6. Benign(h, N)
    BY <1>3, <2>5 DEF Benign
  <2>7. ASSUME SessionInv, FirstInv
        PROVE  Frees(N)
    <3>1. \A n \in Registered(nodes) :
            n = job[h].node /\ session[n] = 1 => link[nodes[n].websocket] = "closed"
      BY <2>1, <2>7, OneConnection DEF Served, BasicInv, RegistryInv
    <3>2. \A n \in Registered(nodes) : Owner(nodes[n].websocket) = n
      BY DEF BasicInv, RegistryInv, Served
    <3>3. Frees(nodes)
      BY <1>3, <2>7, FreesNow
    <3> HIDE DEF N
    <3>4. ASSUME NEW n \in Registered(N), ~ N[n].isBusy,
                 link[N[n].websocket] = "open",
                 session[Owner(N[n].websocket)] = 1
          PROVE  n \in Registered(nodes) /\ N[n] = nodes[n]
      BY <2>5, <3>1, <3>2, <3>4
    <3> QED
      BY <3>3, <3>4 DEF Frees
  <2> HIDE DEF T, N
  <2>8. StepTurn(h)
    BY <2>1, <2>3, <2>4, <2>6, <2>7, ResumeStep
  <2> QED
    BY <1>3, <2>8, StepTurnKeeps DEF KeepsFrames
<1> QED
  BY <1>4, <1>5 DEF Resolve

LEMMA RequestFInv ==
  ASSUME BasicInv, FInv, NEW h \in Requests, ServeRequest(h), UNCHANGED workerVars
  PROVE  KeepsFrames
<1>1. tasks \in Tables /\ nodes \in Registries /\ h \in Coroutines
  BY ConnFacts DEF BasicInv, TypeOK, CoordTypeOK, Tables, Registries
<1>2. WellFormed(tasks) => AllWellFormed
  BY DEF WellFormed, AllWellFormed
<1>3. ASSUME NEW T \in Tables, RequestDispatch(h, T, nodes), pc[h] = "idle",
             UNCHANGED toCoord, WellFormed(T) => WellFormed(tasks)
      PROVE  KeepsFrames
  <2>1. Benign(h, nodes) /\ (FirstInv => Frees(nodes))
    BY <1>3, FreesNow DEF Benign, Sending
  <2>2. StepTurn(h) /\ ReadsFirst
    BY <1>1, <1>2, <1>3, <2>1, RequestStep DEF ReadsFirst
  <2> QED
    BY <1>1, <2>2, StepTurnKeeps DEF KeepsFrames
<1>4. ASSUME NEW need \in Needs, SubmitJob(h, need)
      PROVE  KeepsFrames
  <2>1. PICK t \in TaskIds :
          /\ tasks[t].status = "absent"
          /\ RequestDispatch(h, EnqueueTask(tasks, t, need), nodes)
    BY <1>4 DEF SubmitJob, IsNextId
  <2>2. PICK T \in Tables : T = EnqueueTask(tasks, t, need)
    BY <1>1, <1>4, TableTypes
  <2>3. WellFormed(T) => WellFormed(tasks)
    BY <1>1, <1>4, <2>1, <2>2, TableHistory
  <2> QED
    BY <1>3, <1>4, <2>1, <2>2, <2>3 DEF SubmitJob
<1>5. ASSUME NEW t \in TaskIds, RetryJob(h, t)
      PROVE  KeepsFrames
  BY <1>1, <1>3, <1>5, TableTypes, TableHistory DEF RetryJob
<1> QED
  BY <1>4, <1>5 DEF ServeRequest

\* A connection on which nothing happens.
LEMMA IdleUntouched ==
  ASSUME FirstInv, NEW d \in Conns, link[d] = "open", session[Owner(d)] = 1,
         toWorker'[d] = toWorker[d], toCoord'[d] = toCoord[d],
         executing'[Owner(d)] = executing[Owner(d)],
         session'[Owner(d)] = session[Owner(d)],
         \A n \in Workers : RegisteredOn(n, d)' =>
           RegisteredOn(n, d) /\ nodes'[n].isBusy = nodes[n].isBusy
  PROVE  IdleAt(d)'
<1>1. /\ Assigns(d)' = Assigns(d) /\ Results(d)' = Results(d)
      /\ Registrations(d)' = Registrations(d)
  BY DEF Assigns, Results, Registrations
<1>2. Owes(d)' <=> Owes(d)
  BY DEF Owes, Socket
<1>3. OwesOnce(d)' <=> OwesOnce(d)
  BY <1>1 DEF OwesOnce
<1> QED
  BY <1>1, <1>2, <1>3 DEF FirstInv, IdleAt

\* A handler that never learnt its nodeId leaves: its worker is not
\* registered, or is as busy as before.
LEMMA LeaveFInv ==
  ASSUME BasicInv, FInv, NEW c \in Conns, pc[c] \in {"recv", "ack"},
         nodeId[c] = None, Finally(c, tasks, nodes),
         UNCHANGED toCoord, UNCHANGED workerVars
  PROVE  KeepsFrames
<1>1. /\ EndDispatch(c, tasks, nodes, "done")
      /\ link' = [link EXCEPT ![c] = "closed"]
      /\ UNCHANGED <<tasks, nodes, toWorker>>
      /\ UNCHANGED <<session, phase, executing>>
  BY DEF Finally, EndDispatch, workerVars
<1>2. TypeOK /\ c \in Coroutines
  BY ConnFacts DEF BasicInv
<1>3. /\ pc'[c] = "done"
      /\ \A g \in Coroutines \ {c} : pc'[g] = pc[g] /\ job'[g] = job[g]
      /\ \A d \in Conns : link'[d] = "open" => link[d] = "open"
  BY <1>1, <1>2 DEF EndDispatch, TypeOK, NetTypeOK, CoordTypeOK
<1>4. OpenInv'
  BY <1>1, <1>3, ConnFacts DEF FInv, OpenInv, Socket
<1>5. TaskInv'
  BY <1>1 DEF FInv, TaskInv
<1>6. AckInv'
  <2>1. \A w \in Workers : phase[w] = "register" => Socket(w) \in Conns
    BY <1>2, SocketFacts DEF TypeOK, WorkerTypeOK, BasicInv, WorkerInv, Socket
  <2> QED
    BY <1>1, <1>3, <2>1 DEF FInv, AckInv, Socket, Registered
<1>7. \A n \in Registered(nodes) :
        LET d == nodes[n].websocket
        IN  /\ d \in Conns /\ d \in Coroutines
            /\ d = c => pc[c] = "ack"
  BY <1>2, ConnFacts DEF BasicInv, RegistryInv, Served
<1>8. BusyOwes'
  BY <1>1, <1>3, <1>7 DEF FInv, BusyOwes, Owes, Registered, Socket
<1>9. BusyUnacked'
  <2> SUFFICES ASSUME NEW n \in Registered(nodes), NEW d, d = nodes[n].websocket
               PROVE  /\ pc'[d] # "finally"
                      /\ AllWellFormed /\ nodes[n].isBusy /\ pc'[d] \in {"ack", "done"}
                           => \E g \in Coroutines :
                                pc'[g] \in Sending /\ job'[g].node = n
                                                   /\ job'[g].websocket = d
    BY <1>1 DEF BusyUnacked, AllWellFormed, Registered
  <2>1. pc'[d] # "finally" /\ (pc'[d] \in {"ack", "done"} => pc[d] \in {"ack", "done"})
    BY <1>3, <1>7 DEF FInv, BusyUnacked
  <2>2. \A g \in Coroutines : pc[g] \in Sending => pc'[g] = pc[g] /\ job'[g] = job[g]
    BY <1>3 DEF Sending
  <2> QED
    BY <2>1, <2>2 DEF FInv, BusyUnacked
<1>10. ASSUME FirstInv
       PROVE  FirstInv'
  BY <1>1, <1>3, <1>10, IdleUntouched DEF FirstInv, RegisteredOn, Registered
<1> QED
  BY <1>4, <1>5, <1>6, <1>8, <1>9, <1>10 DEF FInv, KeepsFrames

LEMMA RegisterFInv ==
  ASSUME BasicInv, FInv, NEW c \in Conns, HandleRegister(c), UNCHANGED workerVars
  PROVE  KeepsFrames
<1>1. /\ pc[c] = "recv"
      /\ pc' = [pc EXCEPT ![c] = "ack"]
      /\ nodes' = Register(nodes, Owner(c), c)
      /\ toWorker' = Delivering(c, AckFrame)
      /\ toCoord' = [toCoord EXCEPT ![c] = Tail(@)]
      /\ toCoord[c] # << >> /\ Head(toCoord[c]).type = "REGISTER"
      /\ UNCHANGED <<tasks, job, nodeId, link>>
      /\ UNCHANGED <<session, phase, executing>>
  BY DEF HandleRegister, Receiving, workerVars
<1>2. TypeOK /\ c \in Coroutines /\ Owner(c) \in Workers /\ c # None
  BY ConnFacts DEF BasicInv
<1>3. /\ toCoord \in [Conns -> Seq(CoordFrames)]
      /\ toWorker \in [Conns -> Seq(WorkerFrames)]
      /\ AckFrame \in WorkerFrames
  BY <1>2, FrameTypes DEF TypeOK, NetTypeOK
<1>4. pc'[c] = "ack" /\ \A g \in Coroutines \ {c} : pc'[g] = pc[g]
  BY <1>1, <1>2 DEF TypeOK, CoordTypeOK
<1>5. /\ \A d \in Conns \ {c} : toWorker'[d] = toWorker[d] /\ toCoord'[d] = toCoord[d]
      /\ toCoord'[c] = Tail(toCoord[c])
      /\ link[c] = "open" => toWorker'[c] = Append(toWorker[c], AckFrame)
      /\ link[c] # "open" => toWorker'[c] = toWorker[c]
  BY <1>1, <1>2, <1>3 DEF Delivering
<1>6. /\ nodes'[Owner(c)] = [websocket |-> c, isBusy |-> FALSE]
      /\ \A n \in Workers \ {Owner(c)} : nodes'[n] = nodes[n]
  BY <1>1, <1>2 DEF Register, TypeOK, CoordTypeOK
<1>7. \A n \in Registered(nodes) :
        LET d == nodes[n].websocket
        IN  /\ d \in Conns /\ d \in Coroutines
            /\ n # Owner(c) => d # c
  BY <1>2, ConnFacts DEF BasicInv, RegistryInv, Served
<1>8. OpenInv'
  BY <1>1, <1>4, <1>5, ConnFacts DEF FInv, OpenInv, Socket
<1>9. TaskInv'
  BY <1>1 DEF FInv, TaskInv
<1>10. AckInv'
  <2> SUFFICES ASSUME NEW w \in Workers, phase[w] = "register",
                      NEW d \in Conns, d = Socket(w)
               PROVE  /\ toWorker'[d] # << >> => Head(toWorker'[d]) = AckFrame
                      /\ link[d] = "open" /\ toWorker'[d] = << >>
                           => \A n \in Registered(nodes)' : nodes'[n].websocket # d
    BY <1>1, <1>2, SocketFacts
    DEF AckInv, Socket, TypeOK, WorkerTypeOK, BasicInv, WorkerInv
  <2>1. /\ toWorker[d] # << >> => Head(toWorker[d]) = AckFrame
        /\ link[d] = "open" /\ toWorker[d] = << >>
             => \A n \in Registered(nodes) : nodes[n].websocket # d
    BY DEF FInv, AckInv
  <2>2. CASE d # c
    BY <1>5, <1>6, <2>1, <2>2 DEF Registered
  <2>3. CASE d = c /\ link[c] # "open"
    BY <1>5, <2>1, <2>3
  <2>4. CASE d = c /\ link[c] = "open"
    <3>1. toWorker[c] \in Seq(WorkerFrames)
      BY <1>3
    <3>2. toWorker'[c] # << >>
      BY <1>3, <1>5, <2>4, <3>1, FrameAppended
    <3>3. toWorker[c] # << >> => Head(toWorker'[c]) = AckFrame
      BY <1>3, <1>5, <2>1, <2>4, <3>1, FrameAppended
    <3>4. toWorker[c] = << >> => Head(toWorker'[c]) = AckFrame
      BY <1>3, <1>5, <2>4, <3>1
    <3> QED
      BY <2>4, <3>2, <3>3, <3>4
  <2> QED
    BY <2>2, <2>3, <2>4
<1>11. BusyOwes'
  <2> SUFFICES ASSUME NEW n \in Registered(nodes)', nodes'[n].isBusy,
                      link[nodes'[n].websocket] = "open"
               PROVE  Owes(nodes[n].websocket)'
    BY <1>1 DEF BusyOwes
  <2>1. n # Owner(c) /\ n \in Registered(nodes) /\ nodes'[n] = nodes[n]
    BY <1>6 DEF Registered
  <2>2. PICK d \in Conns \ {c} : d = nodes[n].websocket
    BY <1>7, <2>1
  <2>3. Owes(d)
    BY <2>1, <2>2 DEF FInv, BusyOwes
  <2>4. Owes(d)'
    BY <1>2, <1>5, <2>2, <2>3, OwesKept
  <2> QED
    BY <2>1, <2>2, <2>4
<1>12. BusyUnacked'
  <2> SUFFICES ASSUME NEW n \in Registered(nodes)', NEW d, d = nodes'[n].websocket
               PROVE  /\ pc'[d] # "finally"
                      /\ AllWellFormed /\ nodes'[n].isBusy /\ pc'[d] \in {"ack", "done"}
                           => \E g \in Coroutines :
                                pc'[g] \in Sending /\ job'[g].node = n
                                                   /\ job'[g].websocket = d
    BY <1>1 DEF BusyUnacked, AllWellFormed
  <2>1. CASE n = Owner(c)
    BY <1>4, <1>6, <2>1
  <2>2. CASE n # Owner(c)
    <3>1. n \in Registered(nodes) /\ nodes'[n] = nodes[n] /\ pc'[d] = pc[d]
      BY <1>4, <1>6, <1>7, <2>2 DEF Registered
    <3>2. \A g \in Coroutines : pc[g] \in Sending => pc'[g] = pc[g] /\ job'[g] = job[g]
      BY <1>1, <1>4 DEF Sending
    <3> QED
      BY <3>1, <3>2 DEF FInv, BusyUnacked
  <2> QED
    BY <2>1, <2>2
<1>13. ASSUME FirstInv, link[c] = "open", session[Owner(c)] = 1
       PROVE  IdleAt(c)'
  <2>1. PICK q \in Seq(CoordFrames) : q = toCoord[c] /\ q # << >>
    BY <1>1, <1>3
  <2>2. 1 \in Registrations(c)
    BY <1>1, <2>1, TypesConsumed DEF Registrations
  <2>3. IdleAt(c) /\ ~ Owes(c)
    BY <1>13, <2>2 DEF FirstInv, IdleAt
  <2>4. Assigns(c) = {} /\ executing[Owner(c)] = None /\ Results(c) = {}
    BY <1>13, <2>3, OwesParts DEF FInv, OpenInv
  <2>5. Registrations(c)' = {} /\ Results(c)' = {}
    BY <1>5, <2>1, <2>3, <2>4, SetsConsumed DEF Registrations, Results, IdleAt
  <2>6. Assigns(c)' = {}
    <3>1. PICK r \in Seq(WorkerFrames) : r = toWorker[c]
      BY <1>3
    <3>2. Assigns(c)' = OfType(Append(r, AckFrame), "TASK_ASSIGN")
      BY <1>5, <1>13, <3>1 DEF Assigns
    <3> QED
      BY <1>3, <2>4, <3>1, <3>2, TypesAppended DEF Assigns, AckFrame
  <2>7. executing'[Owner(c)] = None /\ ~ Owes(c)'
    BY <1>1, <2>4, <2>5, <2>6 DEF Owes, Assigns, Results, OfType
  <2> QED
    BY <2>5, <2>6, <2>7 DEF IdleAt, OwesOnce
<1>14. ASSUME FirstInv, NEW d \in Conns \ {c}, link[d] = "open",
              session[Owner(d)] = 1
       PROVE  IdleAt(d)'
  <2>1. \A n \in Workers : RegisteredOn(n, d)' =>
          RegisteredOn(n, d) /\ nodes'[n].isBusy = nodes[n].isBusy
    BY <1>6 DEF RegisteredOn, Registered
  <2> QED
    BY <1>1, <1>5, <1>14, <2>1, IdleUntouched
<1> QED
  BY <1>1, <1>8, <1>9, <1>10, <1>11, <1>12, <1>13, <1>14
  DEF FInv, FirstInv, KeepsFrames

LEMMA ConnectionFInv ==
  ASSUME BasicInv, FInv, NEW c \in Conns, ServeConnection(c), UNCHANGED workerVars
  PROVE  KeepsFrames
<1>1. /\ tasks \in Tables /\ nodes \in Registries
      /\ TypeOK /\ HandlerInv /\ c \in Coroutines /\ Owner(c) \in Workers
  BY ConnFacts DEF BasicInv, TypeOK, CoordTypeOK, Tables, Registries
<1>2. WellFormed(tasks) => AllWellFormed
  BY DEF WellFormed, AllWellFormed
<1>3. CASE HandleRegister(c)
  BY <1>3, RegisterFInv
<1>4. StepTurn(c) /\ ReadsFirst => KeepsFrames
  BY <1>1, StepTurnKeeps DEF KeepsFrames
<1>5. ASSUME pc[c] \in {"recv", "ack"}, UNCHANGED toCoord
      PROVE  Benign(c, nodes) /\ ReadsFirst /\ (FirstInv => Frees(nodes))
  BY <1>5, FreesNow DEF Benign, Sending, ReadsFirst
<1>6. CASE AckSent(c)
  BY <1>1, <1>2, <1>4, <1>5, <1>6, HandlerStep DEF AckSent
<1>7. ASSUME pc[c] \in {"recv", "ack"}, Finally(c, tasks, nodes),
             UNCHANGED toCoord
      PROVE  KeepsFrames
  BY <1>1, <1>2, <1>4, <1>5, <1>7, FinallyStep, LeaveFInv
<1>8. CASE AckFailed(c)
  BY <1>7, <1>8 DEF AckFailed
<1>9. CASE HandleTaskResult(c)
  <2> DEFINE N == SetNodeBusy(nodes, Owner(c), FALSE)
  <2>1. Head(toCoord[c]).task \in TaskIds
    BY <1>1, <1>9, TailTypes DEF HandleTaskResult
  <2>2. PICK T \in {MarkTaskCompleted(tasks, Head(toCoord[c]).task),
                    MarkTaskFailed(tasks, Head(toCoord[c]).task)} :
          HandlerDispatch(c, T, N, "result")
    BY <1>9 DEF HandleTaskResult
  <2>3. T \in Tables /\ (WellFormed(T) => WellFormed(tasks))
    BY <1>1, <2>1, <2>2, TableTypes, TableHistory
  <2>4. N \in Registries
    BY <1>1, RegistryTypes
  <2>5. /\ pc[c] = "recv"
        /\ toCoord[c] # << >> /\ toCoord'[c] = Tail(toCoord[c])
        /\ Head(toCoord[c]).type = "TASK_RESULT"
        /\ \A d \in Conns \ {c} : toCoord'[d] = toCoord[d]
    BY <1>1, <1>9 DEF HandleTaskResult, Receiving, TypeOK, NetTypeOK
  <2>6. \A n \in Registered(N) :
          /\ n \in Registered(nodes) /\ N[n].websocket = nodes[n].websocket
          /\ N[n].isBusy => nodes[n].isBusy /\ n # Owner(c)
          /\ n # Owner(c) => N[n] = nodes[n]
    BY <1>1 DEF SetNodeBusy, Registered, Registries, WorkerNode
  <2>7. \A n \in Registered(nodes) :
          /\ nodes[n].websocket \in Conns
          /\ Owner(nodes[n].websocket) = n
          /\ n # Owner(c) => nodes[n].websocket # c
    BY DEF BasicInv, RegistryInv, Served
  <2>8. Benign(c, N) /\ ReadsFirst
    <3>1. Benign(c, N)
      <4>1. \A n \in Registered(N) : N[n].isBusy =>
              nodes[n].isBusy /\ N[n].websocket \in Conns \ {c}
        BY <2>6, <2>7
      <4>2. pc[c] \notin Sending
        BY <2>5 DEF Sending
      <4> QED
        BY <2>5, <2>6, <4>1, <4>2 DEF Benign
    <3>2. ReadsFirst
      BY <2>5 DEF ReadsFirst
    <3> QED
      BY <3>1, <3>2
  <2>9. ASSUME SessionInv, FirstInv, NEW n \in Registered(N), ~ N[n].isBusy,
               NEW d, d = N[n].websocket, link[d] = "open", session[Owner(d)] = 1
        PROVE  /\ Assigns(d) = {} /\ executing[Owner(d)] = None
               /\ OfType(toCoord'[d], "TASK_RESULT") = {}
    <3>1. d \in Conns /\ RegisteredOn(n, d) /\ d = Socket(Owner(d)) /\ Owner(d) = n
      BY <2>6, <2>7, <2>9 DEF RegisteredOn, FInv, OpenInv
    <3>2. IdleAt(d)
      BY <2>9, <3>1 DEF FirstInv
    <3>3. CASE n = Owner(c)
      <4>1. pc[c] # "idle" /\ pc[d] # "idle"
        BY <2>5, <2>6, <2>9 DEF BasicInv, RegistryInv, Served
      <4>2. d = c
        BY <1>1, <2>9, <3>1, <3>3, <4>1, OneConnection
      <4>3. PICK q \in Seq(CoordFrames) : q = toCoord[c]
        BY <1>1 DEF TypeOK, NetTypeOK
      <4>4. 1 \in Results(c) /\ OfType(toCoord'[c], "TASK_RESULT") = {}
        BY <2>5, <3>2, <4>2, <4>3, TypesConsumed, SetsConsumed
        DEF Results, IdleAt, OwesOnce
      <4> QED
        BY <3>2, <4>2, <4>4 DEF IdleAt, OwesOnce
    <3>4. CASE n # Owner(c)
      <4>1. ~ Owes(d) /\ toCoord'[d] = toCoord[d]
        BY <2>5, <2>6, <2>7, <2>9, <3>1, <3>2, <3>4 DEF IdleAt, Registered
      <4> QED
        BY <3>1, <4>1, OwesParts DEF Results
    <3> QED
      BY <3>3, <3>4
  <2>10. SessionInv /\ FirstInv => Frees(N)
    BY <2>9 DEF Frees
  <2> HIDE DEF N
  <2> QED
    BY <1>2, <1>4, <2>2, <2>3, <2>4, <2>5, <2>8, <2>10, HandlerStep
<1>10. CASE Disconnect(c)
  BY <1>7, <1>10 DEF Disconnect
<1> QED
  BY <1>3, <1>6, <1>8, <1>9, <1>10 DEF ServeConnection

-----------------------------------------------------------------------------
(* The steps of workers and of the network.                                *)

\* What a step of a running worker w touches, and what it must not break.
LEMMA WorkerFInv ==
  ASSUME BasicInv, FInv, NEW w \in Workers, NEW s \in Conns, s = Socket(w),
         UNCHANGED coordVars, UNCHANGED session,
         \A v \in Workers \ {w} : phase'[v] = phase[v] /\ executing'[v] = executing[v],
         \A d \in Conns \ {s} : /\ link'[d] = link[d]
                                /\ toWorker'[d] = toWorker[d]
                                /\ toCoord'[d] = toCoord[d],
         toWorker[s] = << >> => toWorker'[s] = << >>,
         link'[s] = "open" => link[s] = "open" /\ phase'[w] # "down",
         executing'[w] # None => phase'[w] = "execute",
         phase'[w] # "register",
         link'[s] = "open" /\ Owes(s) => Owes(s)',
         IdleAt(s) /\ link'[s] = "open" => IdleAt(s)'
  PROVE  KeepsFrames
<1>1. UNCHANGED <<tasks, nodes, pc, job, nodeId>>
  BY DEF coordVars
<1>2. \A v \in Workers : phase[v] # "down" => Socket(v) \in Conns /\ Owner(Socket(v)) = v
  BY SocketFacts DEF BasicInv, TypeOK, WorkerTypeOK, WorkerInv, Socket
<1>3. \A n \in Registered(nodes) :
        nodes[n].websocket \in Conns /\ Owner(nodes[n].websocket) = n
  BY DEF BasicInv, RegistryInv, Served
<1>4. OpenInv'
  <2>1. \A c \in Conns : pc[c] = "idle" => toWorker'[c] = << >>
    BY DEF FInv, OpenInv
  <2>2. ASSUME NEW c \in Conns, link'[c] = "open"
        PROVE  c = Socket(Owner(c)) /\ phase'[Owner(c)] # "down"
    <3>1. link[c] = "open"
      BY <2>2
    <3>2. c = Socket(Owner(c)) /\ phase[Owner(c)] # "down" /\ Owner(c) \in Workers
      BY <3>1, ConnFacts DEF FInv, OpenInv
    <3> QED
      BY <2>2, <3>2
  <2> QED
    BY <1>1, <2>1, <2>2 DEF OpenInv, Socket
<1>5. TaskInv'
  BY DEF FInv, TaskInv
<1>6. AckInv'
  <2> SUFFICES ASSUME NEW v \in Workers, phase'[v] = "register",
                      NEW c \in Conns, c = Socket(v)
               PROVE  /\ toWorker'[c] # << >> => Head(toWorker'[c]) = AckFrame
                      /\ link'[c] = "open" /\ toWorker'[c] = << >>
                           => \A n \in Registered(nodes) : nodes[n].websocket # c
    BY <1>1, <1>2 DEF AckInv, Socket, Registered
  <2>1. v # w /\ phase[v] = "register"
    OBVIOUS
  <2>2. c # s
    <3>1. Owner(s) = w
      BY DEF Socket, Owner
    <3>2. Owner(c) = v
      BY DEF Socket, Owner
    <3> QED
      BY <2>1, <3>1, <3>2
  <2> QED
    BY <2>1, <2>2 DEF FInv, AckInv
<1>7. BusyOwes'
  <2> SUFFICES ASSUME NEW n \in Registered(nodes), nodes[n].isBusy,
                      NEW c \in Conns, c = nodes[n].websocket, link'[c] = "open"
               PROVE  Owes(c)'
    BY <1>1, <1>3 DEF BusyOwes, Registered
  <2>1. Owes(c)
    BY DEF FInv, BusyOwes
  <2>2. CASE c = s
    BY <2>1, <2>2
  <2>3. CASE c # s
    <3>1. ASSUME executing[Owner(c)] # None, Socket(Owner(c)) = c
          PROVE  executing'[Owner(c)] # None /\ Socket(Owner(c))' = c
      <4>1. Owner(c) # w /\ Owner(c) \in Workers
        BY <2>3, <3>1, ConnFacts
      <4> QED
        BY <3>1, <4>1 DEF Socket
    <3> QED
      BY <2>1, <2>3, <3>1 DEF Owes
  <2> QED
    BY <2>2, <2>3
<1>8. BusyUnacked'
  BY <1>1 DEF FInv, BusyUnacked, AllWellFormed, Registered
<1>9. ASSUME FirstInv, NEW d \in Conns, link'[d] = "open", session[Owner(d)] = 1
      PROVE  IdleAt(d)'
  <2>1. CASE d = s
    BY <1>9, <2>1 DEF FirstInv
  <2>2. CASE d # s
    <3>1. Owner(d) # w /\ Owner(d) \in Workers
      BY <1>9, <2>2, ConnFacts DEF FInv, OpenInv
    <3> QED
      BY <1>1, <1>9, <2>2, <3>1, IdleUntouched DEF RegisteredOn, Registered
  <2> QED
    BY <2>1, <2>2
<1> QED
  BY <1>4, <1>5, <1>6, <1>7, <1>8, <1>9 DEF FInv, FirstInv, KeepsFrames

\* A connection whose worker goes on with what is owed, or is paying it.
LEMMA IdleStep ==
  ASSUME NEW d \in Conns, IdleAt(d), OwesOnce(d)', Owes(d)' => Owes(d),
         Registrations(d)' \subseteq Registrations(d), UNCHANGED nodes
  PROVE  IdleAt(d)'
BY DEF IdleAt, RegisteredOn, Registered

LEMMA ClientFInv ==
  ASSUME BasicInv, FInv, NEW w \in Workers, WorkerStep(w) \/ Crash(w),
         UNCHANGED coordVars
  PROVE  KeepsFrames
<1>1. phase[w] # "down"
  BY DEF WorkerStep, Crash, ReceiveFirst, AckTimeout, ReceiveAck, ReceiveTask,
         SendResult, EndSession
<1>2. PICK s \in Conns : s = Socket(w) /\ Owner(s) = w
  BY <1>1, SocketFacts DEF BasicInv, TypeOK, WorkerTypeOK, WorkerInv, Socket
<1>3. /\ link \in [Conns -> {"free", "open", "lost", "closed"}]
      /\ toCoord \in [Conns -> Seq(CoordFrames)]
      /\ toWorker \in [Conns -> Seq(WorkerFrames)]
      /\ phase \in [Workers -> {"down", "register", "listen", "execute"}]
      /\ executing \in [Workers -> TaskIds \cup {None}]
      /\ toWorker[s] \in Seq(WorkerFrames)
  BY DEF BasicInv, TypeOK, NetTypeOK, WorkerTypeOK
<1>4. \A v \in Workers : executing[v] # None => phase[v] = "execute"
  BY DEF FInv, TaskInv
<1>5. /\ UNCHANGED session => s = Socket(w)' /\ s = Socket(Owner(s))'
      /\ UNCHANGED <<tasks, nodes, pc, job, nodeId>>
      /\ Owes(s) <=> Assigns(s) # {} \/ executing[w] # None \/ Results(s) # {}
      /\ UNCHANGED session =>
           (Owes(s)' <=> Assigns(s)' # {} \/ executing'[w] # None \/ Results(s)' # {})
  BY <1>2 DEF Owes, Assigns, Results, OfType, Socket, coordVars
<1>6. ASSUME Consume(w), Head(toWorker[s]) = AckFrame,
             UNCHANGED <<link, toCoord, session, executing>>,
             phase' = [phase EXCEPT ![w] = "listen"], phase[w] # "execute"
      PROVE  KeepsFrames
  <2>1. toWorker[s] # << >> /\ toWorker' = [toWorker EXCEPT ![s] = Tail(@)]
    BY <1>2, <1>6 DEF Consume
  <2>2. PICK q \in Seq(WorkerFrames) : q = toWorker[s] /\ q # << >>
    BY <1>3, <2>1
  <2>3. Assigns(s) = OfType(q, "TASK_ASSIGN") /\ Assigns(s)' = OfType(Tail(q), "TASK_ASSIGN")
    BY <1>3, <2>1, <2>2 DEF Assigns
  <2>4. /\ Assigns(s)' = {} <=> Assigns(s) = {}
        /\ (\A i, j \in Assigns(s) : i = j) => \A i, j \in Assigns(s)' : i = j
    BY <1>6, <2>2, <2>3, SetsConsumed DEF AckFrame
  <2>5. /\ Results(s)' = Results(s) /\ Registrations(s)' = Registrations(s)
        /\ executing'[w] = executing[w]
    BY <1>6 DEF Results, Registrations
  <2>6. Owes(s) <=> Owes(s)'
    BY <1>5, <1>6, <2>4, <2>5
  <2>7. IdleAt(s) => IdleAt(s)'
    <3>1. OwesOnce(s) => OwesOnce(s)'
      BY <1>2, <2>4, <2>5 DEF OwesOnce
    <3> QED
      BY <1>5, <2>5, <2>6, <3>1, IdleStep DEF IdleAt
  <2> QED
    BY <1>2, <1>3, <1>4, <1>6, <2>1, <2>6, <2>7, WorkerFInv
<1>7. CASE ReceiveFirst(w)
  <2>1. Head(toWorker[s]) = AckFrame
    BY <1>2, <1>7 DEF ReceiveFirst, Consume, FInv, AckInv
  <2> QED
    BY <1>6, <1>7, <2>1 DEF ReceiveFirst
<1>8. CASE AckTimeout(w)
  <2>1. /\ UNCHANGED <<link, toCoord, toWorker, session, executing>>
        /\ phase' = [phase EXCEPT ![w] = "listen"] /\ phase[w] = "register"
    BY <1>8 DEF AckTimeout, netVars
  <2>2. /\ Assigns(s)' = Assigns(s) /\ Results(s)' = Results(s)
        /\ Registrations(s)' = Registrations(s)
    BY <2>1 DEF Assigns, Results, Registrations
  <2>3. Owes(s) <=> Owes(s)'
    BY <1>5, <2>1, <2>2
  <2>4. IdleAt(s) => IdleAt(s)'
    BY <1>5, <2>1, <2>2, <2>3, IdleStep DEF IdleAt, OwesOnce
  <2> QED
    BY <1>2, <1>3, <1>4, <2>1, <2>3, <2>4, WorkerFInv
<1>9. CASE ReceiveAck(w)
  <2>1. Head(toWorker[s]) \in WorkerFrames
    BY <1>2, <1>3, <1>9, HeadTailProperties DEF ReceiveAck, Consume
  <2>2. Head(toWorker[s]) = AckFrame
    BY <1>2, <1>9, <2>1 DEF ReceiveAck, WorkerFrames
  <2>3. phase' = [phase EXCEPT ![w] = "listen"]
    BY <1>3, <1>9 DEF ReceiveAck, workerVars
  <2> QED
    BY <1>6, <1>9, <2>2, <2>3 DEF ReceiveAck, workerVars
<1>10. CASE ReceiveTask(w)
  <2>1. /\ toWorker[s] # << >>
        /\ toWorker' = [toWorker EXCEPT ![s] = Tail(@)]
        /\ Head(toWorker[s]).type = "TASK_ASSIGN"
        /\ executing'[w] = Head(toWorker[s]).task
    BY <1>2, <1>3, <1>10 DEF ReceiveTask, Consume
  <2>2. executing'[w] # None
    <3>1. TypeOK' /\ WorkerInv'
      BY <1>10, ClientTypes DEF WorkerStep, BasicInv
    <3> QED
      BY <1>3, <1>10, <3>1, <2>1, NoneAssumption DEF ReceiveTask, WorkerInv
  <2>3. UNCHANGED <<link, toCoord, session>>
    BY <1>10 DEF ReceiveTask
  <2>4. Owes(s)'
    BY <1>5, <2>2, <2>3
  <2>5. ASSUME IdleAt(s)
        PROVE  IdleAt(s)'
    <3>1. PICK q \in Seq(WorkerFrames) : q = toWorker[s] /\ q # << >>
      BY <1>3, <2>1
    <3>2. /\ Assigns(s) = OfType(q, "TASK_ASSIGN")
          /\ Assigns(s)' = OfType(Tail(q), "TASK_ASSIGN")
      BY <1>3, <2>1, <3>1 DEF Assigns
    <3>3. 1 \in Assigns(s)
      BY <2>1, <3>1, <3>2, TypesConsumed
    <3>4. Assigns(s)' = {}
      <4>1. \A i, j \in OfType(q, "TASK_ASSIGN") : i = j
        BY <2>5, <3>2 DEF IdleAt, OwesOnce
      <4> QED
        <5>1. Head(q).type = "TASK_ASSIGN"
          BY <2>1, <3>1
        <5>2. OfType(Tail(q), "TASK_ASSIGN") = {}
          <6>1. /\ 1 \in OfType(q, "TASK_ASSIGN")
                /\ \A i \in OfType(Tail(q), "TASK_ASSIGN") :
                     i + 1 \in OfType(q, "TASK_ASSIGN") /\ i \in Nat \ {0}
            BY <3>1, <5>1, TypesConsumed
          <6>2. \A i \in OfType(Tail(q), "TASK_ASSIGN") : i + 1 = 1 /\ i \in Nat \ {0}
            BY <4>1, <6>1
          <6> QED
            BY <6>2
        <5> QED
          BY <3>2, <5>2
    <3>5. Results(s)' = {} /\ Registrations(s)' = Registrations(s)
      BY <2>3, <2>5, <3>3 DEF IdleAt, OwesOnce, Results, Registrations
    <3>6. OwesOnce(s)' /\ Owes(s)
      BY <1>5, <3>3, <3>4, <3>5 DEF OwesOnce
    <3> QED
      BY <1>5, <2>5, <3>5, <3>6, IdleStep
  <2> QED
    BY <1>2, <1>3, <1>4, <1>10, <2>1, <2>3, <2>4, <2>5, WorkerFInv DEF ReceiveTask
<1>11. ASSUME NEW outcome \in Outcomes, SendResult(w, outcome)
       PROVE  KeepsFrames
  <2>1. /\ phase[w] = "execute"
        /\ executing' = [executing EXCEPT ![w] = None]
        /\ UNCHANGED <<link, toWorker, session>>
    BY <1>11 DEF SendResult
  <2>2. CASE link[s] = "open"
    <3>1. /\ toCoord' = [toCoord EXCEPT ![s] =
                           Append(@, ResultFrame(executing[w], outcome))]
          /\ phase' = [phase EXCEPT ![w] = "listen"]
      BY <1>2, <1>11, <2>2 DEF SendResult
    <3>2. PICK f : f = ResultFrame(executing[w], outcome)
      OBVIOUS
    <3>3. f \in CoordFrames
      BY <1>11, <2>1, <3>2, FrameTypes DEF BasicInv, WorkerInv
    <3>4. toCoord'[s] = Append(toCoord[s], f) /\ toCoord[s] \in Seq(CoordFrames)
      BY <1>3, <3>1, <3>2
    <3>5. \E i \in DOMAIN toCoord'[s] : toCoord'[s][i] = f
      BY <3>3, <3>4, FrameAppended
    <3>6. Owes(s)'
      BY <3>2, <3>5 DEF Owes, ResultFrame
    <3>7. executing[w] # None /\ executing'[w] = None
      BY <1>3, <2>1, NoneAssumption DEF BasicInv, WorkerInv
    <3>8. ASSUME IdleAt(s)
          PROVE  IdleAt(s)'
      <4>1. Assigns(s)' = {} /\ Results(s) = {} /\ Owes(s)
        BY <1>2, <1>5, <2>1, <3>7, <3>8 DEF IdleAt, OwesOnce, Assigns
      <4>2. PICK q \in Seq(CoordFrames) : q = toCoord[s]
        BY <1>3
      <4>3. Results(s)' \subseteq {Len(q) + 1}
        BY <3>3, <3>4, <4>1, <4>2, TypesAppended DEF Results
      <4>4. Registrations(s)' = Registrations(s)
        <5>1. f.type # "REGISTER"
          BY <3>2 DEF ResultFrame
        <5>2. OfType(Append(q, f), "REGISTER") = OfType(q, "REGISTER")
          <6>1. {i \in {Len(q) + 1} : f.type = "REGISTER"} = {}
            BY <5>1
          <6>2. OfType(Append(q, f), "REGISTER") =
                  OfType(q, "REGISTER") \cup {i \in {Len(q) + 1} : f.type = "REGISTER"}
            BY <3>3, <4>2, TypesAppended
          <6> QED
            BY <6>1, <6>2
        <5> QED
          BY <3>4, <4>2, <5>2 DEF Registrations
      <4>5. OwesOnce(s)'
        BY <1>2, <3>7, <4>1, <4>3 DEF OwesOnce
      <4> QED
        BY <1>5, <3>8, <4>1, <4>4, <4>5, IdleStep
    <3> QED
      BY <1>2, <1>3, <1>4, <2>1, <2>2, <3>1, <3>6, <3>8, WorkerFInv
  <2>3. CASE link[s] # "open"
    <3>1. PICK p \in {"down", "listen"} : phase' = [phase EXCEPT ![w] = p]
      BY <1>2, <1>11, <2>3 DEF SendResult
    <3>2. UNCHANGED toCoord
      BY <1>2, <1>11, <2>3 DEF SendResult
    <3> QED
      BY <1>2, <1>3, <1>4, <2>1, <2>3, <3>1, <3>2, WorkerFInv
  <2> QED
    BY <2>2, <2>3
<1>12. CASE EndSession(w)
  BY <1>2, <1>3, <1>4, <1>12, WorkerFInv DEF EndSession, netVars
<1>13. CASE Crash(w)
  <2>1. link'[s] # "open"
    BY <1>2, <1>3, <1>13 DEF Crash
  <2> QED
    BY <1>2, <1>3, <1>4, <1>13, <2>1, WorkerFInv DEF Crash
<1> QED
  BY <1>7, <1>8, <1>9, <1>10, <1>11, <1>12, <1>13 DEF WorkerStep

LEMMA NetworkFInv ==
  ASSUME BasicInv, FInv, NEW c \in Conns, LoseConnection(c) \/ NoticeLoss(c),
         UNCHANGED <<coordVars, workerVars>>
  PROVE  KeepsFrames
<1>1. /\ UNCHANGED <<tasks, nodes, pc, job, nodeId>>
      /\ UNCHANGED <<session, phase, executing>>
  BY DEF coordVars, workerVars
<1>2. /\ link \in [Conns -> {"free", "open", "lost", "closed"}]
      /\ toCoord \in [Conns -> Seq(CoordFrames)]
      /\ toWorker \in [Conns -> Seq(WorkerFrames)]
  BY DEF BasicInv, TypeOK, NetTypeOK
<1>3. /\ link'[c] # "open"
      /\ \A d \in Conns \ {c} : /\ link'[d] = link[d]
                                /\ toWorker'[d] = toWorker[d]
                                /\ toCoord'[d] = toCoord[d]
      /\ toWorker[c] = << >> => toWorker'[c] = << >>
      /\ toWorker'[c] # << >> => /\ toWorker[c] # << >>
                                 /\ Head(toWorker'[c]) = Head(toWorker[c])
  <2>1. CASE LoseConnection(c)
    <3>1. PICK i \in 0 .. Len(toWorker[c]) :
            toWorker' = [toWorker EXCEPT ![c] = SubSeq(@, 1, i)]
      BY <2>1 DEF LoseConnection
    <3>2. toWorker[c] \in Seq(WorkerFrames) /\ toWorker'[c] = SubSeq(toWorker[c], 1, i)
      BY <1>2, <3>1
    <3>3. /\ toWorker[c] = << >> => toWorker'[c] = << >>
          /\ toWorker'[c] # << >> => /\ toWorker[c] # << >>
                                     /\ Head(toWorker'[c]) = Head(toWorker[c])
      BY <3>2, PrefixHead
    <3>4. link'[c] # "open"
      BY <1>2, <2>1 DEF LoseConnection
    <3>5. \A d \in Conns \ {c} : /\ link'[d] = link[d]
                                 /\ toWorker'[d] = toWorker[d]
                                 /\ toCoord'[d] = toCoord[d]
      BY <1>2, <2>1 DEF LoseConnection
    <3> QED
      BY <3>3, <3>4, <3>5
  <2>2. CASE NoticeLoss(c)
    BY <1>2, <2>2 DEF NoticeLoss
  <2> QED
    BY <2>1, <2>2
<1>4. \A n \in Registered(nodes) : nodes[n].websocket \in Conns
  BY DEF BasicInv, RegistryInv, Served
<1>5. \A w \in Workers : phase[w] # "down" => Socket(w) \in Conns
  BY SocketFacts DEF BasicInv, TypeOK, WorkerTypeOK, WorkerInv, Socket
<1>6. OpenInv'
  BY <1>1, <1>3 DEF FInv, OpenInv, Socket
<1>7. TaskInv'
  BY <1>1 DEF FInv, TaskInv
<1>8. AckInv'
  <2> SUFFICES ASSUME NEW w \in Workers, phase[w] = "register",
                      NEW d \in Conns, d = Socket(w)
               PROVE  /\ toWorker'[d] # << >> => Head(toWorker'[d]) = AckFrame
                      /\ link'[d] = "open" /\ toWorker'[d] = << >>
                           => \A n \in Registered(nodes) : nodes[n].websocket # d
    BY <1>1, <1>5 DEF AckInv, Socket, Registered
  <2> QED
    BY <1>3 DEF FInv, AckInv
<1>9. BusyOwes'
  <2> SUFFICES ASSUME NEW n \in Registered(nodes), nodes[n].isBusy,
                      NEW d \in Conns, d = nodes[n].websocket, link'[d] = "open"
               PROVE  Owes(d)'
    BY <1>1, <1>4 DEF BusyOwes, Registered
  <2>1. d # c /\ Owes(d)
    BY <1>3 DEF FInv, BusyOwes
  <2> QED
    BY <1>1, <1>3, <2>1 DEF Owes, Socket
<1>10. BusyUnacked'
  BY <1>1 DEF FInv, BusyUnacked, AllWellFormed, Registered
<1>11. ASSUME FirstInv
       PROVE  FirstInv'
  BY <1>1, <1>3, <1>11, IdleUntouched DEF FirstInv, RegisteredOn, Registered
<1> QED
  BY <1>6, <1>7, <1>8, <1>9, <1>10, <1>11 DEF FInv, KeepsFrames

LEMMA ConnectFInv ==
  ASSUME BasicInv, FInv, NEW w \in Workers, Connect(w)
  PROVE  KeepsFrames
<1>1. PICK c \in Conns : c = <<w, session[w] + 1>> /\ Owner(c) = w
  BY ConnectTypes DEF BasicInv, Owner
<1>2. /\ phase[w] = "down" /\ pc[c] = "idle"
      /\ session' = [session EXCEPT ![w] = @ + 1]
      /\ phase' = [phase EXCEPT ![w] = "register"]
      /\ link' = [link EXCEPT ![c] = "open"]
      /\ toCoord' = [toCoord EXCEPT ![c] = << RegisterFrame >>]
      /\ pc' = [pc EXCEPT ![c] = "recv"]
      /\ UNCHANGED <<toWorker, executing, tasks, nodes, job, nodeId>>
  BY <1>1 DEF Connect, OpenSession, Accept
<1>3. /\ link'[c] = "open" /\ pc'[c] = "recv"
      /\ \A d \in Conns \ {c} : link'[d] = link[d] /\ toCoord'[d] = toCoord[d]
      /\ \A h \in Coroutines \ {c} : pc'[h] = pc[h]
      /\ phase'[w] = "register" /\ Socket(w)' = c
      /\ \A v \in Workers \ {w} : phase'[v] = phase[v] /\ Socket(v)' = Socket(v)
  BY <1>1, <1>2, ConnFacts
  DEF BasicInv, TypeOK, NetTypeOK, CoordTypeOK, WorkerTypeOK, Socket
<1>4. \A n \in Registered(nodes) :
        LET d == nodes[n].websocket
        IN  d \in Conns \ {c} /\ d \in Coroutines /\ Owner(d) = n
  BY <1>2, ConnFacts DEF BasicInv, RegistryInv, Served
<1>5. \A d \in Conns \ {c} : link'[d] = "open" => Owner(d) # w
  BY <1>2, <1>3 DEF FInv, OpenInv
<1>6. OpenInv'
  <2>1. \A d \in Conns : pc'[d] = "idle" => toWorker'[d] = << >>
    BY <1>2, <1>3, ConnFacts DEF FInv, OpenInv
  <2>2. ASSUME NEW d \in Conns, link'[d] = "open"
        PROVE  d = Socket(Owner(d))' /\ phase'[Owner(d)] # "down"
    <3>1. CASE d = c
      BY <1>1, <1>3, <3>1
    <3>2. CASE d # c
      <4>1. link[d] = "open" /\ Owner(d) \in Workers \ {w}
        BY <1>3, <1>5, <2>2, <3>2, ConnFacts
      <4>2. d = Socket(Owner(d)) /\ phase[Owner(d)] # "down"
        BY <4>1 DEF FInv, OpenInv
      <4> QED
        BY <1>3, <4>1, <4>2
    <3> QED
      BY <3>1, <3>2
  <2> QED
    BY <2>1, <2>2 DEF OpenInv
<1>7. TaskInv'
  BY <1>2, <1>3 DEF FInv, TaskInv
<1>8. AckInv'
  <2> SUFFICES ASSUME NEW v \in Workers, phase'[v] = "register",
                      NEW d, d = Socket(v)'
               PROVE  /\ toWorker[d] # << >> => Head(toWorker[d]) = AckFrame
                      /\ link'[d] = "open" /\ toWorker[d] = << >>
                           => \A n \in Registered(nodes) : nodes[n].websocket # d
    BY <1>2 DEF AckInv, Registered
  <2>1. CASE v = w
    <3>1. d = c /\ toWorker[c] = << >>
      BY <1>2, <1>3, <2>1 DEF FInv, OpenInv
    <3> QED
      BY <1>4, <3>1
  <2>2. CASE v # w
    <3>1. phase[v] = "register" /\ d = Socket(v)
      BY <1>3, <2>2
    <3>2. d \in Conns /\ d # c
      BY <1>1, <2>2, <3>1, SocketFacts
      DEF BasicInv, TypeOK, WorkerTypeOK, WorkerInv, Socket
    <3> QED
      BY <1>3, <3>1, <3>2 DEF FInv, AckInv
  <2> QED
    BY <2>1, <2>2
<1>9. BusyOwes'
  <2> SUFFICES ASSUME NEW n \in Registered(nodes), nodes[n].isBusy,
                      NEW d, d = nodes[n].websocket, link'[d] = "open"
               PROVE  Owes(d)'
    BY <1>2 DEF BusyOwes, Registered
  <2>1. d \in Conns \ {c} /\ Owner(d) \in Workers \ {w}
    BY <1>4, <1>5, ConnFacts
  <2>2. Owes(d)
    BY <1>3, <2>1 DEF FInv, BusyOwes
  <2> QED
    BY <1>2, <1>3, <2>1, <2>2 DEF Owes
<1>10. BusyUnacked'
  <2>1. \A n \in Registered(nodes) : pc'[nodes[n].websocket] = pc[nodes[n].websocket]
    BY <1>3, <1>4
  <2>2. \A h \in Coroutines : pc[h] \in Sending => pc'[h] \in Sending
    BY <1>2, <1>3 DEF Sending
  <2> QED
    BY <1>2, <2>1, <2>2 DEF FInv, BusyUnacked, AllWellFormed, Registered
<1>11. IdleAt(c)'
  <2>1. Assigns(c)' = {}
    BY <1>2 DEF FInv, OpenInv, Assigns, OfType
  <2>2. Results(c)' = {} /\ Registrations(c)' \subseteq {1}
    BY <1>2 DEF Results, Registrations, OfType, RegisterFrame, BasicInv, TypeOK, NetTypeOK
  <2>3. executing'[Owner(c)] = None
    BY <1>1, <1>2 DEF FInv, TaskInv
  <2>4. ~ Owes(c)'
    BY <2>1, <2>2, <2>3 DEF Owes, Assigns, Results, OfType
  <2>5. \A n \in Workers : ~ RegisteredOn(n, c)'
    BY <1>2, <1>4 DEF RegisteredOn, Registered
  <2> QED
    BY <2>1, <2>2, <2>3, <2>4, <2>5 DEF IdleAt, OwesOnce
<1>12. ASSUME FirstInv, NEW d \in Conns \ {c}, link'[d] = "open",
              session'[Owner(d)] = 1
       PROVE  IdleAt(d)'
  <2>1. link[d] = "open" /\ session'[Owner(d)] = session[Owner(d)]
    BY <1>2, <1>3, <1>5, <1>12, ConnFacts DEF BasicInv, TypeOK, WorkerTypeOK
  <2> QED
    BY <1>2, <1>3, <1>12, <2>1, IdleUntouched DEF RegisteredOn, Registered
<1> QED
  BY <1>6, <1>7, <1>8, <1>9, <1>10, <1>11, <1>12 DEF FInv, FirstInv, KeepsFrames

-----------------------------------------------------------------------------
(* The theorems.                                                           *)

LEMMA NextFInv ==
  ASSUME BasicInv, FInv, Next
  PROVE  KeepsFrames
<1>1. CASE \E w \in Workers : Connect(w)
  BY <1>1, ConnectFInv
<1>2. CASE CoordinatorStep
  BY <1>2, ResolveFInv, ConnectionFInv, RequestFInv DEF CoordinatorStep
<1>3. CASE ClientStep
  BY <1>3, ClientFInv DEF ClientStep
<1>4. CASE NetworkStep
  BY <1>4, NetworkFInv DEF NetworkStep
<1> QED
  BY <1>1, <1>2, <1>3, <1>4 DEF Next

LEMMA InitFInv == Init => FInv /\ FirstInv
BY DEF Init, NetInit, CoordInit, WorkerInit, FInv, OpenInv, TaskInv, AckInv,
       BusyOwes, BusyUnacked, Registered, NoNode, FirstInv

LEMMA StutterFInv ==
  ASSUME FInv, UNCHANGED vars
  PROVE  KeepsFrames
<1>1. UNCHANGED <<link, toCoord, toWorker, tasks, nodes, pc, job, nodeId>>
  BY DEF vars, netVars, coordVars
<1>2. UNCHANGED <<session, phase, executing>>
  BY DEF vars, workerVars
<1>3. OpenInv' /\ TaskInv' /\ AckInv'
  BY <1>1, <1>2 DEF FInv, OpenInv, TaskInv, AckInv, Socket, Registered
<1>4. BusyOwes' /\ BusyUnacked'
  BY <1>1, <1>2
  DEF FInv, BusyOwes, BusyUnacked, Owes, Socket, AllWellFormed, Registered
<1>5. FirstInv => FirstInv'
  BY <1>1, <1>2, IdleUntouched DEF FirstInv, RegisteredOn, Registered
<1> QED
  BY <1>3, <1>4, <1>5 DEF FInv, KeepsFrames

\* FInv is an invariant of the cluster, inductive relative to IInv.
THEOREM FrameInvariance == Spec => []FInv
<1>1. Init => FInv
  BY InitFInv
<1>2. IInv /\ FInv /\ [Next]_vars => FInv'
  BY IInvSplit, NextFInv, StutterFInv DEF KeepsFrames
<1> QED
  BY <1>1, <1>2, Invariance, PTL DEF Spec

\* The receive in _register, which drops whatever frame comes first, drops
\* nothing but the acknowledgement: no assignment is lost there.
THEOREM AckIsFirst == Spec => []AckComesFirst
<1>1. FInv => AckComesFirst
  BY DEF FInv, AckInv, AckComesFirst
<1> QED
  BY <1>1, FrameInvariance, PTL

\* No worker stays busy without a cause: its assignment is still being sent,
\* its result is due, or its connection is down and about to be cleaned up.
THEOREM BusyEnds == Spec => []BusyIsTransient
<1>1. FInv => BusyIsTransient
  <2> SUFFICES ASSUME FInv, AllWellFormed, NEW n \in Registered(nodes),
                      nodes[n].isBusy, link[nodes[n].websocket] # "open",
                      IsGhost(n)
               PROVE  \E h \in Coroutines : pc[h] \in Sending /\ job[h].node = n
    BY DEF BusyIsTransient, FInv, BusyOwes
  <2> QED
    BY DEF FInv, BusyUnacked, IsGhost
<1> QED
  BY <1>1, FrameInvariance, PTL

-----------------------------------------------------------------------------
(* The first session of a worker.                                          *)

LEMMA InitSession == Init => SessionInv
<1>1. \A w \in Workers : \A k \in 1 .. MaxSessions[w] : <<w, k>> \in Conns
  BY DEF Conns
<1> QED
  BY <1>1, ConnFacts DEF Init, CoordInit, SessionInv

\* The coordinator runs the handler of a connection only after accepting it.
Moved(h) == \E at : pc' = [pc EXCEPT ![h] = at]

LEMMA DispatchMoves ==
  ASSUME NEW h, NEW T, NEW N, NEW at
  PROVE  /\ RequestDispatch(h, T, N) => Moved(h)
         /\ Finally(h, T, N) => Moved(h)
         /\ HandlerDispatch(h, T, N, at) => Moved(h)
         /\ ResumeDispatch(h, T, N) => Moved(h)
<1>2. ASSUME NEW S, NEW M
      PROVE  (\E a : AssignTask(h, S, M, a) \/ EndDispatch(h, S, M, a)) => Moved(h)
  BY DEF AssignTask, EndDispatch, Moved
<1>3. ASSUME NEW S, NEW M
      PROVE  /\ RequestDispatch(h, S, M) => Moved(h)
             /\ FinallyDispatch(h, S, M) => Moved(h)
  BY <1>2 DEF RequestDispatch, FinallyDispatch
<1>4. Finally(h, T, N) => Moved(h)
  BY <1>2, <1>3 DEF Finally
<1>5. ASSUME NEW a
      PROVE  HandlerDispatch(h, T, N, a) => Moved(h)
  BY <1>2, <1>4 DEF HandlerDispatch
<1> QED
  BY <1>3, <1>4, <1>5 DEF ResumeDispatch

LEMMA CoordinatorServes ==
  ASSUME BasicInv, CoordinatorStep, NEW c \in Conns, pc'[c] # "idle"
  PROVE  pc[c] # "idle"
<1> SUFFICES ASSUME pc[c] = "idle"
             PROVE  FALSE
  OBVIOUS
<1>1. c \in Coroutines /\ c \notin Requests
  BY ConnFacts
<1>2. ASSUME NEW h, h # c, Moved(h)
      PROVE  FALSE
  BY <1>1, <1>2 DEF Moved, BasicInv, TypeOK, CoordTypeOK
<1>3. ASSUME NEW h \in Coroutines, Resolve(h)
      PROVE  FALSE
  BY <1>2, <1>3, DispatchMoves DEF Resolve, SendSucceeded, SendFailed, Sending
<1>4. ASSUME NEW d \in Conns, ServeConnection(d)
      PROVE  FALSE
  <2>1. pc[d] \in {"recv", "ack"}
    BY <1>4 DEF ServeConnection, HandleRegister, AckSent, AckFailed,
                HandleTaskResult, Disconnect, Receiving
  <2>2. Moved(d)
    BY <1>4, DispatchMoves
    DEF ServeConnection, HandleRegister, AckSent, AckFailed, HandleTaskResult,
        Disconnect, Moved
  <2> QED
    BY <1>2, <2>1, <2>2
<1>5. ASSUME NEW h \in Requests, ServeRequest(h)
      PROVE  FALSE
  BY <1>1, <1>2, <1>5, DispatchMoves DEF ServeRequest, SubmitJob, RetryJob
<1> QED
  BY <1>3, <1>4, <1>5 DEF CoordinatorStep

LEMMA SessionKept ==
  ASSUME BasicInv, SessionInv, [Next]_vars
  PROVE  SessionInv'
<1> SUFFICES ASSUME NEW w \in Workers, NEW k \in 1 .. MaxSessions[w],
                    NEW c, c = <<w, k>>, pc'[c] # "idle"
             PROVE  k <= session'[w]
  BY DEF SessionInv
<1>1. c \in Conns /\ c \in Coroutines /\ Owner(c) = w
  BY ConnFacts DEF Conns, Owner
<1>2. k \in Nat /\ session[w] \in Nat
  BY BoundsAssumption DEF BasicInv, TypeOK, WorkerTypeOK
<1>3. pc[c] # "idle" => k <= session[w]
  BY DEF SessionInv
<1>4. CASE \E v \in Workers : Connect(v)
  <2>1. PICK v \in Workers : Connect(v)
    BY <1>4
  <2>2. PICK d \in Conns : d = <<v, session[v] + 1>>
    BY <2>1, ConnectTypes DEF BasicInv
  <2>3. /\ session' = [session EXCEPT ![v] = @ + 1]
        /\ pc' = [pc EXCEPT ![d] = "recv"]
    BY <2>1, <2>2 DEF Connect, OpenSession, Accept
  <2>4. session[w] <= session'[w]
    BY <1>2, <2>3 DEF BasicInv, TypeOK, WorkerTypeOK
  <2>5. CASE c = d
    BY <1>2, <2>2, <2>3, <2>5 DEF BasicInv, TypeOK, WorkerTypeOK
  <2>6. CASE c # d
    BY <1>1, <1>2, <1>3, <2>3, <2>4, <2>6 DEF BasicInv, TypeOK, CoordTypeOK
  <2> QED
    BY <2>5, <2>6
<1>5. CASE CoordinatorStep
  <2>1. UNCHANGED session
    BY <1>5 DEF CoordinatorStep, workerVars
  <2>2. pc[c] # "idle"
    BY <1>1, <1>5, CoordinatorServes
  <2> QED
    BY <1>3, <2>1, <2>2
<1>6. CASE UNCHANGED <<pc, session>>
  BY <1>3, <1>6
<1>7. ClientStep \/ NetworkStep \/ UNCHANGED vars => UNCHANGED <<pc, session>>
  BY DEF ClientStep, NetworkStep, vars, coordVars, workerVars, WorkerStep, Crash,
         ReceiveFirst, AckTimeout, ReceiveAck, ReceiveTask, SendResult, EndSession
<1> QED
  BY <1>4, <1>5, <1>6, <1>7 DEF Next

\* Until a worker reconnects, one result at most is owed on its connection,
\* and its node is busy until the result is handled.
THEOREM IdleInvariance == Spec => []IdleInv
<1>1. Init => IdleInv
  BY InitFInv, InitSession DEF IdleInv
<1>2. IInv /\ FInv /\ IdleInv /\ [Next]_vars => IdleInv'
  BY IInvSplit, NextFInv, StutterFInv, SessionKept DEF KeepsFrames, IdleInv
<1> QED
  BY <1>1, <1>2, Invariance, FrameInvariance, PTL DEF Spec

\* Until a worker reconnects, getAvailableWorkers does not return it while it
\* executes a task.  (Afterwards it may: a result of the old session frees the
\* node registered by the new one.)
THEOREM AvailableIsIdle == Spec => []IdleUntilReconnect
<1>1. IInv /\ FInv /\ IdleInv => IdleUntilReconnect
  <2> SUFFICES ASSUME IInv, FInv, IdleInv, NEW n \in GetAvailableWorkers(nodes),
                      session[n] = 1,
                      nodes[n].websocket = Socket(n), link[Socket(n)] = "open",
                      phase[n] = "execute"
               PROVE  FALSE
    BY DEF IdleUntilReconnect
  <2>1. n \in Workers /\ RegisteredOn(n, Socket(n)) /\ ~ nodes[n].isBusy
    BY DEF GetAvailableWorkers, Registered, RegisteredOn
  <2>2. Socket(n) \in Conns /\ Owner(Socket(n)) = n
    BY <2>1 DEF IInv, RegistryInv, Served, RegisteredOn
  <2>3. executing[n] # None
    BY <2>1, NoneAssumption DEF IInv, WorkerInv
  <2>4. Owes(Socket(n))
    BY <2>2, <2>3 DEF Owes
  <2> QED
    BY <2>1, <2>2, <2>4 DEF IdleInv, FirstInv, IdleAt
<1> QED
  BY <1>1, Invariance, FrameInvariance, IdleInvariance, PTL

=============================================================================
