--------------------------- MODULE LastWordProofs ---------------------------
(***************************************************************************)
(* Proofs, for any number of handlers, dashboards and changes, that the    *)
(* last snapshot a dashboard is handed is the newest, and that its page    *)
(* ends up with it.                                                        *)
(***************************************************************************)
EXTENDS BroadcastProofs

-----------------------------------------------------------------------------
(* Order in sequences without duplicates.                                  *)

LEMMA BeforeIsWithin ==
  ASSUME NEW s, NEW d, NEW e, Before(s, d, e)
  PROVE  d \in ToSet(s) /\ e \in ToSet(s)
BY DEF Before, ToSet

LEMMA BeforeInTail ==
  ASSUME NEW S, NEW s \in Seq(S), s # << >>, IsInjective(s)
  PROVE  /\ \A d, e : Before(Tail(s), d, e) => Before(s, d, e)
         /\ \A d, e : Before(s, d, e) /\ d # Head(s) => Before(Tail(s), d, e)
         /\ \A e \in ToSet(Tail(s)) : Before(s, Head(s), e)
         /\ \A d : ~ Before(s, d, Head(s))
<1> USE HeadTailProperties, LenProperties
<1>1. Len(s) \in Nat /\ Len(s) > 0 /\ Len(Tail(s)) = Len(s) - 1
  BY EmptySeq
<1>2. \A i \in 1 .. Len(s) - 1 : Tail(s)[i] = s[i + 1]
  BY <1>1
<1>3. /\ Head(s) = s[1] /\ DOMAIN s = 1 .. Len(s)
      /\ DOMAIN Tail(s) = 1 .. Len(s) - 1
  BY <1>1
<1>4. \A i, j \in 1 .. Len(s) : s[i] = s[j] => i = j
  BY <1>3 DEF IsInjective
<1> DEFINE t == Tail(s)
           n == Len(s)
<1> HIDE DEF t, n
<1>5. ASSUME NEW d, NEW e, Before(t, d, e) PROVE Before(s, d, e)
  <2>1. PICK i, j \in 1 .. n - 1 : i < j /\ t[i] = d /\ t[j] = e
    BY <1>3, <1>5 DEF Before, t, n
  <2>2. i + 1 \in 1 .. n /\ j + 1 \in 1 .. n /\ i + 1 < j + 1
    BY <1>1, <2>1 DEF n
  <2>3. s[i + 1] = d /\ s[j + 1] = e
    BY <2>1, <1>2 DEF t, n
  <2> QED
    BY <2>2, <2>3, <1>3 DEF Before, n
<1>6. ASSUME NEW d, NEW e, Before(s, d, e), d # Head(s) PROVE Before(t, d, e)
  <2>1. PICK i, j \in 1 .. n : i < j /\ s[i] = d /\ s[j] = e
    BY <1>3, <1>6 DEF Before, n
  <2>2. i # 1
    BY <2>1, <1>3, <1>6
  <2>3. i - 1 \in 1 .. n - 1 /\ j - 1 \in 1 .. n - 1 /\ i - 1 < j - 1
    BY <2>1, <2>2, <1>1 DEF n
  <2>4. t[i - 1] = d /\ t[j - 1] = e
    BY <2>1, <2>3, <1>2 DEF t, n
  <2> QED
    BY <2>3, <2>4, <1>3 DEF Before, t, n
<1>7. ASSUME NEW e \in ToSet(t) PROVE Before(s, Head(s), e)
  <2>1. PICK i \in 1 .. n - 1 : t[i] = e
    BY <1>3 DEF ToSet, t, n
  <2>2. i + 1 \in 1 .. n /\ 1 < i + 1 /\ 1 \in 1 .. n
    BY <1>1 DEF n
  <2>3. s[i + 1] = e /\ s[1] = Head(s)
    BY <2>1, <1>2, <1>3 DEF t, n
  <2> QED
    BY <2>2, <2>3, <1>3 DEF Before, n
<1>8. ASSUME NEW d PROVE ~ Before(s, d, Head(s))
  <2> SUFFICES ASSUME NEW i \in 1 .. n, NEW j \in 1 .. n, i < j, s[j] = s[1] PROVE FALSE
    BY <1>3 DEF Before, n
  <2>1. 1 \in 1 .. n
    BY <1>1 DEF n
  <2>2. j = 1
    BY <2>1, <1>4 DEF n
  <2> QED
    BY <2>2
<1> QED
  BY <1>5, <1>6, <1>7, <1>8 DEF t

LEMMA BeforeInAppend ==
  ASSUME NEW S, NEW s \in Seq(S), NEW x \in S
  PROVE  /\ \A d, e : Before(s, d, e) => Before(Append(s, x), d, e)
         /\ \A d \in ToSet(s) : Before(Append(s, x), d, x)
<1> DEFINE t == Append(s, x)
           n == Len(s)
<1>1. /\ n \in Nat /\ DOMAIN s = 1 .. n /\ DOMAIN t = 1 .. n + 1
      /\ \A i \in 1 .. n : t[i] = s[i]
      /\ t[n + 1] = x
  BY AppendProperties, LenProperties
<1> HIDE DEF t, n
<1>2. \A i \in 1 .. n : i \in 1 .. n + 1 /\ i < n + 1
  BY <1>1
<1>3. n + 1 \in 1 .. n + 1
  BY <1>1
<1>4. ASSUME NEW d, NEW e, Before(s, d, e) PROVE Before(t, d, e)
  BY <1>1, <1>2, <1>4 DEF Before
<1>5. ASSUME NEW d \in ToSet(s) PROVE Before(t, d, x)
  <2>1. PICK i \in 1 .. n : s[i] = d
    BY <1>1 DEF ToSet
  <2> QED
    BY <2>1, <1>1, <1>2, <1>3 DEF Before
<1> QED
  BY <1>4, <1>5 DEF t

LEMMA TailIsInOrder ==
  ASSUME NEW S, NEW s \in Seq(S), s # << >>, IsInjective(s)
  PROVE  SameOrder(Tail(s), s)
<1>1. \A d \in ToSet(Tail(s)) : d # Head(s)
  BY ElementsOfTail
<1> QED
  BY <1>1, BeforeInTail DEF SameOrder

LEMMA OrderIsTransitive ==
  ASSUME NEW s, NEW t, NEW u, SameOrder(s, t), SameOrder(t, u),
         ToSet(s) \subseteq ToSet(t), ToSet(t) \subseteq ToSet(u)
  PROVE  SameOrder(s, u) /\ ToSet(s) \subseteq ToSet(u)
BY DEF SameOrder

-----------------------------------------------------------------------------
(* The queues of senders: only one coroutine moves at a time.              *)

\* In the queues q, all but coroutine c are where they were, in their order.
KeepsPlaces(c, q) ==
  \A d \in Dashboards :
    \A a \in ToSet(queue[d]) \ {c} :
      /\ a \in ToSet(q[d])
      /\ \A b \in ToSet(queue[d]) \ {c} : Before(queue[d], a, b) => Before(q[d], a, b)

LEMMA NobodyMoves ==
  ASSUME NEW c
  PROVE  KeepsPlaces(c, queue)
BY DEF KeepsPlaces

LEMMA DequeuedKeepsPlaces ==
  ASSUME BInv, NEW d \in Dashboards, NEW c, queue[d] # << >>, Head(queue[d]) = c
  PROVE  KeepsPlaces(c, Dequeued(d))
<1>1. queue \in [Dashboards -> Seq(Handlers \cup Dashboards)] /\ IsInjective(queue[d])
  BY DEF BInv, BroadcastTypeOK, Queues
<1> DEFINE q == Dequeued(d)
<1>2. q[d] = Tail(queue[d]) /\ \A e \in Dashboards \ {d} : q[e] = queue[e]
  BY <1>1 DEF Dequeued
<1>3. /\ ToSet(queue[d]) \ {c} \subseteq ToSet(q[d])
      /\ \A a, b : Before(queue[d], a, b) /\ a # c => Before(q[d], a, b)
  BY <1>1, <1>2, ElementsOfTail, BeforeInTail
<1> HIDE DEF q
<1>4. ASSUME NEW e \in Dashboards, NEW a \in ToSet(queue[e]) \ {c}
      PROVE  /\ a \in ToSet(q[e])
             /\ \A b \in ToSet(queue[e]) \ {c} : Before(queue[e], a, b) => Before(q[e], a, b)
  <2>1. CASE e = d
    BY <2>1, <1>3, <1>4
  <2>2. CASE e # d
    BY <2>2, <1>2, <1>4
  <2> QED
    BY <2>1, <2>2
<1> QED
  BY <1>4 DEF KeepsPlaces, q

\* Coroutine c is put at the end of the queue of e.
Joins(c, q, e) ==
  /\ c \in ToSet(queue'[e])
  /\ \A a \in ToSet(q[e]) : Before(queue'[e], a, c)

LEMMA HandKeepsPlaces ==
  ASSUME NEW c \in Handlers \cup Dashboards, NEW q, NotIn(c, q), KeepsPlaces(c, q),
         NEW e \in Dashboards, queue' = [q EXCEPT ![e] = Append(@, c)]
  PROVE  KeepsPlaces(c, queue') /\ Joins(c, q, e)
<1>1. q \in [Dashboards -> Seq(Handlers \cup Dashboards)]
  BY DEF NotIn
<1>2. queue'[e] = Append(q[e], c) /\ \A d \in Dashboards \ {e} : queue'[d] = q[d]
  BY <1>1
<1>3. /\ ToSet(queue'[e]) = ToSet(q[e]) \cup {c}
      /\ \A a, b : Before(q[e], a, b) => Before(queue'[e], a, b)
      /\ \A a \in ToSet(q[e]) : Before(queue'[e], a, c)
  BY <1>1, <1>2, ElementsOfAppend, BeforeInAppend
<1>4. ASSUME NEW d \in Dashboards, NEW a \in ToSet(queue[d]) \ {c}
      PROVE  /\ a \in ToSet(queue'[d])
             /\ \A b \in ToSet(queue[d]) \ {c} : Before(queue[d], a, b) => Before(queue'[d], a, b)
  <2>1. /\ a \in ToSet(q[d])
        /\ \A b \in ToSet(queue[d]) \ {c} : Before(queue[d], a, b) => Before(q[d], a, b)
    BY <1>4 DEF KeepsPlaces
  <2>2. CASE d = e
    BY <2>1, <2>2, <1>3
  <2>3. CASE d # e
    BY <2>1, <2>3, <1>2
  <2> QED
    BY <2>2, <2>3
<1> QED
  BY <1>3, <1>4 DEF KeepsPlaces, Joins

-----------------------------------------------------------------------------
(* The set of clients, while its enumeration is not disturbed.             *)

\* Broadcasts under way find the clients they know, in the order they know.
Settled ==
  ~ disturbed' =>
    /\ ~ disturbed
    /\ \/ \A h \in Handlers : at'[h] # "casting"
       \/ ToSet(clients) \subseteq ToSet(clients') /\ SameOrder(clients, clients')

LEMMA SetClientsSettles ==
  ASSUME NEW s, SetClients(s)
  PROVE  Settled
BY DEF SetClients, Settled

LEMMA ClientsSettle ==
  \/ UNCHANGED <<clients, disturbed>>
  \/ \E d \in Dashboards : AddClient(d) \/ Discard(d)
  \/ \E dead \in SUBSET Dashboards : DropClients(dead)
  => Settled
<1>1. CASE UNCHANGED <<clients, disturbed>>
  BY <1>1 DEF Settled, SameOrder
<1>2. ASSUME NEW d \in Dashboards, AddClient(d) \/ Discard(d) PROVE Settled
  BY <1>2, SetClientsSettles DEF AddClient, Discard
<1>3. ASSUME NEW dead \in SUBSET Dashboards, DropClients(dead) PROVE Settled
  BY <1>3, SetClientsSettles DEF DropClients
<1> QED
  BY <1>1, <1>2, <1>3


-----------------------------------------------------------------------------
(* Broadcasts under way.                                                   *)

LEMMA CastFacts ==
  ASSUME BInv, NEW h \in Handlers, at[h] = "casting"
  PROVE  /\ cast[h].todo \in Seq(Dashboards) /\ cast[h].todo # << >>
         /\ Head(cast[h].todo) \in Dashboards
         /\ Tail(cast[h].todo) \in Seq(Dashboards)
         /\ ToSet(cast[h].todo) = {Head(cast[h].todo)} \cup ToServe(h)
         /\ ToServe(h) \subseteq Dashboards
         /\ cast[h].snapshot \in Nat /\ cast[h].snapshot <= version
<1>1. cast[h].todo \in Seq(Dashboards) /\ cast[h].todo # << >>
      /\ cast[h].snapshot \in Nat /\ cast[h].snapshot <= version
  BY BroadcastAssumption DEF BInv, BroadcastTypeOK, Casts, Cast, Versions
<1>2. /\ Head(cast[h].todo) \in Dashboards
      /\ Tail(cast[h].todo) \in Seq(Dashboards)
      /\ ToSet(cast[h].todo) = {Head(cast[h].todo)} \cup ToServe(h)
  BY <1>1, ElementsOfTail DEF ToServe
<1>3. ToServe(h) \subseteq Dashboards
  BY <1>2, ElementsAreFinite DEF ToServe
<1> QED
  BY <1>1, <1>2, <1>3

\* A broadcast that does not move stays in line, and in order, whatever
\* another coroutine c does.
LEMMA InLineKept ==
  ASSUME BInv, InLine, NEW c, KeepsPlaces(c, queue'),
         NEW h \in Handlers, h # c, at[h] = "casting", cast'[h] = cast[h]
  PROVE  /\ IsInjective(cast'[h].todo)
         /\ h \in ToSet(queue'[Head(cast'[h].todo)])
<1>1. PICK next \in Dashboards : next = Head(cast[h].todo)
  BY CastFacts
<1>2. IsInjective(cast[h].todo) /\ h \in ToSet(queue[next])
  BY <1>1 DEF InLine
<1>3. h \in ToSet(queue'[next])
  BY <1>2 DEF KeepsPlaces
<1> QED
  BY <1>1, <1>2, <1>3

LEMMA BehindKept ==
  ASSUME BInv, NEW c, KeepsPlaces(c, queue'),
         NEW h \in Handlers, h # c, at[h] = "casting", cast'[h] = cast[h],
         NEW g \in Handlers, g # c, cast'[g] = cast[g],
         Behind(h, g)
  PROVE  Behind(h, g)'
<1>1. ToServe(h)' = ToServe(h) /\ ToServe(g)' = ToServe(g)
  BY DEF ToServe
<1>2. PICK next \in Dashboards : next = Head(cast[h].todo)
  BY CastFacts
<1>3. Before(queue[next], h, g) => Before(queue'[next], h, g)
  BY BeforeIsWithin DEF KeepsPlaces
<1> QED
  BY <1>1, <1>2, <1>3 DEF Behind

\* The order of a broadcast that does not move is still the set's.
LEMMA SetOrderKept ==
  ASSUME Orders, NEW h \in Handlers, at[h] = "casting", cast'[h] = cast[h],
         ToSet(clients) \subseteq ToSet(clients'), SameOrder(clients, clients')
  PROVE  /\ ToSet(cast'[h].todo) \subseteq ToSet(clients')
         /\ SameOrder(cast'[h].todo, clients')
<1>1. ToSet(cast[h].todo) \subseteq ToSet(clients) /\ SameOrder(cast[h].todo, clients)
  BY DEF Orders
<1>2. ToSet(cast[h].todo) \subseteq ToSet(clients') /\ SameOrder(cast[h].todo, clients')
  BY <1>1, OrderIsTransitive
<1> QED
  BY <1>2

OrderInv == InLine /\ (~ disturbed => Orders /\ NoneOvertakes)

LEMMA OrderKept ==
  ASSUME BInv, OrderInv, Settled, NEW c, KeepsPlaces(c, queue'),
         \A h \in Handlers : at'[h] = "casting" =>
           h # c /\ at[h] = "casting" /\ cast'[h] = cast[h]
  PROVE  OrderInv'
<1>1. InLine'
  BY InLineKept DEF OrderInv, InLine
<1>2. ASSUME ~ disturbed' PROVE Orders'
  BY <1>2, SetOrderKept DEF Settled, OrderInv, Orders
<1>3. ASSUME ~ disturbed' PROVE NoneOvertakes'
  <2> SUFFICES ASSUME NEW h \in Handlers, NEW g \in Handlers,
                      at'[h] = "casting", at'[g] = "casting",
                      cast'[h].snapshot < cast'[g].snapshot
               PROVE  Behind(h, g)'
    BY DEF NoneOvertakes
  <2>1. Behind(h, g)
    BY <1>3 DEF Settled, OrderInv, NoneOvertakes
  <2> QED
    BY <2>1, BehindKept
<1> QED
  BY <1>1, <1>2, <1>3 DEF OrderInv

\* Nobody casts an older snapshot than a broadcast that is at its last client
\* and first in its queue.
LEMMA LastIsLast ==
  ASSUME BInv, NoneOvertakes,
         NEW h \in Handlers, at[h] = "casting", NEW f \in Dashboards,
         f = Head(cast[h].todo), queue[f] # << >>, Head(queue[f]) = h,
         NEW g \in Handlers, at[g] = "casting", cast[g].snapshot < cast[h].snapshot
  PROVE  /\ Head(cast[g].todo) \in ToServe(h)
         /\ ToServe(g) \subseteq ToServe(h)
<1>1. queue[f] \in Seq(Handlers \cup Dashboards) /\ IsInjective(queue[f])
  BY DEF BInv, BroadcastTypeOK, Queues
<1>2. \A x : ~ Before(queue[f], x, Head(queue[f]))
  BY <1>1, BeforeInTail
<1>3. ~ Before(queue[f], g, h)
  BY <1>2
<1> QED
  BY <1>3 DEF NoneOvertakes, Behind


\* A new broadcast begins behind all that are under way, and they are in the
\* order of the set it copies.
LEMMA StartKeepsOrder ==
  ASSUME BInv, OrderInv, NEW h \in Handlers, StartBroadcast(h), clients # << >>
  PROVE  OrderInv'
<1>1. /\ at[h] = "working" /\ clients \in Seq(Dashboards) /\ IsInjective(clients)
      /\ at'[h] = "casting" /\ \A g \in Handlers \ {h} : at'[g] = at[g]
      /\ cast'[h].todo = clients /\ cast'[h].snapshot = version
      /\ \A g \in Handlers \ {h} : cast'[g] = cast[g]
      /\ clients' = clients /\ version \in Nat
      /\ disturbed' = (disturbed /\ \E g \in Handlers : at[g] = "casting")
  BY DEF StartBroadcast, NobodyListens, Recipients, BInv, BroadcastTypeOK, Members, Versions
<1>2. PICK e \in Dashboards :
        e = Head(clients) /\ ToSet(clients) = {e} \cup ToSet(Tail(clients))
  BY <1>1, ElementsOfTail
<1>3. NotIn(h, queue)
  BY <1>1, AwakeIsNotQueued DEF Suspended
<1>4. queue' = [queue EXCEPT ![e] = Append(@, h)]
  BY <1>2 DEF StartBroadcast, NobodyListens, Recipients, Hand
<1>5. KeepsPlaces(h, queue') /\ Joins(h, queue, e)
  BY <1>3, <1>4, NobodyMoves, HandKeepsPlaces
<1>6. InLine'
  <2> SUFFICES ASSUME NEW g \in Handlers, at'[g] = "casting"
               PROVE  /\ IsInjective(cast'[g].todo)
                      /\ g \in ToSet(queue'[Head(cast'[g].todo)])
    BY DEF InLine
  <2>1. CASE g = h
    BY <1>1, <1>2, <1>5, <2>1 DEF Joins
  <2>2. CASE g # h
    BY <1>1, <1>5, <2>2, InLineKept DEF OrderInv
  <2> QED
    BY <2>1, <2>2
<1>7. ASSUME ~ disturbed', NEW g \in Handlers \ {h}, at'[g] = "casting"
      PROVE  ~ disturbed /\ at[g] = "casting" /\ cast'[g] = cast[g]
  BY <1>1, <1>7
<1>8. ASSUME ~ disturbed' PROVE Orders'
  <2> SUFFICES ASSUME NEW g \in Handlers, at'[g] = "casting"
               PROVE  /\ ToSet(cast'[g].todo) \subseteq ToSet(clients')
                      /\ SameOrder(cast'[g].todo, clients')
    BY DEF Orders
  <2>1. SameOrder(clients, clients)
    BY DEF SameOrder
  <2>2. CASE g = h
    BY <1>1, <2>1, <2>2
  <2>3. CASE g # h
    BY <1>1, <1>7, <1>8, <2>1, <2>3, SetOrderKept DEF OrderInv
  <2> QED
    BY <2>2, <2>3
<1>9. ASSUME ~ disturbed' PROVE NoneOvertakes'
  <2> SUFFICES ASSUME NEW a \in Handlers, NEW b \in Handlers,
                      at'[a] = "casting", at'[b] = "casting",
                      cast'[a].snapshot < cast'[b].snapshot
               PROVE  Behind(a, b)'
    BY DEF NoneOvertakes
  <2>1. a # h
    <3>1. ASSUME a = h PROVE FALSE
      <4>1. b # h /\ at[b] = "casting" /\ cast'[b] = cast[b]
        BY <1>1, <1>7, <1>9, <3>1
      <4>2. cast[b].snapshot \in Nat /\ cast[b].snapshot <= version
        BY <4>1, CastFacts
      <4> QED
        BY <1>1, <3>1, <4>1, <4>2
    <3> QED
      BY <3>1
  <2>2. ~ disturbed /\ at[a] = "casting" /\ cast'[a] = cast[a]
    BY <1>7, <1>9, <2>1
  <2>3. CASE b # h
    <3>1. at[b] = "casting" /\ cast'[b] = cast[b]
      BY <1>1, <2>3
    <3>2. Behind(a, b)
      BY <2>2, <3>1 DEF OrderInv, NoneOvertakes
    <3> QED
      BY <1>5, <2>1, <2>2, <2>3, <3>1, <3>2, BehindKept
  <2>4. CASE b = h
    <3> DEFINE todo == cast[a].todo
    <3>1. PICK next \in Dashboards : next = Head(todo)
      BY <2>2, CastFacts
    <3>2. /\ todo \in Seq(Dashboards) /\ todo # << >> /\ IsInjective(todo)
          /\ ToSet(todo) = {next} \cup ToServe(a)
          /\ ToSet(todo) \subseteq ToSet(clients) /\ SameOrder(todo, clients)
          /\ a \in ToSet(queue[next])
      BY <2>2, <3>1, CastFacts DEF OrderInv, InLine, Orders
    <3>3. e \notin ToServe(a)
      <4> SUFFICES ASSUME e \in ToServe(a) PROVE FALSE
        OBVIOUS
      <4>1. Before(todo, next, e)
        BY <3>1, <3>2, BeforeInTail DEF ToServe
      <4>2. Before(clients, next, e)
        BY <3>2, <4>1 DEF SameOrder
      <4> QED
        BY <1>1, <1>2, <4>2, BeforeInTail
    <3>4. ToServe(b)' = ToSet(Tail(clients)) /\ ToServe(a)' = ToServe(a)
      BY <1>1, <2>2, <2>4 DEF ToServe
    <3>5. ToServe(a) \subseteq ToSet(Tail(clients))
      BY <1>2, <3>2, <3>3
    <3>6. next \in ToSet(Tail(clients)) \/ (next = e /\ Before(queue'[e], a, h))
      BY <1>2, <1>5, <3>2 DEF Joins
    <3>7. Head(cast'[a].todo) = next /\ Head(cast'[b].todo) = e
      BY <1>1, <1>2, <2>2, <2>4, <3>1
    <3> QED
      BY <2>4, <3>4, <3>5, <3>6, <3>7 DEF Behind
  <2> QED
    BY <2>3, <2>4
<1> QED
  BY <1>6, <1>8, <1>9 DEF OrderInv


\* What NextClient does when a client is left: h goes to e.
GoesOn(h, e) ==
  /\ at[h] = "casting" /\ at' = at
  /\ clients' = clients /\ disturbed' = disturbed
  /\ cast'[h].todo = Tail(cast[h].todo) /\ Tail(cast[h].todo) # << >>
  /\ cast'[h].snapshot = cast[h].snapshot
  /\ \A g \in Handlers \ {h} : cast'[g] = cast[g]
  /\ e = Head(Tail(cast[h].todo))
  /\ ToServe(h) = {e} \cup ToServe(h)'
  /\ Hand(Dequeued(Head(cast[h].todo)), h, e, cast[h].snapshot)

LEMMA NextClientGoesOn ==
  ASSUME BInv, NEW h \in Handlers, at[h] = "casting", NEW dead,
         NextClient(h, dead), Tail(cast[h].todo) # << >>
  PROVE  \E e \in Dashboards : GoesOn(h, e)
<1> DEFINE todo == cast[h].todo
<1>1. /\ todo \in Seq(Dashboards) /\ todo # << >> /\ Tail(todo) \in Seq(Dashboards)
      /\ cast[h] \in Cast /\ cast \in [Handlers -> Cast \cup {None}]
  BY CastFacts, NoCastAssumption DEF BInv, BroadcastTypeOK
<1>2. Head(Tail(todo)) = todo[2]
  <2>1. Len(Tail(todo)) = Len(todo) - 1 /\ Len(Tail(todo)) \in Nat \ {0}
    BY <1>1, HeadTailProperties, LenProperties, EmptySeq
  <2> QED
    BY <1>1, <2>1, HeadTailProperties
<1>3. PICK e \in Dashboards :
        e = Head(Tail(todo)) /\ ToSet(Tail(todo)) = {e} \cup ToSet(Tail(Tail(todo)))
  BY <1>1, ElementsOfTail
<1>4. /\ cast' = [cast EXCEPT ![h].todo = Tail(todo), ![h].dead = dead]
      /\ Hand(Dequeued(Head(todo)), h, e, cast[h].snapshot)
      /\ UNCHANGED <<at, clients, disturbed>>
  BY <1>2, <1>3 DEF NextClient
<1>5. /\ cast'[h].todo = Tail(todo) /\ cast'[h].snapshot = cast[h].snapshot
      /\ \A g \in Handlers \ {h} : cast'[g] = cast[g]
  BY <1>1, <1>4 DEF Cast
<1>6. ToServe(h)' = ToSet(Tail(Tail(todo))) /\ ToServe(h) = ToSet(Tail(todo))
  BY <1>5 DEF ToServe
<1> QED
  BY <1>3, <1>4, <1>5, <1>6 DEF GoesOn

LEMMA NextKeepsOrder ==
  ASSUME BInv, OrderInv, NEW h \in Handlers, NEW f \in Dashboards, f = Head(cast[h].todo),
         queue[f] # << >>, Head(queue[f]) = h,
         NEW e \in Dashboards, GoesOn(h, e)
  PROVE  OrderInv'
<1> DEFINE todo == cast[h].todo
<1>1. /\ todo \in Seq(Dashboards) /\ todo # << >> /\ Tail(todo) \in Seq(Dashboards)
      /\ ToSet(todo) = {f} \cup ToServe(h)
      /\ IsInjective(todo) /\ IsInjective(Tail(todo))
  BY CastFacts, ElementsOfTail DEF OrderInv, InLine, GoesOn
<1>2. queue' = [Dequeued(f) EXCEPT ![e] = Append(@, h)]
  BY DEF GoesOn, Hand
<1>3. NotIn(h, Dequeued(f)) /\ KeepsPlaces(h, Dequeued(f))
  BY ResumedIsNotQueued, DequeuedKeepsPlaces
<1>4. KeepsPlaces(h, queue') /\ Joins(h, Dequeued(f), e)
  BY <1>2, <1>3, HandKeepsPlaces
<1>5. InLine'
  <2> SUFFICES ASSUME NEW g \in Handlers, at'[g] = "casting"
               PROVE  /\ IsInjective(cast'[g].todo)
                      /\ g \in ToSet(queue'[Head(cast'[g].todo)])
    BY DEF InLine
  <2>1. CASE g = h
    BY <1>1, <1>4, <2>1 DEF Joins, GoesOn
  <2>2. CASE g # h
    BY <1>4, <2>2, InLineKept DEF OrderInv, GoesOn
  <2> QED
    BY <2>1, <2>2
<1>6. ASSUME ~ disturbed' PROVE Orders'
  <2> SUFFICES ASSUME NEW g \in Handlers, at[g] = "casting"
               PROVE  /\ ToSet(cast'[g].todo) \subseteq ToSet(clients)
                      /\ SameOrder(cast'[g].todo, clients)
    BY DEF Orders, GoesOn
  <2>1. ToSet(cast[g].todo) \subseteq ToSet(clients) /\ SameOrder(cast[g].todo, clients)
    BY <1>6 DEF OrderInv, Orders, GoesOn
  <2>2. CASE g = h
    <3>1. SameOrder(Tail(todo), todo) /\ ToSet(Tail(todo)) \subseteq ToSet(todo)
      BY <1>1, TailIsInOrder DEF ToServe
    <3>2. SameOrder(Tail(todo), clients) /\ ToSet(Tail(todo)) \subseteq ToSet(clients)
      BY <2>1, <2>2, <3>1, OrderIsTransitive
    <3> QED
      BY <2>2, <3>2 DEF GoesOn
  <2>3. CASE g # h
    BY <2>1, <2>3 DEF GoesOn
  <2> QED
    BY <2>2, <2>3
<1>7. ASSUME ~ disturbed' PROVE NoneOvertakes'
  <2> SUFFICES ASSUME NEW a \in Handlers, NEW b \in Handlers,
                      at[a] = "casting", at[b] = "casting",
                      cast'[a].snapshot < cast'[b].snapshot
               PROVE  Behind(a, b)'
    BY DEF NoneOvertakes, GoesOn
  <2>1. /\ Orders /\ NoneOvertakes
        /\ cast'[a].snapshot = cast[a].snapshot /\ cast'[b].snapshot = cast[b].snapshot
    BY <1>7 DEF OrderInv, GoesOn
  <2>2. Behind(a, b) /\ a # b
    <3>1. a # b
      BY <2>1, CastFacts
    <3> QED
      BY <2>1, <3>1 DEF NoneOvertakes
  <2>3. CASE a # h /\ b # h
    BY <1>4, <2>2, <2>3, BehindKept DEF GoesOn
  <2>4. CASE a = h
    <3>1. ToServe(b)' = ToServe(b) /\ Head(cast'[a].todo) = e
      BY <2>2, <2>4 DEF ToServe, GoesOn
    <3>2. e \in ToServe(a) /\ ToServe(a)' \subseteq ToServe(a)
      BY <2>4 DEF GoesOn
    <3>3. ToServe(a) \subseteq ToServe(b)
      BY <2>2 DEF Behind
    <3> QED
      BY <3>1, <3>2, <3>3 DEF Behind
  <2>5. CASE b = h
    <3>1. PICK next \in Dashboards : next = Head(cast[a].todo)
      BY CastFacts
    <3>2. next \in ToServe(h) /\ ToServe(a) \subseteq ToServe(h)
      BY <2>1, <2>5, <3>1, LastIsLast
    <3>3. /\ cast[a].todo \in Seq(Dashboards) /\ cast[a].todo # << >>
          /\ IsInjective(cast[a].todo)
          /\ ToSet(cast[a].todo) = {next} \cup ToServe(a)
          /\ SameOrder(cast[a].todo, clients)
          /\ ToSet(cast[a].todo) \subseteq ToSet(clients)
          /\ SameOrder(todo, clients)
      BY <2>1, <2>5, <3>1, CastFacts DEF OrderInv, InLine, Orders
    <3>4. e \notin ToServe(a)
      <4> SUFFICES ASSUME e \in ToServe(a) PROVE FALSE
        OBVIOUS
      <4>1. Before(cast[a].todo, next, e)
        BY <3>1, <3>3, BeforeInTail DEF ToServe
      <4>2. Before(clients, next, e)
        BY <3>3, <4>1 DEF SameOrder
      <4>3. Before(todo, next, e)
        BY <1>1, <3>2, <3>3, <4>2 DEF SameOrder
      <4>4. next # f
        BY <1>1, <3>2, ElementsOfTail DEF ToServe
      <4>5. Before(Tail(todo), next, e)
        BY <1>1, <4>3, <4>4, BeforeInTail
      <4> QED
        BY <1>1, <4>5, BeforeInTail DEF GoesOn
    <3>5. ToServe(a) \subseteq ToServe(h)' /\ ToServe(a)' = ToServe(a)
      BY <2>2, <2>5, <3>2, <3>4 DEF GoesOn, ToServe
    <3>6. Head(cast'[a].todo) = next /\ Head(cast'[h].todo) = e
      BY <2>2, <2>5, <3>1 DEF GoesOn
    <3>7. next \in ToServe(h)' \/ next = e
      BY <3>2 DEF GoesOn
    <3>8. Before(queue'[e], a, h) \/ next # e
      <4>1. a \in ToSet(queue[next])
        BY <2>5, <3>1 DEF OrderInv, InLine
      <4>2. a \in ToSet(Dequeued(f)[next])
        BY <1>3, <2>2, <2>5, <4>1 DEF KeepsPlaces
      <4> QED
        BY <1>4, <4>2 DEF Joins
    <3> QED
      BY <2>5, <3>5, <3>6, <3>7, <3>8 DEF Behind
  <2> QED
    BY <2>3, <2>4, <2>5
<1> QED
  BY <1>5, <1>6, <1>7 DEF OrderInv


-----------------------------------------------------------------------------
(* The last word, step by step.                                            *)

NewsInv == ~ disturbed /\ ~ silent => NewsIsOut

Latest == OrderInv /\ NewsInv /\ LastWordIsCurrent

LEMMA ChangeKeepsLatest ==
  ASSUME BInv, Latest, NEW h \in Handlers, Change(h)
  PROVE  Latest'
<1>1. /\ at[h] \in {"idle", "working"} /\ at'[h] = "working"
      /\ \A g \in Handlers \ {h} : at'[g] = at[g]
      /\ UNCHANGED <<clients, cast, queue, disturbed>>
  BY DEF Change, BInv, BroadcastTypeOK
<1>2. OrderInv'
  <2>1. Settled
    BY <1>1, ClientsSettle
  <2>2. KeepsPlaces(h, queue')
    BY <1>1, NobodyMoves
  <2>3. \A g \in Handlers : at'[g] = "casting" =>
          g # h /\ at[g] = "casting" /\ cast'[g] = cast[g]
    BY <1>1
  <2> QED
    BY <2>1, <2>2, <2>3, OrderKept DEF Latest
<1>3. NewsInv'
  BY <1>1 DEF NewsInv, NewsIsOut
<1>4. LastWordIsCurrent'
  BY <1>1 DEF LastWordIsCurrent, UpdateOnItsWay
<1> QED
  BY <1>2, <1>3, <1>4 DEF Latest

LEMMA HandlerRaisesKeepsLatest ==
  ASSUME BInv, Latest, NEW h \in Handlers, HandlerRaises(h)
  PROVE  Latest'
<1>1. /\ at'[h] = "idle" /\ silent' = TRUE
      /\ \A g \in Handlers \ {h} : at'[g] = at[g]
      /\ UNCHANGED <<clients, cast, queue, disturbed>>
  BY DEF HandlerRaises, BInv, BroadcastTypeOK
<1>2. OrderInv'
  <2>1. Settled
    BY <1>1, ClientsSettle
  <2>2. KeepsPlaces(h, queue')
    BY <1>1, NobodyMoves
  <2>3. \A g \in Handlers : at'[g] = "casting" =>
          g # h /\ at[g] = "casting" /\ cast'[g] = cast[g]
    BY <1>1
  <2> QED
    BY <2>1, <2>2, <2>3, OrderKept DEF Latest
<1>3. NewsInv' /\ LastWordIsCurrent'
  BY <1>1 DEF NewsInv, LastWordIsCurrent
<1> QED
  BY <1>2, <1>3 DEF Latest

\* A broadcast carries the newest snapshot when it begins, to whoever is in
\* the set.
LEMMA StartKeepsLatest ==
  ASSUME BInv, Latest, NEW h \in Handlers, StartBroadcast(h)
  PROVE  Latest'
<1>1. CASE clients = << >>
  <2>1. /\ at'[h] = "idle" /\ at[h] = "working" /\ \A g \in Handlers \ {h} : at'[g] = at[g]
        /\ UNCHANGED <<clients, cast, queue>>
        /\ disturbed' = (disturbed /\ \E g \in Handlers : at[g] = "casting")
    BY <1>1 DEF StartBroadcast, NobodyListens, BInv, BroadcastTypeOK
  <2>2. ToSet(clients) = {}
    BY <1>1 DEF ToSet
  <2>3. ASSUME ~ disturbed', NEW g \in Handlers PROVE at'[g] # "casting"
    <3> SUFFICES ASSUME at'[g] = "casting" PROVE FALSE
      OBVIOUS
    <3>1. at[g] = "casting" /\ ~ disturbed
      BY <2>1, <2>3
    <3>2. ToSet(cast[g].todo) \subseteq ToSet(clients)
      BY <3>1 DEF Latest, OrderInv, Orders
    <3> QED
      BY <2>2, <3>1, <3>2, CastFacts
  <2>4. InLine'
    BY <2>1, NobodyMoves, InLineKept DEF Latest, OrderInv, InLine
  <2>5. ~ disturbed' => Orders' /\ NoneOvertakes' /\ NewsIsOut'
    BY <2>3 DEF Orders, NoneOvertakes, NewsIsOut
  <2>6. LastWordIsCurrent'
    BY <2>1, <2>2 DEF LastWordIsCurrent, Served
  <2> QED
    BY <2>4, <2>5, <2>6 DEF Latest, OrderInv, NewsInv
<1>2. CASE clients # << >>
  <2>1. OrderInv'
    BY <1>2, StartKeepsOrder DEF Latest
  <2>2. /\ clients \in Seq(Dashboards)
        /\ at'[h] = "casting" /\ cast'[h].snapshot = version /\ cast'[h].todo = clients
        /\ Hand(queue, h, Head(clients), version)
        /\ UNCHANGED <<version, clients, link>>
        /\ sent \in [Dashboards -> Versions \cup {None}]
    BY <1>2 DEF StartBroadcast, NobodyListens, Recipients, BInv, BroadcastTypeOK
  <2>3. PICK e \in Dashboards :
          e = Head(clients) /\ ToSet(clients) = {e} \cup ToSet(Tail(clients))
    BY <1>2, <2>2, ElementsOfTail
  <2>4. NewsInv'
    BY <2>2 DEF NewsInv, NewsIsOut
  <2>5. ASSUME NEW d \in Dashboards, Served(d)'
        PROVE  sent'[d] = version' \/ UpdateOnItsWay(d)'
    <3>1. d \in ToSet(clients) /\ link[d] = "open"
      BY <2>2, <2>5 DEF Served
    <3>2. CASE d = e
      BY <2>2, <2>3, <3>1, <3>2 DEF Hand
    <3>3. CASE d # e
      <4>1. d \in ToSet(Tail(cast'[h].todo))
        BY <2>2, <2>3, <3>1, <3>3
      <4> QED
        BY <2>2, <4>1 DEF UpdateOnItsWay
    <3> QED
      BY <3>2, <3>3
  <2>6. LastWordIsCurrent'
    BY <2>5 DEF LastWordIsCurrent
  <2> QED
    BY <2>1, <2>4, <2>6 DEF Latest
<1> QED
  BY <1>1, <1>2


\* An old snapshot is handed to no one whom a newer one does not reach later.
LEMMA NextClientKeepsLatest ==
  ASSUME BInv, Latest, NEW h \in Handlers, at[h] = "casting",
         NEW dead \in SUBSET Dashboards,
         NEW f \in Dashboards, f = Head(cast[h].todo),
         queue[f] # << >>, Head(queue[f]) = h,
         NextClient(h, dead), UNCHANGED <<version, link, silent>>
  PROVE  Latest'
<1>1. CASE Tail(cast[h].todo) = << >>
  <2>1. /\ at'[h] = "idle" /\ \A g \in (Handlers \cup Dashboards) \ {h} : at'[g] = at[g]
        /\ \A g \in Handlers \ {h} : cast'[g] = cast[g]
        /\ queue' = Dequeued(f) /\ DropClients(dead) /\ UNCHANGED sent
    BY <1>1 DEF NextClient, BInv, BroadcastTypeOK
  <2>2. Settled
    BY <2>1, ClientsSettle
  <2>3. OrderInv'
    <3>1. KeepsPlaces(h, queue')
      BY <2>1, DequeuedKeepsPlaces
    <3>2. \A g \in Handlers : at'[g] = "casting" =>
            g # h /\ at[g] = "casting" /\ cast'[g] = cast[g]
      BY <2>1
    <3> QED
      BY <2>2, <3>1, <3>2, OrderKept DEF Latest
  <2>4. ToServe(h) = {}
    BY <1>1 DEF ToServe, ToSet
  <2>5. ASSUME ~ disturbed', ~ silent' PROVE NewsIsOut'
    <3> SUFFICES ASSUME NEW g \in Handlers, at'[g] = "casting", cast'[g].snapshot < version
                 PROVE  \E x \in Handlers :
                          \/ at'[x] = "working"
                          \/ at'[x] = "casting" /\ cast'[x].snapshot = version
      BY DEF NewsIsOut
    <3>1. /\ ~ disturbed /\ g # h /\ at[g] = "casting" /\ cast'[g] = cast[g]
          /\ NewsIsOut /\ NoneOvertakes
      BY <2>1, <2>2, <2>5 DEF Settled, Latest, NewsInv, OrderInv
    <3>2. PICK x \in Handlers :
            at[x] = "working" \/ (at[x] = "casting" /\ cast[x].snapshot = version)
      BY <3>1 DEF NewsIsOut
    <3>3. x # h
      <4> SUFFICES ASSUME x = h PROVE FALSE
        OBVIOUS
      <4>1. cast[g].snapshot < cast[h].snapshot
        BY <3>1, <3>2
      <4> QED
        BY <2>4, <3>1, <4>1, LastIsLast
    <3> QED
      BY <2>1, <3>2, <3>3
  <2>6. ASSUME NEW d \in Dashboards, Served(d)', ~ silent', ~ disturbed'
        PROVE  sent'[d] = version' \/ UpdateOnItsWay(d)'
    <3>1. Served(d) /\ ~ silent /\ ~ disturbed
      <4>1. ToSet(clients') \subseteq ToSet(clients)
        BY <2>1, DropEffect DEF ClientsBecome
      <4> QED
        BY <2>2, <2>6, <4>1 DEF Served, Settled
    <3>2. sent[d] = version \/ UpdateOnItsWay(d)
      BY <3>1 DEF Latest, LastWordIsCurrent
    <3>3. UpdateOnItsWay(d) => UpdateOnItsWay(d)'
      <4>1. h \notin Dashboards
        BY BroadcastAssumption
      <4> QED
        BY <2>1, <2>4, <4>1 DEF UpdateOnItsWay, ToServe
    <3> QED
      BY <2>1, <3>2, <3>3
  <2> QED
    BY <2>3, <2>5, <2>6 DEF Latest, NewsInv, LastWordIsCurrent
<1>2. CASE Tail(cast[h].todo) # << >>
  <2>1. PICK e \in Dashboards : GoesOn(h, e)
    BY <1>2, NextClientGoesOn
  <2>2. OrderInv'
    BY <2>1, NextKeepsOrder DEF Latest
  <2>3. /\ UNCHANGED <<at, clients, disturbed>>
        /\ \A g \in Handlers \ {h} : cast'[g] = cast[g]
        /\ \A g \in Handlers : cast'[g].snapshot = cast[g].snapshot
        /\ ToServe(h) = {e} \cup ToServe(h)'
        /\ Hand(Dequeued(f), h, e, cast[h].snapshot)
    BY <2>1 DEF GoesOn
  <2>4. NewsInv'
    BY <2>3 DEF Latest, NewsInv, NewsIsOut
  <2>5. /\ \A d \in Dashboards \ {e} : sent'[d] = sent[d]
        /\ link[e] = "open" => sent'[e] = cast[h].snapshot
    BY <2>3 DEF Hand, BInv, BroadcastTypeOK
  <2>6. ASSUME NEW d \in Dashboards, Served(d)', ~ silent', ~ disturbed'
        PROVE  sent'[d] = version' \/ UpdateOnItsWay(d)'
    <3>1. /\ Served(d) /\ ~ silent /\ ~ disturbed
          /\ NewsIsOut /\ NoneOvertakes
      BY <2>3, <2>6 DEF Served, Latest, NewsInv, OrderInv
    <3>2. CASE d # e
      <4>1. sent[d] = version \/ UpdateOnItsWay(d)
        BY <3>1 DEF Latest, LastWordIsCurrent
      <4>2. UpdateOnItsWay(d) => UpdateOnItsWay(d)'
        <5>1. \A g \in Handlers : d \in ToServe(g) => d \in ToServe(g)'
          BY <2>3, <3>2 DEF ToServe
        <5> QED
          BY <2>3, <5>1 DEF UpdateOnItsWay, ToServe
      <4> QED
        BY <2>5, <3>2, <4>1, <4>2
    <3>3. CASE d = e /\ cast[h].snapshot = version
      BY <2>5, <3>1, <3>3 DEF Served
    <3>4. CASE d = e /\ cast[h].snapshot < version
      <4>1. PICK g \in Handlers :
              at[g] = "working" \/ (at[g] = "casting" /\ cast[g].snapshot = version)
        BY <3>1, <3>4 DEF NewsIsOut
      <4>2. CASE at[g] = "working"
        BY <2>3, <4>2 DEF UpdateOnItsWay
      <4>3. CASE at[g] = "casting" /\ cast[g].snapshot = version
        <5>1. ToServe(h) \subseteq ToServe(g) /\ g # h
          BY <3>1, <3>4, <4>3, CastFacts DEF NoneOvertakes, Behind
        <5>2. d \in ToSet(Tail(cast'[g].todo)) /\ at'[g] = "casting"
              /\ cast'[g].snapshot = version'
          BY <2>3, <3>4, <4>3, <5>1 DEF ToServe
        <5> QED
          BY <5>2 DEF UpdateOnItsWay
      <4> QED
        BY <4>1, <4>2, <4>3
    <3>5. cast[h].snapshot = version \/ cast[h].snapshot < version
      <4>1. cast[h].snapshot \in Nat /\ cast[h].snapshot <= version
        BY <1>1, CastFacts
      <4>2. version \in Nat
        BY BroadcastAssumption DEF BInv, BroadcastTypeOK, Versions
      <4> QED
        BY <4>1, <4>2
    <3> QED
      BY <3>2, <3>3, <3>4, <3>5
  <2> QED
    BY <2>2, <2>4, <2>6 DEF Latest, LastWordIsCurrent
<1> QED
  BY <1>1, <1>2

LEMMA SendKeepsLatest ==
  ASSUME BInv, Latest, NEW h \in Handlers, SendReturned(h) \/ SendRaised(h)
  PROVE  Latest'
<1>1. at[h] = "casting" /\ UNCHANGED <<version, link, silent>>
  BY DEF SendReturned, SendRaised
<1>2. PICK f \in Dashboards : f = Head(cast[h].todo)
  BY <1>1, CastFacts
<1>3. queue[f] # << >> /\ Head(queue[f]) = h
  BY <1>2 DEF SendReturned, SendRaised, Returns, Raises
<1>4. cast[h].dead \in SUBSET Dashboards
  BY <1>1 DEF BInv, BroadcastTypeOK, Cast
<1>5. CASE SendReturned(h)
  <2>1. NextClient(h, cast[h].dead)
    BY <1>5 DEF SendReturned
  <2> QED
    BY <1>1, <1>2, <1>3, <1>4, <2>1, NextClientKeepsLatest
<1>6. CASE SendRaised(h)
  <2>1. PICK dead \in SUBSET Dashboards : NextClient(h, dead)
    <3>1. cast[h].dead \cup {f} \in SUBSET Dashboards
      BY <1>4
    <3> QED
      BY <1>2, <1>6, <3>1 DEF SendRaised
  <2> QED
    BY <1>1, <1>2, <1>3, <2>1, NextClientKeepsLatest
<1> QED
  BY <1>5, <1>6

\* An endpoint's step leaves the broadcasts where they are.  Whom it adds to
\* the set, or hands a snapshot, has the newest or is about to.
LEMMA EndpointKeepsLatest ==
  ASSUME BInv, Latest, NEW d \in Dashboards, Settled, KeepsPlaces(d, queue'),
         \A h \in Handlers : at'[h] = at[h],
         UNCHANGED <<version, cast, silent>>,
         \A e \in Dashboards : Served(e)' =>
           \/ at'[e] = "subscribing" \/ sent'[e] = version
           \/ Served(e) /\ sent'[e] = sent[e] /\ at[e] # "subscribing"
  PROVE  Latest'
<1>1. \A h \in Handlers : h # d
  BY BroadcastAssumption
<1>2. OrderInv'
  <2>1. \A h \in Handlers : at'[h] = "casting" =>
          h # d /\ at[h] = "casting" /\ cast'[h] = cast[h]
    BY <1>1
  <2> QED
    BY <2>1, OrderKept DEF Latest
<1>3. NewsInv'
  BY DEF Latest, NewsInv, NewsIsOut, Settled
<1>4. LastWordIsCurrent'
  <2> SUFFICES ASSUME NEW e \in Dashboards, Served(e)', ~ silent', ~ disturbed'
               PROVE  sent'[e] = version' \/ UpdateOnItsWay(e)'
    BY DEF LastWordIsCurrent
  <2>1. CASE at'[e] = "subscribing"
    BY <2>1 DEF UpdateOnItsWay
  <2>2. CASE Served(e) /\ sent'[e] = sent[e] /\ at[e] # "subscribing"
    <3>1. sent[e] = version \/ UpdateOnItsWay(e)
      BY <2>2 DEF Latest, LastWordIsCurrent, Settled
    <3>2. UpdateOnItsWay(e) => UpdateOnItsWay(e)'
      BY <2>2 DEF UpdateOnItsWay
    <3> QED
      BY <2>2, <3>1, <3>2
  <2> QED
    BY <2>1, <2>2
<1> QED
  BY <1>2, <1>3, <1>4 DEF Latest


LEMMA EndpointStepsKeepLatest ==
  ASSUME BInv, Latest, NEW d \in Dashboards,
         Connect(d) \/ Subscribe(d) \/ EndpointStep(d)
  PROVE  Latest'
<1>1. /\ at \in [Handlers \cup Dashboards ->
                   {"idle", "working", "casting",
                    "accepted", "subscribing", "greeting", "recv", "done"}]
      /\ link \in [Dashboards -> {"free", "open", "lost", "closed"}]
      /\ sent \in [Dashboards -> Versions \cup {None}]
      /\ \A h \in Handlers : h # d
  BY BroadcastAssumption DEF BInv, BroadcastTypeOK
<1>2. UNCHANGED <<version, cast, silent>>
  BY DEF Connect, Subscribe, EndpointStep, SendClusterStateTo, StateSent, StateFailed,
         Disconnect
<1>3. (\A h \in Handlers : at'[h] = at[h]) /\ \A e \in Dashboards \ {d} : at'[e] = at[e]
  BY <1>1 DEF Connect, Subscribe, EndpointStep, SendClusterStateTo, StateSent, StateFailed,
              Disconnect
<1>4. CASE Connect(d)
  <2>1. Settled /\ KeepsPlaces(d, queue')
    BY <1>4, ClientsSettle, NobodyMoves DEF Connect
  <2>2. /\ UNCHANGED <<clients, sent>>
        /\ \A e \in Dashboards \ {d} : link'[e] = link[e]
    BY <1>1, <1>4 DEF Connect
  <2>3. d \notin ToSet(clients)
    BY <1>4 DEF Connect, BInv, Members, Subscribed
  <2>4. ASSUME NEW e \in Dashboards, Served(e)'
        PROVE  \/ at'[e] = "subscribing" \/ sent'[e] = version
               \/ Served(e) /\ sent'[e] = sent[e] /\ at[e] # "subscribing"
    BY <1>3, <2>2, <2>3, <2>4 DEF Served
  <2> QED
    BY <1>2, <1>3, <2>1, <2>4, EndpointKeepsLatest
<1>5. CASE Subscribe(d)
  <2>1. Settled
    BY <1>5, ClientsSettle DEF Subscribe
  <2>2. KeepsPlaces(d, queue')
    <3>1. NotIn(d, queue)
      BY <1>5, AwakeIsNotQueued DEF Subscribe, Suspended
    <3>2. queue' = [queue EXCEPT ![d] = Append(@, d)]
      BY <1>5 DEF Subscribe
    <3> QED
      BY <3>1, <3>2, NobodyMoves, HandKeepsPlaces
  <2>3. UNCHANGED <<link, sent>> /\ at'[d] = "subscribing"
    BY <1>1, <1>5 DEF Subscribe
  <2>4. ToSet(clients') = ToSet(clients) \cup {d}
    BY <1>5, AddEffect DEF Subscribe, ClientsBecome
  <2>5. ASSUME NEW e \in Dashboards, Served(e)'
        PROVE  \/ at'[e] = "subscribing" \/ sent'[e] = version
               \/ Served(e) /\ sent'[e] = sent[e] /\ at[e] # "subscribing"
    BY <1>3, <2>3, <2>4, <2>5 DEF Served
  <2> QED
    BY <1>2, <1>3, <2>1, <2>2, <2>5, EndpointKeepsLatest
<1>6. CASE SendClusterStateTo(d)
  <2>1. Settled
    BY <1>6, ClientsSettle DEF SendClusterStateTo
  <2>2. KeepsPlaces(d, queue')
    <3>1. NotIn(d, Dequeued(d)) /\ KeepsPlaces(d, Dequeued(d))
      BY <1>6, ResumedIsNotQueued, DequeuedKeepsPlaces DEF SendClusterStateTo, Returns
    <3>2. queue' = [Dequeued(d) EXCEPT ![d] = Append(@, d)]
      BY <1>6 DEF SendClusterStateTo, Hand
    <3> QED
      BY <3>1, <3>2, HandKeepsPlaces
  <2>3. /\ UNCHANGED <<link, clients>>
        /\ link[d] = "open" => sent'[d] = version
        /\ \A e \in Dashboards \ {d} : sent'[e] = sent[e]
    BY <1>1, <1>6 DEF SendClusterStateTo, Hand
  <2>4. ASSUME NEW e \in Dashboards, Served(e)'
        PROVE  \/ at'[e] = "subscribing" \/ sent'[e] = version
               \/ Served(e) /\ sent'[e] = sent[e] /\ at[e] # "subscribing"
    BY <1>3, <2>3, <2>4 DEF Served
  <2> QED
    BY <1>2, <1>3, <2>1, <2>2, <2>4, EndpointKeepsLatest
<1>7. CASE StateSent(d) \/ StateFailed(d) \/ Disconnect(d)
  <2>1. Settled
    BY <1>7, ClientsSettle DEF StateSent, StateFailed, Disconnect
  <2>2. KeepsPlaces(d, queue')
    BY <1>7, NobodyMoves, DequeuedKeepsPlaces
    DEF StateSent, StateFailed, Disconnect, Returns, Raises
  <2>3. /\ UNCHANGED <<link, sent>>
        /\ at[d] = "greeting" \/ link[d] = "closed"
    BY <1>7 DEF StateSent, StateFailed, Disconnect
  <2>4. ToSet(clients') \subseteq ToSet(clients)
    BY <1>7, DiscardEffect DEF StateSent, StateFailed, Disconnect, ClientsBecome
  <2>5. ASSUME NEW e \in Dashboards, Served(e)'
        PROVE  \/ at'[e] = "subscribing" \/ sent'[e] = version
               \/ Served(e) /\ sent'[e] = sent[e] /\ at[e] # "subscribing"
    BY <1>3, <2>3, <2>4, <2>5 DEF Served
  <2> QED
    BY <1>2, <1>3, <2>1, <2>2, <2>5, EndpointKeepsLatest
<1> QED
  BY <1>4, <1>5, <1>6, <1>7 DEF EndpointStep

LEMMA LinkKeepsLatest ==
  ASSUME BInv, Latest, NEW d \in Dashboards,
         LoseConnection(d) \/ NoticeLoss(d) \/ GetStatus(d) \/ PageStep(d)
  PROVE  Latest'
<1>1. /\ UNCHANGED <<version, clients, at, cast, queue, silent, disturbed>>
      /\ \A e \in Dashboards : link'[e] = "open" => link[e] = "open" /\ sent'[e] = sent[e]
  BY DEF LoseConnection, NoticeLoss, GetStatus, PageStep, ShowPushed, ShowFetched,
         BInv, BroadcastTypeOK
<1>2. Settled /\ KeepsPlaces(d, queue')
  BY <1>1, ClientsSettle, NobodyMoves
<1>3. \A e \in Dashboards : Served(e)' =>
        \/ at'[e] = "subscribing" \/ sent'[e] = version
        \/ Served(e) /\ sent'[e] = sent[e] /\ at[e] # "subscribing"
  BY <1>1 DEF Served
<1> QED
  BY <1>1, <1>2, <1>3, EndpointKeepsLatest

-----------------------------------------------------------------------------
(* The pages.                                                              *)

LEMMA LastOfTail ==
  ASSUME NEW S, NEW s \in Seq(S), s # << >>
  PROVE  IF Tail(s) = << >> THEN Head(s) = Last(s) ELSE Last(Tail(s)) = Last(s)
<1>1. /\ Len(s) \in Nat /\ Len(s) > 0 /\ Tail(s) \in Seq(S)
      /\ Len(Tail(s)) = Len(s) - 1 /\ Head(s) = s[1]
      /\ \A i \in 1 .. Len(s) - 1 : Tail(s)[i] = s[i + 1]
  BY HeadTailProperties, LenProperties, EmptySeq
<1>2. CASE Tail(s) = << >>
  <2>1. Len(s) = 1
    BY <1>1, <1>2, EmptySeq
  <2> QED
    BY <1>1, <1>2, <2>1 DEF Last
<1>3. CASE Tail(s) # << >>
  <2>1. Len(s) - 1 # 0
    BY <1>1, <1>3, EmptySeq
  <2>2. Len(s) - 1 \in 1 .. Len(s) - 1 /\ (Len(s) - 1) + 1 = Len(s)
    BY <1>1, <2>1
  <2> QED
    BY <1>1, <1>3, <2>2 DEF Last
<1> QED
  BY <1>2, <1>3

LEMMA LastOfAppend ==
  ASSUME NEW S, NEW s \in Seq(S), NEW x \in S
  PROVE  Append(s, x) # << >> /\ Last(Append(s, x)) = x
<1>1. /\ Len(s) \in Nat /\ Len(Append(s, x)) = Len(s) + 1
      /\ Append(s, x)[Len(s) + 1] = x
  BY AppendProperties, LenProperties
<1>2. Len(Append(s, x)) # 0
  BY <1>1
<1> QED
  BY <1>1, <1>2, EmptySeq DEF Last

LEMMA HandKeepsPages ==
  ASSUME BInv, PageFollows, NEW q, NEW c, NEW e \in Dashboards, NEW v \in Versions,
         Hand(q, c, e, v), UNCHANGED <<link, shown, answers, fetched>>
  PROVE  PageFollows'
<1>1. /\ inbox \in [Dashboards -> Seq(Versions)]
      /\ sent \in [Dashboards -> Versions \cup {None}]
      /\ \A d \in Pages : d \in Dashboards
  BY BroadcastAssumption DEF BInv, BroadcastTypeOK
<1>2. CASE link[e] = "open"
  <2>1. /\ \A d \in Dashboards \ {e} : inbox'[d] = inbox[d] /\ sent'[d] = sent[d]
        /\ sent'[e] = v
        /\ e \in Pages => inbox'[e] = Append(inbox[e], v)
    BY <1>1, <1>2 DEF Hand
  <2>2. Append(inbox[e], v) # << >> /\ Last(Append(inbox[e], v)) = v
    BY <1>1, LastOfAppend
  <2>3. ASSUME NEW d \in Pages
        PROVE  /\ link[d] = "free" => inbox'[d] = << >>
               /\ link[d] = "open" /\ inbox'[d] # << >> => Last(inbox'[d]) = sent'[d]
               /\ link[d] \in {"free", "open"} /\ inbox'[d] = << >> =>
                    shown[d] = sent'[d] \/ fetched[d]
    <3>1. CASE d = e
      BY <1>2, <2>1, <2>2, <3>1
    <3>2. CASE d # e
      BY <1>1, <2>1, <3>2 DEF PageFollows
    <3> QED
      BY <3>1, <3>2
  <2> QED
    BY <2>3 DEF PageFollows
<1>3. CASE link[e] # "open"
  <2>1. UNCHANGED <<inbox, sent>>
    BY <1>3 DEF Hand
  <2> QED
    BY <2>1 DEF PageFollows
<1> QED
  BY <1>2, <1>3


LEMMA PageFollowsKept ==
  ASSUME BInv, PageFollows, [BroadcastNext]_broadcastVars
  PROVE  PageFollows'
<1>1. /\ inbox \in [Dashboards -> Seq(Versions)]
      /\ link \in [Dashboards -> {"free", "open", "lost", "closed"}]
      /\ shown \in [Dashboards -> Versions \cup {None}]
      /\ answers \in [Dashboards -> SUBSET Versions]
      /\ fetched \in [Dashboards -> BOOLEAN]
      /\ sent \in [Dashboards -> Versions \cup {None}]
      /\ version \in Versions
      /\ Pages \subseteq Dashboards
  BY BroadcastAssumption DEF BInv, BroadcastTypeOK
<1>2. CASE UNCHANGED <<link, inbox, shown, answers, fetched, sent>>
  BY <1>2 DEF PageFollows
<1>3. ASSUME NEW h \in Handlers, StartBroadcast(h) PROVE PageFollows'
  <2>1. UNCHANGED <<link, shown, answers, fetched>>
    BY <1>3 DEF StartBroadcast
  <2>2. CASE clients = << >>
    BY <1>2, <1>3, <2>1, <2>2 DEF StartBroadcast, NobodyListens
  <2>3. CASE clients # << >>
    <3>1. Hand(queue, h, Head(clients), version)
      BY <1>3, <2>3 DEF StartBroadcast, NobodyListens, Recipients
    <3>2. Head(clients) \in Dashboards
      BY <2>3, ElementsOfTail DEF BInv, BroadcastTypeOK
    <3> QED
      BY <1>1, <2>1, <3>1, <3>2, HandKeepsPages
  <2> QED
    BY <2>2, <2>3
<1>4. ASSUME NEW h \in Handlers, SendReturned(h) \/ SendRaised(h) PROVE PageFollows'
  <2>1. UNCHANGED <<link, shown, answers, fetched>> /\ at[h] = "casting"
    BY <1>4 DEF SendReturned, SendRaised
  <2>2. PICK dead : NextClient(h, dead)
    BY <1>4 DEF SendReturned, SendRaised
  <2>3. CASE Tail(cast[h].todo) = << >>
    BY <1>2, <2>1, <2>2, <2>3 DEF NextClient
  <2>4. CASE Tail(cast[h].todo) # << >>
    <3>1. PICK e \in Dashboards : GoesOn(h, e)
      BY <2>1, <2>2, <2>4, NextClientGoesOn
    <3>2. cast[h].snapshot \in Versions
      BY <2>1, NoCastAssumption DEF BInv, BroadcastTypeOK, Cast
    <3> QED
      BY <2>1, <3>1, <3>2, HandKeepsPages DEF GoesOn
  <2> QED
    BY <2>3, <2>4
<1>5. ASSUME NEW d \in Dashboards, SendClusterStateTo(d) PROVE PageFollows'
  BY <1>1, <1>5, HandKeepsPages DEF SendClusterStateTo
<1>6. ASSUME NEW d \in Dashboards, Connect(d) PROVE PageFollows'
  <2>1. /\ link[d] = "free" /\ link'[d] = "open"
        /\ \A e \in Dashboards \ {d} : link'[e] = link[e]
        /\ UNCHANGED <<inbox, shown, answers, fetched, sent>>
    BY <1>1, <1>6 DEF Connect, pageVars, BInv, Roles
  <2> QED
    BY <1>1, <2>1 DEF PageFollows
<1>7. ASSUME NEW d \in Dashboards, LoseConnection(d) \/ NoticeLoss(d) PROVE PageFollows'
  <2>1. /\ link'[d] \in {"lost", "closed"}
        /\ \A e \in Dashboards \ {d} :
             /\ link'[e] = link[e] /\ inbox'[e] = inbox[e] /\ shown'[e] = shown[e]
             /\ answers'[e] = answers[e] /\ fetched'[e] = fetched[e] /\ sent'[e] = sent[e]
    BY <1>1, <1>7 DEF LoseConnection, NoticeLoss, pageVars
  <2> QED
    BY <1>1, <2>1 DEF PageFollows
<1>8. ASSUME NEW d \in Dashboards, GetStatus(d) \/ PageStep(d) PROVE PageFollows'
  <2>1. /\ UNCHANGED <<link, sent>>
        /\ \A e \in Dashboards \ {d} :
             /\ inbox'[e] = inbox[e] /\ shown'[e] = shown[e]
             /\ answers'[e] = answers[e] /\ fetched'[e] = fetched[e]
    BY <1>1, <1>8 DEF GetStatus, PageStep, ShowPushed, ShowFetched
  <2>2. SUFFICES ASSUME d \in Pages
        PROVE  /\ link[d] = "free" => inbox'[d] = << >>
               /\ link[d] = "open" /\ inbox'[d] # << >> => Last(inbox'[d]) = sent[d]
               /\ link[d] \in {"free", "open"} /\ inbox'[d] = << >> =>
                    shown'[d] = sent[d] \/ fetched'[d]
    BY <1>1, <2>1 DEF PageFollows
  <2>3. CASE GetStatus(d)
    BY <1>1, <2>2, <2>3 DEF GetStatus, PageFollows
  <2>4. CASE ShowFetched(d)
    <3>1. UNCHANGED inbox /\ fetched'[d] = TRUE
      BY <1>1, <2>4 DEF ShowFetched
    <3> QED
      BY <2>2, <3>1 DEF PageFollows
  <2>5. CASE ShowPushed(d)
    <3>1. /\ inbox[d] # << >> /\ inbox[d] \in Seq(Versions)
          /\ inbox'[d] = Tail(inbox[d]) /\ shown'[d] = Head(inbox[d])
          /\ fetched'[d] = FALSE
      BY <1>1, <2>2, <2>5 DEF ShowPushed
    <3>2. IF Tail(inbox[d]) = << >> THEN Head(inbox[d]) = Last(inbox[d])
          ELSE Last(Tail(inbox[d])) = Last(inbox[d])
      BY <3>1, LastOfTail
    <3> QED
      BY <2>2, <3>1, <3>2 DEF PageFollows
  <2> QED
    BY <1>8, <2>3, <2>4, <2>5 DEF PageStep
<1>9. ASSUME NEW h \in Handlers, Change(h) \/ HandlerRaises(h) PROVE PageFollows'
  BY <1>2, <1>9 DEF Change, HandlerRaises, pageVars
<1>10. ASSUME NEW d \in Dashboards, Subscribe(d) \/ StateSent(d) \/ StateFailed(d) \/ Disconnect(d)
       PROVE  PageFollows'
  BY <1>2, <1>10 DEF Subscribe, StateSent, StateFailed, Disconnect, pageVars
<1>11. CASE UNCHANGED broadcastVars
  BY <1>2, <1>11 DEF broadcastVars, pageVars
<1> QED
  BY <1>3, <1>4, <1>5, <1>6, <1>7, <1>8, <1>9, <1>10, <1>11
  DEF BroadcastNext, HandlerStep, EndpointStep

-----------------------------------------------------------------------------
(* The theorems.                                                           *)

LEMMA LatestIsKept ==
  ASSUME BInv, Latest, [BroadcastNext]_broadcastVars
  PROVE  Latest'
<1>1. ASSUME NEW h \in Handlers, Change(h) \/ HandlerStep(h) PROVE Latest'
  BY <1>1, ChangeKeepsLatest, HandlerRaisesKeepsLatest, StartKeepsLatest, SendKeepsLatest
  DEF HandlerStep
<1>2. ASSUME NEW d \in Dashboards,
             \/ Connect(d) \/ Subscribe(d) \/ EndpointStep(d)
             \/ LoseConnection(d) \/ NoticeLoss(d)
             \/ GetStatus(d) \/ PageStep(d)
      PROVE  Latest'
  BY <1>2, EndpointStepsKeepLatest, LinkKeepsLatest
<1>3. CASE UNCHANGED broadcastVars
  <2>1. UNCHANGED <<version, clients, link, at, cast, queue, sent, silent, disturbed>>
    BY <1>3 DEF broadcastVars
  <2>2. OrderInv' /\ NewsInv'
    BY <2>1 DEF Latest, OrderInv, InLine, Orders, NoneOvertakes, Behind, ToServe,
                NewsInv, NewsIsOut
  <2>3. LastWordIsCurrent'
    BY <2>1 DEF Latest, LastWordIsCurrent, Served, UpdateOnItsWay
  <2> QED
    BY <2>2, <2>3 DEF Latest
<1> QED
  BY <1>1, <1>2, <1>3 DEF BroadcastNext

LEMMA WordInitHolds == BroadcastInit => WordInv
<1> SUFFICES ASSUME BroadcastInit PROVE WordInv
  OBVIOUS
<1> USE BroadcastAssumption DEF BroadcastInit
<1>1. \A h \in Handlers : at[h] = "idle"
  OBVIOUS
<1>2. InLine /\ Orders /\ NoneOvertakes /\ NewsIsOut
  BY <1>1 DEF InLine, Orders, NoneOvertakes, NewsIsOut
<1>3. LastWordIsCurrent
  BY DEF LastWordIsCurrent, Served
<1>4. PageFollows
  BY DEF PageFollows
<1> QED
  BY <1>2, <1>3, <1>4 DEF WordInv

\* While the enumeration of the set is not disturbed, broadcasts that overlap
\* serve every client in the order of their snapshots: none is behind on its
\* way and ahead in a queue (broadcastClusterState).
THEOREM OrderOfBroadcasts == BroadcastSpec => []WordInv
<1>1. BroadcastInit => WordInv
  BY WordInitHolds
<1>2. BInv /\ WordInv /\ [BroadcastNext]_broadcastVars => WordInv'
  <2> SUFFICES ASSUME BInv, WordInv, [BroadcastNext]_broadcastVars PROVE WordInv'
    OBVIOUS
  <2>1. Latest
    BY DEF WordInv, Latest, OrderInv, NewsInv
  <2>2. Latest' /\ PageFollows'
    BY <2>1, LatestIsKept, PageFollowsKept DEF WordInv
  <2> QED
    BY <2>2 DEF WordInv, Latest, OrderInv, NewsInv
<1> QED
  BY <1>1, <1>2, BroadcastInvariant, PTL DEF BroadcastSpec

\* The snapshot a subscribed and connected dashboard was handed last is the
\* newest, or one as new is due, unless a handler raised before its broadcast
\* or the enumeration of the set changed under one.
THEOREM LastWordIsNewest == BroadcastSpec => []LastWordIsCurrent
<1>1. WordInv => LastWordIsCurrent
  BY DEF WordInv
<1> QED
  BY <1>1, OrderOfBroadcasts, PTL

\* What a page shows once nothing is under way to it is the newest snapshot,
\* or one that came by HTTP (the CLUSTER_STATE handler and refreshSnapshot of
\* ClusterDashboard.jsx).
THEOREM PageCatchesUp == BroadcastSpec => []PageIsCurrent
<1>1. WordInv => PageIsCurrent
  <2> SUFFICES ASSUME WordInv, NEW d \in Pages,
                      Served(d), inbox[d] = << >>, ~ silent, ~ disturbed, ~ UpdateOnItsWay(d)
               PROVE  shown[d] = version \/ fetched[d]
    BY DEF PageIsCurrent
  <2>1. d \in Dashboards
    BY BroadcastAssumption
  <2>2. sent[d] = version
    BY <2>1 DEF WordInv, LastWordIsCurrent
  <2> QED
    BY <2>2 DEF WordInv, PageFollows, Served
<1> QED
  BY <1>1, OrderOfBroadcasts, PTL

=============================================================================
