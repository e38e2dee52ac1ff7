--------------------------- MODULE BroadcastProofs ---------------------------
(***************************************************************************)
(* Proofs, for any number of handlers, dashboards and changes, that the    *)
(* set of dashboard clients is right and that no dashboard is left behind. *)
(***************************************************************************)
EXTENDS BroadcastInv, FiniteSetTheorems, SequenceTheorems, TLAPS

-----------------------------------------------------------------------------
(* Sequences without duplicates.                                           *)

LEMMA ElementsOfTail ==
  ASSUME NEW S, NEW s \in Seq(S), s # << >>
  PROVE  /\ Head(s) \in S
         /\ Tail(s) \in Seq(S)
         /\ ToSet(s) = {Head(s)} \cup ToSet(Tail(s))
         /\ IsInjective(s) => IsInjective(Tail(s)) /\ ToSet(Tail(s)) = ToSet(s) \ {Head(s)}
<1> USE HeadTailProperties, LenProperties
<1>1. Len(s) \in Nat /\ Len(s) > 0 /\ Len(Tail(s)) = Len(s) - 1
  BY EmptySeq
<1>2. \A i \in 1 .. Len(Tail(s)) : Tail(s)[i] = s[i + 1]
  OBVIOUS
<1>3. Head(s) = s[1] /\ DOMAIN s = 1 .. Len(s) /\ DOMAIN Tail(s) = 1 .. Len(Tail(s))
  BY <1>1
<1>4. ToSet(s) = {Head(s)} \cup ToSet(Tail(s))
  <2>1. ASSUME NEW i \in 1 .. Len(s) PROVE s[i] \in {Head(s)} \cup ToSet(Tail(s))
    <3>1. CASE i = 1
      BY <3>1, <1>3
    <3>2. CASE i > 1
      <4>1. i - 1 \in 1 .. Len(Tail(s)) /\ Tail(s)[i - 1] = s[i]
        BY <3>2, <1>1, <1>2
      <4> QED
        BY <4>1, <1>3 DEF ToSet
    <3> QED
      BY <3>1, <3>2
  <2>2. ASSUME NEW i \in 1 .. Len(Tail(s)) PROVE Tail(s)[i] \in ToSet(s)
    <3>1. i + 1 \in 1 .. Len(s)
      BY <1>1
    <3> QED
      BY <3>1, <1>2, <1>3 DEF ToSet
  <2> QED
    BY <2>1, <2>2, <1>1, <1>3 DEF ToSet
<1>5. ASSUME IsInjective(s)
      PROVE  IsInjective(Tail(s)) /\ Head(s) \notin ToSet(Tail(s))
  <2>1. ASSUME NEW i \in 1 .. Len(Tail(s)) PROVE i + 1 \in 1 .. Len(s) /\ i + 1 # 1
    BY <1>1
  <2> QED
    BY <2>1, <1>1, <1>2, <1>3, <1>5 DEF IsInjective, ToSet
<1> QED
  BY <1>1, <1>3, <1>4, <1>5

LEMMA ElementsOfAppend ==
  ASSUME NEW S, NEW s \in Seq(S), NEW e \in S
  PROVE  /\ Append(s, e) \in Seq(S)
         /\ ToSet(Append(s, e)) = ToSet(s) \cup {e}
         /\ IsInjective(s) /\ e \notin ToSet(s) => IsInjective(Append(s, e))
<1> DEFINE t == Append(s, e)
<1>1. /\ t \in Seq(S)
      /\ Len(s) \in Nat /\ Len(t) = Len(s) + 1
      /\ \A i \in 1 .. Len(s) : t[i] = s[i]
      /\ t[Len(s) + 1] = e
  BY AppendProperties, LenProperties
<1>2. DOMAIN s = 1 .. Len(s) /\ DOMAIN t = 1 .. Len(s) + 1
  BY <1>1, LenProperties
<1> HIDE DEF t
<1>3. \A i \in DOMAIN t : i \in DOMAIN s \/ i = Len(s) + 1
  BY <1>1, <1>2
<1>4. \A i \in DOMAIN s : i \in DOMAIN t /\ i # Len(s) + 1
  BY <1>1, <1>2
<1>5. Len(s) + 1 \in DOMAIN t
  BY <1>1, <1>2
<1>6. ToSet(t) = ToSet(s) \cup {e}
  BY <1>1, <1>2, <1>3, <1>4, <1>5 DEF ToSet
<1>7. IsInjective(s) /\ e \notin ToSet(s) => IsInjective(t)
  BY <1>1, <1>2, <1>3, <1>4 DEF IsInjective, ToSet
<1> QED
  BY <1>1, <1>6, <1>7 DEF t

LEMMA ElementsAreFinite ==
  ASSUME NEW S, NEW s \in Seq(S)
  PROVE  IsFiniteSet(ToSet(s)) /\ ToSet(s) \subseteq S
<1>1. s \in [1 .. Len(s) -> S] /\ Len(s) \in Nat /\ DOMAIN s = 1 .. Len(s)
  BY LenProperties
<1>2. s \in Surjection(1 .. Len(s), ToSet(s))
  BY <1>1 DEF Surjection, ToSet
<1>3. IsFiniteSet(1 .. Len(s))
  BY <1>1, FS_Interval
<1> QED
  BY <1>1, <1>2, <1>3, FS_Surjection DEF ToSet

LEMMA EnumerationsOfSet ==
  ASSUME NEW S, IsFiniteSet(S), NEW s \in SetToSeqs(S)
  PROVE  s \in Seq(S) /\ ToSet(s) = S /\ IsInjective(s)
<1> DEFINE n == Cardinality(S)
<1>1. n \in Nat
  BY FS_CardinalityType
<1>2. s \in [1 .. n -> S] /\ \A i, j \in 1 .. n : i # j => s[i] # s[j]
  BY DEF SetToSeqs
<1>3. IsInjective(s) /\ DOMAIN s = 1 .. n
  BY <1>2 DEF IsInjective
<1>4. s \in Injection(1 .. n, S)
  BY <1>2, <1>3 DEF Injection
<1>5. Cardinality(1 .. n) = n
  BY <1>1, FS_Interval
<1>6. s \in Surjection(1 .. n, S)
  BY <1>4, <1>5, FS_Injection
<1>7. ToSet(s) = S
  BY <1>2, <1>3, <1>6 DEF Surjection, ToSet
<1>8. s \in Seq(S)
  BY <1>1, <1>2, SeqDef
<1> QED
  BY <1>3, <1>7, <1>8

LEMMA ElementsOfRemoveAt ==
  ASSUME NEW S, NEW s \in Seq(S), IsInjective(s), NEW i \in DOMAIN s
  PROVE  /\ RemoveAt(s, i) \in Seq(S)
         /\ IsInjective(RemoveAt(s, i))
         /\ ToSet(RemoveAt(s, i)) = ToSet(s) \ {s[i]}
<1> DEFINE n == Len(s)
           a == SubSeq(s, 1, i - 1)
           b == SubSeq(s, i + 1, n)
           t == a \o b
<1>1. /\ n \in Nat /\ DOMAIN s = 1 .. n /\ i \in 1 .. n
      /\ \A j \in 1 .. n : s[j] \in S
  BY LenProperties
<1>2. /\ a \in Seq(S) /\ Len(a) = i - 1
      /\ \A j \in 1 .. i - 1 : a[j] = s[j]
  <2>1. 1 \in Int /\ i - 1 \in Int /\ \A j \in 1 .. i - 1 : s[j] \in S
    BY <1>1
  <2> HIDE DEF n
  <2> QED
    BY <2>1, <1>1, SubSeqProperties
<1>3. /\ b \in Seq(S) /\ Len(b) = n - i
      /\ \A j \in 1 .. n - i : b[j] = s[i + j]
  <2>1. i + 1 \in Int /\ n \in Int /\ \A j \in i + 1 .. n : s[j] \in S
    BY <1>1
  <2> HIDE DEF n
  <2>2. /\ b \in Seq(S)
        /\ Len(b) = IF i + 1 <= n THEN n - (i + 1) + 1 ELSE 0
        /\ \A j \in 1 .. n - (i + 1) + 1 : b[j] = s[i + 1 + j - 1]
    BY <2>1, SubSeqProperties
  <2> HIDE DEF b
  <2> QED
    BY <2>2, <1>1
<1>4. RemoveAt(s, i) = t
  BY DEF RemoveAt
<1> HIDE DEF n, a, b
<1>5. /\ t \in Seq(S)
      /\ Len(t) = n - 1
      /\ \A j \in 1 .. n - 1 : t[j] = s[IF j < i THEN j ELSE j + 1]
  <2>1. /\ t \in Seq(S)
        /\ Len(t) = Len(a) + Len(b)
        /\ \A j \in 1 .. Len(a) + Len(b) :
             t[j] = IF j <= Len(a) THEN a[j] ELSE b[j - Len(a)]
    BY <1>2, <1>3, ConcatProperties
  <2> HIDE DEF t
  <2>2. Len(a) + Len(b) = n - 1
    BY <1>1, <1>2, <1>3
  <2>3. ASSUME NEW j \in 1 .. n - 1
        PROVE  t[j] = s[IF j < i THEN j ELSE j + 1]
    <3>1. t[j] = IF j <= i - 1 THEN a[j] ELSE b[j - (i - 1)]
      BY <2>1, <2>2, <1>2
    <3>2. CASE j < i
      <4>1. j \in 1 .. i - 1 /\ j <= i - 1
        BY <3>2, <1>1
      <4> QED
        BY <3>1, <3>2, <4>1, <1>2
    <3>3. CASE ~ (j < i)
      <4>1. j - (i - 1) \in 1 .. n - i /\ ~ (j <= i - 1) /\ i + (j - (i - 1)) = j + 1
        BY <3>3, <1>1
      <4>2. b[j - (i - 1)] = s[i + (j - (i - 1))]
        BY <4>1, <1>3
      <4> QED
        BY <3>1, <3>3, <4>1, <4>2
    <3> QED
      BY <3>2, <3>3
  <2> QED
    BY <2>1, <2>2, <2>3
<1>6. DOMAIN t = 1 .. n - 1
  BY <1>5, LenProperties
<1> HIDE DEF t
<1> DEFINE from(j) == IF j < i THEN j ELSE j + 1
<1>7. ASSUME NEW j \in 1 .. n - 1
      PROVE  from(j) \in 1 .. n /\ from(j) # i /\ t[j] = s[from(j)]
  BY <1>1, <1>5
<1>8. IsInjective(t)
  <2> SUFFICES ASSUME NEW j \in 1 .. n - 1, NEW k \in 1 .. n - 1, t[j] = t[k]
               PROVE  j = k
    BY <1>6 DEF IsInjective
  <2>1. from(j) = from(k)
    BY <1>1, <1>7 DEF IsInjective
  <2> QED
    BY <2>1, <1>1
<1>9. ASSUME NEW j \in 1 .. n - 1 PROVE t[j] \in ToSet(s) \ {s[i]}
  <2> HIDE DEF from
  <2> QED
    BY <1>1, <1>7 DEF ToSet, IsInjective
<1>10. ASSUME NEW j \in 1 .. n, j # i PROVE s[j] \in ToSet(t)
  <2>1. CASE j < i
    <3>1. j \in DOMAIN t /\ t[j] = s[j]
      BY <2>1, <1>1, <1>5, <1>6
    <3> QED
      BY <3>1 DEF ToSet
  <2>2. CASE j > i
    <3>1. j - 1 \in DOMAIN t /\ t[j - 1] = s[j]
      BY <2>2, <1>1, <1>5, <1>6
    <3> QED
      BY <3>1 DEF ToSet
  <2> QED
    BY <2>1, <2>2, <1>1, <1>10
<1>11. ToSet(t) = ToSet(s) \ {s[i]}
  <2>1. ToSet(t) \subseteq ToSet(s) \ {s[i]}
    BY <1>6, <1>9 DEF ToSet
  <2>2. ASSUME NEW x \in ToSet(s) \ {s[i]} PROVE x \in ToSet(t)
    <3>1. PICK j \in 1 .. n : x = s[j] /\ j # i
      BY <1>1 DEF ToSet
    <3> QED
      BY <3>1, <1>10
  <2> QED
    BY <2>1, <2>2
<1> QED
  BY <1>4, <1>5, <1>8, <1>11

-----------------------------------------------------------------------------
(* What the operations on the set of clients do, whatever the order its    *)
(* enumeration ends up in.                                                 *)

\* The set of clients is now m.
ClientsBecome(m) ==
  /\ clients' \in Seq(Dashboards)
  /\ IsInjective(clients')
  /\ ToSet(clients') = m
  /\ disturbed' \in BOOLEAN

LEMMA AddEffect ==
  ASSUME BInv, NEW d \in Dashboards, AddClient(d)
  PROVE  ClientsBecome(ToSet(clients) \cup {d})
<1> DEFINE m == ToSet(clients) \cup {d}
<1>1. clients \in Seq(Dashboards) /\ disturbed \in BOOLEAN
  BY DEF BInv, BroadcastTypeOK
<1>2. IsFiniteSet(m) /\ m \subseteq Dashboards
  BY <1>1, ElementsAreFinite, FS_AddElement
<1>3. PICK t \in SetToSeqs(m) : SetClients(t)
  BY DEF AddClient
<1>4. t \in Seq(m) /\ ToSet(t) = m /\ IsInjective(t)
  BY <1>2, EnumerationsOfSet
<1>5. t \in Seq(Dashboards)
  BY <1>2, <1>4, SeqDef
<1> QED
  BY <1>1, <1>3, <1>4, <1>5 DEF SetClients, ClientsBecome

LEMMA DropEffect ==
  ASSUME BInv, NEW dead, DropClients(dead)
  PROVE  ClientsBecome(ToSet(clients) \ dead)
<1> DEFINE m == ToSet(clients) \ dead
<1>1. clients \in Seq(Dashboards) /\ disturbed \in BOOLEAN /\ IsInjective(clients)
  BY DEF BInv, BroadcastTypeOK, Members
<1>2. CASE dead \cap ToSet(clients) = {}
  <2>1. SetClients(clients)
    BY <1>2 DEF DropClients
  <2>2. ToSet(clients) = m
    BY <1>2
  <2> QED
    BY <1>1, <2>1, <2>2 DEF SetClients, ClientsBecome
<1>3. CASE dead \cap ToSet(clients) # {}
  <2>1. IsFiniteSet(m) /\ m \subseteq Dashboards
    BY <1>1, ElementsAreFinite, FS_Subset
  <2>2. PICK t \in SetToSeqs(m) : SetClients(t)
    BY <1>3 DEF DropClients
  <2>3. t \in Seq(m) /\ ToSet(t) = m /\ IsInjective(t)
    BY <2>1, EnumerationsOfSet
  <2>4. t \in Seq(Dashboards)
    BY <2>1, <2>3, SeqDef
  <2> QED
    BY <1>1, <2>2, <2>3, <2>4 DEF SetClients, ClientsBecome
<1> QED
  BY <1>2, <1>3

LEMMA DiscardEffect ==
  ASSUME BInv, NEW d \in Dashboards, Discard(d)
  PROVE  ClientsBecome(ToSet(clients) \ {d})
<1>1. clients \in Seq(Dashboards) /\ disturbed \in BOOLEAN /\ IsInjective(clients)
  BY DEF BInv, BroadcastTypeOK, Members
<1>2. CASE d \notin ToSet(clients) /\ SetClients(clients)
  BY <1>1, <1>2 DEF SetClients, ClientsBecome
<1>3. ASSUME NEW i \in DOMAIN clients, clients[i] = d, SetClients(RemoveAt(clients, i))
      PROVE  ClientsBecome(ToSet(clients) \ {d})
  BY <1>1, <1>3, ElementsOfRemoveAt DEF SetClients, ClientsBecome
<1> QED
  BY <1>2, <1>3 DEF Discard

-----------------------------------------------------------------------------
(* Sends: a coroutine is suspended in one at most.                         *)

\* In the queues q, coroutine c waits nowhere.
NotIn(c, q) ==
  /\ q \in [Dashboards -> Seq(Handlers \cup Dashboards)]
  /\ \A d \in Dashboards :
       IsInjective(q[d]) /\ ToSet(q[d]) \subseteq ToSet(queue[d]) \ {c}

LEMMA AwakeIsNotQueued ==
  ASSUME BInv, NEW c \in Handlers \cup Dashboards, at[c] \notin Suspended
  PROVE  NotIn(c, queue)
BY DEF BInv, BroadcastTypeOK, Queues, NotIn

LEMMA ResumedIsNotQueued ==
  ASSUME BInv, NEW d \in Dashboards, NEW c, queue[d] # << >>, Head(queue[d]) = c
  PROVE  NotIn(c, Dequeued(d))
<1> DEFINE Coroutines == Handlers \cup Dashboards
           q == Dequeued(d)
<1>1. queue \in [Dashboards -> Seq(Coroutines)]
  BY DEF BInv, BroadcastTypeOK
<1>2. /\ c \in ToSet(queue[d])
      /\ Tail(queue[d]) \in Seq(Coroutines)
      /\ IsInjective(Tail(queue[d]))
      /\ ToSet(Tail(queue[d])) = ToSet(queue[d]) \ {c}
  BY <1>1, ElementsOfTail DEF BInv, Queues
<1>3. ASSUME NEW e \in Dashboards, e # d PROVE c \notin ToSet(queue[e])
  <2>1. IsSendingOn(c, d)
    BY <1>2 DEF BInv, Queues
  <2>2. ~ IsSendingOn(c, e)
    BY <2>1, <1>3, BroadcastAssumption DEF IsSendingOn
  <2> QED
    BY <2>2 DEF BInv, Queues
<1>4. q = [queue EXCEPT ![d] = Tail(@)]
  BY DEF Dequeued
<1>5. q \in [Dashboards -> Seq(Coroutines)]
  BY <1>1, <1>2, <1>4
<1>6. ASSUME NEW e \in Dashboards
      PROVE  IsInjective(q[e]) /\ ToSet(q[e]) \subseteq ToSet(queue[e]) \ {c}
  <2>1. CASE e = d
    BY <2>1, <1>1, <1>2, <1>4
  <2>2. CASE e # d
    BY <2>2, <1>1, <1>3, <1>4 DEF BInv, Queues
  <2> QED
    BY <2>1, <2>2
<1> QED
  BY <1>5, <1>6 DEF NotIn

\* Of the queues, only c's place changes, and it is where c sends.
OnlyMoves(c) ==
  /\ queue' \in [Dashboards -> Seq(Handlers \cup Dashboards)]
  /\ \A d \in Dashboards :
       /\ IsInjective(queue'[d])
       /\ \A x \in ToSet(queue'[d]) :
            (x # c /\ x \in ToSet(queue[d])) \/ (x = c /\ IsSendingOn(c, d)')

LEMMA QueuesKept ==
  ASSUME BInv, NEW c \in Handlers \cup Dashboards, OnlyMoves(c),
         \A x \in (Handlers \cup Dashboards) \ {c} : at'[x] = at[x],
         \A h \in Handlers \ {c} : cast'[h] = cast[h]
  PROVE  /\ Queues'
         /\ \A d \in Dashboards : \A x \in ToSet(queue'[d]) : at'[x] \in Suspended
<1>1. ASSUME NEW d \in Dashboards, NEW x \in ToSet(queue'[d])
      PROVE  IsSendingOn(x, d)'
  <2>1. CASE x = c
    BY <2>1, <1>1 DEF OnlyMoves
  <2>2. CASE x # c
    <3>1. IsSendingOn(x, d)
      BY <2>2, <1>1 DEF OnlyMoves, BInv, Queues
    <3> QED
      BY <3>1, <2>2 DEF IsSendingOn
  <2> QED
    BY <2>1, <2>2
<1>2. ASSUME NEW d \in Dashboards, NEW x \in ToSet(queue'[d])
      PROVE  at'[x] \in Suspended
  BY <1>1, <1>2 DEF IsSendingOn, Suspended
<1> QED
  BY <1>1, <1>2 DEF Queues, OnlyMoves

LEMMA HandEffect ==
  ASSUME BInv, NEW c \in Handlers \cup Dashboards, NEW q, NotIn(c, q),
         NEW e \in Dashboards, NEW v \in Versions, v <= version,
         Hand(q, c, e, v), IsSendingOn(c, e)'
  PROVE  /\ OnlyMoves(c)
         /\ inbox' \in [Dashboards -> Seq(Versions)]
         /\ sent' \in [Dashboards -> Versions \cup {None}]
         /\ newest' \in [Dashboards -> Versions \cup {None}]
         /\ \A d \in Dashboards : newest'[d] # None => newest'[d] <= version
         /\ \A d \in Dashboards : newest[d] = version => newest'[d] = version
         /\ link[e] = "open" /\ v = version => newest'[e] = version
<1> DEFINE Coroutines == Handlers \cup Dashboards
<1>1. /\ version \in Nat /\ v \in Nat /\ None \notin Nat
      /\ \A w \in Versions : w \in Nat
      /\ inbox \in [Dashboards -> Seq(Versions)]
      /\ sent \in [Dashboards -> Versions \cup {None}]
      /\ newest \in [Dashboards -> Versions \cup {None}]
      /\ \A d \in Dashboards : newest[d] # None => newest[d] <= version
  BY BroadcastAssumption DEF BInv, BroadcastTypeOK, Past, Versions
<1>2. OnlyMoves(c)
  <2>1. /\ q \in [Dashboards -> Seq(Coroutines)]
        /\ \A d \in Dashboards :
             IsInjective(q[d]) /\ ToSet(q[d]) \subseteq ToSet(queue[d]) \ {c}
    BY DEF NotIn
  <2>2. queue' = [q EXCEPT ![e] = Append(@, c)]
    BY DEF Hand
  <2>3. /\ Append(q[e], c) \in Seq(Coroutines)
        /\ ToSet(Append(q[e], c)) = ToSet(q[e]) \cup {c}
        /\ IsInjective(Append(q[e], c))
    BY <2>1, ElementsOfAppend
  <2>4. queue' \in [Dashboards -> Seq(Coroutines)]
    BY <2>1, <2>2, <2>3
  <2>5. ASSUME NEW d \in Dashboards
        PROVE  /\ IsInjective(queue'[d])
               /\ \A x \in ToSet(queue'[d]) :
                    (x # c /\ x \in ToSet(queue[d])) \/ (x = c /\ IsSendingOn(c, d)')
    <3>1. CASE d = e
      BY <3>1, <2>1, <2>2, <2>3
    <3>2. CASE d # e
      BY <3>2, <2>1, <2>2
    <3> QED
      BY <3>1, <3>2
  <2> QED
    BY <2>4, <2>5 DEF OnlyMoves
<1>3. CASE link[e] = "open"
  <2>1. /\ inbox' = [inbox EXCEPT ![e] = IF e \in Pages THEN Append(@, v) ELSE @]
        /\ sent' = [sent EXCEPT ![e] = v]
        /\ newest' = [newest EXCEPT ![e] = IF @ = None \/ @ < v THEN v ELSE @]
    BY <1>3 DEF Hand
  <2>2. Append(inbox[e], v) \in Seq(Versions)
    BY <1>1, AppendProperties
  <2>3. /\ inbox' \in [Dashboards -> Seq(Versions)]
        /\ sent' \in [Dashboards -> Versions \cup {None}]
        /\ newest' \in [Dashboards -> Versions \cup {None}]
    BY <1>1, <2>1, <2>2
  <2>4. /\ newest'[e] = IF newest[e] = None \/ newest[e] < v THEN v ELSE newest[e]
        /\ \A d \in Dashboards : d # e => newest'[d] = newest[d]
        /\ newest[e] = None \/ newest[e] \in Nat
    BY <1>1, <2>1
  <2> QED
    BY <1>1, <1>2, <2>3, <2>4
<1>4. CASE link[e] # "open"
  <2>1. UNCHANGED <<inbox, sent, newest>>
    BY <1>4 DEF Hand
  <2> QED
    BY <1>1, <1>2, <1>4, <2>1
<1> QED
  BY <1>3, <1>4

-----------------------------------------------------------------------------
(* The steps of the handlers.                                              *)

LEMMA ChangeKeepsInv ==
  ASSUME BInv, NEW h \in Handlers, Change(h)
  PROVE  BInv'
<1> USE BroadcastAssumption
<1>1. /\ at[h] \in {"idle", "working"}
      /\ version' = version + 1 /\ version' \in Versions /\ version \in Nat
      /\ at' = [at EXCEPT ![h] = "working"]
      /\ UNCHANGED <<clients, link, cast, queue, inbox, shown, answers, fetched,
                     sent, newest, silent, disturbed>>
  BY DEF Change, pageVars, BInv, BroadcastTypeOK, Versions
<1>2. NotIn(h, queue)
  BY <1>1, AwakeIsNotQueued DEF Suspended
<1>3. OnlyMoves(h)
  BY <1>1, <1>2 DEF NotIn, OnlyMoves
<1>4. at'[h] = "working" /\ \A x \in (Handlers \cup Dashboards) \ {h} : at'[x] = at[x]
  BY <1>1 DEF BInv, BroadcastTypeOK
<1>5. Queues' /\ \A d \in Dashboards : \A x \in ToSet(queue'[d]) : at'[x] \in Suspended
  BY <1>1, <1>3, <1>4, QueuesKept
<1>6. BroadcastTypeOK'
  BY <1>1, <1>4, <1>5 DEF BInv, BroadcastTypeOK
<1>7. Roles' /\ Members'
  BY <1>1, <1>4 DEF BInv, Roles, Members
<1>8. Casts'
  <2> SUFFICES ASSUME NEW g \in Handlers, at'[g] = "casting"
               PROVE  /\ cast[g].todo # << >>
                      /\ cast[g].snapshot <= version + 1
                      /\ \A d \in cast[g].dead : link[d] = "closed"
    BY <1>1 DEF Casts
  <2>1. g # h /\ at[g] = "casting" /\ cast[g] \in Cast
    BY <1>1, <1>4 DEF BInv, BroadcastTypeOK
  <2>2. cast[g].snapshot \in Nat
    BY <2>1 DEF Cast, Versions
  <2> QED
    BY <1>1, <2>1, <2>2 DEF BInv, Casts
<1>9. Past'
  BY <1>1 DEF BInv, Past, BroadcastTypeOK, Versions
<1>10. NoDashboardLeftBehind'
  BY <1>4 DEF NoDashboardLeftBehind, UpdateOnItsWay
<1> QED
  BY <1>5, <1>6, <1>7, <1>8, <1>9, <1>10 DEF BInv

LEMMA HandlerRaisesKeepsInv ==
  ASSUME BInv, NEW h \in Handlers, HandlerRaises(h)
  PROVE  BInv'
<1> USE BroadcastAssumption
<1>1. /\ at[h] = "working"
      /\ at' = [at EXCEPT ![h] = "idle"]
      /\ silent' = TRUE
      /\ UNCHANGED <<version, clients, link, cast, queue, inbox, shown, answers, fetched,
                     sent, newest, disturbed>>
  BY DEF HandlerRaises, pageVars
<1>2. NotIn(h, queue)
  BY <1>1, AwakeIsNotQueued DEF Suspended
<1>3. OnlyMoves(h)
  BY <1>1, <1>2 DEF NotIn, OnlyMoves
<1>4. at'[h] = "idle" /\ \A x \in (Handlers \cup Dashboards) \ {h} : at'[x] = at[x]
  BY <1>1 DEF BInv, BroadcastTypeOK
<1>5. Queues' /\ \A d \in Dashboards : \A x \in ToSet(queue'[d]) : at'[x] \in Suspended
  BY <1>1, <1>3, <1>4, QueuesKept
<1>6. BroadcastTypeOK'
  BY <1>1, <1>4, <1>5 DEF BInv, BroadcastTypeOK
<1>7. Roles' /\ Members' /\ Casts' /\ Past'
  BY <1>1, <1>4 DEF BInv, Roles, Members, Casts, Past
<1>8. NoDashboardLeftBehind'
  BY <1>1 DEF NoDashboardLeftBehind
<1> QED
  BY <1>5, <1>6, <1>7, <1>8 DEF BInv

\* A broadcast reaches every client: the first is handed its snapshot at
\* once, and the rest are its todo.
LEMMA StartBroadcastKeepsInv ==
  ASSUME BInv, NEW h \in Handlers, StartBroadcast(h)
  PROVE  BInv'
<1> USE BroadcastAssumption
<1>1. /\ at[h] = "working"
      /\ silent' = FALSE
      /\ disturbed' \in BOOLEAN
      /\ UNCHANGED <<version, clients, link, shown, answers, fetched>>
      /\ clients \in Seq(Dashboards) /\ version \in Versions /\ version \in Nat
  BY DEF StartBroadcast, BInv, BroadcastTypeOK, Versions
<1>2. NotIn(h, queue)
  BY <1>1, AwakeIsNotQueued DEF Suspended
<1>3. CASE clients = << >>
  <2>1. at' = [at EXCEPT ![h] = "idle"] /\ UNCHANGED <<cast, queue, inbox, sent, newest>>
    BY <1>3 DEF StartBroadcast, NobodyListens
  <2>2. OnlyMoves(h)
    BY <2>1, <1>2 DEF NotIn, OnlyMoves
  <2>3. at'[h] = "idle" /\ \A x \in (Handlers \cup Dashboards) \ {h} : at'[x] = at[x]
    BY <2>1 DEF BInv, BroadcastTypeOK
  <2>4. Queues' /\ \A d \in Dashboards : \A x \in ToSet(queue'[d]) : at'[x] \in Suspended
    BY <2>1, <2>2, <2>3, QueuesKept
  <2>5. BroadcastTypeOK'
    BY <1>1, <2>1, <2>3, <2>4 DEF BInv, BroadcastTypeOK
  <2>6. Roles' /\ Members' /\ Casts' /\ Past'
    BY <1>1, <2>1, <2>3 DEF BInv, Roles, Members, Casts, Past
  <2>7. NoDashboardLeftBehind'
    BY <1>1, <1>3, EmptySeq DEF NoDashboardLeftBehind, Served, ToSet
  <2> QED
    BY <2>4, <2>5, <2>6, <2>7 DEF BInv
<1>4. CASE clients # << >>
  <2> DEFINE new == [snapshot |-> version, todo |-> clients, dead |-> {}]
  <2>1. PICK e \in Dashboards :
          e = Head(clients) /\ ToSet(clients) = {e} \cup ToSet(Tail(clients))
    BY <1>1, <1>4, ElementsOfTail
  <2>2. /\ at' = [at EXCEPT ![h] = "casting"]
        /\ cast' = [cast EXCEPT ![h] = new]
        /\ Hand(queue, h, e, version)
    BY <1>4, <2>1 DEF StartBroadcast, NobodyListens, Recipients
  <2>3. at'[h] = "casting" /\ \A x \in (Handlers \cup Dashboards) \ {h} : at'[x] = at[x]
    BY <2>2 DEF BInv, BroadcastTypeOK
  <2>4. cast'[h] = new /\ \A g \in Handlers \ {h} : cast'[g] = cast[g]
    BY <2>2 DEF BInv, BroadcastTypeOK
  <2>5. IsSendingOn(h, e)'
    BY <2>1, <2>3, <2>4 DEF IsSendingOn
  <2> DEFINE Effect ==
        /\ OnlyMoves(h)
        /\ inbox' \in [Dashboards -> Seq(Versions)]
        /\ sent' \in [Dashboards -> Versions \cup {None}]
        /\ newest' \in [Dashboards -> Versions \cup {None}]
        /\ \A d \in Dashboards : newest'[d] # None => newest'[d] <= version
        /\ link[e] = "open" => newest'[e] = version
  <2>6. Effect
    BY <1>1, <1>2, <2>2, <2>1, <2>5, HandEffect
  <2>7. Queues' /\ \A d \in Dashboards : \A x \in ToSet(queue'[d]) : at'[x] \in Suspended
    BY <2>3, <2>4, <2>6, QueuesKept
  <2>8. new \in Cast
    BY <1>1 DEF Cast
  <2>9. BroadcastTypeOK'
    <3>1. cast' \in [Handlers -> Cast \cup {None}]
      BY <2>2, <2>8 DEF BInv, BroadcastTypeOK
    <3>2. \A g \in Handlers : (cast'[g] = None) = (at'[g] # "casting")
      <4>1. cast'[h] # None
        BY <2>4, <2>8, NoCastAssumption
      <4> QED
        BY <2>3, <2>4, <4>1 DEF BInv, BroadcastTypeOK
    <3>3. at' \in [Handlers \cup Dashboards ->
                     {"idle", "working", "casting",
                      "accepted", "subscribing", "greeting", "recv", "done"}]
      BY <2>2 DEF BInv, BroadcastTypeOK
    <3> HIDE DEF new
    <3> QED
      BY <1>1, <2>6, <2>7, <3>1, <3>2, <3>3 DEF BInv, BroadcastTypeOK, OnlyMoves
  <2>10. Roles' /\ Members' /\ Past'
    BY <1>1, <2>3, <2>6 DEF BInv, Roles, Members, Past
  <2>11. Casts'
    BY <1>1, <1>4, <2>3, <2>4 DEF BInv, Casts
  <2>12. NoDashboardLeftBehind'
    <3> SUFFICES ASSUME NEW d \in Dashboards, Served(d)'
                 PROVE  newest'[d] = version' \/ UpdateOnItsWay(d)'
      BY DEF NoDashboardLeftBehind
    <3>1. d \in ToSet(clients) /\ link[d] = "open"
      BY <1>1 DEF Served
    <3>2. CASE d = e
      BY <1>1, <2>6, <3>1, <3>2
    <3>3. CASE d # e
      <4>1. d \in ToSet(Tail(clients))
        BY <2>1, <3>1, <3>3
      <4>2. cast'[h].snapshot = version' /\ d \in ToSet(Tail(cast'[h].todo))
        BY <1>1, <2>4, <4>1
      <4> QED
        BY <2>3, <4>2 DEF UpdateOnItsWay
    <3> QED
      BY <3>2, <3>3
  <2> QED
    BY <2>7, <2>9, <2>10, <2>11, <2>12 DEF BInv
<1> QED
  BY <1>3, <1>4

\* The end of a broadcast drops none that is connected, and on the way to the
\* end each client leaves the todo only when it has been handed the snapshot.
LEMMA NextClientKeepsInv ==
  ASSUME BInv, NEW h \in Handlers, at[h] = "casting",
         NEW dead \in SUBSET Dashboards, \A d \in dead : link[d] = "closed",
         NEW f \in Dashboards, f = Head(cast[h].todo),
         queue[f] # << >>, Head(queue[f]) = h,
         NextClient(h, dead),
         UNCHANGED <<version, link, shown, answers, fetched, silent>>
  PROVE  BInv'
<1> USE BroadcastAssumption
<1> DEFINE todo == cast[h].todo
<1>1. /\ cast[h] \in Cast /\ cast[h] # None
      /\ todo \in Seq(Dashboards) /\ todo # << >>
      /\ cast[h].snapshot \in Versions /\ cast[h].snapshot <= version
      /\ version \in Nat
  BY DEF BInv, BroadcastTypeOK, Casts, Cast, Versions
<1>2. NotIn(h, Dequeued(f))
  BY ResumedIsNotQueued
<1>3. CASE Tail(todo) = << >>
  <2>1. /\ at' = [at EXCEPT ![h] = "idle"]
        /\ cast' = [cast EXCEPT ![h] = None]
        /\ queue' = Dequeued(f)
        /\ DropClients(dead)
        /\ UNCHANGED <<inbox, sent, newest>>
    BY <1>3 DEF NextClient
  <2>2. ClientsBecome(ToSet(clients) \ dead)
    BY <2>1, DropEffect
  <2>3. at'[h] = "idle" /\ \A x \in (Handlers \cup Dashboards) \ {h} : at'[x] = at[x]
    BY <2>1 DEF BInv, BroadcastTypeOK
  <2>4. cast'[h] = None /\ \A g \in Handlers \ {h} : cast'[g] = cast[g]
    BY <2>1 DEF BInv, BroadcastTypeOK
  <2>5. OnlyMoves(h)
    BY <2>1, <1>2 DEF NotIn, OnlyMoves
  <2>6. Queues' /\ \A d \in Dashboards : \A x \in ToSet(queue'[d]) : at'[x] \in Suspended
    BY <2>3, <2>4, <2>5, QueuesKept
  <2>7. BroadcastTypeOK'
    <3>1. \A g \in Handlers : (cast'[g] = None) = (at'[g] # "casting")
      <4>1. (cast'[h] = None) = (at'[h] # "casting")
        BY <2>3, <2>4
      <4>2. \A g \in Handlers \ {h} : (cast'[g] = None) = (at'[g] # "casting")
        BY <2>3, <2>4 DEF BInv, BroadcastTypeOK
      <4> QED
        BY <4>1, <4>2
    <3> QED
      BY <2>1, <2>2, <2>5, <2>6, <3>1
      DEF BInv, BroadcastTypeOK, OnlyMoves, ClientsBecome
  <2>8. Members'
    BY <2>2, <2>3 DEF BInv, Members, ClientsBecome
  <2>9. Roles' /\ Casts' /\ Past'
    BY <2>1, <2>3, <2>4 DEF BInv, Roles, Casts, Past
  <2>10. NoDashboardLeftBehind'
    <3> SUFFICES ASSUME NEW d \in Dashboards, Served(d)', ~ silent'
                 PROVE  newest'[d] = version' \/ UpdateOnItsWay(d)'
      BY DEF NoDashboardLeftBehind
    <3>1. Served(d) /\ ~ silent
      BY <2>2 DEF Served, ClientsBecome
    <3>2. newest[d] = version \/ UpdateOnItsWay(d)
      BY <3>1 DEF BInv, NoDashboardLeftBehind
    <3>3. d \notin ToSet(Tail(todo))
      BY <1>3, EmptySeq DEF ToSet
    <3>4. UpdateOnItsWay(d) => UpdateOnItsWay(d)'
      BY <2>3, <2>4, <3>3 DEF UpdateOnItsWay
    <3> QED
      BY <2>1, <3>2, <3>4
  <2> QED
    BY <2>6, <2>7, <2>8, <2>9, <2>10 DEF BInv
<1>4. CASE Tail(todo) # << >>
  <2>1. /\ Tail(todo) \in Seq(Dashboards)
        /\ todo[2] = Head(Tail(todo)) /\ todo[2] \in Dashboards
        /\ ToSet(Tail(todo)) = {todo[2]} \cup ToSet(Tail(Tail(todo)))
    <3>1. /\ Tail(todo) \in Seq(Dashboards) /\ Head(Tail(todo)) \in Dashboards
          /\ ToSet(Tail(todo)) = {Head(Tail(todo))} \cup ToSet(Tail(Tail(todo)))
      BY <1>1, <1>4, ElementsOfTail
    <3>2. Head(Tail(todo)) = todo[2]
      <4>1. Len(Tail(todo)) = Len(todo) - 1 /\ Len(Tail(todo)) \in Nat \ {0}
        BY <1>1, <1>4, <3>1, HeadTailProperties, LenProperties, EmptySeq
      <4> QED
        BY <1>1, <1>4, <3>1, <4>1, HeadTailProperties
    <3> QED
      BY <3>1, <3>2
  <2>2. PICK e \in Dashboards :
          e = todo[2] /\ e = Head(Tail(todo))
            /\ ToSet(Tail(todo)) = {e} \cup ToSet(Tail(Tail(todo)))
    BY <2>1
  <2> DEFINE new == [cast[h] EXCEPT !.todo = Tail(todo), !.dead = dead]
  <2>3. /\ cast' = [cast EXCEPT ![h] = new]
        /\ Hand(Dequeued(f), h, e, cast[h].snapshot)
        /\ UNCHANGED <<at, clients, disturbed>>
    BY <1>1, <1>4, <2>2 DEF NextClient, BInv, BroadcastTypeOK
  <2>4. /\ new \in Cast
        /\ new.snapshot = cast[h].snapshot
        /\ new.todo = Tail(todo) /\ new.dead = dead
    BY <1>1, <2>1 DEF Cast
  <2>5. cast'[h] = new /\ \A g \in Handlers \ {h} : cast'[g] = cast[g]
    BY <2>3 DEF BInv, BroadcastTypeOK
  <2> HIDE DEF new
  <2>6. IsSendingOn(h, e)'
    BY <2>2, <2>3, <2>4, <2>5 DEF IsSendingOn
  <2> DEFINE Effect ==
        /\ OnlyMoves(h)
        /\ inbox' \in [Dashboards -> Seq(Versions)]
        /\ sent' \in [Dashboards -> Versions \cup {None}]
        /\ newest' \in [Dashboards -> Versions \cup {None}]
        /\ \A d \in Dashboards : newest'[d] # None => newest'[d] <= version
        /\ \A d \in Dashboards : newest[d] = version => newest'[d] = version
        /\ link[e] = "open" /\ cast[h].snapshot = version => newest'[e] = version
  <2>7. Effect
    BY <1>1, <1>2, <2>3, <2>6, HandEffect
  <2>8. Queues' /\ \A d \in Dashboards : \A x \in ToSet(queue'[d]) : at'[x] \in Suspended
    BY <2>3, <2>5, <2>7, QueuesKept
  <2>9. BroadcastTypeOK'
    <3>1. cast' \in [Handlers -> Cast \cup {None}]
      BY <2>3, <2>4 DEF BInv, BroadcastTypeOK
    <3>2. \A g \in Handlers : (cast'[g] = None) = (at'[g] # "casting")
      BY <2>3, <2>4, <2>5, NoCastAssumption DEF BInv, BroadcastTypeOK
    <3> QED
      BY <2>3, <2>7, <2>8, <3>1, <3>2 DEF BInv, BroadcastTypeOK, OnlyMoves
  <2>10. Roles' /\ Members' /\ Past'
    BY <2>3, <2>7 DEF BInv, Roles, Members, Past
  <2>11. Casts'
    BY <1>1, <1>4, <2>3, <2>4, <2>5 DEF BInv, Casts
  <2>12. NoDashboardLeftBehind'
    <3> SUFFICES ASSUME NEW d \in Dashboards, Served(d)', ~ silent'
                 PROVE  newest'[d] = version' \/ UpdateOnItsWay(d)'
      BY DEF NoDashboardLeftBehind
    <3>1. Served(d) /\ ~ silent /\ link[d] = "open"
      BY <2>3 DEF Served
    <3>2. CASE newest[d] = version
      BY <2>7, <3>2
    <3>3. CASE at[d] = "subscribing"
      BY <2>3, <3>3 DEF UpdateOnItsWay
    <3>4. ASSUME NEW g \in Handlers, at[g] = "working"
          PROVE  UpdateOnItsWay(d)'
      BY <2>3, <3>4 DEF UpdateOnItsWay
    <3>5. ASSUME NEW g \in Handlers, g # h, at[g] = "casting",
                 cast[g].snapshot = version, d \in ToSet(Tail(cast[g].todo))
          PROVE  UpdateOnItsWay(d)'
      BY <2>3, <2>5, <3>5 DEF UpdateOnItsWay
    <3>6. ASSUME cast[h].snapshot = version, d \in ToSet(Tail(todo))
          PROVE  newest'[d] = version' \/ UpdateOnItsWay(d)'
      <4>1. CASE d = e
        BY <2>7, <3>1, <3>6, <4>1
      <4>2. CASE d # e
        <5>1. /\ at'[h] = "casting" /\ cast'[h].snapshot = version'
              /\ d \in ToSet(Tail(cast'[h].todo))
          BY <2>2, <2>3, <2>4, <2>5, <3>6, <4>2
        <5> QED
          BY <5>1 DEF UpdateOnItsWay
      <4> QED
        BY <4>1, <4>2
    <3> QED
      BY <3>1, <3>2, <3>3, <3>4, <3>5, <3>6
      DEF BInv, NoDashboardLeftBehind, UpdateOnItsWay
  <2> QED
    BY <2>8, <2>9, <2>10, <2>11, <2>12 DEF BInv
<1> QED
  BY <1>3, <1>4

LEMMA SendKeepsInv ==
  ASSUME BInv, NEW h \in Handlers, SendReturned(h) \/ SendRaised(h)
  PROVE  BInv'
<1> DEFINE c == cast[h]
<1>1. at[h] = "casting"
  BY DEF SendReturned, SendRaised
<1>2. /\ c \in Cast /\ c.todo \in Seq(Dashboards) /\ c.todo # << >>
      /\ c.dead \in SUBSET Dashboards /\ \A d \in c.dead : link[d] = "closed"
  BY <1>1 DEF BInv, BroadcastTypeOK, Casts, Cast
<1>3. Head(c.todo) \in Dashboards
  BY <1>2, ElementsOfTail
<1>4. CASE SendReturned(h)
  BY <1>1, <1>2, <1>3, <1>4, NextClientKeepsInv DEF SendReturned, Returns
<1>5. CASE SendRaised(h)
  <2> DEFINE dead == c.dead \cup {Head(c.todo)}
  <2>1. dead \in SUBSET Dashboards /\ \A d \in dead : link[d] = "closed"
    BY <1>2, <1>3, <1>5 DEF SendRaised, Raises
  <2>2. NextClient(h, dead)
    BY <1>5 DEF SendRaised
  <2> HIDE DEF dead
  <2> QED
    BY <1>1, <1>3, <1>5, <2>1, <2>2, NextClientKeepsInv DEF SendRaised, Raises
<1> QED
  BY <1>4, <1>5

-----------------------------------------------------------------------------
(* The steps of the endpoints.                                             *)

\* A new connection is in nobody's set of clients.
LEMMA ConnectKeepsInv ==
  ASSUME BInv, NEW d \in Dashboards, Connect(d)
  PROVE  BInv'
<1> USE BroadcastAssumption
<1>1. /\ at[d] = "idle" /\ link[d] = "free" /\ d \notin ToSet(clients)
      /\ at' = [at EXCEPT ![d] = "accepted"]
      /\ link' = [link EXCEPT ![d] = "open"]
      /\ UNCHANGED <<version, clients, cast, queue, inbox, shown, answers, fetched,
                     sent, newest, silent, disturbed>>
  BY DEF Connect, pageVars, BInv, Roles, Members, Subscribed
<1>2. /\ at'[d] = "accepted" /\ \A x \in (Handlers \cup Dashboards) \ {d} : at'[x] = at[x]
      /\ link'[d] = "open" /\ \A e \in Dashboards \ {d} : link'[e] = link[e]
  BY <1>1 DEF BInv, BroadcastTypeOK
<1>3. OnlyMoves(d)
  BY <1>1, AwakeIsNotQueued DEF NotIn, OnlyMoves, Suspended
<1>4. Queues' /\ \A e \in Dashboards : \A x \in ToSet(queue'[e]) : at'[x] \in Suspended
  BY <1>1, <1>2, <1>3, QueuesKept
<1>5. BroadcastTypeOK'
  BY <1>1, <1>2, <1>4 DEF BInv, BroadcastTypeOK
<1>6. Roles' /\ Past'
  BY <1>1, <1>2 DEF BInv, Roles, Past
<1>7. Members'
  BY <1>1, <1>2 DEF BInv, Members, Subscribed
<1>8. Casts'
  <2> SUFFICES ASSUME NEW h \in Handlers, at[h] = "casting", NEW e \in cast[h].dead
               PROVE  link'[e] = "closed"
    BY <1>1, <1>2 DEF BInv, Casts
  <2>1. link[e] = "closed" /\ e \in Dashboards
    BY DEF BInv, BroadcastTypeOK, Casts, Cast
  <2> QED
    BY <1>1, <1>2, <2>1
<1>9. NoDashboardLeftBehind'
  BY <1>1, <1>2 DEF BInv, NoDashboardLeftBehind, Served, UpdateOnItsWay
<1> QED
  BY <1>4, <1>5, <1>6, <1>7, <1>8, <1>9 DEF BInv

\* Who subscribes in the middle of a broadcast is handed a snapshot of its own.
LEMMA SubscribeKeepsInv ==
  ASSUME BInv, NEW d \in Dashboards, Subscribe(d)
  PROVE  BInv'
<1> USE BroadcastAssumption
<1>1. /\ at[d] = "accepted"
      /\ at' = [at EXCEPT ![d] = "subscribing"]
      /\ queue' = [queue EXCEPT ![d] = Append(@, d)]
      /\ ClientsBecome(ToSet(clients) \cup {d})
      /\ UNCHANGED <<version, link, cast, inbox, shown, answers, fetched,
                     sent, newest, silent>>
  BY AddEffect DEF Subscribe, pageVars
<1>2. at'[d] = "subscribing" /\ \A x \in (Handlers \cup Dashboards) \ {d} : at'[x] = at[x]
  BY <1>1 DEF BInv, BroadcastTypeOK
<1>3. OnlyMoves(d)
  <2>1. NotIn(d, queue)
    BY <1>1, AwakeIsNotQueued DEF Suspended
  <2>2. /\ Append(queue[d], d) \in Seq(Handlers \cup Dashboards)
        /\ ToSet(Append(queue[d], d)) = ToSet(queue[d]) \cup {d}
        /\ IsInjective(Append(queue[d], d))
    BY <2>1, ElementsOfAppend DEF NotIn
  <2>3. IsSendingOn(d, d)'
    BY <1>2 DEF IsSendingOn
  <2>4. ASSUME NEW e \in Dashboards
        PROVE  /\ IsInjective(queue'[e])
               /\ \A x \in ToSet(queue'[e]) :
                    (x # d /\ x \in ToSet(queue[e])) \/ (x = d /\ IsSendingOn(d, e)')
    <3>1. CASE e = d
      BY <1>1, <2>1, <2>2, <2>3, <3>1 DEF NotIn
    <3>2. CASE e # d
      BY <1>1, <2>1, <3>2 DEF NotIn
    <3> QED
      BY <3>1, <3>2
  <2>5. queue' \in [Dashboards -> Seq(Handlers \cup Dashboards)]
    BY <1>1, <2>1, <2>2 DEF NotIn
  <2> QED
    BY <2>4, <2>5 DEF OnlyMoves
<1>4. Queues' /\ \A e \in Dashboards : \A x \in ToSet(queue'[e]) : at'[x] \in Suspended
  BY <1>1, <1>2, <1>3, QueuesKept
<1>5. BroadcastTypeOK'
  BY <1>1, <1>2, <1>3, <1>4 DEF BInv, BroadcastTypeOK, OnlyMoves, ClientsBecome
<1>6. Roles' /\ Casts' /\ Past'
  BY <1>1, <1>2 DEF BInv, Roles, Casts, Past
<1>7. Members'
  BY <1>1, <1>2 DEF BInv, Members, Subscribed, ClientsBecome
<1>8. NoDashboardLeftBehind'
  BY <1>1, <1>2 DEF BInv, NoDashboardLeftBehind, Served, UpdateOnItsWay, ClientsBecome
<1> QED
  BY <1>4, <1>5, <1>6, <1>7, <1>8 DEF BInv

LEMMA SendClusterStateToKeepsInv ==
  ASSUME BInv, NEW d \in Dashboards, SendClusterStateTo(d)
  PROVE  BInv'
<1> USE BroadcastAssumption
<1>1. /\ at[d] = "subscribing" /\ Returns(d, d)
      /\ at' = [at EXCEPT ![d] = "greeting"]
      /\ Hand(Dequeued(d), d, d, version)
      /\ UNCHANGED <<version, clients, link, cast, shown, answers, fetched,
                     silent, disturbed>>
      /\ version \in Versions /\ version <= version
  BY DEF SendClusterStateTo, BInv, BroadcastTypeOK, Versions
<1>2. at'[d] = "greeting" /\ \A x \in (Handlers \cup Dashboards) \ {d} : at'[x] = at[x]
  BY <1>1 DEF BInv, BroadcastTypeOK
<1>3. NotIn(d, Dequeued(d))
  BY <1>1, ResumedIsNotQueued DEF Returns
<1>4. IsSendingOn(d, d)'
  BY <1>2 DEF IsSendingOn
<1> DEFINE Effect ==
      /\ OnlyMoves(d)
      /\ inbox' \in [Dashboards -> Seq(Versions)]
      /\ sent' \in [Dashboards -> Versions \cup {None}]
      /\ newest' \in [Dashboards -> Versions \cup {None}]
      /\ \A e \in Dashboards : newest'[e] # None => newest'[e] <= version
      /\ \A e \in Dashboards : newest[e] = version => newest'[e] = version
      /\ link[d] = "open" => newest'[d] = version
<1>5. Effect
  BY <1>1, <1>3, <1>4, HandEffect
<1>6. Queues' /\ \A e \in Dashboards : \A x \in ToSet(queue'[e]) : at'[x] \in Suspended
  BY <1>1, <1>2, <1>5, QueuesKept
<1>7. BroadcastTypeOK'
  BY <1>1, <1>2, <1>5, <1>6 DEF BInv, BroadcastTypeOK, OnlyMoves
<1>8. Roles' /\ Casts' /\ Past'
  BY <1>1, <1>2, <1>5 DEF BInv, Roles, Casts, Past
<1>9. Members'
  BY <1>1, <1>2 DEF BInv, Members, Subscribed
<1>10. NoDashboardLeftBehind'
  BY <1>1, <1>2, <1>5 DEF BInv, NoDashboardLeftBehind, Served, UpdateOnItsWay
<1> QED
  BY <1>6, <1>7, <1>8, <1>9, <1>10 DEF BInv

\* The rest of the endpoint: its coroutine waits nowhere afterwards, and it
\* leaves the set of clients only when its connection is closed.
LEMMA EndpointMovesOn ==
  ASSUME BInv, NEW d \in Dashboards, NotIn(d, queue'),
         at[d] \in {"greeting", "recv", "accepted", "subscribing"},
         at[d] = "subscribing" => link[d] = "closed",
         NEW s \in {"recv", "done"}, at' = [at EXCEPT ![d] = s],
         \/ at[d] = "greeting" /\ s = "recv" /\ UNCHANGED <<clients, disturbed>>
         \/ link[d] = "closed" /\ ClientsBecome(ToSet(clients) \ {d}),
         UNCHANGED <<version, link, cast, inbox, shown, answers, fetched,
                     sent, newest, silent>>
  PROVE  BInv'
<1> USE BroadcastAssumption
<1>1. at'[d] = s /\ \A x \in (Handlers \cup Dashboards) \ {d} : at'[x] = at[x]
  BY DEF BInv, BroadcastTypeOK
<1>2. OnlyMoves(d)
  BY DEF NotIn, OnlyMoves
<1>3. Queues' /\ \A e \in Dashboards : \A x \in ToSet(queue'[e]) : at'[x] \in Suspended
  BY <1>1, <1>2, QueuesKept
<1>4. /\ clients' \in Seq(Dashboards) /\ IsInjective(clients')
      /\ disturbed' \in BOOLEAN
      /\ ToSet(clients') \subseteq ToSet(clients)
      /\ \A e \in ToSet(clients) : e \in ToSet(clients') \/ (e = d /\ link[d] = "closed")
      /\ (s = "recv" /\ at[d] = "greeting") \/ d \notin ToSet(clients')
  <2>1. CASE at[d] = "greeting" /\ s = "recv" /\ UNCHANGED <<clients, disturbed>>
    BY <2>1 DEF BInv, BroadcastTypeOK, Members
  <2>2. CASE link[d] = "closed" /\ ClientsBecome(ToSet(clients) \ {d})
    BY <2>2 DEF ClientsBecome
  <2> QED
    BY <2>1, <2>2
<1>5. BroadcastTypeOK'
  BY <1>1, <1>2, <1>3, <1>4 DEF BInv, BroadcastTypeOK, OnlyMoves
<1>6. Roles' /\ Casts' /\ Past'
  BY <1>1 DEF BInv, Roles, Casts, Past
<1>7. Members'
  <2> SUFFICES ASSUME NEW e \in Dashboards
               PROVE  /\ e \in ToSet(clients') => at'[e] \in Subscribed
                      /\ at'[e] \in Subscribed /\ link[e] = "open" => e \in ToSet(clients')
    BY <1>4 DEF Members
  <2>1. CASE e = d
    BY <1>1, <1>4, <2>1 DEF BInv, Members, Subscribed
  <2>2. CASE e # d
    BY <1>1, <1>4, <2>2 DEF BInv, Members
  <2> QED
    BY <2>1, <2>2
<1>8. NoDashboardLeftBehind'
  <2> SUFFICES ASSUME NEW e \in Dashboards, Served(e)', ~ silent'
               PROVE  newest'[e] = version' \/ UpdateOnItsWay(e)'
    BY DEF NoDashboardLeftBehind
  <2>1. Served(e) /\ ~ silent /\ link[e] = "open"
    BY <1>4 DEF Served
  <2>2. newest[e] = version \/ UpdateOnItsWay(e)
    BY <2>1 DEF BInv, NoDashboardLeftBehind
  <2>3. UpdateOnItsWay(e) => UpdateOnItsWay(e)'
    BY <1>1, <2>1 DEF UpdateOnItsWay
  <2> QED
    BY <2>2, <2>3
<1> QED
  BY <1>3, <1>5, <1>6, <1>7, <1>8 DEF BInv

LEMMA EndpointStepKeepsInv ==
  ASSUME BInv, NEW d \in Dashboards, EndpointStep(d)
  PROVE  BInv'
<1>1. CASE SendClusterStateTo(d)
  BY <1>1, SendClusterStateToKeepsInv
<1>2. CASE StateSent(d)
  <2>1. NotIn(d, queue')
    BY <1>2, ResumedIsNotQueued DEF StateSent, Returns
  <2> QED
    BY <1>2, <2>1, EndpointMovesOn DEF StateSent, pageVars
<1>3. CASE StateFailed(d)
  <2>1. NotIn(d, queue')
    BY <1>3, ResumedIsNotQueued DEF StateFailed, Raises
  <2>2. link[d] = "closed" /\ ClientsBecome(ToSet(clients) \ {d})
    BY <1>3, DiscardEffect DEF StateFailed, Raises
  <2> QED
    BY <1>3, <2>1, <2>2, EndpointMovesOn DEF StateFailed, pageVars
<1>4. CASE Disconnect(d)
  <2>1. NotIn(d, queue')
    <3>1. CASE at[d] \in {"accepted", "recv"} /\ UNCHANGED queue
      BY <3>1, AwakeIsNotQueued DEF Suspended
    <3>2. CASE at[d] = "subscribing" /\ Raises(d, d) /\ queue' = Dequeued(d)
      BY <3>2, ResumedIsNotQueued DEF Raises
    <3> QED
      BY <1>4, <3>1, <3>2 DEF Disconnect
  <2>2. link[d] = "closed" /\ ClientsBecome(ToSet(clients) \ {d})
    BY <1>4, DiscardEffect DEF Disconnect
  <2> QED
    BY <1>4, <2>1, <2>2, EndpointMovesOn DEF Disconnect, pageVars
<1> QED
  BY <1>1, <1>2, <1>3, <1>4 DEF EndpointStep

-----------------------------------------------------------------------------
(* The network, the pages, and the theorems.                               *)

LEMMA LinkKeepsInv ==
  ASSUME BInv, NEW d \in Dashboards, LoseConnection(d) \/ NoticeLoss(d)
  PROVE  BInv'
<1> USE BroadcastAssumption
<1>1. /\ link[d] \in {"open", "lost"}
      /\ \/ link' = [link EXCEPT ![d] = "lost"]
         \/ link[d] = "lost" /\ link' = [link EXCEPT ![d] = "closed"]
      /\ newest' = newest \/ newest' = [newest EXCEPT ![d] = None]
      /\ UNCHANGED <<version, clients, at, cast, queue, silent, disturbed>>
  BY DEF LoseConnection, NoticeLoss
<1>2. /\ link' \in [Dashboards -> {"free", "open", "lost", "closed"}]
      /\ link'[d] \in {"lost", "closed"}
      /\ \A e \in Dashboards \ {d} : link'[e] = link[e] /\ newest'[e] = newest[e]
      /\ newest'[d] = newest[d] \/ newest'[d] = None
  BY <1>1 DEF BInv, BroadcastTypeOK
<1>3. BroadcastTypeOK'
  <2>1. CASE LoseConnection(d)
    <3>1. << >> \in Seq(Versions)
      BY EmptySeq
    <3> QED
      BY <1>1, <1>2, <2>1, <3>1 DEF LoseConnection, BInv, BroadcastTypeOK
  <2>2. CASE NoticeLoss(d)
    BY <1>1, <1>2, <2>2 DEF NoticeLoss, pageVars, BInv, BroadcastTypeOK
  <2> QED
    BY <2>1, <2>2
<1>4. Roles' /\ Queues' /\ Members' /\ Past'
  BY <1>1, <1>2 DEF BInv, Roles, Queues, IsSendingOn, Members, Past
<1>5. Casts'
  <2> SUFFICES ASSUME NEW h \in Handlers, at[h] = "casting", NEW e \in cast[h].dead
               PROVE  link'[e] = "closed"
    BY <1>1 DEF BInv, Casts
  <2>1. link[e] = "closed" /\ e \in Dashboards
    BY DEF BInv, BroadcastTypeOK, Casts, Cast
  <2> QED
    BY <1>1, <1>2, <2>1
<1>6. NoDashboardLeftBehind'
  BY <1>1, <1>2 DEF BInv, NoDashboardLeftBehind, Served, UpdateOnItsWay
<1> QED
  BY <1>3, <1>4, <1>5, <1>6 DEF BInv

\* What a page shows is nobody else's business.
LEMMA PageKeepsInv ==
  ASSUME BInv, UNCHANGED <<version, clients, link, at, cast, queue, sent, newest,
                           silent, disturbed>>,
         inbox' \in [Dashboards -> Seq(Versions)],
         shown' \in [Dashboards -> Versions \cup {None}],
         answers' \in [Dashboards -> SUBSET Versions],
         fetched' \in [Dashboards -> BOOLEAN]
  PROVE  BInv'
<1>1. BroadcastTypeOK'
  BY DEF BInv, BroadcastTypeOK
<1>2. Roles' /\ Casts' /\ Queues' /\ Members' /\ Past' /\ NoDashboardLeftBehind'
  BY DEF BInv, Roles, Casts, Queues, IsSendingOn, Members, Past,
         NoDashboardLeftBehind, Served, UpdateOnItsWay
<1> QED
  BY <1>1, <1>2 DEF BInv

LEMMA PageStepKeepsInv ==
  ASSUME BInv, NEW d \in Dashboards, GetStatus(d) \/ PageStep(d)
  PROVE  BInv'
<1>1. /\ version \in Versions
      /\ inbox \in [Dashboards -> Seq(Versions)]
      /\ shown \in [Dashboards -> Versions \cup {None}]
      /\ answers \in [Dashboards -> SUBSET Versions]
      /\ fetched \in [Dashboards -> BOOLEAN]
  BY DEF BInv, BroadcastTypeOK
<1>2. CASE ShowPushed(d)
  <2>1. Head(inbox[d]) \in Versions /\ Tail(inbox[d]) \in Seq(Versions)
    BY <1>1, <1>2, ElementsOfTail DEF ShowPushed
  <2> QED
    BY <1>1, <1>2, <2>1, PageKeepsInv DEF ShowPushed
<1>3. CASE GetStatus(d)
  BY <1>1, <1>3, PageKeepsInv DEF GetStatus
<1>4. CASE ShowFetched(d)
  <2>1. PICK v \in answers[d] :
          /\ shown' = [shown EXCEPT ![d] = v]
          /\ fetched' = [fetched EXCEPT ![d] = TRUE]
          /\ answers' \in {answers, [answers EXCEPT ![d] = @ \ {v}]}
          /\ UNCHANGED <<version, clients, link, at, cast, queue, inbox,
                         sent, newest, silent, disturbed>>
    BY <1>4 DEF ShowFetched
  <2>2. v \in Versions
    BY <1>1
  <2>3. answers' \in [Dashboards -> SUBSET Versions]
    BY <1>1, <2>1
  <2>4. shown' \in [Dashboards -> Versions \cup {None}] /\ fetched' \in [Dashboards -> BOOLEAN]
    BY <1>1, <2>1, <2>2
  <2> QED
    BY <1>1, <2>1, <2>3, <2>4, PageKeepsInv
<1> QED
  BY <1>2, <1>3, <1>4 DEF PageStep

LEMMA BroadcastInitHolds == BroadcastInit => BInv
<1> SUFFICES ASSUME BroadcastInit PROVE BInv
  OBVIOUS
<1> USE BroadcastAssumption DEF BroadcastInit
<1>1. /\ << >> \in Seq(Dashboards) /\ << >> \in Seq(Versions)
      /\ << >> \in Seq(Handlers \cup Dashboards)
      /\ ToSet(<< >>) = {} /\ IsInjective(<< >>)
  BY EmptySeq DEF ToSet, IsInjective
<1>2. BroadcastTypeOK
  <2>1. \A h \in Handlers : (cast[h] = None) = (at[h] # "casting")
    OBVIOUS
  <2>2. \A d \in Dashboards : ToSet(queue[d]) = {}
    BY <1>1
  <2>3. version \in Versions
    BY DEF Versions
  <2>4. /\ clients \in Seq(Dashboards)
        /\ queue \in [Dashboards -> Seq(Handlers \cup Dashboards)]
        /\ inbox \in [Dashboards -> Seq(Versions)]
    BY <1>1
  <2> QED
    BY <2>1, <2>2, <2>3, <2>4 DEF BroadcastTypeOK
<1>3. Roles /\ Casts /\ Past
  BY DEF Roles, Casts, Past
<1>4. Queues /\ Members
  BY <1>1 DEF Queues, Members, Subscribed
<1>5. NoDashboardLeftBehind
  BY DEF NoDashboardLeftBehind, Served
<1> QED
  BY <1>2, <1>3, <1>4, <1>5 DEF BInv

\* BInv holds in every state: whatever broadcasts, subscriptions and losses
\* interleave, and whatever order the set is enumerated in.
THEOREM BroadcastInvariant == BroadcastSpec => []BInv
<1>1. BroadcastInit => BInv
  BY BroadcastInitHolds
<1>2. BInv /\ [BroadcastNext]_broadcastVars => BInv'
  <2> SUFFICES ASSUME BInv, [BroadcastNext]_broadcastVars PROVE BInv'
    OBVIOUS
  <2>1. ASSUME NEW h \in Handlers, Change(h) \/ HandlerStep(h) PROVE BInv'
    BY <2>1, ChangeKeepsInv, HandlerRaisesKeepsInv, StartBroadcastKeepsInv, SendKeepsInv
    DEF HandlerStep
  <2>2. ASSUME NEW d \in Dashboards,
               \/ Connect(d) \/ Subscribe(d) \/ EndpointStep(d)
               \/ LoseConnection(d) \/ NoticeLoss(d)
               \/ GetStatus(d) \/ PageStep(d)
        PROVE  BInv'
    BY <2>2, ConnectKeepsInv, SubscribeKeepsInv, EndpointStepKeepsInv, LinkKeepsInv,
       PageStepKeepsInv
  <2>3. CASE UNCHANGED broadcastVars
    BY <2>3, PageKeepsInv DEF broadcastVars, pageVars, BInv, BroadcastTypeOK
  <2> QED
    BY <2>1, <2>2, <2>3 DEF BroadcastNext
<1> QED
  BY <1>1, <1>2, PTL DEF BroadcastSpec

\* The variables of server.py's broadcasts keep their types.
THEOREM BroadcastTypeCorrect == BroadcastSpec => []BroadcastTypeOK
<1>1. BInv => BroadcastTypeOK
  BY DEF BInv
<1> QED
  BY <1>1, BroadcastInvariant, PTL

\* A subscribed and connected dashboard has been handed the newest snapshot,
\* or one as new is due, unless a handler raised before its broadcast
\* (broadcastClusterState, sendClusterStateTo).
THEOREM NobodyIsLeftBehind == BroadcastSpec => []NoDashboardLeftBehind
<1>1. BInv => NoDashboardLeftBehind
  BY DEF BInv
<1> QED
  BY <1>1, BroadcastInvariant, PTL

\* dashboardClients holds all whose endpoint serves a connection that is not
\* lost, and none whose endpoint is over.
THEOREM SubscriptionsAreKept == BroadcastSpec => []SubscriptionsHold
<1>1. BInv => SubscriptionsHold
  BY DEF BInv, Members, Subscribed, SubscriptionsHold
<1> QED
  BY <1>1, BroadcastInvariant, PTL
=============================================================================
