---------------------------- MODULE QueueProofs -----------------------------
(***************************************************************************)
(* Proofs about Queue.tla, for every set of nodes and of consumers: the    *)
(* list of queue.c stays well linked, and it is the queue of Fifo.tla.     *)
(*                                                                         *)
(* The pointers are described by LinkedBy, which says that a function s on *)
(* positions is what one finds on the way from the tail.  What a push and  *)
(* a pop do to s is a lemma on constants; that Chain, which follows the    *)
(* prev pointers by recursion, is this s, is ChainUnique.                  *)
(***************************************************************************)
EXTENDS Queue, WellFoundedInduction, SequenceTheorems, FiniteSetTheorems, TLAPS

-----------------------------------------------------------------------------
(* Following the prev pointers.                                            *)

\* A set of natural numbers that is not empty has a least member.
LEMMA LeastNatural ==
  ASSUME NEW T \in SUBSET Nat, T # {}
  PROVE  \E m \in T : \A k \in T : m <= k
<1>1. \E m \in T : \A k \in T : <<k, m>> \notin OpToRel(<, Nat)
  BY NatLessThanWellFounded, WFMin
<1>2. PICK m \in T : \A k \in T : <<k, m>> \notin OpToRel(<, Nat)
  BY <1>1
<1>3. \A k \in T : ~(k < m)
  BY <1>2 DEF OpToRel
<1>4. QED
  BY <1>3

\* The n nodes from tail t back to head h are s, by the pointers p to the
\* previous node and x to the next one.
LinkedBy(s, n, h, t, p, x) ==
  /\ n \in Nat
  /\ s \in [1..n -> Nodes]
  /\ \A i, j \in 1..n : s[i] = s[j] => i = j
  /\ n = 0 => h = NULL /\ t = NULL
  /\ n > 0 => s[1] = t /\ s[n] = h /\ p[h] = NULL /\ x[t] = NULL
  /\ \A k \in 2..n : s[k] = p[s[k - 1]] /\ x[s[k]] = s[k - 1]

\* The function that the recursive definition of Chain chooses.
ChainFrom(n, t, p) == CHOOSE c : c = [k \in 1..n |-> IF k = 1 THEN t ELSE p[c[k - 1]]]

\* There is only one way to follow the prev pointers.
LEMMA ChainUnique ==
  ASSUME NEW s, NEW n, NEW h, NEW t, NEW p, NEW x, LinkedBy(s, n, h, t, p, x)
  PROVE  ChainFrom(n, t, p) = s
<1> DEFINE N == 1..n
           c == ChainFrom(n, t, p)
           IsChain(f) == f = [k \in N |-> IF k = 1 THEN t ELSE p[f[k - 1]]]
<1>1. n \in Nat /\ s = [k \in N |-> s[k]]
  BY DEF LinkedBy
<1>2. \A k \in N : s[k] = IF k = 1 THEN t ELSE p[s[k - 1]]
  BY DEF LinkedBy
<1>3. IsChain(s)
  BY <1>1, <1>2
<1>4. c = CHOOSE f : IsChain(f)
  BY DEF ChainFrom
<1>5. IsChain(c)
  BY <1>3, <1>4
<1> HIDE DEF c
<1>6. \A k \in N : c[k] = IF k = 1 THEN t ELSE p[c[k - 1]]
  BY <1>5
<1>7. \A k \in N : c[k] = s[k]
  <2> DEFINE D == {k \in N : c[k] # s[k]}
  <2>1. SUFFICES ASSUME D # {} PROVE FALSE
    OBVIOUS
  <2>2. D \in SUBSET Nat
    BY <1>1
  <2>3. \E m \in D : \A k \in D : m <= k
    <3> HIDE DEF D
    <3>1. QED
      BY <2>1, <2>2, LeastNatural
  <2>4. PICK m \in D : \A k \in D : m <= k
    BY <2>3
  <2>5. m # 1
    BY <1>2, <1>6, <2>4
  <2>6. m - 1 \in N /\ m - 1 \notin D
    BY <1>1, <2>4, <2>5
  <2>7. QED
    BY <1>2, <1>6, <2>4, <2>5, <2>6
<1>8. QED
  BY <1>1, <1>5, <1>7 DEF c

-----------------------------------------------------------------------------
(* What the calls do to the pointers.                                      *)

\* A push on an empty list: one node that is both ends.
LEMMA PushedFirst ==
  ASSUME NEW y \in Nodes, NEW p \in [Nodes -> Nodes \cup {NULL}], NEW x \in [Nodes -> Nodes \cup {NULL}]
  PROVE  LinkedBy(<<y>>, 1, y, y, [p EXCEPT ![y] = NULL], [x EXCEPT ![y] = NULL])
<1>1. <<y>> \in [1..1 -> Nodes] /\ <<y>>[1] = y
  OBVIOUS
<1>2. QED
  BY <1>1 DEF LinkedBy

\* A push on a list that is not empty: the new node is the head.
LEMMA PushedAtHead ==
  ASSUME NEW s, NEW n, n # 0, NEW h, NEW t,
         NEW p \in [Nodes -> Nodes \cup {NULL}], NEW x \in [Nodes -> Nodes \cup {NULL}],
         LinkedBy(s, n, h, t, p, x),
         NEW y \in Nodes, \A k \in 1..n : s[k] # y
  PROVE  LET r == [k \in 1..(n + 1) |-> IF k = n + 1 THEN y ELSE s[k]]
         IN  LinkedBy(r, n + 1, y, t, [p EXCEPT ![y] = NULL, ![h] = y], [x EXCEPT ![y] = h])
<1> DEFINE r == [k \in 1..(n + 1) |-> IF k = n + 1 THEN y ELSE s[k]]
           q == [p EXCEPT ![y] = NULL, ![h] = y]
           z == [x EXCEPT ![y] = h]
<1>1. /\ n \in Nat \ {0} /\ s \in [1..n -> Nodes]
      /\ \A i, j \in 1..n : s[i] = s[j] => i = j
      /\ s[1] = t /\ s[n] = h /\ p[h] = NULL /\ x[t] = NULL
      /\ \A k \in 2..n : s[k] = p[s[k - 1]] /\ x[s[k]] = s[k - 1]
  BY DEF LinkedBy
<1>2. n + 1 \in Nat /\ r \in [1..(n + 1) -> Nodes]
  BY <1>1
<1>3. \A i, j \in 1..(n + 1) : r[i] = r[j] => i = j
  BY <1>1
<1>4. r[1] = t /\ r[n + 1] = y
  BY <1>1
<1>5. h \in Nodes /\ h # y /\ t \in Nodes /\ t # y
  BY <1>1
<1>6. q[y] = NULL /\ q[h] = y /\ z[y] = h /\ z[t] = NULL
  BY <1>1, <1>5
<1>7. \A k \in 1..n : k < n => s[k] # h
  BY <1>1
<1>8. \A k \in 2..n : r[k] = q[r[k - 1]] /\ z[r[k]] = r[k - 1]
  <2> SUFFICES ASSUME NEW k \in 2..n
               PROVE  r[k] = q[r[k - 1]] /\ z[r[k]] = r[k - 1]
    OBVIOUS
  <2>1. r[k] = s[k] /\ r[k - 1] = s[k - 1] /\ s[k - 1] # h /\ s[k] # y /\ s[k - 1] # y
    BY <1>1, <1>7
  <2>2. s[k] \in Nodes /\ s[k - 1] \in Nodes
    BY <1>1
  <2>3. q[s[k - 1]] = p[s[k - 1]] /\ z[s[k]] = x[s[k]]
    BY <2>1, <2>2
  <2>4. QED
    BY <1>1, <2>1, <2>3
<1>9. r[n + 1] = q[r[n]] /\ z[r[n + 1]] = r[n]
  BY <1>1, <1>4, <1>6
<1> HIDE DEF r, q, z
<1>10. \A k \in 2..(n + 1) : r[k] = q[r[k - 1]] /\ z[r[k]] = r[k - 1]
  BY <1>1, <1>8, <1>9
<1>11. LinkedBy(r, n + 1, y, t, q, z)
  BY <1>1, <1>2, <1>3, <1>4, <1>6, <1>10 DEF LinkedBy
<1>12. QED
  BY <1>11 DEF r, q, z

\* A pop of the only node.
LEMMA PoppedLast ==
  ASSUME NEW p, NEW x
  PROVE  LinkedBy(<<>>, 0, NULL, NULL, p, x)
BY DEF LinkedBy

\* A pop from a list of more nodes: the tail goes.
LEMMA PoppedTail ==
  ASSUME NEW s, NEW n, n # 0, n # 1, NEW h, NEW t,
         NEW p \in [Nodes -> Nodes \cup {NULL}], NEW x \in [Nodes -> Nodes \cup {NULL}],
         LinkedBy(s, n, h, t, p, x)
  PROVE  LET r == [k \in 1..(n - 1) |-> s[k + 1]]
         IN  LinkedBy(r, n - 1, h, p[t], [p EXCEPT ![t] = NULL], [x EXCEPT ![p[t]] = NULL, ![t] = NULL])
<1> DEFINE r == [k \in 1..(n - 1) |-> s[k + 1]]
           u == p[t]
           q == [p EXCEPT ![t] = NULL]
           z == [x EXCEPT ![u] = NULL, ![t] = NULL]
<1>1. /\ n \in Nat /\ n > 1 /\ s \in [1..n -> Nodes]
      /\ \A i, j \in 1..n : s[i] = s[j] => i = j
      /\ s[1] = t /\ s[n] = h /\ p[h] = NULL /\ x[t] = NULL
      /\ \A k \in 2..n : s[k] = p[s[k - 1]] /\ x[s[k]] = s[k - 1]
  BY DEF LinkedBy
<1>2. n - 1 \in Nat /\ n - 1 > 0 /\ r \in [1..(n - 1) -> Nodes]
  BY <1>1
<1>3. \A i, j \in 1..(n - 1) : r[i] = r[j] => i = j
  BY <1>1
<1>4. s[2] = u /\ r[1] = u /\ r[n - 1] = h
  BY <1>1
<1>5. \A k \in 2..n : s[k] # t /\ s[k] \in Nodes
  BY <1>1
<1>6. h # t /\ h \in Nodes /\ u # t /\ u \in Nodes /\ t \in Nodes
  BY <1>1, <1>4, <1>5
<1>7. q[h] = NULL /\ z[u] = NULL
  BY <1>1, <1>6
<1>8. \A k \in 3..n : s[k] # u
  BY <1>1, <1>4
<1>9. \A k \in 2..(n - 1) : r[k] = q[r[k - 1]] /\ z[r[k]] = r[k - 1]
  <2> SUFFICES ASSUME NEW k \in 2..(n - 1)
               PROVE  r[k] = q[r[k - 1]] /\ z[r[k]] = r[k - 1]
    OBVIOUS
  <2>1. r[k] = s[k + 1] /\ r[k - 1] = s[k]
    BY <1>1
  <2>2. /\ s[k] # t /\ s[k] \in Nodes
        /\ s[k + 1] # t /\ s[k + 1] # u /\ s[k + 1] \in Nodes
    BY <1>1, <1>5, <1>8
  <2>3. q[s[k]] = p[s[k]] /\ z[s[k + 1]] = x[s[k + 1]]
    BY <1>6, <2>2
  <2>4. s[k + 1] = p[s[k]] /\ x[s[k + 1]] = s[k]
    <3>1. k + 1 \in 2..n /\ (k + 1) - 1 = k
      BY <1>1
    <3>2. QED
      BY <1>1, <3>1
  <2>5. QED
    BY <2>1, <2>3, <2>4
<1> HIDE DEF r, q, z
<1>10. LinkedBy(r, n - 1, h, u, q, z)
  BY <1>2, <1>3, <1>4, <1>7, <1>9 DEF LinkedBy
<1>11. QED
  BY <1>10 DEF r, q, z

\* The chain after a push is the old one with the new node at its end.
LEMMA AppendAsFunction ==
  ASSUME NEW s \in Seq(Nodes), NEW y \in Nodes
  PROVE  Append(s, y) = [k \in 1..(Len(s) + 1) |-> IF k = Len(s) + 1 THEN y ELSE s[k]]
<1> DEFINE a == Append(s, y)
<1>1. /\ a \in Seq(Nodes) /\ Len(a) = Len(s) + 1 /\ Len(s) \in Nat
      /\ \A k \in 1..Len(s) : a[k] = s[k]
      /\ a[Len(s) + 1] = y
  BY AppendProperties, LenProperties
<1> HIDE DEF a
<1>2. a \in [1..(Len(s) + 1) -> Nodes]
  BY <1>1, LenProperties
<1>3. a = [k \in 1..(Len(s) + 1) |-> a[k]]
  BY <1>2
<1>4. \A k \in 1..(Len(s) + 1) : a[k] = IF k = Len(s) + 1 THEN y ELSE s[k]
  BY <1>1
<1>5. QED
  BY <1>3, <1>4 DEF a

\* The chain after a pop is the old one without its first node.
LEMMA TailAsFunction ==
  ASSUME NEW s \in Seq(Nodes), s # <<>>
  PROVE  Tail(s) = [k \in 1..(Len(s) - 1) |-> s[k + 1]]
<1> DEFINE a == Tail(s)
<1>1. /\ a \in Seq(Nodes) /\ Len(a) = Len(s) - 1
      /\ \A k \in 1..Len(a) : a[k] = s[k + 1]
  BY HeadTailProperties
<1> HIDE DEF a
<1>2. a \in [1..(Len(s) - 1) -> Nodes]
  BY <1>1, LenProperties
<1>3. a = [k \in 1..(Len(s) - 1) |-> a[k]]
  BY <1>2
<1>4. QED
  BY <1>1, <1>3 DEF a

\* The tail of one element is empty.
LEMMA TailOfOne ==
  ASSUME NEW s \in Seq(Nodes), Len(s) = 1
  PROVE  Tail(s) = <<>>
<1>1. s # <<>>
  BY EmptySeq
<1>2. Tail(s) \in Seq(Nodes) /\ Len(Tail(s)) = 0
  BY <1>1, HeadTailProperties
<1>3. QED
  BY <1>2, EmptySeq

-----------------------------------------------------------------------------
(* The inductive invariant.                                                *)

QTypeOK ==
  /\ prev \in [Nodes -> Nodes \cup {NULL}]
  /\ next \in [Nodes -> Nodes \cup {NULL}]
  /\ consumer \in [Consumers -> {"outside", "popping", "waiting"}]
  /\ held \in [Consumers -> Nodes \cup {NULL}]

QLinked == LinkedBy(Chain, number_of_nodes, list_head, tail, prev, next)

\* Nobody holds a node of the list, and a consumer that is in a call holds none.
QHeld ==
  /\ \A c \in Consumers : \A k \in DOMAIN Chain : Chain[k] # held[c]
  /\ \A c \in Consumers : consumer[c] # "outside" => held[c] = NULL

QInv == QTypeOK /\ QLinked /\ QHeld

\* Chain is what the pointers lead to, before a step ...
LEMMA ChainIs == Chain = ChainFrom(number_of_nodes, tail, prev)
BY DEF Chain, ChainFrom

\* ... and after it.
LEMMA ChainIsNext == Chain' = ChainFrom(number_of_nodes', tail', prev')
BY DEF Chain, ChainFrom

\* A new chain is known by its links.
LEMMA NextChain ==
  ASSUME NEW s, LinkedBy(s, number_of_nodes', list_head', tail', prev', next')
  PROVE  Chain' = s /\ QLinked'
<1>1. Chain' = s
  BY ChainIsNext, ChainUnique
<1>2. QED
  BY <1>1 DEF QLinked, LinkedBy

\* create_list.
LEMMA QInitInv == Init => QInv /\ Chain = <<>>
<1> SUFFICES ASSUME Init PROVE QInv /\ Chain = <<>>
  OBVIOUS
<1>1. LinkedBy(<<>>, number_of_nodes, list_head, tail, prev, next)
  BY PoppedLast DEF Init
<1>2. Chain = <<>>
  BY <1>1, ChainIs, ChainUnique
<1>3. QED
  BY <1>1, <1>2 DEF Init, QInv, QTypeOK, QLinked, QHeld

\* What a list is, seen from its chain.
LEMMA ChainFacts ==
  ASSUME QInv
  PROVE  /\ number_of_nodes \in Nat
         /\ Chain \in Seq(Nodes) /\ Len(Chain) = number_of_nodes /\ DOMAIN Chain = 1..number_of_nodes
         /\ number_of_nodes = 0 => Chain = <<>>
         /\ number_of_nodes # 0 => Chain # <<>> /\ Chain[1] = tail /\ tail \in Nodes /\ list_head \in Nodes
<1>1. /\ number_of_nodes \in Nat /\ Chain \in [1..number_of_nodes -> Nodes]
      /\ number_of_nodes > 0 => Chain[1] = tail /\ Chain[number_of_nodes] = list_head
  BY DEF QInv, QLinked, LinkedBy
<1>2. Chain \in Seq(Nodes) /\ Len(Chain) = number_of_nodes /\ DOMAIN Chain = 1..number_of_nodes
  BY <1>1, LenProperties
<1>3. QED
  BY <1>1, <1>2, EmptySeq

\* A call that moves no pointer and gives no node away.
LEMMA LinksStay ==
  ASSUME QInv, UNCHANGED links,
         consumer' \in [Consumers -> {"outside", "popping", "waiting"}],
         held' \in [Consumers -> Nodes \cup {NULL}],
         \A c \in Consumers : held'[c] = held[c] \/ held'[c] = NULL,
         \A c \in Consumers : consumer'[c] # "outside" => held'[c] = NULL
  PROVE  QInv' /\ Chain' = Chain
<1>1. LinkedBy(Chain, number_of_nodes', list_head', tail', prev', next')
  BY DEF QInv, QLinked, links
<1>2. Chain' = Chain /\ QLinked'
  BY <1>1, NextChain
<1>3. \A k \in DOMAIN Chain : Chain[k] # NULL
  BY ChainFacts, QueueAssumption DEF QInv, QLinked, LinkedBy
<1>4. QTypeOK' /\ QHeld'
  BY <1>2, <1>3 DEF QInv, QTypeOK, QHeld, links
<1>5. QED
  BY <1>2, <1>4 DEF QInv

\* push_node_to_list: the new node comes last.
LEMMA PushStep ==
  ASSUME QInv, NEW n \in Nodes, Push(n)
  PROVE  QInv' /\ Chain' = Append(Chain, n) /\ held' = held
<1>1. /\ number_of_nodes \in Nat /\ number_of_nodes' = number_of_nodes + 1 /\ held' = held
      /\ Chain \in Seq(Nodes) /\ Len(Chain) = number_of_nodes /\ DOMAIN Chain = 1..number_of_nodes
  BY ChainFacts DEF Push
<1>2. /\ \A k \in 1..number_of_nodes : Chain[k] # n
      /\ \A c \in Consumers : held[c] # n
  BY <1>1 DEF Push, Fresh
<1>3. /\ consumer' \in [Consumers -> {"outside", "popping", "waiting"}]
      /\ \A c \in Consumers : consumer'[c] # "outside" => held[c] = NULL
  BY DEF Push, Signal, Waiting, QInv, QTypeOK, QHeld
<1>4. Chain' = Append(Chain, n) /\ QLinked' /\ QTypeOK'
  <2>1. CASE number_of_nodes = 0
    <3>1. LinkFirst(n) /\ Chain = <<>>
      BY <2>1, ChainFacts DEF Push
    <3>2. LinkedBy(<<n>>, 1, n, n, prev', next')
      BY <3>1, PushedFirst DEF LinkFirst, QInv, QTypeOK
    <3>3. LinkedBy(<<n>>, number_of_nodes', list_head', tail', prev', next')
      <4>1. number_of_nodes' = 1 /\ list_head' = n /\ tail' = n
        BY <1>1, <2>1, <3>1 DEF LinkFirst
      <4>2. QED
        BY <3>2, <4>1
    <3>4. Chain' = <<n>> /\ QLinked'
      BY <3>3, NextChain
    <3>5. QTypeOK'
      BY <1>1, <1>3, <3>1 DEF LinkFirst, QInv, QTypeOK
    <3>6. QED
      BY <3>1, <3>4, <3>5
  <2>2. CASE number_of_nodes # 0
    <3> DEFINE r == [k \in 1..(number_of_nodes + 1) |-> IF k = number_of_nodes + 1 THEN n ELSE Chain[k]]
    <3>1. list_head \in Nodes
      BY <2>2, ChainFacts
    <3>2. LinkHead(n)
      BY <2>2, <3>1, QueueAssumption DEF Push
    <3>3. LinkedBy(r, number_of_nodes + 1, n, tail, prev', next')
      BY <1>2, <2>2, <3>2, PushedAtHead DEF LinkHead, QInv, QTypeOK, QLinked
    <3>4. r = Append(Chain, n)
      BY <1>1, AppendAsFunction
    <3> HIDE DEF r
    <3>5. Chain' = r /\ QLinked'
      BY <1>1, <3>2, <3>3, NextChain DEF LinkHead
    <3>6. QTypeOK'
      BY <1>1, <1>3, <3>1, <3>2 DEF LinkHead, QInv, QTypeOK
    <3>7. QED
      BY <3>4, <3>5, <3>6
  <2>3. QED
    BY <2>1, <2>2
<1>5. QHeld'
  <2>1. \A k \in DOMAIN Chain' : Chain'[k] = n \/ \E j \in DOMAIN Chain : Chain'[k] = Chain[j]
    BY <1>1, <1>4, AppendProperties
  <2>2. QED
    BY <1>1, <1>2, <1>3, <1>4, <2>1 DEF QInv, QHeld
<1>6. QED
  BY <1>1, <1>4, <1>5 DEF QInv

\* pop_element_from_tail: the consumer gets the first of the chain.
LEMMA PopStep ==
  ASSUME QInv, NEW c \in Consumers, Pop(c)
  PROVE  /\ QInv'
         /\ Chain # <<>> /\ held[c] = NULL
         /\ Chain' = Tail(Chain) /\ held' = [held EXCEPT ![c] = Head(Chain)]
<1>1. /\ number_of_nodes \in Nat \ {0} /\ number_of_nodes' = number_of_nodes - 1
      /\ Chain \in Seq(Nodes) /\ Len(Chain) = number_of_nodes /\ DOMAIN Chain = 1..number_of_nodes
      /\ Chain # <<>> /\ Chain[1] = tail /\ tail \in Nodes /\ list_head \in Nodes
  BY ChainFacts DEF Pop
<1>2. held[c] = NULL /\ Head(Chain) = tail
  BY <1>1 DEF Pop, QInv, QHeld
<1>3. consumer' = [consumer EXCEPT ![c] = "outside"] /\ held' = [held EXCEPT ![c] = tail]
  BY DEF Pop
<1>4. Chain' = Tail(Chain) /\ QLinked' /\ QTypeOK'
  <2>1. CASE number_of_nodes = 1
    <3>1. UnlinkOnly
      BY <2>1 DEF Pop
    <3>2. LinkedBy(<<>>, number_of_nodes', list_head', tail', prev', next')
      BY <1>1, <2>1, <3>1, PoppedLast DEF UnlinkOnly
    <3>3. Tail(Chain) = <<>>
      BY <1>1, <2>1, TailOfOne
    <3>4. Chain' = Tail(Chain) /\ QLinked'
      BY <3>2, <3>3, NextChain
    <3>5. QTypeOK'
      BY <1>1, <1>3, <3>1 DEF UnlinkOnly, QInv, QTypeOK
    <3>6. QED
      BY <3>4, <3>5
  <2>2. CASE number_of_nodes # 1
    <3> DEFINE r == [k \in 1..(number_of_nodes - 1) |-> Chain[k + 1]]
    <3>1. UnlinkTail
      BY <2>2 DEF Pop
    <3>2. LinkedBy(r, number_of_nodes', list_head', tail', prev', next')
      BY <1>1, <2>2, <3>1, PoppedTail DEF UnlinkTail, QInv, QTypeOK, QLinked
    <3>3. r = Tail(Chain)
      BY <1>1, TailAsFunction
    <3> HIDE DEF r
    <3>4. Chain' = r /\ QLinked'
      BY <3>2, NextChain
    <3>5. QTypeOK'
      BY <1>1, <1>3, <3>1 DEF UnlinkTail, QInv, QTypeOK
    <3>6. QED
      BY <3>3, <3>4, <3>5
  <2>3. QED
    BY <2>1, <2>2
<1>5. QHeld'
  <2>1. \A k \in DOMAIN Chain' : k + 1 \in DOMAIN Chain /\ Chain'[k] = Chain[k + 1]
    <3>1. /\ Tail(Chain) \in Seq(Nodes) /\ Len(Tail(Chain)) = number_of_nodes - 1
          /\ \A k \in 1..(number_of_nodes - 1) : Tail(Chain)[k] = Chain[k + 1]
      BY <1>1, HeadTailProperties
    <3>2. DOMAIN Tail(Chain) = 1..(number_of_nodes - 1)
      BY <3>1, LenProperties
    <3>3. QED
      BY <1>1, <1>4, <3>1, <3>2
  <2>2. \A k \in DOMAIN Chain' : Chain'[k] # tail
    <3>1. \A k \in DOMAIN Chain : k + 1 \in DOMAIN Chain => Chain[k + 1] # Chain[1]
      BY <1>1 DEF QInv, QLinked, LinkedBy
    <3>2. \A k \in DOMAIN Chain' : k \in DOMAIN Chain
      BY <1>1, <1>4, <2>1, HeadTailProperties, LenProperties
    <3>3. QED
      BY <1>1, <2>1, <3>1, <3>2
  <2>3. QED
    BY <1>2, <1>3, <1>4, <2>1, <2>2 DEF QInv, QTypeOK, QHeld
<1>6. QED
  BY <1>1, <1>2, <1>3, <1>4, <1>5 DEF QInv

-----------------------------------------------------------------------------
(* The steps, and the theorems.                                            *)

\* What one step does to the chain and to the hands: it is a step of the
\* queue of Fifo.tla, or neither of the two moves.
LEMMA QNextInv ==
  ASSUME QInv, [Next]_vars
  PROVE  QInv' /\ [F!Next]_<<Chain, held>>
<1>1. ASSUME NEW n \in Nodes, Push(n) PROVE QInv' /\ F!Put(n)
  <2>1. QInv' /\ Chain' = Append(Chain, n) /\ held' = held
    BY <1>1, PushStep
  <2>2. n \notin F!InUse
    BY <1>1 DEF Push, Fresh, F!InUse
  <2>3. QED
    BY <2>1, <2>2 DEF F!Put
<1>2. ASSUME NEW c \in Consumers, Call(c) PROVE QInv' /\ Chain' = Chain /\ held' = held
  BY <1>2, LinksStay DEF Call, QInv, QTypeOK, QHeld
<1>3. ASSUME NEW c \in Consumers, Wait(c) PROVE QInv' /\ Chain' = Chain /\ held' = held
  BY <1>3, LinksStay DEF Wait, QInv, QTypeOK, QHeld
<1>4. ASSUME NEW c \in Consumers, WakeUp(c) PROVE QInv' /\ Chain' = Chain /\ held' = held
  BY <1>4, LinksStay DEF WakeUp, QInv, QTypeOK, QHeld
<1>5. ASSUME NEW c \in Consumers, Pop(c) PROVE QInv' /\ F!Take(c)
  BY <1>5, PopStep DEF F!Take
<1>6. ASSUME NEW c \in Consumers, Release(c) PROVE QInv' /\ F!GiveBack(c)
  <2>1. QInv' /\ Chain' = Chain
    BY <1>6, LinksStay DEF Release, QInv, QTypeOK, QHeld
  <2>2. QED
    BY <1>6, <2>1 DEF Release, F!GiveBack
<1>7. CASE UNCHANGED vars
  <2>1. QInv' /\ Chain' = Chain
    BY <1>7, LinksStay DEF vars, links, QInv, QTypeOK, QHeld
  <2>2. QED
    BY <1>7, <2>1 DEF vars
<1>8. QED
  BY <1>1, <1>2, <1>3, <1>4, <1>5, <1>6, <1>7 DEF Next, F!Next

\* The pointers are always those of one list, and nobody holds a node of it.
THEOREM QueueInvariant == Spec => []QInv
<1>1. Init => QInv
  BY QInitInv
<1>2. QInv /\ [Next]_vars => QInv'
  BY QNextInv
<1>3. QED
  BY <1>1, <1>2, PTL DEF Spec

\* The invariant says all that WellLinked asks for.
LEMMA QInvWellLinked ==
  ASSUME QInv
  PROVE  WellLinked
<1>1. /\ number_of_nodes \in Nat
      /\ Chain \in [1..number_of_nodes -> Nodes] /\ DOMAIN Chain = 1..number_of_nodes
      /\ \A i, j \in 1..number_of_nodes : Chain[i] = Chain[j] => i = j
      /\ number_of_nodes = 0 => list_head = NULL /\ tail = NULL
      /\ number_of_nodes > 0 =>
           /\ Chain[1] = tail /\ Chain[number_of_nodes] = list_head
           /\ prev[list_head] = NULL /\ next[tail] = NULL
      /\ \A k \in 2..number_of_nodes : next[Chain[k]] = Chain[k - 1]
  BY DEF QInv, QLinked, LinkedBy
<1>2. number_of_nodes > 0 => list_head # NULL /\ tail # NULL
  BY <1>1, QueueAssumption
<1>3. \A k \in DOMAIN Chain : Chain[k] \in Nodes \ {held[c] : c \in Consumers}
  BY <1>1 DEF QInv, QHeld
<1>4. (number_of_nodes = 0 <=> list_head = NULL) /\ (number_of_nodes = 0 <=> tail = NULL)
  BY <1>1, <1>2
<1>5. QED
  BY <1>1, <1>3, <1>4 DEF WellLinked

\* The list of queue.c stays a doubly linked list for every number of nodes
\* and of threads: no pop gets the node of another, and the exit of
\* pop_element_from_tail for an inconsistent list is never taken.
THEOREM WellLinkedAlways == Spec => []WellLinked
BY QueueInvariant, QInvWellLinked, PTL

\* The list is a queue: elements leave in the order in which they came, each
\* to one consumer.
THEOREM QueueIsFifo == Spec => ImplementsFifo
<1>1. Init => F!Init
  BY QInitInv DEF Init, F!Init
<1>2. QInv /\ [Next]_vars => [F!Next]_<<Chain, held>>
  BY QNextInv
<1>3. QED
  BY <1>1, <1>2, QueueInvariant, PTL DEF Spec, F!Spec, ImplementsFifo

=============================================================================
