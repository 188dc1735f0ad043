--------------------------- MODULE GmPaths_proofs ---------------------------
(***************************************************************************)
(* The path finder searches in step with its heap, gives up only when all  *)
(* that can be reached was visited, and what it returns is a way: for any  *)
(* map, any lengths and estimates, and any number of searches.             *)
(***************************************************************************)
EXTENDS GmPaths, PathHeap_proofs

\* The nodes in the queue, by what the heap keeps.
Queued == {e.trap_id : e \in Range(nodes)}

Heap == \E n \in Nat : IsHeap(n)

\* What is added to the properties to make them inductive.
TodoIsNext ==
  todo # <<>> => IsClosed(curr) /\ Range(todo) \subseteq Range(Neighbors[curr])

StartsEmpty ==
  search = "start" => nodes = Empty /\ todo = <<>> /\ \A t \in TrapIds : ~IsKnown(t)

NotFoundYet == search # "none" => ~found

SourceFirst ==
  search = "loop" =>
    /\ IsKnown(src)
    /\ \A t \in TrapIds : IsKnown(t) /\ t # src => IsClosed(src)

AllSeen ==
  search = "loop" /\ ~skipped =>
    \A t \in TrapIds : IsClosed(t) =>
      \A u \in Range(Neighbors[t]) : IsKnown(u) \/ (t = curr /\ u \in Range(todo))

\* The parents go up in no circle, although costs need not grow.
IsRank(r) == /\ r \in [TrapIds -> Nat]
             /\ \A t \in TrapIds : IsKnown(t) /\ t # src => r[node[t].next] < r[t]

Ranked == search = "loop" => \E r : IsRank(r)

Inv == /\ Heap /\ PathsTypeOK
       /\ TodoIsNext /\ StartsEmpty /\ NotFoundYet /\ SourceFirst
       /\ ParentsAreClosed /\ QueueInStep /\ Ranked
       /\ AllSeen /\ GivesUpAtTheEnd /\ PathIsWay

-----------------------------------------------------------------------------
(* The queue *)

LEMMA QueuedIs ==
  ASSUME NEW f, NEW t
  PROVE  (\E i \in DOMAIN f : f[i].trap_id = t) <=> t \in {e.trap_id : e \in Range(f)}
<1>1. \A v : v \in Range(f) <=> \E x \in DOMAIN f : f[x] = v
  BY InRange
<1>2. t \in {e.trap_id : e \in Range(f)} <=> \E e \in Range(f) : e.trap_id = t
  OBVIOUS
<1> QED
  BY <1>1, <1>2

\* OpenIsQueued and QueuedIsKnown, in these words.
QueuedInStep ==
  /\ \A t \in TrapIds : IsKnown(t) /\ ~IsClosed(t) => t \in Queued
  /\ \A t \in Queued : IsKnown(t)

LEMMA InStepIs == QueueInStep <=> (search = "loop" => QueuedInStep)
<1>1. (\A t \in TrapIds : IsKnown(t) /\ ~IsClosed(t) => \E i \in DOMAIN nodes : nodes[i].trap_id = t)
      <=> \A t \in TrapIds : IsKnown(t) /\ ~IsClosed(t) => t \in Queued
  BY QueuedIs DEF Queued
<1>2. (\A i \in DOMAIN nodes : IsKnown(nodes[i].trap_id)) <=> \A t \in Queued : IsKnown(t)
  <2>1. (\A i \in DOMAIN nodes : IsKnown(nodes[i].trap_id))
        <=> \A t : (\E i \in DOMAIN nodes : nodes[i].trap_id = t) => IsKnown(t)
    OBVIOUS
  <2> QED
    BY <2>1, QueuedIs DEF Queued
<1> QED
  BY <1>1, <1>2 DEF QueueInStep, OpenIsQueued, QueuedIsKnown, QueuedInStep

LEMMA HeapIsTyped ==
  Heap /\ popped \in PathHeapNode \cup {NULL} => TypeOK
<1> SUFFICES ASSUME Heap, popped \in PathHeapNode \cup {NULL} PROVE TypeOK
  OBVIOUS
<1>1. PICK n \in Nat : IsHeap(n)
  BY DEF Heap
<1> QED
  BY <1>1, LenOfHeap DEF IsHeap, TypeOK

\* Both are used of the next state, too.
LEMMA HeapIsTypedNext ==
  Heap' /\ popped' \in PathHeapNode \cup {NULL} => TypeOK'
<1>1. (Heap /\ popped \in PathHeapNode \cup {NULL} => TypeOK)'
  BY HeapIsTyped, PTL
<1> QED
  BY <1>1

LEMMA InStepIsNext == QueueInStep' <=> (search' = "loop" => QueuedInStep')
<1>1. (QueueInStep <=> (search = "loop" => QueuedInStep))'
  BY InStepIs, PTL
<1> QED
  BY <1>1

LEMMA NeighborsAreTraps ==
  ASSUME NEW t \in TrapIds
  PROVE  Range(Neighbors[t]) \subseteq TrapIds
<1>1. Neighbors[t] \in Seq(TrapIds)
  BY PathsAssumption
<1>2. Range(Neighbors[t]) \in SUBSET TrapIds
  BY <1>1, RangeOfSeq
<1> QED
  BY <1>2

LEMMA QueuedAreTraps ==
  ASSUME Heap
  PROVE  Range(nodes) \subseteq PathHeapNode /\ Queued \subseteq TrapIds
<1>1. PICK n \in Nat : IsHeap(n)
  BY DEF Heap
<1>2. Range(nodes) \subseteq PathHeapNode
  BY <1>1 DEF IsHeap, Range
<1> QED
  BY <1>2 DEF Queued, PathHeapNode

\* PathAddNode overwrites one node and queues it.
LEMMA AddKeeps ==
  ASSUME Heap, node \in [TrapIds -> PathFindNode \cup {NULL}],
         NEW parent \in TrapIds \cup {NULL}, NEW t \in TrapIds,
         NEW cost \in 0..(MaxCost - 1), NEW estimated_cost \in Costs,
         PathAddNode(parent, t, cost, estimated_cost)
  PROVE  /\ Heap' /\ popped' = NULL /\ Queued' = Queued \cup {t}
         /\ node' \in [TrapIds -> PathFindNode \cup {NULL}]
         /\ node'[t] \in PathFindNode /\ ~node'[t].closed
         /\ node'[t].cost_to_node = cost /\ node'[t].next = parent
         /\ \A u \in TrapIds : u # t => node'[u] = node[u]
<1> DEFINE new  == [closed |-> FALSE, cost_to_node |-> cost, next |-> parent]
           elem == [cost |-> estimated_cost, trap_id |-> t]
<1>1. new \in PathFindNode /\ ~new.closed /\ new.cost_to_node = cost /\ new.next = parent
  BY DEF PathFindNode
<1>2. elem \in PathHeapNode /\ elem.trap_id = t
  BY DEF PathHeapNode
<1>3. node' = [node EXCEPT ![t] = new] /\ PathHeapPush(elem)
  BY DEF PathAddNode
<1> HIDE DEF new, elem
<1>4. PICK n \in Nat : IsHeap(n)
  BY DEF Heap
<1>5. IsHeap(n + 1)' /\ Range(nodes') = Range(nodes) \cup {elem}
  BY <1>2, <1>3, <1>4, PushKeeps
<1>6. Heap'
  <2>1. n + 1 \in Nat
    OBVIOUS
  <2> QED
    BY <1>5, <2>1 DEF Heap, IsHeap
<1>7. Queued' = Queued \cup {t}
  BY <1>2, <1>5 DEF Queued
<1>8. popped' = NULL
  BY <1>3 DEF PathHeapPush
<1> QED
  BY <1>1, <1>3, <1>6, <1>7, <1>8

\* A pop takes a queued node; others stay.
LEMMA TakesQueued ==
  ASSUME Heap, PathHeapPop
  PROVE  /\ Heap' /\ popped' \in PathHeapNode
         /\ Queued = Queued' \cup {popped'.trap_id}
<1>1. PICK n \in Nat : IsHeap(n)
  BY DEF Heap
<1>2. n # 0 /\ IsHeap(n - 1)' /\ popped' \in Range(nodes)
      /\ Range(nodes) = Range(nodes') \cup {popped'}
  BY <1>1, PopKeeps
<1>3. Heap'
  <2>1. n - 1 \in Nat
    BY <1>2
  <2> QED
    BY <1>2, <2>1 DEF Heap, IsHeap
<1> QED
  BY <1>2, <1>3, QueuedAreTraps DEF Queued

-----------------------------------------------------------------------------
(* The list of the nodes along "next" *)

WalkBody(walk, t, n) ==
  IF n = 0 THEN <<t>>
  ELSE IF node[Head(walk[n - 1])].next = NULL THEN walk[n - 1]
  ELSE <<node[Head(walk[n - 1])].next>> \o walk[n - 1]

Walk(walk, t, k) == [n \in 0..k |-> WalkBody(walk, t, n)]

LEMMA ListToIsWalk ==
  ASSUME NEW t, NEW C, C = Cardinality(TrapIds)
  PROVE  ListTo(t) = (CHOOSE walk : walk = Walk(walk, t, C))[C]
  BY DEF ListTo, Walk, WalkBody

LEMMA WalkExists ==
  ASSUME NEW k \in Nat, NEW t
  PROVE  \E walk : walk = Walk(walk, t, k)
<1> DEFINE T == {n \in Nat : ~\E walk : walk = Walk(walk, t, n)}
<1> SUFFICES ASSUME T # {} PROVE FALSE
  OBVIOUS
<1>1. PICK m \in T : \A n \in T : m <= n
  BY Least
<1>2. CASE m = 0
  <2> DEFINE f == [n \in 0..0 |-> <<t>>]
  <2>1. f = Walk(f, t, 0)
    BY DEF Walk, WalkBody
  <2> QED
    BY <1>1, <1>2, <2>1
<1>3. CASE m # 0
  <2>1. m - 1 \in Nat /\ m - 1 \notin T
    BY <1>1, <1>3
  <2>2. PICK f : f = Walk(f, t, m - 1)
    BY <2>1
  <2> DEFINE g == [n \in 0..m |-> IF n < m THEN f[n] ELSE WalkBody(f, t, m)]
  <2>3. ASSUME NEW n \in 0..m PROVE g[n] = WalkBody(g, t, n)
    <3>1. n # 0 => g[n - 1] = f[n - 1]
      BY <1>1
    <3>2. WalkBody(g, t, n) = WalkBody(f, t, n)
      <4> HIDE DEF g
      <4> QED
        BY <3>1 DEF WalkBody
    <3>3. CASE n < m
      <4>1. n \in 0..(m - 1) /\ g[n] = f[n]
        BY <1>1, <3>3
      <4>2. f[n] = WalkBody(f, t, n)
        BY <2>2, <4>1 DEF Walk
      <4> QED
        BY <3>2, <4>1, <4>2
    <3>4. CASE n = m
      BY <3>2, <3>4
    <3> QED
      BY <1>1, <3>3, <3>4
  <2>4. g = Walk(g, t, m)
    BY <2>3 DEF Walk
  <2> QED
    BY <1>1, <2>4
<1> QED
  BY <1>2, <1>3

\* A way to t, along which the ranks grow.
IsChain(list, t, r) ==
  /\ list \in Seq(TrapIds) /\ list # <<>> /\ list[Len(list)] = t
  /\ \A i \in 1..Len(list) : IsKnown(list[i])
  /\ \A i \in 1..(Len(list) - 1) : list[i + 1] \in Range(Neighbors[list[i]])
  /\ \A i, j \in 1..Len(list) : i < j => r[list[i]] < r[list[j]]

LEMMA ChainGrows ==
  ASSUME NEW r \in [TrapIds -> Nat], NEW t \in TrapIds, NEW list, IsChain(list, t, r),
         NEW p \in TrapIds, IsKnown(p), list[1] \in Range(Neighbors[p]), r[p] < r[list[1]]
  PROVE  IsChain(<<p>> \o list, t, r) /\ Len(<<p>> \o list) = Len(list) + 1
<1> DEFINE new == <<p>> \o list
<1>1. list \in Seq(TrapIds) /\ list # <<>> /\ Len(list) \in Nat /\ Len(list) >= 1
  BY DEF IsChain
<1>2. /\ new \in Seq(TrapIds) /\ new # <<>> /\ Len(new) = Len(list) + 1 /\ new[1] = p
      /\ \A i \in 1..Len(list) : new[i + 1] = list[i]
  BY <1>1, Prepended
<1> HIDE DEF new
<1>3. \A i \in 1..Len(new) : i # 1 => i - 1 \in 1..Len(list) /\ new[i] = list[i - 1]
  <2> SUFFICES ASSUME NEW i \in 1..Len(new), i # 1
               PROVE  i - 1 \in 1..Len(list) /\ new[i] = list[i - 1]
    OBVIOUS
  <2>1. i - 1 \in 1..Len(list) /\ (i - 1) + 1 = i
    BY <1>1, <1>2
  <2> QED
    BY <1>2, <2>1
<1>4. new[Len(new)] = t
  <2>1. Len(list) \in 1..Len(list)
    BY <1>1
  <2>2. new[Len(list) + 1] = list[Len(list)]
    BY <1>2, <2>1
  <2>3. list[Len(list)] = t
    BY DEF IsChain
  <2> QED
    BY <1>2, <2>2, <2>3
<1>5. ASSUME NEW i \in 1..Len(new) PROVE IsKnown(new[i])
  <2>1. CASE i = 1
    BY <1>2, <2>1
  <2>2. CASE i # 1
    BY <1>3, <2>2 DEF IsChain
  <2> QED
    BY <2>1, <2>2
<1>6. ASSUME NEW i \in 1..(Len(new) - 1) PROVE new[i + 1] \in Range(Neighbors[new[i]])
  <2>1. i \in 1..Len(list) /\ i \in 1..Len(new) /\ new[i + 1] = list[i]
    BY <1>1, <1>2
  <2>2. CASE i = 1
    BY <1>2, <2>1, <2>2
  <2>3. CASE i # 1
    <3>1. i - 1 \in 1..(Len(list) - 1) /\ new[i] = list[i - 1] /\ (i - 1) + 1 = i
      BY <1>1, <1>3, <2>1, <2>3
    <3>2. list[(i - 1) + 1] \in Range(Neighbors[list[i - 1]])
      BY <3>1 DEF IsChain
    <3> QED
      BY <2>1, <3>1, <3>2
  <2> QED
    BY <2>2, <2>3
<1>7. ASSUME NEW i \in 1..Len(new), NEW j \in 1..Len(new), i < j PROVE r[new[i]] < r[new[j]]
  <2>1. j # 1 /\ j - 1 \in 1..Len(list) /\ new[j] = list[j - 1]
    BY <1>3, <1>7
  <2>2. CASE i = 1
    <3>1. r[p] \in Nat /\ r[list[1]] \in Nat /\ r[list[j - 1]] \in Nat
      BY <1>1, <2>1
    <3>2. j - 1 = 1 \/ r[list[1]] < r[list[j - 1]]
      BY <1>1, <2>1 DEF IsChain
    <3> QED
      BY <1>2, <2>1, <2>2, <3>1, <3>2
  <2>3. CASE i # 1
    <3>1. i - 1 \in 1..Len(list) /\ new[i] = list[i - 1] /\ i - 1 < j - 1
      BY <1>3, <1>7, <2>3
    <3> QED
      BY <2>1, <3>1 DEF IsChain
  <2> QED
    BY <2>2, <2>3
<1>8. IsChain(new, t, r)
  BY <1>2, <1>4, <1>5, <1>6, <1>7 DEF IsChain
<1> QED
  BY <1>2, <1>8 DEF new

LEMMA ListIsWay ==
  ASSUME Inv, search = "loop", NEW t \in TrapIds, IsKnown(t)
  PROVE  LET list == ListTo(t)
         IN  /\ list # <<>> /\ Head(list) = src /\ Last(list) = t
             /\ IsInjective(list)
             /\ \A i \in 1..(Len(list) - 1) : list[i + 1] \in Range(Neighbors[list[i]])
<1> DEFINE C    == Cardinality(TrapIds)
           walk == CHOOSE w : w = Walk(w, t, C)
<1>1. C \in Nat /\ walk = Walk(walk, t, C) /\ ListTo(t) = walk[C]
  <2>1. C \in Nat
    BY PathsAssumption, FS_CardinalityType
  <2> QED
    BY <2>1, WalkExists, ListToIsWalk
<1> HIDE DEF walk, C
<1>2. PICK r : IsRank(r)
  BY DEF Inv, Ranked
<1>3. r \in [TrapIds -> Nat]
  BY <1>2 DEF IsRank
<1>4. ASSUME NEW u \in TrapIds, IsKnown(u), node[u].next # NULL
      PROVE  LET p == node[u].next
             IN  p \in TrapIds /\ IsKnown(p) /\ u \in Range(Neighbors[p]) /\ r[p] < r[u]
  <2>1. u # src /\ IsClosed(node[u].next) /\ u \in Range(Neighbors[node[u].next])
    BY <1>4 DEF Inv, ParentsAreClosed
  <2>2. node[u].next \in TrapIds
    BY <1>4 DEF Inv, PathsTypeOK, PathFindNode, IsKnown
  <2> QED
    BY <1>2, <1>4, <2>1, <2>2 DEF IsRank, IsClosed
<1> DEFINE Good(n) == /\ IsChain(walk[n], t, r)
                      /\ Len(walk[n]) = n + 1 \/ node[Head(walk[n])].next = NULL
           T == {n \in 0..C : ~Good(n)}
<1>5. T = {}
  <2> SUFFICES ASSUME T # {} PROVE FALSE
    OBVIOUS
  <2>1. PICK n \in T : \A m \in T : n <= m
    <3>1. T \subseteq Nat
      OBVIOUS
    <3> QED
      BY <3>1, Least
  <2>2. n \in 0..C /\ ~Good(n) /\ walk[n] = WalkBody(walk, t, n)
    BY <1>1, <2>1 DEF Walk
  <2>3. CASE n = 0
    <3>1. walk[n] = <<t>>
      BY <2>2, <2>3 DEF WalkBody
    <3>2. IsChain(<<t>>, t, r) /\ Len(<<t>>) = 1
      BY DEF IsChain
    <3> QED
      BY <2>2, <2>3, <3>1, <3>2
  <2>4. CASE n # 0
    <3> DEFINE list == walk[n - 1]
               p    == node[Head(list)].next
    <3>1. n - 1 \in 0..C /\ n - 1 \notin T
      BY <1>1, <2>1, <2>2, <2>4
    <3>2. IsChain(list, t, r) /\ (Len(list) = n \/ p = NULL)
      BY <2>2, <3>1
    <3>3. walk[n] = IF p = NULL THEN list ELSE <<p>> \o list
      BY <2>2, <2>4 DEF WalkBody
    <3>4. CASE p = NULL
      BY <2>2, <3>2, <3>3, <3>4
    <3>5. CASE p # NULL
      <4>1. Head(list) \in TrapIds /\ IsKnown(Head(list)) /\ Head(list) = list[1]
        <5>1. list \in Seq(TrapIds) /\ list # <<>> /\ 1 \in 1..Len(list)
          BY <3>2 DEF IsChain
        <5> QED
          BY <3>2, <5>1 DEF IsChain
      <4>2. p \in TrapIds /\ IsKnown(p) /\ list[1] \in Range(Neighbors[p]) /\ r[p] < r[list[1]]
        BY <1>4, <3>5, <4>1
      <4> HIDE DEF p, list
      <4>3. IsChain(<<p>> \o list, t, r) /\ Len(<<p>> \o list) = Len(list) + 1
        BY <1>3, <3>2, <4>2, ChainGrows
      <4> QED
        BY <2>2, <3>2, <3>3, <3>5, <4>3
    <3> QED
      BY <3>4, <3>5
  <2> QED
    BY <2>3, <2>4
<1> DEFINE list == walk[C]
<1>6. IsChain(list, t, r) /\ (Len(list) = C + 1 \/ node[Head(list)].next = NULL)
  BY <1>1, <1>5
<1> HIDE DEF list, T
<1>7. list \in Seq(TrapIds) /\ list # <<>> /\ Len(list) \in Nat
      /\ list \in [1..Len(list) -> TrapIds]
  BY <1>6 DEF IsChain
<1>8. IsInjective(list)
  <2> SUFFICES ASSUME NEW i \in 1..Len(list), NEW j \in 1..Len(list), list[i] = list[j], i # j
               PROVE  FALSE
    BY <1>7 DEF IsInjective
  <2>1. r[list[i]] \in Nat /\ r[list[i]] = r[list[j]]
    BY <1>3, <1>7
  <2>2. i < j \/ j < i
    BY <1>7
  <2> QED
    BY <1>6, <2>1, <2>2 DEF IsChain
<1>9. Len(list) <= C
  <2>1. list \in Injection(1..Len(list), TrapIds)
    BY <1>7, <1>8 DEF Injection, IsInjective
  <2>2. IsFiniteSet(TrapIds)
    BY PathsAssumption
  <2>3. Cardinality(1..Len(list)) <= Cardinality(TrapIds)
    BY <2>1, <2>2, FS_Injection
  <2>4. Cardinality(1..Len(list)) = Len(list)
    BY <1>7, FS_Interval
  <2> QED
    BY <2>3, <2>4 DEF C
<1>10. Head(list) = src
  <2>1. node[Head(list)].next = NULL
    <3>1. C \in Nat /\ Len(list) \in Nat /\ Len(list) <= C
      BY <1>1, <1>7, <1>9
    <3>2. Len(list) # C + 1
      BY <3>1
    <3> QED
      BY <1>6, <3>2
  <2>2. Head(list) \in TrapIds /\ IsKnown(Head(list))
    <3>1. 1 \in 1..Len(list) /\ Head(list) = list[1]
      BY <1>7
    <3> QED
      BY <1>6, <1>7, <3>1 DEF IsChain
  <2> QED
    BY <2>1, <2>2 DEF Inv, ParentsAreClosed
<1> QED
  BY <1>1, <1>6, <1>8, <1>10 DEF list, IsChain, Last

-----------------------------------------------------------------------------
(* The steps *)

LEMMA InitKeeps ==
  ASSUME PathsInit
  PROVE  Inv
<1>1. Heap
  <2>1. 0..(0 - 1) = {}
    OBVIOUS
  <2>2. IsHeap(0)
    BY <2>1 DEF PathsInit, Init, Empty, IsHeap
  <2> QED
    BY <2>2 DEF Heap
<1>2. PathsTypeOK
  <2>1. TypeOK
    BY <1>1, HeapIsTyped DEF PathsInit, Init
  <2>2. todo \in Seq(TrapIds)
    BY DEF PathsInit
  <2> QED
    BY <2>1, <2>2 DEF PathsInit, PathsTypeOK
<1>3. TodoIsNext /\ StartsEmpty /\ NotFoundYet /\ SourceFirst /\ ParentsAreClosed /\ Ranked
      /\ AllSeen /\ PathIsWay
  BY DEF PathsInit, TodoIsNext, StartsEmpty, NotFoundYet, SourceFirst, ParentsAreClosed,
         Ranked, AllSeen, PathIsWay
<1>4. QueueInStep
  BY DEF PathsInit, QueueInStep, OpenIsQueued, QueuedIsKnown
<1>5. GivesUpAtTheEnd
  BY DEF PathsInit, GivesUpAtTheEnd, IsClosed, IsKnown
<1> QED
  BY <1>1, <1>2, <1>3, <1>4, <1>5 DEF Inv

LEMMA CallKeeps ==
  ASSUME Inv, NEW from \in TrapIds, NEW to \in TrapIds, PathFinding(from, to)
  PROVE  Inv'
<1>1. search = "none" /\ todo = <<>> /\ todo' = <<>>
  BY DEF Inv, PathsTypeOK, PathFinding
<1>2. CASE from = to
  <2>1. UNCHANGED <<nodes, popped, node, search, todo, curr>> /\ found' /\ path' = <<to>>
        /\ src' = from
        /\ dst' = to /\ skipped' = FALSE
    BY <1>2 DEF PathFinding
  <2>2. Heap' /\ TypeOK'
    BY <2>1 DEF Inv, Heap, IsHeap, PathsTypeOK, TypeOK, len
  <2>3. PathsTypeOK'
    BY <1>1, <2>1, <2>2 DEF Inv, PathsTypeOK
  <2>4. PathIsWay'
    BY <1>2, <2>1 DEF PathIsWay, IsInjective, Last
  <2> QED
    BY <1>1, <2>1, <2>2, <2>3, <2>4
    DEF Inv, TodoIsNext, StartsEmpty, NotFoundYet, SourceFirst, ParentsAreClosed, Ranked,
        AllSeen, QueueInStep, OpenIsQueued, QueuedIsKnown, GivesUpAtTheEnd
<1>3. CASE from # to
  <2>1. /\ nodes' = Empty /\ popped' = NULL /\ node' = [t \in TrapIds |-> NULL] /\ search' = "start"
        /\ UNCHANGED <<todo, curr>> /\ path' = <<>> /\ src' = from /\ dst' = to /\ found' = FALSE
        /\ skipped' = FALSE
    BY <1>3 DEF PathFinding
  <2>2. Heap'
    <3>1. 0..(0 - 1) = {}
      OBVIOUS
    <3>2. IsHeap(0)'
      BY <2>1, <3>1 DEF Empty, IsHeap
    <3> QED
      BY <3>2 DEF Heap, IsHeap
  <2>3. PathsTypeOK'
    BY <1>1, <2>1, <2>2, HeapIsTypedNext DEF Inv, PathsTypeOK
  <2> QED
    BY <1>1, <2>1, <2>2, <2>3
    DEF Inv, TodoIsNext, StartsEmpty, NotFoundYet, SourceFirst, ParentsAreClosed, Ranked,
        AllSeen, QueueInStep, OpenIsQueued, QueuedIsKnown, GivesUpAtTheEnd, PathIsWay, IsKnown
<1> QED
  BY <1>2, <1>3

LEMMA AddSourceKeeps ==
  ASSUME Inv, AddSource
  PROVE  Inv'
<1>1. /\ search = "start" /\ search' = "loop" /\ todo = <<>> /\ nodes = Empty
      /\ \A t \in TrapIds : node[t] = NULL
      /\ UNCHANGED <<src, dst, curr, todo, path, found, skipped>>
      /\ PathAddNode(NULL, src, 0, Infinity)
  BY DEF Inv, StartsEmpty, IsKnown, AddSource
<1>2. src \in TrapIds /\ dst \in TrapIds /\ node \in [TrapIds -> PathFindNode \cup {NULL}] /\ Heap
  BY DEF Inv, PathsTypeOK
<1>3. 0 \in 0..(MaxCost - 1) /\ Infinity \in Costs
  BY PathsAssumption
<1>4. /\ Heap' /\ popped' = NULL /\ Queued' = Queued \cup {src}
      /\ node' \in [TrapIds -> PathFindNode \cup {NULL}]
      /\ node'[src] \in PathFindNode /\ ~node'[src].closed
      /\ node'[src].cost_to_node = 0 /\ node'[src].next = NULL
      /\ \A u \in TrapIds : u # src => node'[u] = node[u]
  <2> DEFINE zero == 0
  <2>1. zero \in 0..(MaxCost - 1) /\ PathAddNode(NULL, src, zero, Infinity)
    BY <1>1, <1>3
  <2> HIDE DEF zero
  <2>2. NULL \in TrapIds \cup {NULL}
    OBVIOUS
  <2>3. /\ Heap' /\ popped' = NULL /\ Queued' = Queued \cup {src}
        /\ node' \in [TrapIds -> PathFindNode \cup {NULL}]
        /\ node'[src] \in PathFindNode /\ ~node'[src].closed
        /\ node'[src].cost_to_node = zero /\ node'[src].next = NULL
        /\ \A u \in TrapIds : u # src => node'[u] = node[u]
    BY <1>2, <1>3, <2>1, <2>2, AddKeeps
  <2> QED
    BY <2>3 DEF zero
<1>5. /\ \A t \in TrapIds : IsKnown(t)' <=> t = src
      /\ \A t \in TrapIds : ~IsClosed(t)'
  BY <1>1, <1>2, <1>4, NodeAssumption DEF IsKnown, IsClosed
<1>6. Queued' = {src}
  <2>1. Range(nodes) = {}
    BY <1>1 DEF Empty, Range
  <2> QED
    BY <1>4, <2>1 DEF Queued
<1>7. PathsTypeOK'
  BY <1>1, <1>2, <1>4, HeapIsTypedNext DEF Inv, PathsTypeOK
<1>8. TodoIsNext' /\ StartsEmpty' /\ NotFoundYet' /\ SourceFirst' /\ AllSeen'
  BY <1>1, <1>2, <1>5 DEF Inv, TodoIsNext, StartsEmpty, NotFoundYet, SourceFirst, AllSeen
<1>9. ParentsAreClosed'
  BY <1>1, <1>4, <1>5 DEF ParentsAreClosed
<1>10. QueueInStep'
  BY <1>2, <1>5, <1>6, InStepIsNext DEF QueuedInStep
<1>11. Ranked'
  <2> DEFINE r == [t \in TrapIds |-> 0]
  <2>1. IsRank(r)'
    BY <1>1, <1>5 DEF IsRank
  <2> QED
    BY <2>1 DEF Ranked, IsRank
<1>12. GivesUpAtTheEnd' /\ PathIsWay'
  BY <1>1 DEF Inv, GivesUpAtTheEnd, PathIsWay
<1> QED
  BY <1>4, <1>7, <1>8, <1>9, <1>10, <1>11, <1>12 DEF Inv

LEMMA VisitKeeps ==
  ASSUME Inv, NEW length \in Lengths, NEW estimate \in Estimates, PathVisit(length, estimate)
  PROVE  Inv'
<1> DEFINE cost == node[curr].cost_to_node + length
<1>1. /\ todo # <<>> /\ todo' = Tail(todo) /\ search = "loop" /\ search' = "loop"
      /\ UNCHANGED <<src, dst, curr, path, found>>
  BY DEF Inv, PathsTypeOK, PathVisit
<1>2. /\ src \in TrapIds /\ dst \in TrapIds /\ curr \in TrapIds /\ todo \in Seq(TrapIds) /\ Heap
      /\ node \in [TrapIds -> PathFindNode \cup {NULL}] /\ TypeOK
      /\ IsClosed(curr) /\ Range(todo) \subseteq Range(Neighbors[curr])
  BY <1>1 DEF Inv, PathsTypeOK, TodoIsNext
<1>3. PICK t \in TrapIds : t = Head(todo)
  BY <1>1, <1>2
<1>4. /\ t \in TrapIds /\ todo' \in Seq(TrapIds) /\ t \in Range(todo)
      /\ Range(todo) = {t} \cup Range(todo')
  <2>1. t \in TrapIds /\ todo' \in Seq(TrapIds)
    BY <1>1, <1>2, <1>3
  <2> QED
    BY <1>1, <1>2, <1>3, <2>1, RangeOfTail
<1> HIDE DEF cost
<1>5. GivesUpAtTheEnd' /\ PathIsWay' /\ StartsEmpty' /\ NotFoundYet'
  BY <1>1 DEF Inv, GivesUpAtTheEnd, PathIsWay, StartsEmpty, NotFoundYet
<1>6. CASE IsClosed(t) \/ MaxCost <= cost
  <2>1. /\ UNCHANGED <<node, nodes, popped>>
        /\ (skipped' = skipped /\ IsClosed(t)) \/ skipped' = TRUE
    BY <1>6, <1>3 DEF PathVisit, cost
  <2>2. Heap' /\ TypeOK'
    BY <1>2, <2>1 DEF Heap, IsHeap, TypeOK, len
  <2>3. PathsTypeOK'
    BY <1>1, <1>2, <1>4, <2>1, <2>2 DEF Inv, PathsTypeOK, IsKnown
  <2>4. TodoIsNext' /\ SourceFirst' /\ ParentsAreClosed' /\ QueueInStep' /\ Ranked'
    BY <1>1, <1>2, <1>4, <2>1
    DEF Inv, TodoIsNext, SourceFirst, ParentsAreClosed, QueueInStep, OpenIsQueued,
        QueuedIsKnown, Ranked, IsRank, IsClosed, IsKnown
  <2>5. AllSeen'
    BY <1>1, <1>4, <2>1 DEF Inv, AllSeen, IsClosed, IsKnown
  <2> QED
    BY <1>5, <2>2, <2>3, <2>4, <2>5 DEF Inv
<1>7. CASE ~IsClosed(t) /\ ~(MaxCost <= cost)
  <2>1. PathAddNode(curr, t, cost, cost + estimate) /\ UNCHANGED skipped
    BY <1>7, <1>3 DEF PathVisit, cost
  <2>2. node[curr] \in PathFindNode /\ node[curr].cost_to_node \in Nat
    BY <1>2, NodeAssumption DEF IsClosed, IsKnown, PathFindNode
  <2>3. cost \in 0..(MaxCost - 1) /\ node[curr].cost_to_node <= cost
    BY <1>7, <2>2, PathsAssumption DEF cost
  <2>4. cost + estimate \in Costs /\ curr \in TrapIds \cup {NULL}
    BY <1>2, <2>3, PathsAssumption
  <2>5. /\ Heap' /\ popped' = NULL /\ Queued' = Queued \cup {t}
        /\ node' \in [TrapIds -> PathFindNode \cup {NULL}]
        /\ node'[t] \in PathFindNode /\ ~node'[t].closed
        /\ node'[t].cost_to_node = cost /\ node'[t].next = curr
        /\ \A u \in TrapIds : u # t => node'[u] = node[u]
    BY <1>2, <1>4, <2>1, <2>3, <2>4, AddKeeps
  <2>6. /\ IsKnown(t)' /\ ~IsClosed(t)' /\ t # curr
        /\ \A u \in TrapIds : u # t => (IsKnown(u)' <=> IsKnown(u))
           /\ (IsClosed(u)' <=> IsClosed(u))
        /\ \A u \in TrapIds : (IsClosed(u)' <=> IsClosed(u)) /\ (IsKnown(u) => IsKnown(u)')
    BY <1>2, <1>7, <2>5, NodeAssumption DEF IsKnown, IsClosed
  <2>7. IsClosed(src) /\ t # src
    BY <1>1, <1>2, <1>7 DEF Inv, SourceFirst, IsClosed
  <2>8. PathsTypeOK'
    BY <1>1, <1>2, <1>4, <2>1, <2>5, <2>6, HeapIsTypedNext DEF Inv, PathsTypeOK
  <2>9. TodoIsNext' /\ SourceFirst'
    BY <1>1, <1>2, <1>4, <2>6, <2>7 DEF Inv, TodoIsNext, SourceFirst
  <2>10. ParentsAreClosed'
    <3> SUFFICES ASSUME NEW u \in TrapIds, IsKnown(u)'
                 PROVE  IF u = src THEN node'[u].next = NULL /\ node'[u].cost_to_node = 0
                        ELSE /\ node'[u].next # NULL /\ IsClosed(node[u].next)'
                             /\ u \in Range(Neighbors[node'[u].next])
                             /\ node'[node'[u].next].cost_to_node <= node'[u].cost_to_node
      BY <1>1 DEF ParentsAreClosed, IsKnown, IsClosed
    <3>1. CASE u = t
      <4>1. curr # NULL /\ t # curr /\ t \in Range(Neighbors[curr]) /\ node'[curr] = node[curr]
        BY <1>2, <1>4, <1>7, <2>5, PathsAssumption
      <4>2. IsClosed(node[t].next)'
        BY <1>2, <2>5, <4>1 DEF IsClosed, IsKnown
      <4> QED
        BY <2>3, <2>5, <2>7, <3>1, <4>1, <4>2
    <3>2. CASE u # t /\ u = src
      BY <1>1, <2>5, <2>6, <3>2 DEF Inv, ParentsAreClosed
    <3>3. CASE u # t /\ u # src
      <4> DEFINE parent == node[u].next
      <4>1. /\ parent # NULL /\ IsClosed(parent) /\ u \in Range(Neighbors[parent])
            /\ node[parent].cost_to_node <= node[u].cost_to_node
        BY <1>1, <2>6, <3>3 DEF Inv, ParentsAreClosed
      <4>2. parent \in TrapIds /\ node'[u] = node[u]
        BY <1>2, <2>5, <2>6, <3>3, <4>1, NodeAssumption DEF IsKnown, PathFindNode
      <4>3. parent # t /\ node'[parent] = node[parent]
        BY <1>7, <2>5, <4>1, <4>2
      <4> QED
        BY <2>6, <3>3, <4>1, <4>2, <4>3
    <3> QED
      BY <3>1, <3>2, <3>3
  <2>11. QueueInStep'
    <3>1. \A u \in TrapIds : IsKnown(u)' /\ ~IsClosed(u)' => u \in Queued'
      BY <1>1, <2>5, <2>6, InStepIs DEF Inv, QueuedInStep
    <3>2. \A u \in Queued' : IsKnown(u)'
      BY <1>1, <1>2, <2>5, <2>6, InStepIs, QueuedAreTraps DEF Inv, QueuedInStep
    <3> QED
      BY <3>1, <3>2, InStepIsNext DEF QueuedInStep
  <2>12. Ranked'
    <3>1. PICK r : IsRank(r)
      BY <1>1 DEF Inv, Ranked
    <3> DEFINE s == [r EXCEPT ![t] = r[curr] + 1]
    <3>2. r \in [TrapIds -> Nat] /\ r[curr] \in Nat
      BY <1>2, <3>1 DEF IsRank
    <3>3. s \in [TrapIds -> Nat] /\ s[t] = r[curr] + 1 /\ \A u \in TrapIds : u # t => s[u] = r[u]
      BY <1>4, <3>2
    <3> HIDE DEF s
    <3>4. ASSUME NEW u \in TrapIds, IsKnown(u)', u # src PROVE s[node'[u].next] < s[u]
      <4>1. CASE u = t
        BY <1>2, <2>5, <2>6, <3>2, <3>3, <4>1
      <4>2. CASE u # t
        <5> DEFINE parent == node[u].next
        <5>1. parent # NULL /\ IsClosed(parent) /\ r[parent] < r[u]
          BY <1>1, <2>6, <3>1, <3>4, <4>2 DEF Inv, ParentsAreClosed, IsRank
        <5>2. parent \in TrapIds /\ node'[u] = node[u]
          BY <1>2, <2>5, <2>6, <3>4, <4>2, <5>1, NodeAssumption DEF IsKnown, PathFindNode
        <5>3. parent # t
          BY <1>7, <5>1
        <5> QED
          BY <3>3, <4>2, <5>1, <5>2, <5>3
      <4> QED
        BY <4>1, <4>2
    <3>5. /\ s \in [TrapIds -> Nat]
          /\ \A u \in TrapIds : IsKnown(u)' /\ u # src' => s[node'[u].next] < s[u]
      BY <1>1, <3>3, <3>4
    <3> QED
      BY <3>5 DEF Ranked, IsRank
  <2>13. AllSeen'
    <3> SUFFICES ASSUME ~skipped', NEW u \in TrapIds, IsClosed(u)', NEW v \in Range(Neighbors[u])
                 PROVE  IsKnown(v)' \/ (u = curr' /\ v \in Range(todo'))
      BY DEF AllSeen
    <3>1. v \in TrapIds
      BY NeighborsAreTraps
    <3>2. IsKnown(v) \/ (u = curr /\ v \in Range(todo))
      BY <1>1, <2>1, <2>6 DEF Inv, AllSeen
    <3> QED
      BY <1>1, <1>4, <2>6, <3>1, <3>2
  <2> QED
    BY <1>5, <2>5, <2>8, <2>9, <2>10, <2>11, <2>12, <2>13 DEF Inv
<1> QED
  BY <1>6, <1>7

LEMMA PopKeepsInv ==
  ASSUME Inv, Pop
  PROVE  Inv'
<1>1. /\ search = "loop" /\ todo = <<>> /\ PathHeapPop
      /\ UNCHANGED <<src, dst, skipped>>
  BY DEF Pop
<1>2. /\ src \in TrapIds /\ dst \in TrapIds /\ Heap
      /\ node \in [TrapIds -> PathFindNode \cup {NULL}]
  BY DEF Inv, PathsTypeOK
<1>3. Heap' /\ popped' \in PathHeapNode /\ Queued = Queued' \cup {popped'.trap_id}
  BY <1>1, <1>2, TakesQueued
<1>4. PICK t \in TrapIds : t = popped'.trap_id
  BY <1>3 DEF PathHeapNode
<1>5. /\ node' = [node EXCEPT ![t].closed = TRUE] /\ curr' = t
      /\ \/ t = dst /\ search' = "none" /\ found' = TRUE /\ path' = ListTo(t) /\ todo' = <<>>
         \/ t # dst /\ todo' = Neighbors[t] /\ UNCHANGED <<search, found, path>>
  BY <1>1, <1>4 DEF Pop
<1>6. t \in Queued /\ IsKnown(t)
  BY <1>1, <1>3, <1>4, InStepIs DEF Inv, QueuedInStep
<1>7. node[t] \in PathFindNode
  BY <1>2, <1>6 DEF IsKnown
<1>8. /\ node' \in [TrapIds -> PathFindNode \cup {NULL}]
      /\ node'[t] \in PathFindNode /\ node'[t].closed
      /\ node'[t].cost_to_node = node[t].cost_to_node /\ node'[t].next = node[t].next
      /\ \A u \in TrapIds : u # t => node'[u] = node[u]
  <2> DEFINE new == [node[t] EXCEPT !.closed = TRUE]
  <2>1. /\ new \in PathFindNode /\ new.closed
        /\ new.cost_to_node = node[t].cost_to_node /\ new.next = node[t].next
    BY <1>7 DEF PathFindNode
  <2>2. node' = [node EXCEPT ![t] = new]
    BY <1>2, <1>5
  <2> HIDE DEF new
  <2> QED
    BY <1>2, <2>1, <2>2
<1>9. /\ \A u \in TrapIds : IsKnown(u)' <=> IsKnown(u)
      /\ \A u \in TrapIds : IsClosed(u)' <=> IsClosed(u) \/ u = t
      /\ \A u \in TrapIds : IsKnown(u) => /\ node'[u].cost_to_node = node[u].cost_to_node
                                          /\ node'[u].next = node[u].next
  BY <1>6, <1>8, NodeAssumption DEF IsKnown, IsClosed
<1>10. TypeOK'
  BY <1>3, HeapIsTypedNext
<1>11. CASE t = dst
  <2>1. search' = "none" /\ found' = TRUE /\ path' = ListTo(t) /\ todo' = <<>>
    BY <1>5, <1>11
  <2>2. PathsTypeOK'
    <3>1. todo' \in Seq(TrapIds) /\ todo' = <<>>
      BY <2>1
    <3>2. found' \in BOOLEAN /\ skipped' \in BOOLEAN
      BY <1>1, <2>1 DEF Inv, PathsTypeOK
    <3> QED
      BY <1>1, <1>2, <1>5, <1>8, <1>10, <2>1, <3>1, <3>2 DEF PathsTypeOK
  <2>3. PathIsWay'
    BY <1>1, <1>6, <1>11, <2>1, ListIsWay DEF PathIsWay
  <2>4. /\ TodoIsNext' /\ StartsEmpty' /\ NotFoundYet' /\ SourceFirst' /\ ParentsAreClosed'
           /\ Ranked' /\ AllSeen'
        /\ QueueInStep' /\ GivesUpAtTheEnd'
    BY <2>1 DEF TodoIsNext, StartsEmpty, NotFoundYet, SourceFirst, ParentsAreClosed, Ranked,
                AllSeen, QueueInStep, OpenIsQueued, QueuedIsKnown, GivesUpAtTheEnd
  <2> QED
    BY <1>3, <2>2, <2>3, <2>4 DEF Inv
<1>12. CASE t # dst
  <2>1. search' = "loop" /\ todo' = Neighbors[t] /\ UNCHANGED <<found, path>>
    BY <1>1, <1>5, <1>12
  <2>2. PathsTypeOK'
    <3>1. Neighbors[t] \in Seq(TrapIds) /\ IsKnown(curr)'
      BY <1>5, <1>6, <1>8, NodeAssumption, PathsAssumption DEF IsKnown
    <3> QED
      BY <1>1, <1>2, <1>5, <1>8, <1>10, <2>1, <3>1 DEF Inv, PathsTypeOK
  <2>3. TodoIsNext'
    BY <1>5, <1>8, <2>1, NodeAssumption DEF TodoIsNext, IsClosed, IsKnown
  <2>4. StartsEmpty' /\ NotFoundYet' /\ GivesUpAtTheEnd' /\ PathIsWay'
    BY <1>1, <2>1 DEF Inv, StartsEmpty, NotFoundYet, GivesUpAtTheEnd, PathIsWay
  <2>5. SourceFirst'
    <3>1. IsKnown(src)'
      BY <1>1, <1>2, <1>8, NodeAssumption DEF Inv, SourceFirst, IsKnown
    <3>2. ASSUME NEW u \in TrapIds, IsKnown(u)', u # src PROVE IsClosed(src)'
      <4>1. IsClosed(src)
        BY <1>1, <1>9, <3>2 DEF Inv, SourceFirst
      <4> QED
        BY <1>1, <1>2, <1>8, <4>1, NodeAssumption DEF IsClosed, IsKnown
    <3> QED
      BY <1>1, <3>1, <3>2 DEF SourceFirst
  <2>6. ParentsAreClosed'
    <3> SUFFICES ASSUME NEW u \in TrapIds, IsKnown(u)'
                 PROVE  IF u = src THEN node'[u].next = NULL /\ node'[u].cost_to_node = 0
                        ELSE /\ node'[u].next # NULL /\ IsClosed(node[u].next)'
                             /\ u \in Range(Neighbors[node'[u].next])
                             /\ node'[node'[u].next].cost_to_node <= node'[u].cost_to_node
      BY <1>1 DEF ParentsAreClosed, IsKnown, IsClosed
    <3>1. IsKnown(u) /\ node'[u].next = node[u].next /\ node'[u].cost_to_node = node[u].cost_to_node
      BY <1>9
    <3>2. CASE u = src
      BY <1>1, <3>1, <3>2 DEF Inv, ParentsAreClosed
    <3>3. CASE u # src
      <4>1. PICK p : p = node[u].next
        OBVIOUS
      <4>2. /\ p # NULL /\ IsClosed(p) /\ u \in Range(Neighbors[p])
            /\ node[p].cost_to_node <= node[u].cost_to_node
        BY <1>1, <3>1, <3>3, <4>1 DEF Inv, ParentsAreClosed
      <4>3. p \in TrapIds
        BY <1>2, <3>1, <4>1, <4>2 DEF IsKnown, PathFindNode
      <4>4. IsClosed(p)' /\ node'[p].cost_to_node = node[p].cost_to_node
        BY <1>9, <4>2, <4>3 DEF IsClosed
      <4>5. IsClosed(node[u].next)'
        BY <3>1, <4>1, <4>4 DEF IsClosed, IsKnown
      <4> QED
        BY <3>1, <3>3, <4>1, <4>2, <4>4, <4>5
    <3> QED
      BY <3>2, <3>3
  <2>7. QueueInStep'
    <3>1. \A u \in TrapIds : IsKnown(u)' /\ ~IsClosed(u)' => u \in Queued'
      BY <1>1, <1>3, <1>4, <1>9, InStepIs DEF Inv, QueuedInStep
    <3>2. \A u \in Queued' : IsKnown(u)'
      BY <1>1, <1>2, <1>3, <1>9, InStepIs, QueuedAreTraps DEF Inv, QueuedInStep
    <3> QED
      BY <3>1, <3>2, InStepIsNext DEF QueuedInStep
  <2>8. Ranked'
    <3>1. PICK r : IsRank(r)
      BY <1>1 DEF Inv, Ranked
    <3>2. /\ r \in [TrapIds -> Nat]
          /\ \A u \in TrapIds : IsKnown(u)' /\ u # src' => r[node'[u].next] < r[u]
      BY <1>1, <1>9, <3>1 DEF IsRank
    <3> QED
      BY <3>2 DEF Ranked, IsRank
  <2>9. AllSeen'
    <3> SUFFICES ASSUME ~skipped', NEW u \in TrapIds, IsClosed(u)', NEW v \in Range(Neighbors[u])
                 PROVE  IsKnown(v)' \/ (u = curr' /\ v \in Range(todo'))
      BY DEF AllSeen
    <3>1. CASE u = t
      BY <1>5, <2>1, <3>1
    <3>2. CASE u # t
      <4>1. v \in TrapIds
        BY NeighborsAreTraps
      <4>2. v \notin Range(<<>>)
        BY DEF Range
      <4> QED
        BY <1>1, <1>9, <3>2, <4>1, <4>2 DEF Inv, AllSeen
    <3> QED
      BY <3>1, <3>2
  <2> QED
    BY <1>3, <2>2, <2>3, <2>4, <2>5, <2>6, <2>7, <2>8, <2>9 DEF Inv
<1> QED
  BY <1>11, <1>12

\* An empty queue: all that is known was popped, so all that it leads to is
\* known, and popped as well.
LEMMA GiveUpKeeps ==
  ASSUME Inv, GiveUp
  PROVE  Inv'
<1>1. /\ search = "loop" /\ search' = "none" /\ todo = <<>> /\ len = 0
      /\ path' \in {<<>>} \cup {ListTo(t) : t \in {u \in TrapIds : IsClosed(u)}}
      /\ UNCHANGED <<nodes, popped, src, dst, node, curr, todo, found, skipped>>
  BY DEF GiveUp
<1>2. Heap' /\ PathsTypeOK'
  BY <1>1 DEF Inv, Heap, IsHeap, PathsTypeOK, TypeOK, len
<1>3. Queued = {}
  <2>1. PICK n \in Nat : IsHeap(n)
    BY DEF Inv, Heap
  <2>2. DOMAIN nodes = {}
    <3>1. DOMAIN nodes = 0..(n - 1) /\ n = 0
      BY <1>1, <2>1, LenOfHeap DEF IsHeap
    <3> QED
      BY <3>1
  <2> QED
    BY <2>2 DEF Queued, Range
<1>4. \A t \in TrapIds : IsKnown(t) => IsClosed(t)
  BY <1>1, <1>3, InStepIs DEF Inv, QueuedInStep
<1>5. GivesUpAtTheEnd'
  <2> SUFFICES ASSUME ~skipped, NEW t \in TrapIds, IsClosed(t), NEW u \in Range(Neighbors[t])
               PROVE  IsClosed(u)
    BY <1>1 DEF GivesUpAtTheEnd, IsClosed, IsKnown
  <2>1. u \in TrapIds
    BY NeighborsAreTraps
  <2>2. u \notin Range(<<>>)
    BY DEF Range
  <2> QED
    BY <1>1, <1>4, <2>1, <2>2 DEF Inv, AllSeen
<1>6. PathIsWay'
  <2>1. CASE path' = <<>>
    BY <2>1 DEF PathIsWay
  <2>2. ASSUME NEW t \in TrapIds, IsClosed(t), path' = ListTo(t) PROVE PathIsWay'
    <3>1. IsKnown(t)
      BY <2>2 DEF IsClosed
    <3>2. found => FALSE
      BY <1>1 DEF Inv, NotFoundYet
    <3> QED
      BY <1>1, <2>2, <3>1, <3>2, ListIsWay DEF PathIsWay
  <2> QED
    BY <1>1, <2>1, <2>2
<1>7. TodoIsNext' /\ StartsEmpty' /\ NotFoundYet' /\ SourceFirst' /\ ParentsAreClosed'
      /\ Ranked' /\ AllSeen' /\ QueueInStep'
  BY <1>1 DEF TodoIsNext, StartsEmpty, NotFoundYet, SourceFirst, ParentsAreClosed, Ranked,
              AllSeen, QueueInStep, OpenIsQueued, QueuedIsKnown
<1> QED
  BY <1>2, <1>5, <1>6, <1>7 DEF Inv

LEMMA NextKeeps == Inv /\ [PathsNext]_pathsVars => Inv'
<1> SUFFICES ASSUME Inv, [PathsNext]_pathsVars PROVE Inv'
  OBVIOUS
<1>1. CASE UNCHANGED pathsVars
  <2>1. Heap' /\ PathsTypeOK'
    BY <1>1 DEF Inv, pathsVars, searchVars, Heap, IsHeap, PathsTypeOK, TypeOK, len, IsKnown
  <2>2. /\ TodoIsNext' /\ StartsEmpty' /\ NotFoundYet' /\ SourceFirst' /\ ParentsAreClosed'
           /\ QueueInStep'
        /\ Ranked' /\ AllSeen' /\ GivesUpAtTheEnd' /\ PathIsWay'
    BY <1>1 DEF Inv, pathsVars, searchVars, TodoIsNext, StartsEmpty, NotFoundYet, SourceFirst,
                ParentsAreClosed, QueueInStep, OpenIsQueued, QueuedIsKnown, Ranked, IsRank, AllSeen,
                GivesUpAtTheEnd, PathIsWay, IsClosed, IsKnown
  <2> QED
    BY <2>1, <2>2 DEF Inv
<1>2. CASE PathsNext
  <2>1. CASE \E from, to \in TrapIds : PathFinding(from, to)
    BY <2>1, CallKeeps
  <2>2. CASE AddSource
    BY <2>2, AddSourceKeeps
  <2>3. CASE Pop
    BY <2>3, PopKeepsInv
  <2>4. CASE GiveUp
    BY <2>4, GiveUpKeeps
  <2>5. CASE \E length \in Lengths, estimate \in Estimates : PathVisit(length, estimate)
    BY <2>5, VisitKeeps
  <2> QED
    BY <1>2, <2>1, <2>2, <2>3, <2>4, <2>5 DEF PathsNext, Step
<1> QED
  BY <1>1, <1>2

LEMMA Invariance == PathsSpec => []Inv
<1>1. PathsInit => Inv
  BY InitKeeps
<1> QED
  BY <1>1, NextKeeps, PTL DEF PathsSpec

-----------------------------------------------------------------------------
(* The theorems *)

\* Every node is a trapezoid of the map with a cost below MAX_COST, and the
\* neighbours are only visited of a node that was found.
THEOREM PathsTypeCorrect == PathsSpec => []PathsTypeOK
<1>1. Inv => PathsTypeOK
  BY DEF Inv
<1> QED
  BY <1>1, Invariance, PTL

\* What was found hangs on what was popped, although nodes are overwritten by
\* dearer ones and popped many times over.
THEOREM ParentsStayClosed == PathsSpec => []ParentsAreClosed
<1>1. Inv => ParentsAreClosed
  BY DEF Inv
<1> QED
  BY <1>1, Invariance, PTL

\* The heap and the table of nodes never part.
THEOREM QueueStaysInStep == PathsSpec => []QueueInStep
<1>1. Inv => QueueInStep
  BY DEF Inv
<1> QED
  BY <1>1, Invariance, PTL

\* A search gives up only when it has been everywhere.
THEOREM NothingIsLeft == PathsSpec => []GivesUpAtTheEnd
<1>1. Inv => GivesUpAtTheEnd
  BY DEF Inv
<1> QED
  BY <1>1, Invariance, PTL

\* What the waypoints are made from leads from the source, step by step and
\* without a circle, to where it should.
THEOREM PathsAreWays == PathsSpec => []PathIsWay
<1>1. Inv => PathIsWay
  BY DEF Inv
<1> QED
  BY <1>1, Invariance, PTL

\* What a step of the search does to its queue.
QueueStep == \/ \E elem \in PathHeapNode : PathHeapPush(elem)
             \/ Pop
             \/ nodes' = Empty /\ popped' = NULL
             \/ UNCHANGED <<nodes, popped>>

LEMMA StepIsQueueStep ==
  ASSUME Inv, [PathsNext]_pathsVars
  PROVE  QueueStep
<1>1. src \in TrapIds /\ node \in [TrapIds -> PathFindNode \cup {NULL}]
  BY DEF Inv, PathsTypeOK
<1>2. CASE AddSource
  <2>1. [cost |-> Infinity, trap_id |-> src] \in PathHeapNode
    BY <1>1, PathsAssumption DEF PathHeapNode
  <2> QED
    BY <1>2, <2>1 DEF AddSource, PathAddNode, QueueStep
<1>3. ASSUME NEW length \in Lengths, NEW estimate \in Estimates, PathVisit(length, estimate)
      PROVE  QueueStep
  <2> DEFINE t    == Head(todo)
             cost == node[curr].cost_to_node + length
  <2>1. todo # <<>> /\ todo \in Seq(TrapIds) /\ curr \in TrapIds /\ IsKnown(curr)
    BY <1>3 DEF PathVisit, Inv, TodoIsNext, PathsTypeOK, IsClosed
  <2>2. t \in TrapIds
    BY <2>1
  <2>3. node[curr] \in PathFindNode /\ node[curr].cost_to_node \in Nat
    BY <1>1, <2>1 DEF IsKnown, PathFindNode
  <2>4. CASE UNCHANGED <<nodes, popped>>
    BY <2>4 DEF QueueStep
  <2>5. CASE ~(MaxCost <= cost) /\ PathAddNode(curr, t, cost, cost + estimate)
    <3>1. cost \in 0..(MaxCost - 1)
      BY <2>3, <2>5, PathsAssumption
    <3>2. [cost |-> cost + estimate, trap_id |-> t] \in PathHeapNode
      BY <2>2, <3>1, PathsAssumption DEF PathHeapNode
    <3> QED
      BY <2>5, <3>2 DEF PathAddNode, QueueStep
  <2> QED
    BY <1>3, <2>4, <2>5 DEF PathVisit
<1>4. CASE Pop
  BY <1>4 DEF Pop, QueueStep
<1>5. CASE GiveUp
  BY <1>5 DEF GiveUp, QueueStep
<1>6. ASSUME NEW from \in TrapIds, NEW to \in TrapIds, PathFinding(from, to)
      PROVE  QueueStep
  BY <1>6 DEF PathFinding, QueueStep
<1>7. CASE UNCHANGED pathsVars
  BY <1>7 DEF pathsVars, QueueStep
<1> QED
  BY <1>2, <1>3, <1>4, <1>5, <1>6, <1>7 DEF PathsNext, Step

LEMMA EmptyInOrderNext ==
  ASSUME nodes' = Empty
  PROVE  InOrder' /\ Waiting' = Queue!EmptyBag
<1>1. 0..(0 - 1) = {} /\ 1..(0 - 1) = {} /\ 0 \in 0..Capacity
  BY CapacityAssumption
<1>2. nodes' \in [0..(0 - 1) -> PathHeapNode]
  BY <1>1 DEF Empty
<1>3. IsHeap(0)' /\ Ordered(0)'
  BY <1>1, <1>2 DEF IsHeap, Ordered
<1>4. DOMAIN nodes' = {} /\ Range(nodes') = {}
  BY DEF Empty, Range
<1>5. Waiting' = Queue!EmptyBag
  BY <1>4 DEF Waiting, Queue!EmptyBag, Queue!SetToBag
<1> QED
  BY <1>1, <1>3, <1>5 DEF InOrder, IsHeap, Ordered

\* An odd number of nodes waits, seven or more: the pop of one may move the very
\* last node to where it does not belong.
MayMisplace == len % 2 = 1 /\ len > 6

LEMMA PopsLowest ==
  ASSUME InOrder, PathHeapPop
  PROVE  Queue!Pop /\ (InOrder' \/ MayMisplace)
<1>1. PICK n \in 0..Capacity : IsHeap(n) /\ Ordered(n)
  BY DEF InOrder
<1>2. n \in Nat /\ n <= Capacity /\ len = n
  BY <1>1, LenOfHeap, CapacityAssumption
<1>3. /\ n # 0 /\ IsHeap(n - 1)'
      /\ (n <= 6 \/ n % 2 = 0) => Ordered(n - 1)'
  BY <1>1, <1>2, PopKeeps
<1>4. n - 1 \in 0..Capacity
  BY <1>2, <1>3, CapacityAssumption
<1>5. Queue!Pop
  BY <1>1, <1>2, PopImplements
<1>6. n <= 6 \/ n % 2 = 0 \/ MayMisplace
  BY <1>2 DEF MayMisplace
<1> QED
  BY <1>3, <1>4, <1>5, <1>6 DEF InOrder, IsHeap, Ordered

\* GmPaths.c: however many nodes wait, each search begins with a heap in order;
\* while it is in order the queue does what is expected of it, the lowest cost
\* first, also one that is used again; and the order is lost by nothing but a
\* pop from an odd number of nodes, seven or more.
THEOREM SearchUsesPriorityQueue ==
  PathsSpec =>
    [][/\ search' = "start" /\ search # "start" => InOrder'
       /\ InOrder => /\ [Queue!Next]_<<Waiting, popped>>
                     /\ InOrder' \/ (Pop /\ MayMisplace)]_pathsVars
<1> DEFINE Holds ==
      /\ search' = "start" /\ search # "start" => InOrder'
      /\ InOrder => /\ [Queue!Next]_<<Waiting, popped>>
                    /\ InOrder' \/ (Pop /\ MayMisplace)
<1>1. ASSUME Inv, [PathsNext]_pathsVars PROVE Holds
  <2>1. search' = "start" /\ search # "start" => InOrder'
    <3> SUFFICES ASSUME search' = "start", search # "start" PROVE InOrder'
      OBVIOUS
    <3>1. PICK from \in TrapIds, to \in TrapIds : PathFinding(from, to)
      BY <1>1 DEF PathsNext, Step, AddSource, Pop, GiveUp, PathVisit, pathsVars, searchVars
    <3>2. nodes' = Empty
      BY <3>1 DEF PathFinding
    <3> QED
      BY <3>2, EmptyInOrderNext
  <2>2. ASSUME InOrder
        PROVE  [Queue!Next]_<<Waiting, popped>> /\ (InOrder' \/ (Pop /\ MayMisplace))
    <3>1. QueueStep
      BY <1>1, StepIsQueueStep
    <3>2. ASSUME NEW elem \in PathHeapNode, PathHeapPush(elem)
          PROVE  InOrder' /\ Queue!Next
      BY <2>2, <3>2, PushInOrder DEF Queue!Next
    <3>3. CASE Pop
      <4>1. PathHeapPop
        BY <3>3 DEF Pop
      <4> QED
        BY <2>2, <3>3, <4>1, PopsLowest DEF Queue!Next
    <3>4. CASE nodes' = Empty /\ popped' = NULL
      <4>1. InOrder' /\ Waiting' = Queue!EmptyBag
        BY <3>4, EmptyInOrderNext
      <4> QED
        BY <3>4, <4>1 DEF Queue!Next, Queue!Clear
    <3>5. CASE UNCHANGED <<nodes, popped>>
      BY <2>2, <3>5 DEF InOrder, IsHeap, Ordered, Waiting
    <3> QED
      BY <3>1, <3>2, <3>3, <3>4, <3>5 DEF QueueStep
  <2> QED
    BY <2>1, <2>2
<1> QED
  BY <1>1, Invariance, PTL DEF PathsSpec
=============================================================================
