--------------------------- MODULE PathHeap_proofs ---------------------------
(***************************************************************************)
(* Nothing is lost in the heap, whatever the costs and however many nodes: *)
(* a push adds its node, and a pop takes the first one away.  The ways of  *)
(* the hole are recursive functions; that they are defined and what they   *)
(* go through is shown by least counterexamples.                           *)
(*                                                                         *)
(* With room for at most six nodes the first one is also the lowest, and   *)
(* the heap is a priority queue.  That is the limit: the pop moves the     *)
(* last node to the middle slot as well, and from seven nodes on this      *)
(* breaks the order (LowestFirst in the run PathHeapSeven).                *)
(***************************************************************************)
EXTENDS PathHeap, FiniteSetTheorems, FunctionTheorems, SequenceLemmas

-----------------------------------------------------------------------------
(* Numbers *)

LEMMA ParentIsBelow ==
  ASSUME NEW i \in Nat, i # 0
  PROVE  Parent(i) \in 0..(i - 1)
  BY DEF Parent

-----------------------------------------------------------------------------
(* The way up *)

RiseBody(up, cost, i) == IF i = 0 \/ nodes[Parent(i)].cost < cost THEN {i}
                         ELSE {i} \cup up[Parent(i)]

Rise(up, n, cost) == [i \in 0..n |-> RiseBody(up, cost, i)]

LEMMA RisesIsRise ==
  ASSUME NEW n, NEW cost
  PROVE  Rises(n, cost) = (CHOOSE up : up = Rise(up, n, cost))[n]
  BY DEF Rises, Rise, RiseBody

LEMMA RiseExists ==
  ASSUME NEW n \in Nat, NEW cost
  PROVE  \E up : up = Rise(up, n, cost)
<1> DEFINE T == {k \in Nat : ~\E up : up = Rise(up, k, cost)}
<1> SUFFICES ASSUME T # {} PROVE FALSE
  OBVIOUS
<1>1. PICK k \in T : \A m \in T : k <= m
  BY Least
<1>2. CASE k = 0
  <2> DEFINE f == [i \in 0..0 |-> {i}]
  <2>1. f = Rise(f, 0, cost)
    BY DEF Rise, RiseBody
  <2> QED
    BY <1>1, <1>2, <2>1
<1>3. CASE k # 0
  <2>1. k - 1 \in Nat /\ k - 1 \notin T
    BY <1>1, <1>3
  <2>2. PICK f : f = Rise(f, k - 1, cost)
    BY <2>1
  <2> DEFINE g == [i \in 0..k |-> IF i < k THEN f[i] ELSE RiseBody(f, cost, k)]
  <2>3. ASSUME NEW i \in 0..k PROVE g[i] = RiseBody(g, cost, i)
    <3>1. i # 0 => Parent(i) \in 0..(i - 1)
      BY ParentIsBelow
    <3>2. i # 0 => g[Parent(i)] = f[Parent(i)]
      BY <1>1, <3>1
    <3>3. RiseBody(g, cost, i) = RiseBody(f, cost, i)
      BY <3>2 DEF RiseBody
    <3>4. CASE i < k
      <4>1. i \in 0..(k - 1) /\ g[i] = f[i]
        BY <1>1, <3>4
      <4>2. f[i] = RiseBody(f, cost, i)
        BY <2>2, <4>1 DEF Rise
      <4> QED
        BY <3>3, <4>1, <4>2
    <3>5. CASE i = k
      BY <3>3, <3>5
    <3> QED
      BY <1>1, <3>4, <3>5
  <2>4. g = Rise(g, k, cost)
    BY <2>3 DEF Rise
  <2> QED
    BY <1>1, <2>4
<1> QED
  BY <1>2, <1>3

StaysBelow(i, cost) == i = 0 \/ nodes[Parent(i)].cost < cost

\* From slot n upwards: every slot of the way but the first has the one it was
\* entered from below it, and the way goes on up to where the new node may stay.
IsRise(way, n, cost) ==
  /\ n \in way /\ way \subseteq 0..n
  /\ \A j \in way : j # n => \E i \in way : i > j /\ Parent(i) = j
  /\ \A j \in way : IF StaysBelow(j, cost) THEN \A k \in way : j <= k ELSE Parent(j) \in way

LEMMA RisesIsWay ==
  ASSUME NEW n \in Nat, NEW cost
  PROVE  IsRise(Rises(n, cost), n, cost)
<1> DEFINE up == CHOOSE f : f = Rise(f, n, cost)
<1>1. up = Rise(up, n, cost)
  BY RiseExists
<1>2. Rises(n, cost) = up[n]
  BY RisesIsRise
<1> HIDE DEF up
<1> DEFINE T == {k \in 0..n : ~IsRise(up[k], k, cost)}
<1> SUFFICES ASSUME T # {} PROVE FALSE
  BY <1>2
<1>3. PICK k \in T : \A m \in T : k <= m
  <2>1. T \subseteq Nat
    OBVIOUS
  <2> QED
    BY <2>1, Least
<1>4. up[k] = RiseBody(up, cost, k)
  BY <1>1, <1>3 DEF Rise
<1>5. CASE StaysBelow(k, cost) /\ up[k] = {k}
  BY <1>3, <1>5 DEF IsRise
<1>6. CASE ~StaysBelow(k, cost) /\ up[k] = {k} \cup up[Parent(k)]
  <2>0. k # 0
    BY <1>6 DEF StaysBelow
  <2> DEFINE p == Parent(k)
  <2>1. p \in 0..(k - 1) /\ p \in 0..n /\ p < k
    BY <1>3, <2>0, ParentIsBelow
  <2>2. IsRise(up[p], p, cost)
    BY <1>3, <2>1
  <2>3. k \in up[k] /\ up[k] \subseteq 0..k
    BY <1>3, <1>6, <2>1, <2>2 DEF IsRise
  <2>4. ASSUME NEW j \in up[k], j # k PROVE \E i \in up[k] : i > j /\ Parent(i) = j
    <3>1. j \in up[p]
      BY <1>6, <2>4
    <3>2. CASE j = p
      BY <2>1, <2>3, <3>2
    <3>3. CASE j # p
      BY <1>6, <2>2, <3>1, <3>3 DEF IsRise
    <3> QED
      BY <3>2, <3>3
  <2>5. ASSUME NEW j \in up[k]
        PROVE  IF StaysBelow(j, cost) THEN \A i \in up[k] : j <= i ELSE Parent(j) \in up[k]
    <3>1. CASE j = k
      <4>1. p \in up[k]
        BY <1>6, <2>2 DEF IsRise
      <4> QED
        BY <1>6, <3>1, <4>1
    <3>2. CASE j # k
      <4>1. j \in up[p] /\ j \in 0..p /\ j <= k
        BY <1>3, <1>6, <2>1, <2>2, <2>5, <3>2 DEF IsRise
      <4>2. IF StaysBelow(j, cost) THEN \A i \in up[p] : j <= i ELSE Parent(j) \in up[p]
        BY <2>2, <4>1 DEF IsRise
      <4> QED
        BY <1>6, <4>1, <4>2
    <3> QED
      BY <3>1, <3>2
  <2> QED
    BY <1>3, <2>3, <2>4, <2>5 DEF IsRise
<1> QED
  BY <1>4, <1>5, <1>6 DEF RiseBody, StaysBelow

-----------------------------------------------------------------------------
(* The way down *)

Child(i) == IF nodes[2 * i + 1].cost < nodes[2 * i + 2].cost THEN 2 * i + 1 ELSE 2 * i + 2

SinkBody(down, n, last, i) ==
  IF i >= n \div 2 THEN [holes |-> {i}, idx |-> i]
  ELSE IF last.cost <= nodes[Child(i)].cost THEN [holes |-> {i}, idx |-> Child(i)]
  ELSE [down[Child(i)] EXCEPT !.holes = @ \cup {i}]

Sink(down, n, last) == [i \in 0..n |-> SinkBody(down, n, last, i)]

LEMMA SinksIsSink ==
  ASSUME NEW n, NEW last
  PROVE  Sinks(n, last) = (CHOOSE down : down = Sink(down, n, last))[0]
  BY DEF Sinks, Sink, SinkBody, Child

LEMMA ChildIsAbove ==
  ASSUME NEW n \in Nat, NEW i \in Nat, i < n \div 2
  PROVE  Child(i) \in (i + 1)..n /\ Parent(Child(i)) = i
  BY DEF Child, Parent

LEMMA SinkExists ==
  ASSUME NEW n \in Nat, NEW last
  PROVE  \E down : down = Sink(down, n, last)
<1> DEFINE Partial(f, k) == f = [i \in (n + 1 - k)..n |-> SinkBody(f, n, last, i)]
           T == {k \in 0..(n + 1) : ~\E f : Partial(f, k)}
<1>0. \A k \in 0..(n + 1) : k \in T <=> ~\E f : Partial(f, k)
  OBVIOUS
<1> HIDE DEF Partial
<1>1. CASE T = {}
  <2>1. n + 1 \in 0..(n + 1) /\ n + 1 - (n + 1) = 0
    OBVIOUS
  <2>2. PICK f : Partial(f, n + 1)
    BY <1>0, <1>1, <2>1
  <2> QED
    BY <2>1, <2>2 DEF Partial, Sink
<1>2. CASE T # {}
  <2>1. T \subseteq Nat /\ T \subseteq 0..(n + 1)
    OBVIOUS
  <2> HIDE DEF T
  <2>2. PICK k \in T : \A m \in T : k <= m
    BY <1>2, <2>1, Least
  <2>3. CASE k = 0
    <3> DEFINE f == [i \in (n + 1)..n |-> {}]
    <3>1. Partial(f, 0)
      BY DEF Partial
    <3> QED
      BY <1>0, <2>1, <2>2, <2>3, <3>1
  <2>4. CASE k # 0
    <3> DEFINE low == n + 1 - k
    <3>1. k \in 1..(n + 1) /\ k - 1 \in 0..(n + 1) /\ k - 1 \notin T
      BY <2>1, <2>2, <2>4
    <3>2. PICK f : Partial(f, k - 1)
      BY <1>0, <3>1
    <3>3. f = [i \in (low + 1)..n |-> SinkBody(f, n, last, i)] /\ low \in 0..n
      <4>1. n + 1 - (k - 1) = low + 1 /\ low \in 0..n
        BY <3>1
      <4> QED
        BY <3>2, <4>1 DEF Partial
    <3> HIDE DEF low
    <3> DEFINE g == [i \in low..n |-> IF i = low THEN SinkBody(f, n, last, low) ELSE f[i]]
    <3>4. ASSUME NEW i \in low..n PROVE g[i] = SinkBody(g, n, last, i)
      <4>1. i < n \div 2 => Child(i) \in (i + 1)..n
        BY <3>3, ChildIsAbove
      <4>2. i < n \div 2 => g[Child(i)] = f[Child(i)]
        BY <3>3, <4>1
      <4>3. SinkBody(g, n, last, i) = SinkBody(f, n, last, i)
        <5>1. n \div 2 \in Nat /\ i \in Nat
          BY <3>3
        <5>2. CASE i >= n \div 2
          BY <5>2 DEF SinkBody
        <5>3. CASE i < n \div 2
          <6>1. g[Child(i)] = f[Child(i)] /\ ~(i >= n \div 2)
            BY <4>2, <5>1, <5>3
          <6> HIDE DEF g
          <6> QED
            BY <6>1 DEF SinkBody
        <5> QED
          BY <5>1, <5>2, <5>3
      <4>4. CASE i = low
        BY <4>3, <4>4
      <4>5. CASE i # low
        <5>1. i \in (low + 1)..n /\ g[i] = f[i]
          BY <3>3, <4>5
        <5> QED
          BY <3>3, <4>3, <5>1
      <4> QED
        BY <4>4, <4>5
    <3>5. Partial(g, k)
      BY <3>4 DEF low, Partial
    <3> QED
      BY <1>0, <2>1, <2>2, <3>5
  <2> QED
    BY <2>3, <2>4
<1> QED
  BY <1>1, <1>2

\* Where the loop leaves: at a slot with no child to compare, or above a child
\* that does not cost less; idx is that child then.
LeavesAt(b, idx, n, last) ==
  IF b >= n \div 2 THEN idx = b ELSE idx = Child(b) /\ last.cost <= nodes[Child(b)].cost

\* The hole goes down to the child that costs less, as long as that costs less
\* than the last node.
GoesDown(holes, idx, n, i, last) ==
  /\ \A j \in holes : j # i => j = Child(Parent(j)) /\ ~(last.cost <= nodes[j].cost)
  /\ \E b \in holes : (\A j \in holes : j <= b) /\ LeavesAt(b, idx, n, last)

\* From slot i downwards, in a heap of n nodes: the slots of the way are linked
\* one to the next, down to the last of them.
IsSink(way, n, i) ==
  /\ i \in way /\ way \subseteq i..(n - 1)
  /\ \A j \in way : j # i => Parent(j) \in way /\ Parent(j) < j
  /\ \A j, k \in way : j # i /\ k # i /\ Parent(j) = Parent(k) => j = k
  /\ \E b \in way : \A j \in way : j # b => j < b /\ \E k \in way : k > j /\ Parent(k) = j

LEMMA SinksIsWay ==
  ASSUME NEW n \in Nat \ {0}, NEW last, last = nodes[n], last.cost \in Nat
  PROVE  /\ IsSink(Sinks(n, last).holes, n, 0)
         /\ GoesDown(Sinks(n, last).holes, Sinks(n, last).idx, n, 0, last)
<1> DEFINE down == CHOOSE f : f = Sink(f, n, last)
<1>1. down = Sink(down, n, last)
  BY SinkExists
<1>2. Sinks(n, last) = down[0]
  BY SinksIsSink
<1> HIDE DEF down
<1> DEFINE OK(i) == /\ IsSink(down[i].holes, n, i) /\ DOMAIN down[i] = {"holes", "idx"}
                    /\ GoesDown(down[i].holes, down[i].idx, n, i, last)
           T == {i \in 0..(n - 1) : ~OK(i)}
<1> SUFFICES ASSUME T # {} PROVE FALSE
  BY <1>2
<1>3. PICK i \in T : \A m \in T : m <= i
  <2>1. T \subseteq 0..n
    OBVIOUS
  <2> QED
    BY <2>1, Greatest
<1>4. down[i] = SinkBody(down, n, last, i)
  BY <1>1, <1>3 DEF Sink
<1>5. ASSUME NEW idx, down[i] = [holes |-> {i}, idx |-> idx], LeavesAt(i, idx, n, last)
      PROVE  FALSE
  <2>1. down[i].holes = {i} /\ down[i].idx = idx /\ DOMAIN down[i] = {"holes", "idx"}
    BY <1>5
  <2>2. IsSink(down[i].holes, n, i)
    BY <1>3, <2>1 DEF IsSink
  <2>3. GoesDown(down[i].holes, down[i].idx, n, i, last)
    <3>1. i \in Nat /\ i <= i
      BY <1>3
    <3> QED
      BY <1>5, <2>1, <3>1 DEF GoesDown
  <2> QED
    BY <1>3, <2>1, <2>2, <2>3
<1>6. CASE /\ i < n \div 2 /\ ~(last.cost <= nodes[Child(i)].cost)
           /\ down[i] = [down[Child(i)] EXCEPT !.holes = @ \cup {i}]
  <2> DEFINE c == Child(i)
             way == down[c].holes
  <2>1. c \in (i + 1)..n /\ Parent(c) = i
    BY <1>3, <1>6, ChildIsAbove
  <2>2. c # n
    BY <1>6
  <2>3. c \in 0..(n - 1) /\ c \notin T /\ i < c
    BY <1>3, <2>1, <2>2
  <2>4. /\ IsSink(way, n, c) /\ DOMAIN down[c] = {"holes", "idx"}
        /\ GoesDown(way, down[c].idx, n, c, last)
    BY <2>3
  <2>5. /\ down[i].holes = way \cup {i} /\ DOMAIN down[i] = {"holes", "idx"}
        /\ down[i].idx = down[c].idx
    BY <1>6, <2>4
  <2>15. c = Child(i) /\ ~(last.cost <= nodes[c].cost)
    BY <1>6
  <2> HIDE DEF way, c
  <2>6. c \in way /\ way \subseteq c..(n - 1) /\ \A j \in way : j \in Nat /\ j > i
    BY <1>3, <2>3, <2>4 DEF IsSink
  <2>7. \A j \in way : j # c => Parent(j) \in way /\ Parent(j) < j /\ Parent(j) # i
    BY <2>4, <2>6 DEF IsSink
  <2>8. \A j \in way \cup {i} : j # i => Parent(j) \in way \cup {i} /\ Parent(j) < j
    BY <2>1, <2>3, <2>7
  <2>9. \A j, k \in way \cup {i} : j # i /\ k # i /\ Parent(j) = Parent(k) => j = k
    BY <2>1, <2>4, <2>7 DEF IsSink
  <2>10. \E b \in way \cup {i} : \A j \in way \cup {i} :
           j # b => j < b /\ \E k \in way \cup {i} : k > j /\ Parent(k) = j
    <3>1. PICK b \in way : \A j \in way : j # b => j < b /\ \E k \in way : k > j /\ Parent(k) = j
      BY <2>4 DEF IsSink
    <3>2. i < b /\ c > i /\ c \in way /\ Parent(c) = i
      BY <2>1, <2>3, <2>6
    <3> QED
      BY <3>1, <3>2
  <2>11. i \in way \cup {i} /\ way \cup {i} \subseteq i..(n - 1)
    BY <1>3, <2>3, <2>6
  <2>12. IsSink(way \cup {i}, n, i)
    BY <2>8, <2>9, <2>10, <2>11 DEF IsSink
  <2>13. ASSUME NEW j \in way \cup {i}, j # i
         PROVE  j = Child(Parent(j)) /\ ~(last.cost <= nodes[j].cost)
    BY <2>1, <2>4, <2>13, <2>15 DEF GoesDown
  <2>14. \E b \in way \cup {i} : /\ \A j \in way \cup {i} : j <= b
                                 /\ LeavesAt(b, down[c].idx, n, last)
    <3>1. PICK b \in way : (\A j \in way : j <= b) /\ LeavesAt(b, down[c].idx, n, last)
      BY <2>4, <2>15 DEF GoesDown
    <3>2. i <= b
      BY <1>3, <2>6
    <3> QED
      BY <3>1, <3>2
  <2>16. GoesDown(down[i].holes, down[i].idx, n, i, last)
    BY <2>5, <2>13, <2>14 DEF GoesDown
  <2> QED
    BY <1>3, <2>5, <2>12, <2>16
<1> QED
  <2>1. i \in Nat /\ n \div 2 \in Nat
    BY <1>3
  <2>2. CASE i >= n \div 2 \/ last.cost <= nodes[Child(i)].cost
    BY <1>4, <1>5, <2>1, <2>2 DEF SinkBody, LeavesAt
  <2>3. CASE i < n \div 2 /\ ~(last.cost <= nodes[Child(i)].cost)
    BY <1>4, <1>6, <2>1, <2>3 DEF SinkBody
  <2> QED
    BY <2>1, <2>2, <2>3

-----------------------------------------------------------------------------
(* The same values in another order *)

Rearranged(f, S, h, T) == \E g \in Bijection(S, T) : \A i \in S : f[i] = h[g[i]]

LEMMA OntoIsRearranged ==
  ASSUME NEW S, NEW T, IsFiniteSet(S), Cardinality(S) = Cardinality(T),
         NEW g \in Surjection(S, T), NEW f, NEW h, \A i \in S : f[i] = h[g[i]]
  PROVE  Rearranged(f, S, h, T)
<1>1. g \in Injection(S, T)
  BY FS_SurjSameCardinalityImpliesInj
<1> QED
  BY <1>1 DEF Rearranged, Bijection

LEMMA RearrangedTwice ==
  ASSUME NEW S, NEW T, NEW U, NEW f, NEW h, NEW k,
         Rearranged(f, S, h, T), Rearranged(h, T, k, U)
  PROVE  Rearranged(f, S, k, U)
<1>1. PICK g \in Bijection(S, T) : \A i \in S : f[i] = h[g[i]]
  BY DEF Rearranged
<1>2. PICK e \in Bijection(T, U) : \A i \in T : h[i] = k[e[i]]
  BY DEF Rearranged
<1> DEFINE both == [i \in S |-> e[g[i]]]
<1>3. both \in Bijection(S, U)
  BY Fun_BijTransitive
<1>4. \A i \in S : g[i] \in T
  BY DEF Bijection, Injection
<1>5. \A i \in S : f[i] = k[both[i]]
  BY <1>1, <1>2, <1>4
<1> QED
  BY <1>3, <1>5 DEF Rearranged

LEMMA ValuesRearranged ==
  ASSUME NEW S, NEW T, NEW f, NEW h, Rearranged(f, S, h, T), NEW v
  PROVE  (\E i \in S : f[i] = v) <=> \E j \in T : h[j] = v
<1>1. PICK g \in Bijection(S, T) : \A i \in S : f[i] = h[g[i]]
  BY DEF Rearranged
<1>2. g \in [S -> T] /\ \A j \in T : \E i \in S : g[i] = j
  BY DEF Bijection, Injection, Surjection
<1> QED
  BY <1>1, <1>2

Count(f, S, v) == Cardinality({i \in S : f[i] = v})

LEMMA CountRearranged ==
  ASSUME NEW S, NEW T, IsFiniteSet(S), NEW f, NEW h, Rearranged(f, S, h, T), NEW v
  PROVE  Count(f, S, v) = Count(h, T, v)
<1>1. PICK g \in Bijection(S, T) : \A i \in S : f[i] = h[g[i]]
  BY DEF Rearranged
<1> DEFINE A == {i \in S : f[i] = v}
           B == {j \in T : h[j] = v}
           e == [i \in A |-> g[i]]
<1>2. /\ g \in [S -> T] /\ \A a, b \in S : g[a] = g[b] => a = b
      /\ \A j \in T : \E i \in S : g[i] = j
  BY DEF Bijection, Injection, Surjection, IsInjective
<1>3. e \in [A -> B]
  BY <1>1, <1>2
<1>4. \A a, b \in A : e[a] = e[b] => a = b
  BY <1>2
<1>5. \A j \in B : \E i \in A : e[i] = j
  BY <1>1, <1>2
<1>6. e \in Bijection(A, B)
  BY <1>3, <1>4, <1>5, Fun_IsBij
<1>7. IsFiniteSet(A)
  BY FS_Subset
<1> QED
  BY <1>6, <1>7, FS_Bijection DEF ExistsBijection, Count

-----------------------------------------------------------------------------
(* The nodes in the heap *)

IsHeap(n) == nodes \in [0..(n - 1) -> PathHeapNode]

\* No node costs less than its parent.
Ordered(n) == \A i \in 1..(n - 1) : nodes[Parent(i)].cost <= nodes[i].cost

LEMMA CostsOfHeap ==
  ASSUME NEW n \in Nat, IsHeap(n), NEW i \in 0..(n - 1)
  PROVE  nodes[i] \in PathHeapNode /\ nodes[i].cost \in Nat
<1>1. nodes[i] \in PathHeapNode
  BY DEF IsHeap
<1> QED
  BY <1>1, CostsAssumption DEF PathHeapNode

\* The root costs least.
LEMMA RootIsLowest ==
  ASSUME NEW n \in Nat, IsHeap(n), Ordered(n), NEW i \in 0..(n - 1)
  PROVE  nodes[0].cost <= nodes[i].cost
<1> DEFINE T == {k \in 0..(n - 1) : ~(nodes[0].cost <= nodes[k].cost)}
<1> SUFFICES ASSUME T # {} PROVE FALSE
  OBVIOUS
<1>1. PICK k \in T : \A m \in T : k <= m
  <2>1. T \subseteq Nat
    OBVIOUS
  <2> QED
    BY <2>1, Least
<1>2. k # 0 /\ k \in 1..(n - 1) /\ 0 \in 0..(n - 1)
  <2>1. 0 \in 0..(n - 1)
    BY <1>1
  <2> QED
    BY <1>1, <2>1, CostsOfHeap
<1>3. Parent(k) \in 0..(k - 1) /\ Parent(k) \in 0..(n - 1)
  BY <1>2, ParentIsBelow
<1>4. Parent(k) \notin T
  BY <1>1, <1>2, <1>3
<1>5. nodes[0].cost <= nodes[Parent(k)].cost /\ nodes[Parent(k)].cost <= nodes[k].cost
  BY <1>2, <1>3, <1>4 DEF Ordered
<1>6. nodes[0].cost \in Nat /\ nodes[k].cost \in Nat /\ nodes[Parent(k)].cost \in Nat
  BY <1>2, <1>3, CostsOfHeap
<1> QED
  BY <1>1, <1>5, <1>6

LEMMA LenOfHeap ==
  ASSUME NEW n \in Nat, IsHeap(n)
  PROVE  len = n
<1>1. DOMAIN nodes = 0..(n - 1)
  BY DEF IsHeap
<1> QED
  BY <1>1, FS_Interval DEF len

WithLast(n, elem) == [i \in 0..n |-> IF i = n THEN elem ELSE nodes[i]]

\* A push puts its node into the heap, and keeps all others and their order.
LEMMA PushKeeps ==
  ASSUME NEW n \in Nat, IsHeap(n), NEW elem \in PathHeapNode, PathHeapPush(elem)
  PROVE  /\ IsHeap(n + 1)' /\ Range(nodes') = Range(nodes) \cup {elem}
         /\ Rearranged(nodes', 0..n, WithLast(n, elem), 0..n)
         /\ Ordered(n) => Ordered(n + 1)'
<1> DEFINE path == Rises(n, elem.cost)
           top == CHOOSE i \in path : \A j \in path : i <= j
<1>1. IsRise(path, n, elem.cost)
  BY RisesIsWay
<1>2. nodes' = [i \in 0..n |-> IF i = top THEN elem
                               ELSE IF i \in path THEN nodes[Parent(i)] ELSE nodes[i]]
  BY LenOfHeap DEF PathHeapPush
<1> HIDE DEF path
<1>3. top \in path /\ \A j \in path : top <= j
  <2>1. path \subseteq Nat /\ path # {}
    BY <1>1 DEF IsRise
  <2> QED
    BY <2>1, Least
<1> HIDE DEF top
<1>4. DOMAIN nodes = 0..(n - 1) /\ DOMAIN nodes' = 0..n
  BY <1>2 DEF IsHeap
<1>5. ASSUME NEW i \in 0..n, i # top
      PROVE  \E j \in 0..(n - 1) : nodes'[i] = nodes[j]
  <2>1. CASE i \in path
    <3>1. i # 0
      BY <1>1, <1>3, <1>5, <2>1 DEF IsRise
    <3>2. Parent(i) \in 0..(n - 1)
      BY <3>1, ParentIsBelow
    <3> QED
      BY <1>2, <1>5, <2>1, <3>2
  <2>2. CASE i \notin path
    <3>1. i \in 0..(n - 1)
      BY <1>1, <2>2 DEF IsRise
    <3> QED
      BY <1>2, <1>5, <2>2, <3>1
  <2> QED
    BY <2>1, <2>2
<1>6. top \in 0..n /\ nodes'[top] = elem
  BY <1>1, <1>2, <1>3 DEF IsRise
<1>7. ASSUME NEW j \in 0..(n - 1)
      PROVE  \E i \in 0..n : nodes'[i] = nodes[j]
  <2>1. CASE j \in path
    <3>1. j # n
      OBVIOUS
    <3>2. PICK i \in path : i > j /\ Parent(i) = j
      BY <1>1, <2>1, <3>1 DEF IsRise
    <3>3. i \in 0..n /\ top <= j /\ top \in 0..n
      BY <1>1, <1>3, <1>6, <2>1 DEF IsRise
    <3>4. i # top
      BY <3>2, <3>3
    <3> QED
      BY <1>2, <3>2, <3>3, <3>4
  <2>2. CASE j \notin path
    BY <1>2, <1>3, <2>2
  <2> QED
    BY <2>1, <2>2
<1>8. \A i \in 0..n : nodes'[i] \in PathHeapNode
  BY <1>5, <1>6 DEF IsHeap
<1>9. IsHeap(n + 1)'
  BY <1>2, <1>8 DEF IsHeap
<1>10. Range(nodes') = Range(nodes) \cup {elem}
  <2>1. \A v : v \in Range(nodes) <=> \E x \in 0..(n - 1) : nodes[x] = v
    BY <1>4, InRange
  <2>2. \A v : v \in Range(nodes') <=> \E x \in 0..n : nodes'[x] = v
    BY <1>4, InRange
  <2>3. ASSUME NEW v \in Range(nodes') PROVE v \in Range(nodes) \cup {elem}
    <3>1. PICK x \in 0..n : nodes'[x] = v
      BY <2>2
    <3> QED
      BY <1>5, <1>6, <2>1, <3>1
  <2>4. Range(nodes) \subseteq Range(nodes')
    BY <1>7, <2>1, <2>2
  <2>5. elem \in Range(nodes')
    BY <1>6, <2>2
  <2> QED
    BY <2>3, <2>4, <2>5
<1>11. Rearranged(nodes', 0..n, WithLast(n, elem), 0..n)
  <2> DEFINE from(i) == IF i = top THEN n ELSE IF i \in path THEN Parent(i) ELSE i
             g == [i \in 0..n |-> from(i)]
  <2>1. ASSUME NEW i \in 0..n PROVE from(i) \in 0..n /\ (i # top => from(i) # n)
    <3>1. i \in path /\ i # top => i # 0
      BY <1>1, <1>3 DEF IsRise
    <3>2. i \in path /\ i # top => Parent(i) \in 0..(n - 1)
      BY <3>1, ParentIsBelow
    <3>3. n \in path
      BY <1>1 DEF IsRise
    <3> QED
      BY <3>2, <3>3
  <2>2. ASSUME NEW j \in 0..n PROVE \E i \in 0..n : from(i) = j
    <3>1. CASE j = n
      BY <1>6, <3>1
    <3>2. CASE j # n /\ j \in path
      <4>1. PICK i \in path : i > j /\ Parent(i) = j
        BY <1>1, <3>2 DEF IsRise
      <4>2. i \in 0..n /\ top <= j /\ i # top
        BY <1>1, <1>3, <1>6, <3>2, <4>1 DEF IsRise
      <4> QED
        BY <4>1, <4>2
    <3>3. CASE j # n /\ j \notin path
      BY <1>3, <3>3
    <3> QED
      BY <3>1, <3>2, <3>3
  <2>3. g \in Surjection(0..n, 0..n)
    BY <2>1, <2>2, Fun_IsSurj
  <2>4. ASSUME NEW i \in 0..n PROVE nodes'[i] = WithLast(n, elem)[g[i]]
    BY <1>2, <2>1 DEF WithLast
  <2>5. IsFiniteSet(0..n)
    BY FS_Interval
  <2> HIDE DEF g
  <2> QED
    BY <2>3, <2>4, <2>5, OntoIsRearranged
<1>12. ASSUME Ordered(n) PROVE Ordered(n + 1)'
  <2>1. \A i \in 0..(n - 1) : nodes[i].cost \in Nat
    BY CostsOfHeap
  <2>2. elem.cost \in Nat
    BY CostsAssumption DEF PathHeapNode
  <2>3. n \in path /\ path \subseteq 0..n
    BY <1>1 DEF IsRise
  <2>4. ASSUME NEW j \in path, j # top
        PROVE  /\ Parent(j) \in path /\ Parent(j) \in 0..(n - 1) /\ top <= Parent(j)
               /\ elem.cost <= nodes[Parent(j)].cost
    <3>1. ~StaysBelow(j, elem.cost)
      BY <1>1, <1>3, <1>6, <2>3, <2>4 DEF IsRise
    <3>2. j # 0 /\ ~(nodes[Parent(j)].cost < elem.cost)
      BY <3>1 DEF StaysBelow
    <3>3. Parent(j) \in path /\ Parent(j) \in 0..(n - 1)
      BY <1>1, <2>3, <3>1, <3>2, ParentIsBelow DEF IsRise
    <3> QED
      BY <1>3, <2>1, <2>2, <3>2, <3>3
  <2>5. top = 0 \/ nodes[Parent(top)].cost < elem.cost
    <3>1. CASE StaysBelow(top, elem.cost)
      BY <3>1 DEF StaysBelow
    <3>2. CASE ~StaysBelow(top, elem.cost)
      <4>1. Parent(top) \in path /\ (top # 0 => Parent(top) \in 0..(top - 1))
        BY <1>1, <1>3, <1>6, <3>2, ParentIsBelow DEF IsRise
      <4> QED
        BY <1>3, <1>6, <4>1
    <3> QED
      BY <3>1, <3>2
  <2>6. ASSUME NEW i \in 1..n PROVE nodes'[Parent(i)].cost <= nodes'[i].cost
    <3> DEFINE p == Parent(i)
    <3>1. p \in 0..(i - 1) /\ p \in 0..n /\ p \in 0..(n - 1)
      BY ParentIsBelow
    <3>2. i # n => nodes[p].cost <= nodes[i].cost
      BY <1>12, <3>1 DEF Ordered
    <3>3. p # 0 => Parent(p) \in 0..(n - 1) /\ nodes[Parent(p)].cost <= nodes[p].cost
      BY <1>12, <3>1, ParentIsBelow DEF Ordered
    \* What comes to the parent costs no more than what was there.
    <3>4. p \in path => nodes'[p].cost <= nodes[p].cost /\ nodes'[p].cost \in Nat
      <4>1. CASE p = top
        <5>1. PICK j \in path : j > p /\ Parent(j) = p
          BY <1>1, <1>3, <3>1, <4>1 DEF IsRise
        <5>2. j # top
          BY <2>3, <3>1, <4>1, <5>1
        <5> QED
          BY <1>2, <2>2, <2>4, <3>1, <4>1, <5>1, <5>2
      <4>2. CASE p # top /\ p \in path
        <5>1. p # 0
          BY <1>3, <1>6, <4>2, <2>3
        <5> QED
          BY <1>2, <2>1, <3>1, <3>3, <4>2, <5>1
      <4> QED
        BY <4>1, <4>2
    <3>5. CASE i = top
      <4>1. p \notin path
        BY <1>3, <1>6, <3>1, <3>5
      <4> QED
        BY <1>2, <2>1, <2>2, <2>5, <3>1, <3>5, <4>1, <1>3
    <3>6. CASE i # top /\ i \in path
      <4>1. nodes'[i] = nodes[p] /\ p \in path
        BY <1>2, <2>4, <3>6
      <4> QED
        BY <3>4, <4>1
    <3>7. CASE i # top /\ i \notin path
      <4>1. i # n /\ nodes'[i] = nodes[i] /\ i \in 0..(n - 1)
        BY <1>2, <2>3, <3>7
      <4>2. CASE p \in path
        BY <2>1, <3>1, <3>2, <3>4, <4>1, <4>2
      <4>3. CASE p \notin path
        BY <1>2, <1>3, <3>1, <3>2, <4>1, <4>3
      <4> QED
        BY <4>2, <4>3
    <3> QED
      BY <3>5, <3>6, <3>7
  <2> QED
    BY <2>6 DEF Ordered
<1> QED
  BY <1>9, <1>10, <1>11, <1>12

OrderedCosts(f, n) == \A i \in 1..(n - 1) : f[Parent(i)].cost <= f[i].cost

\* What there is when the last node of n + 1 has come to its slot, the bottom.
IsSunk(sunk, n, bottom, idx) ==
  /\ sunk \in [0..(n - 1) -> PathHeapNode]
  /\ bottom \in 0..(n - 1) /\ sunk[bottom] = nodes[n]
  /\ Rearranged(sunk, 0..(n - 1), nodes, 1..n)
  /\ Ordered(n + 1) => OrderedCosts(sunk, n)
  /\ LeavesAt(bottom, idx, n, nodes[n])
  /\ \A i \in 0..(n - 1) : i > bottom => sunk[i] = nodes[i]

\* The nodes move along the way down, and the last one comes to its end.  That
\* leaves them in order, for any number of nodes.
LEMMA SunkKeeps ==
  ASSUME NEW n \in Nat \ {0}, IsHeap(n + 1), NEW holes, NEW idx,
         IsSink(holes, n, 0), GoesDown(holes, idx, n, 0, nodes[n]),
         NEW bottom, bottom = CHOOSE i \in holes : \A j \in holes : j <= i
  PROVE  IsSunk(Sunk(n, holes, nodes[n]), n, bottom, idx)
<1> DEFINE below(i) == CHOOSE j \in holes : j > i /\ Parent(j) = i
           sunk == Sunk(n, holes, nodes[n])
<1>1. /\ \A j \in holes : j \in 0..(n - 1) /\ j \in 0..n /\ j \in Nat
      /\ \A j \in holes : j # 0 => Parent(j) \in holes /\ Parent(j) < j
      /\ \A j, k \in holes : j # 0 /\ k # 0 /\ Parent(j) = Parent(k) => j = k
  BY DEF IsSink
<1>2. PICK b \in holes : \A j \in holes : j # b => j < b /\ \E k \in holes : k > j /\ Parent(k) = j
  BY DEF IsSink
<1>3. bottom = b
  <2>1. b \in holes /\ \A j \in holes : j <= b
    BY <1>1, <1>2
  <2>2. bottom \in holes /\ \A j \in holes : j <= bottom
    BY <2>1
  <2>3. b \in Nat /\ bottom \in Nat /\ b <= bottom /\ bottom <= b
    BY <1>1, <2>1, <2>2
  <2> QED
    BY <2>3
<1>4. ASSUME NEW i \in holes, i # b
      PROVE  below(i) \in holes /\ below(i) > i /\ Parent(below(i)) = i
  <2>1. \E k \in holes : k > i /\ Parent(k) = i
    BY <1>2, <1>4
  <2> QED
    BY <2>1
<1>5. sunk = [i \in 0..(n - 1) |-> IF i = b THEN nodes[n]
                                  ELSE IF i \in holes THEN nodes[below(i)] ELSE nodes[i]]
  <2>1. sunk = [i \in 0..(n - 1) |->
                  IF i = (CHOOSE k \in holes : \A j \in holes : j <= k) THEN nodes[n]
                  ELSE IF i \in holes THEN nodes[below(i)] ELSE nodes[i]]
    BY DEF Sunk
  <2> HIDE DEF sunk, below
  <2>2. b = CHOOSE k \in holes : \A j \in holes : j <= k
    BY <1>3
  <2> QED
    BY <2>1, <2>2
<1> HIDE DEF below, sunk
<1>6. b \in 0..(n - 1) /\ sunk[b] = nodes[n]
  BY <1>1, <1>5
<1> DEFINE from(i) == IF i = b THEN n ELSE IF i \in holes THEN below(i) ELSE i
<1>7. ASSUME NEW i \in 0..(n - 1) PROVE from(i) \in 1..n /\ sunk[i] = nodes[from(i)]
  <2>1. CASE i = b
    BY <1>6, <2>1
  <2>2. CASE i # b /\ i \in holes
    <3>1. below(i) \in 0..n /\ below(i) > i
      BY <1>1, <1>4, <2>2
    <3> QED
      BY <1>5, <2>2, <3>1
  <2>3. CASE i # b /\ i \notin holes
    <3>1. i # 0
      BY <2>3 DEF IsSink
    <3> QED
      BY <1>5, <2>3, <3>1
  <2> QED
    BY <2>1, <2>2, <2>3
<1>8. ASSUME NEW j \in holes, j # 0
      PROVE  /\ Parent(j) \in holes /\ Parent(j) # b /\ Parent(j) \in 0..(n - 1)
             /\ Parent(j) < j /\ below(Parent(j)) = j
  <2>1. Parent(j) \in holes /\ Parent(j) < j
    BY <1>1, <1>8
  <2>2. Parent(j) # b /\ Parent(j) \in 0..(n - 1)
    <3>1. Parent(j) = b => j # b /\ j < b
      BY <1>1, <1>2, <1>8, <2>1
    <3>2. j \in Nat /\ b \in Nat /\ Parent(j) \in 0..(n - 1)
      BY <1>1, <1>8, <2>1
    <3> QED
      BY <2>1, <3>1, <3>2
  <2>3. /\ below(Parent(j)) \in holes /\ below(Parent(j)) > Parent(j)
        /\ Parent(below(Parent(j))) = Parent(j)
    BY <1>4, <2>1, <2>2
  <2>4. below(Parent(j)) # 0
    BY <1>1, <2>2, <2>3
  <2> QED
    BY <1>1, <1>8, <2>1, <2>2, <2>3, <2>4
<1>9. ASSUME NEW j \in 1..n PROVE \E i \in 0..(n - 1) : from(i) = j
  <2>1. CASE j = n
    BY <1>6, <2>1
  <2>2. CASE j # n /\ j \in holes
    BY <1>8, <2>2
  <2>3. CASE j # n /\ j \notin holes
    BY <1>2, <2>3
  <2> QED
    BY <2>1, <2>2, <2>3
<1>10. Rearranged(sunk, 0..(n - 1), nodes, 1..n)
  <2> DEFINE g == [i \in 0..(n - 1) |-> from(i)]
  <2>1. g \in Surjection(0..(n - 1), 1..n)
    BY <1>7, <1>9, Fun_IsSurj
  <2>2. \A i \in 0..(n - 1) : sunk[i] = nodes[g[i]]
    BY <1>7
  <2>3. IsFiniteSet(0..(n - 1)) /\ Cardinality(0..(n - 1)) = Cardinality(1..n)
    <3>1. 0 \in Int /\ 1 \in Int /\ n - 1 \in Int /\ n \in Int /\ ~(0 > n - 1) /\ ~(1 > n)
      OBVIOUS
    <3>2. IsFiniteSet(0..(n - 1)) /\ Cardinality(0..(n - 1)) = (n - 1) - 0 + 1
      BY <3>1, FS_Interval
    <3>3. Cardinality(1..n) = n - 1 + 1
      BY <3>1, FS_Interval
    <3> QED
      BY <3>2, <3>3
  <2> HIDE DEF g
  <2> QED
    BY <2>1, <2>2, <2>3, OntoIsRearranged
<1>11. \A i \in 0..n : nodes[i] \in PathHeapNode /\ nodes[i].cost \in Nat
  BY CostsOfHeap
<1>12. sunk \in [0..(n - 1) -> PathHeapNode]
  BY <1>5, <1>7, <1>11
<1>13. LeavesAt(b, idx, n, nodes[n])
  <2>1. PICK c \in holes : (\A j \in holes : j <= c) /\ LeavesAt(c, idx, n, nodes[n])
    BY DEF GoesDown
  <2>2. b \in Nat /\ c \in Nat /\ b <= c /\ (b # c => c < b)
    BY <1>1, <1>2, <2>1
  <2> QED
    BY <2>1, <2>2
<1>14. \A i \in 0..(n - 1) : i > b => sunk[i] = nodes[i]
  BY <1>1, <1>2, <1>5
<1>15. ASSUME Ordered(n + 1), NEW i \in 1..(n - 1)
       PROVE  sunk[Parent(i)].cost <= sunk[i].cost
  <2> DEFINE p == Parent(i)
  <2>1. p \in 0..(i - 1) /\ p \in 0..(n - 1) /\ i \in 0..(n - 1) /\ i # 0
    BY ParentIsBelow
  <2>2. \A j \in 1..n : nodes[Parent(j)].cost <= nodes[j].cost
    BY <1>15 DEF Ordered
  <2>3. CASE i \in holes
    <3>1. sunk[p] = nodes[i]
      BY <1>5, <1>8, <2>1, <2>3
    <3>2. CASE i = b
      <4>1. ~(nodes[n].cost <= nodes[i].cost)
        BY <2>1, <2>3 DEF GoesDown
      <4> QED
        BY <1>6, <1>11, <3>1, <3>2, <4>1, <2>1
    <3>3. CASE i # b
      <4>1. below(i) \in holes /\ below(i) > i /\ Parent(below(i)) = i
        BY <1>4, <2>3, <3>3
      <4>2. sunk[i] = nodes[below(i)]
        BY <1>5, <2>1, <2>3, <3>3
      <4>3. below(i) \in 1..n
        BY <1>1, <2>1, <4>1
      <4> QED
        BY <2>2, <3>1, <4>1, <4>2, <4>3
    <3> QED
      BY <3>2, <3>3
  <2>4. CASE i \notin holes /\ p \notin holes
    BY <1>2, <1>5, <2>1, <2>2, <2>4
  <2>5. CASE i \notin holes /\ p \in holes
    <3>1. (i = 2 * p + 1 \/ i = 2 * p + 2) /\ p < n \div 2 /\ 2 * p + 1 \in 0..n /\ 2 * p + 2 \in 0..n
      BY <2>1 DEF Parent
    <3>2. nodes[Child(p)].cost <= nodes[i].cost /\ Child(p) \in 0..n
      BY <1>11, <3>1 DEF Child
    <3>3. sunk[i] = nodes[i]
      BY <1>2, <1>5, <2>1, <2>5
    <3>4. CASE p = b
      <4>1. nodes[n].cost <= nodes[Child(p)].cost
        BY <1>13, <2>1, <3>1, <3>4 DEF LeavesAt
      <4> QED
        BY <1>6, <1>11, <2>1, <3>2, <3>3, <3>4, <4>1
    <3>5. CASE p # b
      <4>1. /\ below(p) \in holes /\ below(p) > p /\ Parent(below(p)) = p
            /\ sunk[p] = nodes[below(p)]
        BY <1>4, <1>5, <2>1, <2>5, <3>5
      <4>2. below(p) = Child(p)
        BY <2>1, <1>1, <4>1 DEF GoesDown
      <4> QED
        BY <3>2, <3>3, <4>1, <4>2
    <3> QED
      BY <3>4, <3>5
  <2> QED
    BY <2>3, <2>4, <2>5
<1>16. Ordered(n + 1) => OrderedCosts(sunk, n)
  BY <1>15 DEF OrderedCosts
<1> QED
  BY <1>3, <1>6, <1>10, <1>12, <1>13, <1>14, <1>16 DEF sunk, IsSunk

\* A pop takes the first node out of the heap, and keeps all others.  It keeps
\* their order when an odd number is left, since the very last node is not moved
\* then, and as long as there are no more than six: with four left its move does
\* no harm yet.
LEMMA PopKeeps ==
  ASSUME NEW n \in Nat, IsHeap(n), PathHeapPop
  PROVE  /\ n # 0 /\ IsHeap(n - 1)'
         /\ popped' = nodes[0] /\ popped' \in Range(nodes)
         /\ Range(nodes) = Range(nodes') \cup {popped'}
         /\ Rearranged(nodes', 0..(n - 2), nodes, 1..(n - 1))
         /\ Ordered(n) /\ (n <= 6 \/ n % 2 = 0) => Ordered(n - 1)'
<1>1. len = n /\ n > 0 /\ popped' = nodes[0] /\ DOMAIN nodes = 0..(n - 1)
  BY LenOfHeap DEF PathHeapPop, IsHeap
<1> DEFINE m == n - 1
           last == nodes[m]
           way == Sinks(m, last)
           bottom == CHOOSE i \in way.holes : \A j \in way.holes : j <= i
           sunk == Sunk(m, way.holes, last)
           final == IF way.idx = m \div 2 /\ m % 2 = 0 /\ sunk[m - 1].cost < last.cost
                    THEN [sunk EXCEPT ![bottom] = sunk[m - 1], ![m - 1] = last]
                    ELSE sunk
<1>2. nodes' = IF m = 0 THEN Empty ELSE final
  BY <1>1 DEF PathHeapPop
<1>3. CASE m = 0
  <2>1. nodes' = Empty /\ DOMAIN nodes' = {} /\ DOMAIN nodes = {0}
    BY <1>1, <1>2, <1>3 DEF Empty
  <2>2. IsHeap(n - 1)'
    <3>1. 0..(m - 1) = {}
      BY <1>3
    <3> QED
      BY <2>1, <3>1 DEF IsHeap, Empty
  <2>3. Range(nodes') = {}
    BY <2>1 DEF Range
  <2>4. Range(nodes) = {nodes[0]}
    BY <2>1 DEF Range
  <2>5. Rearranged(nodes', 0..(n - 2), nodes, 1..(n - 1))
    <3>1. 0..(n - 2) = {} /\ 1..(n - 1) = {}
      BY <1>1, <1>3
    <3>2. [i \in {} |-> i] \in Bijection({}, {})
      BY Fun_IsBij
    <3> QED
      BY <3>1, <3>2 DEF Rearranged
  <2>6. Ordered(n - 1)'
    BY <1>1, <1>3 DEF Ordered
  <2> QED
    BY <1>1, <2>2, <2>3, <2>4, <2>5, <2>6
<1>4. CASE m # 0
  <2>0. m \in Nat \ {0} /\ m + 1 = n /\ m \in 0..(n - 1)
    BY <1>1, <1>4
  <2>1. m \in Nat \ {0} /\ IsHeap(m + 1) /\ last \in PathHeapNode /\ last.cost \in Nat
    <3>1. IsHeap(m + 1) /\ last \in PathHeapNode
      BY <2>0 DEF IsHeap
    <3> QED
      BY <2>0, <3>1, CostsAssumption DEF PathHeapNode
  <2>2. IsSink(way.holes, m, 0) /\ GoesDown(way.holes, way.idx, m, 0, last)
    BY <2>1, SinksIsWay
  <2> DEFINE holes == way.holes
  <2> HIDE DEF way
  <2>3. /\ sunk \in [0..(m - 1) -> PathHeapNode]
        /\ bottom \in 0..(m - 1) /\ sunk[bottom] = nodes[m]
        /\ Rearranged(sunk, 0..(m - 1), nodes, 1..m)
        /\ Ordered(m + 1) => OrderedCosts(sunk, m)
        /\ LeavesAt(bottom, way.idx, m, last)
        /\ \A i \in 0..(m - 1) : i > bottom => sunk[i] = nodes[i]
    <3> HIDE DEF m
    <3>1. /\ IsSink(way.holes, m, 0) /\ GoesDown(way.holes, way.idx, m, 0, nodes[m])
          /\ bottom = CHOOSE i \in way.holes : \A j \in way.holes : j <= i
          /\ sunk = Sunk(m, way.holes, nodes[m]) /\ last = nodes[m]
      BY <2>2
    <3> HIDE DEF bottom, sunk, last
    <3>2. IsSunk(Sunk(m, way.holes, nodes[m]), m, bottom, way.idx)
      BY <2>1, <3>1, SunkKeeps
    <3> QED
      BY <3>1, <3>2 DEF IsSunk
  <2> HIDE DEF sunk, bottom
  <2> DEFINE swaps == way.idx = m \div 2 /\ m % 2 = 0 /\ sunk[m - 1].cost < last.cost
             swapped == [sunk EXCEPT ![bottom] = sunk[m - 1], ![m - 1] = last]
  <2>4. /\ final \in [0..(m - 1) -> PathHeapNode]
        /\ Rearranged(final, 0..(m - 1), nodes, 1..m)
    <3>1. CASE final = sunk
      BY <2>3, <3>1
    <3>2. CASE final = swapped
      <4>1. m - 1 \in 0..(m - 1)
        BY <2>1
      <4>2. final \in [0..(m - 1) -> PathHeapNode]
        BY <2>1, <2>3, <3>2, <4>1
      <4>3. final[m - 1] = sunk[bottom] /\ (bottom # m - 1 => final[bottom] = sunk[m - 1])
            /\ \A i \in 0..(m - 1) : i # bottom /\ i # m - 1 => final[i] = sunk[i]
        BY <2>3, <3>2, <4>1
      <4> HIDE DEF final
      <4> DEFINE from(i) == IF i = m - 1 THEN bottom ELSE IF i = bottom THEN m - 1 ELSE i
                 g == [i \in 0..(m - 1) |-> from(i)]
      <4>4. ASSUME NEW i \in 0..(m - 1)
            PROVE  from(i) \in 0..(m - 1) /\ from(from(i)) = i /\ final[i] = sunk[from(i)]
        BY <2>3, <4>1, <4>3
      <4>5. g \in Surjection(0..(m - 1), 0..(m - 1))
        BY <4>4, Fun_IsSurj
      <4>6. \A i \in 0..(m - 1) : final[i] = sunk[g[i]]
        BY <4>4
      <4>7. IsFiniteSet(0..(m - 1))
        BY <2>1, FS_Interval
      <4> HIDE DEF g
      <4>8. Rearranged(final, 0..(m - 1), sunk, 0..(m - 1))
        BY <4>5, <4>6, <4>7, OntoIsRearranged
      <4> QED
        BY <2>3, <4>2, <4>8, RearrangedTwice
    <3> QED
      BY <3>1, <3>2
  <2>5. nodes' = final /\ m = n - 1 /\ DOMAIN nodes' = 0..(m - 1) /\ DOMAIN nodes = 0..m
    BY <1>1, <1>2, <1>4, <2>4
  <2>6. IsHeap(n - 1)'
    BY <2>4, <2>5 DEF IsHeap
  <2>7. ASSUME Ordered(n), n <= 6 \/ n % 2 = 0 PROVE OrderedCosts(final, m)
    <3>0. OrderedCosts(sunk, m) /\ (m <= 5 \/ m % 2 = 1)
      BY <2>0, <2>3, <2>7
    <3>1. CASE ~swaps
      BY <3>0, <3>1
    <3>2. CASE swaps
      <4>1. final = swapped /\ m - 1 \in 0..(m - 1)
        BY <2>1, <3>2
      <4>2. m = 2 \/ m = 4
        BY <2>1, <3>0, <3>2
      <4>3. bottom # m - 1
        BY <2>1, <2>3, <3>2
      \* The loop did not leave above the child in the middle.
      <4>4. CASE bottom < m \div 2
        <5>1. /\ Child(bottom) = m \div 2 /\ last.cost <= nodes[m \div 2].cost
              /\ sunk[m - 1] = nodes[m - 1]
          <6>1. bottom < m - 1
            BY <2>1, <2>3, <4>3
          <6> QED
            BY <2>1, <2>3, <3>2, <4>1, <4>4, <6>1 DEF LeavesAt
        <5>2. /\ \A i \in 0..m : nodes[i].cost \in Nat
              /\ \A i \in 1..m : nodes[Parent(i)].cost <= nodes[i].cost
          BY <2>0, <2>1, <2>7, CostsOfHeap DEF Ordered
        <5>3. CASE m = 2
          BY <2>1, <3>2, <5>1, <5>2, <5>3
        <5>4. CASE m = 4
          <6>1. bottom = 0 /\ 1 \in 0..m /\ 2 \in 0..m /\ 3 \in 1..m
            BY <2>3, <4>4, <5>1, <5>4 DEF Child
          <6>2. nodes[2].cost <= nodes[1].cost
            BY <5>1, <5>2, <5>4, <6>1 DEF Child
          <6>3. nodes[1].cost <= nodes[3].cost
            BY <5>2, <6>1 DEF Parent
          <6> QED
            BY <2>1, <3>2, <5>1, <5>2, <5>4, <6>1, <6>2, <6>3
        <5> QED
          BY <4>2, <5>3, <5>4
      <4>5. CASE bottom >= m \div 2
        <5>1. m = 4 /\ bottom = 2
          BY <2>1, <2>3, <3>2, <4>2, <4>3, <4>5 DEF LeavesAt
        <5>2. /\ final[0] = sunk[0] /\ final[1] = sunk[1] /\ final[2] = sunk[3]
              /\ final[3] = last
          BY <2>3, <4>1, <5>1
        <5>3. \A i \in 0..3 : sunk[i].cost \in Nat
          <6>1. 0..3 = 0..(m - 1)
            BY <5>1
          <6>2. \A i \in 0..3 : sunk[i] \in PathHeapNode
            BY <2>3, <6>1
          <6> QED
            BY <6>2, CostsAssumption DEF PathHeapNode
        <5>4. sunk[0].cost <= sunk[1].cost /\ sunk[1].cost <= sunk[3].cost
          BY <3>0, <5>1 DEF OrderedCosts, Parent
        <5>5. final[0].cost <= final[1].cost /\ final[0].cost <= final[2].cost
              /\ final[1].cost <= final[3].cost
          BY <2>1, <3>2, <5>1, <5>2, <5>3, <5>4
        <5>6. Parent(1) = 0 /\ Parent(2) = 0 /\ Parent(3) = 1
          BY DEF Parent
        <5>7. \A i \in 1..(m - 1) : i = 1 \/ i = 2 \/ i = 3
          BY <5>1
        <5> HIDE DEF final
        <5> QED
          BY <5>5, <5>6, <5>7 DEF OrderedCosts
      <4> QED
        BY <2>1, <2>3, <4>4, <4>5
    <3> QED
      BY <3>1, <3>2
  <2> HIDE DEF final, last
  <2>8. Ordered(n) /\ (n <= 6 \/ n % 2 = 0) => Ordered(n - 1)'
    BY <2>5, <2>7 DEF Ordered, OrderedCosts
  <2>9. Rearranged(nodes', 0..(n - 2), nodes, 1..(n - 1))
    <3>1. n - 2 = m - 1
      BY <2>5, <2>0
    <3> QED
      BY <2>4, <2>5, <3>1
  <2>10. \A v : v \in Range(nodes) <=> \E x \in 0..m : nodes[x] = v
    BY <2>5, InRange
  <2>11. \A v : v \in Range(nodes') <=> \E x \in 0..(m - 1) : nodes'[x] = v
    BY <2>5, InRange
  <2>12. ASSUME NEW v PROVE v \in Range(nodes') <=> \E j \in 1..m : nodes[j] = v
    <3> DEFINE S == 0..(m - 1)
               T == 1..m
    <3>1. Rearranged(final, S, nodes, T)
      BY <2>4
    <3>2. (\E i \in S : final[i] = v) <=> \E j \in T : nodes[j] = v
      <4> HIDE DEF S, T
      <4> QED
        BY <3>1, ValuesRearranged
    <3> QED
      BY <2>5, <2>11, <3>2
  <2>13. 0 \in 0..m /\ \A j \in 0..m : j = 0 \/ j \in 1..m
    BY <2>1
  <2>14. popped' \in Range(nodes) /\ Range(nodes) = Range(nodes') \cup {popped'}
    BY <1>1, <2>10, <2>12, <2>13
  <2> QED
    BY <1>1, <2>6, <2>8, <2>9, <2>14
<1> QED
  BY <1>3, <1>4

-----------------------------------------------------------------------------
(* The priority queue *)

BagOf(f) == [v \in Range(f) |-> Count(f, DOMAIN f, v)]

LEMMA BagOfHeap ==
  ASSUME NEW n \in Nat, NEW f, DOMAIN f = 0..(n - 1)
  PROVE  /\ BagOf(f) = [v \in Range(f) |-> Count(f, 0..(n - 1), v)]
         /\ \A v : Count(f, 0..(n - 1), v) \in Nat
         /\ \A v : v \in Range(f) <=> Count(f, 0..(n - 1), v) # 0
<1>1. ASSUME NEW v
      PROVE  /\ Count(f, 0..(n - 1), v) \in Nat
             /\ v \in Range(f) <=> Count(f, 0..(n - 1), v) # 0
  <2> DEFINE A == {i \in 0..(n - 1) : f[i] = v}
  <2>1. IsFiniteSet(A)
    <3>1. IsFiniteSet(0..(n - 1)) /\ A \in SUBSET (0..(n - 1))
      BY FS_Interval
    <3> QED
      BY <3>1, FS_Subset
  <2>2. v \in Range(f) <=> A # {}
    BY InRange
  <2> HIDE DEF A
  <2>3. Cardinality(A) \in Nat /\ (Cardinality(A) = 0 <=> A = {})
    BY <2>1, FS_CardinalityType, FS_EmptySet
  <2> QED
    BY <2>2, <2>3 DEF Count, A
<1> QED
  BY <1>1 DEF BagOf

LEMMA PushCounts ==
  ASSUME NEW n \in Nat, IsHeap(n), NEW elem, NEW v
  PROVE  Count(WithLast(n, elem), 0..n, v) =
           Count(nodes, 0..(n - 1), v) + (IF v = elem THEN 1 ELSE 0)
<1> DEFINE A == {i \in 0..(n - 1) : nodes[i] = v}
           B == {i \in 0..n : WithLast(n, elem)[i] = v}
<1>1. IsFiniteSet(A) /\ n \notin A
  <2>1. IsFiniteSet(0..(n - 1)) /\ A \in SUBSET (0..(n - 1))
    BY FS_Interval
  <2> QED
    BY <2>1, FS_Subset
<1>2. \A i \in 0..n : i \in B <=> (i # n /\ i \in A) \/ (i = n /\ v = elem)
  BY DEF WithLast
<1>3. B = IF v = elem THEN A \cup {n} ELSE A
  <2>1. n \in 0..n /\ A \subseteq 0..n /\ B \subseteq 0..n
    OBVIOUS
  <2> HIDE DEF A, B
  <2> QED
    BY <1>1, <1>2, <2>1
<1> HIDE DEF A, B
<1>4. Cardinality(A \cup {n}) = Cardinality(A) + 1 /\ Cardinality(A) \in Nat
  BY <1>1, FS_AddElement, FS_CardinalityType
<1>5. Cardinality(B) = Cardinality(A) + (IF v = elem THEN 1 ELSE 0)
  BY <1>3, <1>4
<1> QED
  BY <1>5 DEF A, B, Count

LEMMA PopCounts ==
  ASSUME NEW n \in Nat \ {0}, IsHeap(n), NEW v
  PROVE  Count(nodes, 0..(n - 1), v) =
           Count(nodes, 1..(n - 1), v) + (IF v = nodes[0] THEN 1 ELSE 0)
<1> DEFINE A == {i \in 1..(n - 1) : nodes[i] = v}
           B == {i \in 0..(n - 1) : nodes[i] = v}
<1>1. IsFiniteSet(A) /\ 0 \notin A
  <2>1. IsFiniteSet(1..(n - 1)) /\ A \in SUBSET (1..(n - 1))
    BY FS_Interval
  <2> QED
    BY <2>1, FS_Subset
<1>2. B = IF v = nodes[0] THEN A \cup {0} ELSE A
  <2>1. \A i \in 0..(n - 1) : i = 0 \/ i \in 1..(n - 1)
    OBVIOUS
  <2>2. 0 \in 0..(n - 1) /\ \A i \in 1..(n - 1) : i \in 0..(n - 1)
    OBVIOUS
  <2> QED
    BY <2>1, <2>2
<1> HIDE DEF A, B
<1>3. Cardinality(A \cup {0}) = Cardinality(A) + 1 /\ Cardinality(A) \in Nat
  BY <1>1, FS_AddElement, FS_CardinalityType
<1>4. Cardinality(B) = Cardinality(A) + (IF v = nodes[0] THEN 1 ELSE 0)
  BY <1>2, <1>3
<1> QED
  BY <1>4 DEF A, B, Count

\* A push adds its node to what waits.
LEMMA PushImplements ==
  ASSUME NEW n \in Nat, IsHeap(n), NEW elem \in PathHeapNode, PathHeapPush(elem)
  PROVE  Queue!Push
<1>1. /\ IsHeap(n + 1)' /\ Range(nodes') = Range(nodes) \cup {elem}
      /\ Rearranged(nodes', 0..n, WithLast(n, elem), 0..n)
  BY PushKeeps
<1>2. Waiting' = [v \in Range(nodes') |-> Count(nodes', 0..n, v)]
  <2>1. n + 1 \in Nat /\ (n + 1) - 1 = n
    OBVIOUS
  <2>2. DOMAIN nodes' = 0..n /\ Waiting' = BagOf(nodes')
    BY <1>1, <2>1 DEF IsHeap, Waiting, BagOf, Count
  <2> QED
    BY <2>1, <2>2 DEF BagOf
<1>3. ASSUME NEW v
      PROVE  Count(nodes', 0..n, v) = Count(nodes, 0..(n - 1), v) + (IF v = elem THEN 1 ELSE 0)
  <2>1. IsFiniteSet(0..n)
    BY FS_Interval
  <2>2. Count(nodes', 0..n, v) = Count(WithLast(n, elem), 0..n, v)
    BY <1>1, <2>1, CountRearranged
  <2> QED
    BY <2>2, PushCounts
<1> DEFINE one == Queue!SetToBag({elem})
<1>4. DOMAIN one = {elem} /\ one[elem] = 1
  BY DEF Queue!SetToBag
<1>5. /\ DOMAIN Waiting = Range(nodes)
      /\ \A v \in Range(nodes) : Waiting[v] = Count(nodes, 0..(n - 1), v)
      /\ \A v : /\ Count(nodes, 0..(n - 1), v) \in Nat
                /\ v \notin Range(nodes) => Count(nodes, 0..(n - 1), v) = 0
  <2>1. DOMAIN nodes = 0..(n - 1) /\ Waiting = BagOf(nodes)
    BY DEF IsHeap, Waiting, BagOf, Count
  <2> QED
    BY <2>1, BagOfHeap
<1>7. Queue!(+)(Waiting, one) =
        [v \in Range(nodes) \cup {elem} |->
           (IF v \in Range(nodes) THEN Waiting[v] ELSE 0) + (IF v \in {elem} THEN one[v] ELSE 0)]
  <2> HIDE DEF one
  <2> QED
    BY <1>4, <1>5 DEF Queue!(+)
<1> HIDE DEF one
<1>8. \A v \in Range(nodes) \cup {elem} :
        Count(nodes', 0..n, v) =
          (IF v \in Range(nodes) THEN Waiting[v] ELSE 0) + (IF v \in {elem} THEN one[v] ELSE 0)
  BY <1>3, <1>4, <1>5
<1>9. Waiting' = Queue!(+)(Waiting, one)
  BY <1>1, <1>2, <1>7, <1>8
<1>10. popped' = NULL
  BY DEF PathHeapPush
<1> QED
  BY <1>9, <1>10 DEF Queue!Push, one

\* A pop takes one of the nodes that cost least.
LEMMA PopImplements ==
  ASSUME NEW n \in Nat, IsHeap(n), Ordered(n), PathHeapPop
  PROVE  Queue!Pop
<1>1. /\ n # 0 /\ IsHeap(n - 1)'
      /\ popped' = nodes[0] /\ popped' \in Range(nodes)
      /\ Range(nodes) = Range(nodes') \cup {popped'}
      /\ Rearranged(nodes', 0..(n - 2), nodes, 1..(n - 1))
  BY PopKeeps
<1>2. n \in Nat \ {0} /\ n - 1 \in Nat /\ (n - 1) - 1 = n - 2
  BY <1>1
<1> DEFINE e == nodes[0]
<1>3. /\ DOMAIN Waiting = Range(nodes)
      /\ \A v \in Range(nodes) : Waiting[v] = Count(nodes, 0..(n - 1), v)
      /\ \A v : /\ Count(nodes, 0..(n - 1), v) \in Nat
                /\ v \in Range(nodes) <=> Count(nodes, 0..(n - 1), v) # 0
  <2>1. DOMAIN nodes = 0..(n - 1) /\ Waiting = BagOf(nodes)
    BY DEF IsHeap, Waiting, BagOf, Count
  <2> QED
    BY <2>1, BagOfHeap
<1>4. /\ DOMAIN Waiting' = Range(nodes')
      /\ Waiting' = [v \in Range(nodes') |-> Count(nodes', 0..(n - 2), v)]
      /\ \A v : /\ Count(nodes', 0..(n - 2), v) \in Nat
                /\ v \in Range(nodes') <=> Count(nodes', 0..(n - 2), v) # 0
  <2>1. DOMAIN nodes' = 0..((n - 1) - 1) /\ Waiting' = BagOf(nodes')
    BY <1>1 DEF IsHeap, Waiting, BagOf, Count
  <2>2. /\ BagOf(nodes') = [v \in Range(nodes') |-> Count(nodes', 0..((n - 1) - 1), v)]
        /\ \A v : Count(nodes', 0..((n - 1) - 1), v) \in Nat
        /\ \A v : v \in Range(nodes') <=> Count(nodes', 0..((n - 1) - 1), v) # 0
    BY <1>2, <2>1, BagOfHeap
  <2> QED
    BY <1>2, <2>1, <2>2
<1>5. ASSUME NEW v
      PROVE  Count(nodes, 0..(n - 1), v) = Count(nodes', 0..(n - 2), v) + (IF v = e THEN 1 ELSE 0)
  <2>1. IsFiniteSet(0..(n - 2))
    BY <1>2, FS_Interval
  <2>2. Count(nodes', 0..(n - 2), v) = Count(nodes, 1..(n - 1), v)
    BY <1>1, <2>1, CountRearranged
  <2> QED
    BY <1>2, <2>2, PopCounts
<1> HIDE DEF e
<1>6. e = popped' /\ e \in Range(nodes)
  BY <1>1 DEF e
<1> DEFINE one == Queue!SetToBag({e})
           less == [v \in DOMAIN Waiting |-> IF v \in DOMAIN one THEN Waiting[v] - one[v]
                                             ELSE Waiting[v]]
<1>7. DOMAIN one = {e} /\ one[e] = 1
  BY DEF Queue!SetToBag
<1>8. Queue!(-)(Waiting, one) = [v \in {d \in DOMAIN less : less[d] > 0} |-> less[v]]
  <2> HIDE DEF one
  <2> QED
    BY DEF Queue!(-)
<1> HIDE DEF one
<1>9. ASSUME NEW v \in Range(nodes) PROVE less[v] = Count(nodes', 0..(n - 2), v)
  BY <1>3, <1>4, <1>5, <1>7
<1>10. DOMAIN less = Range(nodes)
  BY <1>3
<1> HIDE DEF less
<1>11. {d \in DOMAIN less : less[d] > 0} = Range(nodes')
  <2>1. ASSUME NEW d \in Range(nodes) PROVE less[d] > 0 <=> d \in Range(nodes')
    BY <1>4, <1>9
  <2>2. Range(nodes') \subseteq Range(nodes)
    BY <1>1
  <2> QED
    BY <1>10, <2>1, <2>2
<1>12. Waiting' = Queue!(-)(Waiting, one)
  <2>1. \A v \in Range(nodes') : less[v] = Count(nodes', 0..(n - 2), v)
    BY <1>1, <1>9
  <2> QED
    BY <1>4, <1>8, <1>11, <2>1
<1>13. ASSUME NEW d \in Range(nodes) PROVE e.cost <= d.cost
  <2>1. DOMAIN nodes = 0..(n - 1)
    BY DEF IsHeap
  <2>2. PICK i \in 0..(n - 1) : nodes[i] = d
    BY <2>1, InRange
  <2> QED
    BY <2>2, RootIsLowest DEF e
<1> QED
  BY <1>3, <1>6, <1>12, <1>13 DEF Queue!Pop, Queue!BagToSet, one

-----------------------------------------------------------------------------
(* The theorems *)

Typed == (\E n \in Nat : IsHeap(n)) /\ popped \in PathHeapNode \cup {NULL}

\* What a step puts in or takes out is all that changes.
Keeps == \/ \E elem \in PathHeapNode : Range(nodes') = Range(nodes) \cup {elem}
         \/ Range(nodes) = Range(nodes') \cup {popped'}

LEMMA StepKeeps == Typed /\ Next => Typed' /\ Keeps
<1> SUFFICES ASSUME Typed, Next PROVE Typed' /\ Keeps
  OBVIOUS
<1>1. PICK n \in Nat : IsHeap(n)
  BY DEF Typed
<1>2. CASE PathHeapPop
  <2>1. /\ n # 0 /\ IsHeap(n - 1)' /\ popped' \in Range(nodes)
        /\ Range(nodes) = Range(nodes') \cup {popped'}
    BY <1>1, <1>2, PopKeeps
  <2>2. n - 1 \in Nat /\ popped' \in PathHeapNode
    BY <1>1, <2>1 DEF IsHeap, Range
  <2> QED
    BY <2>1, <2>2 DEF Typed, IsHeap, Keeps
<1>3. ASSUME NEW elem \in PathHeapNode, PathHeapPush(elem) PROVE Typed' /\ Keeps
  <2>1. IsHeap(n + 1)' /\ Range(nodes') = Range(nodes) \cup {elem}
    BY <1>1, <1>3, PushKeeps
  <2>2. n + 1 \in Nat /\ popped' = NULL
    BY <1>3 DEF PathHeapPush
  <2> QED
    BY <2>1, <2>2 DEF Typed, IsHeap, Keeps
<1> QED
  BY <1>2, <1>3 DEF Next

LEMMA StaysTyped == Spec => []Typed
<1>1. Init => Typed
  <2> SUFFICES ASSUME Init PROVE Typed
    OBVIOUS
  <2>1. 0..(0 - 1) = {}
    OBVIOUS
  <2>2. IsHeap(0)
    BY <2>1 DEF Init, Empty, IsHeap
  <2> QED
    BY <2>2 DEF Init, Typed
<1>2. Typed /\ UNCHANGED vars => Typed'
  BY DEF Typed, vars, IsHeap
<1> QED
  BY <1>1, <1>2, StepKeeps, PTL DEF Spec

\* The slots below the length hold nodes, with no hole left between them,
\* whatever way a push or a pop took.
THEOREM HeapTypeCorrect == Spec => []TypeOK
<1>1. Typed => TypeOK
  BY LenOfHeap DEF Typed, IsHeap, TypeOK
<1> QED
  BY <1>1, StaysTyped, PTL

\* GmPathHeap.c: no node is lost and none is made up by a push or a pop.
THEOREM NothingIsLost == Spec => [][Keeps]_vars
<1>1. Typed /\ [Next]_vars => [Keeps]_vars
  BY StepKeeps
<1> QED
  BY <1>1, StaysTyped, PTL DEF Spec

\* A heap in order, of no more nodes than Capacity.
InOrder == \E n \in 0..Capacity : IsHeap(n) /\ Ordered(n)

LEMMA EmptyInOrder ==
  ASSUME nodes = Empty
  PROVE  InOrder /\ Waiting = Queue!EmptyBag
<1>1. 0..(0 - 1) = {} /\ 1..(0 - 1) = {} /\ 0 \in 0..Capacity
  BY CapacityAssumption
<1>2. IsHeap(0) /\ Ordered(0)
  BY <1>1 DEF Empty, IsHeap, Ordered
<1>3. DOMAIN nodes = {} /\ Range(nodes) = {}
  BY DEF Empty, Range
<1>4. Waiting = Queue!EmptyBag
  BY <1>3 DEF Waiting, Queue!EmptyBag, Queue!SetToBag
<1> QED
  BY <1>1, <1>2, <1>4 DEF InOrder

LEMMA PushInOrder ==
  ASSUME InOrder, NEW elem \in PathHeapNode, PathHeapPush(elem)
  PROVE  InOrder' /\ Queue!Push
<1>1. PICK n \in 0..Capacity : IsHeap(n) /\ Ordered(n)
  BY DEF InOrder
<1>2. n \in Nat /\ n < Capacity
  <2>1. n \in Nat
    BY <1>1
  <2> QED
    BY <1>1, <2>1, LenOfHeap DEF PathHeapPush
<1>3. IsHeap(n + 1)' /\ Ordered(n + 1)' /\ n + 1 \in 0..Capacity
  BY <1>1, <1>2, PushKeeps, CapacityAssumption
<1>4. Queue!Push
  BY <1>1, <1>2, PushImplements
<1> QED
  BY <1>3, <1>4 DEF InOrder, IsHeap, Ordered

LEMMA PopInOrder ==
  ASSUME Capacity <= 6, InOrder, PathHeapPop
  PROVE  InOrder' /\ Queue!Pop
<1>1. PICK n \in 0..Capacity : IsHeap(n) /\ Ordered(n)
  BY DEF InOrder
<1>2. n \in Nat /\ n <= 6
  BY <1>1, CapacityAssumption
<1>3. n # 0 /\ IsHeap(n - 1)' /\ Ordered(n - 1)'
  BY <1>1, <1>2, PopKeeps
<1>4. n - 1 \in 0..Capacity
  BY <1>2, <1>3, CapacityAssumption
<1>5. Queue!Pop
  BY <1>1, <1>2, PopImplements
<1> QED
  BY <1>3, <1>4, <1>5 DEF InOrder, IsHeap, Ordered

LEMMA StepInOrder ==
  ASSUME Capacity <= 6, InOrder, [Next]_vars
  PROVE  InOrder' /\ [Queue!Next]_<<Waiting, popped>>
<1>1. CASE PathHeapPop
  BY <1>1, PopInOrder DEF Queue!Next
<1>2. ASSUME NEW elem \in PathHeapNode, PathHeapPush(elem)
      PROVE  InOrder' /\ [Queue!Next]_<<Waiting, popped>>
  BY <1>2, PushInOrder DEF Queue!Next
<1>3. CASE UNCHANGED vars
  BY <1>3 DEF vars, InOrder, IsHeap, Ordered, Waiting
<1> QED
  BY <1>1, <1>2, <1>3 DEF Next

\* GmPaths.c: a higher cost is not popped while a lower one waits, with up to six
\* nodes.  PathHeapSeven shows that this is the limit.
THEOREM LowestComesFirst ==
  ASSUME Capacity <= 6
  PROVE  Spec => []LowestFirst
<1>1. Init => InOrder
  BY EmptyInOrder DEF Init
<1>2. InOrder /\ [Next]_vars => InOrder'
  BY StepInOrder
<1>3. InOrder => LowestFirst
  <2> SUFFICES ASSUME InOrder, NEW i \in DOMAIN nodes PROVE nodes[0].cost <= nodes[i].cost
    BY DEF LowestFirst
  <2>1. PICK n \in 0..Capacity : IsHeap(n) /\ Ordered(n)
    BY DEF InOrder
  <2>2. n \in Nat /\ i \in 0..(n - 1)
    BY <2>1 DEF IsHeap
  <2> QED
    BY <2>1, <2>2, RootIsLowest
<1> QED
  BY <1>1, <1>2, <1>3, PTL DEF Spec

\* GmPathHeap.c: with up to six nodes the array is a priority queue.  What is
\* pushed comes back once, and what costs least comes first.
THEOREM ImplementsPriorityQueue ==
  ASSUME Capacity <= 6
  PROVE  Spec => IsPriorityQueue
<1>1. Init => InOrder /\ Queue!Init
  BY EmptyInOrder DEF Init, Queue!Init
<1>2. InOrder /\ [Next]_vars => InOrder' /\ [Queue!Next]_<<Waiting, popped>>
  BY StepInOrder
<1> QED
  BY <1>1, <1>2, PTL DEF Spec, IsPriorityQueue, Queue!Spec
=============================================================================
