------------------------------ MODULE PathHeap ------------------------------
(***************************************************************************)
(* The binary heap of the path finder (GmPathHeap.c): trapezoids to visit, *)
(* the one with the lowest estimated cost first.                           *)
(***************************************************************************)
EXTENDS Integers, FiniteSets, Functions

CONSTANTS Costs,      \* costs of the nodes that are pushed
          TrapIds,    \* trapezoids they name
          Capacity,   \* bound: nodes in the heap
          NULL

ASSUME CostsAssumption == IsFiniteSet(Costs) /\ Costs \subseteq Nat
ASSUME CapacityAssumption == Capacity \in Nat \ {0}

VARIABLES nodes,   \* the array; its domain is 0 .. len - 1
          popped   \* node that PathHeapPop returned, or NULL

vars == <<nodes, popped>>

PathHeapNode == [cost : Costs, trap_id : TrapIds]

len == Cardinality(DOMAIN nodes)

Empty == [i \in {} |-> NULL]

Init == nodes = Empty /\ popped = NULL

Parent(i) == (i - 1) \div 2

\* The slots the hole goes through on its way up from slot n, for a new cost.
Rises(n, cost) ==
  LET up[i \in 0..n] == IF i = 0 \/ nodes[Parent(i)].cost < cost THEN {i}
                        ELSE {i} \cup up[Parent(i)]
  IN  up[n]

\* Nodes above the new one move down to where the hole was.
PathHeapPush(elem) ==
  /\ len < Capacity
  /\ LET path == Rises(len, elem.cost)
         top == CHOOSE i \in path : \A j \in path : i <= j
     IN  nodes' = [i \in 0..len |-> IF i = top THEN elem
                                    ELSE IF i \in path THEN nodes[Parent(i)]
                                    ELSE nodes[i]]
  /\ popped' = NULL

\* The hole's way down from idx, with len the new length: the slots it went
\* through, and the idx the loop left with.  The slot at len still holds the
\* last node, so it stands for the child a last parent may not have.
Sinks(n, last) ==
  LET full == n \div 2
      child(i) == IF nodes[2 * i + 1].cost < nodes[2 * i + 2].cost THEN 2 * i + 1 ELSE 2 * i + 2
      down[i \in 0..n] ==
        IF i >= full THEN [holes |-> {i}, idx |-> i]
        ELSE IF last.cost <= nodes[child(i)].cost THEN [holes |-> {i}, idx |-> child(i)]
        ELSE LET below == down[child(i)]
             IN  [below EXCEPT !.holes = @ \cup {i}]
  IN  down[0]

\* Slips this code could have had are kept next to what they would change; the
\* properties are checked to notice them.  Here: the last node is
\* not put where the hole ends up.
Sunk_Loses(n, holes, last) ==
  LET below(i) == CHOOSE j \in holes : j > i /\ Parent(j) = i
  IN  [i \in 0..(n - 1) |-> IF i \in holes /\ \E j \in holes : j > i /\ Parent(j) = i
                            THEN nodes[below(i)]
                            ELSE nodes[i]]

\* Where the nodes of a heap of n nodes are after the hole went through the
\* slots of "holes" and the last node was put into the bottom one.
Sunk(n, holes, last) ==
  LET bottom == CHOOSE i \in holes : \A j \in holes : j <= i
      below(i) == CHOOSE j \in holes : j > i /\ Parent(j) = i
  IN  [i \in 0..(n - 1) |-> IF i = bottom THEN last
                            ELSE IF i \in holes THEN nodes[below(i)]
                            ELSE nodes[i]]

\* With an even length, a way that left at the slot in the middle is followed
\* by a move of the very last node into the hole, wherever the hole is.
PathHeapPop ==
  /\ len > 0
  /\ popped' = nodes[0]
  /\ LET n == len - 1
         last == nodes[n]
         way == Sinks(n, last)
         bottom == CHOOSE i \in way.holes : \A j \in way.holes : j <= i
         sunk == Sunk(n, way.holes, last)
     IN  nodes' = IF n = 0 THEN Empty
                  ELSE IF way.idx = n \div 2 /\ n % 2 = 0 /\ sunk[n - 1].cost < last.cost
                  THEN [sunk EXCEPT ![bottom] = sunk[n - 1], ![n - 1] = last]
                  ELSE sunk

Next == PathHeapPop \/ \E elem \in PathHeapNode : PathHeapPush(elem)

Spec == Init /\ [][Next]_vars

-----------------------------------------------------------------------------
(* Properties *)

TypeOK ==
  /\ nodes \in [0..(len - 1) -> PathHeapNode]
  /\ popped \in PathHeapNode \cup {NULL}

\* GmPaths.c: a higher cost is not popped while a lower one waits.
LowestFirst == \A i \in DOMAIN nodes : nodes[0].cost <= nodes[i].cost

\* The heap is a priority queue: every node comes back once, lowest first.
Waiting == [e \in Range(nodes) |-> Cardinality({i \in DOMAIN nodes : nodes[i] = e})]

Queue == INSTANCE PriorityQueue WITH waiting <- Waiting, Elems <- PathHeapNode

IsPriorityQueue == Queue!Spec
=============================================================================
