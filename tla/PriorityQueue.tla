---------------------------- MODULE PriorityQueue ----------------------------
(***************************************************************************)
(* What the path finder expects of its queue of nodes to visit             *)
(* (GmPaths.c, PathAddNode): every node that is added is handed back once, *)
(* and always one with the lowest cost of those that wait.  A new search   *)
(* begins with an empty queue.                                             *)
(***************************************************************************)
EXTENDS Integers, Bags

CONSTANTS Elems, NULL

VARIABLES waiting,   \* bag of the nodes in the queue
          popped     \* the node that was handed back last, or NULL

Init == waiting = EmptyBag /\ popped = NULL

Push == /\ \E e \in Elems : waiting' = waiting (+) SetToBag({e})
        /\ popped' = NULL

Pop == \E e \in BagToSet(waiting) :
  /\ \A d \in BagToSet(waiting) : e.cost <= d.cost
  /\ waiting' = waiting (-) SetToBag({e})
  /\ popped' = e

Clear == waiting' = EmptyBag /\ popped' = NULL

Next == Push \/ Pop \/ Clear

Spec == Init /\ [][Next]_<<waiting, popped>>
=============================================================================
