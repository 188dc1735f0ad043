------------------------------ MODULE GmPaths ------------------------------
(***************************************************************************)
(* The search of the path finder (GmPaths.c, PathFinding) over the         *)
(* trapezoids of a map, with its heap (PathHeap), up to the list of        *)
(* trapezoids that the waypoints are made from.                            *)
(*                                                                         *)
(* Geometry is left out.  Which trapezoids can be entered from which, and  *)
(* in which order they are visited, is a constant; how far it is to where  *)
(* the next one is entered, and how far it may be from there, are any of a *)
(* few numbers.  One node is popped or one neighbour visited in a step.    *)
(***************************************************************************)
EXTENDS PathHeap, SequencesExt

CONSTANTS
  Neighbors,  \* trapezoids above, below and behind the portals, in order
  Lengths,    \* ways from where a trapezoid is entered into the next
  Estimates,  \* ways that may be left from there
  MaxCost,    \* MAX_COST
  Infinity    \* INFINITY

ASSUME PathsAssumption ==
  /\ IsFiniteSet(TrapIds)
  /\ NULL \notin TrapIds
  /\ Neighbors \in [TrapIds -> Seq(TrapIds)]
  /\ Lengths \subseteq Nat
  /\ Estimates \subseteq Nat
  /\ MaxCost \in Nat \ {0}
  /\ Infinity \in Costs
  /\ \A cost \in 0..(MaxCost - 1), estimate \in Estimates : cost + estimate \in Costs

VARIABLES
  search,   \* what PathFinding is about to do: "none", "start" or "loop"
  src, dst, \* trapezoids of the two positions
  node,     \* context->nodes, NULL: not found yet
  curr,     \* trapezoid of the node that was popped
  todo,     \* its neighbours that are still to be visited
  path,     \* trapezoids that PathCreateWaypoints goes through
  found,    \* what PathFinding returned
  skipped   \* history: a neighbour was left out because of its cost

searchVars == <<search, src, dst, node, curr, todo, path, found, skipped>>
pathsVars == <<nodes, popped, searchVars>>

PathFindNode == [closed       : BOOLEAN,
                 cost_to_node : 0..(MaxCost - 1),
                 next         : TrapIds \cup {NULL}]

ASSUME NodeAssumption == NULL \notin PathFindNode

IsKnown(t)  == node[t] # NULL
IsClosed(t) == IsKnown(t) /\ node[t].closed

PathsInit == /\ Init
             /\ search = "none"
             /\ src \in TrapIds /\ dst = src /\ curr = src
             /\ node = [t \in TrapIds |-> NULL]
             /\ todo = <<>>
             /\ path = <<>>
             /\ found = FALSE
             /\ skipped = FALSE

\* Slips this code could have had are kept next to what they would change; the
\* properties are checked to notice them.  Here: the queue of the search before is gone on with.
PathFinding_Stale(from, to) ==
  /\ search = "none"
  /\ src' = from /\ dst' = to
  /\ path' = IF from = to THEN <<to>> ELSE <<>>
  /\ found' = (from = to)
  /\ skipped' = FALSE
  /\ search' = IF from = to THEN "none" ELSE "start"
  /\ node' = IF from = to THEN node ELSE [t \in TrapIds |-> NULL]
  /\ UNCHANGED <<nodes, popped, curr, todo>>

\* PathFinding up to its loop.  A position outside the map changes nothing.
PathFinding(from, to) ==
  /\ search = "none"
  /\ src' = from /\ dst' = to
  /\ path' = IF from = to THEN <<to>> ELSE <<>>
  /\ found' = (from = to)
  /\ skipped' = FALSE
  /\ IF from = to THEN UNCHANGED <<search, node, nodes, popped>>
     ELSE /\ search' = "start"
          /\ node' = [t \in TrapIds |-> NULL]
          /\ nodes' = Empty
          /\ popped' = NULL
  /\ UNCHANGED <<curr, todo>>

\* Whatever was known of the node is overwritten, even if it was cheaper.
PathAddNode(parent, t, cost, estimated_cost) ==
  /\ node' = [node EXCEPT ![t] = [closed |-> FALSE, cost_to_node |-> cost, next |-> parent]]
  /\ PathHeapPush([cost |-> estimated_cost, trap_id |-> t])

AddSource ==
  /\ search = "start"
  /\ PathAddNode(NULL, src, 0, Infinity)
  /\ search' = "loop"
  /\ UNCHANGED <<src, dst, curr, todo, path, found, skipped>>

\* PathReversePathFindNode: the nodes from t along "next", last first.  A list
\* that runs in a circle is cut when it is longer than there are trapezoids.
ListTo(t) ==
  LET walk[n \in 0..Cardinality(TrapIds)] ==
        IF n = 0 THEN <<t>>
        ELSE LET list == walk[n - 1]
             IN  IF node[Head(list)].next = NULL THEN list
                 ELSE <<node[Head(list)].next>> \o list
  IN  walk[Cardinality(TrapIds)]

\* A slip: the node is not marked.
Pop_Open ==
  /\ search = "loop" /\ todo = <<>>
  /\ PathHeapPop
  /\ LET t == popped'.trap_id
     IN  /\ curr' = t
         /\ IF t = dst
            THEN search' = "none" /\ found' = TRUE /\ path' = ListTo(t) /\ UNCHANGED todo
            ELSE todo' = Neighbors[t] /\ UNCHANGED <<search, found, path>>
  /\ UNCHANGED <<src, dst, node, skipped>>

\* The node that is popped may have been popped before: it was pushed again
\* while it waited.  Its neighbours are then visited again.
Pop ==
  /\ search = "loop" /\ todo = <<>>
  /\ PathHeapPop
  /\ LET t == popped'.trap_id
     IN  /\ node' = [node EXCEPT ![t].closed = TRUE]
         /\ curr' = t
         /\ IF t = dst
            THEN search' = "none" /\ found' = TRUE /\ path' = ListTo(t) /\ UNCHANGED todo
            ELSE todo' = Neighbors[t] /\ UNCHANGED <<search, found, path>>
  /\ UNCHANGED <<src, dst, skipped>>

\* A slip: a node is visited again after it was popped.
PathVisit_Closed(length, estimate) ==
  /\ todo # <<>>
  /\ LET t    == Head(todo)
         cost == node[curr].cost_to_node + length
     IN  /\ cost < MaxCost
         /\ PathAddNode(curr, t, cost, cost + estimate)
  /\ todo' = Tail(todo)
  /\ UNCHANGED <<search, src, dst, curr, path, found, skipped>>

\* A slip: MAX_COST is not looked at.
PathVisit_Unlimited(length, estimate) ==
  /\ todo # <<>>
  /\ LET t    == Head(todo)
         cost == node[curr].cost_to_node + length
     IN  IF IsClosed(t) THEN UNCHANGED <<node, nodes, popped>>
         ELSE PathAddNode(curr, t, cost, cost + estimate)
  /\ todo' = Tail(todo)
  /\ UNCHANGED <<search, src, dst, curr, path, found, skipped>>

\* A slip: the loop is left at a trapezoid that was popped before.
PathVisit_Leaves(length, estimate) ==
  /\ todo # <<>>
  /\ LET t    == Head(todo)
         cost == node[curr].cost_to_node + length
     IN  IF IsClosed(t) THEN todo' = <<>> /\ UNCHANGED <<node, nodes, popped, skipped>>
         ELSE /\ todo' = Tail(todo)
              /\ IF MaxCost <= cost
                 THEN skipped' = TRUE /\ UNCHANGED <<node, nodes, popped>>
                 ELSE PathAddNode(curr, t, cost, cost + estimate) /\ UNCHANGED skipped
  /\ UNCHANGED <<search, src, dst, curr, path, found>>

\* A slip: the loop does not get past a trapezoid that was popped before.
PathVisit_Stays(length, estimate) ==
  /\ todo # <<>>
  /\ LET t    == Head(todo)
         cost == node[curr].cost_to_node + length
     IN  IF IsClosed(t) THEN UNCHANGED <<node, nodes, popped, skipped, todo>>
         ELSE /\ todo' = Tail(todo)
              /\ IF MaxCost <= cost
                 THEN skipped' = TRUE /\ UNCHANGED <<node, nodes, popped>>
                 ELSE PathAddNode(curr, t, cost, cost + estimate) /\ UNCHANGED skipped
  /\ UNCHANGED <<search, src, dst, curr, path, found>>

\* PathVisitAbove, PathVisitBellow and the loops of PathVisitPortalLeft and
\* PathVisitPortalRight, with PathVisitTrap.
PathVisit(length, estimate) ==
  /\ todo # <<>>
  /\ LET t    == Head(todo)
         cost == node[curr].cost_to_node + length
     IN  IF IsClosed(t) THEN UNCHANGED <<node, nodes, popped, skipped>>
         ELSE IF MaxCost <= cost
         THEN skipped' = TRUE /\ UNCHANGED <<node, nodes, popped>>
         ELSE PathAddNode(curr, t, cost, cost + estimate) /\ UNCHANGED skipped
  /\ todo' = Tail(todo)
  /\ UNCHANGED <<search, src, dst, curr, path, found>>

\* The queue is empty.  If the position is also in a trapezoid that was
\* reached, waypoints that lead there are left behind.
GiveUp ==
  /\ search = "loop" /\ todo = <<>> /\ len = 0
  /\ search' = "none"
  /\ path' \in {<<>>} \cup {ListTo(t) : t \in {u \in TrapIds : IsClosed(u)}}
  /\ UNCHANGED <<nodes, popped, src, dst, node, curr, todo, found, skipped>>

Step == \/ AddSource \/ Pop \/ GiveUp
        \/ \E length \in Lengths, estimate \in Estimates : PathVisit(length, estimate)

PathsNext == Step \/ \E from, to \in TrapIds : PathFinding(from, to)

\* PathFinding is a loop: it goes on once it was called.
PathsSpec == PathsInit /\ [][PathsNext]_pathsVars /\ WF_pathsVars(Step)

-----------------------------------------------------------------------------
(* Properties *)

PathsTypeOK ==
  /\ TypeOK
  /\ search \in {"none", "start", "loop"}
  /\ {src, dst, curr} \subseteq TrapIds
  /\ node \in [TrapIds -> PathFindNode \cup {NULL}]
  /\ todo \in Seq(TrapIds)
  /\ found \in BOOLEAN
  /\ skipped \in BOOLEAN
  /\ todo # <<>> => search = "loop" /\ IsKnown(curr)

\* Every trapezoid that was found is entered from one that was popped, and can
\* be entered from there, at no less than the cost of getting there; only the
\* source is not.  It stays so when a node is overwritten or popped again.
ParentsAreClosed ==
  search = "loop" =>
    \A t \in TrapIds : IsKnown(t) =>
      IF t = src THEN node[t].next = NULL /\ node[t].cost_to_node = 0
      ELSE LET parent == node[t].next
           IN  /\ parent # NULL /\ IsClosed(parent)
               /\ t \in Range(Neighbors[parent])
               /\ node[parent].cost_to_node <= node[t].cost_to_node

\* What was found and not popped waits in the queue.
OpenIsQueued ==
  search = "loop" =>
    \A t \in TrapIds : IsKnown(t) /\ ~IsClosed(t) => \E i \in DOMAIN nodes : nodes[i].trap_id = t

\* What waits in the queue was found in this search: nothing is left there of
\* the one before, which ended with nodes in the queue.
QueuedIsKnown ==
  search = "loop" => \A i \in DOMAIN nodes : IsKnown(nodes[i].trap_id)

QueueInStep == OpenIsQueued /\ QueuedIsKnown

\* The waypoints are made from a way from the source to the destination, or to
\* a trapezoid that was reached if there is none: each trapezoid can be entered
\* from the one before it and none comes twice.
PathIsWay ==
  path # <<>> =>
    /\ Head(path) = src
    /\ found => Last(path) = dst
    /\ IsInjective(path)
    /\ \A i \in 1..(Len(path) - 1) : path[i + 1] \in Range(Neighbors[path[i]])

\* A search that fails has seen everything that can be reached: no neighbour of
\* a trapezoid it popped is left, except for MAX_COST.
GivesUpAtTheEnd ==
  search = "none" /\ ~found /\ ~skipped =>
    \A t \in TrapIds : IsClosed(t) => \A u \in Range(Neighbors[t]) : IsClosed(u)

\* Every search comes to an end, although nodes are pushed and popped many
\* times over.
SearchEnds == search # "none" ~> search = "none"
=============================================================================
