------------------------------ MODULE IdQueue ------------------------------
(***************************************************************************)
(* What the game server expects of an id table (GmIdTable.h): an id that   *)
(* is given out is not in use, and of the ids that are not in use the one  *)
(* that was freed first is given out first, so that an id somebody still   *)
(* remembers comes back as late as possible.                               *)
(***************************************************************************)
EXTENDS Integers, Sequences, Functions

CONSTANT Size

Ids == 1..(Size - 1)

VARIABLES queue,   \* ids that are not in use, in the order they were freed
          new_id   \* the id that was just given out, or 0

Init == /\ queue = [i \in Ids |-> i]
        /\ new_id = 0

Allocate == /\ queue # <<>>
            /\ new_id' = Head(queue)
            /\ queue' = Tail(queue)

Free == /\ \E id \in Ids \ Range(queue) : queue' = Append(queue, id)
        /\ new_id' = 0

Next == Allocate \/ Free

Spec == Init /\ [][Next]_<<queue, new_id>>
=============================================================================
