------------------------------ MODULE GmIdTable ------------------------------
(***************************************************************************)
(* The id tables of a game server (players, agents, items and parties):    *)
(* elements that are not in use are linked into a list through a header in *)
(* the element itself.  The table of the code starts with 64 elements;     *)
(* element 0 is never given out.                                           *)
(***************************************************************************)
EXTENDS Integers, Sequences, FiniteSets

CONSTANTS Size,     \* elements of a fresh table
          MaxLive   \* bound: the callers hold at most this many ids

ASSUME SizeAssumption == Size \in Nat /\ Size >= 3
ASSUME MaxLiveAssumption == MaxLive \in Nat

Idx == 0..(Size - 1)
Ids == 1..(Size - 1)

VARIABLES free_next,   \* GmIdHeader.free_next of every element
          freed,       \* GmIdHeader.freed of every element
          free_head,   \* GmIdTableBase.free_head
          free_tail,   \* GmIdTableBase.free_tail
          new_id,      \* what GmIdAllocate returned, 0 after GmIdFree
          halted       \* an assert failed

table == <<free_next, freed, free_head, free_tail>>
vars  == <<table, new_id, halted>>

\* GmIdTableInit frees the ids of a zeroed table in order.  Each one points to
\* the next, but the last one points back.
Init ==
  /\ free_next = [i \in Idx |-> IF i = 0 THEN 0
                                ELSE IF i < Size - 1 THEN i + 1 ELSE i - 1]
  /\ freed = [i \in Idx |-> i # 0]
  /\ free_head = 1
  /\ free_tail = Size - 1
  /\ new_id = 0
  /\ halted = FALSE

Live == {id \in Ids : ~freed[id]}

\* The callers clear the element they were given, header included.  With an
\* empty list the table is made larger; the first of the new elements, which is
\* the one to give out, is not marked as freed then.
GmIdAllocate ==
  /\ ~halted
  /\ Cardinality(Live) < MaxLive
  /\ IF free_head # 0 /\ freed[free_head]
     THEN /\ new_id' = free_head
          /\ free_head' = free_next[free_head]
          /\ free_tail' = IF free_head' = 0 THEN 0 ELSE free_tail
          /\ freed' = [freed EXCEPT ![free_head] = FALSE]
          /\ free_next' = [free_next EXCEPT ![free_head] = 0]
          /\ UNCHANGED halted
     ELSE /\ halted' = TRUE
          /\ UNCHANGED <<table, new_id>>

\* Slips this code could have had are kept next to what they would change; the
\* properties are checked to notice them.  Here: the former last
\* element is not linked to the new one.
GmIdFree_Unlinked(id) ==
  /\ ~halted
  /\ ~freed[id]
  /\ freed' = [freed EXCEPT ![id] = TRUE]
  /\ IF free_tail = 0
     THEN /\ free_next' = [free_next EXCEPT ![id] = 0]
          /\ free_head' = id
     ELSE /\ free_next' = [free_next EXCEPT ![id] = free_tail]
          /\ UNCHANGED free_head
  /\ free_tail' = id
  /\ new_id' = 0
  /\ UNCHANGED halted

\* A slip: the id is put in front.
GmIdFree_InFront(id) ==
  /\ ~halted
  /\ ~freed[id]
  /\ freed' = [freed EXCEPT ![id] = TRUE]
  /\ free_next' = [free_next EXCEPT ![id] = free_head]
  /\ free_head' = id
  /\ new_id' = 0
  /\ UNCHANGED <<free_tail, halted>>

\* The back link of the new last element replaces that of the former one.
GmIdFree(id) ==
  /\ ~halted
  /\ ~freed[id]
  /\ freed' = [freed EXCEPT ![id] = TRUE]
  /\ IF free_tail = 0
     THEN /\ free_next' = [free_next EXCEPT ![id] = 0]
          /\ free_head' = id
     ELSE /\ free_next' = [free_next EXCEPT ![id] = free_tail, ![free_tail] = id]
          /\ UNCHANGED free_head
  /\ free_tail' = id
  /\ new_id' = 0
  /\ UNCHANGED halted

Next == GmIdAllocate \/ \E id \in Ids : GmIdFree(id)

Spec == Init /\ [][Next]_vars

-----------------------------------------------------------------------------
(* Properties *)

TypeOK ==
  /\ free_next \in [Idx -> Idx]
  /\ freed \in [Idx -> BOOLEAN]
  /\ free_head \in Idx
  /\ free_tail \in Idx
  /\ new_id \in Idx
  /\ halted \in BOOLEAN

\* GmIdAllocate: assert(header->freed).  The id that is given out is not in use.
GivesOutFreed == ~halted

\* The list never runs empty: the branch of GmIdAllocate that makes the table
\* larger is never taken, however many ids are in use.
NeverGrows == free_head # 0

\* The list as a sequence: what is reached from free_head up to free_tail.
FreeQueue ==
  LET link[n \in 1..Size] == IF n = 1 THEN free_head ELSE free_next[link[n - 1]]
      length == CHOOSE n \in 1..Size : /\ link[n] = free_tail
                                       /\ \A m \in 1..(n - 1) : link[m] # free_tail
  IN  [i \in 1..length |-> link[i]]

\* The table is a queue of ids, first freed, first given out.
Queue == INSTANCE IdQueue WITH queue <- FreeQueue

QueueSpec == Queue!Spec
=============================================================================
