--------------------------- MODULE GmIdTable_proofs ---------------------------
(***************************************************************************)
(* What holds of an id table of any size.  The free list is described by a *)
(* sequence of ids that its links follow; GmIdAllocate takes its head and  *)
(* GmIdFree appends to it, as long as it never becomes empty.              *)
(***************************************************************************)
EXTENDS GmIdTable, FiniteSetTheorems, SequenceLemmas

\* The list never becomes empty because the last element points back.
LinksInv ==
  /\ TypeOK
  /\ free_head # 0
  /\ free_tail # 0
  /\ ~freed[0]
  /\ \A id \in Ids : freed[id] => free_next[id] # 0

LEMMA IdsAreIndices ==
  Ids \subseteq Idx /\ 0 \in Idx /\ \A id \in Ids : id \in Nat /\ id # 0
  BY SizeAssumption DEF Ids, Idx

LEMMA LinksInit == Init => LinksInv
<1> SUFFICES ASSUME Init PROVE LinksInv
  OBVIOUS
<1>1. ASSUME NEW i \in Idx
      PROVE  free_next[i] \in Idx /\ (i # 0 => free_next[i] # 0) /\ freed[i] = (i # 0)
  BY <1>1, SizeAssumption DEF Init, Idx
<1>2. free_next \in [Idx -> Idx] /\ freed \in [Idx -> BOOLEAN]
  BY <1>1 DEF Init
<1>3. 1 \in Idx /\ Size - 1 \in Idx /\ 0 \in Idx /\ Ids = Idx \ {0} /\ Size - 1 # 0
  BY SizeAssumption DEF Idx, Ids
<1>4. free_head = 1 /\ free_tail = Size - 1 /\ new_id = 0 /\ halted \in BOOLEAN
  BY DEF Init
<1>5. TypeOK
  BY <1>2, <1>3, <1>4 DEF TypeOK
<1>6. free_head # 0 /\ free_tail # 0
  BY <1>3, <1>4
<1>7. ~freed[0] /\ \A id \in Ids : freed[id] => free_next[id] # 0
  BY <1>1, <1>3
<1> QED
  BY <1>5, <1>6, <1>7 DEF LinksInv

LEMMA LinksStep == LinksInv /\ [Next]_vars => LinksInv'
<1> SUFFICES ASSUME LinksInv, [Next]_vars PROVE LinksInv'
  OBVIOUS
<1>1. Ids \subseteq Idx /\ 0 \in Idx /\ \A i \in Idx : i # 0 => i \in Ids
  BY SizeAssumption DEF Idx, Ids
<1>2. CASE GmIdAllocate /\ free_head # 0 /\ freed[free_head]
  BY <1>1, <1>2 DEF GmIdAllocate, LinksInv, TypeOK
<1>3. CASE UNCHANGED <<table, new_id>> /\ halted' \in BOOLEAN
  BY <1>3 DEF LinksInv, TypeOK, table
<1>4. ASSUME NEW id \in Ids, GmIdFree(id) PROVE LinksInv'
  BY <1>1, <1>4 DEF GmIdFree, LinksInv, TypeOK, Ids
<1>5. CASE GmIdAllocate /\ ~(free_head # 0 /\ freed[free_head])
  BY <1>3, <1>5 DEF GmIdAllocate
<1>6. CASE UNCHANGED vars
  BY <1>3, <1>6 DEF vars, LinksInv, TypeOK
<1> QED
  BY <1>2, <1>4, <1>5, <1>6 DEF Next

\* Every variable keeps its type: the links never leave the table.
THEOREM TypeCorrect == Spec => []TypeOK
<1>1. LinksInv => TypeOK
  BY DEF LinksInv
<1> QED
  BY <1>1, LinksInit, LinksStep, PTL DEF Spec

\* GmIdAllocate never takes the branch that makes the table larger, not even
\* when every id is in use.
THEOREM TableNeverGrows == Spec => []NeverGrows
<1>1. LinksInv => NeverGrows
  BY DEF LinksInv, NeverGrows
<1> QED
  BY <1>1, LinksInit, LinksStep, PTL DEF Spec

-----------------------------------------------------------------------------
(* The list as a sequence *)

IsQueue(q) ==
  /\ q \in Seq(Ids)
  /\ q # <<>>
  /\ \A i, j \in 1..Len(q) : q[i] = q[j] => i = j
  /\ \A id \in Ids : freed[id] <=> \E i \in 1..Len(q) : q[i] = id
  /\ free_head = q[1]
  /\ free_tail = q[Len(q)]
  /\ \A i \in 1..(Len(q) - 1) : free_next[q[i]] = q[i + 1]

QueueInv == LinksInv /\ ~halted /\ \E q \in Seq(Ids) : IsQueue(q)

AllIds == [i \in Ids |-> i]

LEMMA QueueOfAll == Init => IsQueue(AllIds)
<1> SUFFICES ASSUME Init PROVE IsQueue(AllIds)
  OBVIOUS
<1> DEFINE q == AllIds
<1>1. q \in Seq(Ids) /\ Len(q) = Size - 1 /\ \A i \in 1..(Size - 1) : q[i] = i
  BY SizeAssumption DEF AllIds, Ids
<1> HIDE DEF q
<1>2. q # <<>>
  BY <1>1, SizeAssumption
<1>3. \A id \in Ids : freed[id] <=> \E i \in 1..Len(q) : q[i] = id
  <2>1. \A id \in Ids : freed[id]
    BY IdsAreIndices DEF Init
  <2>2. \A id \in Ids : id \in 1..Len(q) /\ q[id] = id
    BY <1>1 DEF Ids
  <2> QED
    BY <2>1, <2>2
<1>4. free_head = q[1] /\ free_tail = q[Len(q)]
  BY <1>1, SizeAssumption DEF Init
<1>5. ASSUME NEW i \in 1..(Len(q) - 1) PROVE free_next[q[i]] = q[i + 1]
  <2>1. q[i] = i /\ q[i + 1] = i + 1 /\ i \in Idx /\ i # 0 /\ i < Size - 1
    BY <1>1, SizeAssumption DEF Idx
  <2> QED
    BY <2>1 DEF Init
<1>6. \A i, j \in 1..Len(q) : q[i] = q[j] => i = j
  BY <1>1
<1>7. IsQueue(q)
  BY <1>1, <1>2, <1>3, <1>4, <1>5, <1>6 DEF IsQueue
<1> QED
  BY <1>7 DEF q

LEMMA QueueInit == Init => \E q \in Seq(Ids) : IsQueue(q)
  BY QueueOfAll DEF IsQueue

\* With a single free id, every other id is in use.
LEMMA RoomForOneMore ==
  ASSUME MaxLive <= Size - 2, LinksInv, NEW q \in Seq(Ids), IsQueue(q),
         Cardinality(Live) < MaxLive
  PROVE  Len(q) >= 2
<1>0. Len(q) \in Nat \ {0}
  BY EmptySeq DEF IsQueue
<1>a. ASSUME NEW n \in Nat \ {0} PROVE n = 1 \/ n >= 2
  OBVIOUS
<1> SUFFICES ASSUME Len(q) = 1 PROVE FALSE
  BY <1>0, <1>a
<1>1. q[1] \in Ids
  BY <1>0
<1>b. \A id \in Ids : freed[id] <=> id = q[1]
  BY DEF IsQueue
<1>c. Live = Ids \ {q[1]}
  BY <1>b DEF Live
<1>2. IsFiniteSet(Ids) /\ Cardinality(Ids) = Size - 1
  BY FS_Interval, SizeAssumption DEF Ids
<1>3. Cardinality(Live) = Cardinality(Ids) - 1
  BY <1>1, <1>c, <1>2, FS_RemoveElement
<1> QED
  BY <1>2, <1>3, SizeAssumption, MaxLiveAssumption

\* GmIdAllocate gives out the head of the queue.
LEMMA AllocateTakesHead ==
  ASSUME MaxLive <= Size - 2, LinksInv, NEW q \in Seq(Ids), IsQueue(q), GmIdAllocate
  PROVE  /\ new_id' = Head(q) /\ ~halted'
         /\ Tail(q) \in Seq(Ids) /\ IsQueue(Tail(q))'
<1>0. Cardinality(Live) < MaxLive
  BY DEF GmIdAllocate
<1>1. Len(q) >= 2 /\ Len(q) \in Nat
  BY <1>0, RoomForOneMore
<1>2. free_head = q[1] /\ q[1] \in Ids /\ freed[q[1]] /\ q[1] # 0
  <2>1. q[1] \in Ids /\ 1 \in 1..Len(q)
    BY <1>1
  <2> QED
    BY <2>1, IdsAreIndices DEF IsQueue
<1>3. free_next[q[1]] = q[2] /\ q[2] \in Ids /\ q[2] # 0
  <2>1. q[2] \in Ids /\ 1 \in 1..(Len(q) - 1)
    BY <1>1
  <2> QED
    BY <2>1, IdsAreIndices DEF IsQueue
<1>4. /\ new_id' = q[1] /\ ~halted'
      /\ free_head' = q[2] /\ free_tail' = free_tail
      /\ freed' = [freed EXCEPT ![q[1]] = FALSE]
      /\ free_next' = [free_next EXCEPT ![q[1]] = 0]
  BY <1>2, <1>3 DEF GmIdAllocate
<1> DEFINE r == Tail(q)
<1>5. /\ r \in Seq(Ids) /\ Len(r) = Len(q) - 1 /\ r # <<>>
      /\ \A i \in 1..Len(r) : r[i] = q[i + 1]
  <2>1. q # <<>>
    BY DEF IsQueue
  <2>2. /\ r \in Seq(Ids) /\ Len(r) = Len(q) - 1
        /\ \A i \in 1..Len(r) : r[i] = q[i + 1]
    BY <2>1, HeadTailProperties
  <2> HIDE DEF r
  <2>3. Len(r) # 0
    BY <1>1, <2>2
  <2> QED
    BY <2>2, <2>3, EmptySeq
<1> HIDE DEF r
<1>6. freed \in [Idx -> BOOLEAN] /\ free_next \in [Idx -> Idx] /\ Ids \subseteq Idx
  BY DEF LinksInv, TypeOK, Ids, Idx
<1>7. \A i, j \in 1..Len(r) : r[i] = r[j] => i = j
  BY <1>1, <1>5 DEF IsQueue
<1>8. ASSUME NEW id \in Ids PROVE freed'[id] <=> \E i \in 1..Len(r) : r[i] = id
  <2>1. CASE id = q[1]
    <3>1. ~freed'[id]
      BY <1>4, <1>6, <2>1
    <3>2. \A i \in 1..Len(r) : r[i] # q[1]
      BY <1>1, <1>5 DEF IsQueue
    <3> QED
      BY <2>1, <3>1, <3>2
  <2>2. CASE id # q[1]
    <3>1. freed'[id] = freed[id]
      BY <1>4, <1>6, <2>2
    <3>2. (\E i \in 1..Len(q) : q[i] = id) <=> \E i \in 1..Len(r) : r[i] = id
      <4>1. ASSUME NEW i \in 1..Len(q), q[i] = id PROVE \E j \in 1..Len(r) : r[j] = id
        <5>1. i - 1 \in 1..Len(r) /\ r[i - 1] = id
          BY <1>1, <1>5, <2>2, <4>1
        <5> QED
          BY <5>1
      <4>2. ASSUME NEW i \in 1..Len(r), r[i] = id PROVE \E j \in 1..Len(q) : q[j] = id
        <5>1. i + 1 \in 1..Len(q) /\ q[i + 1] = id
          BY <1>1, <1>5, <4>2
        <5> QED
          BY <5>1
      <4> QED
        BY <4>1, <4>2
    <3> QED
      BY <3>1, <3>2 DEF IsQueue
  <2> QED
    BY <2>1, <2>2
<1>9. free_head' = r[1] /\ free_tail' = r[Len(r)]
  BY <1>1, <1>4, <1>5 DEF IsQueue
<1>10. ASSUME NEW i \in 1..(Len(r) - 1) PROVE free_next'[r[i]] = r[i + 1]
  <2>1. r[i] = q[i + 1] /\ r[i + 1] = q[i + 2] /\ q[i + 1] \in Ids
    BY <1>1, <1>5, <1>10
  <2>2. q[i + 1] # q[1]
    BY <1>1, <1>5, <1>10 DEF IsQueue
  <2>3. free_next[q[i + 1]] = q[i + 2]
    BY <1>1, <1>5, <1>10 DEF IsQueue
  <2> QED
    BY <1>4, <1>6, <2>1, <2>2, <2>3
<1>11. IsQueue(r)'
  BY <1>5, <1>7, <1>8, <1>9, <1>10 DEF IsQueue
<1> QED
  BY <1>4, <1>5, <1>11 DEF r

\* GmIdFree appends to the queue.
LEMMA FreeAppends ==
  ASSUME LinksInv, NEW q \in Seq(Ids), IsQueue(q), NEW id \in Ids, GmIdFree(id)
  PROVE  Append(q, id) \in Seq(Ids) /\ IsQueue(Append(q, id))'
<1>1. Len(q) >= 1 /\ Len(q) \in Nat
  BY DEF IsQueue
<1>2. free_tail = q[Len(q)] /\ q[Len(q)] \in Ids /\ q[Len(q)] # 0
  <2>1. q[Len(q)] \in Ids
    BY <1>1
  <2> QED
    BY <2>1, IdsAreIndices DEF IsQueue
<1>3. \A i \in 1..Len(q) : q[i] # id
  BY DEF IsQueue, GmIdFree
<1>4. /\ freed' = [freed EXCEPT ![id] = TRUE]
      /\ free_next' = [free_next EXCEPT ![id] = free_tail, ![free_tail] = id]
      /\ free_head' = free_head /\ free_tail' = id
  BY <1>2 DEF GmIdFree
<1> DEFINE r == Append(q, id)
<1>5. /\ r \in Seq(Ids) /\ Len(r) = Len(q) + 1 /\ r # <<>>
      /\ r[Len(q) + 1] = id
      /\ \A i \in 1..Len(q) : r[i] = q[i]
  BY <1>1
<1> HIDE DEF r
<1>6. freed \in [Idx -> BOOLEAN] /\ free_next \in [Idx -> Idx] /\ Ids \subseteq Idx
  BY DEF LinksInv, TypeOK, Ids, Idx
<1>7. \A i, j \in 1..Len(r) : r[i] = r[j] => i = j
  BY <1>1, <1>3, <1>5 DEF IsQueue
<1>8. ASSUME NEW x \in Ids PROVE freed'[x] <=> \E i \in 1..Len(r) : r[i] = x
  <2>1. CASE x = id
    BY <1>1, <1>4, <1>5, <1>6, <2>1
  <2>2. CASE x # id
    <3>1. freed'[x] = freed[x]
      BY <1>4, <1>6, <2>2
    <3>2. (\E i \in 1..Len(q) : q[i] = x) <=> \E i \in 1..Len(r) : r[i] = x
      BY <1>1, <1>5, <2>2
    <3> QED
      BY <3>1, <3>2 DEF IsQueue
  <2> QED
    BY <2>1, <2>2
<1>9. free_head' = r[1] /\ free_tail' = r[Len(r)]
  BY <1>1, <1>4, <1>5 DEF IsQueue
<1>10. ASSUME NEW i \in 1..(Len(r) - 1) PROVE free_next'[r[i]] = r[i + 1]
  <2>1. r[i] = q[i] /\ q[i] \in Ids /\ q[i] # id
    BY <1>1, <1>3, <1>5, <1>10
  <2>2. CASE i = Len(q)
    BY <1>2, <1>4, <1>5, <1>6, <2>1, <2>2
  <2>3. CASE i # Len(q)
    <3>1. i \in 1..(Len(q) - 1) /\ i + 1 \in 1..Len(q)
      BY <1>1, <1>5, <1>10, <2>3
    <3>2. q[i] # q[Len(q)] /\ free_next[q[i]] = q[i + 1]
      BY <1>1, <3>1 DEF IsQueue
    <3> QED
      BY <1>2, <1>4, <1>5, <1>6, <2>1, <3>1, <3>2
  <2> QED
    BY <2>2, <2>3
<1>11. IsQueue(r)'
  BY <1>5, <1>7, <1>8, <1>9, <1>10 DEF IsQueue
<1> QED
  BY <1>5, <1>11 DEF r

LEMMA QueueStep ==
  ASSUME MaxLive <= Size - 2
  PROVE  QueueInv /\ [Next]_vars => QueueInv'
<1> SUFFICES ASSUME QueueInv, [Next]_vars PROVE QueueInv'
  OBVIOUS
<1>1. LinksInv'
  BY LinksStep DEF QueueInv
<1>2. PICK q \in Seq(Ids) : IsQueue(q)
  BY DEF QueueInv
<1>3. CASE GmIdAllocate
  BY <1>1, <1>2, <1>3, AllocateTakesHead DEF QueueInv
<1>4. ASSUME NEW id \in Ids, GmIdFree(id) PROVE QueueInv'
  <2>1. ~halted'
    BY <1>4 DEF GmIdFree
  <2> QED
    BY <1>1, <1>2, <1>4, <2>1, FreeAppends DEF QueueInv
<1>5. CASE UNCHANGED vars
  <2>1. IsQueue(q)'
    BY <1>2, <1>5 DEF IsQueue, vars, table
  <2> QED
    BY <1>1, <2>1, <1>5 DEF QueueInv, vars
<1> QED
  BY <1>3, <1>4, <1>5 DEF Next

\* The assert of GmIdAllocate holds as long as the callers leave two ids of the
\* table free; so no id is given out that is in use.
THEOREM FreedGivenOut ==
  ASSUME MaxLive <= Size - 2
  PROVE  Spec => []GivesOutFreed
<1>1. Init => QueueInv
  <2>1. Init => ~halted
    BY DEF Init
  <2> QED
    BY <2>1, LinksInit, QueueInit DEF QueueInv
<1>2. QueueInv /\ [Next]_vars => QueueInv'
  BY QueueStep
<1>3. QueueInv => GivesOutFreed
  BY DEF QueueInv, GivesOutFreed
<1> QED
  BY <1>1, <1>2, <1>3, PTL DEF Spec

-----------------------------------------------------------------------------
(* The abstract queue *)

LinkBody(link, n) == IF n = 1 THEN free_head ELSE free_next[link[n - 1]]

Links(link, n) == [i \in 1..n |-> LinkBody(link, i)]

EndsAt(link, n) == link[n] = free_tail /\ \A m \in 1..(n - 1) : link[m] # free_tail

LEMMA FreeQueueIsLinks ==
  FreeQueue = LET link == CHOOSE f : f = Links(f, Size)
              IN  [i \in 1..(CHOOSE n \in 1..Size : EndsAt(link, n)) |-> link[i]]
  BY DEF FreeQueue, Links, LinkBody, EndsAt

LEMMA LinksExist == \E link : link = Links(link, Size)
<1> DEFINE T == {k \in Nat \ {0} : ~\E link : link = Links(link, k)}
<1> SUFFICES ASSUME T # {} PROVE FALSE
  BY SizeAssumption
<1>1. PICK k \in T : \A m \in T : k <= m
  <2>1. T \subseteq Nat
    OBVIOUS
  <2> QED
    BY <2>1, Least
<1>2. CASE k = 1
  <2> DEFINE f == [i \in 1..1 |-> free_head]
  <2>1. f = Links(f, 1)
    BY DEF Links, LinkBody
  <2> QED
    BY <1>1, <1>2, <2>1
<1>3. CASE k # 1
  <2>1. k - 1 \in Nat \ {0} /\ k - 1 \notin T
    BY <1>1, <1>3
  <2>2. PICK f : f = Links(f, k - 1)
    BY <2>1
  <2> DEFINE g == [i \in 1..k |-> IF i < k THEN f[i] ELSE LinkBody(f, k)]
  <2>3. ASSUME NEW i \in 1..k PROVE g[i] = LinkBody(g, i)
    <3>1. LinkBody(g, i) = LinkBody(f, i)
      <4>1. CASE i = 1
        BY <4>1 DEF LinkBody
      <4>2. CASE i # 1
        <5>1. i - 1 \in 1..k /\ i - 1 < k
          BY <1>1, <4>2
        <5>2. g[i - 1] = f[i - 1]
          BY <5>1
        <5> QED
          BY <5>2 DEF LinkBody
      <4> QED
        BY <4>1, <4>2
    <3>2. CASE i < k
      <4>1. i \in 1..(k - 1) /\ g[i] = f[i]
        BY <1>1, <3>2
      <4>2. f[i] = LinkBody(f, i)
        BY <2>2, <4>1 DEF Links
      <4> QED
        BY <3>1, <4>1, <4>2
    <3>3. CASE i = k
      BY <3>1, <3>3
    <3> QED
      BY <1>1, <3>2, <3>3
  <2>4. g = Links(g, k)
    BY <2>3 DEF Links
  <2> QED
    BY <1>1, <2>4
<1> QED
  BY <1>2, <1>3

\* A queue never holds more ids than there are.
LEMMA QueueFits ==
  ASSUME NEW q \in Seq(Ids), IsQueue(q)
  PROVE  Len(q) \in 1..Size
<1>1. Len(q) \in Nat \ {0}
  BY EmptySeq DEF IsQueue
<1>2. Len(q) <= Size - 1
  <2>1. IsFiniteSet(Ids) /\ Cardinality(Ids) = Size - 1
    BY SizeAssumption, FS_Interval DEF Ids
  <2>2. IsFiniteSet(1..Len(q)) /\ Cardinality(1..Len(q)) = Len(q)
    BY <1>1, FS_Interval
  <2>3. q \in Injection(1..Len(q), Ids)
    <3>1. q \in [1..Len(q) -> Ids]
      BY LenProperties
    <3> QED
      BY <3>1 DEF IsQueue, Injection, IsInjective
  <2> QED
    BY <2>1, <2>2, <2>3, FS_Injection
<1> QED
  BY <1>1, <1>2, SizeAssumption

\* The links from free_head up to free_tail are the queue.
LEMMA FreeQueueIsQueue ==
  ASSUME NEW q \in Seq(Ids), IsQueue(q)
  PROVE  FreeQueue = q
<1> DEFINE link == CHOOSE f : f = Links(f, Size)
           n    == CHOOSE m \in 1..Size : EndsAt(link, m)
<1>1. link = Links(link, Size)
  BY LinksExist
<1>2. FreeQueue = [i \in 1..n |-> link[i]]
  BY FreeQueueIsLinks
<1> HIDE DEF link
<1>3. Len(q) \in 1..Size /\ Len(q) \in Nat
  BY QueueFits
<1>4. ASSUME NEW i \in 1..Len(q) PROVE link[i] = q[i]
  <2> DEFINE T == {k \in 1..Len(q) : link[k] # q[k]}
  <2> SUFFICES ASSUME T # {} PROVE FALSE
    BY <1>4
  <2>1. PICK k \in T : \A m \in T : k <= m
    <3>1. T \subseteq Nat
      OBVIOUS
    <3> QED
      BY <3>1, Least
  <2>2. k \in 1..Size /\ k \in 1..Len(q)
    BY <1>3, <2>1, SizeAssumption
  <2>3. link[k] = LinkBody(link, k)
    BY <1>1, <2>2 DEF Links
  <2>4. CASE k = 1
    BY <2>1, <2>3, <2>4 DEF LinkBody, IsQueue
  <2>5. CASE k # 1
    <3>1. k - 1 \in 1..Len(q) /\ k - 1 \in 1..(Len(q) - 1) /\ ~(k <= k - 1)
      BY <1>3, <2>2, <2>5
    <3>2. link[k - 1] = q[k - 1]
      BY <2>1, <3>1
    <3>3. free_next[q[k - 1]] = q[(k - 1) + 1]
      BY <3>1 DEF IsQueue
    <3>4. (k - 1) + 1 = k
      BY <2>2
    <3> QED
      BY <2>1, <2>3, <2>5, <3>2, <3>3, <3>4 DEF LinkBody
  <2> QED
    BY <2>4, <2>5
<1>5. EndsAt(link, Len(q))
  <2>1. link[Len(q)] = free_tail
    BY <1>3, <1>4 DEF IsQueue
  <2>2. ASSUME NEW m \in 1..(Len(q) - 1) PROVE link[m] # free_tail
    <3>1. m \in 1..Len(q) /\ Len(q) \in 1..Len(q) /\ m # Len(q)
      BY <1>3
    <3>2. q[m] # q[Len(q)]
      BY <3>1 DEF IsQueue
    <3> QED
      BY <1>4, <3>1, <3>2 DEF IsQueue
  <2> QED
    BY <2>1, <2>2 DEF EndsAt
<1>6. ASSUME NEW m \in 1..Size, EndsAt(link, m) PROVE m = Len(q)
  <2>1. ~(m < Len(q))
    <3>1. ASSUME m < Len(q) PROVE m \in 1..(Len(q) - 1)
      BY <1>3, <3>1
    <3> QED
      BY <1>5, <1>6, <3>1 DEF EndsAt
  <2>2. ~(Len(q) < m)
    <3>1. ASSUME Len(q) < m PROVE Len(q) \in 1..(m - 1)
      BY <1>3, <3>1, SizeAssumption
    <3> QED
      BY <1>5, <1>6, <3>1 DEF EndsAt
  <2> QED
    BY <1>3, <2>1, <2>2, SizeAssumption
<1>7. n = Len(q)
  BY <1>3, <1>5, <1>6
<1> HIDE DEF n
<1>8. FreeQueue = [i \in 1..Len(q) |-> q[i]]
  BY <1>2, <1>4, <1>7
<1>9. q = [i \in 1..Len(q) |-> q[i]]
  BY LenProperties
<1> QED
  BY <1>8, <1>9

LEMMA FreeQueueNext ==
  ASSUME NEW q \in Seq(Ids)
  PROVE  (IsQueue(q) => FreeQueue = q)'
<1>1. IsQueue(q) => FreeQueue = q
  BY FreeQueueIsQueue
<1> QED
  BY <1>1, PTL

LEMMA ImplementsInit == Init => Queue!Init
<1> SUFFICES ASSUME Init PROVE Queue!Init
  OBVIOUS
<1>1. IsQueue(AllIds) /\ AllIds \in Seq(Ids)
  BY QueueOfAll DEF IsQueue
<1>2. FreeQueue = AllIds
  BY <1>1, FreeQueueIsQueue
<1> QED
  BY <1>2 DEF Init, Queue!Init, Queue!Ids, AllIds, Ids

LEMMA ImplementsStep ==
  ASSUME MaxLive <= Size - 2, QueueInv, [Next]_vars
  PROVE  [Queue!Next]_<<FreeQueue, new_id>>
<1>1. PICK q \in Seq(Ids) : IsQueue(q)
  BY DEF QueueInv
<1>2. FreeQueue = q
  BY <1>1, FreeQueueIsQueue
<1>3. CASE GmIdAllocate
  <2>1. new_id' = Head(q) /\ Tail(q) \in Seq(Ids) /\ IsQueue(Tail(q))'
    BY <1>1, <1>3, AllocateTakesHead DEF QueueInv
  <2>2. FreeQueue' = Tail(q)
    BY <2>1, FreeQueueNext
  <2>3. Queue!Allocate
    BY <1>1, <1>2, <2>1, <2>2 DEF Queue!Allocate, IsQueue
  <2> QED
    BY <2>3 DEF Queue!Next
<1>4. ASSUME NEW id \in Ids, GmIdFree(id) PROVE Queue!Next
  <2>1. Append(q, id) \in Seq(Ids) /\ IsQueue(Append(q, id))'
    BY <1>1, <1>4, FreeAppends DEF QueueInv
  <2>2. FreeQueue' = Append(q, id)
    BY <2>1, FreeQueueNext
  <2>3. id \notin Range(q)
    <3>1. ~\E i \in 1..Len(q) : q[i] = id
      BY <1>1, <1>4 DEF IsQueue, GmIdFree
    <3>2. DOMAIN q = 1..Len(q)
      BY <1>1, LenProperties
    <3> QED
      BY <3>1, <3>2 DEF Range
  <2>4. id \notin Queue!Range(FreeQueue)
    BY <1>2, <2>3 DEF Queue!Range, Range
  <2>5. id \in Queue!Ids /\ FreeQueue' = Append(FreeQueue, id) /\ new_id' = 0
    BY <1>2, <1>4, <2>2 DEF Queue!Ids, Ids, GmIdFree
  <2> QED
    BY <2>4, <2>5 DEF Queue!Next, Queue!Free
<1>5. CASE UNCHANGED vars
  <2>1. IsQueue(q)'
    BY <1>1, <1>5 DEF IsQueue, vars, table
  <2>2. FreeQueue' = q /\ new_id' = new_id
    BY <1>1, <1>5, <2>1, FreeQueueNext DEF vars
  <2> QED
    BY <1>2, <2>2
<1> QED
  BY <1>3, <1>4, <1>5 DEF Next

\* The links of a table, in the order of free_head, are a queue of the ids that
\* are not in use: GmIdAllocate takes the one that was freed first, although
\* GmIdFree leaves a link in the last element that leads back.
THEOREM ImplementsQueue ==
  ASSUME MaxLive <= Size - 2
  PROVE  Spec => QueueSpec
<1>1. Init => QueueInv
  <2>1. Init => ~halted
    BY DEF Init
  <2> QED
    BY <2>1, LinksInit, QueueInit DEF QueueInv
<1>2. QueueInv /\ [Next]_vars => QueueInv'
  BY QueueStep
<1>3. QueueInv /\ [Next]_vars => [Queue!Next]_<<FreeQueue, new_id>>
  BY ImplementsStep
<1> QED
  BY <1>1, <1>2, <1>3, ImplementsInit, PTL DEF Spec, QueueSpec, Queue!Spec
=============================================================================
