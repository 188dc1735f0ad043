-------------------------- MODULE GmMovement_proofs --------------------------
(***************************************************************************)
(* How an agent walks, for any set of places, any length of paths and any  *)
(* time between the ticks of the world.                                    *)
(***************************************************************************)
EXTENDS GmMovement, TLAPS

-----------------------------------------------------------------------------
(* Paths, distances and agents *)

Floats == Int \cup {NaN}

Agents == [position     : Floats,
           destination  : Floats,
           direction    : {-1, 0, 1, NaN},
           speed        : BOOLEAN,
           waypoint_idx : Nat,
           waypoints    : Paths]

AgentOK(a) == a \in Agents /\ a.waypoint_idx <= Len(a.waypoints)

LEMMA PathsArePoints ==
  ASSUME NEW way \in Paths
  PROVE  /\ Len(way) \in Nat
         /\ \A i \in 1..Len(way) : way[i] \in Int /\ way[i] \in Points
         /\ \A i, j \in 1..Len(way) : way[i] = way[j] => i = j
<1>1. PICK k \in 0..MaxWaypoints : way \in [1..k -> Points]
  BY MovementAssumption DEF Paths, Ways
<1>2. way \in Seq(Points) /\ Len(way) = k
  BY <1>1, MovementAssumption
<1>3. Points \subseteq Int /\ k \in Nat
  BY MovementAssumption
<1>4. \A i \in 1..k : way[i] \in Points
  BY <1>1
<1>5. \A i, j \in 1..k : way[i] = way[j] => i = j
  BY <1>1 DEF Paths, IsInjective
<1> QED
  BY <1>2, <1>3, <1>4, <1>5

LEMMA NonEmptyPath ==
  ASSUME NEW way \in Paths, way # <<>>
  PROVE  1 <= Len(way)
<1>1. \E k \in 0..MaxWaypoints : way \in [1..k -> Points]
  BY MovementAssumption DEF Paths, Ways
<1>2. way \in Seq(Points)
  BY <1>1, MovementAssumption
<1> QED
  BY <1>2, PathsArePoints

LEMMA EmptyPath == <<>> \in Paths /\ Len(<<>>) = 0
<1>1. <<>> \in [1..0 -> Points]
  OBVIOUS
<1>2. <<>> \in Ways(MaxWaypoints)
  BY <1>1, MovementAssumption DEF Ways
<1>3. IsInjective(<<>>)
  BY DEF IsInjective
<1> QED
  BY <1>2, <1>3 DEF Paths

LEMMA DistanceFacts ==
  ASSUME NEW p \in Int, NEW q \in Int
  PROVE  /\ Distance(p, q) \in Nat
         /\ Distance(p, q) = 0 <=> p = q
         /\ Within(p, q, 0) <=> p = q
  BY MovementAssumption DEF Distance, Within

LEMMA Near ==
  ASSUME NEW p \in Int, NEW q \in Int, NEW n
  PROVE  Within(p, q, n) <=> Distance(p, q) <= n
  BY MovementAssumption DEF Within

\* There is a way from a place to every other.
LEMMA HeadingFacts ==
  ASSUME NEW p \in Floats, NEW q \in Floats
  PROVE  /\ Heading(p, q) \in {-1, 0, 1, NaN}
         /\ p \in Int /\ q \in Int /\ p # q => Heading(p, q) \in {-1, 1}
         /\ p = q \/ p = NaN \/ q = NaN => Heading(p, q) = NaN
  BY MovementAssumption DEF Heading, Floats

\* A walk takes no more than its length, and ends nowhere only if it begins there
\* or leads there.
LEMMA WalkIsShort ==
  ASSUME NEW p \in Floats, NEW d \in {-1, 0, 1, NaN}, NEW n \in Nat
  PROVE  /\ Forward(p, d, n) \in Floats
         /\ p \in Int /\ Forward(p, d, n) \in Int => Distance(p, Forward(p, d, n)) <= n
         /\ p = NaN => Forward(p, d, n) = NaN
         /\ p \in Int /\ Forward(p, d, n) = NaN => d = NaN /\ n # 0
<1>1. CASE n = 0
  BY <1>1, MovementAssumption DEF Forward, Floats, Distance
<1>2. CASE n # 0 /\ (p = NaN \/ d = NaN)
  BY <1>2, MovementAssumption DEF Forward, Floats
<1>3. CASE n # 0 /\ p # NaN /\ d # NaN
  <2>1. p \in Int /\ d \in {-1, 0, 1} /\ Forward(p, d, n) = p + d * n
    BY <1>3 DEF Forward, Floats
  <2>2. p + d * n \in Int /\ Distance(p, p + d * n) <= n
    BY <2>1 DEF Distance
  <2> QED
    BY <2>1, <2>2, MovementAssumption DEF Floats
<1> QED
  BY <1>1, <1>2, <1>3

LEMMA LostOnTheWay ==
  ASSUME NEW p \in Int, NEW d \in {-1, 0, 1, NaN}, NEW n \in Nat, Forward(p, d, n) = NaN
  PROVE  d = NaN
<1>1. CASE n = 0
  BY <1>1, MovementAssumption DEF Forward
<1>2. CASE n # 0 /\ d # NaN
  <2>1. d \in {-1, 0, 1} /\ p # NaN /\ Forward(p, d, n) = p + d * n
    BY <1>2, MovementAssumption DEF Forward
  <2>2. p + d * n \in Int
    BY <2>1
  <2> QED
    BY <2>1, <2>2, MovementAssumption
<1> QED
  BY <1>1, <1>2

LEMMA Triangle ==
  ASSUME NEW p \in Int, NEW q \in Int, NEW r \in Int
  PROVE  Distance(p, r) <= Distance(p, q) + Distance(q, r)
  BY DEF Distance

LEMMA AgentReaches ==
  ASSUME NEW a, AgentOK(a), NEW n \in Nat, Reaches(a, n)
  PROVE  /\ a.speed /\ a.position \in Int /\ a.destination \in Int
         /\ Distance(a.position, a.destination) \in Nat
         /\ Distance(a.position, a.destination) <= n
<1>1. a.speed /\ a.position \in Int /\ a.destination \in Int
  BY DEF Reaches, Within, AgentOK, Agents, Floats
<1> QED
  BY <1>1, DistanceFacts DEF Reaches, Within

LEMMA SetOut ==
  ASSUME NEW a \in Agents, NEW p \in Floats
  PROVE  LET b == UpdateAgentDestination(a, p)
         IN  /\ b \in Agents
             /\ b.position = a.position /\ b.destination = p
             /\ b.speed = TRUE /\ b.direction = Heading(a.position, p)
             /\ b.waypoint_idx = a.waypoint_idx /\ b.waypoints = a.waypoints
<1>1. a.position \in Floats
  BY DEF Agents
<1>2. Heading(a.position, p) \in {-1, 0, 1, NaN}
  BY <1>1, HeadingFacts
<1> QED
  BY <1>2 DEF Agents, UpdateAgentDestination

-----------------------------------------------------------------------------
(* What time does to an agent *)

\* An agent that stands stays, and one that does not get to its destination
\* walks on.
LEMMA WalksOn ==
  ASSUME NEW a, AgentOK(a), NEW n \in Nat, ~Reaches(a, n)
  PROVE  LET b == UpdateAgentMovement(a, n)
         IN  /\ AgentOK(b)
             /\ b.speed = a.speed /\ b.destination = a.destination
             /\ b.direction = a.direction
             /\ b.waypoint_idx = a.waypoint_idx /\ b.waypoints = a.waypoints
             /\ b.position = IF a.speed THEN Forward(a.position, a.direction, n) ELSE a.position
<1>1. CASE ~a.speed
  BY <1>1 DEF UpdateAgentMovement, AgentOK, Agents
<1>2. CASE a.speed
  <2> DEFINE b == [a EXCEPT !.position = Forward(@, a.direction, n)]
             q == Forward(a.position, a.direction, n)
  <2>1. q \in Floats
    BY WalkIsShort DEF AgentOK, Agents
  <2>2. /\ b \in Agents /\ b.speed = a.speed /\ b.destination = a.destination
        /\ b.direction = a.direction
        /\ b.waypoint_idx = a.waypoint_idx /\ b.waypoints = a.waypoints
        /\ b.position = q
    BY <2>1 DEF AgentOK, Agents
  <2>3. Walked(a, n) = b
    BY <1>2 DEF Walked, TakesNext
  <2>4. ~Within(b.position, b.destination, 0)
    <3> SUFFICES ASSUME Within(q, a.destination, 0) PROVE FALSE
      BY <2>2
    <3>1. q \in Int /\ a.destination \in Int
      BY <2>1 DEF Within, AgentOK, Agents, Floats
    <3>0. a.position \in Floats /\ a.direction \in {-1, 0, 1, NaN}
      BY DEF AgentOK, Agents
    <3>2. a.position \in Int
      <4> SUFFICES ASSUME a.position = NaN PROVE FALSE
        BY <3>0 DEF Floats
      <4>1. q = NaN
        BY <3>0, WalkIsShort
      <4> QED
        BY <3>1, <4>1, MovementAssumption
    <3>3. q = a.destination
      BY <3>1, DistanceFacts
    <3>4. Distance(a.position, q) <= n
      BY <3>0, <3>1, <3>2, WalkIsShort
    <3>5. Within(a.position, a.destination, n)
      BY <3>1, <3>2, <3>3, <3>4, Near
    <3> QED
      BY <1>2, <3>5 DEF Reaches
  <2> HIDE DEF b
  <2>5. UpdateAgentMovement(a, n) = b
    BY <1>2, <2>3, <2>4 DEF UpdateAgentMovement
  <2> QED
    BY <1>2, <2>2, <2>5 DEF AgentOK
<1> QED
  BY <1>1, <1>2

LEMMA NewDestination ==
  ASSUME NEW b \in Agents, NEW p \in Int, NEW way \in Paths
  PROVE  LET c == [b EXCEPT !.destination = p, !.speed = FALSE, !.waypoint_idx = 0,
                            !.waypoints = way]
         IN  /\ c \in Agents
             /\ c.position = b.position /\ c.speed = FALSE
             /\ c.waypoint_idx = 0 /\ c.waypoints = way
<1>1. p \in Floats
  BY DEF Floats
<1> QED
  BY <1>1 DEF Agents

\* Stopping where the destination is.
LEMMA Stops ==
  ASSUME NEW b \in Agents
  PROVE  LET c == [b EXCEPT !.destination = 0, !.speed = FALSE, !.waypoint_idx = 0,
                            !.waypoints = <<>>]
         IN  /\ AgentOK(c)
             /\ c.position = b.position /\ c.speed = FALSE
             /\ c.waypoint_idx = 0 /\ c.waypoints = <<>>
<1> DEFINE none == <<>>
           origin == 0
           c == [b EXCEPT !.destination = origin, !.speed = FALSE, !.waypoint_idx = 0,
                          !.waypoints = none]
<1>1. none \in Paths /\ Len(none) = 0 /\ origin \in Int
  BY EmptyPath
<1> HIDE DEF none, origin
<1>2. /\ c \in Agents
      /\ c.position = b.position /\ c.speed = FALSE
      /\ c.waypoint_idx = 0 /\ c.waypoints = none
  BY <1>1, NewDestination
<1> HIDE DEF c
<1>3. AgentOK(c)
  BY <1>1, <1>2 DEF AgentOK
<1> QED
  BY <1>2, <1>3 DEF c, none, origin

\* An agent that gets to the end of its path stands there.
LEMMA Arrives ==
  ASSUME NEW a, AgentOK(a), NEW n \in Nat, Reaches(a, n), ~TakesNext(a, n)
  PROVE  LET b == UpdateAgentMovement(a, n)
         IN  /\ AgentOK(b)
             /\ b.speed = FALSE /\ b.position = a.destination
             /\ b.waypoint_idx = 0 /\ b.waypoints = <<>>
             /\ a.waypoint_idx = Len(a.waypoints)
<1> DEFINE b == [a EXCEPT !.position = a.destination]
<1>1. b \in Agents /\ b.position = a.destination /\ b.destination = a.destination
  BY DEF AgentOK, Agents
<1>2. Walked(a, n) = b /\ a.speed /\ Within(b.position, b.destination, 0)
  BY <1>1, AgentReaches, DistanceFacts DEF Walked, Reaches
<1>3. a.waypoint_idx = Len(a.waypoints)
  <2>1. ~(a.waypoint_idx < Len(a.waypoints)) /\ a.waypoint_idx <= Len(a.waypoints)
    BY DEF TakesNext, AgentOK
  <2> QED
    BY <2>1, PathsArePoints DEF AgentOK, Agents
<1> HIDE DEF b
<1>4. UpdateAgentMovement(a, n) =
        [b EXCEPT !.destination = 0, !.speed = FALSE, !.waypoint_idx = 0, !.waypoints = <<>>]
  BY <1>1, <1>2 DEF UpdateAgentMovement
<1> QED
  BY <1>1, <1>3, <1>4, Stops

\* At a waypoint the agent sets out for the next, and stops only if what is
\* left of the distance ends there.
LEMMA TurnsAtWaypoint ==
  ASSUME NEW a, AgentOK(a), NEW n \in Nat, TakesNext(a, n)
  PROVE  LET b == UpdateAgentMovement(a, n)
             w == a.waypoints[a.waypoint_idx + 1]
             left == n - Distance(a.position, a.destination)
         IN  /\ a.speed /\ left \in Nat /\ w \in Int
             /\ a.waypoint_idx + 1 <= Len(a.waypoints)
             /\ AgentOK(b)
             /\ a.destination \in Int
             /\ b.position = Forward(a.destination, Heading(a.destination, w), left)
             /\ IF b.speed
                THEN /\ b.destination = w /\ b.direction = Heading(a.destination, w)
                     /\ b.waypoints = a.waypoints /\ b.waypoint_idx = a.waypoint_idx + 1
                ELSE b.position = w /\ b.waypoints = <<>> /\ b.waypoint_idx = 0
<1> DEFINE w == a.waypoints[a.waypoint_idx + 1]
           left == n - Distance(a.position, a.destination)
           there == [a EXCEPT !.position = a.destination]
           turned == UpdateAgentDestination(there, w)
           next == [turned EXCEPT !.waypoint_idx = @ + 1]
           c == [next EXCEPT !.position = Forward(@, next.direction, left)]
<1>1. a.speed /\ a.waypoint_idx \in Nat /\ a.waypoint_idx + 1 <= Len(a.waypoints)
  <2>1. a.waypoint_idx < Len(a.waypoints) /\ a.speed
    BY DEF TakesNext, Reaches
  <2> QED
    BY <2>1, PathsArePoints DEF AgentOK, Agents
<1>2. w \in Int
  BY <1>1, PathsArePoints DEF AgentOK, Agents
<1>3. left \in Nat /\ a.destination \in Int
  BY AgentReaches DEF TakesNext
<1>4. /\ there \in Agents /\ there.position = a.destination
      /\ there.waypoint_idx = a.waypoint_idx /\ there.waypoints = a.waypoints
  BY DEF AgentOK, Agents
<1>5. /\ turned \in Agents /\ turned.position = a.destination /\ turned.destination = w
      /\ turned.speed = TRUE /\ turned.direction = Heading(a.destination, w)
      /\ turned.waypoint_idx = a.waypoint_idx /\ turned.waypoints = a.waypoints
  <2> HIDE DEF there, w
  <2>1. w \in Floats
    BY <1>2 DEF Floats
  <2>2. there \in Agents
    BY <1>4
  <2> DEFINE t == UpdateAgentDestination(there, w)
  <2>3. /\ t \in Agents
        /\ t.position = there.position /\ t.destination = w
        /\ t.speed = TRUE /\ t.direction = Heading(there.position, w)
        /\ t.waypoint_idx = there.waypoint_idx /\ t.waypoints = there.waypoints
    BY ONLY <2>1, <2>2, SetOut
  <2>4. turned = t
    OBVIOUS
  <2> HIDE DEF t, turned
  <2> QED
    BY <1>4, <2>3, <2>4
<1>6. NextWaypoint(there) = next
  BY <1>4 DEF NextWaypoint
<1> HIDE DEF turned
<1>7. /\ next \in Agents /\ next.position = a.destination /\ next.destination = w
      /\ next.speed = TRUE /\ next.direction = Heading(a.destination, w)
      /\ next.waypoint_idx = a.waypoint_idx + 1 /\ next.waypoints = a.waypoints
  BY <1>1, <1>5 DEF Agents
<1>8. Walked(a, n) = c
  <2>1. next = NextWaypoint([a EXCEPT !.position = a.destination])
    BY <1>6
  <2> HIDE DEF next
  <2> QED
    BY <2>1 DEF Walked
<1> HIDE DEF next
<1>9. Forward(next.position, next.direction, left) \in Floats
  BY <1>3, <1>7, WalkIsShort DEF Agents
<1>10. /\ c \in Agents /\ c.position = Forward(a.destination, Heading(a.destination, w), left)
       /\ c.destination = w
       /\ c.speed = TRUE /\ c.direction = Heading(a.destination, w)
       /\ c.waypoint_idx = a.waypoint_idx + 1 /\ c.waypoints = a.waypoints
  BY <1>7, <1>9 DEF Agents
<1> HIDE DEF c, w, left
<1>11. CASE ~Within(c.position, c.destination, 0)
  <2>1. UpdateAgentMovement(a, n) = c
    BY <1>1, <1>8, <1>11 DEF UpdateAgentMovement
  <2> QED
    BY <1>1, <1>2, <1>3, <1>10, <2>1 DEF AgentOK, w, left
<1>12. CASE Within(c.position, c.destination, 0)
  <2>1. UpdateAgentMovement(a, n) =
          [c EXCEPT !.destination = 0, !.speed = FALSE, !.waypoint_idx = 0, !.waypoints = <<>>]
    BY <1>1, <1>8, <1>12 DEF UpdateAgentMovement
  <2>2. c.position = w
    <3>1. c.position \in Int
      BY <1>10, <1>12 DEF Within, Agents, Floats
    <3> QED
      BY <1>2, <1>10, <1>12, <3>1, DistanceFacts
  <2> QED
    BY <1>1, <1>2, <1>3, <1>10, <2>1, <2>2, Stops DEF w, left
<1> QED
  BY <1>11, <1>12

-----------------------------------------------------------------------------
(* The invariant *)

\* What an agent walks to is not on its way any more.
NeverBack ==
  agent.speed =>
    \A j \in 1..Len(agent.waypoints) :
      agent.waypoint_idx < j => agent.waypoints[j] # agent.destination

\* An agent that is not where it goes knows the way, unless its client moved it.
KnowsTheWay ==
  agent.speed /\ agent.position # NaN /\ course # "corrected" =>
    agent.direction # NaN \/ agent.position = agent.destination

\* A round that ends late lets the world tick, so between rounds the clock is
\* not far ahead; and an agent goes only where the path finder sent it, so that
\* a path that is replaced by none leads to such a place.
Inv == /\ TypeOK
       /\ ~round => elapsed < MaxTickTime
       /\ agent.speed => agent.destination \in Points
       /\ NeverBack /\ KnowsTheWay
       /\ ReachesItsGoal
       /\ HeadsForItsDestination
       /\ ClientsAreTold

LEMMA Bounds == /\ MaxTickTime \in Nat \ {0} /\ MaxDelta \in Nat \ {0}
                /\ MaxCorrection \in Nat /\ Points \subseteq Int
  BY MovementAssumption

LEMMA TypeOfAgent ==
  ASSUME TypeOK
  PROVE  /\ AgentOK(agent) /\ elapsed \in Nat /\ round \in BOOLEAN
         /\ goal \in Points \cup {NULL} /\ course \in Courses
<1>1. agent \in Agents /\ agent.waypoint_idx \in 0..Len(agent.waypoints)
  <2>1. agent.waypoints \in Paths /\ agent.waypoint_idx \in 0..Len(agent.waypoints)
    BY DEF TypeOK
  <2>2. agent.waypoint_idx \in Nat
    BY <2>1, PathsArePoints
  <2> QED
    BY <2>1, <2>2 DEF TypeOK, Agents, Floats
<1>2. elapsed \in Nat
  BY Bounds DEF TypeOK
<1> QED
  BY <1>1, <1>2, PathsArePoints DEF TypeOK, AgentOK

LEMMA AgentOfType ==
  ASSUME NEW a, AgentOK(a)
  PROVE  a \in [position     : Int \cup {NaN},
                destination  : Int \cup {NaN},
                direction    : {-1, 0, 1, NaN},
                speed        : BOOLEAN,
                waypoint_idx : 0..Len(a.waypoints),
                waypoints    : Paths]
<1>1. a.waypoint_idx \in 0..Len(a.waypoints)
  BY PathsArePoints DEF AgentOK, Agents
<1> QED
  BY <1>1 DEF AgentOK, Agents, Floats

\* On the way to q, q stays ahead, also from nowhere.
LEMMA StaysAhead ==
  ASSUME NEW p \in Floats, NEW q \in Int, NEW n \in Nat, ~Within(p, q, n)
  PROVE  Heading(Forward(p, Heading(p, q), n), q) = Heading(p, q)
<1>1. CASE p = NaN
  BY <1>1, WalkIsShort, HeadingFacts DEF Floats
<1>2. CASE p \in Int
  <2>1. n < Distance(p, q) /\ p # q /\ Distance(p, q) \in Nat
    <3>1. Distance(p, q) \in Nat /\ (p = q => Distance(p, q) = 0)
      BY <1>2, DistanceFacts
    <3>2. ~(Distance(p, q) <= n)
      BY <1>2, Near
    <3> QED
      BY <3>1, <3>2
  <2>2. Heading(p, q) \in {-1, 1} /\ Heading(p, q) = (IF p < q THEN 1 ELSE -1)
    BY <1>2, <2>1, MovementAssumption DEF Heading
  <2>3. Forward(p, 1, n) = p + n /\ Forward(p, -1, n) = p - n
    <3>1. 1 # NaN /\ -1 # NaN /\ p # NaN
      BY <1>2, MovementAssumption
    <3>2. CASE n = 0
      BY <1>2, <3>2 DEF Forward
    <3>3. CASE n # 0
      <4>1. Forward(p, 1, n) = p + 1 * n /\ Forward(p, -1, n) = p + (-1) * n
        BY <3>1, <3>3 DEF Forward
      <4> QED
        BY <1>2, <4>1
    <3> QED
      BY <3>2, <3>3
  <2>4. CASE p < q
    <3>1. p + n < q /\ p + n \in Int
      BY <1>2, <2>1, <2>4 DEF Distance
    <3>2. Heading(p, q) = 1 /\ Forward(p, Heading(p, q), n) = p + n
      BY <1>2, <2>2, <2>3, <2>4
    <3> QED
      BY <3>1, <3>2, MovementAssumption DEF Heading
  <2>5. CASE q < p
    <3>1. q < p - n /\ p - n \in Int
      BY <1>2, <2>1, <2>5 DEF Distance
    <3>2. Heading(p, q) = -1 /\ Forward(p, Heading(p, q), n) = p - n
      BY <1>2, <2>2, <2>3, <2>5
    <3> QED
      BY <3>1, <3>2, MovementAssumption DEF Heading
  <2> QED
    BY <1>2, <2>1, <2>4, <2>5
<1> QED
  BY <1>1, <1>2 DEF Floats

LEMMA TickedOK ==
  ASSUME NEW a, AgentOK(a), elapsed \in Nat
  PROVE  AgentOK(Ticked(a))
  BY WalksOn, Arrives, TurnsAtWaypoint DEF Ticked

\* A tick of the world keeps what there is to keep.
LEMMA TickKeeps ==
  ASSUME Inv, WorldTick
  PROVE  /\ AgentOK(agent)' /\ course' \in Courses
         /\ elapsed' = 0 /\ goal' = goal
         /\ agent'.speed => agent'.destination \in Points
         /\ NeverBack' /\ KnowsTheWay'
         /\ ReachesItsGoal' /\ HeadsForItsDestination' /\ ClientsAreTold'
<1> DEFINE n == elapsed
           w == agent.waypoints[agent.waypoint_idx + 1]
<1>1. AgentOK(agent) /\ n \in Nat /\ course \in Courses
  BY TypeOfAgent DEF Inv
<1>2. AgentOK(agent)' /\ elapsed' = 0 /\ goal' = goal
  BY <1>1, TickedOK DEF WorldTick
<1>3. course' \in Courses
  BY <1>1 DEF WorldTick, TickCourse, Courses
<1>4. agent' = Ticked(agent) /\ told' = TickTold(agent) /\ course' = TickCourse(agent)
  BY DEF WorldTick
<1>5. CASE n = 0
  <2>1. agent' = agent /\ told' = told /\ course' = course
    BY <1>4, <1>5 DEF Ticked, TickTold, TickCourse, Turns
  <2> QED
    BY <1>2, <1>3, <2>1
       DEF Inv, NeverBack, KnowsTheWay, ReachesItsGoal, HeadsForItsDestination, ClientsAreTold
<1>6. CASE n # 0 /\ ~Reaches(agent, n)
  <2>1. agent' = UpdateAgentMovement(agent, n) /\ told' = told /\ course' = course
    BY <1>4, <1>6 DEF Ticked, TickTold, TickCourse, Turns, TakesNext
  <2>2. /\ agent'.speed = agent.speed /\ agent'.destination = agent.destination
        /\ agent'.direction = agent.direction
        /\ agent'.waypoint_idx = agent.waypoint_idx /\ agent'.waypoints = agent.waypoints
        /\ agent'.position = IF agent.speed
                              THEN Forward(agent.position, agent.direction, n)
                              ELSE agent.position
    BY <1>1, <1>6, <2>1, WalksOn
  <2>3. ReachesItsGoal' /\ ClientsAreTold'
    BY <1>2, <2>1, <2>2 DEF Inv, ReachesItsGoal, ClientsAreTold
  <2>4. HeadsForItsDestination'
    <3> SUFFICES ASSUME agent.speed, course \in {"followed", "cut"}
                 PROVE  agent'.direction = Heading(agent'.position, agent'.destination)
      BY <2>1, <2>2 DEF HeadsForItsDestination
    <3>1. agent.direction = Heading(agent.position, agent.destination)
      BY DEF Inv, HeadsForItsDestination
    <3>2. agent.position \in Floats /\ agent.destination \in Int
      BY <1>1, Bounds DEF Inv, AgentOK, Agents
    <3>3. ~Within(agent.position, agent.destination, n)
      BY <1>6 DEF Reaches
    <3> QED
      BY <1>1, <2>2, <3>1, <3>2, <3>3, StaysAhead
  <2>5. KnowsTheWay'
    <3> SUFFICES ASSUME agent.speed, agent'.position # NaN, course # "corrected"
                 PROVE  agent'.direction # NaN
      BY <2>1, <2>2 DEF KnowsTheWay
    <3>0. agent.position \in Floats /\ agent.direction \in {-1, 0, 1, NaN}
      BY <1>1 DEF AgentOK, Agents
    <3>1. agent.position \in Int /\ agent.destination \in Int
      <4>1. agent.position # NaN
        BY <1>1, <2>2, <3>0, WalkIsShort
      <4> QED
        BY <3>0, <4>1, Bounds DEF Inv, Floats
    <3>2. agent.position # agent.destination
      <4>1. agent.position = agent.destination => Distance(agent.position, agent.destination) = 0
        BY <3>1, DistanceFacts
      <4>2. ~(Distance(agent.position, agent.destination) <= n)
        BY <1>6, <3>1, Near DEF Reaches
      <4> QED
        BY <1>1, <4>1, <4>2
    <3>3. agent.position # NaN
      BY <3>1, MovementAssumption
    <3> QED
      BY <2>2, <3>2, <3>3 DEF Inv, KnowsTheWay
  <2>6. NeverBack'
    BY <2>2 DEF Inv, NeverBack
  <2> QED
    BY <1>2, <1>3, <2>2, <2>3, <2>4, <2>5, <2>6 DEF Inv
<1>7. CASE n # 0 /\ Reaches(agent, n) /\ ~TakesNext(agent, n)
  <2>1. agent' = UpdateAgentMovement(agent, n) /\ told' = told /\ course' = course
    BY <1>4, <1>7 DEF Ticked, TickTold, TickCourse, Turns
  <2>2. /\ agent'.speed = FALSE /\ agent'.position = agent.destination
        /\ agent'.waypoint_idx = 0 /\ agent'.waypoints = <<>>
        /\ agent.waypoint_idx = Len(agent.waypoints)
    BY <1>1, <1>7, <2>1, Arrives
  <2>3. agent.speed /\ ~(agent.waypoint_idx < Len(agent.waypoints))
    BY <1>7 DEF Reaches, TakesNext
  <2>4. ReachesItsGoal'
    BY <1>2, <2>1, <2>2, <2>3 DEF Inv, ReachesItsGoal
  <2>5. HeadsForItsDestination' /\ ClientsAreTold'
    BY <2>1, <2>2, <2>3 DEF Inv, HeadsForItsDestination, ClientsAreTold
  <2>6. NeverBack' /\ KnowsTheWay'
    BY <2>2 DEF NeverBack, KnowsTheWay
  <2> QED
    BY <1>2, <1>3, <2>2, <2>4, <2>5, <2>6
<1>8. CASE n # 0 /\ TakesNext(agent, n)
  <2>1. /\ agent' = UpdateAgentMovement(agent, n) /\ Turns(agent) /\ told' = [to |-> w]
        /\ agent.speed /\ agent.waypoint_idx < Len(agent.waypoints)
    BY <1>1, <1>4, <1>8 DEF Ticked, TickTold, Turns, TakesNext, Reaches
  <2>2. IF agent'.speed
        THEN /\ agent'.destination = w /\ agent'.direction = Heading(agent.destination, w)
             /\ agent'.waypoints = agent.waypoints
             /\ agent'.waypoint_idx = agent.waypoint_idx + 1
        ELSE agent'.position = w /\ agent'.waypoints = <<>> /\ agent'.waypoint_idx = 0
    BY <1>1, <1>8, <2>1, TurnsAtWaypoint
  <2>3. /\ agent.waypoint_idx \in Nat /\ Len(agent.waypoints) \in Nat
        /\ agent'.speed \in BOOLEAN
    BY <1>1, <1>2, PathsArePoints DEF AgentOK, Agents
  <2>4. course' = IF ~agent'.speed /\ agent.waypoint_idx + 1 < Len(agent.waypoints) THEN "cut"
                  ELSE IF /\ agent'.speed
                          /\ agent'.direction # Heading(agent'.position, agent'.destination)
                  THEN "passed" ELSE course
    BY <1>4, <2>1 DEF TickCourse
  <2>5. ClientsAreTold'
    BY <2>1, <2>2, <2>3 DEF ClientsAreTold
  <2>6. HeadsForItsDestination'
    BY <2>3, <2>4 DEF HeadsForItsDestination
  <2>7. ReachesItsGoal'
    <3> SUFFICES ASSUME course' = "followed"
                 PROVE  goal' = IF ~agent'.speed THEN agent'.position
                                ELSE IF agent'.waypoint_idx < Len(agent'.waypoints)
                                THEN Last(agent'.waypoints) ELSE agent'.destination
      BY DEF ReachesItsGoal
    <3>1. course = "followed" /\ (agent'.speed \/ agent.waypoint_idx + 1 >= Len(agent.waypoints))
      BY <2>3, <2>4
    <3>2. goal = Last(agent.waypoints)
      BY <2>1, <3>1 DEF Inv, ReachesItsGoal
    <3>3. CASE agent.waypoint_idx + 1 < Len(agent.waypoints)
      BY <1>2, <2>2, <2>3, <3>1, <3>2, <3>3
    <3>4. CASE agent.waypoint_idx + 1 = Len(agent.waypoints)
      BY <1>2, <2>2, <2>3, <3>1, <3>2, <3>4 DEF Last
    <3> QED
      BY <2>1, <2>3, <3>3, <3>4
  <2>8. w \in Points
    BY <1>1, <2>1, <2>3, PathsArePoints DEF AgentOK, Agents
  <2>9. NeverBack'
    <3> SUFFICES ASSUME agent'.speed, NEW j \in 1..Len(agent.waypoints),
                        agent.waypoint_idx + 1 < j
                 PROVE  agent.waypoints[j] # w
      BY <2>2 DEF NeverBack
    <3>1. agent.waypoints \in Paths /\ agent.waypoint_idx + 1 \in 1..Len(agent.waypoints)
      BY <1>1, <2>1, <2>3 DEF AgentOK, Agents
    <3> QED
      BY <2>3, <3>1, PathsArePoints
  <2>10. KnowsTheWay'
    <3>1. agent.destination # w
      BY <2>1, <2>3 DEF Inv, NeverBack
    <3>2. agent.destination \in Int /\ w \in Int
      BY <2>1, <2>8, Bounds DEF Inv
    <3>3. Heading(agent.destination, w) # NaN
      BY <3>1, <3>2, HeadingFacts, MovementAssumption DEF Floats
    <3> QED
      BY <2>2, <2>3, <3>3 DEF KnowsTheWay
  <2> QED
    BY <1>2, <1>3, <2>2, <2>5, <2>6, <2>7, <2>8, <2>9, <2>10
<1> QED
  BY <1>5, <1>6, <1>7, <1>8 DEF TakesNext

LEMMA MoveKeeps ==
  ASSUME Inv, NEW way \in Paths, HandleMoveToCoord(way)
  PROVE  Inv'
<1> DEFINE a == [agent EXCEPT !.waypoints = way, !.waypoint_idx = 0]
           b == [a EXCEPT !.waypoint_idx = 1]
<1>1. AgentOK(agent) /\ elapsed \in Nat /\ course \in Courses /\ goal \in Points \cup {NULL}
  BY TypeOfAgent DEF Inv
<1>2. Len(way) \in Nat /\ \A i \in 1..Len(way) : way[i] \in Int /\ way[i] \in Points
  BY PathsArePoints
<1>3. round' = round /\ round = TRUE
  BY DEF HandleMoveToCoord, Inv, TypeOK
<1>4. /\ a \in Agents /\ b \in Agents
      /\ a.speed = agent.speed /\ a.position = agent.position
      /\ a.destination = agent.destination /\ a.direction = agent.direction
      /\ a.waypoints = way /\ a.waypoint_idx = 0
      /\ b.waypoints = way /\ b.waypoint_idx = 1
  BY <1>1 DEF AgentOK, Agents
<1>5. CASE way = <<>>
  <2>1. agent' = a /\ told' = told /\ course' = course /\ elapsed' = elapsed
        /\ goal' = IF a.speed THEN a.destination ELSE goal
    BY <1>5 DEF HandleMoveToCoord, a
  <2> HIDE DEF a, b
  <2>2. AgentOK(agent)'
    BY <1>2, <1>4, <2>1 DEF AgentOK
  <2>3. goal' \in Points \cup {NULL}
    BY <1>1, <1>4, <2>1 DEF Inv
  <2>4. Len(way) = 0
    BY <1>5
  <2>5. NeverBack' /\ KnowsTheWay' /\ ReachesItsGoal' /\ HeadsForItsDestination'
        /\ ClientsAreTold'
    BY <1>4, <2>1, <2>4
       DEF Inv, NeverBack, KnowsTheWay, ReachesItsGoal, HeadsForItsDestination, ClientsAreTold
  <2>6. elapsed' \in 0..(MaxTickTime + MaxDelta) /\ round' \in BOOLEAN /\ course' \in Courses
    BY <1>1, <1>3, <2>1 DEF Inv, TypeOK
  <2>7. TypeOK'
    BY <2>2, <2>3, <2>6, AgentOfType DEF TypeOK
  <2> QED
    BY <1>3, <1>4, <2>1, <2>5, <2>7 DEF Inv
<1>6. CASE way # <<>>
  <2>1. /\ agent' = UpdateAgentDestination(Ticked(b), way[1])
        /\ told' = [to |-> way[1]] /\ goal' = way[Len(way)]
        /\ course' = (IF Turns(b) THEN "cut" ELSE "followed") /\ elapsed' = 0
    BY <1>6 DEF HandleMoveToCoord, a, b
  <2> HIDE DEF a, b
  <2>2. Len(way) >= 1
    BY <1>2, <1>6, NonEmptyPath
  <2>3. way[1] \in Int /\ way[1] \in Points /\ way[Len(way)] \in Points
    BY <1>2, <2>2
  <2>4. AgentOK(b) /\ AgentOK(Ticked(b))
    BY <1>1, <1>2, <1>4, <2>2, TickedOK DEF AgentOK
  <2>5. /\ agent' \in Agents
        /\ agent'.destination = way[1]
        /\ agent'.speed = TRUE /\ agent'.direction = Heading(agent'.position, way[1])
        /\ agent'.waypoint_idx = Ticked(b).waypoint_idx
        /\ agent'.waypoints = Ticked(b).waypoints
    <3> DEFINE t == Ticked(b)
    <3>1. t \in Agents /\ agent' = UpdateAgentDestination(t, way[1])
      BY <2>1, <2>4 DEF AgentOK
    <3> HIDE DEF t
    <3>0. way[1] \in Floats
      BY <2>3 DEF Floats
    <3>2. /\ agent' \in Agents /\ agent'.position = t.position
          /\ agent'.destination = way[1]
          /\ agent'.speed = TRUE /\ agent'.direction = Heading(t.position, way[1])
          /\ agent'.waypoint_idx = t.waypoint_idx /\ agent'.waypoints = t.waypoints
      BY <3>0, <3>1, SetOut
    <3> QED
      BY <3>2 DEF t
  <2>6. AgentOK(agent)'
    BY <2>4, <2>5 DEF AgentOK
  <2>7. HeadsForItsDestination' /\ ClientsAreTold'
    BY <2>1, <2>5 DEF HeadsForItsDestination, ClientsAreTold
  <2>8. ReachesItsGoal'
    <3> SUFFICES ASSUME course' = "followed"
                 PROVE  goal' = IF agent'.waypoint_idx < Len(agent'.waypoints)
                                THEN Last(agent'.waypoints) ELSE agent'.destination
      BY <2>5 DEF ReachesItsGoal
    <3>1. ~Turns(b)
      BY <2>1
    <3>2. CASE elapsed = 0 \/ ~Reaches(b, elapsed)
      <4>1. Ticked(b).waypoint_idx = 1 /\ Ticked(b).waypoints = way
        BY <1>1, <1>4, <2>4, <3>2, WalksOn DEF Ticked
      <4> QED
        BY <1>2, <2>1, <2>2, <2>5, <4>1 DEF Last
    <3>3. CASE elapsed # 0 /\ Reaches(b, elapsed)
      <4>1. ~TakesNext(b, elapsed)
        BY <1>1, <3>1, <3>3 DEF Turns
      <4>2. /\ Ticked(b).waypoint_idx = 0 /\ Ticked(b).waypoints = <<>>
            /\ Len(way) = 1
        BY <1>1, <1>4, <2>4, <3>3, <4>1, Arrives DEF Ticked
      <4> QED
        BY <2>1, <2>5, <4>2, EmptyPath
    <3> QED
      BY <3>2, <3>3
  <2>9. elapsed' \in 0..(MaxTickTime + MaxDelta) /\ round' \in BOOLEAN /\ course' \in Courses
    BY <1>3, <2>1, Bounds DEF Courses
  <2>10. TypeOK'
    BY <2>1, <2>3, <2>6, <2>9, AgentOfType DEF TypeOK
  <2>11. NeverBack'
    <3>1. CASE elapsed = 0 \/ ~Reaches(b, elapsed)
      <4>1. Ticked(b).waypoint_idx = 1 /\ Ticked(b).waypoints = way
        BY <1>1, <1>4, <2>4, <3>1, WalksOn DEF Ticked
      <4> QED
        BY <2>2, <2>5, <4>1, PathsArePoints DEF NeverBack
    <3>2. CASE elapsed # 0 /\ Reaches(b, elapsed) /\ ~TakesNext(b, elapsed)
      <4>1. Ticked(b).waypoints = <<>>
        BY <1>1, <2>4, <3>2, Arrives DEF Ticked
      <4> QED
        BY <2>5, <4>1, EmptyPath DEF NeverBack
    <3>3. CASE elapsed # 0 /\ TakesNext(b, elapsed)
      <4>1. \/ Ticked(b).waypoint_idx = 2 /\ Ticked(b).waypoints = way
            \/ Ticked(b).waypoints = <<>>
        BY <1>1, <1>4, <2>4, <3>3, TurnsAtWaypoint DEF Ticked
      <4>2. CASE Ticked(b).waypoints = <<>>
        BY <2>5, <4>2, EmptyPath DEF NeverBack
      <4>3. CASE Ticked(b).waypoint_idx = 2 /\ Ticked(b).waypoints = way
        BY <2>2, <2>5, <4>3, PathsArePoints DEF NeverBack
      <4> QED
        BY <4>1, <4>2, <4>3
    <3> QED
      BY <3>1, <3>2, <3>3 DEF TakesNext
  <2>12. KnowsTheWay'
    <3> SUFFICES ASSUME agent'.position # NaN, agent'.position # way[1]
                 PROVE  Heading(agent'.position, way[1]) # NaN
      BY <2>5 DEF KnowsTheWay
    <3>1. agent'.position \in Int
      BY <2>5 DEF Agents, Floats
    <3> QED
      BY <2>3, <3>1, HeadingFacts, MovementAssumption DEF Floats
  <2> QED
    BY <1>3, <2>3, <2>5, <2>7, <2>8, <2>10, <2>11, <2>12 DEF Inv
<1> QED
  BY <1>5, <1>6

LEMMA CancelKeeps ==
  ASSUME Inv, NEW a, AgentOK(a), agent' = Cancelled(a), round,
         told' = [to |-> NULL] \/ told' = [at |-> agent'.position],
         course' = "cancelled", elapsed' = 0, UNCHANGED <<round, goal>>
  PROVE  Inv'
<1> DEFINE b == Ticked(a)
<1>1. AgentOK(b) /\ goal \in Points \cup {NULL}
  BY TickedOK, TypeOfAgent DEF Inv
<1>2. agent' = [b EXCEPT !.destination = b.position, !.speed = FALSE]
  BY DEF Cancelled
<1> HIDE DEF b
<1>3. /\ agent' \in Agents /\ agent'.speed = FALSE
      /\ agent'.waypoint_idx = b.waypoint_idx /\ agent'.waypoints = b.waypoints
  BY <1>1, <1>2 DEF AgentOK, Agents
<1>4. AgentOK(agent)'
  BY <1>1, <1>3 DEF AgentOK
<1>5. elapsed' \in 0..(MaxTickTime + MaxDelta) /\ round' \in BOOLEAN /\ course' \in Courses
  BY Bounds DEF Inv, TypeOK, Courses
<1>6. TypeOK'
  BY <1>1, <1>4, <1>5, AgentOfType DEF TypeOK
<1>7. NeverBack' /\ KnowsTheWay' /\ ReachesItsGoal' /\ HeadsForItsDestination'
      /\ ClientsAreTold'
  BY <1>3 DEF NeverBack, KnowsTheWay, ReachesItsGoal, HeadsForItsDestination, ClientsAreTold
<1> QED
  BY <1>3, <1>6, <1>7 DEF Inv

LEMMA NoPathOK ==
  ASSUME AgentOK(agent), NEW way \in Paths
  PROVE  AgentOK([agent EXCEPT !.waypoints = way, !.waypoint_idx = 0])
<1> DEFINE a == [agent EXCEPT !.waypoints = way, !.waypoint_idx = 0]
<1>1. a \in Agents /\ a.waypoints = way /\ a.waypoint_idx = 0
  BY DEF AgentOK, Agents
<1> HIDE DEF a
<1>2. AgentOK(a)
  BY <1>1, PathsArePoints DEF AgentOK
<1> QED
  BY <1>2 DEF a

LEMMA CorrectionKeeps ==
  ASSUME Inv, NEW p \in Points, HandleLastPosOnMoveCanceled(p)
  PROVE  Inv'
<1>1. AgentOK(agent) /\ goal \in Points \cup {NULL} /\ p \in Int
  BY TypeOfAgent, Bounds DEF Inv
<1>2. /\ agent' = [agent EXCEPT !.position = p] /\ course' = "corrected"
      /\ UNCHANGED <<elapsed, round, told, goal>> /\ round
  BY DEF HandleLastPosOnMoveCanceled
<1>3. /\ agent' \in Agents /\ agent'.speed = agent.speed
      /\ agent'.destination = agent.destination
      /\ agent'.waypoint_idx = agent.waypoint_idx /\ agent'.waypoints = agent.waypoints
  BY <1>1, <1>2 DEF AgentOK, Agents, Floats
<1>4. AgentOK(agent)'
  BY <1>1, <1>3 DEF AgentOK
<1>5. TypeOK'
  BY <1>1, <1>2, <1>4, AgentOfType DEF Inv, TypeOK, Courses
<1>6. NeverBack' /\ KnowsTheWay' /\ ReachesItsGoal' /\ HeadsForItsDestination'
      /\ ClientsAreTold'
  BY <1>2, <1>3 DEF Inv, NeverBack, KnowsTheWay, ReachesItsGoal, HeadsForItsDestination,
                    ClientsAreTold
<1> QED
  BY <1>2, <1>3, <1>5, <1>6 DEF Inv

LEMMA TickStep ==
  ASSUME Inv, WorldTick, round' \in BOOLEAN
  PROVE  Inv'
<1>1. elapsed' \in 0..(MaxTickTime + MaxDelta) /\ elapsed' < MaxTickTime
  BY TickKeeps, Bounds
<1>2. goal' \in Points \cup {NULL}
  BY TickKeeps, TypeOfAgent DEF Inv
<1>3. TypeOK'
  BY <1>1, <1>2, TickKeeps, AgentOfType DEF TypeOK
<1> QED
  BY <1>1, <1>3, TickKeeps DEF Inv

LEMMA InvStep == Inv /\ [Next]_vars => Inv'
<1> SUFFICES ASSUME Inv, [Next]_vars PROVE Inv'
  OBVIOUS
<1>1. AgentOK(agent) /\ elapsed \in Nat /\ round \in BOOLEAN
  BY TypeOfAgent DEF Inv
<1>2. ASSUME NEW way \in Paths, HandleMoveToCoord(way) PROVE Inv'
  BY <1>2, MoveKeeps
<1>3. ASSUME NEW way \in Paths, HandleMoveToCoord_NoPath(way) PROVE Inv'
  BY <1>1, <1>3, NoPathOK, CancelKeeps DEF HandleMoveToCoord_NoPath
<1>4. ASSUME NEW stuck \in BOOLEAN, HandleCancelMovement(stuck) PROVE Inv'
  BY <1>1, <1>4, CancelKeeps DEF HandleCancelMovement
<1>5. ASSUME NEW p \in Points, HandleLastPosOnMoveCanceled(p) PROVE Inv'
  BY <1>5, CorrectionKeeps
<1>6. CASE OtherPlayerMoves
  BY <1>1, <1>6, TickStep DEF OtherPlayerMoves
<1>7. CASE UpdateEnds
  <2>1. round' = FALSE
    BY <1>7 DEF UpdateEnds
  <2>2. CASE MaxTickTime <= elapsed
    BY <1>7, <2>1, <2>2, TickStep DEF UpdateEnds
  <2>3. CASE ~(MaxTickTime <= elapsed)
    <3>1. UNCHANGED <<agent, elapsed, told, goal, course>> /\ elapsed < MaxTickTime
      BY <1>1, <1>7, <2>3, Bounds DEF UpdateEnds
    <3> QED
      BY <2>1, <3>1 DEF Inv, TypeOK, NeverBack, KnowsTheWay, ReachesItsGoal,
                        HeadsForItsDestination, ClientsAreTold
  <2> QED
    BY <2>2, <2>3
<1>8. ASSUME NEW delta \in 0..MaxDelta, UpdateStarts(delta) PROVE Inv'
  <2>1. /\ UNCHANGED <<agent, told, goal, course>> /\ round' = TRUE
        /\ elapsed' = elapsed + delta /\ elapsed < MaxTickTime
    BY <1>8 DEF UpdateStarts, Inv
  <2>2. elapsed' \in 0..(MaxTickTime + MaxDelta)
    BY <1>1, <2>1, Bounds
  <2> QED
    BY <2>1, <2>2 DEF Inv, TypeOK, NeverBack, KnowsTheWay, ReachesItsGoal,
                      HeadsForItsDestination, ClientsAreTold
<1>9. CASE UNCHANGED vars
  BY <1>9 DEF vars, Inv, TypeOK, NeverBack, KnowsTheWay, ReachesItsGoal,
              HeadsForItsDestination, ClientsAreTold
<1> QED
  BY <1>2, <1>3, <1>4, <1>5, <1>6, <1>7, <1>8, <1>9 DEF Next, PlayerMoves

LEMMA InvInit == Init => Inv
<1> SUFFICES ASSUME Init PROVE Inv
  OBVIOUS
<1>1. PICK p \in Points :
        agent = [position |-> p, destination |-> 0, direction |-> 0,
                 speed |-> FALSE, waypoint_idx |-> 0, waypoints |-> <<>>]
  BY DEF Init
<1>2. p \in Int /\ <<>> \in Paths /\ Len(<<>>) = 0
  BY Bounds, EmptyPath
<1>3. agent \in Agents /\ agent.speed = FALSE /\ agent.waypoint_idx = 0 /\ agent.waypoints = <<>>
  BY <1>1, <1>2 DEF Agents, Floats
<1>4. AgentOK(agent)
  BY <1>2, <1>3 DEF AgentOK
<1>5. elapsed \in 0..(MaxTickTime + MaxDelta) /\ elapsed < MaxTickTime /\ round = FALSE
  BY Bounds DEF Init
<1>6. TypeOK
  BY <1>4, <1>5, AgentOfType DEF Init, TypeOK, Courses
<1>7. NeverBack /\ KnowsTheWay /\ ReachesItsGoal /\ HeadsForItsDestination /\ ClientsAreTold
  BY <1>3 DEF Init, NeverBack, KnowsTheWay, ReachesItsGoal, HeadsForItsDestination, ClientsAreTold
<1> QED
  BY <1>3, <1>5, <1>6, <1>7 DEF Inv

-----------------------------------------------------------------------------
(* What follows *)

LEMMA Invariance == Spec => []Inv
  BY InvInit, InvStep, PTL DEF Spec

\* Every variable keeps its type: an agent never has more waypoints behind it
\* than its path has, and a round plays no more time than it can have.
THEOREM TypeCorrect == Spec => []TypeOK
<1>1. Inv => TypeOK
  BY DEF Inv
<1> QED
  BY <1>1, Invariance, PTL

\* Whatever ticks come in between, an agent that followed its path to where it
\* stands has come to the end of it.
THEOREM PathIsFollowed == Spec => []ReachesItsGoal
<1>1. Inv => ReachesItsGoal
  BY DEF Inv
<1> QED
  BY <1>1, Invariance, PTL

\* A walking agent looks where it goes, as long as it has not passed a waypoint
\* and its client has not moved it.
THEOREM DestinationIsAhead == Spec => []HeadsForItsDestination
<1>1. Inv => HeadsForItsDestination
  BY DEF Inv
<1> QED
  BY <1>1, Invariance, PTL

\* The clients know where a walking agent goes and where a standing one stands.
THEOREM ClientsKnow == Spec => []ClientsAreTold
<1>1. Inv => ClientsAreTold
  BY DEF Inv
<1> QED
  BY <1>1, Invariance, PTL

-----------------------------------------------------------------------------
(* The pace *)

LEMMA NoTimeNoWay ==
  ASSUME NEW p \in Int
  PROVE  Distance(p, p) = 0
  BY DistanceFacts

LEMMA TickedIsNear ==
  ASSUME NEW a, AgentOK(a), elapsed \in Nat, NEW q, q = Ticked(a).position
  PROVE  /\ a.position \in Floats /\ q \in Floats
         /\ a.position = NaN => q = NaN
         /\ a.position \in Int /\ q \in Int => Distance(a.position, q) <= elapsed
         /\ a.position \in Int /\ q = NaN =>
              \/ a.speed /\ a.direction = NaN /\ ~Reaches(a, elapsed)
              \/ /\ TakesNext(a, elapsed)
                 /\ Ticked(a).waypoints = a.waypoints
                 /\ Ticked(a).waypoint_idx = a.waypoint_idx + 1
                 /\ a.waypoints[a.waypoint_idx + 1] = a.destination
<1>0. a.position \in Floats /\ a.direction \in {-1, 0, 1, NaN} /\ a.speed \in BOOLEAN
  BY DEF AgentOK, Agents
<1>1. q \in Floats
  BY TickedOK DEF AgentOK, Agents
<1>2. CASE elapsed = 0 \/ (~Reaches(a, elapsed) /\ ~a.speed)
  <2>1. q = a.position
    BY <1>2, WalksOn DEF Ticked
  <2> QED
    BY <1>0, <1>1, <2>1, NoTimeNoWay, MovementAssumption DEF Floats
<1>3. CASE elapsed # 0 /\ ~Reaches(a, elapsed) /\ a.speed
  <2>1. q = Forward(a.position, a.direction, elapsed)
    BY <1>3, WalksOn DEF Ticked
  <2> QED
    BY <1>0, <1>1, <1>3, <2>1, WalkIsShort
<1>4. CASE elapsed # 0 /\ Reaches(a, elapsed) /\ ~TakesNext(a, elapsed)
  <2>1. q = a.destination
    BY <1>4, Arrives DEF Ticked
  <2> QED
    BY <1>0, <1>1, <1>4, <2>1, AgentReaches, MovementAssumption
<1>5. CASE elapsed # 0 /\ TakesNext(a, elapsed)
  <2> DEFINE w == a.waypoints[a.waypoint_idx + 1]
             left == elapsed - Distance(a.position, a.destination)
             d == Heading(a.destination, w)
  <2>1. /\ left \in Nat /\ w \in Int /\ a.destination \in Int
        /\ q = Forward(a.destination, d, left)
        /\ IF Ticked(a).speed
           THEN Ticked(a).waypoints = a.waypoints /\ Ticked(a).waypoint_idx = a.waypoint_idx + 1
           ELSE q = w
    BY <1>5, TurnsAtWaypoint DEF Ticked
  <2>2. /\ Distance(a.position, a.destination) \in Nat /\ a.position \in Int
        /\ Distance(a.position, a.destination) + left = elapsed
    BY <1>5, AgentReaches DEF TakesNext
  <2>3. a.destination \in Floats /\ w \in Floats
    BY <2>1 DEF Floats
  <2>4. d \in {-1, 0, 1, NaN}
    BY <2>3, HeadingFacts
  <2>5. CASE q \in Int
    <3> HIDE DEF w, left, d
    <3>1. Distance(a.destination, q) <= left
      BY <2>1, <2>3, <2>4, <2>5, WalkIsShort
    <3>2. Distance(a.destination, q) \in Nat /\ Distance(a.position, q) \in Nat
      BY <2>1, <2>2, <2>5, DistanceFacts
    <3>3. Distance(a.position, q) <= Distance(a.position, a.destination) + Distance(a.destination, q)
      BY <2>1, <2>2, <2>5, Triangle
    <3>4. Distance(a.position, q) <= elapsed
      BY <2>1, <2>2, <3>1, <3>2, <3>3
    <3> QED
      BY <1>0, <1>1, <2>2, <2>5, <3>4, MovementAssumption
  <2>6. CASE q = NaN
    <3>1. d = NaN
      <4> HIDE DEF w, left, d
      <4>1. Forward(a.destination, d, left) = NaN
        BY <2>1, <2>6
      <4>2. a.destination \in Int /\ left \in Nat /\ a.destination \in Floats
        BY <2>1, <2>3
      <4> QED
        BY <2>4, <4>1, <4>2, LostOnTheWay
    <3>2. w = a.destination
      BY <2>1, <2>3, <3>1, HeadingFacts, MovementAssumption
    <3>3. Ticked(a).speed
      BY <2>1, <2>6, MovementAssumption
    <3> QED
      BY <1>0, <1>1, <1>5, <2>1, <2>2, <2>6, <3>2, <3>3, MovementAssumption
  <2> QED
    BY <1>1, <2>5, <2>6 DEF Floats
<1> QED
  BY <1>2, <1>3, <1>4, <1>5 DEF TakesNext

Pace ==
  IF agent.position = NaN
  THEN agent'.position = NaN \/ (course' = "corrected" /\ UNCHANGED elapsed)
  ELSE IF agent'.position = NaN
  THEN (course = "corrected" /\ agent.direction = NaN) \/ TurnsOnTheSpot
  ELSE Distance(agent.position, agent'.position) <=
         IF elapsed' < elapsed THEN elapsed
         ELSE IF course' = "corrected" THEN MaxCorrection
         ELSE 0

\* A tick takes an agent only as far as there was time, when the clock is set
\* back behind it.  Here a is the agent, perhaps with the waypoints of a new path.
LEMMA ClockSetBack ==
  ASSUME Inv, NEW a, AgentOK(a), elapsed' = 0,
         agent'.position = Ticked(a).position,
         a.position = agent.position, a.destination = agent.destination,
         a.direction = agent.direction, a.speed = agent.speed,
         \/ a = agent
         \/ /\ agent'.waypoints = Ticked(a).waypoints
            /\ agent'.waypoint_idx = Ticked(a).waypoint_idx
  PROVE  Pace
<1> DEFINE q == Ticked(a).position
<1>1. AgentOK(agent) /\ elapsed \in Nat
  BY TypeOfAgent DEF Inv
<1>2. agent'.position = q
  OBVIOUS
<1>3. /\ agent.position \in Floats /\ q \in Floats
      /\ agent.position = NaN => q = NaN
      /\ agent.position \in Int /\ q \in Int => Distance(agent.position, q) <= elapsed
      /\ agent.position \in Int /\ q = NaN =>
           \/ agent.speed /\ agent.direction = NaN /\ ~Reaches(a, elapsed)
           \/ /\ TakesNext(a, elapsed)
              /\ Ticked(a).waypoints = a.waypoints
              /\ Ticked(a).waypoint_idx = a.waypoint_idx + 1
              /\ a.waypoints[a.waypoint_idx + 1] = agent.destination
  BY <1>1, TickedIsNear
<1>4. Reaches(a, elapsed) <=> Reaches(agent, elapsed)
  BY DEF Reaches
<1> HIDE DEF q
<1>5. CASE agent.position = NaN
  BY <1>2, <1>3, <1>5 DEF Pace
<1>6. CASE agent.position \in Int /\ q \in Int
  <2>1. Distance(agent.position, q) \in Nat /\ Distance(agent.position, q) <= elapsed
    BY <1>3, <1>6, DistanceFacts
  <2>2. agent.position # NaN /\ q # NaN
    BY <1>6, MovementAssumption
  <2>3. elapsed = 0 => Distance(agent.position, q) = 0
    BY <2>1
  <2>4. elapsed # 0 => elapsed' < elapsed
    BY <1>1
  <2> QED
    BY <1>1, <1>2, <2>1, <2>2, <2>3, <2>4, Bounds DEF Pace
<1>7. CASE agent.position \in Int /\ q = NaN
  <2>1. agent.position # NaN
    BY <1>7, MovementAssumption
  <2>2. CASE agent.speed /\ agent.direction = NaN /\ ~Reaches(a, elapsed)
    <3>1. agent.destination \in Int
      BY <2>2, Bounds DEF Inv
    <3>2. agent.position # agent.destination
      <4> SUFFICES ASSUME agent.position = agent.destination PROVE FALSE
        OBVIOUS
      <4>1. Distance(agent.position, agent.destination) = 0
        BY <1>7, <3>1, DistanceFacts
      <4>2. Within(agent.position, agent.destination, elapsed)
        BY <1>1, <1>7, <3>1, <4>1, Near
      <4> QED
        BY <1>4, <2>2, <4>2 DEF Reaches
    <3>3. course = "corrected"
      BY <2>1, <2>2, <3>2 DEF Inv, KnowsTheWay
    <3> QED
      BY <1>2, <1>7, <2>1, <2>2, <3>3 DEF Pace
  <2>3. CASE /\ TakesNext(a, elapsed)
             /\ Ticked(a).waypoints = a.waypoints
             /\ Ticked(a).waypoint_idx = a.waypoint_idx + 1
             /\ a.waypoints[a.waypoint_idx + 1] = agent.destination
    <3>1. a.waypoint_idx \in Nat /\ Len(a.waypoints) \in Nat /\ a.waypoint_idx < Len(a.waypoints)
      BY <2>3, PathsArePoints DEF TakesNext, AgentOK, Agents
    <3>2. Reaches(agent, elapsed) /\ agent.speed
      BY <1>4, <2>3 DEF TakesNext, Reaches
    <3>3. a # agent
      BY <2>3, <3>1, <3>2 DEF Inv, NeverBack
    <3>4. TurnsOnTheSpot
      BY <2>3, <3>1, <3>2, <3>3 DEF TurnsOnTheSpot
    <3> QED
      BY <1>2, <1>7, <2>1, <3>4 DEF Pace
  <2> QED
    BY <1>3, <1>7, <2>2, <2>3
<1> QED
  BY <1>3, <1>5, <1>6, <1>7 DEF Floats

LEMMA Stays ==
  ASSUME Inv, agent'.position = agent.position
  PROVE  Pace
<1>1. agent.position \in Floats /\ elapsed \in Nat
  BY TypeOfAgent DEF Inv, AgentOK, Agents
<1>2. agent.position \in Int => Distance(agent.position, agent'.position) = 0
  BY NoTimeNoWay
<1> QED
  BY <1>1, <1>2, Bounds DEF Pace, Floats

LEMMA PaceStep == Inv /\ [Next]_vars => Pace
<1> SUFFICES ASSUME Inv, [Next]_vars PROVE Pace
  OBVIOUS
<1>1. AgentOK(agent) /\ elapsed \in Nat
  BY TypeOfAgent DEF Inv
<1>2. CASE WorldTick
  BY <1>1, <1>2, ClockSetBack DEF WorldTick
<1>3. ASSUME NEW a, AgentOK(a), agent' = Cancelled(a)
      PROVE  /\ agent'.position = Ticked(a).position
             /\ agent'.waypoints = Ticked(a).waypoints
             /\ agent'.waypoint_idx = Ticked(a).waypoint_idx
  BY <1>1, <1>3, TickedOK DEF Cancelled, AgentOK, Agents
<1>4. ASSUME NEW way \in Paths, HandleMoveToCoord(way) PROVE Pace
  <2> DEFINE a == [agent EXCEPT !.waypoints = way, !.waypoint_idx = 0]
             b == [a EXCEPT !.waypoint_idx = 1]
  <2>1. /\ a.position = agent.position /\ b.position = agent.position
        /\ b.destination = agent.destination /\ b.direction = agent.direction
        /\ b.speed = agent.speed
        /\ b \in Agents /\ b.waypoint_idx = 1 /\ b.waypoints = way
    BY <1>1 DEF AgentOK, Agents
  <2>2. CASE way = <<>>
    <3>1. agent' = a
      BY <1>4, <2>2 DEF HandleMoveToCoord
    <3> QED
      BY <2>1, <3>1, Stays
  <2>3. CASE way # <<>>
    <3>1. agent' = UpdateAgentDestination(Ticked(b), way[1]) /\ elapsed' = 0
      BY <1>4, <2>3 DEF HandleMoveToCoord
    <3> HIDE DEF a, b
    <3>2. 1 <= Len(way) /\ way[1] \in Floats
      BY <2>3, NonEmptyPath, PathsArePoints DEF Floats
    <3>3. AgentOK(b)
      BY <2>1, <3>2 DEF AgentOK
    <3>4. Ticked(b) \in Agents
      BY <1>1, <3>3, TickedOK DEF AgentOK
    <3>5. /\ agent'.position = Ticked(b).position
          /\ agent'.waypoints = Ticked(b).waypoints
          /\ agent'.waypoint_idx = Ticked(b).waypoint_idx
      BY <3>1, <3>2, <3>4, SetOut
    <3> QED
      BY <2>1, <3>1, <3>3, <3>5, ClockSetBack
  <2> QED
    BY <2>2, <2>3
<1>5. ASSUME NEW way \in Paths, HandleMoveToCoord_NoPath(way) PROVE Pace
  <2> DEFINE a == [agent EXCEPT !.waypoints = way, !.waypoint_idx = 0]
  <2>1. /\ a.position = agent.position /\ a.destination = agent.destination
        /\ a.direction = agent.direction /\ a.speed = agent.speed /\ AgentOK(a)
    BY <1>1, NoPathOK DEF AgentOK, Agents
  <2>2. agent' = Cancelled(a) /\ elapsed' = 0
    BY <1>5 DEF HandleMoveToCoord_NoPath
  <2> HIDE DEF a
  <2>3. /\ agent'.position = Ticked(a).position
        /\ agent'.waypoints = Ticked(a).waypoints
        /\ agent'.waypoint_idx = Ticked(a).waypoint_idx
    BY <1>3, <2>1, <2>2
  <2> QED
    BY <2>1, <2>2, <2>3, ClockSetBack
<1>6. ASSUME NEW stuck \in BOOLEAN, HandleCancelMovement(stuck) PROVE Pace
  <2>1. agent' = Cancelled(agent) /\ elapsed' = 0
    BY <1>6 DEF HandleCancelMovement
  <2>2. agent'.position = Ticked(agent).position
    BY <1>1, <1>3, <2>1
  <2> QED
    BY <1>1, <2>1, <2>2, ClockSetBack
<1>7. ASSUME NEW p \in Points, HandleLastPosOnMoveCanceled(p) PROVE Pace
  <2>1. /\ agent'.position = p /\ course' = "corrected" /\ elapsed' = elapsed
        /\ agent.position # NaN => Distance(agent.position, p) <= MaxCorrection
    BY <1>1, <1>7 DEF HandleLastPosOnMoveCanceled, AgentOK, Agents
  <2>2. p # NaN
    BY MovementAssumption
  <2> QED
    BY <1>1, <2>1, <2>2 DEF Pace
<1>8. CASE OtherPlayerMoves
  BY <1>2, <1>8 DEF OtherPlayerMoves
<1>9. CASE UpdateEnds
  BY <1>2, <1>9, Stays DEF UpdateEnds
<1>10. ASSUME NEW delta \in 0..MaxDelta, UpdateStarts(delta) PROVE Pace
  BY <1>10, Stays DEF UpdateStarts
<1>11. CASE UNCHANGED vars
  BY <1>11, Stays DEF vars
<1> QED
  BY <1>4, <1>5, <1>6, <1>7, <1>8, <1>9, <1>10, <1>11 DEF Next, PlayerMoves

\* No step takes an agent further than its speed does in the time that the step
\* plays, or than a correction may, as long as it is somewhere.  It stops being
\* so in two ways only, and is put back only by its client.
THEOREM PaceIsKept == Spec => KeepsItsPace
<1>1. Inv /\ [Next]_vars => [Pace]_vars
  BY PaceStep
<1>2. KeepsItsPace <=> [][Pace]_vars
  BY DEF KeepsItsPace, Pace
<1> QED
  BY <1>1, <1>2, Invariance, PTL DEF Spec
=============================================================================
