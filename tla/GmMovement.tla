----------------------------- MODULE GmMovement -----------------------------
(***************************************************************************)
(* How a player's agent walks (GmAgent.c): orders of its player, and the   *)
(* ticks of the world, which come at the end of a round that is late and   *)
(* in the middle of a round whenever any player gives an order.            *)
(*                                                                         *)
(* One agent is followed; of the others only the ticks they bring about    *)
(* matter.  Places are the integers of a line, folded: a way with corners  *)
(* turns back on it.  The agent walks one place in a unit of time.         *)
(*                                                                         *)
(* Positions are floats: a direction is a difference divided by its own    *)
(* length, which is no number where that is 0, and what is computed from   *)
(* it is no number either (NaN).  Clients and the path finder send numbers.*)
(***************************************************************************)
EXTENDS Integers, SequencesExt, Functions

CONSTANTS
  Points,         \* places the path finder sends an agent to
  Furthest,       \* bound: an agent off its path is followed that far from 0
  MaxWaypoints,   \* bound: waypoints of a path
  MaxDelta,       \* bound: time between two rounds
  MaxTickTime,    \* GAME_SRV_MAX_TIME_BETWEEN_WORLD_TICK_MS
  MaxCorrection,  \* MAXIMUM_ALLOWED_CORRECTION
  NaN,            \* a float that is no number
  NULL

ASSUME MovementAssumption ==
  /\ Points \subseteq Int
  /\ NaN \notin Int
  /\ {Furthest, MaxWaypoints, MaxCorrection} \subseteq Nat
  /\ {MaxDelta, MaxTickTime} \subseteq Nat \ {0}

VARIABLES
  agent,    \* the agent: speed is whether it has its base speed or none
  elapsed,  \* current_frame_time - last_world_tick
  round,    \* whether GameSrv_Update is under way
  told,     \* what the clients were told last of the agent, NULL: where it is
  goal,     \* history: where the last path leads
  course    \* history: what became of that path

vars == <<agent, elapsed, round, told, goal, course>>

Ways(n) == UNION {[1..k -> Points] : k \in 0..n}

\* What PathFinding returns: no point comes twice.
Paths == {way \in Ways(MaxWaypoints) : IsInjective(way)}

Courses == {"followed", "cut", "passed", "cancelled", "corrected"}

Distance(p, q) == IF p < q THEN q - p ELSE p - q

\* Comparisons with NaN fail, so it is in no distance of anything.
Within(p, q, dist) == NaN \notin {p, q} /\ Distance(p, q) <= dist

\* The way to go from p to q: 0 divided by 0 where there is none.
Heading(p, q) == IF NaN \in {p, q} \/ p = q THEN NaN ELSE IF p < q THEN 1 ELSE -1

Forward(p, direction, dist) == IF dist = 0 THEN p
                               ELSE IF NaN \in {p, direction} THEN NaN
                               ELSE p + direction * dist

Init == /\ \E p \in Points : agent = [position |-> p, destination |-> 0, direction |-> 0,
                                      speed |-> FALSE, waypoint_idx |-> 0, waypoints |-> <<>>]
        /\ elapsed = 0
        /\ round = FALSE
        /\ told = NULL
        /\ goal = NULL
        /\ course = "cancelled"

\* Slips this code could have had are kept next to what they would change; the
\* properties are checked to notice them.  Here: the old direction is kept.
UpdateAgentDestination_Straight(a, p) ==
  [a EXCEPT !.speed = TRUE, !.destination = p]

UpdateAgentDestination(a, p) ==
  [a EXCEPT !.speed = TRUE, !.destination = p, !.direction = Heading(a.position, p)]

NextWaypoint(a) ==
  [UpdateAgentDestination(a, a.waypoints[a.waypoint_idx + 1]) EXCEPT !.waypoint_idx = @ + 1]

Reaches(a, dist) == a.speed /\ Within(a.position, a.destination, dist)

\* A slip: the last waypoint is left out.
TakesNext_NotLast(a, dist) == Reaches(a, dist) /\ a.waypoint_idx + 1 < Len(a.waypoints)

TakesNext(a, dist) == Reaches(a, dist) /\ a.waypoint_idx < Len(a.waypoints)

\* A slip: what was walked to the waypoint is walked again behind it.
Walked_Twice(a, dist) ==
  IF TakesNext(a, dist)
  THEN LET b == NextWaypoint([a EXCEPT !.position = a.destination])
       IN  [b EXCEPT !.position = Forward(@, b.direction, dist)]
  ELSE IF Reaches(a, dist) THEN [a EXCEPT !.position = a.destination]
  ELSE [a EXCEPT !.position = Forward(@, a.direction, dist)]

\* What is left of the distance is walked towards the next waypoint, and past
\* it if it is nearer than that.
Walked(a, dist) ==
  IF TakesNext(a, dist)
  THEN LET b == NextWaypoint([a EXCEPT !.position = a.destination])
           rest == dist - Distance(a.position, a.destination)
       IN  [b EXCEPT !.position = Forward(@, b.direction, rest)]
  ELSE IF Reaches(a, dist) THEN [a EXCEPT !.position = a.destination]
  ELSE [a EXCEPT !.position = Forward(@, a.direction, dist)]

\* A slip: the waypoints are forgotten, but not how many were taken.
UpdateAgentMovement_Counts(a, dist) ==
  IF ~a.speed THEN a
  ELSE LET b == Walked(a, dist)
       IN  IF ~Within(b.position, b.destination, 0) THEN b
           ELSE [b EXCEPT !.destination = 0, !.speed = FALSE, !.waypoints = <<>>]

\* A slip: the agent that arrived is not stopped.
UpdateAgentMovement_GoesOn(a, dist) == IF ~a.speed THEN a ELSE Walked(a, dist)

UpdateAgentMovement(a, dist) ==
  IF ~a.speed THEN a
  ELSE LET b == Walked(a, dist)
       IN  IF ~Within(b.position, b.destination, 0) THEN b
           ELSE [b EXCEPT !.destination = 0, !.speed = FALSE, !.waypoint_idx = 0,
                          !.waypoints = <<>>]

\* What a tick of the world makes of the agent; the second one in a round
\* does nothing.
Ticked(a) == IF elapsed = 0 THEN a ELSE UpdateAgentMovement(a, elapsed)

Turns(a) == elapsed > 0 /\ TakesNext(a, elapsed)

\* A slip: the clients are not told of the next waypoint.
TickTold_Silent(a) == told

\* What the clients were told last after a tick.
TickTold(a) == IF Turns(a) THEN [to |-> a.waypoints[a.waypoint_idx + 1]] ELSE told

\* A history has no line of code.  A path is cut where what is left of the
\* distance ends on a waypoint before the last, and a waypoint is passed where
\* more is left than the way to it.
TickCourse(a) ==
  LET b == Ticked(a)
  IN  IF Turns(a) /\ ~b.speed /\ a.waypoint_idx + 1 < Len(a.waypoints) THEN "cut"
      ELSE IF Turns(a) /\ b.speed /\ b.direction # Heading(b.position, b.destination) THEN "passed"
      ELSE course

WorldTick == /\ agent' = Ticked(agent)
             /\ told' = TickTold(agent)
             /\ course' = TickCourse(agent)
             /\ elapsed' = 0
             /\ UNCHANGED goal

\* GameSrv_HandleMoveToCoord.  The waypoints are replaced and the first is
\* taken before the world ticks: an agent that reaches its old destination in
\* that tick takes the second, and is then sent to the first.
HandleMoveToCoord(way) ==
  /\ round
  /\ LET a == [agent EXCEPT !.waypoints = way, !.waypoint_idx = 0]
         b == [a EXCEPT !.waypoint_idx = 1]
     IN  IF way = <<>>
         THEN \* the path ends at the origin of the map
              /\ agent' = a
              /\ goal' = IF a.speed THEN a.destination ELSE goal
              /\ UNCHANGED <<told, course, elapsed>>
         ELSE /\ agent' = UpdateAgentDestination(Ticked(b), way[1])
              /\ told' = [to |-> way[1]]
              /\ goal' = way[Len(way)]
              /\ course' = IF Turns(b) THEN "cut" ELSE "followed"
              /\ elapsed' = 0
  /\ UNCHANGED round

\* GameSrv_CancelAgentMovement, after a tick; the waypoints stay.
Cancelled(a) == LET b == Ticked(a)
                IN  [b EXCEPT !.destination = b.position, !.speed = FALSE]

\* The same when no path is found, or only one to a point nearby.
HandleMoveToCoord_NoPath(way) ==
  /\ round
  /\ agent' = Cancelled([agent EXCEPT !.waypoints = way, !.waypoint_idx = 0])
  /\ told' = [at |-> agent'.position]
  /\ course' = "cancelled"
  /\ elapsed' = 0
  /\ UNCHANGED <<round, goal>>

\* GameSrv_HandleCancelMovement, which tells the clients to stop the agent, and
\* the chat command "stuck", which tells them where it is.
HandleCancelMovement(stuck) ==
  /\ round
  /\ agent' = Cancelled(agent)
  /\ told' = IF stuck THEN [at |-> agent'.position] ELSE [to |-> NULL]
  /\ course' = "cancelled"
  /\ elapsed' = 0
  /\ UNCHANGED <<round, goal>>

\* GameSrv_HandleLastPosOnMoveCanceled; the plane is the same here.  It is the
\* corrections that are further than allowed which are refused, and from an agent
\* that is nowhere none is.
HandleLastPosOnMoveCanceled(p) ==
  /\ round
  /\ agent.position # NaN => Distance(agent.position, p) <= MaxCorrection
  /\ agent' = [agent EXCEPT !.position = p]
  /\ course' = "corrected"
  /\ UNCHANGED <<elapsed, round, told, goal>>

\* Any of these for the agent of another player.
OtherPlayerMoves == round /\ WorldTick /\ UNCHANGED round

\* GameSrv_Update: the time is read once, at its start, and at its end the
\* world ticks if it has not for a while.
UpdateStarts(delta) ==
  /\ ~round
  /\ course \in {"passed", "corrected"} /\ agent.position # NaN =>
       Distance(0, agent.position) <= Furthest
  /\ round' = TRUE
  /\ elapsed' = elapsed + delta
  /\ UNCHANGED <<agent, told, goal, course>>

UpdateEnds ==
  /\ round
  /\ IF MaxTickTime <= elapsed THEN WorldTick
     ELSE UNCHANGED <<agent, elapsed, told, goal, course>>
  /\ round' = FALSE

PlayerMoves ==
  \/ \E way \in Paths : HandleMoveToCoord(way) \/ HandleMoveToCoord_NoPath(way)
  \/ \E stuck \in BOOLEAN : HandleCancelMovement(stuck)
  \/ \E p \in Points : HandleLastPosOnMoveCanceled(p)

Next == PlayerMoves \/ OtherPlayerMoves \/ UpdateEnds
        \/ \E delta \in 0..MaxDelta : UpdateStarts(delta)

Spec == Init /\ [][Next]_vars

\* The loop of the server goes on, and its clock does not stand still.
FairSpec == /\ Spec
            /\ WF_vars(UpdateEnds)
            /\ SF_vars(\E delta \in 1..MaxDelta : UpdateStarts(delta))

-----------------------------------------------------------------------------
(* Properties *)

TypeOK ==
  /\ agent \in [position     : Int \cup {NaN},
                destination  : Int \cup {NaN},
                direction    : {-1, 0, 1, NaN},
                speed        : BOOLEAN,
                waypoint_idx : 0..Len(agent.waypoints),
                waypoints    : Paths]
  /\ elapsed \in 0..(MaxTickTime + MaxDelta)
  /\ round \in BOOLEAN
  /\ goal \in Points \cup {NULL}
  /\ course \in Courses

\* An agent whose path was not cut, left or passed by walks to the end of it:
\* the end is what is ahead of it, and where it stands when it stopped, no
\* matter which ticks came in between.
ReachesItsGoal ==
  course = "followed" =>
    goal = IF ~agent.speed THEN agent.position
           ELSE IF agent.waypoint_idx < Len(agent.waypoints) THEN Last(agent.waypoints)
           ELSE agent.destination

\* A walking agent looks where it goes, so that every tick brings it nearer:
\* it was given its direction when it was given its destination, and no tick
\* since has taken it past.  It looks nowhere only if it is there, or nowhere.
HeadsForItsDestination ==
  agent.speed /\ course \in {"followed", "cut"} =>
    agent.direction = Heading(agent.position, agent.destination)

\* The clients, which walk the agents by themselves, were told last where a
\* walking agent goes, and where a standing one stands or that it stops.
ClientsAreTold ==
  IF agent.speed THEN told = [to |-> agent.destination]
  ELSE \/ told \in {NULL, [to |-> NULL], [to |-> agent.position], [at |-> agent.position]}
       \/ course = "corrected"

\* The tick that an order begins with takes the agent to where it was going, and
\* from there to a waypoint of the new path that is the same place.
TurnsOnTheSpot ==
  /\ Reaches(agent, elapsed)
  /\ agent'.waypoint_idx > 0
  /\ agent'.waypoints[agent'.waypoint_idx] = agent.destination

\* An agent is never further from where it was than its speed takes it in the
\* time that the tick plays, also when it turns at a waypoint, when an order is
\* handled in the same round or when its client corrects it.  Its place is lost
\* only if it was ordered to where it was and corrected then, or if it turns on
\* the spot; and then its client may put it anywhere, but nothing else does.
KeepsItsPace ==
  [][IF agent.position = NaN
     THEN agent'.position = NaN \/ (course' = "corrected" /\ UNCHANGED elapsed)
     ELSE IF agent'.position = NaN
     THEN (course = "corrected" /\ agent.direction = NaN) \/ TurnsOnTheSpot
     ELSE Distance(agent.position, agent'.position) <=
            IF elapsed' < elapsed THEN elapsed
            ELSE IF course' = "corrected" THEN MaxCorrection
            ELSE 0]_vars

\* When its player gives no more orders, the agent comes to stand, unless it
\* walked past a waypoint, its client moved it off its way or it is nowhere.
ComesToStand ==
  <>[][~PlayerMoves]_vars =>
    <>[](agent.speed => course \in {"passed", "corrected"} \/ agent.position = NaN)
=============================================================================
