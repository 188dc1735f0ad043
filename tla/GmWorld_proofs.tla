--------------------------- MODULE GmWorld_proofs ---------------------------
(***************************************************************************)
(* What holds of the world of a game server for any number of accounts,    *)
(* connections, agents and ids: what the players carry are items, nobody   *)
(* carries the item of somebody else, and the clients see what there is,   *)
(* also in the middle of a handler that takes or frees several items.      *)
(***************************************************************************)
EXTENDS GmWorld, GmIdTable_proofs

-----------------------------------------------------------------------------
(* Places and steps *)

LEMMA Places ==
  /\ Place = {"first", "second", "weapon", "body"}
  /\ Equipped \subseteq Place
  /\ Len(Backpack) = 2 /\ Backpack[1] = "first" /\ Backpack[2] = "second"
  /\ \A i \in 1..Len(Backpack) : Backpack[i] \in Place \ Equipped
<1>1. Len(Backpack) = 2 /\ Backpack[1] = "first" /\ Backpack[2] = "second"
  BY DEF Backpack
<1>2. DOMAIN Backpack = 1..2
  BY DEF Backpack
<1>3. ToSet(Backpack) = {"first", "second"}
  BY <1>1, <1>2 DEF ToSet
<1>4. Place = {"first", "second", "weapon", "body"}
  BY <1>3 DEF Place, Equipped
<1>5. \A i \in 1..2 : i = 1 \/ i = 2
  OBVIOUS
<1> QED
  BY <1>1, <1>4, <1>5 DEF Equipped

LEMMA WhatIsWorn ==
  \A what \in DOMAIN SlotForItemType : what \in Kinds /\ SlotForItemType[what] \in Equipped
  BY DEF SlotForItemType, Equipped, Kinds

LoadStep(row, place) == [op |-> "load", place |-> place, kind |-> row.holds[place]]

FreeStep(place) == [op |-> "free", place |-> place]

EquipStep(what) == [op |-> "equip", kind |-> what]

SavedPlaces(row) == {place \in Place : row.holds[place] # NULL}

\* What may be left to do before a player joins, and when equipment changes.
BringSteps(row) == {[op |-> "bag"], [op |-> "cupcakes"]}
                     \cup {LoadStep(row, place) : place \in SavedPlaces(row)}

ChangeSteps == {FreeStep(place) : place \in Equipped} \cup [op : {"equip"}, kind : Kinds]

LEMMA StepTypes ==
  ASSUME NEW step \in Ops
  PROVE  /\ step.op = "load" => step.place \in Place /\ step.kind \in Kinds
         /\ step.op = "free" => step.place \in Place /\ step = FreeStep(step.place)
         /\ step.op = "equip" => step.kind \in Kinds
         /\ step.op = "join" => step.row \in SavedBags
  BY DEF Ops, FreeStep

LEMMA BringStepTypes ==
  ASSUME NEW row \in SavedBags
  PROVE  /\ BringSteps(row) \subseteq Ops
         /\ \A step \in BringSteps(row) :
              /\ step.op \in {"bag", "load", "cupcakes"}
              /\ step.op = "load" => step = LoadStep(row, step.place)
<1>1. ASSUME NEW place \in SavedPlaces(row)
      PROVE  /\ LoadStep(row, place) \in Ops
             /\ LoadStep(row, place).op = "load" /\ LoadStep(row, place).place = place
  BY DEF Ops, LoadStep, SavedPlaces, SavedBags
<1>2. [op |-> "bag"] \in Ops /\ [op |-> "cupcakes"] \in Ops
  BY DEF Ops
<1> QED
  BY <1>1, <1>2 DEF BringSteps

LEMMA ChangeStepTypes ==
  /\ ChangeSteps \subseteq Ops
  /\ \A step \in ChangeSteps :
       /\ step.op \in {"free", "equip"}
       /\ step.op = "free" => step.place \in Equipped /\ step = FreeStep(step.place)
       /\ step.op = "equip" => step.kind \in Kinds /\ step = EquipStep(step.kind)
<1>1. ASSUME NEW place \in Equipped
      PROVE  /\ FreeStep(place) \in Ops
             /\ FreeStep(place).op = "free" /\ FreeStep(place).place = place
  BY Places DEF Ops, FreeStep
<1>2. ASSUME NEW step \in [op : {"equip"}, kind : Kinds]
      PROVE  /\ step \in Ops /\ step.op = "equip" /\ step.kind \in Kinds
             /\ step = EquipStep(step.kind)
  BY DEF Ops, EquipStep
<1> QED
  BY <1>1, <1>2 DEF ChangeSteps

LEMMA FreeStepsDiffer ==
  ASSUME NEW p, NEW q, FreeStep(p) = FreeStep(q)
  PROVE  p = q
  BY DEF FreeStep

-----------------------------------------------------------------------------
(* What is left to do *)

LastStep == todo[Len(todo)]

Joining  == todo # <<>> /\ LastStep.op = "join"
Changing == todo # <<>> /\ LastStep.op # "join"

\* Items are freed before the first one is equipped, and none of them twice.
FreesFirst(s) ==
  \A i, j \in 1..Len(s) : i < j /\ s[j].op = "free" => s[i].op = "free" /\ s[i] # s[j]

\* A player who joins is brought first; the last step is the join.
JoinSteps_InOrder == Joining => \A i \in 1..(Len(todo) - 1) : todo[i] \in BringSteps(LastStep.row)

ChangeSteps_InOrder == Changing => /\ \A i \in 1..Len(todo) : todo[i] \in ChangeSteps
                                   /\ FreesFirst(todo)

StepsInOrder == todo \in Seq(Ops) /\ JoinSteps_InOrder /\ ChangeSteps_InOrder

LEMMA TailOf ==
  ASSUME NEW S, NEW s \in Seq(S), s # <<>>
  PROVE  /\ Len(s) \in Nat /\ Len(s) >= 1 /\ 1 \in 1..Len(s) /\ Head(s) = s[1]
         /\ Len(s) \in 1..Len(s) /\ (Len(s) # 1 => 1 \in 1..(Len(s) - 1))
         /\ Tail(s) \in Seq(S) /\ Len(Tail(s)) = Len(s) - 1
         /\ \A i \in 1..(Len(s) - 1) : i + 1 \in 1..Len(s) /\ Tail(s)[i] = s[i + 1]
<1>1. Len(s) \in Nat /\ Len(s) >= 1
  BY LenProperties, EmptySeq
<1>2. /\ Head(s) = s[1] /\ Tail(s) \in Seq(S) /\ Len(Tail(s)) = Len(s) - 1
      /\ \A i \in 1..Len(Tail(s)) : Tail(s)[i] = s[i + 1]
  BY HeadTailProperties
<1>3. Len(s) # 1 => 1 \in 1..(Len(s) - 1)
  <2>1. ASSUME NEW n \in Nat, n >= 1, n # 1 PROVE 1 \in 1..(n - 1)
    BY <2>1
  <2> QED
    BY <1>1, <2>1
<1> QED
  BY <1>1, <1>2, <1>3

\* The step that is taken tells which handler is running.
LEMMA StepOfJoining ==
  ASSUME StepsInOrder, todo # <<>>, Head(todo).op \in {"bag", "load", "cupcakes"}
  PROVE  Joining /\ Len(todo) >= 2 /\ Head(todo) \in BringSteps(LastStep.row)
<1>1. todo \in Seq(Ops)
  BY DEF StepsInOrder
<1>2. /\ Len(todo) \in Nat /\ Len(todo) >= 1 /\ 1 \in 1..Len(todo) /\ Head(todo) = todo[1]
      /\ Len(todo) \in 1..Len(todo) /\ (Len(todo) # 1 => 1 \in 1..(Len(todo) - 1))
  BY <1>1, TailOf
<1>3. Joining
  <2>1. ~(todo[1] \in ChangeSteps)
    BY <1>2, ChangeStepTypes
  <2> QED
    BY <1>2, <2>1 DEF StepsInOrder, ChangeSteps_InOrder, Changing, Joining
<1>4. Len(todo) # 1
  BY <1>2, <1>3 DEF Joining, LastStep
<1>5. 1 \in 1..(Len(todo) - 1)
  BY <1>2, <1>4
<1> QED
  BY <1>2, <1>3, <1>4, <1>5 DEF StepsInOrder, JoinSteps_InOrder

LEMMA StepOfChanging ==
  ASSUME StepsInOrder, todo # <<>>, Head(todo).op \in {"free", "equip"}
  PROVE  Changing /\ Head(todo) \in ChangeSteps
<1>1. todo \in Seq(Ops)
  BY DEF StepsInOrder
<1>2. /\ Len(todo) \in Nat /\ Len(todo) >= 1 /\ 1 \in 1..Len(todo) /\ Head(todo) = todo[1]
      /\ Len(todo) \in 1..Len(todo) /\ (Len(todo) # 1 => 1 \in 1..(Len(todo) - 1))
  BY <1>1, TailOf
<1>3. Changing
  <2> SUFFICES ASSUME Joining PROVE FALSE
    BY DEF Joining, Changing
  <2>1. CASE Len(todo) = 1
    BY <1>2, <2>1 DEF Joining, LastStep
  <2>2. CASE Len(todo) # 1
    <3>1. 1 \in 1..(Len(todo) - 1) /\ Len(todo) \in 1..Len(todo)
      BY <1>2, <2>2
    <3>2. LastStep.row \in SavedBags
      <4>1. LastStep \in Ops
        BY <1>1, <3>1, ElementOfSeq DEF LastStep
      <4> QED
        BY <4>1, StepTypes DEF Joining
    <3>3. todo[1] \in BringSteps(LastStep.row)
      BY <3>1 DEF StepsInOrder, JoinSteps_InOrder
    <3> QED
      BY <1>2, <3>2, <3>3, BringStepTypes
  <2> QED
    BY <2>1, <2>2
<1> QED
  BY <1>2, <1>3 DEF StepsInOrder, ChangeSteps_InOrder

LEMMA OnlyJoinLeft ==
  ASSUME StepsInOrder, todo # <<>>, Head(todo).op = "join"
  PROVE  Joining /\ Len(todo) = 1 /\ Head(todo) = LastStep /\ LastStep.row \in SavedBags
<1>1. todo \in Seq(Ops)
  BY DEF StepsInOrder
<1>2. /\ Len(todo) \in Nat /\ Len(todo) >= 1 /\ 1 \in 1..Len(todo) /\ Head(todo) = todo[1]
      /\ Len(todo) \in 1..Len(todo) /\ (Len(todo) # 1 => 1 \in 1..(Len(todo) - 1))
  BY <1>1, TailOf
<1>3. Joining
  <2>1. ~(todo[1] \in ChangeSteps)
    BY <1>2, ChangeStepTypes
  <2> QED
    BY <1>2, <2>1 DEF StepsInOrder, ChangeSteps_InOrder, Changing, Joining
<1>4. LastStep.row \in SavedBags
  <2>1. LastStep \in Ops
    BY <1>1, <1>2, ElementOfSeq DEF LastStep
  <2> QED
    BY <1>3, <2>1, StepTypes DEF Joining
<1>5. Len(todo) = 1
  <2> SUFFICES ASSUME Len(todo) # 1 PROVE FALSE
    OBVIOUS
  <2>1. 1 \in 1..(Len(todo) - 1)
    BY <1>2
  <2>2. todo[1] \in BringSteps(LastStep.row)
    BY <1>3, <2>1 DEF StepsInOrder, JoinSteps_InOrder
  <2> QED
    BY <1>2, <1>4, <2>2, BringStepTypes
<1> QED
  BY <1>2, <1>3, <1>4, <1>5 DEF LastStep

LEMMA JoiningGoesOn ==
  ASSUME StepsInOrder, Joining, Len(todo) >= 2, todo' = Tail(todo)
  PROVE  Joining' /\ LastStep' = LastStep /\ StepsInOrder'
<1> DEFINE n == Len(todo)
<1>1. todo # <<>> /\ todo \in Seq(Ops)
  BY DEF StepsInOrder, Joining
<1>2. /\ n \in Nat /\ n >= 2 /\ todo' \in Seq(Ops) /\ Len(todo') = n - 1
      /\ \A i \in 1..(n - 1) : todo'[i] = todo[i + 1]
  BY <1>1, TailOf
<1> HIDE DEF n
<1>3. todo' # <<>>
  BY <1>2, EmptySeq
<1>4. n - 1 \in 1..(n - 1) /\ (n - 1) + 1 = n
  BY <1>2
<1>5. LastStep' = LastStep
  BY <1>2, <1>4 DEF LastStep, n
<1>6. Joining'
  BY <1>3, <1>5 DEF Joining
<1>7. ASSUME NEW i \in 1..(Len(todo') - 1) PROVE todo'[i] \in BringSteps(LastStep.row)
  <2>1. i \in 1..(n - 1) /\ i + 1 \in 1..(n - 1)
    BY <1>2
  <2>2. todo[i + 1] \in BringSteps(LastStep.row)
    BY <2>1 DEF n, StepsInOrder, JoinSteps_InOrder
  <2> QED
    BY <1>2, <2>1, <2>2
<1>8. JoinSteps_InOrder'
  BY <1>5, <1>7 DEF JoinSteps_InOrder
<1>9. ChangeSteps_InOrder'
  BY <1>6 DEF ChangeSteps_InOrder, Changing, Joining
<1> QED
  BY <1>2, <1>5, <1>6, <1>8, <1>9 DEF StepsInOrder

ToFree(place) == Occurs(todo, FreeStep(place))

\* Once the first step frees nothing, no step does.
LEMMA NothingToFree ==
  ASSUME StepsInOrder, ~Frees(todo)
  PROVE  \A place : ~ToFree(place)
<1> SUFFICES ASSUME NEW place, NEW j \in 1..Len(todo), todo[j] = FreeStep(place)
             PROVE  FALSE
  BY DEF ToFree, Occurs
<1>1. todo[j].op = "free"
  BY DEF FreeStep
<1>2. todo \in Seq(Ops) /\ Len(todo) \in Nat /\ todo # <<>>
  BY LenProperties, EmptySeq DEF StepsInOrder
<1>3. Head(todo) = todo[1] /\ 1 \in 1..Len(todo)
  BY <1>2, TailOf
<1>4. Head(todo).op # "free"
  BY <1>2 DEF Frees
<1>5. CASE Joining
  <2>1. LastStep \in Ops
    BY <1>2, ElementOfSeq DEF LastStep
  <2>2. LastStep.row \in SavedBags
    BY <1>5, <2>1, StepTypes DEF Joining
  <2>3. j # Len(todo)
    BY <1>1, <1>5 DEF Joining, LastStep
  <2>4. j \in 1..(Len(todo) - 1)
    BY <1>2, <2>3
  <2> QED
    BY <1>1, <1>5, <2>2, <2>4, BringStepTypes DEF StepsInOrder, JoinSteps_InOrder
<1>6. CASE Changing
  <2>1. j # 1 /\ 1 < j
    BY <1>1, <1>2, <1>3, <1>4
  <2> QED
    BY <1>1, <1>3, <1>4, <1>6, <2>1 DEF StepsInOrder, ChangeSteps_InOrder, FreesFirst
<1> QED
  BY <1>2, <1>5, <1>6 DEF Joining, Changing

LEMMA ChangingGoesOn ==
  ASSUME StepsInOrder, Changing, todo' = Tail(todo)
  PROVE  /\ StepsInOrder' /\ (todo' # <<>> => Changing') /\ ~Joining'
         /\ \A place : Head(todo) = FreeStep(place) => ~ToFree(place)'
         /\ Head(todo).op # "free" => ~Frees(todo')
<1> DEFINE n == Len(todo)
<1>1. todo # <<>> /\ todo \in Seq(Ops)
  BY DEF StepsInOrder, Changing
<1>2. /\ n \in Nat /\ n >= 1 /\ todo' \in Seq(Ops) /\ Len(todo') = n - 1 /\ Head(todo) = todo[1]
      /\ \A i \in 1..(n - 1) : i + 1 \in 1..n /\ todo'[i] = todo[i + 1]
  BY <1>1, TailOf
<1> HIDE DEF n
<1>3. ASSUME NEW i \in 1..Len(todo') PROVE todo'[i] \in ChangeSteps
  <2>1. i + 1 \in 1..n /\ todo'[i] = todo[i + 1]
    BY <1>2
  <2> QED
    BY <2>1 DEF n, StepsInOrder, ChangeSteps_InOrder
<1>4. ~Joining'
  <2> SUFFICES ASSUME todo' # <<>> PROVE todo'[Len(todo')].op # "join"
    BY DEF Joining, LastStep
  <2>1. Len(todo') \in 1..Len(todo')
    BY <1>2, EmptySeq
  <2> QED
    BY <1>3, <2>1, ChangeStepTypes
<1>5. FreesFirst(todo')
  <2> SUFFICES ASSUME NEW i \in 1..Len(todo'), NEW j \in 1..Len(todo'), i < j,
                      todo'[j].op = "free"
               PROVE  todo'[i].op = "free" /\ todo'[i] # todo'[j]
    BY DEF FreesFirst
  <2>1. i + 1 \in 1..n /\ j + 1 \in 1..n /\ i + 1 < j + 1
    BY <1>2
  <2>2. todo'[i] = todo[i + 1] /\ todo'[j] = todo[j + 1]
    BY <1>2
  <2>3. todo[i + 1].op = "free" /\ todo[i + 1] # todo[j + 1]
    BY <2>1, <2>2 DEF n, StepsInOrder, ChangeSteps_InOrder, FreesFirst
  <2> QED
    BY <2>2, <2>3
<1>6. StepsInOrder'
  BY <1>2, <1>3, <1>4, <1>5
     DEF StepsInOrder, JoinSteps_InOrder, ChangeSteps_InOrder
<1>7. ASSUME NEW j \in 1..Len(todo'), todo'[j].op = "free"
      PROVE  Head(todo).op = "free" /\ Head(todo) # todo'[j]
  <2>1. 1 \in 1..n /\ j + 1 \in 1..n /\ 1 < j + 1 /\ todo'[j] = todo[j + 1]
    BY <1>2
  <2>2. todo[1].op = "free" /\ todo[1] # todo[j + 1]
    BY <1>7, <2>1 DEF n, StepsInOrder, ChangeSteps_InOrder, FreesFirst
  <2> QED
    BY <1>2, <2>1, <2>2
<1>8. ASSUME NEW place, Head(todo) = FreeStep(place) PROVE ~Occurs(todo', FreeStep(place))
  <2>1. FreeStep(place).op = "free"
    BY DEF FreeStep
  <2> QED
    BY <1>7, <1>8, <2>1 DEF Occurs
<1>9. ASSUME Frees(todo') PROVE Head(todo).op = "free"
  <2>1. todo' # <<>> /\ Head(todo').op = "free"
    BY <1>9 DEF Frees
  <2>2. ASSUME NEW s \in Seq(Ops), s # <<>>, Head(s).op = "free"
        PROVE  1 \in 1..Len(s) /\ s[1].op = "free"
    <3>1. 1 \in 1..Len(s) /\ Head(s) = s[1]
      BY <2>2, TailOf
    <3>2. s[1].op = "free"
      BY <2>2, <3>1
    <3> QED
      BY <3>1, <3>2
  <2>3. 1 \in 1..Len(todo') /\ todo'[1].op = "free"
    BY <1>2, <2>1, <2>2
  <2> QED
    BY <1>7, <2>3
<1>10. todo' # <<>> => Changing'
  BY <1>4 DEF Changing, Joining
<1> QED
  BY <1>4, <1>6, <1>8, <1>9, <1>10 DEF ToFree

-----------------------------------------------------------------------------
(* The invariant *)

Slots == Place \cup {"bag"}

InSlot(t, slot) == IF slot = "bag" THEN players[t].bag_item_id ELSE players[t].items[slot]

KindsInv == \A id \in Ids : freed[id] <=> kind[id] = NULL

SavedInv == map_type = "MainTown" => \A a \in Accounts : saved[a] # NULL

\* The player a handler runs for is there, and wears what is still to be freed.
HandlerInv ==
  /\ doing = NULL <=> todo = <<>>
  /\ doing # NULL => doing \in Players
  /\ connected \subseteq Players
  /\ Joining => players[doing].agent_id = 0 /\ players[doing].chosen = NULL
  /\ Changing => \A place \in Equipped : ToFree(place) => players[doing].items[place] # 0

\* Slots whose item was freed, while the other items of the bag are being freed.
Gone(t, slot) == t = doing /\ Frees(todo) /\ slot \in Equipped /\ ~ToFree(slot)

CarriedInv ==
  \A t \in Players, slot \in Slots :
    InSlot(t, slot) # 0 /\ ~Gone(t, slot) => kind[InSlot(t, slot)] # NULL

OnePlaceInv ==
  \A t, u \in Players : \A p, q \in Slots :
    InSlot(t, p) # 0 /\ InSlot(t, p) = InSlot(u, q) => t = u /\ p = q

\* What lies on the ground is nothing that somebody wears.
GroundInv ==
  \A id \in AgentId :
    agents[id] # NULL /\ agents[id].class = "item" =>
      /\ kind[agents[id].of] # NULL
      /\ \A t \in Players : \A place \in Equipped : players[t].items[place] # agents[id].of

ItemsInv == /\ WorldTypeOK /\ QueueInv /\ KindsInv /\ SavedInv /\ StepsInOrder /\ HandlerInv
            /\ CarriedInv /\ OnePlaceInv /\ GroundInv

PlayerAgent(t) == [class |-> "player", of |-> t]

\* Every player who has joined has an agent, and every agent of a player is that
\* of its player.
AgentsInv ==
  /\ Distinct(free_agents)
  /\ \A id \in AgentId : Occurs(free_agents, id) => agents[id] = NULL
  /\ Joining => free_agents # <<>>
  /\ \A t \in Players :
       /\ players[t].agent_id # 0 => agents[players[t].agent_id] = PlayerAgent(t)
       /\ players[t].agent_id = 0 => t = doing /\ Joining
       /\ t <= used
  /\ \A id \in AgentId :
       agents[id] # NULL /\ agents[id].class = "player" =>
         agents[id].of \in Players /\ players[agents[id].of].agent_id = id
  /\ \A t \in connected : players[t].agent_id # 0
  /\ \A t \in Token \ connected : known[t] = {}

Loaded(place) == /\ players[doing].items[place] # 0
                 /\ kind[players[doing].items[place]] = LastStep.row.holds[place]

\* What the database has is loaded, or a step for it is still to come.
Loading ==
  Joining => \A place \in SavedPlaces(LastStep.row) :
               Occurs(todo, LoadStep(LastStep.row, place)) \/ Loaded(place)

Coming(t, place) ==
  t = doing /\ \E what \in DOMAIN SlotForItemType :
                 SlotForItemType[what] = place /\ Occurs(todo, EquipStep(what))

Wearing(t, place) == ~(t = doing /\ Frees(todo)) /\ players[t].items[place] # 0

ChosenFor(t, place) ==
  \E what \in ToSet(players[t].chosen) \cap DOMAIN SlotForItemType :
    SlotForItemType[what] = place

\* What was chosen is worn, or a step for it is still to come.
Dressed(t) ==
  players[t].chosen # NULL =>
    \A place \in Equipped : Wearing(t, place) \/ Coming(t, place) <=> ChosenFor(t, place)

Dressing == \A t \in Players : Dressed(t)

WorldInv == ItemsInv /\ AgentsInv /\ ViewsAgree /\ Loading /\ Dressing

-----------------------------------------------------------------------------
(* Taking and freeing items *)

LEMMA NoIdIsZero == \A id \in Ids : id \in Idx /\ id # 0
  BY SizeAssumption DEF Ids, Idx

Takes(what) ==
  /\ GmIdAllocate /\ ~halted'
  /\ new_id' \in Ids /\ kind[new_id'] = NULL
  /\ freed' = [freed EXCEPT ![new_id'] = FALSE]
  /\ kind' = [kind EXCEPT ![new_id'] = what]

LEMMA AllocateTakes ==
  ASSUME MaxLive <= Size - 2, ItemsInv, NEW what \in Kinds, AllocateItem(what)
  PROVE  Takes(what)
<1>1. GmIdAllocate
  BY DEF AllocateItem
<1>2. PICK q \in Seq(Ids) : IsQueue(q)
  BY DEF ItemsInv, QueueInv
<1>3. ~halted'
  BY <1>1, <1>2, AllocateTakesHead DEF ItemsInv, QueueInv
<1>4. /\ free_head # 0 /\ freed[free_head] /\ new_id' = free_head
      /\ freed' = [freed EXCEPT ![free_head] = FALSE]
  BY <1>1, <1>3 DEF GmIdAllocate
<1>5. free_head \in Ids
  BY <1>4, SizeAssumption DEF ItemsInv, WorldTypeOK, TypeOK, Idx, Ids
<1>6. kind[free_head] = NULL
  BY <1>4, <1>5 DEF ItemsInv, KindsInv
<1>7. kind' = [kind EXCEPT ![new_id'] = what]
  BY <1>3 DEF AllocateItem
<1> QED
  BY <1>1, <1>3, <1>4, <1>5, <1>6, <1>7 DEF Takes

\* The item that was allocated comes into a slot of the player, if any.
Puts(slot) ==
  /\ players' \in [Token -> GmPlayer \cup {NULL}]
  /\ \A t \in Token :
       /\ players'[t] = NULL <=> players[t] = NULL
       /\ players[t] # NULL =>
            /\ players'[t].agent_id = players[t].agent_id
            /\ players'[t].chosen = players[t].chosen
            /\ \A s \in Slots :
                 InSlot(t, s)' = IF t = doing /\ s = slot THEN new_id' ELSE InSlot(t, s)

LEMMA PutIntoPlace ==
  ASSUME WorldTypeOK, doing \in Players, NEW place \in Place, new_id' \in Idx,
         players' = [players EXCEPT ![doing].items[place] = new_id']
  PROVE  Puts(place)
<1>1. doing \in Token /\ players[doing] # NULL /\ players[doing] \in GmPlayer
  BY DEF Players, WorldTypeOK
<1>2. place # "bag" /\ "bag" \notin Place
  BY Places
<1>3. players' \in [Token -> GmPlayer \cup {NULL}]
  BY <1>1 DEF WorldTypeOK, GmPlayer
<1>4. ASSUME NEW t \in Token, t # doing PROVE players'[t] = players[t]
  BY <1>1, <1>4 DEF WorldTypeOK
<1>5. /\ players'[doing] \in GmPlayer
      /\ players'[doing].agent_id = players[doing].agent_id
      /\ players'[doing].chosen = players[doing].chosen
      /\ players'[doing].bag_item_id = players[doing].bag_item_id
      /\ players'[doing].items[place] = new_id'
      /\ \A q \in Place : q # place => players'[doing].items[q] = players[doing].items[q]
  BY <1>1 DEF WorldTypeOK, GmPlayer
<1>6. players'[doing] # NULL
  BY <1>5, NullAssumption
<1>7. ASSUME NEW t \in Token, players[t] # NULL, NEW s \in Slots
      PROVE  InSlot(t, s)' = IF t = doing /\ s = place THEN new_id' ELSE InSlot(t, s)
  <2>1. CASE t # doing
    BY <1>4, <2>1 DEF InSlot
  <2>2. CASE t = doing /\ s = "bag"
    BY <1>2, <1>5, <2>2 DEF InSlot
  <2>3. CASE t = doing /\ s \in Place
    BY <1>2, <1>5, <2>3 DEF InSlot
  <2> QED
    BY <2>1, <2>2, <2>3 DEF Slots
<1> QED
  BY <1>1, <1>3, <1>4, <1>5, <1>6, <1>7 DEF Puts

LEMMA PutBag ==
  ASSUME WorldTypeOK, doing \in Players, new_id' \in Idx,
         players' = [players EXCEPT ![doing].bag_item_id = new_id']
  PROVE  Puts("bag")
<1>1. doing \in Token /\ players[doing] # NULL /\ players[doing] \in GmPlayer
  BY DEF Players, WorldTypeOK
<1>2. players' \in [Token -> GmPlayer \cup {NULL}]
  BY <1>1 DEF WorldTypeOK, GmPlayer
<1>3. ASSUME NEW t \in Token, t # doing PROVE players'[t] = players[t]
  BY <1>1, <1>3 DEF WorldTypeOK
<1>4. /\ players'[doing] \in GmPlayer
      /\ players'[doing].agent_id = players[doing].agent_id
      /\ players'[doing].chosen = players[doing].chosen
      /\ players'[doing].items = players[doing].items
      /\ players'[doing].bag_item_id = new_id'
  BY <1>1 DEF WorldTypeOK, GmPlayer
<1>5. players'[doing] # NULL
  BY <1>4, NullAssumption
<1>6. ASSUME NEW t \in Token, players[t] # NULL, NEW s \in Slots
      PROVE  InSlot(t, s)' = IF t = doing /\ s = "bag" THEN new_id' ELSE InSlot(t, s)
  BY <1>3, <1>4 DEF InSlot
<1> QED
  BY <1>1, <1>2, <1>3, <1>4, <1>5, <1>6 DEF Puts

LEMMA PutNowhere ==
  ASSUME WorldTypeOK, players' = players
  PROVE  Puts("nowhere")
<1>1. "nowhere" \notin Slots
  BY Places DEF Slots
<1> QED
  BY <1>1 DEF Puts, WorldTypeOK, InSlot

\* What the handlers that take an item do: the item comes into a slot, and the
\* handler goes on with the next step.
LEMMA AddBagItemPuts ==
  ASSUME MaxLive <= Size - 2, ItemsInv, AddBagItem
  PROVE  /\ Takes("bag") /\ Puts("bag") /\ doing \in Players
         /\ Joining /\ Len(todo) >= 2 /\ todo' = Tail(todo) /\ doing' = doing
         /\ Head(todo).op = "bag"
<1>1. todo # <<>> /\ Head(todo).op = "bag" /\ todo' = Tail(todo) /\ doing' = doing
  BY DEF AddBagItem, Step
<1>2. Joining /\ Len(todo) >= 2
  BY <1>1, StepOfJoining DEF ItemsInv
<1>3. doing \in Players
  BY <1>1 DEF ItemsInv, HandlerInv
<1>4. Takes("bag")
  <2>1. "bag" \in Kinds
    BY DEF Kinds
  <2> QED
    BY <2>1, AllocateTakes DEF AddBagItem
<1>5. new_id' \in Idx
  BY <1>4, NoIdIsZero DEF Takes
<1>6. Puts("bag")
  BY <1>3, <1>5, PutBag DEF AddBagItem, ItemsInv
<1> QED
  BY <1>1, <1>2, <1>3, <1>4, <1>6

LEMMA LoadItemPuts ==
  ASSUME MaxLive <= Size - 2, ItemsInv, LoadItem
  PROVE  \E place \in SavedPlaces(LastStep.row) :
           /\ Head(todo) = LoadStep(LastStep.row, place) /\ place \in Place
           /\ LastStep.row.holds[place] \in Kinds
           /\ Takes(LastStep.row.holds[place]) /\ Puts(place) /\ doing \in Players
           /\ Joining /\ Len(todo) >= 2 /\ todo' = Tail(todo) /\ doing' = doing
<1> DEFINE row == LastStep.row
           step == Head(todo)
<1>1. todo # <<>> /\ step.op = "load" /\ todo' = Tail(todo) /\ doing' = doing
  BY DEF LoadItem, Step
<1>2. Joining /\ Len(todo) >= 2 /\ step \in BringSteps(row)
  BY <1>1, StepOfJoining DEF ItemsInv
<1>3. doing \in Players
  BY <1>1 DEF ItemsInv, HandlerInv
<1>4. row \in SavedBags
  <2>1. LastStep \in Ops
    BY <1>1, TailOf, ElementOfSeq DEF ItemsInv, StepsInOrder, LastStep
  <2> QED
    BY <1>2, <2>1, StepTypes DEF Joining
<1>5. PICK place \in SavedPlaces(row) : step = LoadStep(row, place)
  <2>1. step # [op |-> "bag"] /\ step # [op |-> "cupcakes"]
    BY <1>1
  <2> QED
    BY <1>2, <2>1 DEF BringSteps
<1>6. place \in Place /\ row.holds[place] \in Kinds
  BY <1>4, NullAssumption DEF SavedPlaces, SavedBags
<1>7. step.place = place /\ step.kind = row.holds[place]
  BY <1>5 DEF LoadStep
<1>8. Takes(row.holds[place])
  <2>1. AllocateItem(step.kind)
    BY DEF LoadItem
  <2> QED
    BY <1>6, <1>7, <2>1, AllocateTakes
<1>9. new_id' \in Idx
  BY <1>8, NoIdIsZero DEF Takes
<1>10. Puts(place)
  <2>1. players' = [players EXCEPT ![doing].items[step.place] = new_id']
    BY DEF LoadItem
  <2> QED
    BY <1>3, <1>6, <1>7, <1>9, <2>1, PutIntoPlace DEF ItemsInv
<1> QED
  BY <1>1, <1>2, <1>3, <1>5, <1>6, <1>8, <1>10

LEMMA LowestIn ==
  ASSUME NEW S \in SUBSET (1..Len(Backpack)), S # {}
  PROVE  Lowest(S) \in S
<1>1. S \subseteq Nat
  BY Places
<1>2. \E i \in S : \A j \in S : i <= j
  BY <1>1, Least
<1> QED
  BY <1>2 DEF Lowest

LEMMA AddCupcakesPuts ==
  ASSUME MaxLive <= Size - 2, ItemsInv, AddCupcakes
  PROVE  /\ Joining /\ Len(todo) >= 2 /\ todo' = Tail(todo) /\ doing' = doing
         /\ doing \in Players /\ Head(todo).op = "cupcakes"
         /\ \/ UNCHANGED <<itemVars, players>>
            \/ \E place \in Place : /\ players[doing].items[place] = 0
                                    /\ Takes("cupcake") /\ Puts(place)
<1>1. todo # <<>> /\ Head(todo).op = "cupcakes" /\ todo' = Tail(todo) /\ doing' = doing
  BY DEF AddCupcakes, Step
<1>2. Joining /\ Len(todo) >= 2
  BY <1>1, StepOfJoining DEF ItemsInv
<1>3. doing \in Players
  BY <1>1 DEF ItemsInv, HandlerInv
<1>4. ASSUME EmptySlots(doing) # {}
      PROVE  \E place \in Place : /\ players[doing].items[place] = 0
                                  /\ Takes("cupcake") /\ Puts(place)
  <2> DEFINE place == Backpack[FreeSlot(doing)]
  <2>1. FreeSlot(doing) \in EmptySlots(doing)
    BY <1>4, LowestIn DEF FreeSlot, EmptySlots
  <2>2. place \in Place /\ players[doing].items[place] = 0
    BY <2>1, Places DEF EmptySlots
  <2>3. /\ AllocateItem("cupcake")
        /\ players' = [players EXCEPT ![doing].items[place] = new_id']
    BY <1>4 DEF AddCupcakes
  <2> HIDE DEF place
  <2>4. Takes("cupcake")
    <3>1. "cupcake" \in Kinds
      BY DEF Kinds
    <3> QED
      BY <2>3, <3>1, AllocateTakes
  <2>5. new_id' \in Idx
    BY <2>4, NoIdIsZero DEF Takes
  <2>6. Puts(place)
    BY <1>3, <2>2, <2>3, <2>5, PutIntoPlace DEF ItemsInv
  <2> QED
    BY <2>2, <2>4, <2>6
<1>5. EmptySlots(doing) = {} => UNCHANGED <<itemVars, players>>
  BY DEF AddCupcakes
<1> QED
  BY <1>1, <1>2, <1>3, <1>4, <1>5

LEMMA EquipItemPuts ==
  ASSUME MaxLive <= Size - 2, ItemsInv, EquipItem, NEW what, what = Head(todo).kind
  PROVE  /\ Changing /\ todo' = Tail(todo) /\ doing \in Players
         /\ Head(todo).op = "equip" /\ what \in Kinds
         /\ doing' = IF todo' = <<>> THEN NULL ELSE doing
         /\ IF what \notin DOMAIN SlotForItemType THEN UNCHANGED <<itemVars, players>>
            ELSE /\ Takes(what)
                 /\ IF players[doing].items[SlotForItemType[what]] = 0
                    THEN Puts(SlotForItemType[what])
                    ELSE \E slot \in (Place \ Equipped) \cup {"nowhere"} : Puts(slot)
<1>1. /\ todo # <<>> /\ Head(todo).op = "equip" /\ todo' = Tail(todo)
      /\ doing' = IF todo' = <<>> THEN NULL ELSE doing
  BY DEF EquipItem, Step
<1>2. Changing /\ what \in Kinds
  BY <1>1, StepOfChanging, ChangeStepTypes DEF ItemsInv
<1>3. doing \in Players
  BY <1>1 DEF ItemsInv, HandlerInv
<1>4. ASSUME what \in DOMAIN SlotForItemType
      PROVE  /\ Takes(what)
             /\ IF players[doing].items[SlotForItemType[what]] = 0
                THEN Puts(SlotForItemType[what])
                ELSE \E slot \in (Place \ Equipped) \cup {"nowhere"} : Puts(slot)
  <2> DEFINE place == SlotForItemType[what]
  <2>1. place \in Place
    BY <1>4, WhatIsWorn, Places
  <2>2. /\ AllocateItem(what)
        /\ IF players[doing].items[place] = 0
           THEN players' = [players EXCEPT ![doing].items[place] = new_id']
           ELSE TryAddToBackpack(new_id')
    BY <1>4 DEF EquipItem
  <2> HIDE DEF place
  <2>3. Takes(what)
    BY <1>2, <2>2, AllocateTakes
  <2>4. new_id' \in Idx
    BY <2>3, NoIdIsZero DEF Takes
  <2>5. CASE players[doing].items[place] = 0
    <3>1. Puts(place)
      BY <1>3, <2>1, <2>2, <2>4, <2>5, PutIntoPlace DEF ItemsInv
    <3> QED
      BY <2>3, <2>5, <3>1 DEF place
  <2>6. CASE players[doing].items[place] # 0 /\ FullSlots(doing) = {}
    <3>1. Puts("nowhere")
      BY <2>2, <2>6, PutNowhere DEF ItemsInv, TryAddToBackpack
    <3> QED
      BY <2>3, <2>6, <3>1 DEF place
  <2>7. CASE players[doing].items[place] # 0 /\ FullSlots(doing) # {}
    <3> DEFINE slot == Backpack[Lowest(FullSlots(doing))]
    <3>1. Lowest(FullSlots(doing)) \in 1..Len(Backpack)
      BY <2>7, LowestIn DEF FullSlots
    <3>2. slot \in Place \ Equipped
      BY <3>1, Places
    <3>3. players' = [players EXCEPT ![doing].items[slot] = new_id']
      BY <2>2, <2>7 DEF TryAddToBackpack
    <3> HIDE DEF slot
    <3>4. Puts(slot)
      BY <1>3, <2>4, <3>2, <3>3, PutIntoPlace DEF ItemsInv
    <3> QED
      BY <2>3, <2>7, <3>2, <3>4 DEF place
  <2> QED
    BY <2>5, <2>6, <2>7
<1>5. what \notin DOMAIN SlotForItemType => UNCHANGED <<itemVars, players>>
  BY DEF EquipItem
<1> QED
  BY <1>1, <1>2, <1>3, <1>4, <1>5

\* The equipped items are freed one after the other.
LEMMA FreeBagItemFrees ==
  ASSUME ItemsInv, FreeBagItem
  PROVE  \E place \in Equipped, id \in Ids :
           /\ Changing /\ Head(todo) = FreeStep(place) /\ Frees(todo) /\ todo' = Tail(todo)
           /\ doing \in Players /\ doing' = (IF todo' = <<>> THEN NULL ELSE doing)
           /\ id = InSlot(doing, place) /\ kind[id] # NULL
           /\ GmIdFree(id) /\ kind' = [kind EXCEPT ![id] = NULL]
           /\ players' = IF Frees(todo') THEN players
                         ELSE [players EXCEPT ![doing].items =
                                [q \in Place |-> IF q \in Equipped THEN 0 ELSE @[q]]]
<1>1. /\ todo # <<>> /\ Head(todo).op = "free" /\ todo' = Tail(todo)
      /\ doing' = IF todo' = <<>> THEN NULL ELSE doing
  BY DEF FreeBagItem, Step
<1>2. Changing /\ Head(todo) \in ChangeSteps
  BY <1>1, StepOfChanging DEF ItemsInv
<1>3. doing \in Players
  BY <1>1 DEF ItemsInv, HandlerInv
<1> DEFINE place == Head(todo).place
           id    == players[doing].items[place]
<1>4. place \in Equipped /\ Head(todo) = FreeStep(place)
  BY <1>1, <1>2, ChangeStepTypes
<1>5. FreeItemId(id)
  BY DEF FreeBagItem
<1>6. players' = IF Frees(todo') THEN players
                 ELSE [players EXCEPT ![doing].items =
                        [q \in Place |-> IF q \in Equipped THEN 0 ELSE @[q]]]
  BY DEF FreeBagItem
<1> HIDE DEF place
<1>7. ToFree(place)
  BY <1>1, <1>4, TailOccurs DEF ToFree, ItemsInv, StepsInOrder
<1>8. id # 0
  BY <1>2, <1>4, <1>7 DEF ItemsInv, HandlerInv
<1>9. place \in Place /\ place # "bag" /\ place \in Slots
  BY <1>4, Places DEF Slots
<1>10. id \in Ids
  <2>1. id \in Idx
    BY <1>3, <1>9 DEF ItemsInv, WorldTypeOK, Players, GmPlayer
  <2> QED
    BY <1>8, <2>1 DEF Idx, Ids
<1>11. id = InSlot(doing, place)
  BY <1>9 DEF InSlot
<1>12. kind[id] # NULL
  BY <1>3, <1>7, <1>8, <1>9, <1>11 DEF ItemsInv, CarriedInv, Gone
<1>13. Frees(todo)
  BY <1>1 DEF Frees
<1>14. GmIdFree(id) /\ kind' = [kind EXCEPT ![id] = NULL]
  BY <1>5 DEF FreeItemId
<1> HIDE DEF id
<1> QED
  BY <1>1, <1>2, <1>3, <1>4, <1>6, <1>10, <1>11, <1>12, <1>13, <1>14 DEF id

LEMMA WhatIsCarried ==
  ASSUME ItemsInv, ~Frees(todo), NEW t \in Players
  PROVE  AllFound(Carried(t)) /\ \A slot \in Slots : InSlot(t, slot) \in Idx
<1>1. ASSUME NEW slot \in Slots
      PROVE  /\ InSlot(t, slot) \in Idx
             /\ InSlot(t, slot) # 0 =>
                  kind[InSlot(t, slot)] # NULL /\ ~freed[InSlot(t, slot)]
  <2>1. InSlot(t, slot) \in Idx
    BY DEF ItemsInv, WorldTypeOK, Players, GmPlayer, InSlot, Slots
  <2>2. InSlot(t, slot) # 0 => InSlot(t, slot) \in Ids
    BY <2>1 DEF Idx, Ids
  <2>3. InSlot(t, slot) # 0 => kind[InSlot(t, slot)] # NULL
    BY DEF ItemsInv, CarriedInv, Gone
  <2> QED
    BY <2>1, <2>2, <2>3 DEF ItemsInv, KindsInv
<1>2. ASSUME NEW id \in Carried(t) PROVE \E slot \in Slots : id = InSlot(t, slot)
  <2>1. "bag" \in Slots /\ \A place \in Place : place \in Slots /\ place # "bag"
    BY Places DEF Slots
  <2> QED
    BY <2>1 DEF Carried, InSlot
<1> QED
  BY <1>1, <1>2 DEF AllFound

LEMMA NothingLeft ==
  ASSUME ItemsInv, todo = <<>>
  PROVE  /\ ~Frees(todo) /\ ~Joining /\ ~Changing /\ doing = NULL
         /\ \A t \in connected : t \in Players /\ AllFound(Carried(t))
<1>1. ~Frees(todo) /\ ~Joining /\ ~Changing
  BY DEF Frees, Joining, Changing
<1> QED
  BY <1>1, WhatIsCarried DEF ItemsInv, HandlerInv

\* Everything else leaves the items alone: the asserts of GameSrv_GetItemById
\* do not fail.
OtherNext ==
  \/ Join
  \/ JoinAborts
  \/ \E t \in Token :
       \/ \E a \in Accounts : HandleTransferConnection(t, a)
       \/ HandleDisconnect(t)
       \/ FlushFailed(t)
       \/ HandleRequestItems(t)
       \/ HandleInstanceLoadRequestPlayers(t)
       \/ \E equipment \in DefaultEquipments : HandleCharCreationChangeProf(t, equipment)
       \/ ChangeProfAborts(t)
       \/ HandleCharCreationConfirm(t)
       \/ \E id \in Ids : HandleDropItem(t, id)

LEMMA RequestFindsItems ==
  ASSUME ItemsInv, NEW t \in Token, HandleRequestItems(t)
  PROVE  UNCHANGED worldVars
<1>1. AllFound(Carried(t))
  BY NothingLeft DEF HandleRequestItems, Idle
<1>2. ~halted
  BY DEF HandleRequestItems, Idle
<1>3. halted' = halted
  BY <1>1, <1>2 DEF HandleRequestItems, ItemsInv, WorldTypeOK, TypeOK
<1> QED
  BY <1>3 DEF HandleRequestItems, UnchangedWorld, worldVars, itemVars, vars, agentVars, viewVars

LEMMA LoadFindsItems ==
  ASSUME ItemsInv, NEW t \in Token, HandleInstanceLoadRequestPlayers(t),
         NEW exists, exists = {id \in AgentId : agents[id] # NULL},
         NEW others, others = {agents[id].of : id \in {a \in exists : agents[a].class = "player"}}
  PROVE  /\ loaded' = loaded \cup {t}
         /\ known' = [u \in Token |->
                        IF u = t THEN exists
                        ELSE IF u \in connected THEN known[u] \cup {players[t].agent_id}
                        ELSE known[u]]
         /\ met' = Meets(t, others)
         /\ UNCHANGED halted
<1> DEFINE bags == UNION {Worn(u) : u \in {v \in others \cup {t} : players[v] # NULL}}
<1>1. todo = <<>>
  BY DEF HandleInstanceLoadRequestPlayers, Idle
<1>2. ASSUME NEW u \in Players PROVE AllFound(Worn(u))
  <2>1. AllFound(Carried(u))
    BY <1>1, NothingLeft, WhatIsCarried
  <2>2. Equipped \subseteq Place
    BY Places
  <2>3. ASSUME NEW id \in Worn(u) PROVE id \in Carried(u)
    <3>1. PICK place \in Equipped : id = players[u].items[place]
      BY DEF Worn
    <3>2. place \in Place
      BY <2>2, <3>1
    <3> QED
      BY <3>1, <3>2 DEF Carried
  <2> QED
    BY <2>1, <2>3 DEF AllFound
<1>3. others \cup {t} \subseteq Token
  BY DEF ItemsInv, WorldTypeOK, GmAgent
<1>4. ASSUME NEW id \in bags PROVE \E u \in Players : id \in Worn(u)
  BY <1>3 DEF Players
<1>5. AllFound(bags)
  <2> HIDE DEF bags
  <2> QED
    BY <1>2, <1>4 DEF AllFound
<1> QED
  BY <1>5 DEF HandleInstanceLoadRequestPlayers

-----------------------------------------------------------------------------
(* The lists of the handlers *)

LEMMA StepIfNeeded ==
  ASSUME NEW S, NEW needed \in BOOLEAN, NEW step, needed => step \in S
  PROVE  /\ IfNeeded(needed, step) \in Seq(S)
         /\ \A v : Occurs(IfNeeded(needed, step), v) <=> needed /\ v = step
<1>1. CASE needed
  <2>1. IfNeeded(needed, step) = <<step>> /\ step \in S
    BY <1>1 DEF IfNeeded
  <2>2. Len(<<step>>) = 1 /\ <<step>>[1] = step /\ <<step>> \in Seq(S)
    BY <2>1
  <2>3. 1 \in 1..1 /\ \A i \in 1..1 : i = 1
    OBVIOUS
  <2> QED
    BY <1>1, <2>1, <2>2, <2>3 DEF Occurs
<1>2. CASE ~needed
  <2>1. IfNeeded(needed, step) = <<>>
    BY <1>2 DEF IfNeeded
  <2>2. Len(<<>>) = 0 /\ <<>> \in Seq(S) /\ \A i \in 1..0 : FALSE
    BY EmptySeq
  <2> QED
    BY <1>2, <2>1, <2>2 DEF Occurs
<1> QED
  BY <1>1, <1>2

LEMMA LoadStepsOf ==
  ASSUME NEW row \in SavedBags
  PROVE  /\ LoadSteps(row) \in Seq(BringSteps(row))
         /\ \A place \in SavedPlaces(row) : Occurs(LoadSteps(row), LoadStep(row, place))
<1> DEFINE S == BringSteps(row)
           b == IfNeeded(row.bags, [op |-> "bag"])
           c == LoadSlot(row, "first")
           d == LoadSlot(row, "second")
           e == LoadSlot(row, "weapon")
           f == LoadSlot(row, "body")
<1>1. b \in Seq(S)
  <2>1. row.bags \in BOOLEAN /\ [op |-> "bag"] \in S
    BY DEF SavedBags, BringSteps
  <2> QED
    BY <2>1, StepIfNeeded
<1>2. ASSUME NEW place \in Place
      PROVE  /\ LoadSlot(row, place) \in Seq(S)
             /\ place \in SavedPlaces(row) =>
                  Occurs(LoadSlot(row, place), LoadStep(row, place))
  <2>1. (row.holds[place] # NULL) \in BOOLEAN
    OBVIOUS
  <2>2. row.holds[place] # NULL => LoadStep(row, place) \in S
    BY DEF BringSteps, SavedPlaces
  <2> DEFINE needed == row.holds[place] # NULL
             step   == LoadStep(row, place)
  <2>3. LoadSlot(row, place) = IfNeeded(needed, step)
    BY DEF LoadSlot, LoadStep
  <2>4. place \in SavedPlaces(row) => needed
    BY DEF SavedPlaces
  <2> HIDE DEF S, needed, step
  <2>5. /\ IfNeeded(needed, step) \in Seq(S)
        /\ \A v : Occurs(IfNeeded(needed, step), v) <=> needed /\ v = step
    BY <2>1, <2>2, StepIfNeeded DEF needed, step
  <2> QED
    BY <2>3, <2>4, <2>5 DEF step
<1>3. c \in Seq(S) /\ d \in Seq(S) /\ e \in Seq(S) /\ f \in Seq(S)
  BY <1>2, Places
<1>4. LoadSteps(row) = ((((b \o c) \o d) \o e) \o f)
  BY DEF LoadSteps
<1> HIDE DEF b
<1>5. /\ LoadSteps(row) \in Seq(S)
      /\ \A v : Occurs(c, v) \/ Occurs(d, v) \/ Occurs(e, v) \/ Occurs(f, v)
                  => Occurs(LoadSteps(row), v)
  <2>0. ASSUME NEW x \in Seq(S), NEW y \in Seq(S)
        PROVE  /\ x \o y \in Seq(S)
               /\ \A v : Occurs(x, v) \/ Occurs(y, v) => Occurs(x \o y, v)
    BY ConcatOccurs
  <2> DEFINE bc  == b \o c
             bcd == bc \o d
             be  == bcd \o e
             bf  == be \o f
  <2> HIDE DEF S, c, d, e, f
  <2>1. bc \in Seq(S) /\ \A v : Occurs(c, v) => Occurs(bc, v)
    BY <1>1, <1>3, <2>0
  <2> HIDE DEF bc
  <2>2. bcd \in Seq(S) /\ \A v : Occurs(bc, v) \/ Occurs(d, v) => Occurs(bcd, v)
    BY <1>3, <2>0, <2>1
  <2> HIDE DEF bcd
  <2>3. be \in Seq(S) /\ \A v : Occurs(bcd, v) \/ Occurs(e, v) => Occurs(be, v)
    BY <1>3, <2>0, <2>2
  <2> HIDE DEF be
  <2>4. bf \in Seq(S) /\ \A v : Occurs(be, v) \/ Occurs(f, v) => Occurs(bf, v)
    BY <1>3, <2>0, <2>3
  <2>5. LoadSteps(row) = bf
    BY <1>4 DEF bc, bcd, be
  <2> HIDE DEF bf
  <2> QED
    BY <2>1, <2>2, <2>3, <2>4, <2>5
<1>6. ASSUME NEW place \in SavedPlaces(row) PROVE Occurs(LoadSteps(row), LoadStep(row, place))
  <2>1. place \in Place
    BY DEF SavedPlaces
  <2>2. Occurs(LoadSlot(row, place), LoadStep(row, place))
    BY <1>2, <2>1
  <2>3. place = "first" \/ place = "second" \/ place = "weapon" \/ place = "body"
    BY <2>1, Places
  <2> QED
    BY <1>5, <2>2, <2>3
<1> QED
  BY <1>5, <1>6

LEMMA JoinStepsOf ==
  ASSUME NEW row \in SavedBags, NEW s, s = JoinSteps(row)
  PROVE  /\ s \in Seq(Ops) /\ s # <<>> /\ Len(s) \in Nat
         /\ s[Len(s)] = [op |-> "join", row |-> row]
         /\ \A i \in 1..(Len(s) - 1) : s[i] \in BringSteps(row)
         /\ \A place \in SavedPlaces(row) : Occurs(s, LoadStep(row, place))
<1> DEFINE front == LoadSteps(row)
           cup   == [op |-> "cupcakes"]
           join  == [op |-> "join", row |-> row]
           back  == <<cup, join>>
           n     == Len(front)
<1>1. /\ front \in Seq(BringSteps(row)) /\ n \in Nat
      /\ \A place \in SavedPlaces(row) : Occurs(front, LoadStep(row, place))
  BY LoadStepsOf, LenProperties
<1>2. BringSteps(row) \subseteq Ops
  BY BringStepTypes
<1>3. front \in Seq(Ops)
  BY <1>1, <1>2, SeqMonotonic
<1>4. cup \in BringSteps(row) /\ cup \in Ops /\ join \in Ops
  BY DEF BringSteps, Ops
<1> HIDE DEF cup, join
<1>5. back \in Seq(Ops) /\ Len(back) = 2 /\ back[1] = cup /\ back[2] = join
  BY <1>4
<1>6. s = front \o back
  BY DEF JoinSteps, cup, join
<1> HIDE DEF front, back
<1>7. /\ s \in Seq(Ops) /\ Len(s) = n + 2
      /\ \A i \in 1..(n + 2) : s[i] = IF i <= n THEN front[i] ELSE back[i - n]
  <2> DEFINE whole == front \o back
             k     == Len(back)
  <2>1. /\ whole \in Seq(Ops) /\ Len(whole) = n + k
        /\ \A i \in 1..(n + k) : whole[i] = IF i <= n THEN front[i] ELSE back[i - n]
    BY <1>3, <1>5, ConcatProperties
  <2>2. s = whole /\ k = 2
    BY <1>5, <1>6
  <2> HIDE DEF whole, k
  <2> QED
    BY <2>1, <2>2
<1>8. Len(front) = n
  OBVIOUS
<1> HIDE DEF n
<1>9. s # <<>>
  BY <1>1, <1>7, EmptySeq
<1>10. s[Len(s)] = join
  <2>1. n + 2 \in 1..(n + 2) /\ ~(n + 2 <= n) /\ (n + 2) - n = 2
    BY <1>1
  <2> QED
    BY <1>5, <1>7, <2>1
<1>11. ASSUME NEW i \in 1..(Len(s) - 1) PROVE s[i] \in BringSteps(row)
  <2>1. i \in 1..(n + 2) /\ (i \in 1..n \/ (i = n + 1 /\ ~(i <= n) /\ i - n = 1))
    BY <1>1, <1>7
  <2>2. CASE i \in 1..n
    <3>1. s[i] = front[i]
      BY <1>1, <1>7, <2>1, <2>2
    <3>2. front[i] \in BringSteps(row)
      BY <1>1, <1>8, <2>2, ElementOfSeq
    <3> QED
      BY <3>1, <3>2
  <2>3. CASE i = n + 1
    <3>1. s[i] = back[1]
      BY <1>1, <1>7, <2>1, <2>3
    <3> QED
      BY <1>4, <1>5, <3>1
  <2> QED
    BY <2>1, <2>2, <2>3
<1>12. \A v : Occurs(front, v) => Occurs(s, v)
  BY <1>3, <1>5, <1>6, ConcatOccurs
<1> QED
  BY <1>1, <1>7, <1>9, <1>10, <1>11, <1>12 DEF join

EquipSteps(equipment) == [i \in DOMAIN equipment |-> EquipStep(equipment[i])]

LEMMA EquipStepsOf ==
  ASSUME NEW equipment \in DefaultEquipments
  PROVE  /\ EquipSteps(equipment) \in Seq(ChangeSteps)
         /\ \A i \in 1..Len(EquipSteps(equipment)) : EquipSteps(equipment)[i].op = "equip"
         /\ \A what : Occurs(EquipSteps(equipment), EquipStep(what))
                        <=> what \in ToSet(equipment)
<1>1. equipment \in Seq(Kinds)
  <2>1. "body" \in Kinds /\ "bow" \in Kinds /\ "bag" \in Kinds
    BY DEF Kinds
  <2>2. /\ <<>> \in Seq(Kinds) /\ <<"body">> \in Seq(Kinds)
        /\ <<"body", "bow", "bow">> \in Seq(Kinds) /\ <<"body", "bow", "bag">> \in Seq(Kinds)
    BY <2>1
  <2> QED
    BY <2>2 DEF DefaultEquipments
<1>2. DOMAIN equipment = 1..Len(equipment) /\ Len(equipment) \in Nat
  BY <1>1, LenProperties
<1>3. ASSUME NEW what \in Kinds
      PROVE  EquipStep(what) \in ChangeSteps /\ EquipStep(what).op = "equip"
  BY DEF EquipStep, ChangeSteps
<1>4. \A i \in 1..Len(equipment) : equipment[i] \in Kinds
  BY <1>1, ElementOfSeq
<1> DEFINE s == EquipSteps(equipment)
<1>5. s = [i \in 1..Len(equipment) |-> EquipStep(equipment[i])]
  BY <1>2 DEF EquipSteps
<1>6. /\ s \in Seq(ChangeSteps) /\ Len(s) = Len(equipment)
      /\ \A i \in 1..Len(equipment) : s[i] = EquipStep(equipment[i])
  BY <1>2, <1>3, <1>4, <1>5
<1> HIDE DEF s
<1>7. \A i \in 1..Len(s) : s[i].op = "equip"
  BY <1>3, <1>4, <1>6
<1>8. ASSUME NEW what PROVE Occurs(s, EquipStep(what)) <=> what \in ToSet(equipment)
  <2>1. ASSUME NEW x, NEW y, EquipStep(x) = EquipStep(y) PROVE x = y
    BY <2>1 DEF EquipStep
  <2>2. what \in ToSet(equipment) <=> \E i \in 1..Len(equipment) : equipment[i] = what
    BY <1>2 DEF ToSet
  <2>3. Occurs(s, EquipStep(what))
          <=> \E i \in 1..Len(equipment) : EquipStep(equipment[i]) = EquipStep(what)
    BY <1>6 DEF Occurs
  <2> QED
    BY <2>1, <2>2, <2>3
<1> QED
  BY <1>6, <1>7, <1>8 DEF s

\* A step that frees another item may come first.
LEMMA FreesFirstPrepended ==
  ASSUME NEW place \in Equipped, NEW needed \in BOOLEAN, NEW s \in Seq(ChangeSteps),
         FreesFirst(s), ~Occurs(s, FreeStep(place)),
         NEW new, new = IfNeeded(needed, FreeStep(place)) \o s
  PROVE  /\ new \in Seq(ChangeSteps) /\ FreesFirst(new)
         /\ \A v : Occurs(new, v) <=> (needed /\ v = FreeStep(place)) \/ Occurs(s, v)
         /\ needed => Frees(new)
<1> DEFINE e == FreeStep(place)
<1>1. e \in ChangeSteps /\ e.op = "free"
  BY DEF ChangeSteps, FreeStep
<1> HIDE DEF e
<1>2. IfNeeded(needed, e) \in Seq(ChangeSteps)
  BY <1>1, StepIfNeeded
<1>3. ASSUME NEW v PROVE Occurs(new, v) <=> (needed /\ v = e) \/ Occurs(s, v)
  <2>1. Occurs(IfNeeded(needed, e), v) <=> needed /\ v = e
    BY <1>1, StepIfNeeded
  <2>2. new = IfNeeded(needed, e) \o s
    BY DEF e
  <2> QED
    BY <1>2, <2>1, <2>2, ConcatOccurs
<1>4. CASE needed
  <2>1. new = <<e>> \o s
    BY <1>4 DEF IfNeeded, e
  <2>2. /\ new \in Seq(ChangeSteps) /\ new # <<>> /\ Len(new) = Len(s) + 1 /\ new[1] = e
        /\ \A i \in 1..Len(s) : new[i + 1] = s[i]
    BY <1>1, <2>1, Prepended
  <2>3. Len(s) \in Nat
    BY LenProperties
  <2>4. FreesFirst(new)
    <3> SUFFICES ASSUME NEW i \in 1..Len(new), NEW j \in 1..Len(new), i < j,
                        new[j].op = "free"
                 PROVE  new[i].op = "free" /\ new[i] # new[j]
      BY DEF FreesFirst
    <3>1. j - 1 \in 1..Len(s) /\ (j - 1) + 1 = j /\ new[j] = s[j - 1]
      BY <2>2, <2>3
    <3>2. CASE i = 1
      BY <1>1, <2>2, <3>1, <3>2 DEF Occurs, e
    <3>3. CASE i # 1
      <4>1. i - 1 \in 1..Len(s) /\ (i - 1) + 1 = i /\ new[i] = s[i - 1] /\ i - 1 < j - 1
        BY <2>2, <2>3, <3>3
      <4> QED
        BY <3>1, <4>1 DEF FreesFirst
    <3> QED
      BY <3>2, <3>3
  <2>5. Frees(new)
    <3>1. Head(new) = new[1]
      BY <2>2, TailOf
    <3> QED
      BY <1>1, <2>2, <3>1 DEF Frees
  <2> QED
    BY <1>3, <2>2, <2>4, <2>5 DEF e
<1>5. CASE ~needed
  <2>1. new = s
    BY <1>5, ConcatEmptySeq DEF IfNeeded
  <2> QED
    BY <1>3, <1>5, <2>1 DEF e
<1> QED
  BY <1>4, <1>5

StepsToChange(t, equipment) ==
  FreeWorn(t, "weapon") \o FreeWorn(t, "body") \o EquipSteps(equipment)

LEMMA ChangeStepsOf ==
  ASSUME NEW t, NEW equipment \in DefaultEquipments, NEW s, s = StepsToChange(t, equipment)
  PROVE  /\ s \in Seq(ChangeSteps) /\ FreesFirst(s)
         /\ \A place \in Equipped :
              Occurs(s, FreeStep(place)) <=> players[t].items[place] # 0
         /\ \A what : Occurs(s, EquipStep(what)) <=> what \in ToSet(equipment)
         /\ \A place \in Equipped : players[t].items[place] # 0 => Frees(s)
<1> DEFINE weapon == players[t].items["weapon"] # 0
           body   == players[t].items["body"] # 0
           first  == IfNeeded(weapon, FreeStep("weapon"))
           second == IfNeeded(body, FreeStep("body"))
           equip  == EquipSteps(equipment)
           rest   == second \o equip
<1>1. "weapon" \in Equipped /\ "body" \in Equipped /\ weapon \in BOOLEAN /\ body \in BOOLEAN
  BY DEF Equipped
<1>2. FreeStep("weapon") \in ChangeSteps /\ FreeStep("body") \in ChangeSteps
  BY <1>1 DEF ChangeSteps
<1>3. first \in Seq(ChangeSteps) /\ second \in Seq(ChangeSteps)
  BY <1>1, <1>2, StepIfNeeded
<1>4. /\ equip \in Seq(ChangeSteps) /\ \A i \in 1..Len(equip) : equip[i].op = "equip"
      /\ \A what : Occurs(equip, EquipStep(what)) <=> what \in ToSet(equipment)
  BY EquipStepsOf
<1>5. s = first \o rest
  <2>1. s = (first \o second) \o equip
    BY DEF StepsToChange, FreeWorn, FreeStep
  <2>2. ASSUME NEW a \in Seq(ChangeSteps), NEW b \in Seq(ChangeSteps),
               NEW c \in Seq(ChangeSteps)
        PROVE  (a \o b) \o c = a \o (b \o c)
    BY ConcatAssociative
  <2> HIDE DEF first, second, equip
  <2>3. (first \o second) \o equip = first \o (second \o equip)
    BY <1>3, <1>4, <2>2
  <2> QED
    BY <2>1, <2>3
<1>6. \A place : FreeStep(place).op = "free"
  BY DEF FreeStep
<1>7. \A what : EquipStep(what).op = "equip"
  BY DEF EquipStep
<1> HIDE DEF weapon, body, equip
<1>8. FreesFirst(equip) /\ \A place : ~Occurs(equip, FreeStep(place))
  BY <1>4, <1>6 DEF FreesFirst, Occurs
<1>9. /\ rest \in Seq(ChangeSteps) /\ FreesFirst(rest)
      /\ \A v : Occurs(rest, v) <=> (body /\ v = FreeStep("body")) \/ Occurs(equip, v)
      /\ body => Frees(rest)
  <2>1. ~Occurs(equip, FreeStep("body"))
    BY <1>8
  <2>2. rest = IfNeeded(body, FreeStep("body")) \o equip
    OBVIOUS
  <2>3. /\ "body" \in Equipped /\ body \in BOOLEAN
        /\ equip \in Seq(ChangeSteps) /\ FreesFirst(equip)
    BY <1>1, <1>4, <1>8
  <2>4. PICK place \in Equipped : place = "body"
    BY <2>3
  <2> HIDE DEF rest
  <2>5. ~Occurs(equip, FreeStep(place)) /\ rest = IfNeeded(body, FreeStep(place)) \o equip
    BY <2>1, <2>2, <2>4
  <2>6. /\ rest \in Seq(ChangeSteps) /\ FreesFirst(rest)
        /\ \A v : Occurs(rest, v) <=> (body /\ v = FreeStep(place)) \/ Occurs(equip, v)
        /\ body => Frees(rest)
    BY <2>3, <2>5, FreesFirstPrepended
  <2> QED
    BY <2>4, <2>6
<1>10. ~Occurs(rest, FreeStep("weapon"))
  BY <1>8, <1>9, FreeStepsDiffer
<1> HIDE DEF rest
<1>11. /\ s \in Seq(ChangeSteps) /\ FreesFirst(s)
       /\ \A v : Occurs(s, v) <=> (weapon /\ v = FreeStep("weapon")) \/ Occurs(rest, v)
       /\ weapon => Frees(s)
  BY <1>1, <1>5, <1>9, <1>10, FreesFirstPrepended
<1>12. ASSUME NEW what PROVE Occurs(s, EquipStep(what)) <=> what \in ToSet(equipment)
  <2>1. EquipStep(what) # FreeStep("weapon") /\ EquipStep(what) # FreeStep("body")
    BY <1>6, <1>7
  <2> QED
    BY <1>4, <1>9, <1>11, <2>1
<1>13. ASSUME NEW place \in Equipped
       PROVE  Occurs(s, FreeStep(place)) <=> players[t].items[place] # 0
  <2>1. place = "weapon" \/ place = "body"
    BY DEF Equipped
  <2> QED
    BY <1>8, <1>9, <1>11, <2>1, FreeStepsDiffer DEF weapon, body
<1>14. body /\ ~weapon => Frees(s)
  <2> SUFFICES ASSUME body, ~weapon PROVE Frees(s)
    OBVIOUS
  <2>1. s = rest
    BY <1>5, <1>9, ConcatEmptySeq DEF IfNeeded
  <2> QED
    BY <1>9, <2>1
<1>15. ASSUME NEW place \in Equipped, players[t].items[place] # 0 PROVE Frees(s)
  <2>1. place = "weapon" \/ place = "body"
    BY DEF Equipped
  <2> QED
    BY <1>11, <1>14, <1>15, <2>1 DEF weapon, body
<1> QED
  BY <1>11, <1>12, <1>13, <1>15

LEMMA ConfirmFindsItems ==
  ASSUME ItemsInv, NEW t \in Token, HandleCharCreationConfirm(t)
  PROVE  \/ UNCHANGED worldVars
         \/ /\ RemovePlayer(t)
            /\ \E row \in Inserted(t) : saved' = [saved EXCEPT ![players[t].account_id] = row]
<1>1. AllFound(Carried(t) \ {players[t].bag_item_id})
  <2>1. AllFound(Carried(t))
    BY NothingLeft DEF HandleCharCreationConfirm, Idle
  <2> QED
    BY <2>1 DEF AllFound
<1>2. (UNCHANGED itemVars /\ UnchangedWorld) => UNCHANGED worldVars
  BY DEF UnchangedWorld, worldVars
<1> QED
  BY <1>1, <1>2 DEF HandleCharCreationConfirm

LEMMA DropFindsItem ==
  ASSUME ItemsInv, NEW t \in Token, NEW id \in Ids, HandleDropItem(t, id)
  PROVE  /\ agents' = [agents EXCEPT ![Head(free_agents)] = [class |-> "item", of |-> id]]
         /\ free_agents' = Tail(free_agents) /\ free_agents # <<>>
         /\ known' = [u \in Token |-> IF u \in connected
                                      THEN known[u] \cup {Head(free_agents)} ELSE known[u]]
         /\ UNCHANGED <<itemVars, loaded, met>>
         /\ kind[id] # NULL /\ t \in Players
         /\ \E place \in Place \ Equipped : id = players[t].items[place]
<1>1. t \in Players /\ AllFound(Carried(t))
  BY NothingLeft DEF HandleDropItem, Idle
<1>2. PICK i \in 1..Len(Backpack) : id = players[t].items[Backpack[i]]
  BY DEF HandleDropItem, FindItem
<1>3. Backpack[i] \in Place \ Equipped
  BY Places
<1>4. id # 0 /\ id \in Carried(t)
  BY <1>2, <1>3, NoIdIsZero DEF Carried
<1>5. kind[id] # NULL /\ AllFound({id})
  BY <1>1, <1>4 DEF AllFound
<1> QED
  BY <1>1, <1>2, <1>3, <1>5 DEF HandleDropItem

LEMMA OtherKeepsItems ==
  ASSUME ItemsInv, OtherNext \/ UNCHANGED worldVars
  PROVE  UNCHANGED itemVars
<1>1. CASE Join \/ JoinAborts
  BY <1>1 DEF Join, JoinAborts
<1>2. ASSUME NEW t \in Token, NEW a \in Accounts, HandleTransferConnection(t, a)
      PROVE  UNCHANGED itemVars
  BY <1>2 DEF HandleTransferConnection
<1>3. ASSUME NEW t \in Token, HandleDisconnect(t) PROVE UNCHANGED itemVars
  BY <1>3 DEF HandleDisconnect, RemovePlayer
<1>4. ASSUME NEW t \in Token, FlushFailed(t) PROVE UNCHANGED itemVars
  BY <1>4 DEF FlushFailed
<1>5. ASSUME NEW t \in Token, HandleRequestItems(t) PROVE UNCHANGED itemVars
  BY <1>5, RequestFindsItems DEF worldVars
<1>6. ASSUME NEW t \in Token, HandleInstanceLoadRequestPlayers(t)
      PROVE  UNCHANGED itemVars
  <2>1. UNCHANGED halted
    BY <1>6, LoadFindsItems
  <2> QED
    BY <1>6, <2>1 DEF HandleInstanceLoadRequestPlayers, itemVars, vars
<1>7. ASSUME NEW t \in Token, NEW equipment \in DefaultEquipments,
             HandleCharCreationChangeProf(t, equipment)
      PROVE  UNCHANGED itemVars
  BY <1>7 DEF HandleCharCreationChangeProf
<1>8. ASSUME NEW t \in Token, ChangeProfAborts(t) PROVE UNCHANGED itemVars
  BY <1>8 DEF ChangeProfAborts
<1>9. ASSUME NEW t \in Token, HandleCharCreationConfirm(t) PROVE UNCHANGED itemVars
  <2>1. UNCHANGED worldVars \/ RemovePlayer(t)
    BY <1>9, ConfirmFindsItems
  <2> QED
    BY <2>1 DEF worldVars, RemovePlayer
<1>10. ASSUME NEW t \in Token, NEW id \in Ids, HandleDropItem(t, id)
       PROVE  UNCHANGED itemVars
  BY <1>10, DropFindsItem
<1>11. CASE UNCHANGED worldVars
  BY <1>11 DEF worldVars
<1> QED
  BY <1>1, <1>2, <1>3, <1>4, <1>5, <1>6, <1>7, <1>8, <1>9, <1>10, <1>11 DEF OtherNext

-----------------------------------------------------------------------------
(* The table of the items *)

\* A step of the world that takes or frees an item.
ItemNext == AddBagItem \/ LoadItem \/ AddCupcakes \/ FreeBagItem \/ EquipItem

LEMMA StepsOfWorld ==
  [WorldNext]_worldVars => ItemNext \/ OtherNext \/ UNCHANGED worldVars
  BY DEF WorldNext, ItemNext, OtherNext

\* What the items see of a step: one is taken and put into a slot of a player,
\* one is freed, or nothing happens.
LEMMA ItemSteps ==
  ASSUME MaxLive <= Size - 2, ItemsInv, [WorldNext]_worldVars
  PROVE  \/ \E what \in Kinds, slot \in Slots \cup {"nowhere"} :
              Takes(what) /\ Puts(slot) /\ doing \in Players
                /\ UNCHANGED <<map_type, saved, connected, agentVars, viewVars, used, changes,
                               aborted>>
         \/ FreeBagItem
         \/ UNCHANGED itemVars
<1>1. Place \subseteq Slots /\ "bag" \in Slots /\ Equipped \subseteq Place
  BY Places DEF Slots
<1>2. CASE AddBagItem
  <2>1. "bag" \in Kinds
    BY DEF Kinds
  <2> QED
    BY <1>1, <1>2, <2>1, AddBagItemPuts DEF AddBagItem, Step
<1>3. CASE LoadItem
  <2>1. PICK place \in SavedPlaces(LastStep.row) :
          /\ place \in Place /\ LastStep.row.holds[place] \in Kinds
          /\ Takes(LastStep.row.holds[place]) /\ Puts(place) /\ doing \in Players
    BY <1>3, LoadItemPuts
  <2> QED
    BY <1>1, <1>3, <2>1 DEF LoadItem, Step
<1>4. CASE AddCupcakes
  <2>1. "cupcake" \in Kinds
    BY DEF Kinds
  <2>2. CASE UNCHANGED <<itemVars, players>>
    BY <2>2
  <2>3. CASE \E place \in Place : Takes("cupcake") /\ Puts(place)
    BY <1>1, <1>4, <2>1, <2>3, AddCupcakesPuts DEF AddCupcakes, Step
  <2> QED
    BY <1>4, <2>2, <2>3, AddCupcakesPuts
<1>5. CASE EquipItem
  <2> DEFINE what == Head(todo).kind
  <2>1. /\ what \in Kinds /\ doing \in Players
        /\ \/ UNCHANGED itemVars
           \/ Takes(what) /\ \E slot \in Slots \cup {"nowhere"} : Puts(slot)
    <3>1. what \in DOMAIN SlotForItemType => SlotForItemType[what] \in Slots
      BY <1>1, WhatIsWorn
    <3> HIDE DEF what
    <3>2. /\ what \in Kinds /\ doing \in Players
          /\ IF what \notin DOMAIN SlotForItemType THEN UNCHANGED <<itemVars, players>>
             ELSE /\ Takes(what)
                  /\ IF players[doing].items[SlotForItemType[what]] = 0
                     THEN Puts(SlotForItemType[what])
                     ELSE \E slot \in (Place \ Equipped) \cup {"nowhere"} : Puts(slot)
      BY <1>5, EquipItemPuts DEF what
    <3> QED
      BY <1>1, <3>1, <3>2
  <2> HIDE DEF what
  <2> QED
    BY <1>5, <2>1 DEF EquipItem, Step
<1>6. CASE OtherNext \/ UNCHANGED worldVars
  BY <1>6, OtherKeepsItems
<1> QED
  BY <1>2, <1>3, <1>4, <1>5, <1>6, StepsOfWorld DEF ItemNext

LEMMA TableStep ==
  ASSUME MaxLive <= Size - 2, ItemsInv, [WorldNext]_worldVars
  PROVE  [Next]_vars /\ QueueInv' /\ KindsInv'
<1>1. ASSUME NEW what \in Kinds, Takes(what) PROVE [Next]_vars /\ KindsInv'
  <2>1. Next
    BY <1>1 DEF Takes, Next
  <2>2. KindsInv'
    <3>1. \A id \in Ids : /\ freed'[id] = IF id = new_id' THEN FALSE ELSE freed[id]
                          /\ kind'[id] = IF id = new_id' THEN what ELSE kind[id]
      BY <1>1, NoIdIsZero DEF Takes, ItemsInv, WorldTypeOK, TypeOK
    <3> QED
      BY <3>1, NullAssumption DEF ItemsInv, KindsInv
  <2> QED
    BY <2>1, <2>2
<1>2. ASSUME FreeBagItem PROVE [Next]_vars /\ KindsInv'
  <2>1. PICK id \in Ids : GmIdFree(id) /\ kind' = [kind EXCEPT ![id] = NULL]
    BY <1>2, FreeBagItemFrees
  <2>2. Next
    BY <2>1 DEF Next
  <2>3. KindsInv'
    <3>1. \A i \in Ids : /\ freed'[i] = IF i = id THEN TRUE ELSE freed[i]
                         /\ kind'[i] = IF i = id THEN NULL ELSE kind[i]
      BY <2>1, NoIdIsZero DEF GmIdFree, ItemsInv, WorldTypeOK, TypeOK
    <3> QED
      BY <3>1 DEF ItemsInv, KindsInv
  <2> QED
    BY <2>2, <2>3
<1>3. ASSUME UNCHANGED itemVars PROVE [Next]_vars /\ KindsInv'
  BY <1>3 DEF itemVars, vars, table, ItemsInv, KindsInv
<1>4. [Next]_vars /\ KindsInv'
  BY <1>1, <1>2, <1>3, ItemSteps
<1>5. QueueInv'
  BY <1>4, QueueStep DEF ItemsInv
<1> QED
  BY <1>4, <1>5

-----------------------------------------------------------------------------
(* Types *)

LEMMA ItemNextTypes ==
  ASSUME MaxLive <= Size - 2, ItemsInv, ItemNext, TypeOK'
  PROVE  WorldTypeOK'
<1>1. /\ todo # <<>>
      /\ UNCHANGED <<map_type, saved, connected, agentVars, viewVars, used, changes, aborted>>
      /\ todo' = Tail(todo) /\ doing' \in {doing, NULL}
  BY DEF ItemNext, AddBagItem, LoadItem, AddCupcakes, FreeBagItem, EquipItem, Step
<1>2. todo' \in Seq(Ops) /\ doing' \in Token \cup {NULL}
  BY <1>1, TailOf DEF ItemsInv, WorldTypeOK
<1>3. ASSUME NEW what \in Kinds, NEW slot, Takes(what), Puts(slot)
      PROVE  /\ kind' \in [Ids -> Kinds \cup {NULL}]
             /\ players' \in [Token -> GmPlayer \cup {NULL}]
  BY <1>3 DEF Takes, Puts, ItemsInv, WorldTypeOK
<1>4. CASE FreeBagItem
  <2>1. PICK id \in Ids :
          /\ doing \in Players /\ kind' = [kind EXCEPT ![id] = NULL]
          /\ players' = IF Frees(todo') THEN players
                        ELSE [players EXCEPT ![doing].items =
                               [q \in Place |-> IF q \in Equipped THEN 0 ELSE @[q]]]
    BY <1>4, FreeBagItemFrees
  <2>2. kind' \in [Ids -> Kinds \cup {NULL}]
    BY <2>1 DEF ItemsInv, WorldTypeOK
  <2>3. players' \in [Token -> GmPlayer \cup {NULL}]
    <3>1. doing \in Token /\ players[doing] \in GmPlayer
      BY <2>1 DEF Players, ItemsInv, WorldTypeOK
    <3> DEFINE items == [q \in Place |-> IF q \in Equipped THEN 0 ELSE players[doing].items[q]]
    <3>2. items \in [Place -> Idx]
      BY <3>1, IdsAreIndices DEF GmPlayer
    <3>3. [players[doing] EXCEPT !.items = items] \in GmPlayer
      <4> HIDE DEF items
      <4> QED
        BY <3>1, <3>2 DEF GmPlayer
    <3>4. CASE Frees(todo')
      BY <2>1, <3>4 DEF ItemsInv, WorldTypeOK
    <3>5. CASE ~Frees(todo')
      <4>1. players' = [players EXCEPT ![doing] = [players[doing] EXCEPT !.items = items]]
        BY <2>1, <3>5
      <4> HIDE DEF items
      <4> QED
        BY <3>1, <3>3, <4>1 DEF ItemsInv, WorldTypeOK
    <3> QED
      BY <3>4, <3>5
  <2> QED
    BY <1>1, <1>2, <2>2, <2>3 DEF ItemsInv, WorldTypeOK, agentVars, viewVars
<1>5. ASSUME NEW what \in Kinds, NEW slot, Takes(what), Puts(slot)
      PROVE  WorldTypeOK'
  BY <1>1, <1>2, <1>3, <1>5 DEF ItemsInv, WorldTypeOK, agentVars, viewVars
<1>6. ASSUME UNCHANGED <<itemVars, players>> PROVE WorldTypeOK'
  BY <1>1, <1>2, <1>6 DEF ItemsInv, WorldTypeOK, itemVars, agentVars, viewVars
<1>7. CASE AddBagItem
  BY <1>5, <1>7, AddBagItemPuts DEF Kinds
<1>8. CASE LoadItem
  BY <1>5, <1>8, LoadItemPuts
<1>9. CASE AddCupcakes
  <2>1. "cupcake" \in Kinds
    BY DEF Kinds
  <2> QED
    BY <1>5, <1>6, <1>9, <2>1, AddCupcakesPuts
<1>10. CASE EquipItem
  <2> DEFINE what == Head(todo).kind
  <2>1. \/ UNCHANGED <<itemVars, players>>
        \/ what \in Kinds /\ Takes(what) /\ \E slot : Puts(slot)
    BY <1>10, EquipItemPuts
  <2> HIDE DEF what
  <2> QED
    BY <1>5, <1>6, <2>1
<1> QED
  BY <1>4, <1>7, <1>8, <1>9, <1>10 DEF ItemNext

\* The agent of a player.
LEMMA AgentOfPlayer ==
  ASSUME WorldInv, NEW t \in Players, players[t].agent_id # 0
  PROVE  /\ players[t].agent_id \in AgentId /\ t \in Token
         /\ agents[players[t].agent_id] = PlayerAgent(t)
<1>1. t \in Token /\ players[t] \in GmPlayer
  BY DEF WorldInv, ItemsInv, WorldTypeOK, Players
<1>2. players[t].agent_id \in AgentId \cup {0}
  BY <1>1 DEF GmPlayer
<1> QED
  BY <1>1, <1>2 DEF WorldInv, AgentsInv

LEMMA AgentIsSomething ==
  ASSUME NEW t \in Token
  PROVE  /\ PlayerAgent(t) \in GmAgent /\ PlayerAgent(t) # NULL
         /\ PlayerAgent(t).class = "player" /\ PlayerAgent(t).of = t
<1>1. PlayerAgent(t) \in GmAgent
  BY DEF PlayerAgent, GmAgent
<1>2. PlayerAgent(t).class = "player" /\ PlayerAgent(t).of = t
  BY DEF PlayerAgent
<1> QED
  BY <1>1, <1>2, NullAssumption

LEMMA ConnectedHaveAgents ==
  ASSUME WorldInv, NEW t \in connected
  PROVE  /\ t \in Players /\ t \in Token /\ players[t].agent_id \in AgentId
         /\ agents[players[t].agent_id] = PlayerAgent(t)
<1>1. t \in Players
  BY DEF WorldInv, ItemsInv, HandlerInv
<1>2. players[t].agent_id # 0
  BY DEF WorldInv, AgentsInv
<1> QED
  BY <1>1, <1>2, AgentOfPlayer

LEMMA JoinTypes ==
  ASSUME WorldInv, Join, TypeOK'
  PROVE  WorldTypeOK'
<1> USE DEF WorldInv, ItemsInv
<1>1. todo # <<>> /\ Head(todo).op = "join"
  BY DEF Join
<1>2. Joining
  BY <1>1, OnlyJoinLeft
<1>3. doing \in Players /\ doing \in Token /\ players[doing] \in GmPlayer
  BY <1>1 DEF HandlerInv, Players, WorldTypeOK
<1>4. free_agents \in Seq(AgentId) /\ free_agents # <<>>
  BY <1>2 DEF AgentsInv, WorldTypeOK
<1>5. Head(free_agents) \in AgentId /\ Tail(free_agents) \in Seq(AgentId)
  BY <1>4, TailOccurs
<1>6. players' \in [Token -> GmPlayer \cup {NULL}]
  <2> DEFINE new == Head(free_agents)
  <2>1. players' = [players EXCEPT ![doing].agent_id = new]
    BY DEF Join
  <2> HIDE DEF new
  <2>2. [players[doing] EXCEPT !.agent_id = new] \in GmPlayer
    BY <1>3, <1>5 DEF GmPlayer, new
  <2> QED
    BY <1>3, <2>1, <2>2 DEF WorldTypeOK
<1>7. agents' \in [AgentId -> GmAgent \cup {NULL}]
  <2>1. agents' = [agents EXCEPT ![Head(free_agents)] = PlayerAgent(doing)]
    BY DEF Join, PlayerAgent
  <2> QED
    BY <1>3, <1>5, <2>1, AgentIsSomething DEF WorldTypeOK
<1>8. connected' \subseteq Token /\ loaded' \subseteq connected'
  BY <1>3 DEF Join, WorldTypeOK, viewVars
<1>9. todo' \in Seq(Ops) /\ doing' \in Token \cup {NULL}
  BY EmptySeq DEF Join
<1> QED
  BY <1>5, <1>6, <1>7, <1>8, <1>9 DEF Join, WorldTypeOK, itemVars, viewVars

LEMMA TransferTypes ==
  ASSUME WorldInv, NEW t \in Token, NEW a \in Accounts, HandleTransferConnection(t, a), TypeOK'
  PROVE  /\ WorldTypeOK'
         /\ \E row \in SavedBags : todo' = JoinSteps(row)
<1> USE DEF WorldInv, ItemsInv
<1>1. \A row \in Rows(a) : row \in SavedBags
  <2>1. NoBags \in SavedBags
    BY DEF NoBags, SavedBags, Nothing
  <2>2. ASSUME map_type # "CharacterCreation"
        PROVE  saved[a] \in SavedBags /\ [saved[a] EXCEPT !.holds = Nothing] \in SavedBags
    <3>1. map_type = "MainTown"
      BY <2>2 DEF WorldTypeOK
    <3>2. saved[a] \in SavedBags
      BY <3>1 DEF SavedInv, WorldTypeOK
    <3>3. Nothing \in [Place -> Kinds \cup {NULL}]
      BY DEF Nothing
    <3> QED
      BY <3>2, <3>3 DEF SavedBags
  <2> QED
    BY <2>1, <2>2 DEF Rows
<1>2. PICK row \in SavedBags : todo' = JoinSteps(row)
  BY <1>1 DEF HandleTransferConnection
<1>3. todo' \in Seq(Ops)
  BY <1>2, JoinStepsOf
<1>4. players' \in [Token -> GmPlayer \cup {NULL}]
  <2> DEFINE new == [account_id |-> a, agent_id |-> 0, bag_item_id |-> 0,
                     items |-> [place \in Place |-> 0], chosen |-> NULL]
  <2>1. new \in GmPlayer
    BY IdsAreIndices DEF GmPlayer
  <2>2. players' = [players EXCEPT ![t] = new]
    BY DEF HandleTransferConnection
  <2> HIDE DEF new
  <2> QED
    BY <2>1, <2>2 DEF WorldTypeOK
<1>5. used' \in 0..MaxToken /\ doing' \in Token
  BY WorldBoundsAssumption DEF HandleTransferConnection, Token
<1> QED
  BY <1>2, <1>3, <1>4, <1>5
     DEF HandleTransferConnection, WorldTypeOK, itemVars, agentVars, viewVars

LEMMA RemoveTypes ==
  ASSUME WorldInv, NEW t \in connected, RemovePlayer(t), TypeOK',
         saved' \in [Accounts -> SavedBags \cup {NULL}]
  PROVE  WorldTypeOK'
<1> USE DEF WorldInv, ItemsInv
<1>1. t \in Token /\ players[t].agent_id \in AgentId
  BY ConnectedHaveAgents
<1>2. players' \in [Token -> GmPlayer \cup {NULL}] /\ agents' \in [AgentId -> GmAgent \cup {NULL}]
  BY DEF RemovePlayer, WorldTypeOK
<1>3. free_agents' \in Seq(AgentId)
  BY <1>1, AppendProperties DEF RemovePlayer, WorldTypeOK
<1>4. known' \in [Token -> SUBSET AgentId] /\ met' \in [Token -> SUBSET Token]
  BY DEF RemovePlayer, Without, WorldTypeOK
<1>5. connected' \subseteq Token /\ loaded' \subseteq connected'
  BY DEF RemovePlayer, WorldTypeOK
<1> QED
  BY <1>2, <1>3, <1>4, <1>5 DEF RemovePlayer, WorldTypeOK, itemVars

LEMMA SavedByConfirm ==
  ASSUME WorldInv, NEW t \in Players,
         NEW row \in Inserted(t)
  PROVE  row \in SavedBags /\ players[t].account_id \in Accounts
<1> USE DEF WorldInv, ItemsInv
<1>1. players[t] \in GmPlayer
  BY DEF Players, WorldTypeOK
<1>2. Holds(t) \in [Place -> Kinds \cup {NULL}]
  <2>1. ASSUME NEW place \in Place, players[t].items[place] # 0
        PROVE  kind[players[t].items[place]] \in Kinds \cup {NULL}
    <3>1. players[t].items[place] \in Idx
      BY <1>1 DEF GmPlayer
    <3>2. players[t].items[place] \in Ids
      BY <2>1, <3>1 DEF Idx, Ids
    <3> QED
      BY <3>2 DEF WorldTypeOK
  <2> QED
    BY <2>1 DEF Holds
<1>3. Nothing \in [Place -> Kinds \cup {NULL}]
  BY DEF Nothing
<1>4. ASSUME NEW bags \in BOOLEAN, NEW holds \in [Place -> Kinds \cup {NULL}]
      PROVE  [bags |-> bags, holds |-> holds] \in SavedBags
  BY DEF SavedBags
<1>5. row \in SavedBags
  <2>1. NoBags \in SavedBags
    BY <1>3, <1>4 DEF NoBags
  <2>2. ASSUME NEW n,
               row = [bags  |-> TRUE,
                      holds |-> [place \in Place |->
                                   IF \E i \in 1..n : SlotsInOrder[i] = place
                                   THEN Holds(t)[place] ELSE NULL]]
        PROVE  row \in SavedBags
    <3> DEFINE holds == [place \in Place |-> IF \E i \in 1..n : SlotsInOrder[i] = place
                                            THEN Holds(t)[place] ELSE NULL]
    <3>1. holds \in [Place -> Kinds \cup {NULL}]
      BY <1>2
    <3>2. row = [bags |-> TRUE, holds |-> holds]
      BY <2>2
    <3> HIDE DEF holds
    <3> QED
      BY <1>4, <3>1, <3>2
  <2> QED
    BY <2>1, <2>2 DEF Inserted
<1>6. players[t].account_id \in Accounts
  BY <1>1 DEF GmPlayer
<1> QED
  BY <1>5, <1>6

LEMMA ConfirmTypes ==
  ASSUME WorldInv, NEW t \in Token, HandleCharCreationConfirm(t), TypeOK'
  PROVE  /\ WorldTypeOK'
         /\ UNCHANGED worldVars
              \/ (RemovePlayer(t) /\ t \in connected /\ todo = <<>>
                    /\ \E a \in Accounts, row \in SavedBags : saved' = [saved EXCEPT ![a] = row])
<1> USE DEF WorldInv, ItemsInv
<1>1. t \in connected /\ t \in Players /\ todo = <<>>
  BY NothingLeft DEF HandleCharCreationConfirm, Idle
<1>2. CASE UNCHANGED worldVars
  BY <1>2 DEF WorldTypeOK, worldVars, itemVars, agentVars, viewVars
<1>3. ASSUME RemovePlayer(t),
             NEW row \in Inserted(t),
             saved' = [saved EXCEPT ![players[t].account_id] = row]
      PROVE  /\ WorldTypeOK'
             /\ \E a \in Accounts, r \in SavedBags : saved' = [saved EXCEPT ![a] = r]
  <2>1. row \in SavedBags /\ players[t].account_id \in Accounts
    BY <1>1, SavedByConfirm
  <2>2. saved' \in [Accounts -> SavedBags \cup {NULL}]
    BY <1>3, <2>1 DEF WorldTypeOK
  <2>3. WorldTypeOK'
    BY <1>1, <1>3, <2>2, RemoveTypes
  <2> QED
    BY <1>3, <2>1, <2>3
<1> QED
  BY <1>1, <1>2, <1>3, ConfirmFindsItems

LEMMA ChangeTypes ==
  ASSUME WorldInv, NEW t \in Token, NEW equipment \in DefaultEquipments,
         HandleCharCreationChangeProf(t, equipment), TypeOK'
  PROVE  /\ WorldTypeOK' /\ t \in Players /\ t \in connected
         /\ todo' = StepsToChange(t, equipment)
         /\ todo' \in Seq(ChangeSteps)
<1> USE DEF WorldInv, ItemsInv
<1>1. t \in connected /\ t \in Players
  BY DEF HandleCharCreationChangeProf, HandlerInv
<1>2. todo' = StepsToChange(t, equipment)
  BY DEF HandleCharCreationChangeProf, StepsToChange, EquipSteps, EquipStep
<1>3. todo' \in Seq(ChangeSteps)
  BY <1>2, ChangeStepsOf
<1>4. todo' \in Seq(Ops)
  BY <1>3, ChangeStepTypes, SeqMonotonic
<1>5. players' \in [Token -> GmPlayer \cup {NULL}]
  <2>1. players[t] \in GmPlayer
    BY <1>1 DEF Players, WorldTypeOK
  <2>2. [players[t] EXCEPT !.chosen = equipment] \in GmPlayer
    BY <2>1 DEF GmPlayer
  <2>3. players' = [players EXCEPT ![t] = [players[t] EXCEPT !.chosen = equipment]]
    BY DEF HandleCharCreationChangeProf
  <2> QED
    BY <2>2, <2>3 DEF WorldTypeOK
<1>6. changes' \in 0..MaxChanges /\ doing' \in Token \cup {NULL}
  BY WorldBoundsAssumption DEF HandleCharCreationChangeProf, WorldTypeOK
<1> QED
  BY <1>1, <1>2, <1>3, <1>4, <1>5, <1>6
     DEF HandleCharCreationChangeProf, WorldTypeOK, itemVars, agentVars, viewVars

LEMMA LoadTypes ==
  ASSUME WorldInv, NEW t \in Token, HandleInstanceLoadRequestPlayers(t), TypeOK'
  PROVE  WorldTypeOK'
<1> USE DEF WorldInv, ItemsInv
<1> DEFINE exists == {id \in AgentId : agents[id] # NULL}
           others == {agents[id].of : id \in {a \in exists : agents[a].class = "player"}}
<1>1. /\ loaded' = loaded \cup {t}
      /\ known' = [u \in Token |->
                     IF u = t THEN exists
                     ELSE IF u \in connected THEN known[u] \cup {players[t].agent_id}
                     ELSE known[u]]
      /\ met' = Meets(t, others)
  BY LoadFindsItems
<1>2. others \subseteq Token
  BY DEF WorldTypeOK, GmAgent
<1>3. t \in connected /\ players[t].agent_id \in AgentId
  BY ConnectedHaveAgents DEF HandleInstanceLoadRequestPlayers
<1>4. exists \subseteq AgentId
  OBVIOUS
<1> HIDE DEF exists, others
<1>5. known' \in [Token -> SUBSET AgentId]
  BY <1>1, <1>3, <1>4 DEF WorldTypeOK
<1>6. met' \in [Token -> SUBSET Token]
  BY <1>1, <1>2 DEF WorldTypeOK, Meets
<1>7. loaded' \subseteq connected'
  BY <1>1, <1>3 DEF WorldTypeOK, HandleInstanceLoadRequestPlayers
<1> QED
  BY <1>5, <1>6, <1>7 DEF WorldTypeOK, HandleInstanceLoadRequestPlayers, agentVars

LEMMA DropTypes ==
  ASSUME WorldInv, NEW t \in Token, NEW id \in Ids, HandleDropItem(t, id), TypeOK'
  PROVE  WorldTypeOK'
<1> USE DEF WorldInv, ItemsInv
<1> DEFINE new  == Head(free_agents)
           item == [class |-> "item", of |-> id]
<1>1. /\ agents' = [agents EXCEPT ![new] = item]
      /\ free_agents' = Tail(free_agents) /\ free_agents # <<>>
      /\ known' = [u \in Token |-> IF u \in connected THEN known[u] \cup {new} ELSE known[u]]
      /\ UNCHANGED <<itemVars, loaded, met>>
  BY DropFindsItem
<1>2. item \in GmAgent
  BY DEF GmAgent
<1>3. new \in AgentId /\ free_agents' \in Seq(AgentId)
  BY <1>1, TailOccurs DEF WorldTypeOK
<1> HIDE DEF new, item
<1>4. agents' \in [AgentId -> GmAgent \cup {NULL}]
  BY <1>1, <1>2, <1>3 DEF WorldTypeOK
<1>5. known' \in [Token -> SUBSET AgentId]
  BY <1>1, <1>3 DEF WorldTypeOK
<1> QED
  BY <1>1, <1>3, <1>4, <1>5 DEF WorldTypeOK, HandleDropItem, itemVars

LEMMA TypesStep ==
  ASSUME MaxLive <= Size - 2, WorldInv, [WorldNext]_worldVars
  PROVE  WorldTypeOK'
<1>1. TypeOK'
  BY TableStep DEF WorldInv, QueueInv, LinksInv
<1>2. CASE ItemNext
  BY <1>1, <1>2, ItemNextTypes DEF WorldInv
<1>3. CASE UNCHANGED worldVars
  BY <1>3 DEF WorldInv, ItemsInv, WorldTypeOK, worldVars, itemVars, agentVars, viewVars,
              TypeOK, vars, table
<1>4. CASE Join
  BY <1>1, <1>4, JoinTypes
<1>5. ASSUME NEW t \in Token, NEW a \in Accounts, HandleTransferConnection(t, a)
      PROVE  WorldTypeOK'
  BY <1>1, <1>5, TransferTypes
<1>6. ASSUME NEW t \in Token, HandleDisconnect(t) PROVE WorldTypeOK'
  <2>1. saved' \in [Accounts -> SavedBags \cup {NULL}]
    BY <1>6 DEF HandleDisconnect, WorldInv, ItemsInv, WorldTypeOK
  <2> QED
    BY <1>1, <1>6, <2>1, RemoveTypes DEF HandleDisconnect
<1>7. ASSUME NEW t \in Token, FlushFailed(t) PROVE WorldTypeOK'
  BY <1>1, <1>7 DEF FlushFailed, WorldInv, ItemsInv, WorldTypeOK, itemVars, agentVars
<1>8. ASSUME NEW t \in Token, HandleRequestItems(t) PROVE WorldTypeOK'
  BY <1>3, <1>8, RequestFindsItems DEF WorldInv
<1>9. ASSUME NEW t \in Token, HandleInstanceLoadRequestPlayers(t) PROVE WorldTypeOK'
  BY <1>1, <1>9, LoadTypes
<1>10. ASSUME NEW t \in Token, NEW equipment \in DefaultEquipments,
              HandleCharCreationChangeProf(t, equipment)
       PROVE  WorldTypeOK'
  BY <1>1, <1>10, ChangeTypes
<1>11. ASSUME NEW t \in Token, ChangeProfAborts(t) PROVE WorldTypeOK'
  <2>1. changes' \in 0..MaxChanges
    BY <1>11, WorldBoundsAssumption DEF ChangeProfAborts, WorldInv, ItemsInv, WorldTypeOK
  <2> QED
    BY <1>1, <1>11, <2>1
       DEF ChangeProfAborts, WorldInv, ItemsInv, WorldTypeOK, itemVars, agentVars, viewVars
<1>12. ASSUME NEW t \in Token, HandleCharCreationConfirm(t) PROVE WorldTypeOK'
  BY <1>1, <1>12, ConfirmTypes
<1>13. ASSUME NEW t \in Token, NEW id \in Ids, HandleDropItem(t, id) PROVE WorldTypeOK'
  BY <1>1, <1>13, DropTypes
<1>14. CASE JoinAborts
  BY <1>1, <1>14 DEF JoinAborts, WorldInv, ItemsInv, WorldTypeOK, itemVars, agentVars, viewVars
<1> QED
  BY <1>2, <1>3, <1>4, <1>5, <1>6, <1>7, <1>8, <1>9, <1>10, <1>11, <1>12, <1>13, <1>14, StepsOfWorld
     DEF OtherNext

-----------------------------------------------------------------------------
(* Handlers *)

LEMMA NothingToFreeNext ==
  (StepsInOrder /\ ~Frees(todo) => \A place : ~ToFree(place))'
<1>1. StepsInOrder /\ ~Frees(todo) => \A place : ~ToFree(place)
  BY NothingToFree
<1> QED
  BY <1>1, PTL

LEMMA PutsKeepsPlayers ==
  ASSUME (\E slot : Puts(slot)) \/ UNCHANGED players
  PROVE  /\ Players' = Players
         /\ \A t \in Players : /\ players'[t].agent_id = players[t].agent_id
                               /\ players'[t].chosen = players[t].chosen
  BY DEF Puts, Players

\* The steps that bring a player who joins.
LEMMA BringingGoesOn ==
  ASSUME MaxLive <= Size - 2, ItemsInv, AddBagItem \/ LoadItem \/ AddCupcakes
  PROVE  /\ Joining /\ Len(todo) >= 2 /\ todo' = Tail(todo) /\ doing' = doing
         /\ doing \in Players /\ connected' = connected
         /\ (\E slot : Puts(slot)) \/ UNCHANGED players
         /\ Joining' /\ LastStep' = LastStep /\ StepsInOrder'
<1>1. CASE AddBagItem
  BY <1>1, AddBagItemPuts, JoiningGoesOn DEF AddBagItem, Step, ItemsInv
<1>2. CASE LoadItem
  BY <1>2, LoadItemPuts, JoiningGoesOn DEF LoadItem, Step, ItemsInv
<1>3. CASE AddCupcakes
  BY <1>3, AddCupcakesPuts, JoiningGoesOn DEF AddCupcakes, Step, ItemsInv
<1> QED
  BY <1>1, <1>2, <1>3

LEMMA JoiningOrChanging == ~(Joining /\ Changing)
  BY DEF Joining, Changing

LEMMA BringingHandler ==
  ASSUME MaxLive <= Size - 2, ItemsInv, AddBagItem \/ LoadItem \/ AddCupcakes
  PROVE  StepsInOrder' /\ HandlerInv'
<1>1. /\ Joining /\ doing' = doing /\ doing \in Players /\ connected' = connected
      /\ Joining' /\ StepsInOrder'
  BY BringingGoesOn
<1>2. Players' = Players /\ players'[doing].agent_id = players[doing].agent_id
        /\ players'[doing].chosen = players[doing].chosen
  BY <1>1, BringingGoesOn, PutsKeepsPlayers
<1>3. todo' # <<>> /\ ~Changing'
  BY <1>1 DEF Joining, Changing
<1>4. doing # NULL
  BY <1>1, NullAssumption DEF Players
<1> QED
  BY <1>1, <1>2, <1>3, <1>4 DEF ItemsInv, HandlerInv

LEMMA EquipHandler ==
  ASSUME MaxLive <= Size - 2, ItemsInv, EquipItem
  PROVE  StepsInOrder' /\ HandlerInv' /\ ~Frees(todo) /\ ~Frees(todo')
<1> DEFINE what == Head(todo).kind
<1>1. /\ Changing /\ todo' = Tail(todo) /\ doing \in Players /\ Head(todo).op = "equip"
      /\ doing' = IF todo' = <<>> THEN NULL ELSE doing
      /\ (\E slot : Puts(slot)) \/ UNCHANGED players
  BY EquipItemPuts
<1>2. connected' = connected
  BY DEF EquipItem, Step
<1>3. StepsInOrder' /\ ~Joining' /\ ~Frees(todo')
  BY <1>1, ChangingGoesOn DEF ItemsInv
<1>4. \A place : ~ToFree(place)'
  BY <1>3, NothingToFreeNext
<1>5. Players' = Players
  BY <1>1, PutsKeepsPlayers
<1>6. doing # NULL
  BY <1>1, NullAssumption DEF Players
<1>7. ~Frees(todo)
  BY <1>1 DEF Frees
<1> QED
  BY <1>1, <1>2, <1>3, <1>4, <1>5, <1>6, <1>7 DEF ItemsInv, HandlerInv

\* What is in the slots when an item of a bag was freed.
LEMMA FreeBagItemSlots ==
  ASSUME ItemsInv, FreeBagItem
  PROVE  /\ Players' = Players
         /\ \A t \in Players : /\ players'[t].agent_id = players[t].agent_id
                               /\ players'[t].chosen = players[t].chosen
         /\ \A t \in Players, slot \in Slots :
              InSlot(t, slot)' = IF ~Frees(todo') /\ t = doing /\ slot \in Equipped THEN 0
                                 ELSE InSlot(t, slot)
<1>1. /\ doing \in Players
      /\ players' = IF Frees(todo') THEN players
                    ELSE [players EXCEPT ![doing].items =
                           [q \in Place |-> IF q \in Equipped THEN 0 ELSE @[q]]]
  BY FreeBagItemFrees
<1>2. CASE Frees(todo')
  BY <1>1, <1>2 DEF Players, InSlot
<1>3. CASE ~Frees(todo')
  <2> DEFINE items == [q \in Place |-> IF q \in Equipped THEN 0 ELSE players[doing].items[q]]
             new   == [players[doing] EXCEPT !.items = items]
  <2>1. players' = [players EXCEPT ![doing] = new]
    BY <1>1, <1>3
  <2>2. doing \in Token /\ players[doing] \in GmPlayer /\ players[doing] # NULL
    BY <1>1 DEF Players, ItemsInv, WorldTypeOK
  <2>3. /\ \A q \in Place : items[q] = IF q \in Equipped THEN 0 ELSE players[doing].items[q]
        /\ items \in [Place -> Idx]
    BY <2>2, IdsAreIndices DEF GmPlayer
  <2> HIDE DEF items
  <2>4. /\ new \in GmPlayer /\ new.items = items /\ new.bag_item_id = players[doing].bag_item_id
        /\ new.agent_id = players[doing].agent_id /\ new.chosen = players[doing].chosen
    BY <2>2, <2>3 DEF GmPlayer
  <2>5. new # NULL
    BY <2>4, NullAssumption
  <2> HIDE DEF new
  <2>6. \A t \in Token : players'[t] = IF t = doing THEN new ELSE players[t]
    BY <2>1, <2>2 DEF ItemsInv, WorldTypeOK
  <2>7. Players' = Players
    BY <2>2, <2>5, <2>6 DEF Players
  <2>8. Players \subseteq Token /\ "bag" \notin Place /\ "bag" \notin Equipped
    BY Places DEF Players
  <2>9. ASSUME NEW t \in Players, NEW slot \in Slots
        PROVE  InSlot(t, slot)' = IF t = doing /\ slot \in Equipped THEN 0 ELSE InSlot(t, slot)
    <3>1. CASE t # doing
      BY <2>6, <2>8, <3>1 DEF InSlot
    <3>2. CASE t = doing /\ slot = "bag"
      BY <2>4, <2>6, <2>8, <3>2 DEF InSlot
    <3>3. CASE t = doing /\ slot \in Place
      BY <2>3, <2>4, <2>6, <2>8, <3>3 DEF InSlot
    <3> QED
      BY <3>1, <3>2, <3>3 DEF Slots
  <2> QED
    BY <1>3, <2>4, <2>6, <2>7, <2>8, <2>9
<1> QED
  BY <1>2, <1>3

LEMMA FreeHandler ==
  ASSUME ItemsInv, FreeBagItem
  PROVE  StepsInOrder' /\ HandlerInv'
<1>1. /\ Changing /\ todo' = Tail(todo) /\ doing \in Players
      /\ doing' = IF todo' = <<>> THEN NULL ELSE doing
  BY FreeBagItemFrees
<1>2. connected' = connected
  BY DEF FreeBagItem, Step
<1>3. StepsInOrder' /\ ~Joining'
  BY <1>1, ChangingGoesOn DEF ItemsInv
<1>4. Players' = Players
  BY FreeBagItemSlots
<1>5. doing # NULL
  BY <1>1, NullAssumption DEF Players
<1>6. ASSUME Changing', NEW place \in Equipped, ToFree(place)'
      PROVE  players'[doing'].items[place] # 0
  <2>1. Frees(todo')
    BY <1>3, <1>6, NothingToFreeNext
  <2>2. players' = players
    BY <2>1, FreeBagItemFrees
  <2>3. doing' = doing
    BY <1>1, <1>6 DEF Changing
  <2>4. ToFree(place)
    <3>1. todo # <<>> /\ todo \in Seq(Ops)
      BY <1>1 DEF Changing, ItemsInv, StepsInOrder
    <3> QED
      BY <1>1, <1>6, <3>1, TailOccurs DEF ToFree
  <2> QED
    BY <1>1, <2>2, <2>3, <2>4 DEF ItemsInv, HandlerInv
<1> QED
  BY <1>1, <1>2, <1>3, <1>4, <1>5, <1>6 DEF ItemsInv, HandlerInv

LEMMA JoinHandler ==
  ASSUME WorldInv, Join
  PROVE  /\ StepsInOrder' /\ HandlerInv' /\ Players' = Players
         /\ \A t \in Players :
              /\ players'[t].chosen = players[t].chosen
              /\ players'[t].agent_id =
                   IF t = doing THEN Head(free_agents) ELSE players[t].agent_id
              /\ \A slot \in Slots : InSlot(t, slot)' = InSlot(t, slot)
<1> USE DEF WorldInv, ItemsInv
<1>1. doing \in Token /\ doing \in Players /\ players[doing] \in GmPlayer
  <2>1. doing \in Players
    BY DEF Join, HandlerInv
  <2> QED
    BY <2>1 DEF Players, WorldTypeOK
<1>2. todo' = <<>> /\ doing' = NULL /\ connected' = connected \cup {doing}
  BY DEF Join
<1>3. StepsInOrder'
  BY <1>2, EmptySeq
     DEF StepsInOrder, JoinSteps_InOrder, ChangeSteps_InOrder, Joining, Changing
<1> DEFINE id  == Head(free_agents)
           new == [players[doing] EXCEPT !.agent_id = id]
<1>4. players' = [players EXCEPT ![doing] = new]
  BY DEF Join
<1> HIDE DEF id
<1>5. /\ new.chosen = players[doing].chosen /\ new.agent_id = id
      /\ new.items = players[doing].items /\ new.bag_item_id = players[doing].bag_item_id
  BY <1>1 DEF GmPlayer
<1>6. WorldTypeOK'
  <2>1. TypeOK'
    BY DEF Join, itemVars, vars, table, WorldTypeOK, TypeOK
  <2> QED
    BY <2>1, JoinTypes
<1> HIDE DEF new
<1>7. \A t \in Token : players'[t] = IF t = doing THEN new ELSE players[t]
  BY <1>1, <1>4 DEF WorldTypeOK
<1>8. new # NULL
  <2>1. [players[doing] EXCEPT !.agent_id = id] \in GmPlayer
    <3>1. id \in AgentId
      <4>1. Joining
        BY OnlyJoinLeft DEF Join
      <4> QED
        BY <4>1, TailOccurs DEF id, AgentsInv, WorldTypeOK
    <3> QED
      BY <1>1, <3>1 DEF GmPlayer
  <2> QED
    BY <2>1, NullAssumption DEF new
<1>9. Players' = Players
  BY <1>1, <1>7, <1>8 DEF Players
<1>10. HandlerInv'
  BY <1>1, <1>2, <1>9 DEF HandlerInv, Joining, Changing
<1>11. ASSUME NEW t \in Players
       PROVE  /\ players'[t].chosen = players[t].chosen
              /\ players'[t].agent_id = IF t = doing THEN id ELSE players[t].agent_id
              /\ \A slot \in Slots : InSlot(t, slot)' = InSlot(t, slot)
  <2>1. players'[t] = IF t = doing THEN new ELSE players[t]
    BY <1>7 DEF Players
  <2> QED
    BY <1>5, <2>1 DEF InSlot
<1> QED
  BY <1>3, <1>9, <1>10, <1>11 DEF id

LEMMA TransferHandler ==
  ASSUME WorldInv, NEW t \in Token, NEW a \in Accounts, HandleTransferConnection(t, a)
  PROVE  /\ StepsInOrder' /\ HandlerInv' /\ Joining' /\ LastStep'.row \in SavedBags
         /\ \A place \in SavedPlaces(LastStep'.row) :
              Occurs(todo', LoadStep(LastStep'.row, place))
         /\ t \notin Players /\ Players' = Players \cup {t} /\ doing = NULL /\ doing' = t
         /\ \A u \in Players : players'[u] = players[u]
         /\ players'[t].agent_id = 0 /\ players'[t].chosen = NULL
         /\ \A slot \in Slots : InSlot(t, slot)' = 0
<1> USE DEF WorldInv, ItemsInv
<1>1. t = used + 1 /\ doing' = t /\ connected' = connected /\ todo = <<>> /\ doing = NULL
  BY NothingLeft DEF HandleTransferConnection, Idle
<1>2. t \notin Players
  BY <1>1 DEF AgentsInv, WorldTypeOK
<1> DEFINE new == [account_id |-> a, agent_id |-> 0, bag_item_id |-> 0,
                   items |-> [place \in Place |-> 0], chosen |-> NULL]
<1>3. new \in GmPlayer
  BY IdsAreIndices DEF GmPlayer
<1>4. new.agent_id = 0 /\ new.chosen = NULL /\ new.bag_item_id = 0
        /\ \A place \in Place : new.items[place] = 0
  OBVIOUS
<1>5. players' = [players EXCEPT ![t] = new]
  BY DEF HandleTransferConnection
<1> HIDE DEF new
<1>6. \A u \in Token : players'[u] = IF u = t THEN new ELSE players[u]
  BY <1>5 DEF WorldTypeOK
<1>7. new # NULL
  BY <1>3, NullAssumption
<1>8. Players' = Players \cup {t} /\ \A u \in Players : players'[u] = players[u]
  BY <1>2, <1>6, <1>7 DEF Players
<1>9. \A slot \in Slots : InSlot(t, slot)' = 0
  BY <1>4, <1>6 DEF InSlot, Slots
<1>10. PICK row \in SavedBags : todo' = JoinSteps(row)
  <2>1. TypeOK'
    BY DEF HandleTransferConnection, itemVars, vars, table, WorldTypeOK, TypeOK
  <2> QED
    BY <2>1, TransferTypes
<1>11. /\ todo' \in Seq(Ops) /\ todo' # <<>>
       /\ todo'[Len(todo')] = [op |-> "join", row |-> row]
       /\ \A i \in 1..(Len(todo') - 1) : todo'[i] \in BringSteps(row)
       /\ \A place \in SavedPlaces(row) : Occurs(todo', LoadStep(row, place))
  BY <1>10, JoinStepsOf
<1>12. LastStep' = [op |-> "join", row |-> row]
  BY <1>11 DEF LastStep
<1>13. LastStep'.op = "join" /\ LastStep'.row = row
  BY <1>12
<1>14. Joining' /\ ~Changing'
  BY <1>11, <1>13 DEF Joining, Changing
<1>15. StepsInOrder'
  BY <1>11, <1>13, <1>14 DEF StepsInOrder, JoinSteps_InOrder, ChangeSteps_InOrder
<1>16. HandlerInv'
  <2>1. doing' # NULL /\ todo' # <<>>
    BY <1>1, <1>11, NullAssumption
  <2>2. connected' \subseteq Players'
    BY <1>1, <1>8 DEF HandlerInv
  <2> QED
    BY <1>1, <1>4, <1>6, <1>8, <1>14, <2>1, <2>2 DEF HandlerInv
<1> QED
  BY <1>1, <1>2, <1>4, <1>6, <1>8, <1>9, <1>11, <1>13, <1>14, <1>15, <1>16

LEMMA RemoveHandler ==
  ASSUME WorldInv, NEW t \in connected, RemovePlayer(t), todo = <<>>
  PROVE  /\ StepsInOrder' /\ HandlerInv' /\ Players' = Players \ {t}
         /\ \A u \in Players \ {t} : players'[u] = players[u]
<1> USE DEF WorldInv, ItemsInv
<1>1. todo' = todo /\ doing' = doing /\ connected' = connected \ {t}
  BY DEF RemovePlayer
<1>2. Players' = Players \ {t} /\ \A u \in Players \ {t} : players'[u] = players[u]
  BY DEF RemovePlayer, Players, WorldTypeOK
<1>3. StepsInOrder'
  BY <1>1 DEF StepsInOrder, JoinSteps_InOrder, ChangeSteps_InOrder, Joining, Changing, LastStep
<1>4. ~Joining' /\ ~Changing' /\ doing' = NULL
  BY <1>1, NothingLeft DEF Joining, Changing
<1>5. HandlerInv'
  BY <1>1, <1>2, <1>4 DEF HandlerInv
<1> QED
  BY <1>2, <1>3, <1>5

LEMMA ChangeHandler ==
  ASSUME WorldInv, NEW t \in Token, NEW equipment \in DefaultEquipments,
         HandleCharCreationChangeProf(t, equipment)
  PROVE  /\ StepsInOrder' /\ HandlerInv' /\ ~Joining' /\ Players' = Players /\ t \in Players
         /\ doing = NULL /\ (doing' = IF todo' = <<>> THEN NULL ELSE t)
         /\ \A u \in Players :
              /\ players'[u].chosen = IF u = t THEN equipment ELSE players[u].chosen
              /\ players'[u].agent_id = players[u].agent_id
              /\ \A slot \in Slots : InSlot(u, slot)' = InSlot(u, slot)
         /\ \A what : Occurs(todo', EquipStep(what)) <=> what \in ToSet(equipment)
         /\ \A place \in Equipped : players[t].items[place] # 0 => Frees(todo')
<1> USE DEF WorldInv, ItemsInv
<1>1. /\ doing' = IF todo' = <<>> THEN NULL ELSE t
      /\ connected' = connected /\ todo = <<>> /\ doing = NULL
  BY NothingLeft DEF HandleCharCreationChangeProf, Idle
<1>2. TypeOK'
  BY DEF HandleCharCreationChangeProf, itemVars, vars, table, WorldTypeOK, TypeOK
<1>3. /\ t \in Players /\ WorldTypeOK'
      /\ todo' = StepsToChange(t, equipment)
  BY <1>2, ChangeTypes
<1>4. /\ todo' \in Seq(ChangeSteps) /\ FreesFirst(todo')
      /\ \A place \in Equipped :
           Occurs(todo', FreeStep(place)) <=> players[t].items[place] # 0
      /\ \A what : Occurs(todo', EquipStep(what)) <=> what \in ToSet(equipment)
      /\ \A place \in Equipped : players[t].items[place] # 0 => Frees(todo')
  BY <1>3, ChangeStepsOf
<1>5. \A i \in 1..Len(todo') : todo'[i] \in ChangeSteps
  BY <1>4, ElementOfSeq
<1>6. ~Joining'
  <2> SUFFICES ASSUME todo' # <<>> PROVE todo'[Len(todo')].op # "join"
    BY DEF Joining, LastStep
  <2>1. Len(todo') \in 1..Len(todo')
    BY <1>4, TailOf
  <2> QED
    BY <1>5, <2>1, ChangeStepTypes
<1>7. StepsInOrder'
  BY <1>3, <1>4, <1>5, <1>6
     DEF WorldTypeOK, StepsInOrder, JoinSteps_InOrder, ChangeSteps_InOrder
<1> DEFINE new == [players[t] EXCEPT !.chosen = equipment]
<1>8. players[t] \in GmPlayer
  BY <1>3 DEF Players, WorldTypeOK
<1>9. /\ new \in GmPlayer /\ new.chosen = equipment /\ new.agent_id = players[t].agent_id
      /\ new.items = players[t].items /\ new.bag_item_id = players[t].bag_item_id
  BY <1>8 DEF GmPlayer
<1>10. players' = [players EXCEPT ![t] = new]
  BY DEF HandleCharCreationChangeProf
<1> HIDE DEF new
<1>11. \A u \in Token : players'[u] = IF u = t THEN new ELSE players[u]
  BY <1>10 DEF WorldTypeOK
<1>12. new # NULL
  BY <1>9, NullAssumption
<1>13. Players' = Players
  BY <1>3, <1>11, <1>12 DEF Players
<1>14. ASSUME NEW u \in Players
       PROVE  /\ players'[u].chosen = IF u = t THEN equipment ELSE players[u].chosen
              /\ players'[u].agent_id = players[u].agent_id
              /\ \A slot \in Slots : InSlot(u, slot)' = InSlot(u, slot)
  <2>1. players'[u] = IF u = t THEN new ELSE players[u]
    BY <1>11 DEF Players
  <2> QED
    BY <1>9, <2>1 DEF InSlot
<1>15. HandlerInv'
  <2>1. doing' = NULL <=> todo' = <<>>
    BY <1>1, NullAssumption
  <2>2. Changing' => doing' = t
    BY <1>1 DEF Changing
  <2>3. \A place \in Equipped : InSlot(t, place)' = InSlot(t, place) /\ place # "bag"
    BY <1>3, <1>14, Places DEF Slots
  <2>4. \A place \in Equipped : ToFree(place)' => players'[t].items[place] # 0
    BY <1>4, <2>3 DEF ToFree, InSlot
  <2> QED
    BY <1>1, <1>3, <1>6, <1>13, <2>1, <2>2, <2>4 DEF HandlerInv
<1> QED
  BY <1>1, <1>3, <1>4, <1>6, <1>7, <1>13, <1>14, <1>15

LEMMA SamePlayersHandler ==
  ASSUME WorldInv, UNCHANGED <<players, todo, doing>>, connected' \subseteq connected
  PROVE  StepsInOrder' /\ HandlerInv'
<1> USE DEF WorldInv, ItemsInv
<1>1. StepsInOrder'
  BY DEF StepsInOrder, JoinSteps_InOrder, ChangeSteps_InOrder, Joining, Changing, LastStep
<1>2. /\ Players' = Players /\ (Joining' <=> Joining) /\ (Changing' <=> Changing)
      /\ \A place : ToFree(place)' <=> ToFree(place)
  BY DEF Players, Joining, Changing, LastStep, ToFree
<1> QED
  BY <1>1, <1>2 DEF HandlerInv

LEMMA HandlersStep ==
  ASSUME MaxLive <= Size - 2, WorldInv, [WorldNext]_worldVars
  PROVE  StepsInOrder' /\ HandlerInv'
<1>1. CASE ItemNext
  BY <1>1, BringingHandler, EquipHandler, FreeHandler DEF ItemNext, WorldInv
<1>2. CASE Join
  BY <1>2, JoinHandler
<1>3. ASSUME NEW t \in Token, NEW a \in Accounts, HandleTransferConnection(t, a)
      PROVE  StepsInOrder' /\ HandlerInv'
  BY <1>3, TransferHandler
<1>4. ASSUME NEW t \in Token, NEW equipment \in DefaultEquipments,
             HandleCharCreationChangeProf(t, equipment)
      PROVE  StepsInOrder' /\ HandlerInv'
  BY <1>4, ChangeHandler
<1>5. ASSUME NEW t \in Token, HandleDisconnect(t) PROVE StepsInOrder' /\ HandlerInv'
  BY <1>5, RemoveHandler DEF HandleDisconnect, Idle
<1>6. CASE UNCHANGED worldVars
  BY <1>6, SamePlayersHandler DEF worldVars
<1>7. ASSUME NEW t \in Token, HandleCharCreationConfirm(t)
      PROVE  StepsInOrder' /\ HandlerInv'
  <2>1. t \in connected /\ todo = <<>>
    BY <1>7 DEF HandleCharCreationConfirm, Idle
  <2>2. UNCHANGED worldVars \/ RemovePlayer(t)
    BY <1>7, ConfirmFindsItems DEF WorldInv
  <2> QED
    BY <1>6, <2>1, <2>2, RemoveHandler
<1>8. ASSUME NEW t \in Token, FlushFailed(t) PROVE StepsInOrder' /\ HandlerInv'
  BY <1>8, SamePlayersHandler DEF FlushFailed
<1>9. ASSUME NEW t \in Token, HandleRequestItems(t) PROVE StepsInOrder' /\ HandlerInv'
  BY <1>6, <1>9, RequestFindsItems DEF WorldInv
<1>10. ASSUME NEW t \in Token, HandleInstanceLoadRequestPlayers(t)
       PROVE  StepsInOrder' /\ HandlerInv'
  BY <1>10, SamePlayersHandler DEF HandleInstanceLoadRequestPlayers
<1>11. ASSUME NEW t \in Token, ChangeProfAborts(t) PROVE StepsInOrder' /\ HandlerInv'
  BY <1>11, SamePlayersHandler DEF ChangeProfAborts
<1>12. ASSUME NEW t \in Token, NEW id \in Ids, HandleDropItem(t, id)
       PROVE  StepsInOrder' /\ HandlerInv'
  BY <1>12, SamePlayersHandler DEF HandleDropItem
<1>13. CASE JoinAborts
  BY <1>13, SamePlayersHandler DEF JoinAborts
<1> QED
  BY <1>1, <1>2, <1>3, <1>4, <1>5, <1>6, <1>7, <1>8, <1>9, <1>10, <1>11, <1>12, <1>13, StepsOfWorld
     DEF OtherNext

\* A character that was created has something in the database.
LEMMA SavedStep ==
  ASSUME MaxLive <= Size - 2, WorldInv, [WorldNext]_worldVars
  PROVE  SavedInv'
<1> USE DEF WorldInv, ItemsInv
<1>1. ASSUME UNCHANGED <<map_type, saved>> PROVE SavedInv'
  BY <1>1 DEF SavedInv
<1>2. ASSUME NEW t \in Token, HandleCharCreationConfirm(t) PROVE SavedInv'
  <2>1. CASE UNCHANGED worldVars
    BY <1>1, <2>1 DEF worldVars
  <2>2. ASSUME RemovePlayer(t), NEW a \in Accounts, NEW row \in SavedBags,
               saved' = [saved EXCEPT ![a] = row]
        PROVE  SavedInv'
    BY <2>2, NullAssumption DEF RemovePlayer, SavedInv, WorldTypeOK
  <2>3. TypeOK'
    BY TableStep DEF QueueInv, LinksInv
  <2>4. \/ UNCHANGED worldVars
        \/ /\ RemovePlayer(t)
           /\ \E a \in Accounts, row \in SavedBags : saved' = [saved EXCEPT ![a] = row]
    BY <1>2, <2>3, ConfirmTypes
  <2> QED
    BY <2>1, <2>2, <2>4
<1>3. CASE ItemNext
  BY <1>1, <1>3 DEF ItemNext, AddBagItem, LoadItem, AddCupcakes, FreeBagItem, EquipItem, Step
<1>4. CASE UNCHANGED worldVars
  BY <1>1, <1>4 DEF worldVars
<1>5. CASE Join
  BY <1>1, <1>5 DEF Join
<1>6. ASSUME NEW t \in Token, NEW a \in Accounts, HandleTransferConnection(t, a)
      PROVE  SavedInv'
  BY <1>1, <1>6 DEF HandleTransferConnection
<1>7. ASSUME NEW t \in Token, HandleDisconnect(t) PROVE SavedInv'
  BY <1>1, <1>7 DEF HandleDisconnect, RemovePlayer
<1>8. ASSUME NEW t \in Token, FlushFailed(t) PROVE SavedInv'
  BY <1>1, <1>8 DEF FlushFailed
<1>9. ASSUME NEW t \in Token, HandleRequestItems(t) PROVE SavedInv'
  BY <1>1, <1>9 DEF HandleRequestItems, UnchangedWorld
<1>10. ASSUME NEW t \in Token, HandleInstanceLoadRequestPlayers(t) PROVE SavedInv'
  BY <1>1, <1>10 DEF HandleInstanceLoadRequestPlayers
<1>11. ASSUME NEW t \in Token, NEW equipment \in DefaultEquipments,
              HandleCharCreationChangeProf(t, equipment)
       PROVE  SavedInv'
  BY <1>1, <1>11 DEF HandleCharCreationChangeProf
<1>12. ASSUME NEW t \in Token, ChangeProfAborts(t) PROVE SavedInv'
  BY <1>1, <1>12 DEF ChangeProfAborts
<1>13. ASSUME NEW t \in Token, NEW id \in Ids, HandleDropItem(t, id) PROVE SavedInv'
  BY <1>1, <1>13 DEF HandleDropItem
<1>14. CASE JoinAborts
  BY <1>1, <1>14 DEF JoinAborts
<1> HIDE DEF WorldInv, ItemsInv
<1> QED
  BY <1>2, <1>3, <1>4, <1>5, <1>6, <1>7, <1>8, <1>9, <1>10, <1>11, <1>12, <1>13, <1>14, StepsOfWorld
     DEF OtherNext

-----------------------------------------------------------------------------
(* Items in slots and on the ground *)

SlotsStay ==
  \A t \in Players' :
    \/ t \in Players /\ \A slot \in Slots : InSlot(t, slot)' = InSlot(t, slot)
    \/ \A slot \in Slots : InSlot(t, slot)' = 0

\* What is put on the ground comes out of a backpack.
GroundStays ==
  \A id \in AgentId :
    agents'[id] # NULL /\ agents'[id].class = "item" =>
      \/ agents'[id] = agents[id]
      \/ \E t \in Players, place \in Place \ Equipped :
           agents'[id].of = players[t].items[place] /\ agents'[id].of \in Ids

PutsSomething ==
  /\ \E what \in Kinds : Takes(what) /\ \E slot : Puts(slot)
  /\ doing \in Players /\ ~Frees(todo) /\ UNCHANGED agents

LeavesItems == ~Frees(todo) /\ UNCHANGED itemVars /\ SlotsStay /\ GroundStays

LEMMA SamePlayersStay ==
  ASSUME UNCHANGED players
  PROVE  SlotsStay
  BY DEF SlotsStay, Players, InSlot

LEMMA DropStays ==
  ASSUME WorldInv, NEW t \in Token, NEW id \in Ids, HandleDropItem(t, id)
  PROVE  GroundStays
<1> USE DEF WorldInv, ItemsInv
<1> DEFINE new  == Head(free_agents)
           item == [class |-> "item", of |-> id]
<1>1. /\ agents' = [agents EXCEPT ![new] = item]
      /\ t \in Players /\ \E place \in Place \ Equipped : id = players[t].items[place]
  BY DropFindsItem
<1>2. item.of = id
  OBVIOUS
<1> HIDE DEF new, item
<1>3. \A i \in AgentId : agents'[i] = IF i = new THEN item ELSE agents[i]
  BY <1>1 DEF WorldTypeOK
<1> QED
  BY <1>1, <1>2, <1>3 DEF GroundStays

LEMMA RemoveStays ==
  ASSUME WorldInv, NEW t \in connected, RemovePlayer(t), todo = <<>>
  PROVE  SlotsStay /\ GroundStays
<1> USE DEF WorldInv, ItemsInv
<1>1. SlotsStay
  BY RemoveHandler DEF SlotsStay, InSlot
<1>2. GroundStays
  BY DEF RemovePlayer, WorldTypeOK, GroundStays
<1> QED
  BY <1>1, <1>2

LEMMA JoinStays ==
  ASSUME WorldInv, Join
  PROVE  SlotsStay /\ GroundStays
<1> USE DEF WorldInv, ItemsInv
<1>1. SlotsStay
  BY JoinHandler DEF SlotsStay
<1>2. doing \in Token
  BY DEF Join, HandlerInv, Players
<1> DEFINE new == Head(free_agents)
<1>3. agents' = [agents EXCEPT ![new] = PlayerAgent(doing)]
  BY DEF Join, PlayerAgent
<1> HIDE DEF new
<1>4. \A i \in AgentId : agents'[i] = IF i = new THEN PlayerAgent(doing) ELSE agents[i]
  BY <1>3 DEF WorldTypeOK
<1>5. GroundStays
  BY <1>2, <1>4, AgentIsSomething DEF GroundStays
<1> QED
  BY <1>1, <1>5

\* What the slots and the ground see of a step.
LEMMA SlotSteps ==
  ASSUME MaxLive <= Size - 2, WorldInv, [WorldNext]_worldVars
  PROVE  PutsSomething \/ FreeBagItem \/ LeavesItems \/ UNCHANGED worldVars
<1> USE DEF WorldInv, ItemsInv
<1>1. ASSUME UNCHANGED agents PROVE GroundStays
  BY <1>1 DEF GroundStays
<1>2. CASE AddBagItem
  <2>1. "bag" \in Kinds
    BY DEF Kinds
  <2>2. ~Frees(todo) /\ UNCHANGED agents
    BY <1>2 DEF AddBagItem, Step, Frees, agentVars
  <2> QED
    BY <1>2, <2>1, <2>2, AddBagItemPuts DEF PutsSomething
<1>3. CASE LoadItem
  <2>1. ~Frees(todo) /\ UNCHANGED agents
    BY <1>3 DEF LoadItem, Step, Frees, agentVars
  <2>2. PICK place \in SavedPlaces(LastStep.row) :
          /\ LastStep.row.holds[place] \in Kinds
          /\ Takes(LastStep.row.holds[place]) /\ Puts(place) /\ doing \in Players
    BY <1>3, LoadItemPuts
  <2> QED
    BY <2>1, <2>2 DEF PutsSomething
<1>4. CASE AddCupcakes
  <2>1. "cupcake" \in Kinds
    BY DEF Kinds
  <2>2. ~Frees(todo) /\ UNCHANGED agents
    BY <1>4 DEF AddCupcakes, Step, Frees, agentVars
  <2>3. CASE UNCHANGED <<itemVars, players>>
    BY <1>1, <2>2, <2>3, SamePlayersStay DEF LeavesItems
  <2>4. CASE \E place \in Place : Takes("cupcake") /\ Puts(place)
    BY <1>4, <2>1, <2>2, <2>4, AddCupcakesPuts DEF PutsSomething
  <2> QED
    BY <1>4, <2>3, <2>4, AddCupcakesPuts
<1>5. CASE EquipItem
  <2> DEFINE what == Head(todo).kind
  <2>1. ~Frees(todo) /\ UNCHANGED agents
    BY <1>5 DEF EquipItem, Step, Frees, agentVars
  <2>2. /\ what \in Kinds /\ doing \in Players
        /\ UNCHANGED <<itemVars, players>> \/ (Takes(what) /\ \E slot : Puts(slot))
    BY <1>5, EquipItemPuts
  <2> HIDE DEF what
  <2>3. CASE UNCHANGED <<itemVars, players>>
    BY <1>1, <2>1, <2>3, SamePlayersStay DEF LeavesItems
  <2> QED
    BY <2>1, <2>2, <2>3 DEF PutsSomething
<1>6. CASE Join
  <2>1. ~Frees(todo)
    BY <1>6 DEF Join, Frees
  <2> QED
    BY <1>6, <2>1, JoinStays, OtherKeepsItems DEF OtherNext, LeavesItems
<1>7. ASSUME todo = <<>>, UNCHANGED <<itemVars, players, agents>> PROVE LeavesItems
  BY <1>1, <1>7, SamePlayersStay, NothingLeft DEF LeavesItems
<1>8. ASSUME NEW t \in connected, RemovePlayer(t), todo = <<>> PROVE LeavesItems
  BY <1>8, RemoveStays, NothingLeft DEF LeavesItems, RemovePlayer
<1>9. ASSUME NEW t \in Token, NEW a \in Accounts, HandleTransferConnection(t, a)
      PROVE  LeavesItems
  <2>1. todo = <<>> /\ UNCHANGED <<itemVars, agents>>
    BY <1>9 DEF HandleTransferConnection, Idle, agentVars
  <2>2. SlotsStay
    BY <1>9, TransferHandler DEF SlotsStay, InSlot
  <2> QED
    BY <1>1, <2>1, <2>2, NothingLeft DEF LeavesItems
<1>10. ASSUME NEW t \in Token, HandleDisconnect(t) PROVE LeavesItems
  BY <1>8, <1>10 DEF HandleDisconnect, Idle
<1>11. ASSUME NEW t \in Token, FlushFailed(t) PROVE LeavesItems
  BY <1>7, <1>11 DEF FlushFailed, Idle, agentVars
<1>12. ASSUME NEW t \in Token, HandleRequestItems(t) PROVE UNCHANGED worldVars
  BY <1>12, RequestFindsItems
<1>13. ASSUME NEW t \in Token, HandleInstanceLoadRequestPlayers(t) PROVE LeavesItems
  <2>1. UNCHANGED itemVars
    BY <1>13, OtherKeepsItems DEF OtherNext
  <2> QED
    BY <1>7, <1>13, <2>1 DEF HandleInstanceLoadRequestPlayers, Idle, agentVars
<1>14. ASSUME NEW t \in Token, NEW equipment \in DefaultEquipments,
              HandleCharCreationChangeProf(t, equipment)
       PROVE  LeavesItems
  <2>1. todo = <<>> /\ UNCHANGED <<itemVars, agents>>
    BY <1>14 DEF HandleCharCreationChangeProf, Idle, agentVars
  <2>2. SlotsStay
    BY <1>14, ChangeHandler DEF SlotsStay
  <2> QED
    BY <1>1, <2>1, <2>2, NothingLeft DEF LeavesItems
<1>15. ASSUME NEW t \in Token, ChangeProfAborts(t) PROVE LeavesItems
  BY <1>7, <1>15 DEF ChangeProfAborts, Idle, agentVars
<1>16. ASSUME NEW t \in Token, HandleCharCreationConfirm(t)
       PROVE  LeavesItems \/ UNCHANGED worldVars
  <2>1. t \in connected /\ todo = <<>>
    BY <1>16 DEF HandleCharCreationConfirm, Idle
  <2>2. UNCHANGED worldVars \/ RemovePlayer(t)
    BY <1>16, ConfirmFindsItems
  <2> QED
    BY <1>8, <2>1, <2>2
<1>17. ASSUME NEW t \in Token, NEW id \in Ids, HandleDropItem(t, id) PROVE LeavesItems
  <2>1. ~Frees(todo)
    BY <1>17, NothingLeft DEF HandleDropItem, Idle
  <2>2. UNCHANGED itemVars
    BY <1>17, DropFindsItem
  <2>3. SlotsStay
    BY <1>17, SamePlayersStay DEF HandleDropItem
  <2> QED
    BY <1>17, <2>1, <2>2, <2>3, DropStays DEF LeavesItems
<1>18. CASE JoinAborts
  <2>1. ~Frees(todo) /\ UNCHANGED <<itemVars, players, agents>>
    BY <1>18 DEF JoinAborts, Frees, agentVars
  <2> QED
    BY <1>1, <2>1, SamePlayersStay DEF LeavesItems
<1> HIDE DEF WorldInv, ItemsInv
<1> QED
  BY <1>2, <1>3, <1>4, <1>5, <1>6, <1>9, <1>10, <1>11, <1>12, <1>13, <1>14, <1>15, <1>16, <1>17,
     <1>18, StepsOfWorld DEF ItemNext, OtherNext

\* What is carried, and what lies on the ground, is in the table.
LEMMA CarriedIds ==
  ASSUME WorldInv
  PROVE  /\ \A t \in Players, slot \in Slots :
              InSlot(t, slot) \in Idx /\ (InSlot(t, slot) # 0 => InSlot(t, slot) \in Ids)
         /\ \A id \in AgentId :
              agents[id] # NULL /\ agents[id].class = "item" => agents[id].of \in Ids
<1> USE DEF WorldInv, ItemsInv
<1>1. ASSUME NEW t \in Players, NEW slot \in Slots PROVE InSlot(t, slot) \in Idx
  BY DEF WorldTypeOK, Players, GmPlayer, InSlot, Slots
<1>2. \A i \in Idx : i # 0 => i \in Ids
  BY DEF Idx, Ids
<1>3. ASSUME NEW id \in AgentId, agents[id] # NULL, agents[id].class = "item"
      PROVE  agents[id].of \in Ids
  <2>1. agents[id] \in GmAgent
    BY <1>3 DEF WorldTypeOK
  <2> QED
    BY <1>3, <2>1 DEF GmAgent
<1> QED
  BY <1>1, <1>2, <1>3

LEMMA KindsNext ==
  ASSUME WorldInv
  PROVE  /\ \A what : Takes(what) =>
              \A id \in Ids : kind'[id] = IF id = new_id' THEN what ELSE kind[id]
         /\ \A freedId \in Ids : kind' = [kind EXCEPT ![freedId] = NULL] =>
              \A id \in Ids : id # freedId => kind'[id] = kind[id]
  BY DEF WorldInv, ItemsInv, WorldTypeOK, Takes

LEMMA PutsKeepsItems ==
  ASSUME WorldInv, PutsSomething
  PROVE  CarriedInv' /\ OnePlaceInv' /\ GroundInv'
<1> USE DEF WorldInv, ItemsInv
<1>0. PICK what \in Kinds : Takes(what) /\ \E slot : Puts(slot)
  BY DEF PutsSomething
<1>1. PICK slot : Takes(what) /\ Puts(slot)
  BY <1>0
<1>2. new_id' \in Ids /\ kind[new_id'] = NULL /\ what # NULL
  BY <1>1, NullAssumption DEF Takes
<1>3. /\ Players' = Players
      /\ \A t \in Players, s \in Slots :
           InSlot(t, s)' = IF t = doing /\ s = slot THEN new_id' ELSE InSlot(t, s)
  BY <1>1 DEF Puts, Players
<1>4. \A id \in Ids : kind'[id] = IF id = new_id' THEN what ELSE kind[id]
  BY <1>1, KindsNext
<1>5. ASSUME NEW t \in Players, NEW s \in Slots, InSlot(t, s) # 0
      PROVE  /\ kind[InSlot(t, s)] # NULL /\ InSlot(t, s) # new_id'
             /\ kind'[InSlot(t, s)] # NULL
  <2>1. kind[InSlot(t, s)] # NULL
    BY <1>5 DEF CarriedInv, Gone, PutsSomething
  <2> QED
    BY <1>2, <1>4, <1>5, <2>1, CarriedIds
<1>6. CarriedInv'
  <2> SUFFICES ASSUME NEW t \in Players, NEW s \in Slots, InSlot(t, s)' # 0
               PROVE  kind'[InSlot(t, s)'] # NULL
    BY <1>3 DEF CarriedInv
  <2> QED
    BY <1>2, <1>3, <1>4, <1>5
<1>7. OnePlaceInv'
  <2> SUFFICES ASSUME NEW t \in Players, NEW u \in Players, NEW p \in Slots, NEW q \in Slots,
                      InSlot(t, p)' # 0, InSlot(t, p)' = InSlot(u, q)'
               PROVE  t = u /\ p = q
    BY <1>3 DEF OnePlaceInv
  <2>1. (t = doing /\ p = slot) <=> (u = doing /\ q = slot)
    BY <1>2, <1>3, <1>5, NoIdIsZero
  <2> QED
    BY <1>3, <2>1 DEF OnePlaceInv
<1>8. GroundInv'
  <2> SUFFICES ASSUME NEW id \in AgentId, agents[id] # NULL, agents[id].class = "item"
               PROVE  /\ kind'[agents[id].of] # NULL
                      /\ \A t \in Players : \A place \in Equipped :
                           players'[t].items[place] # agents[id].of
    BY <1>3 DEF GroundInv, PutsSomething
  <2>1. /\ kind[agents[id].of] # NULL /\ agents[id].of \in Ids
        /\ \A t \in Players : \A place \in Equipped : players[t].items[place] # agents[id].of
    BY CarriedIds DEF GroundInv
  <2>2. agents[id].of # new_id' /\ kind'[agents[id].of] # NULL
    BY <1>2, <1>4, <2>1
  <2>3. ASSUME NEW t \in Players, NEW place \in Equipped
        PROVE  players'[t].items[place] # agents[id].of
    <3>1. place \in Slots /\ place # "bag"
      BY Places DEF Slots
    <3>2. InSlot(t, place)' = players'[t].items[place] /\ InSlot(t, place) = players[t].items[place]
      BY <3>1 DEF InSlot
    <3> QED
      BY <1>3, <2>1, <2>2, <3>1, <3>2
  <2> QED
    BY <2>2, <2>3
<1> QED
  BY <1>6, <1>7, <1>8

LEMMA LeavesKeepsItems ==
  ASSUME WorldInv, LeavesItems
  PROVE  CarriedInv' /\ OnePlaceInv' /\ GroundInv'
<1> USE DEF WorldInv, ItemsInv
<1>1. kind' = kind /\ SlotsStay /\ GroundStays
  BY DEF LeavesItems, itemVars
<1>2. ASSUME NEW t \in Players, NEW s \in Slots, InSlot(t, s) # 0
      PROVE  kind[InSlot(t, s)] # NULL
  BY <1>2 DEF CarriedInv, Gone, LeavesItems
<1>3. ASSUME NEW t \in Players', NEW s \in Slots, InSlot(t, s)' # 0
      PROVE  t \in Players /\ InSlot(t, s)' = InSlot(t, s)
  BY <1>1, <1>3 DEF SlotsStay
<1>4. CarriedInv'
  BY <1>1, <1>2, <1>3 DEF CarriedInv
<1>5. OnePlaceInv'
  <2> SUFFICES ASSUME NEW t \in Players', NEW u \in Players', NEW p \in Slots, NEW q \in Slots,
                      InSlot(t, p)' # 0, InSlot(t, p)' = InSlot(u, q)'
               PROVE  t = u /\ p = q
    BY DEF OnePlaceInv
  <2>1. /\ t \in Players /\ InSlot(t, p)' = InSlot(t, p)
        /\ u \in Players /\ InSlot(u, q)' = InSlot(u, q)
    BY <1>3
  <2>2. InSlot(t, p) # 0 /\ InSlot(t, p) = InSlot(u, q)
    BY <2>1
  <2>3. OnePlaceInv
    OBVIOUS
  <2> HIDE DEF WorldInv, ItemsInv
  <2> QED
    BY <2>1, <2>2, <2>3 DEF OnePlaceInv
<1>6. ASSUME NEW id \in AgentId, agents'[id] # NULL, agents'[id].class = "item"
      PROVE  /\ kind[agents'[id].of] # NULL /\ agents'[id].of \in Ids
             /\ \A t \in Players : \A place \in Equipped : players[t].items[place] # agents'[id].of
  <2>1. CASE agents'[id] = agents[id]
    BY <1>6, <2>1, CarriedIds DEF GroundInv
  <2>2. ASSUME NEW u \in Players, NEW p \in Place \ Equipped,
               agents'[id].of = players[u].items[p], agents'[id].of \in Ids
        PROVE  /\ kind[agents'[id].of] # NULL
               /\ \A t \in Players : \A place \in Equipped :
                    players[t].items[place] # agents'[id].of
    <3>1. p \in Slots /\ InSlot(u, p) = agents'[id].of
      BY <2>2, Places DEF Slots, InSlot
    <3>2. kind[agents'[id].of] # NULL
      BY <1>2, <2>2, <3>1, NoIdIsZero
    <3>3. ASSUME NEW t \in Players, NEW place \in Equipped
          PROVE  players[t].items[place] # agents'[id].of
      <4>1. place \in Slots /\ InSlot(t, place) = players[t].items[place] /\ place # p
        BY Places DEF Slots, InSlot
      <4> QED
        BY <2>2, <3>1, <4>1, NoIdIsZero DEF OnePlaceInv
    <3> QED
      BY <3>2, <3>3
  <2> QED
    BY <1>1, <1>6, <2>1, <2>2 DEF GroundStays
<1>7. GroundInv'
  <2>1. ASSUME NEW t \in Players', NEW place \in Equipped, players'[t].items[place] # 0
        PROVE  t \in Players /\ players'[t].items[place] = players[t].items[place]
    <3>1. /\ place \in Slots /\ InSlot(t, place) = players[t].items[place]
          /\ InSlot(t, place)' = players'[t].items[place]
      BY Places DEF Slots, InSlot
    <3> QED
      BY <1>3, <2>1, <3>1
  <2> QED
    BY <1>1, <1>6, <2>1, NoIdIsZero DEF GroundInv
<1> QED
  BY <1>4, <1>5, <1>7

\* When an item that is worn is freed, its slot is cleared with those of the
\* other items; until then the handler knows that it is gone.
LEMMA FreeKeepsItems ==
  ASSUME WorldInv, FreeBagItem
  PROVE  CarriedInv' /\ OnePlaceInv' /\ GroundInv'
<1> USE DEF WorldInv, ItemsInv
<1>1. PICK place \in Equipped, id \in Ids :
        /\ Changing /\ Head(todo) = FreeStep(place) /\ todo' = Tail(todo)
        /\ doing \in Players /\ doing' = (IF todo' = <<>> THEN NULL ELSE doing)
        /\ id = InSlot(doing, place) /\ Frees(todo)
        /\ kind' = [kind EXCEPT ![id] = NULL]
  BY FreeBagItemFrees
<1>2. /\ Players' = Players
      /\ \A t \in Players, slot \in Slots :
           InSlot(t, slot)' = IF ~Frees(todo') /\ t = doing /\ slot \in Equipped THEN 0
                              ELSE InSlot(t, slot)
  BY FreeBagItemSlots
<1>3. \A i \in Ids : i # id => kind'[i] = kind[i]
  BY <1>1, KindsNext
<1>4. id # 0 /\ place \in Slots
  BY Places, NoIdIsZero DEF Slots
<1>5. agents' = agents
  BY DEF FreeBagItem, Step, agentVars
<1>6. CarriedInv'
  <2> SUFFICES ASSUME NEW t \in Players, NEW slot \in Slots,
                      InSlot(t, slot)' # 0, ~Gone(t, slot)'
               PROVE  kind'[InSlot(t, slot)'] # NULL
    BY <1>2 DEF CarriedInv
  <2>1. InSlot(t, slot)' = InSlot(t, slot) /\ ~(~Frees(todo') /\ t = doing /\ slot \in Equipped)
    BY <1>2
  <2>2. ASSUME t = doing, slot \in Equipped PROVE ToFree(slot)'
    <3>1. Frees(todo')
      BY <2>1, <2>2
    <3>2. doing' = doing
      BY <1>1, <3>1 DEF Frees
    <3> QED
      BY <2>2, <3>1, <3>2 DEF Gone
  <2>3. ~(t = doing /\ slot = place)
    <3>1. ~ToFree(place)'
      BY <1>1, ChangingGoesOn
    <3> QED
      BY <2>2, <3>1
  <2>4. InSlot(t, slot) \in Ids /\ InSlot(t, slot) # id
    <3>1. InSlot(t, slot) \in Ids
      BY <2>1, CarriedIds
    <3>2. OnePlaceInv
      OBVIOUS
    <3> HIDE DEF WorldInv, ItemsInv
    <3> QED
      BY <1>1, <1>4, <2>3, <3>1, <3>2 DEF OnePlaceInv
  <2>5. ~Gone(t, slot)
    <3> SUFFICES ASSUME t = doing, slot \in Equipped PROVE ToFree(slot)
      BY DEF Gone
    <3>1. todo # <<>> /\ todo \in Seq(Ops)
      BY <1>1 DEF Changing, StepsInOrder
    <3> QED
      BY <1>1, <2>2, <3>1, TailOccurs DEF ToFree
  <2>6. kind[InSlot(t, slot)] # NULL
    BY <2>1, <2>5 DEF CarriedInv
  <2> QED
    BY <1>3, <2>1, <2>4, <2>6
<1>7. OnePlaceInv'
  <2> SUFFICES ASSUME NEW t \in Players, NEW u \in Players, NEW p \in Slots, NEW q \in Slots,
                      InSlot(t, p)' # 0, InSlot(t, p)' = InSlot(u, q)'
               PROVE  t = u /\ p = q
    BY <1>2 DEF OnePlaceInv
  <2>1. InSlot(t, p) # 0 /\ InSlot(t, p) = InSlot(u, q)
    BY <1>2
  <2>2. OnePlaceInv
    OBVIOUS
  <2> HIDE DEF WorldInv, ItemsInv
  <2> QED
    BY <2>1, <2>2 DEF OnePlaceInv
<1>8. GroundInv'
  <2> SUFFICES ASSUME NEW i \in AgentId, agents[i] # NULL, agents[i].class = "item"
               PROVE  /\ kind'[agents[i].of] # NULL
                      /\ \A t \in Players : \A p \in Equipped :
                           players'[t].items[p] # agents[i].of
    BY <1>2, <1>5 DEF GroundInv
  <2>1. /\ kind[agents[i].of] # NULL /\ agents[i].of \in Ids
        /\ \A t \in Players : \A p \in Equipped : players[t].items[p] # agents[i].of
    BY CarriedIds DEF GroundInv
  <2>2. \A t : \A p \in Equipped : /\ InSlot(t, p) = players[t].items[p] /\ p \in Slots
                                   /\ InSlot(t, p)' = players'[t].items[p]
    BY Places DEF Slots, InSlot
  <2>3. agents[i].of # id
    BY <1>1, <2>1, <2>2
  <2> QED
    BY <1>2, <1>3, <2>1, <2>2, <2>3, NoIdIsZero
<1> QED
  BY <1>6, <1>7, <1>8

LEMMA ItemsStep ==
  ASSUME MaxLive <= Size - 2, WorldInv, [WorldNext]_worldVars
  PROVE  ItemsInv'
<1>1. ASSUME UNCHANGED worldVars PROVE CarriedInv' /\ OnePlaceInv' /\ GroundInv'
  <2> USE <1>1 DEF worldVars, itemVars, vars, agentVars
  <2>1. CarriedInv'
    BY DEF WorldInv, ItemsInv, CarriedInv, Players, InSlot, Gone, Frees, ToFree
  <2>2. OnePlaceInv' /\ GroundInv'
    BY DEF WorldInv, ItemsInv, OnePlaceInv, GroundInv, Players, InSlot
  <2> QED
    BY <2>1, <2>2
<1>2. CarriedInv' /\ OnePlaceInv' /\ GroundInv'
  BY <1>1, SlotSteps, PutsKeepsItems, LeavesKeepsItems, FreeKeepsItems
<1>3. WorldTypeOK' /\ StepsInOrder' /\ HandlerInv' /\ SavedInv'
  BY TypesStep, HandlersStep, SavedStep
<1>4. QueueInv' /\ KindsInv'
  BY TableStep DEF WorldInv
<1> QED
  BY <1>2, <1>3, <1>4 DEF ItemsInv

-----------------------------------------------------------------------------
(* Agents *)

LEMMA NoAgentIsZero == \A id \in AgentId : id # 0
  BY DEF AgentId

LEMMA AgentsStay ==
  ASSUME WorldInv, UNCHANGED <<agents, free_agents, used>>, connected' \subseteq connected,
         Players' = Players, \A t \in Players : players'[t].agent_id = players[t].agent_id,
         Joining' <=> Joining, Joining => doing' = doing,
         \A t \in Token \ connected' : known'[t] = {}
  PROVE  AgentsInv'
<1>1. AgentsInv /\ connected \subseteq Players
  BY DEF WorldInv, ItemsInv, HandlerInv
<1> QED
  BY <1>1 DEF AgentsInv, PlayerAgent

LEMMA TransferAgents ==
  ASSUME WorldInv, NEW t \in Token, NEW a \in Accounts, HandleTransferConnection(t, a)
  PROVE  AgentsInv'
<1> USE DEF WorldInv, ItemsInv
<1>1. /\ agents' = agents /\ free_agents' = free_agents /\ free_agents # <<>>
      /\ used' = t /\ t = used + 1 /\ connected' = connected /\ known' = known
  BY DEF HandleTransferConnection, agentVars, viewVars
<1>2. /\ Joining' /\ t \notin Players /\ Players' = Players \cup {t} /\ doing = NULL /\ doing' = t
      /\ \A u \in Players : players'[u] = players[u]
      /\ players'[t].agent_id = 0
  BY TransferHandler
<1>3. \A u \in Players : u # doing /\ u <= used
  BY <1>2, NullAssumption DEF AgentsInv, Players
<1>4. \A u \in Players' : /\ players'[u].agent_id # 0 =>
                               agents'[players'[u].agent_id] = PlayerAgent(u)
                          /\ players'[u].agent_id = 0 => u = doing' /\ Joining'
  BY <1>1, <1>2, <1>3 DEF AgentsInv
<1>5. \A u \in Players' : u <= used'
  <2>1. used \in Nat /\ Players \subseteq Nat
    BY WorldBoundsAssumption DEF WorldTypeOK, Players, Token
  <2>2. t <= used'
    BY <1>1, <2>1
  <2>3. \A u \in Players : u <= used + 1
    BY <1>3, <2>1
  <2> QED
    BY <1>1, <1>2, <2>2, <2>3
<1>6. \A id \in AgentId : agents[id] # NULL /\ agents[id].class = "player" =>
        agents[id].of \in Players' /\ players'[agents[id].of].agent_id = id
  BY <1>2 DEF AgentsInv
<1>7. \A u \in connected : players'[u].agent_id # 0
  BY <1>2 DEF AgentsInv, HandlerInv
<1>8. AgentsInv
  OBVIOUS
<1> HIDE DEF WorldInv, ItemsInv
<1> QED
  BY <1>1, <1>4, <1>5, <1>6, <1>7, <1>8 DEF AgentsInv, PlayerAgent

LEMMA RemoveAgents ==
  ASSUME WorldInv, NEW t \in connected, RemovePlayer(t), todo = <<>>
  PROVE  AgentsInv'
<1> USE DEF WorldInv, ItemsInv
<1> DEFINE id == players[t].agent_id
<1>1. t \in Players /\ t \in Token /\ id \in AgentId /\ agents[id] = PlayerAgent(t)
  BY ConnectedHaveAgents
<1>2. /\ connected' = connected \ {t} /\ used' = used /\ todo' = todo
      /\ agents' = [agents EXCEPT ![id] = NULL]
      /\ free_agents' = Append(free_agents, id)
      /\ \A u \in Token : known'[u] = IF u = t THEN {} ELSE known[u] \ {id}
  BY DEF RemovePlayer, Without
<1>3. Players' = Players \ {t} /\ \A u \in Players \ {t} : players'[u] = players[u]
  BY RemoveHandler
<1> HIDE DEF id
<1>4. \A i \in AgentId : agents'[i] = IF i = id THEN NULL ELSE agents[i]
  BY <1>2 DEF WorldTypeOK
<1>5. ~Occurs(free_agents, id)
  BY <1>1, AgentIsSomething DEF AgentsInv
<1>6. Distinct(free_agents') /\ \A i \in AgentId : Occurs(free_agents', i) => agents'[i] = NULL
  BY <1>1, <1>2, <1>4, <1>5, AppendOccurs DEF AgentsInv, WorldTypeOK
<1>7. ~Joining' /\ ~Joining
  BY <1>2, NothingLeft DEF Joining
<1>8. ASSUME NEW u \in Players'
      PROVE  /\ players'[u].agent_id # 0 => agents'[players'[u].agent_id] = PlayerAgent(u)
             /\ players'[u].agent_id # 0 /\ u <= used'
  <2>1. u \in Players /\ u # t /\ players'[u] = players[u]
    BY <1>3
  <2>2. players[u].agent_id # 0 /\ u <= used
    BY <1>7, <2>1 DEF AgentsInv
  <2>3. players[u].agent_id \in AgentId /\ u \in Token /\ agents[players[u].agent_id] = PlayerAgent(u)
    BY <2>1, <2>2, AgentOfPlayer
  <2>4. players[u].agent_id # id
    BY <1>1, <2>1, <2>3, AgentIsSomething
  <2> QED
    BY <1>2, <1>4, <2>1, <2>2, <2>3, <2>4
<1>9. ASSUME NEW i \in AgentId, agents'[i] # NULL, agents'[i].class = "player"
      PROVE  agents'[i].of \in Players' /\ players'[agents'[i].of].agent_id = i
  <2>1. i # id /\ agents'[i] = agents[i]
    BY <1>4, <1>9
  <2>2. agents[i].of \in Players /\ players[agents[i].of].agent_id = i
    BY <1>9, <2>1 DEF AgentsInv
  <2> QED
    BY <1>3, <2>1, <2>2 DEF id
<1>10. \A u \in connected' : players'[u].agent_id # 0
  BY <1>2, <1>3, <1>8 DEF HandlerInv
<1>11. \A u \in Token \ connected' : known'[u] = {}
  BY <1>2 DEF AgentsInv
<1> HIDE DEF WorldInv, ItemsInv
<1> QED
  BY <1>6, <1>7, <1>8, <1>9, <1>10, <1>11 DEF AgentsInv, PlayerAgent

LEMMA DropAgents ==
  ASSUME WorldInv, NEW t \in Token, NEW id \in Ids, HandleDropItem(t, id)
  PROVE  AgentsInv'
<1> USE DEF WorldInv, ItemsInv
<1> DEFINE new  == Head(free_agents)
           item == [class |-> "item", of |-> id]
<1>1. /\ agents' = [agents EXCEPT ![new] = item] /\ item.class # "player"
      /\ free_agents' = Tail(free_agents) /\ free_agents # <<>>
      /\ known' = [u \in Token |-> IF u \in connected THEN known[u] \cup {new} ELSE known[u]]
  BY DropFindsItem
<1>2. UNCHANGED <<players, connected, todo, doing, used>> /\ todo = <<>>
  BY DEF HandleDropItem, Idle
<1>3. /\ new \in AgentId /\ agents[new] = NULL /\ ~Occurs(free_agents', new)
      /\ Distinct(free_agents')
      /\ \A i : Occurs(free_agents', i) => Occurs(free_agents, i)
  BY <1>1, TailOccurs DEF AgentsInv, WorldTypeOK
<1> HIDE DEF new, item
<1>4. \A i \in AgentId : agents'[i] = IF i = new THEN item ELSE agents[i]
  BY <1>1 DEF WorldTypeOK
<1>5. ~Joining' /\ ~Joining /\ Players' = Players
  BY <1>2, NothingLeft DEF Joining, Players
<1>6. ASSUME NEW u \in Players
      PROVE  /\ players[u].agent_id # 0 => agents'[players[u].agent_id] = PlayerAgent(u)
             /\ players[u].agent_id # 0 /\ u <= used
  <2>1. players[u].agent_id # 0 /\ u <= used
    BY <1>5 DEF AgentsInv
  <2>2. players[u].agent_id \in AgentId /\ u \in Token /\ agents[players[u].agent_id] = PlayerAgent(u)
    BY <2>1, AgentOfPlayer
  <2>3. players[u].agent_id # new
    BY <1>3, <2>2, AgentIsSomething
  <2> QED
    BY <1>4, <2>1, <2>2, <2>3
<1>7. \A i \in AgentId : Occurs(free_agents', i) => agents'[i] = NULL
  BY <1>3, <1>4 DEF AgentsInv
<1>8. ASSUME NEW i \in AgentId, agents'[i] # NULL, agents'[i].class = "player"
      PROVE  agents'[i].of \in Players /\ players[agents'[i].of].agent_id = i
  BY <1>1, <1>4, <1>8 DEF AgentsInv, item
<1>9. \A u \in Token \ connected : known'[u] = {}
  BY <1>1 DEF AgentsInv
<1>10. connected \subseteq Players
  BY DEF HandlerInv
<1> HIDE DEF WorldInv, ItemsInv
<1> QED
  BY <1>2, <1>3, <1>5, <1>6, <1>7, <1>8, <1>9, <1>10 DEF AgentsInv, PlayerAgent

LEMMA JoinAgents ==
  ASSUME WorldInv, Join
  PROVE  AgentsInv'
<1> USE DEF WorldInv, ItemsInv
<1> DEFINE new == Head(free_agents)
<1>1. Joining /\ ~Joining' /\ todo # <<>>
  <2>1. Joining
    BY OnlyJoinLeft DEF Join
  <2> QED
    BY <2>1 DEF Join, Joining
<1>2. /\ doing \in Players /\ doing \in Token /\ players[doing].agent_id = 0
  BY <1>1 DEF HandlerInv, Players
<1>3. /\ Players' = Players
      /\ \A t \in Players :
           players'[t].agent_id = IF t = doing THEN new ELSE players[t].agent_id
  BY JoinHandler
<1>4. /\ agents' = [agents EXCEPT ![new] = PlayerAgent(doing)]
      /\ free_agents' = Tail(free_agents) /\ connected' = connected \cup {doing}
      /\ known' = known /\ used' = used
  BY DEF Join, PlayerAgent, viewVars
<1>5. /\ new \in AgentId /\ agents[new] = NULL /\ ~Occurs(free_agents', new)
      /\ Distinct(free_agents')
      /\ \A i : Occurs(free_agents', i) => Occurs(free_agents, i)
  BY <1>1, <1>4, TailOccurs DEF AgentsInv, WorldTypeOK
<1> HIDE DEF new
<1>6. \A i \in AgentId : agents'[i] = IF i = new THEN PlayerAgent(doing) ELSE agents[i]
  BY <1>4 DEF WorldTypeOK
<1>7. \A i \in AgentId : Occurs(free_agents', i) => agents'[i] = NULL
  BY <1>5, <1>6 DEF AgentsInv
<1>8. ASSUME NEW u \in Players
      PROVE  /\ agents'[players'[u].agent_id] = PlayerAgent(u)
             /\ players'[u].agent_id # 0 /\ u <= used
  <2>1. u <= used
    BY DEF AgentsInv
  <2>2. CASE u = doing
    BY <1>3, <1>5, <1>6, <2>1, <2>2, NoAgentIsZero
  <2>3. CASE u # doing
    <3>1. players[u].agent_id # 0 /\ players'[u].agent_id = players[u].agent_id
      BY <1>3, <2>3 DEF AgentsInv
    <3>2. /\ players[u].agent_id \in AgentId /\ u \in Token
          /\ agents[players[u].agent_id] = PlayerAgent(u)
      BY <3>1, AgentOfPlayer
    <3>3. players[u].agent_id # new
      BY <1>5, <3>2, AgentIsSomething
    <3> QED
      BY <1>6, <2>1, <3>1, <3>2, <3>3
  <2> QED
    BY <2>2, <2>3
<1>9. ASSUME NEW i \in AgentId, agents'[i] # NULL, agents'[i].class = "player"
      PROVE  agents'[i].of \in Players /\ players'[agents'[i].of].agent_id = i
  <2>1. CASE i = new
    BY <1>2, <1>3, <1>6, <2>1, AgentIsSomething
  <2>2. CASE i # new
    <3>1. agents'[i] = agents[i]
      BY <1>6, <2>2
    <3>2. agents[i].of \in Players /\ players[agents[i].of].agent_id = i
      BY <1>9, <3>1 DEF AgentsInv
    <3> QED
      BY <1>2, <1>3, <3>1, <3>2, NoAgentIsZero
  <2> QED
    BY <2>1, <2>2
<1>10. \A u \in connected' : players'[u].agent_id # 0
  BY <1>2, <1>4, <1>8 DEF HandlerInv
<1>11. \A u \in Token \ connected' : known'[u] = {}
  BY <1>4 DEF AgentsInv
<1> HIDE DEF WorldInv, ItemsInv
<1> QED
  BY <1>1, <1>3, <1>4, <1>5, <1>7, <1>8, <1>9, <1>10, <1>11 DEF AgentsInv, PlayerAgent

\* A step on the items leaves the agents alone.
LEMMA ItemNextAgents ==
  ASSUME MaxLive <= Size - 2, WorldInv, ItemNext
  PROVE  /\ Players' = Players /\ UNCHANGED <<agentVars, connected, viewVars, used>>
         /\ \A t \in Players : /\ players'[t].agent_id = players[t].agent_id
                               /\ players'[t].chosen = players[t].chosen
         /\ (Joining' <=> Joining) /\ (Joining => doing' = doing)
<1> USE DEF WorldInv, ItemsInv
<1>1. UNCHANGED <<agentVars, connected, viewVars, used>>
  BY DEF ItemNext, AddBagItem, LoadItem, AddCupcakes, FreeBagItem, EquipItem, Step
<1>2. CASE AddBagItem \/ LoadItem \/ AddCupcakes
  BY <1>1, <1>2, BringingGoesOn, PutsKeepsPlayers
<1>3. CASE FreeBagItem
  <2>1. Changing /\ todo' = Tail(todo)
    BY <1>3, FreeBagItemFrees
  <2>2. ~Joining /\ ~Joining'
    BY <2>1, ChangingGoesOn, JoiningOrChanging
  <2> QED
    BY <1>1, <1>3, <2>2, FreeBagItemSlots
<1>4. CASE EquipItem
  <2> DEFINE what == Head(todo).kind
  <2>1. /\ Changing /\ todo' = Tail(todo)
        /\ (\E slot : Puts(slot)) \/ UNCHANGED players
    BY <1>4, EquipItemPuts
  <2> HIDE DEF what
  <2>2. ~Joining /\ ~Joining'
    BY <2>1, ChangingGoesOn, JoiningOrChanging
  <2> QED
    BY <1>1, <2>1, <2>2, PutsKeepsPlayers
<1> QED
  BY <1>2, <1>3, <1>4 DEF ItemNext

LEMMA AgentsStep ==
  ASSUME MaxLive <= Size - 2, WorldInv, [WorldNext]_worldVars
  PROVE  AgentsInv'
<1>1. \A t \in Token \ connected : known[t] = {}
  BY DEF WorldInv, AgentsInv
<1>2. ASSUME UNCHANGED <<agentVars, players, used>>, todo = <<>>, todo' = <<>>,
             connected' \subseteq connected, \A t \in Token \ connected' : known'[t] = {}
      PROVE  AgentsInv'
  <2>1. ~Joining /\ ~Joining' /\ Players' = Players
    BY <1>2 DEF Joining, Players
  <2> QED
    BY <1>2, <2>1, AgentsStay DEF agentVars
<1>3. CASE ItemNext
  BY <1>1, <1>3, ItemNextAgents, AgentsStay DEF agentVars, viewVars
<1>4. CASE UNCHANGED worldVars
  <2>1. Players' = Players /\ (Joining' <=> Joining)
    BY <1>4 DEF worldVars, Joining, LastStep, Players
  <2> QED
    BY <1>1, <1>4, <2>1, AgentsStay DEF worldVars, agentVars, viewVars
<1>5. CASE Join
  BY <1>5, JoinAgents
<1>6. ASSUME NEW t \in Token, NEW a \in Accounts, HandleTransferConnection(t, a)
      PROVE  AgentsInv'
  BY <1>6, TransferAgents
<1>7. ASSUME NEW t \in Token, HandleDisconnect(t) PROVE AgentsInv'
  BY <1>7, RemoveAgents DEF HandleDisconnect, Idle
<1>8. ASSUME NEW t \in Token, FlushFailed(t) PROVE AgentsInv'
  <2>1. \A u \in Token \ connected' : known'[u] = {}
    BY <1>1, <1>8 DEF FlushFailed, WorldInv, ItemsInv, WorldTypeOK
  <2> QED
    BY <1>2, <1>8, <2>1 DEF FlushFailed, Idle
<1>9. ASSUME NEW t \in Token, HandleRequestItems(t) PROVE AgentsInv'
  BY <1>4, <1>9, RequestFindsItems DEF WorldInv
<1>10. ASSUME NEW t \in Token, HandleInstanceLoadRequestPlayers(t) PROVE AgentsInv'
  <2>1. \A u \in Token \ connected : known'[u] = known[u]
    <3>1. known' = [u \in Token |->
                      IF u = t THEN {id \in AgentId : agents[id] # NULL}
                      ELSE IF u \in connected THEN known[u] \cup {players[t].agent_id}
                      ELSE known[u]]
      BY <1>10, LoadFindsItems DEF WorldInv
    <3>2. t \in connected
      BY <1>10 DEF HandleInstanceLoadRequestPlayers
    <3> QED
      BY <3>1, <3>2
  <2> QED
    BY <1>1, <1>2, <1>10, <2>1 DEF HandleInstanceLoadRequestPlayers, Idle
<1>11. ASSUME NEW t \in Token, NEW equipment \in DefaultEquipments,
              HandleCharCreationChangeProf(t, equipment)
       PROVE  AgentsInv'
  <2>1. /\ UNCHANGED <<agents, free_agents, used, connected, known>> /\ todo = <<>>
    BY <1>11 DEF HandleCharCreationChangeProf, Idle, agentVars, viewVars
  <2>2. ~Joining' /\ ~Joining
    BY <1>11, <2>1, ChangeHandler DEF Joining
  <2>3. Players' = Players /\ \A u \in Players : players'[u].agent_id = players[u].agent_id
    BY <1>11, ChangeHandler
  <2> QED
    BY <1>1, <2>1, <2>2, <2>3, AgentsStay
<1>12. ASSUME NEW t \in Token, ChangeProfAborts(t) PROVE AgentsInv'
  BY <1>1, <1>2, <1>12 DEF ChangeProfAborts, Idle, viewVars
<1>13. ASSUME NEW t \in Token, HandleCharCreationConfirm(t) PROVE AgentsInv'
  <2>1. t \in connected /\ todo = <<>>
    BY <1>13 DEF HandleCharCreationConfirm, Idle
  <2>2. UNCHANGED worldVars \/ RemovePlayer(t)
    BY <1>13, ConfirmFindsItems DEF WorldInv
  <2> QED
    BY <1>4, <2>1, <2>2, RemoveAgents
<1>14. ASSUME NEW t \in Token, NEW id \in Ids, HandleDropItem(t, id) PROVE AgentsInv'
  BY <1>14, DropAgents
<1>15. CASE JoinAborts
  <2>1. Players' = Players /\ (Joining' <=> Joining)
    BY <1>15 DEF JoinAborts, Joining, LastStep, Players
  <2> QED
    BY <1>1, <1>15, <2>1, AgentsStay DEF JoinAborts, agentVars, viewVars
<1> QED
  BY <1>3, <1>4, <1>5, <1>6, <1>7, <1>8, <1>9, <1>10, <1>11, <1>12, <1>13, <1>14, <1>15, StepsOfWorld
     DEF OtherNext

-----------------------------------------------------------------------------
(* What the clients see *)

\* That the players of agents are there is known of the agents.
LEMMA ViewsOf ==
  ASSUME WorldTypeOK', AgentsInv',
         \A t \in connected' :
           /\ \A id \in known'[t] : agents'[id] # NULL
           /\ t \in loaded' =>
                \A id \in AgentId :
                  /\ agents'[id] # NULL
                  /\ agents'[id].class = "item" \/ agents'[id].of \in loaded'
                  => id \in known'[t]
           /\ \A id \in known'[t] :
                agents'[id] # NULL /\ agents'[id].class = "player" /\ agents'[id].of # t =>
                  agents'[id].of \in met'[t]
  PROVE  ViewsAgree'
<1>1. ClientsSeeTheWorld'
  BY DEF ClientsSeeTheWorld
<1>2. \A t \in connected' : known'[t] \subseteq AgentId
  BY DEF WorldTypeOK
<1>3. PlayersAreIntroduced'
  BY <1>2 DEF PlayersAreIntroduced, AgentsInv, Players
<1> QED
  BY <1>1, <1>3 DEF ViewsAgree

LEMMA ViewsStay ==
  ASSUME WorldInv, WorldTypeOK', AgentsInv', UNCHANGED <<agents, connected, loaded, known, met>>
  PROVE  ViewsAgree'
<1>1. ViewsAgree
  BY DEF WorldInv
<1> QED
  BY <1>1, ViewsOf DEF ViewsAgree, ClientsSeeTheWorld, PlayersAreIntroduced

LEMMA JoinViews ==
  ASSUME WorldInv, WorldTypeOK', AgentsInv', Join
  PROVE  ViewsAgree'
<1> USE DEF WorldInv, ItemsInv
<1> DEFINE new == Head(free_agents)
<1>1. Joining
  BY OnlyJoinLeft DEF Join
<1>2. /\ agents' = [agents EXCEPT ![new] = PlayerAgent(doing)]
      /\ connected' = connected \cup {doing} /\ loaded' = loaded /\ known' = known /\ met' = met
  BY DEF Join, PlayerAgent, viewVars
<1>3. doing \in Token /\ doing \notin connected /\ doing \notin loaded /\ known[doing] = {}
  <2>1. doing # NULL
    BY DEF Join, HandlerInv
  <2>2. doing \in Players /\ doing \in Token /\ players[doing].agent_id = 0
    BY <1>1, <2>1 DEF HandlerInv, Players
  <2> QED
    BY <2>2 DEF AgentsInv, WorldTypeOK
<1>4. new \in AgentId /\ agents[new] = NULL
  BY <1>1, TailOccurs DEF AgentsInv, WorldTypeOK
<1> HIDE DEF new
<1>5. \A i \in AgentId : agents'[i] = IF i = new THEN PlayerAgent(doing) ELSE agents[i]
  BY <1>2 DEF WorldTypeOK
<1>6. ASSUME NEW t \in connected, NEW i \in known[t]
      PROVE  /\ agents'[i] # NULL
             /\ agents'[i].class = "player" /\ agents'[i].of # t => agents'[i].of \in met[t]
  <2>1. i \in AgentId /\ agents[i] # NULL /\ i # new
    BY <1>4 DEF WorldTypeOK, ViewsAgree, ClientsSeeTheWorld
  <2> QED
    BY <1>5, <2>1 DEF ViewsAgree, PlayersAreIntroduced
<1>7. ASSUME NEW t \in loaded, NEW i \in AgentId, agents'[i] # NULL,
             agents'[i].class = "item" \/ agents'[i].of \in loaded
      PROVE  i \in known[t]
  <2>1. i # new /\ agents'[i] = agents[i]
    BY <1>3, <1>5, <1>7, AgentIsSomething
  <2>2. t \in connected
    BY DEF WorldTypeOK
  <2> QED
    BY <1>7, <2>1, <2>2 DEF ViewsAgree, ClientsSeeTheWorld
<1> HIDE DEF WorldInv, ItemsInv
<1> QED
  BY <1>2, <1>3, <1>6, <1>7, ViewsOf

LEMMA RemoveViews ==
  ASSUME WorldInv, WorldTypeOK', AgentsInv', NEW t \in connected, RemovePlayer(t)
  PROVE  ViewsAgree'
<1> USE DEF WorldInv, ItemsInv
<1> DEFINE id == players[t].agent_id
<1>1. t \in Players /\ t \in Token /\ id \in AgentId /\ agents[id] = PlayerAgent(t)
  BY ConnectedHaveAgents
<1>2. /\ connected' = connected \ {t} /\ loaded' = loaded \ {t}
      /\ agents' = [agents EXCEPT ![id] = NULL]
      /\ \A u \in Token : known'[u] = IF u = t THEN {} ELSE known[u] \ {id}
      /\ \A u \in Token : met'[u] = IF u = t THEN {} ELSE met[u] \ {t}
  BY DEF RemovePlayer, Without
<1> HIDE DEF id
<1>3. \A i \in AgentId : agents'[i] = IF i = id THEN NULL ELSE agents[i]
  BY <1>2 DEF WorldTypeOK
<1>4. ASSUME NEW u \in connected, u # t
      PROVE  /\ u \in Token /\ known'[u] = known[u] \ {id} /\ met'[u] = met[u] \ {t}
             /\ known[u] \subseteq AgentId
  BY <1>2, <1>4 DEF WorldTypeOK
<1>5. ASSUME NEW u \in connected, u # t, NEW i \in known'[u]
      PROVE  /\ agents'[i] # NULL
             /\ agents'[i].class = "player" /\ agents'[i].of # u => agents'[i].of \in met'[u]
  <2>1. i \in known[u] /\ i # id /\ i \in AgentId /\ agents'[i] = agents[i]
    BY <1>3, <1>4, <1>5
  <2>2. agents[i] # NULL
    BY <2>1 DEF ViewsAgree, ClientsSeeTheWorld
  <2>3. ASSUME agents[i].class = "player", agents[i].of # u PROVE agents[i].of \in met[u] \ {t}
    <3>1. agents[i].of \in met[u]
      BY <2>1, <2>2, <2>3 DEF ViewsAgree, PlayersAreIntroduced
    <3>2. players[agents[i].of].agent_id = i
      BY <2>1, <2>2, <2>3 DEF AgentsInv
    <3> QED
      BY <2>1, <3>1, <3>2 DEF id
  <2> QED
    BY <1>4, <1>5, <2>1, <2>2, <2>3
<1>6. ASSUME NEW u \in loaded, u # t, NEW i \in AgentId, agents'[i] # NULL,
             agents'[i].class = "item" \/ agents'[i].of \in loaded'
      PROVE  i \in known'[u]
  <2>1. u \in connected /\ i # id /\ agents'[i] = agents[i]
    BY <1>3, <1>6 DEF WorldTypeOK
  <2>2. i \in known[u]
    BY <1>2, <1>6, <2>1 DEF ViewsAgree, ClientsSeeTheWorld
  <2> QED
    BY <1>4, <1>6, <2>1, <2>2
<1> HIDE DEF WorldInv, ItemsInv
<1> QED
  BY <1>2, <1>5, <1>6, ViewsOf

LEMMA FlushViews ==
  ASSUME WorldInv, WorldTypeOK', AgentsInv', NEW t \in Token, FlushFailed(t)
  PROVE  ViewsAgree'
<1> USE DEF WorldInv, ItemsInv
<1>1. /\ connected' = connected \ {t} /\ loaded' = loaded \ {t} /\ agents' = agents
      /\ known' = [known EXCEPT ![t] = {}] /\ met' = [met EXCEPT ![t] = {}]
  BY DEF FlushFailed, agentVars
<1>2. ASSUME NEW u \in connected, u # t
      PROVE  known'[u] = known[u] /\ met'[u] = met[u]
  BY <1>1, <1>2 DEF WorldTypeOK
<1>3. ViewsAgree
  OBVIOUS
<1> HIDE DEF WorldInv, ItemsInv
<1> QED
  BY <1>1, <1>2, <1>3, ViewsOf DEF ViewsAgree, ClientsSeeTheWorld, PlayersAreIntroduced

LEMMA DropViews ==
  ASSUME WorldInv, WorldTypeOK', AgentsInv', NEW t \in Token, NEW id \in Ids,
         HandleDropItem(t, id)
  PROVE  ViewsAgree'
<1> USE DEF WorldInv, ItemsInv
<1> DEFINE new  == Head(free_agents)
           item == [class |-> "item", of |-> id]
<1>1. /\ agents' = [agents EXCEPT ![new] = item] /\ item.class = "item" /\ item \in GmAgent
      /\ free_agents # <<>> /\ connected' = connected /\ loaded' = loaded /\ met' = met
      /\ known' = [u \in Token |-> IF u \in connected THEN known[u] \cup {new} ELSE known[u]]
  BY DropFindsItem DEF HandleDropItem, GmAgent
<1>2. new \in AgentId /\ agents[new] = NULL /\ item # NULL
  BY <1>1, TailOccurs, NullAssumption DEF AgentsInv, WorldTypeOK
<1> HIDE DEF new, item
<1>3. \A i \in AgentId : agents'[i] = IF i = new THEN item ELSE agents[i]
  BY <1>1 DEF WorldTypeOK
<1>4. \A u \in connected : u \in Token /\ known'[u] = known[u] \cup {new} /\ known[u] \subseteq AgentId
  BY <1>1 DEF WorldTypeOK
<1>5. ASSUME NEW u \in connected, NEW i \in known'[u]
      PROVE  /\ agents'[i] # NULL
             /\ agents'[i].class = "player" /\ agents'[i].of # u => agents'[i].of \in met'[u]
  <2>1. CASE i = new
    BY <1>1, <1>2, <1>3, <2>1
  <2>2. CASE i # new
    <3>1. i \in known[u] /\ i \in AgentId /\ agents'[i] = agents[i]
      BY <1>3, <1>4, <2>2
    <3> QED
      BY <1>1, <3>1 DEF ViewsAgree, ClientsSeeTheWorld, PlayersAreIntroduced
  <2> QED
    BY <2>1, <2>2
<1>6. ASSUME NEW u \in loaded, NEW i \in AgentId, agents'[i] # NULL,
             agents'[i].class = "item" \/ agents'[i].of \in loaded
      PROVE  i \in known'[u]
  <2>1. u \in connected
    BY DEF WorldTypeOK
  <2>2. i # new => i \in known[u]
    BY <1>3, <1>6, <2>1 DEF ViewsAgree, ClientsSeeTheWorld
  <2> QED
    BY <1>4, <2>1, <2>2
<1> HIDE DEF WorldInv, ItemsInv
<1> QED
  BY <1>1, <1>5, <1>6, ViewsOf

LEMMA LoadViews ==
  ASSUME WorldInv, WorldTypeOK', AgentsInv', NEW t \in Token, HandleInstanceLoadRequestPlayers(t)
  PROVE  ViewsAgree'
<1> USE DEF WorldInv, ItemsInv
<1> DEFINE exists == {id \in AgentId : agents[id] # NULL}
           others == {agents[id].of : id \in {a \in exists : agents[a].class = "player"}}
           agent  == players[t].agent_id
<1>1. /\ loaded' = loaded \cup {t}
      /\ known' = [u \in Token |->
                     IF u = t THEN exists
                     ELSE IF u \in connected THEN known[u] \cup {agent}
                     ELSE known[u]]
      /\ met' = Meets(t, others)
  BY LoadFindsItems
<1>2. UNCHANGED <<agents, players, connected>> /\ t \in connected
  BY DEF HandleInstanceLoadRequestPlayers, agentVars
<1>3. t \in Players /\ agent \in AgentId /\ agents[agent] = PlayerAgent(t)
  BY <1>2, ConnectedHaveAgents
<1>4. \A i \in exists : agents[i].class = "player" =>
        agents[i].of \in others /\ players[agents[i].of] # NULL /\ players[agents[i].of].agent_id = i
  BY DEF AgentsInv, Players
<1>5. \A i \in AgentId : i \in exists <=> agents[i] # NULL
  OBVIOUS
<1>6. exists \subseteq AgentId
  OBVIOUS
<1> HIDE DEF exists, others
<1>7. \A u \in connected :
        met'[u] = met[u] \cup {t} \cup (IF u = t THEN {v \in others : players[v] # NULL} ELSE {})
  BY <1>1 DEF Meets, WorldTypeOK
<1>8. \A u \in connected : /\ known'[u] = IF u = t THEN exists ELSE known[u] \cup {agent}
                           /\ known[u] \subseteq AgentId
  BY <1>1 DEF WorldTypeOK
<1>9. ASSUME NEW u \in connected, NEW i \in known'[u]
      PROVE  /\ agents[i] # NULL
             /\ agents[i].class = "player" /\ agents[i].of # u => agents[i].of \in met'[u]
  <2>1. CASE u = t
    <3>1. i \in exists /\ i \in AgentId
      BY <1>6, <1>8, <2>1
    <3>2. {v \in others : players[v] # NULL} \subseteq met'[u]
      BY <1>7, <2>1
    <3>3. agents[i].class = "player" => agents[i].of \in met'[u]
      BY <1>4, <3>1, <3>2
    <3> QED
      BY <1>5, <3>1, <3>3
  <2>2. CASE u # t /\ i = agent
    BY <1>3, <1>7, <2>2, AgentIsSomething
  <2>3. CASE u # t /\ i # agent
    <3>1. i \in known[u]
      BY <1>8, <1>9, <2>3
    <3> QED
      BY <1>7, <3>1 DEF ViewsAgree, ClientsSeeTheWorld, PlayersAreIntroduced
  <2> QED
    BY <2>1, <2>2, <2>3
<1>10. ASSUME NEW u \in connected, u \in loaded', NEW i \in AgentId, agents[i] # NULL,
              agents[i].class = "item" \/ agents[i].of \in loaded'
       PROVE  i \in known'[u]
  <2>1. CASE u = t
    BY <1>5, <1>8, <1>10, <2>1
  <2>2. CASE u # t /\ agents[i].class = "player" /\ agents[i].of = t
    <3>1. i = agent
      BY <1>4, <1>5, <1>10, <2>2
    <3> HIDE DEF agent
    <3> QED
      BY <1>8, <2>2, <3>1
  <2>3. CASE u # t /\ ~(agents[i].class = "player" /\ agents[i].of = t)
    <3>1. agents[i] \in GmAgent
      BY <1>10 DEF WorldTypeOK
    <3>2. agents[i].class = "item" \/ agents[i].class = "player"
      BY <3>1 DEF GmAgent
    <3>3. u \in loaded /\ (agents[i].class = "item" \/ agents[i].of \in loaded)
      BY <1>1, <1>10, <2>3, <3>2
    <3>4. i \in known[u]
      BY <1>10, <3>3 DEF ViewsAgree, ClientsSeeTheWorld
    <3> QED
      BY <1>8, <2>3, <3>4
  <2> QED
    BY <2>1, <2>2, <2>3
<1> HIDE DEF WorldInv, ItemsInv
<1> QED
  BY <1>2, <1>9, <1>10, ViewsOf

LEMMA ViewsStep ==
  ASSUME MaxLive <= Size - 2, WorldInv, [WorldNext]_worldVars
  PROVE  ViewsAgree'
<1>1. WorldTypeOK' /\ AgentsInv'
  BY TypesStep, AgentsStep
<1>2. CASE ItemNext
  BY <1>1, <1>2, ItemNextAgents, ViewsStay DEF agentVars, viewVars
<1>3. CASE UNCHANGED worldVars
  BY <1>1, <1>3, ViewsStay DEF worldVars, agentVars, viewVars
<1>4. CASE Join
  BY <1>1, <1>4, JoinViews
<1>5. ASSUME NEW t \in Token, NEW a \in Accounts, HandleTransferConnection(t, a)
      PROVE  ViewsAgree'
  BY <1>1, <1>5, ViewsStay DEF HandleTransferConnection, agentVars, viewVars
<1>6. ASSUME NEW t \in Token, HandleDisconnect(t) PROVE ViewsAgree'
  BY <1>1, <1>6, RemoveViews DEF HandleDisconnect
<1>7. ASSUME NEW t \in Token, FlushFailed(t) PROVE ViewsAgree'
  BY <1>1, <1>7, FlushViews
<1>8. ASSUME NEW t \in Token, HandleRequestItems(t) PROVE ViewsAgree'
  BY <1>3, <1>8, RequestFindsItems DEF WorldInv
<1>9. ASSUME NEW t \in Token, HandleInstanceLoadRequestPlayers(t) PROVE ViewsAgree'
  BY <1>1, <1>9, LoadViews
<1>10. ASSUME NEW t \in Token, NEW equipment \in DefaultEquipments,
              HandleCharCreationChangeProf(t, equipment)
       PROVE  ViewsAgree'
  BY <1>1, <1>10, ViewsStay DEF HandleCharCreationChangeProf, agentVars, viewVars
<1>11. ASSUME NEW t \in Token, ChangeProfAborts(t) PROVE ViewsAgree'
  BY <1>1, <1>11, ViewsStay DEF ChangeProfAborts, agentVars, viewVars
<1>12. ASSUME NEW t \in Token, HandleCharCreationConfirm(t) PROVE ViewsAgree'
  <2>1. t \in connected
    BY <1>12 DEF HandleCharCreationConfirm
  <2>2. UNCHANGED worldVars \/ RemovePlayer(t)
    BY <1>12, ConfirmFindsItems DEF WorldInv
  <2> QED
    BY <1>1, <1>3, <2>1, <2>2, RemoveViews
<1>13. ASSUME NEW t \in Token, NEW id \in Ids, HandleDropItem(t, id) PROVE ViewsAgree'
  BY <1>1, <1>13, DropViews
<1>14. CASE JoinAborts
  BY <1>1, <1>14, ViewsStay DEF JoinAborts, agentVars, viewVars
<1> QED
  BY <1>2, <1>3, <1>4, <1>5, <1>6, <1>7, <1>8, <1>9, <1>10, <1>11, <1>12, <1>13, <1>14, StepsOfWorld
     DEF OtherNext

-----------------------------------------------------------------------------
(* What is loaded *)

\* An item that was taken does not disturb what is in the other slots.
LEMMA OtherSlotsStay ==
  ASSUME WorldInv, ~Frees(todo), NEW what, NEW slot, Takes(what), Puts(slot), NEW t \in Players,
         NEW place \in Place
  PROVE  /\ players'[t].items[place] =
              IF t = doing /\ place = slot THEN new_id' ELSE players[t].items[place]
         /\ kind'[new_id'] = what /\ new_id' # 0
         /\ players[t].items[place] # 0 =>
              kind'[players[t].items[place]] = kind[players[t].items[place]]
<1> USE DEF WorldInv, ItemsInv
<1>1. place \in Slots /\ place # "bag"
  BY Places DEF Slots
<1>2. t \in Token /\ players[t] # NULL
  BY DEF Players
<1>3. /\ InSlot(t, place) = players[t].items[place]
      /\ InSlot(t, place)' = players'[t].items[place]
  BY <1>1 DEF InSlot
<1>4. InSlot(t, place)' = IF t = doing /\ place = slot THEN new_id' ELSE InSlot(t, place)
  BY <1>1, <1>2 DEF Puts
<1>5. new_id' \in Ids /\ kind[new_id'] = NULL
      /\ \A id \in Ids : kind'[id] = IF id = new_id' THEN what ELSE kind[id]
  BY KindsNext DEF Takes
<1>6. ASSUME InSlot(t, place) # 0 PROVE kind'[InSlot(t, place)] = kind[InSlot(t, place)]
  <2>1. kind[InSlot(t, place)] # NULL
    BY <1>1, <1>6 DEF CarriedInv, Gone
  <2>2. InSlot(t, place) \in Ids
    BY <1>1, <1>6, CarriedIds
  <2> QED
    BY <1>5, <2>1, <2>2
<1> QED
  BY <1>3, <1>4, <1>5, <1>6, NoIdIsZero

LEMMA LoadingGoesOn ==
  ASSUME WorldInv, Joining, Joining', todo' = Tail(todo), LastStep' = LastStep,
         \A place \in SavedPlaces(LastStep.row) :
           Head(todo) = LoadStep(LastStep.row, place) \/ Loaded(place) => Loaded(place)'
  PROVE  Loading'
<1>1. todo # <<>> /\ todo \in Seq(Ops)
  BY DEF Joining, WorldInv, ItemsInv, StepsInOrder
<1>2. \A v : Occurs(todo, v) <=> v = Head(todo) \/ Occurs(todo', v)
  BY <1>1, TailOccurs
<1>3. Loading
  BY DEF WorldInv
<1> SUFFICES ASSUME NEW place \in SavedPlaces(LastStep.row)
             PROVE  Occurs(todo', LoadStep(LastStep.row, place)) \/ Loaded(place)'
  BY DEF Loading, SavedPlaces, LoadStep
<1> QED
  BY <1>2, <1>3 DEF Loading

LEMMA LoadingStep ==
  ASSUME MaxLive <= Size - 2, WorldInv, [WorldNext]_worldVars
  PROVE  Loading'
<1> USE DEF WorldInv, ItemsInv
<1> DEFINE row == LastStep.row
<1>1. ASSUME Joining, ~Frees(todo), Joining', todo' = Tail(todo), LastStep' = LastStep,
             doing' = doing, doing \in Players,
             \/ UNCHANGED <<itemVars, players>>
             \/ \E what, slot :
                  /\ Takes(what) /\ Puts(slot)
                  /\ slot \in SavedPlaces(row) =>
                       what = row.holds[slot] \/ players[doing].items[slot] = 0,
             \A place \in SavedPlaces(row) : Head(todo) = LoadStep(row, place) =>
               Takes(row.holds[place]) /\ Puts(place)
      PROVE  Loading'
  <2>1. SavedPlaces(row) \subseteq Place
    BY DEF SavedPlaces
  <2>2. ASSUME NEW place \in SavedPlaces(row), Takes(row.holds[place]), Puts(place)
        PROVE  Loaded(place)'
    <3>1. /\ players'[doing].items[place] = new_id' /\ kind'[new_id'] = row.holds[place]
          /\ new_id' # 0
      BY <1>1, <2>1, <2>2, OtherSlotsStay
    <3> QED
      BY <1>1, <3>1 DEF Loaded
  <2>3. ASSUME NEW place \in SavedPlaces(row), Loaded(place) PROVE Loaded(place)'
    <3>1. CASE UNCHANGED <<itemVars, players>>
      BY <1>1, <2>3, <3>1 DEF Loaded, itemVars
    <3>2. ASSUME NEW what, NEW slot, Takes(what), Puts(slot),
                 slot \in SavedPlaces(row) =>
                   what = row.holds[slot] \/ players[doing].items[slot] = 0
          PROVE  Loaded(place)'
      <4>1. CASE slot = place
        <5>1. what = row.holds[place]
          BY <2>3, <3>2, <4>1 DEF Loaded
        <5> QED
          BY <2>2, <3>2, <4>1, <5>1
      <4>2. CASE slot # place
        <5>1. /\ players'[doing].items[place] = players[doing].items[place]
              /\ players[doing].items[place] # 0 =>
                   kind'[players[doing].items[place]] = kind[players[doing].items[place]]
          BY <1>1, <2>1, <3>2, <4>2, OtherSlotsStay
        <5> QED
          BY <1>1, <2>3, <5>1 DEF Loaded
      <4> QED
        BY <4>1, <4>2
    <3> QED
      BY <1>1, <3>1, <3>2
  <2> QED
    BY <1>1, <2>2, <2>3, LoadingGoesOn
<1>2. ASSUME ~Joining' PROVE Loading'
  BY <1>2 DEF Loading
<1>3. CASE AddBagItem
  <2>1. /\ Joining /\ Joining' /\ todo' = Tail(todo) /\ LastStep' = LastStep /\ doing' = doing
        /\ doing \in Players
    BY <1>3, BringingGoesOn
  <2>2. ~Frees(todo) /\ \A place : Head(todo) # LoadStep(row, place)
    BY <1>3, AddBagItemPuts DEF LoadStep, Frees
  <2>3. "bag" \notin SavedPlaces(row)
    BY Places DEF SavedPlaces
  <2> HIDE DEF row
  <2> QED
    BY <1>1, <1>3, <2>1, <2>2, <2>3, AddBagItemPuts
<1>4. CASE LoadItem
  <2>1. /\ Joining /\ Joining' /\ todo' = Tail(todo) /\ LastStep' = LastStep /\ doing' = doing
        /\ doing \in Players
    BY <1>4, BringingGoesOn
  <2>2. PICK place \in SavedPlaces(row) : /\ Head(todo) = LoadStep(row, place)
                                          /\ Takes(row.holds[place]) /\ Puts(place)
    BY <1>4, LoadItemPuts
  <2>3. ~Frees(todo) /\ \A p : Head(todo) = LoadStep(row, p) => p = place
    BY <2>2 DEF LoadStep, Frees
  <2> HIDE DEF row
  <2> QED
    BY <1>1, <2>1, <2>2, <2>3
<1>5. CASE AddCupcakes
  <2>1. /\ Joining /\ Joining' /\ todo' = Tail(todo) /\ LastStep' = LastStep /\ doing' = doing
        /\ doing \in Players
    BY <1>5, BringingGoesOn
  <2>2. ~Frees(todo) /\ \A place : Head(todo) # LoadStep(row, place)
    BY <1>5, AddCupcakesPuts DEF LoadStep, Frees
  <2>3. \/ UNCHANGED <<itemVars, players>>
        \/ \E place \in Place : /\ players[doing].items[place] = 0
                                /\ Takes("cupcake") /\ Puts(place)
    BY <1>5, AddCupcakesPuts
  <2> HIDE DEF row
  <2> QED
    BY <1>1, <2>1, <2>2, <2>3
<1>6. CASE FreeBagItem \/ EquipItem
  <2>1. Changing
    BY <1>6, FreeBagItemFrees, EquipItemPuts
  <2>2. ~Joining'
    BY <1>6, <2>1, JoiningOrChanging, ItemNextAgents DEF ItemNext
  <2> QED
    BY <1>2, <2>2
<1>7. CASE UNCHANGED worldVars
  BY <1>7 DEF worldVars, itemVars, Loading, Joining, LastStep, Loaded
<1>8. CASE Join
  BY <1>2, <1>8 DEF Join, Joining
<1>9. ASSUME NEW t \in Token, NEW a \in Accounts, HandleTransferConnection(t, a)
      PROVE  Loading'
  BY <1>9, TransferHandler DEF Loading
<1>10. ASSUME todo' = <<>> PROVE Loading'
  BY <1>2, <1>10 DEF Joining
<1>11. ASSUME NEW t \in Token,
              \/ HandleDisconnect(t) \/ FlushFailed(t) \/ HandleRequestItems(t)
              \/ HandleInstanceLoadRequestPlayers(t) \/ ChangeProfAborts(t)
              \/ HandleCharCreationConfirm(t)
              \/ \E id \in Ids : HandleDropItem(t, id)
       PROVE  todo' = <<>>
  BY <1>11 DEF HandleDisconnect, RemovePlayer, FlushFailed, HandleRequestItems,
               HandleInstanceLoadRequestPlayers, ChangeProfAborts, HandleCharCreationConfirm,
               HandleDropItem, Idle, UnchangedWorld
<1>12. ASSUME NEW t \in Token, NEW equipment \in DefaultEquipments,
              HandleCharCreationChangeProf(t, equipment)
       PROVE  Loading'
  BY <1>2, <1>12, ChangeHandler
<1>13. CASE JoinAborts
  BY <1>13 DEF JoinAborts, itemVars, Loading, Joining, LastStep, Loaded
<1> HIDE DEF WorldInv, ItemsInv
<1> QED
  BY <1>3, <1>4, <1>5, <1>6, <1>7, <1>8, <1>9, <1>10, <1>11, <1>12, <1>13, StepsOfWorld
     DEF ItemNext, OtherNext

-----------------------------------------------------------------------------
(* What is worn *)

\* A player no handler runs for stays dressed.
LEMMA OthersStayDressed ==
  ASSUME NEW t, Dressed(t), t # doing, t # doing', players'[t].chosen = players[t].chosen,
         \A place \in Equipped : players'[t].items[place] = players[t].items[place]
  PROVE  Dressed(t)'
  BY DEF Dressed, Wearing, Coming, ChosenFor

LEMMA EquippedSlots ==
  \A t : \A place \in Equipped : /\ InSlot(t, place) = players[t].items[place]
                                 /\ InSlot(t, place)' = players'[t].items[place]
                                 /\ place \in Slots /\ place \in Place
  BY Places DEF InSlot, Slots

LEMMA BringingDresses ==
  ASSUME MaxLive <= Size - 2, WorldInv, AddBagItem \/ LoadItem \/ AddCupcakes
  PROVE  Dressing'
<1> USE DEF WorldInv, ItemsInv
<1>1. /\ Joining /\ doing' = doing /\ doing \in Players
      /\ (\E slot : Puts(slot)) \/ UNCHANGED players
  BY BringingGoesOn
<1>2. /\ Players' = Players
      /\ \A t \in Players : players'[t].chosen = players[t].chosen
  BY <1>1, PutsKeepsPlayers
<1>3. players'[doing].chosen = NULL
  BY <1>1, <1>2 DEF HandlerInv
<1>4. ASSUME NEW t \in Players, t # doing PROVE Dressed(t)'
  <2>1. \A place \in Equipped : players'[t].items[place] = players[t].items[place]
    BY <1>1, <1>4, EquippedSlots DEF Puts, Players
  <2> QED
    BY <1>1, <1>2, <1>4, <2>1, OthersStayDressed DEF Dressing
<1> QED
  BY <1>2, <1>3, <1>4 DEF Dressing, Dressed

LEMMA FreeDresses ==
  ASSUME WorldInv, FreeBagItem
  PROVE  Dressing'
<1> USE DEF WorldInv, ItemsInv
<1>1. PICK freed_place \in Equipped :
        /\ Changing /\ Head(todo) = FreeStep(freed_place) /\ Frees(todo) /\ todo' = Tail(todo)
        /\ doing \in Players /\ doing' = (IF todo' = <<>> THEN NULL ELSE doing)
  BY FreeBagItemFrees
<1>2. /\ Players' = Players
      /\ \A t \in Players : players'[t].chosen = players[t].chosen
      /\ \A t \in Players, place \in Equipped :
           players'[t].items[place] = IF ~Frees(todo') /\ t = doing THEN 0
                                      ELSE players[t].items[place]
  BY FreeBagItemSlots, EquippedSlots
<1>3. ASSUME NEW t \in Players, t # doing PROVE Dressed(t)'
  <2>1. t # doing'
    BY <1>1, <1>3, NullAssumption DEF Players
  <2> QED
    BY <1>2, <1>3, <2>1, OthersStayDressed DEF Dressing
<1>4. \A what : Occurs(todo, EquipStep(what)) <=> Occurs(todo', EquipStep(what))
  <2>1. todo # <<>> /\ todo \in Seq(Ops)
    BY <1>1 DEF Changing, StepsInOrder
  <2>2. \A what : EquipStep(what) # Head(todo)
    BY <1>1 DEF EquipStep, FreeStep
  <2> QED
    BY <1>1, <2>1, <2>2, TailOccurs
<1>5. PICK d \in Players : d = doing
  BY <1>1
<1>6. \A place : Coming(d, place)' <=> Coming(d, place)
  <2>1. \A what : todo' = <<>> => ~Occurs(todo', EquipStep(what))
    BY DEF Occurs
  <2>2. d # NULL
    BY NullAssumption DEF Players
  <2> QED
    BY <1>1, <1>4, <1>5, <2>1, <2>2 DEF Coming
<1>7. \A place \in Equipped : ~Wearing(d, place) /\ ~Wearing(d, place)'
  <2>1. Frees(todo') => doing' = d
    BY <1>1, <1>5 DEF Frees
  <2> QED
    BY <1>1, <1>2, <1>5, <2>1 DEF Wearing
<1>8. Dressed(d)'
  <2>1. Dressed(d)
    BY DEF Dressing
  <2>2. players'[d].chosen = players[d].chosen
    BY <1>2
  <2> QED
    BY <1>6, <1>7, <2>1, <2>2 DEF Dressed, ChosenFor
<1> QED
  BY <1>2, <1>3, <1>5, <1>8 DEF Dressing

LEMMA EquipDresses ==
  ASSUME MaxLive <= Size - 2, WorldInv, EquipItem
  PROVE  Dressing'
<1> USE DEF WorldInv, ItemsInv
<1> DEFINE what == Head(todo).kind
           place == SlotForItemType[what]
<1>1. /\ Changing /\ todo' = Tail(todo) /\ doing \in Players
      /\ doing' = IF todo' = <<>> THEN NULL ELSE doing
      /\ (\E slot : Puts(slot)) \/ UNCHANGED players
  BY EquipItemPuts
<1>2. /\ Players' = Players /\ ~Frees(todo) /\ ~Frees(todo')
      /\ \A t \in Players : players'[t].chosen = players[t].chosen
  BY <1>1, PutsKeepsPlayers, EquipHandler
<1>3. ASSUME NEW t \in Players, t # doing PROVE Dressed(t)'
  <2>1. \A p \in Equipped : players'[t].items[p] = players[t].items[p]
    BY <1>1, <1>3, EquippedSlots DEF Puts, Players
  <2>2. t # doing'
    BY <1>1, <1>3, NullAssumption DEF Players
  <2> QED
    BY <1>2, <1>3, <2>1, <2>2, OthersStayDressed DEF Dressing
<1>4. PICK d \in Players : d = doing
  BY <1>1
<1>5. Head(todo) = EquipStep(what)
  <2>1. Head(todo).op = "equip" /\ todo # <<>>
    BY EquipItemPuts DEF Changing
  <2>2. Head(todo) \in ChangeSteps
    BY <2>1, StepOfChanging
  <2> QED
    BY <2>1, <2>2, ChangeStepTypes
<1>6. \A w : Occurs(todo, EquipStep(w)) <=> w = what \/ Occurs(todo', EquipStep(w))
  <2>1. todo # <<>> /\ todo \in Seq(Ops)
    BY <1>1 DEF Changing, StepsInOrder
  <2>2. \A w : EquipStep(w) = Head(todo) <=> w = what
    BY <1>5 DEF EquipStep
  <2> HIDE DEF what
  <2> QED
    BY <1>1, <2>1, <2>2, TailOccurs
<1>7. \A w : todo' = <<>> => ~Occurs(todo', EquipStep(w))
  BY DEF Occurs
<1>8. d # NULL
  BY NullAssumption DEF Players
<1>9. \A p : Coming(d, p) <=> Coming(d, p)' \/ (what \in DOMAIN SlotForItemType /\ p = place)
  <2> HIDE DEF what
  <2> QED
    BY <1>1, <1>4, <1>6, <1>7, <1>8 DEF Coming
<1>10. \A p \in Equipped : Wearing(d, p)' <=>
         Wearing(d, p) \/ (what \in DOMAIN SlotForItemType /\ p = place)
  <2>1. /\ what \notin DOMAIN SlotForItemType => players' = players
        /\ what \in DOMAIN SlotForItemType =>
             /\ Takes(what)
             /\ IF players[doing].items[place] = 0 THEN Puts(place)
                ELSE \E slot \in (Place \ Equipped) \cup {"nowhere"} : Puts(slot)
    BY EquipItemPuts
  <2>2. what \in DOMAIN SlotForItemType => place \in Equipped
    BY WhatIsWorn
  <2>3. "nowhere" \notin Equipped
    BY Places
  <2> HIDE DEF what, place
  <2>4. ASSUME NEW slot, Puts(slot), NEW p \in Equipped
        PROVE  players'[d].items[p] = IF p = slot THEN new_id' ELSE players[d].items[p]
    BY <1>4, <2>4, EquippedSlots DEF Puts, Players
  <2>5. CASE what \notin DOMAIN SlotForItemType
    BY <1>2, <2>1, <2>5 DEF Wearing
  <2>6. CASE what \in DOMAIN SlotForItemType /\ players[d].items[place] = 0
    <3>1. Puts(place) /\ new_id' # 0
      BY <1>4, <2>1, <2>6, NoIdIsZero DEF Takes
    <3>2. \A p \in Equipped :
            players'[d].items[p] = IF p = place THEN new_id' ELSE players[d].items[p]
      BY <2>4, <3>1
    <3> QED
      BY <1>2, <2>6, <3>1, <3>2 DEF Wearing
  <2>7. CASE what \in DOMAIN SlotForItemType /\ players[d].items[place] # 0
    <3>1. PICK slot \in (Place \ Equipped) \cup {"nowhere"} : Puts(slot)
      BY <1>4, <2>1, <2>7
    <3>2. \A p \in Equipped : players'[d].items[p] = players[d].items[p]
      BY <2>3, <2>4, <3>1
    <3> QED
      BY <1>2, <2>7, <3>2 DEF Wearing
  <2> QED
    BY <2>5, <2>6, <2>7
<1> HIDE DEF what, place
<1>11. Dressed(d)'
  <2>1. Dressed(d)
    BY DEF Dressing
  <2>2. players'[d].chosen = players[d].chosen
    BY <1>2
  <2> QED
    BY <1>9, <1>10, <2>1, <2>2 DEF Dressed, ChosenFor
<1> QED
  BY <1>2, <1>3, <1>4, <1>11 DEF Dressing

LEMMA ChangeDresses ==
  ASSUME WorldInv, NEW t \in Token, NEW equipment \in DefaultEquipments,
         HandleCharCreationChangeProf(t, equipment)
  PROVE  Dressing'
<1> USE DEF WorldInv, ItemsInv
<1>1. /\ Players' = Players /\ t \in Players
      /\ doing = NULL /\ doing' = (IF todo' = <<>> THEN NULL ELSE t)
      /\ \A u \in Players :
           /\ players'[u].chosen = IF u = t THEN equipment ELSE players[u].chosen
           /\ \A slot \in Slots : InSlot(u, slot)' = InSlot(u, slot)
      /\ \A what : Occurs(todo', EquipStep(what)) <=> what \in ToSet(equipment)
      /\ \A place \in Equipped : players[t].items[place] # 0 => Frees(todo')
  BY ChangeHandler
<1>2. t # NULL /\ \A u \in Players : u # NULL
  BY NullAssumption DEF Players
<1>3. \A u \in Players : \A place \in Equipped :
        players'[u].items[place] = players[u].items[place]
  BY <1>1, EquippedSlots
<1>4. ASSUME NEW u \in Players, u # t PROVE Dressed(u)'
  <2>1. u # doing /\ u # doing'
    BY <1>1, <1>2, <1>4
  <2> QED
    BY <1>1, <1>3, <1>4, <2>1, OthersStayDressed DEF Dressing
<1>5. \A place \in Equipped : ~Wearing(t, place)'
  <2>1. Frees(todo') => doing' = t
    BY <1>1 DEF Frees
  <2> QED
    BY <1>1, <1>3, <2>1 DEF Wearing
<1>6. \A place : Coming(t, place)' <=> ChosenFor(t, place)'
  <2>1. \A what : todo' = <<>> => ~Occurs(todo', EquipStep(what))
    BY DEF Occurs
  <2>2. players'[t].chosen = equipment
    BY <1>1
  <2> QED
    BY <1>1, <1>2, <2>1, <2>2 DEF Coming, ChosenFor
<1> QED
  BY <1>1, <1>4, <1>5, <1>6 DEF Dressing, Dressed

LEMMA DressingStep ==
  ASSUME MaxLive <= Size - 2, WorldInv, [WorldNext]_worldVars
  PROVE  Dressing'
<1> USE DEF WorldInv, ItemsInv
<1>1. ASSUME doing = NULL, doing' = NULL, Players' \subseteq Players,
             \A t \in Players' : players'[t] = players[t]
      PROVE  Dressing'
  <2>1. \A t \in Players : t # NULL
    BY NullAssumption DEF Players
  <2> QED
    BY <1>1, <2>1, OthersStayDressed DEF Dressing
<1>2. ASSUME todo = <<>>, UNCHANGED <<players, doing>> PROVE Dressing'
  <2>1. Players' = Players
    BY <1>2 DEF Players
  <2> QED
    BY <1>1, <1>2, <2>1, NothingLeft
<1>3. ASSUME NEW t \in connected, RemovePlayer(t), todo = <<>> PROVE Dressing'
  <2>1. Players' = Players \ {t} /\ \A u \in Players \ {t} : players'[u] = players[u]
    BY <1>3, RemoveHandler
  <2>2. doing' = doing
    BY <1>3 DEF RemovePlayer
  <2> QED
    BY <1>1, <1>3, <2>1, <2>2, NothingLeft
<1>4. CASE ItemNext
  BY <1>4, BringingDresses, FreeDresses, EquipDresses DEF ItemNext
<1>5. CASE UNCHANGED worldVars
  BY <1>5 DEF worldVars, Dressing, Dressed, Wearing, Coming, ChosenFor, Players
<1>6. CASE Join
  <2>1. doing \in Players /\ players[doing].chosen = NULL
    BY <1>6, OnlyJoinLeft DEF Join, HandlerInv
  <2>2. /\ Players' = Players /\ doing' = NULL
        /\ \A t \in Players : /\ players'[t].chosen = players[t].chosen
                              /\ \A slot \in Slots : InSlot(t, slot)' = InSlot(t, slot)
    BY <1>6, JoinHandler DEF Join
  <2>3. ASSUME NEW t \in Players, t # doing PROVE Dressed(t)'
    <3>1. t # doing'
      BY <2>2, NullAssumption DEF Players
    <3>2. \A place \in Equipped : players'[t].items[place] = players[t].items[place]
      BY <2>2, EquippedSlots
    <3> QED
      BY <2>2, <2>3, <3>1, <3>2, OthersStayDressed DEF Dressing
  <2> QED
    BY <2>1, <2>2, <2>3 DEF Dressing, Dressed
<1>7. ASSUME NEW t \in Token, NEW a \in Accounts, HandleTransferConnection(t, a)
      PROVE  Dressing'
  <2>1. /\ t \notin Players /\ Players' = Players \cup {t} /\ doing = NULL /\ doing' = t
        /\ \A u \in Players : players'[u] = players[u]
        /\ players'[t].chosen = NULL
    BY <1>7, TransferHandler
  <2>2. ASSUME NEW u \in Players PROVE Dressed(u)'
    <3>1. u # NULL
      BY NullAssumption DEF Players
    <3> QED
      BY <2>1, <2>2, <3>1, OthersStayDressed DEF Dressing
  <2> QED
    BY <2>1, <2>2 DEF Dressing, Dressed
<1>8. ASSUME NEW t \in Token, HandleDisconnect(t) PROVE Dressing'
  BY <1>3, <1>8 DEF HandleDisconnect, Idle
<1>9. ASSUME NEW t \in Token, FlushFailed(t) PROVE Dressing'
  BY <1>2, <1>9 DEF FlushFailed, Idle
<1>10. ASSUME NEW t \in Token, HandleRequestItems(t) PROVE Dressing'
  BY <1>5, <1>10, RequestFindsItems
<1>11. ASSUME NEW t \in Token, HandleInstanceLoadRequestPlayers(t) PROVE Dressing'
  BY <1>2, <1>11 DEF HandleInstanceLoadRequestPlayers, Idle
<1>12. ASSUME NEW t \in Token, NEW equipment \in DefaultEquipments,
              HandleCharCreationChangeProf(t, equipment)
       PROVE  Dressing'
  BY <1>12, ChangeDresses
<1>13. ASSUME NEW t \in Token, ChangeProfAborts(t) PROVE Dressing'
  BY <1>2, <1>13 DEF ChangeProfAborts, Idle
<1>14. ASSUME NEW t \in Token, HandleCharCreationConfirm(t) PROVE Dressing'
  <2>1. t \in connected /\ todo = <<>>
    BY <1>14 DEF HandleCharCreationConfirm, Idle
  <2>2. UNCHANGED worldVars \/ RemovePlayer(t)
    BY <1>14, ConfirmFindsItems
  <2> QED
    BY <1>3, <1>5, <2>1, <2>2
<1>15. ASSUME NEW t \in Token, NEW id \in Ids, HandleDropItem(t, id) PROVE Dressing'
  BY <1>2, <1>15 DEF HandleDropItem, Idle
<1>16. CASE JoinAborts
  BY <1>16 DEF JoinAborts, Dressing, Dressed, Wearing, Coming, ChosenFor, Players
<1> HIDE DEF WorldInv, ItemsInv
<1> QED
  BY <1>4, <1>5, <1>6, <1>7, <1>8, <1>9, <1>10, <1>11, <1>12, <1>13, <1>14, <1>15, <1>16, StepsOfWorld
     DEF OtherNext

-----------------------------------------------------------------------------
(* The invariant holds *)

LEMMA WorldInitTypes ==
  ASSUME WorldInit
  PROVE  WorldTypeOK /\ SavedInv
<1>1. TypeOK
  BY LinksInit DEF WorldInit, LinksInv
<1>2. saved \in [Accounts -> SavedBags \cup {NULL}] /\ SavedInv
  <2>1. Characters \subseteq SavedBags
    BY CharactersAssumption DEF Created
  <2> QED
    BY <2>1, NullAssumption DEF WorldInit, SavedInv
<1>3. free_agents \in Seq(AgentId)
  BY WorldBoundsAssumption DEF WorldInit, AgentId
<1>4. used \in 0..MaxToken /\ changes \in 0..MaxChanges
  BY WorldBoundsAssumption DEF WorldInit
<1>5. todo \in Seq(Ops)
  BY EmptySeq DEF WorldInit
<1> QED
  BY <1>1, <1>2, <1>3, <1>4, <1>5 DEF WorldInit, WorldTypeOK

LEMMA WorldInitInv == WorldInit => WorldInv
<1> SUFFICES ASSUME WorldInit PROVE WorldInv
  OBVIOUS
<1>1. WorldTypeOK /\ SavedInv
  BY WorldInitTypes
<1>2. QueueInv /\ KindsInv
  <2>1. LinksInv /\ \E q \in Seq(Ids) : IsQueue(q)
    BY LinksInit, QueueInit DEF WorldInit
  <2>2. \A id \in Ids : freed[id]
    BY IdsAreIndices DEF WorldInit, Init
  <2> QED
    BY <2>1, <2>2 DEF QueueInv, KindsInv, WorldInit, Init
<1>3. todo = <<>> /\ doing = NULL /\ Players = {} /\ connected = {}
  BY DEF WorldInit, Players
<1>4. ~Joining /\ ~Changing
  BY <1>3 DEF Joining, Changing
<1>5. StepsInOrder /\ HandlerInv
  BY <1>3, <1>4, EmptySeq
     DEF StepsInOrder, JoinSteps_InOrder, ChangeSteps_InOrder, HandlerInv
<1>6. \A id \in AgentId : agents[id] = NULL
  BY DEF WorldInit
<1>7. ItemsInv
  BY <1>1, <1>2, <1>3, <1>5, <1>6 DEF ItemsInv, CarriedInv, OnePlaceInv, GroundInv
<1>8. AgentsInv
  <2>1. \A i, j \in 1..Len(free_agents) : free_agents[i] = free_agents[j] => i = j
    BY WorldBoundsAssumption DEF WorldInit, AgentId
  <2>2. \A t \in Token : known[t] = {}
    BY DEF WorldInit
  <2> QED
    BY <1>3, <1>4, <1>6, <2>1, <2>2 DEF AgentsInv, Distinct
<1>9. ViewsAgree
  BY <1>3 DEF ViewsAgree, ClientsSeeTheWorld, PlayersAreIntroduced
<1>10. Loading /\ Dressing
  BY <1>3, <1>4 DEF Loading, Dressing
<1> QED
  BY <1>7, <1>8, <1>9, <1>10 DEF WorldInv

\* The bound on the items that are in use at a time is what the assert of
\* GmIdAllocate needs; everything else holds of itself.
LEMMA WorldInvHolds ==
  ASSUME MaxLive <= Size - 2
  PROVE  WorldSpec => []WorldInv
<1>1. WorldInv /\ [WorldNext]_worldVars => WorldInv'
  BY ItemsStep, AgentsStep, ViewsStep, LoadingStep, DressingStep DEF WorldInv
<1> QED
  BY <1>1, WorldInitInv, PTL DEF WorldSpec

-----------------------------------------------------------------------------
(* Theorems *)

\* Every variable of the world keeps its type.
THEOREM WorldTypeCorrect ==
  ASSUME MaxLive <= Size - 2
  PROVE  WorldSpec => []WorldTypeOK
<1>1. WorldInv => WorldTypeOK
  BY DEF WorldInv, ItemsInv
<1> QED
  BY <1>1, WorldInvHolds, PTL

\* GameSrv_GetItemById never asserts: what a bag refers to is an item, however
\* equipment was changed, dropped or loaded before.
THEOREM CarriedItemsExist ==
  ASSUME MaxLive <= Size - 2
  PROVE  WorldSpec => []BagsReferToItems
<1>1. WorldInv => BagsReferToItems
  BY WhatIsCarried DEF WorldInv, BagsReferToItems
<1> QED
  BY <1>1, WorldInvHolds, PTL

\* No item is in two slots, although GmBag_TryAddToBag overwrites what is in the
\* backpack and ids of freed items are given out again.
THEOREM ItemsAreInOnePlace ==
  ASSUME MaxLive <= Size - 2
  PROVE  WorldSpec => []ItemInOnePlace
<1>1. WorldInv => ItemInOnePlace
  <2> SUFFICES ASSUME WorldInv, NEW t \in Players, NEW u \in Players, NEW p \in Place,
                      NEW q \in Place, players[t].items[p] # 0
               PROVE  /\ players[t].items[p] = players[u].items[q] => t = u /\ p = q
                      /\ players[t].items[p] # players[u].bag_item_id
    BY DEF ItemInOnePlace
  <2>1. p \in Slots /\ q \in Slots /\ "bag" \in Slots /\ p # "bag" /\ q # "bag"
    BY Places DEF Slots
  <2>2. /\ InSlot(t, p) = players[t].items[p] /\ InSlot(u, q) = players[u].items[q]
        /\ InSlot(u, "bag") = players[u].bag_item_id
    BY <2>1 DEF InSlot
  <2>3. OnePlaceInv
    BY DEF WorldInv, ItemsInv
  <2> QED
    BY <2>1, <2>2, <2>3 DEF OnePlaceInv
<1> QED
  BY <1>1, WorldInvHolds, PTL

\* Changing equipment frees nothing that was dropped before.
THEOREM GroundItemsExist ==
  ASSUME MaxLive <= Size - 2
  PROVE  WorldSpec => []GroundIsItems
<1>1. WorldInv => GroundIsItems
  BY CarriedIds DEF WorldInv, ItemsInv, GroundInv, KindsInv, GroundIsItems, AllFound
<1> QED
  BY <1>1, WorldInvHolds, PTL

\* When the player joins, every slot that was saved is filled as it was saved.
THEOREM CharactersAreLoaded ==
  ASSUME MaxLive <= Size - 2
  PROVE  WorldSpec => []LoadedAsSaved
<1>1. WorldInv => LoadedAsSaved
  <2> SUFFICES ASSUME WorldInv, todo # <<>>, Head(todo).op = "join", NEW place \in Place,
                      Head(todo).row.holds[place] # NULL
               PROVE  Holds(doing)[place] = Head(todo).row.holds[place]
    BY DEF LoadedAsSaved
  <2>1. /\ Joining /\ Len(todo) = 1 /\ Head(todo) = LastStep /\ todo[1] = LastStep
        /\ LastStep.op = "join"
    BY OnlyJoinLeft DEF WorldInv, ItemsInv, LastStep
  <2>2. place \in SavedPlaces(LastStep.row)
    BY <2>1 DEF SavedPlaces
  <2>3. ~Occurs(todo, LoadStep(LastStep.row, place))
    <3>1. \A i \in 1..Len(todo) : i = 1
      BY <2>1
    <3>2. LoadStep(LastStep.row, place).op = "load"
      BY DEF LoadStep
    <3> QED
      BY <2>1, <3>1, <3>2 DEF Occurs
  <2>4. Loaded(place)
    BY <2>1, <2>2, <2>3 DEF WorldInv, Loading
  <2> QED
    BY <2>1, <2>4 DEF Loaded, Holds
<1> QED
  BY <1>1, WorldInvHolds, PTL

\* Once a change of profession is through, the default equipment of the last one
\* is worn, in the slots it has an item for, and nothing else.
THEOREM ChosenIsWorn ==
  ASSUME MaxLive <= Size - 2
  PROVE  WorldSpec => []WearsWhatWasChosen
<1>1. WorldInv => WearsWhatWasChosen
  <2> SUFFICES ASSUME WorldInv, Idle, NEW t \in Players, players[t].chosen # NULL,
                      NEW place \in Equipped
               PROVE  Holds(t)[place] # NULL <=> ChosenFor(t, place)
    BY DEF WearsWhatWasChosen, ChosenFor
  <2>1. ~Frees(todo) /\ doing = NULL /\ t # NULL
    BY NothingLeft, NullAssumption DEF WorldInv, Idle, Players
  <2>2. place \in Place /\ InSlot(t, place) = players[t].items[place] /\ place \in Slots
    BY EquippedSlots
  <2>3. Holds(t)[place] # NULL <=> players[t].items[place] # 0
    BY <2>1, <2>2 DEF Holds, WorldInv, ItemsInv, CarriedInv, Gone
  <2>4. Wearing(t, place) \/ Coming(t, place) <=> ChosenFor(t, place)
    BY DEF WorldInv, Dressing, Dressed
  <2> QED
    BY <2>1, <2>3, <2>4 DEF Wearing, Coming
<1> QED
  BY <1>1, WorldInvHolds, PTL

\* No client knows an agent that is gone, and none misses one it should know,
\* in whatever order players join, load, drop items, fail and leave.
THEOREM ClientsAreTold ==
  ASSUME MaxLive <= Size - 2
  PROVE  WorldSpec => []ViewsAgree
<1>1. WorldInv => ViewsAgree
  BY DEF WorldInv
<1> QED
  BY <1>1, WorldInvHolds, PTL

\* GmIdAllocate does not assert either: no handler takes an id that is in use.
THEOREM WorldGivesOutFreed ==
  ASSUME MaxLive <= Size - 2
  PROVE  WorldSpec => []GivesOutFreed
<1>1. WorldInv => GivesOutFreed
  BY DEF WorldInv, ItemsInv, QueueInv, GivesOutFreed
<1> QED
  BY <1>1, WorldInvHolds, PTL

\* The table of the items is a queue under everything the handlers do with it.
THEOREM WorldImplementsQueue ==
  ASSUME MaxLive <= Size - 2
  PROVE  WorldSpec => QueueSpec
<1>1. WorldInv /\ [WorldNext]_worldVars => [Queue!Next]_<<FreeQueue, new_id>>
  BY TableStep, ImplementsStep DEF WorldInv, ItemsInv
<1>2. WorldInit => Queue!Init
  BY ImplementsInit DEF WorldInit
<1> QED
  BY <1>1, <1>2, WorldInvHolds, PTL DEF WorldSpec, QueueSpec, Queue!Spec
=============================================================================
