------------------------------- MODULE GmWorld -------------------------------
(***************************************************************************)
(* The world of a game server: what the players carry and what they see.   *)
(* Items live in an id table (GmIdTable) and bags hold their ids; players  *)
(* and dropped items are shown to the clients as agents.                   *)
(*                                                                         *)
(* A handler that allocates or frees items is a list of such steps, taken  *)
(* one after the other (todo); nothing else happens before it is empty.    *)
(* Players are named by the token of their connection.  Of the bags, the   *)
(* backpack and the equipped items are kept, each with some of its slots;  *)
(* of an item, what it is.                                                 *)
(***************************************************************************)
EXTENDS GmIdTable, SequencesExt, Functions

CONSTANTS
  Accounts,    \* account ids of the database
  Characters,  \* what the database may have of a character from the start
  MaxToken,    \* bound: connections handed to this server
  MaxAgents,   \* bound: agents that exist at a time
  MaxChanges,  \* bound: how often professions are chosen
  NULL

Token   == 1..MaxToken
AgentId == 1..MaxAgents

ASSUME WorldBoundsAssumption == /\ MaxToken \in Nat
                                /\ MaxAgents \in Nat
                                /\ MaxChanges \in Nat

Backpack == <<"first", "second">>  \* two of the slots of the backpack, in order
Equipped == {"weapon", "body"}     \* two of the slots of the equipped items
Place    == ToSet(Backpack) \cup Equipped

Kinds == {"cupcake", "body", "bow", "bag"}

\* GetBagSlotForItemType; nothing is worn where a bag would be.
SlotForItemType == [body |-> "body", bow |-> "weapon"]

\* GetDefaultEquipments: a profession has an armor and perhaps a weapon.  The
\* pvp ranger has two bows and the pvp dervish a bag, and the tables have gaps.
DefaultEquipments ==
  {<<>>, <<"body">>, <<"body", "bow", "bow">>, <<"body", "bow", "bag">>}

Nothing == [place \in Place |-> NULL]

\* What the database has of a character: whether there are bags, and what they
\* hold.
SavedBags == [bags : BOOLEAN, holds : [Place -> Kinds \cup {NULL}]]

NoBags == [bags |-> FALSE, holds |-> Nothing]

\* What character creation leaves there, if anything: weapons and armor where
\* they are worn, and cupcakes or a second weapon in the backpack.
Created == {row \in SavedBags :
  /\ row.bags \/ row.holds = Nothing
  /\ row.holds["weapon"] \in {"bow", NULL}
  /\ row.holds["body"] \in {"body", NULL}
  /\ \A place \in ToSet(Backpack) : row.holds[place] \in {"cupcake", "bow", NULL}}

ASSUME CharactersAssumption == Characters \subseteq Created

\* `chosen' is a history of the code's primary_profession and campaign: the
\* equipment that was asked for last.
GmPlayer == [account_id  : Accounts,
             agent_id    : AgentId \cup {0},
             bag_item_id : Idx,
             items       : [Place -> Idx],
             chosen      : DefaultEquipments \cup {NULL}]

GmAgent == [class : {"player"}, of : Token] \cup [class : {"item"}, of : Ids]

ASSUME NullAssumption == /\ NULL \notin Token
                         /\ NULL \notin Kinds
                         /\ NULL \notin SavedBags
                         /\ NULL \notin GmPlayer
                         /\ NULL \notin GmAgent

VARIABLES
  map_type,     \* GameSrv.district.map_type
  saved,        \* bags of the character an account plays next, NULL: it has none
  kind,         \* content of the items, NULL: item_id is 0
  players,      \* GameSrv.players, with the bags
  connected,    \* connections in GameSrv.connections
  agents,       \* GameSrv.agents
  free_agents,  \* ids of agents that are not in use, oldest first
  todo,         \* what is left to do in the handler that is running
  doing,        \* the player it runs for
  loaded,       \* clients that asked for the players and got them
  known,        \* agents that exist for a client
  met,          \* players that exist for a client
  used,         \* how many connections were handed over
  changes,      \* how often a profession was chosen
  aborted       \* no equipments for a campaign, or no character to join with

itemVars  == <<vars, kind>>
agentVars == <<agents, free_agents>>
viewVars  == <<loaded, known, met>>
worldVars == <<itemVars, map_type, saved, players, connected, agentVars, todo,
               doing, viewVars, used, changes, aborted>>

WorldInit ==
  /\ Init
  /\ map_type \in {"CharacterCreation", "MainTown"}
  /\ saved \in [Accounts -> IF map_type = "MainTown" THEN Characters ELSE {NULL}]
  /\ kind = [id \in Ids |-> NULL]
  /\ players = [t \in Token |-> NULL]
  /\ connected = {}
  /\ agents = [id \in AgentId |-> NULL]
  /\ free_agents = [id \in AgentId |-> id]
  /\ todo = <<>>
  /\ doing = NULL
  /\ loaded = {}
  /\ known = [t \in Token |-> {}]
  /\ met = [t \in Token |-> {}]
  /\ used = 0
  /\ changes = 0
  /\ aborted = FALSE

Idle == ~halted /\ ~aborted /\ todo = <<>>

-----------------------------------------------------------------------------
(* Items *)

\* GameSrv_AllocateItem, and what the caller puts into it.
AllocateItem(what) ==
  /\ GmIdAllocate
  /\ kind' = IF halted' THEN kind ELSE [kind EXCEPT ![new_id'] = what]

\* GameSrv_FreeItemId
FreeItemId(id) ==
  /\ GmIdFree(id)
  /\ kind' = [kind EXCEPT ![id] = NULL]

\* GameSrv_GetItemById finds each of them; it asserts that they are not freed.
AllFound(ids) == \A id \in ids \ {0} : ~freed[id] /\ kind[id] # NULL

Step(op) ==
  /\ ~halted /\ ~aborted
  /\ todo # <<>> /\ Head(todo).op = op
  /\ UNCHANGED <<map_type, saved, connected, agentVars, viewVars, used, changes, aborted>>

\* The item that carries the backpack.
AddBagItem ==
  /\ Step("bag")
  /\ AllocateItem("bag")
  /\ players' = [players EXCEPT ![doing].bag_item_id = new_id']
  /\ todo' = Tail(todo)
  /\ UNCHANGED doing

\* An item of the database comes into the slot it is saved for.  What it is can
\* be read back: only CreatePlayerBags writes there, and it writes what items are.
LoadItem ==
  /\ Step("load")
  /\ AllocateItem(Head(todo).kind)
  /\ players' = [players EXCEPT ![doing].items[Head(todo).place] = new_id']
  /\ todo' = Tail(todo)
  /\ UNCHANGED doing

EmptySlots(t) == {i \in 1..Len(Backpack) : players[t].items[Backpack[i]] = 0}
FullSlots(t)  == 1..Len(Backpack) \ EmptySlots(t)
Lowest(S)     == CHOOSE i \in S : \A j \in S : i <= j

\* Slips this code could have had are kept next to what they would change; the
\* properties are checked to notice them.  Here: the cupcakes are put into the
\* very first slot.
FreeSlot_First(t) == 1

FreeSlot(t) == Lowest(EmptySlots(t))

\* GameSrv_CreateDefaultBags adds cupcakes where the backpack has room.
AddCupcakes ==
  /\ Step("cupcakes")
  /\ IF EmptySlots(doing) = {} THEN UNCHANGED <<itemVars, players>>
     ELSE /\ AllocateItem("cupcake")
          /\ players' = [players EXCEPT ![doing].items[Backpack[FreeSlot(doing)]] = new_id']
  /\ todo' = Tail(todo)
  /\ UNCHANGED doing

\* Whether items of the bag are still to be freed.
Frees(steps) == steps # <<>> /\ Head(steps).op = "free"

\* A slip: the slots keep the ids of the items.
FreeBagItem_Keeps ==
  /\ Step("free")
  /\ FreeItemId(players[doing].items[Head(todo).place])
  /\ todo' = Tail(todo)
  /\ doing' = IF todo' = <<>> THEN NULL ELSE doing
  /\ UNCHANGED players

\* GameSrv_FreeBagItems; the slots are cleared behind the last item.
FreeBagItem ==
  /\ Step("free")
  /\ FreeItemId(players[doing].items[Head(todo).place])
  /\ todo' = Tail(todo)
  /\ doing' = IF todo' = <<>> THEN NULL ELSE doing
  /\ players' = IF Frees(todo') THEN players
                ELSE [players EXCEPT ![doing].items =
                       [place \in Place |-> IF place \in Equipped THEN 0 ELSE @[place]]]

\* A slip: the search goes on when the item is in.
TryAddToBackpack_Everywhere(id) ==
  players' = [players EXCEPT ![doing].items = [place \in Place |->
    IF \E i \in FullSlots(doing) : Backpack[i] = place THEN id
    ELSE players[doing].items[place]]]

\* GmBag_TryAddToBag puts an item where there already is one, the first it
\* finds; that one is in no bag then, and so is the new one if there is none.
TryAddToBackpack(id) ==
  IF FullSlots(doing) = {} THEN UNCHANGED players
  ELSE players' = [players EXCEPT ![doing].items[Backpack[Lowest(FullSlots(doing))]] = id]

\* A default item is equipped, or goes into the backpack when its slot is taken.
EquipItem ==
  LET what == Head(todo).kind IN
  /\ Step("equip")
  /\ IF what \notin DOMAIN SlotForItemType THEN UNCHANGED <<itemVars, players>>
     ELSE /\ AllocateItem(what)
          /\ IF players[doing].items[SlotForItemType[what]] = 0
             THEN players' = [players EXCEPT ![doing].items[SlotForItemType[what]] = new_id']
             ELSE TryAddToBackpack(new_id')
  /\ todo' = Tail(todo)
  /\ doing' = IF todo' = <<>> THEN NULL ELSE doing

-----------------------------------------------------------------------------
(* Players come *)

\* What is found of the bags of a player: nothing if a query fails or while the
\* character is still to be created; the bags alone if the query for the items
\* fails.
Rows(a) ==
  {NoBags} \cup
  (IF map_type = "CharacterCreation" THEN {}
   ELSE {saved[a], [saved[a] EXCEPT !.holds = Nothing]})

IfNeeded(needed, step) == IF needed THEN <<step>> ELSE <<>>

\* A slip: slots that were saved as empty are loaded as well.
LoadSlot_Empty(row, place) ==
  <<[op |-> "load", place |-> place, kind |-> row.holds[place]]>>

LoadSlot(row, place) ==
  IfNeeded(row.holds[place] # NULL,
           [op |-> "load", place |-> place, kind |-> row.holds[place]])

\* The slots come in the order in which CreatePlayerBags saved them.
LoadSteps(row) ==
  IfNeeded(row.bags, [op |-> "bag"])
    \o LoadSlot(row, "first") \o LoadSlot(row, "second")
    \o LoadSlot(row, "weapon") \o LoadSlot(row, "body")

\* GameSrv_LoadPlayerFromDatabase, GameSrv_CreateDefaultBags, and the rest.
JoinSteps(row) ==
  LoadSteps(row) \o <<[op |-> "cupcakes"], [op |-> "join", row |-> row]>>

\* MaxLive is the bound: there is room for what the steps of a handler take.
HasRoom(steps) ==
  LET taking == SelectSeq(steps, LAMBDA step : step.op \notin {"free", "join"})
  IN  Cardinality(Live) + Len(taking) <= MaxLive

\* A player is created for a connection that was handed over.
HandleTransferConnection(t, a) ==
  /\ Idle
  /\ t = used + 1
  /\ free_agents # <<>>
  /\ \A u \in Token : players[u] # NULL => players[u].account_id # a
  /\ used' = t
  /\ doing' = t
  /\ players' = [players EXCEPT ![t] =
       [account_id |-> a, agent_id |-> 0, bag_item_id |-> 0,
        items |-> [place \in Place |-> 0], chosen |-> NULL]]
  /\ \E row \in Rows(a) : todo' = JoinSteps(row)
  /\ HasRoom(todo')
  /\ UNCHANGED <<itemVars, map_type, saved, connected, agentVars, viewVars, changes,
                 aborted>>

\* The player gets an agent, and only now the connection is known.
Join ==
  /\ ~halted /\ ~aborted
  /\ todo # <<>> /\ Head(todo).op = "join"
  /\ players' = [players EXCEPT ![doing].agent_id = Head(free_agents)]
  /\ agents' = [agents EXCEPT ![Head(free_agents)] = [class |-> "player", of |-> doing]]
  /\ free_agents' = Tail(free_agents)
  /\ connected' = connected \cup {doing}
  /\ todo' = <<>>
  /\ doing' = NULL
  /\ UNCHANGED <<itemVars, map_type, saved, viewVars, used, changes, aborted>>

\* It is the character that was not found, with all that depends on it: the
\* process aborts where it would send its name.
JoinAborts ==
  /\ ~halted /\ ~aborted
  /\ todo # <<>> /\ Head(todo).op = "join"
  /\ map_type = "MainTown" /\ Head(todo).row = NoBags
  /\ aborted' = TRUE
  /\ UNCHANGED <<itemVars, map_type, saved, players, connected, agentVars, todo,
                 doing, viewVars, used, changes>>

-----------------------------------------------------------------------------
(* Players go *)

Without(t, id) ==
  [u \in Token |-> IF u = t THEN {} ELSE known[u] \ {id}]

\* GameSrv_RemovePlayer: the agent goes, and the others are told.  What the
\* player carried stays allocated.
RemovePlayer(t) ==
  /\ players' = [players EXCEPT ![t] = NULL]
  /\ connected' = connected \ {t}
  /\ loaded' = loaded \ {t}
  /\ agents' = [agents EXCEPT ![players[t].agent_id] = NULL]
  /\ free_agents' = Append(free_agents, players[t].agent_id)
  /\ known' = Without(t, players[t].agent_id)
  /\ met' = [u \in Token |-> IF u = t THEN {} ELSE met[u] \ {t}]
  /\ UNCHANGED <<itemVars, map_type, todo, doing, used, changes, aborted>>

HandleDisconnect(t) ==
  /\ Idle
  /\ t \in connected
  /\ RemovePlayer(t)
  /\ UNCHANGED saved

\* The connection is gone, the player and its agent stay.
FlushFailed(t) ==
  /\ Idle
  /\ t \in connected
  /\ connected' = connected \ {t}
  /\ loaded' = loaded \ {t}
  /\ known' = [known EXCEPT ![t] = {}]
  /\ met' = [met EXCEPT ![t] = {}]
  /\ UNCHANGED <<itemVars, map_type, saved, players, agentVars, todo, doing,
                 used, changes, aborted>>

-----------------------------------------------------------------------------
(* Messages of the players *)

UnchangedWorld == UNCHANGED <<map_type, saved, players, connected, agentVars, todo,
                              doing, viewVars, used, changes, aborted>>

Worn(t) == {players[t].items[place] : place \in Equipped}

Carried(t) == {players[t].items[place] : place \in Place} \cup {players[t].bag_item_id}

\* GameSrv_HandleInstanceLoadRequestItems, GameSrv_HandleCharCreationRequestPlayer:
\* the inventory is sent.
HandleRequestItems(t) ==
  /\ Idle
  /\ t \in connected
  /\ halted' = ~AllFound(Carried(t))
  /\ UNCHANGED <<table, new_id, kind>>
  /\ UnchangedWorld

\* A slip: the player is introduced to its own client only.
Meets_Alone(t, others) ==
  [met EXCEPT ![t] = @ \cup {t} \cup {v \in others : players[v] # NULL}]

\* GameSrv_BroadcastPlayerCreate, and GameSrv_SendPlayerCreate of the others.
Meets(t, others) ==
  [u \in Token |->
    IF u \notin connected THEN met[u]
    ELSE met[u] \cup {t} \cup (IF u = t THEN {v \in others : players[v] # NULL} ELSE {})]

\* The player is shown to everybody, and everything there is to the player.
HandleInstanceLoadRequestPlayers(t) ==
  LET exists == {id \in AgentId : agents[id] # NULL}
      others == {agents[id].of : id \in {a \in exists : agents[a].class = "player"}}
      bags   == UNION {Worn(u) : u \in {u \in others \cup {t} : players[u] # NULL}}
  IN
  /\ Idle
  /\ t \in connected
  /\ IF AllFound(bags)
     THEN /\ loaded' = loaded \cup {t}
          /\ known' = [u \in Token |->
               IF u = t THEN exists
               ELSE IF u \in connected THEN known[u] \cup {players[t].agent_id}
               ELSE known[u]]
          /\ met' = Meets(t, others)
          /\ UNCHANGED halted
     ELSE /\ halted' = TRUE
          /\ UNCHANGED viewVars
  /\ UNCHANGED <<table, new_id, kind, map_type, saved, players, connected,
                 agentVars, todo, doing, used, changes, aborted>>

FreeWorn(t, place) ==
  IfNeeded(players[t].items[place] # 0, [op |-> "free", place |-> place])

\* The equipped items are freed and replaced by those of the profession.
HandleCharCreationChangeProf(t, equipment) ==
  /\ Idle
  /\ t \in connected
  /\ changes < MaxChanges
  /\ changes' = changes + 1
  /\ todo' = FreeWorn(t, "weapon") \o FreeWorn(t, "body")
               \o [i \in DOMAIN equipment |-> [op |-> "equip", kind |-> equipment[i]]]
  /\ HasRoom(todo')
  /\ doing' = IF todo' = <<>> THEN NULL ELSE t
  /\ players' = [players EXCEPT ![t].chosen = equipment]
  /\ UNCHANGED <<itemVars, map_type, saved, connected, agentVars, viewVars, used, aborted>>

\* A campaign without a table of equipments aborts; a profession behind the end
\* of a table reads what follows it, which is taken for the same here.
ChangeProfAborts(t) ==
  /\ Idle
  /\ t \in connected
  /\ changes < MaxChanges
  /\ changes' = changes + 1
  /\ aborted' = TRUE
  /\ UNCHANGED <<itemVars, map_type, saved, players, connected, agentVars, todo,
                 doing, viewVars, used>>

Holds(t) == [place \in Place |-> IF players[t].items[place] = 0 THEN NULL
                                 ELSE kind[players[t].items[place]]]

SlotsInOrder == Backpack \o <<"weapon", "body">>

\* What CreatePlayerBags leaves in the database: it stops at the first insert that
\* fails, be it of the bags or of one of their items.
Inserted(t) ==
  {NoBags} \cup
  {[bags  |-> TRUE,
    holds |-> [place \in Place |-> IF \E i \in 1..n : SlotsInOrder[i] = place
                                  THEN Holds(t)[place] ELSE NULL]] : n \in 0..Len(SlotsInOrder)}

\* The character is created with what the player carries, as far as the
\* inserts succeed, and the session ends; or the name is taken.
HandleCharCreationConfirm(t) ==
  /\ Idle
  /\ t \in connected
  /\ IF AllFound(Carried(t) \ {players[t].bag_item_id})
     THEN \/ UNCHANGED itemVars /\ UnchangedWorld
          \/ /\ RemovePlayer(t)
             /\ \E row \in Inserted(t) :
                  saved' = [saved EXCEPT ![players[t].account_id] = row]
     ELSE /\ halted' = TRUE
          /\ UNCHANGED <<table, new_id, kind>>
          /\ UnchangedWorld

\* A slip: what is worn can be dropped as well.
FindItem_Worn(t) == Carried(t) \ {0, players[t].bag_item_id}

\* GmBag_FindItem looks into the backpack and the bags next to it.
FindItem(t) == {players[t].items[Backpack[i]] : i \in 1..Len(Backpack)} \ {0}

\* An agent appears for the item, which stays in the bag.
HandleDropItem(t, id) ==
  /\ Idle
  /\ t \in connected
  /\ id \in FindItem(t)
  /\ free_agents # <<>>
  /\ IF AllFound({id})
     THEN /\ agents' = [agents EXCEPT ![Head(free_agents)] = [class |-> "item", of |-> id]]
          /\ free_agents' = Tail(free_agents)
          /\ known' = [u \in Token |-> IF u \in connected
                                       THEN known[u] \cup {Head(free_agents)} ELSE known[u]]
          /\ UNCHANGED <<itemVars, loaded, met>>
     ELSE /\ halted' = TRUE
          /\ UNCHANGED <<table, new_id, kind, agentVars, viewVars>>
  /\ UNCHANGED <<map_type, saved, players, connected, todo, doing, used, changes, aborted>>

-----------------------------------------------------------------------------
WorldNext ==
  \/ AddBagItem
  \/ LoadItem
  \/ AddCupcakes
  \/ FreeBagItem
  \/ EquipItem
  \/ Join
  \/ JoinAborts
  \/ \E t \in Token :
       \/ \E a \in Accounts : HandleTransferConnection(t, a)
       \/ HandleDisconnect(t)
       \/ FlushFailed(t)
       \/ HandleRequestItems(t)
       \/ HandleInstanceLoadRequestPlayers(t)
       \/ \E equipment \in DefaultEquipments : HandleCharCreationChangeProf(t, equipment)
       \/ ChangeProfAborts(t)
       \/ HandleCharCreationConfirm(t)
       \/ \E id \in Ids : HandleDropItem(t, id)

WorldSpec == WorldInit /\ [][WorldNext]_worldVars

-----------------------------------------------------------------------------
(* Properties *)

Ops == [op : {"bag", "cupcakes"}]
         \cup [op : {"load"}, place : Place, kind : Kinds]
         \cup [op : {"free"}, place : Place]
         \cup [op : {"equip"}, kind : Kinds]
         \cup [op : {"join"}, row : SavedBags]

WorldTypeOK ==
  /\ TypeOK
  /\ map_type \in {"CharacterCreation", "MainTown"}
  /\ saved \in [Accounts -> SavedBags \cup {NULL}]
  /\ kind \in [Ids -> Kinds \cup {NULL}]
  /\ players \in [Token -> GmPlayer \cup {NULL}]
  /\ connected \subseteq Token
  /\ agents \in [AgentId -> GmAgent \cup {NULL}]
  /\ free_agents \in Seq(AgentId)
  /\ todo \in Seq(Ops)
  /\ doing \in Token \cup {NULL}
  /\ loaded \subseteq connected
  /\ known \in [Token -> SUBSET AgentId]
  /\ met \in [Token -> SUBSET Token]
  /\ used \in 0..MaxToken
  /\ changes \in 0..MaxChanges
  /\ aborted \in BOOLEAN

Players == {t \in Token : players[t] # NULL}

\* GameSrv_GetItemById asserts that an item is there: whatever a bag refers to
\* is, also while a handler puts items into the bags, except for the bag whose
\* items are just being freed.
BagsReferToItems == ~Frees(todo) => \A t \in Players : AllFound(Carried(t))

\* An item is in one slot of one player at most, however it was loaded, given
\* out again after it was freed, or put where another one was.
ItemInOnePlace ==
  \A t, u \in Players : \A p, q \in Place :
    /\ players[t].items[p] # 0 /\ players[t].items[p] = players[u].items[q]
         => t = u /\ p = q
    /\ players[t].items[p] # 0 => players[t].items[p] # players[u].bag_item_id

\* What lies on the ground is an item: changing equipment never frees what was
\* dropped before.
GroundIsItems ==
  \A id \in AgentId :
    agents[id] # NULL /\ agents[id].class = "item" => AllFound({agents[id].of})

\* A player who joins carries what the database has for the character, each
\* item in the slot it was saved from, and the cupcakes elsewhere.
LoadedAsSaved ==
  todo # <<>> /\ Head(todo).op = "join" /\ ~halted =>
    \A place \in Place :
      Head(todo).row.holds[place] # NULL => Holds(doing)[place] = Head(todo).row.holds[place]

\* What a character wears is the default equipment of the profession that was
\* chosen last, whatever was worn before.
WearsWhatWasChosen ==
  Idle => \A t \in {u \in Players : players[u].chosen # NULL} :
    \A place \in Equipped :
      Holds(t)[place] # NULL <=>
        \E what \in ToSet(players[t].chosen) \cap DOMAIN SlotForItemType :
          SlotForItemType[what] = place

\* A client knows only agents that exist; once it has loaded it knows every
\* item on the ground and every player that has loaded, whoever came first.
ClientsSeeTheWorld ==
  \A t \in connected :
    /\ \A id \in known[t] : agents[id] # NULL
    /\ t \in loaded =>
         \A id \in AgentId :
           /\ agents[id] # NULL
           /\ agents[id].class = "item" \/ agents[id].of \in loaded
           => id \in known[t]

\* The agent of a player is shown only to clients to which the player itself
\* was introduced, and not after they were told that the player is gone.
PlayersAreIntroduced ==
  \A t \in connected : \A id \in known[t] :
    agents[id] # NULL /\ agents[id].class = "player" /\ agents[id].of # t =>
      agents[id].of \in met[t] /\ players[agents[id].of] # NULL

ViewsAgree == ClientsSeeTheWorld /\ PlayersAreIntroduced
=============================================================================
