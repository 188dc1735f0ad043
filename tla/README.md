# Verification of OpenTyria

TLA+ models of OpenTyria (`src/code/OpenTyria`), a server for an online game:
an authentication server that clients log in to, and game servers that it starts
and hands connections over to. The models are written from the code, checked
with TLC on small instances, and most of their safety properties and refinements
are proved with TLAPS for every instance.

## The system

One process. `main.c` runs the **authentication server** in an endless loop
(`AuthSrv_Update`). For every district somebody asks for, it starts a **game
server** (`AuthSrvCtrl_CreateServer`), a detached thread of the process with a loop
of its own (`GameSrv_Update`). The two share no state: a game server opens a TCP
connection to the internal port, the **control connection** (`CtrlConn.c`), and all
they say to each other goes through it. Each thread has one `epoll` set with
one-shot registrations (`linux/iocp_linux.c`): a socket that had an event is not
heard of again until it is registered again at the end of the round.

A session goes: the client connects (auth hello), logs in with a session id, picks
a character, requests a game instance. The server finds or starts a game server,
draws a player token and tells the client, at once or when the game server has
announced itself (`ServerReady`). The client connects again (game hello) with the
token, and the socket is passed over the control connection
(`TransferConnection`). The game server makes a player of it. When the player
leaves, the game server says so (`PlayerLeft`), and the account may ask for
another instance.

### Components, their state and their operations

| Component | State | Operations | Hard part | Module |
|---|---|---|---|---|
| Authentication server (`AuthSrv.c`) | objects by token, accounts, games, events of the round, objects to remove | accept, handshake, log in, select, request a game, close, kill, flush, re-arm | batches of events over objects other events of the batch remove; an account held by two connections | `AuthSrv` |
| Server registry (`AuthSrvCtrl.c`) | `games`: control connection, district, ready, pending transfers | create, find, ServerReady, complete transfers | requests before the server is there; creation that fails | `AuthSrv` |
| Control connection (`CtrlConn.c`) | buffers, parsed messages, writable, connected | write, flush, read, lose | messages never cleared on one side; partial writes | `AuthSrv`, `GameSrv`, `GameServer` |
| Game server (`GameSrv.c`, `GmPlayer.c`) | connections (hash map in an array), players, messages of the round | transfer, read, kill, disconnect, confirm, flush, re-arm | two ways of losing a session in one round; pointers into the array | `GameSrv`; messages that end no session are one action there |
| Inventory (`GmInventory.c`, `GmItem.c`, `GmBag.c`), loading and creating characters (`GameSrv.c`) | bags, items | load, add cupcakes, equip, free, drop, save | an item in two places, in a bag after it was freed, or in none | `GmWorld` |
| Agents (`GmAgent.c`) | agents, what each client was shown of them | create, remove, show | who came before whom | `GmWorld` |
| Movement (`GmAgent.c`) | position, destination, direction, waypoints; time of the last tick | move, cancel, correct, tick | ticks in the middle of orders | `GmMovement` |
| Id tables (`GmIdTable.h`) | free list inside the elements | allocate, free | the ends of the list | `GmIdTable` |
| Path finder (`GmPaths.c`) | nodes, queue, path | search over trapezoids | nodes overwritten while they wait, a queue used again | `GmPaths`; geometry is left out |
| Path finder's queue (`GmPathHeap.c`) | array | push, pop | a last parent with one child | `PathHeap` |
| Parties (`GmParty.c`) | party per player | create, add | never freed | the count only, in `GameSrv` |
| Chat (`GmChat.c`) | none | broadcast, commands | none | the command "stuck", in `GmMovement` |
| Message packing (`msgpack.c`) | none | pack, unpack | generated tables | not modelled |
| Database (`Db.c`), archive, map import | files | queries, parsing | I/O | outcomes only |

`PROJECT.json` lists all components, the vendored and generated ones too.

### What makes each component correct

- *Authentication server.* A logged-in connection is the one the registry names
  (`Registered`); an account leaves a game server only by its word
  (`StaysOnServer`); no socket is forgotten (`NoLostWakeup`).
- *Server registry.* One server per district (`OneServerPerDistrict`); no request
  is lost while a server starts (`AssignedIsQueued`) or left over once it has
  (`NothingWaitsForReady`); a token is given out once (`GivenOutOnce`); a game
  server that announces itself is known, and its connection stays its own
  (`CtrlConnIsPeer`); a pending transfer is answered or dropped (`PendingAnswered`) and an
  account whose player left is released (`AccountReleased`).
- *Game server.* A connection and its player stay together (`SessionsAgree`), an id
  is used once (`IdsAreAccounted`), a client that hangs up is reported
  (`HangupReported`), and each session is reported once, in order (`IsGameServer`).
- *Both.* The authentication server uses game servers as `GameServer` allows
  (`ServersAreGameServers`), and the game server is one (`IsGameServer`).
- *Inventory.* Bags hold items that exist (`BagsReferToItems`), each in one place
  (`ItemInOnePlace`); what lies on the ground stays an item (`GroundIsItems`). A
  character is loaded as it was saved (`LoadedAsSaved`) and wears what was chosen
  last (`WearsWhatWasChosen`).
- *Agents.* Clients are shown what there is, and only players they were introduced
  to (`ViewsAgree`).
- *Movement.* An agent walks its path to the end (`ReachesItsGoal`), looks where it
  goes (`HeadsForItsDestination`), at its pace (`KeepsItsPace`), stops
  (`ComesToStand`), and the clients know (`ClientsAreTold`).
- *Id table.* It is a queue of free ids (`QueueSpec`, `GivesOutFreed`).
- *Path finder.* The nodes form a tree over trapezoids that were popped
  (`ParentsAreClosed`), the queue holds those of this search (`QueueInStep`); the
  result is a way (`PathIsWay`) or all was seen (`GivesUpAtTheEnd`), and it comes
  (`SearchEnds`). Its queue is a priority queue (`IsPriorityQueue`).

The places where this can go wrong and a test would hardly reach are listed in
`PROJECT.json` under "hazards", each at its line, with the properties about it or
the reason why there is none.

## The modules

| Module | What it is |
|---|---|
| `AuthSrv` | the authentication server, with clients, database and game servers as its environment |
| `GameSrv` | a game server, with clients and the authentication server as its environment |
| `GameServer` | abstract: one game server as the authentication server sees it |
| `GmWorld` | items, bags, and what clients are shown of agents, over `GmIdTable` |
| `GmIdTable` | the id table; `IdQueue` is the abstract queue it implements |
| `GmMovement` | how one agent walks, among the ticks of the world |
| `GmPaths` | the search of the path finder, over `PathHeap` |
| `PathHeap` | the heap; `PriorityQueue` is the abstract queue it implements |
| `AuthSrv_proofs`, `GameSrv_proofs`, `GmIdTable_proofs`, `GmWorld_proofs`, `GmMovement_proofs`, `PathHeap_proofs`, `GmPaths_proofs` | theorems and proofs about the module of that name |
| `SequenceLemmas` | what these proofs need of numbers and sequences: least elements, what a sequence holds, sequences that hold nothing twice |
| `MCAuthSrv`, `MCGmWorld`, `MCGmPaths` | what TLC needs in addition: symmetry, a saved character, a map |

`GmWorld` and `GmPaths` extend the modules of the data structures they use: the free
list and the heap are checked as their users drive them, and their refinements
(`QueueSpec`, `IsPriorityQueue`) are properties of those runs.

`GameServer` is where the two big modules meet. `AuthSrv` does not contain a game
server's loop: its actions `PlayerJoins`, `PlayerLeaves`, `PlayerTravels` and its
channels `to_game`, `to_auth` are steps of `GameServer`
(`ServersAreGameServers`, a check that what it assumes is no more than that
contract). `GameSrv` refines the same contract (`IsGameServer`), mapping the
players of its table, the transfers it has not handled and what it has written.

Definitions whose comment begins "A slip:" are not part of a specification. Each is
a mistake the code could have had (a dropped guard, an order swapped, a reset
forgotten) beside the definition it would change; `PROJECT.json` pairs them with the
properties, and each property fails when its slip takes the place of the definition.

### AuthSrv and the code

`AuthSrv_Update` is the cycle of `phase`: "poll" (`Poll`), "events" (one action
per event, `EventsDone`), "flush" (`FlushFailed`, then `UpdateDone`: removal and
re-arming). An auth event is `BeginAuthEvent`, then any handlers the client's
messages call for, then `EndAuthEvent` or `AuthEventFailed`; `current` is the token
whose event it is, and no other step of the thread comes between. A control event
is `BeginCtrlEvent`, the handlers of the messages *in order* from the first one
of the array, which is never cleared, then `EndCtrlEvent`. An object that
`KillAuthConnectionByToken` wiped has type "None". `halted` stands for `abort()`, a
failed assert and a NULL pointer.

Tokens are numbers in the order they are issued, server ids and player tokens
likewise (both are random in the code, so an id is fresh with overwhelming
probability). A message is a record of what its handler looks at. `pending_transfers`
is a set: the order of the array decides no state.

Whoever connects says by the first bytes what the connection is for
(`Connection_ReadVersion`), and every listener leads there. So a control connection may
be nobody's: a *stray*, with `peer` 0. With `"stray_ctrl"` in `Allowed` it sends any
message, any number of times, or bytes that make no sense and end the process
(`MakesNoSense`), and goes when it likes. The handlers do not look whose the
connection is, in the code or in the model: `HandleServerReady` looks up the
server that the message names, finds none (`halted`) or makes the connection that
server's. `MaxStray` bounds the strays and what one of them sends.

### GameSrv and the code

The phases are "poll", "events", "messages", "flush". Flags of an event are
`events[t]`, token 0 being the control connection. `connections` maps a token to
the player id in its `GameConnection`; `slots` is the array under the hash map,
kept because deleting moves its last element and `PeerDisconnected` reads the moved
one (`PlayerInSlot`). A message of a player has its `player_id`; `from` is kept in
addition, to say which one it should be. The party table appears as the number of
parties given out: it runs out with the join numbered `Size`, the 64th in the code.
Because of that, the id table of the players is never emptied first, and
`free_players` may be the abstract queue of `GmIdTable`.

### GmWorld and the code

`GmWorld` takes the rounds of `GameSrv` for granted: a handler runs to its end. One
that allocates or frees items is a list of item steps, `todo`, because the table
has to be looked at between them; `doing` is the player it runs for. Players are
named by the token of their connection, as `GameSrv` finds them. Of the bags there
are the backpack and the equipped items, two slots of each: one slot taken and one
free is what the searches for a slot tell apart. `Characters` is what the database has from the
start and `Created` what character creation can leave there; a confirmed character
is saved and, for the rest of the behaviour, is what its account plays next.
`GetDefaultEquipments` appears as the kinds it may return; `ChangeProfAborts` is the
campaign it has no table for, and `JoinAborts` the character that could not be read, whose
name a town is about to send. Saving stops at the first insert that fails (`Inserted`).
The branch of `LoadItem` for a stored item whose kind, profession or colour cannot be read
back (`GameSrv.c:1132-1139`) is left out: `GameSrv_CreatePlayerBags`, the only writer of these
rows, writes values of those types. `known` and `met` are what each client was told: an
agent, a player.

### GmMovement and the code

`round` is `GameSrv_Update`, which reads the clock once, so the second tick of a round
plays no time (`elapsed` is 0). The actions are the handlers of one player's orders,
the tick another player's order brings about, and the two ends of a round. A place
is an integer: a walk is straight between waypoints, and a line folded at the
waypoints has what a walk in the plane needs (distance, direction, corners,
overshooting). A path the finder returns has no point twice, but it may lead back to
where the agent was going. Where an agent is sent to the place it stands at, the
code divides 0 by 0: the direction is `NaN`, which no arithmetic brings back to a number and
which is in no distance of anything (`Heading`, `Forward`, `Within`). What clients send
and the path finder returns are numbers. `goal` and `course` are histories: where
the last path leads, and whether the agent was still walking it or one of the
things happened that the code lets happen: a corner left out ("cut"), a waypoint
passed ("passed"), a stop ("cancelled"), a correction by the client ("corrected").

### GmPaths and the code

One step is one node popped or one neighbour visited, with `todo` for the neighbours
that are left. `Neighbors` is the map in the order in which the code visits above,
below and the portals. The distances are computed from floating point geometry in
the code; here every visit takes any of `Lengths` and `Estimates`, so an estimate
may well be too high and differ from visit to visit, as it can in the code, where
the point of entry depends on where one comes from. `skipped` is a history: `MaxCost`
cut a branch. The search is started again and again with the nodes and the queue
of the last one.

## The runs

All bounds are constants: `MaxToken` (connections), `MaxServer`, `MaxReserved` (servers
a connection is kept for, so that the bound does not turn them away), `MaxPlayerToken`
(requests for a game), `MaxStray` (control connections that are no game server's, and
messages on one of them), `MaxMessages` (unread messages per client), `Size` and `MaxLive`
(ids, ids in use), `MaxAgents`, `MaxChanges` (professions chosen), `Furthest`, `MaxWaypoints`,
`MaxDelta` (time between rounds), `Capacity` (nodes of the heap). `Allowed` names the irregular behaviours of the environment in a run.

| Run | Bounds | Shows |
|---|---|---|
| `AuthSrvSessions` | 2 accounts, 3 connections, 1 server, 2 tokens; relogin | take-overs and losses in every order (2.0 million states) |
| `AuthSrvFailures` | 1 account without a character, 2 districts, 3 connections, 2 servers, 3 tokens; failing queries, servers that fail or exit, transfers, token reuse, 1 stray control connection | servers and what waits for them, replayed control messages, whose a control connection is, the contract (2.0 million states, districts up to symmetry) |
| `AuthSrvLiveness` | 1 account, 3 connections, 1 server, 1 token | the two liveness properties |
| `GameSrvFailures` | 2 accounts, 2 connections, 1 unread message, 4 ids, all irregularities | sessions, ids, the contract, and that a hang-up is reported (197,739 states) |
| `GmWorld` | 2 accounts, 2 connections, 3 agents, 2 professions chosen, 12 elements | items, bags, agents and the table of items (1,170,513 states) |
| `GmMovement` | 3 places, paths of 3 waypoints, up to 2 units of time per round, world tick after 2 | orders and ticks in every order (98,676 states) |
| `GmPaths` | 5 trapezoids, lengths 0 and 1, estimates 0 and 2, costs below 3 | one search after another, the heap as it uses it (178,966 states) |

Three connections are enough for an account to be held by one connection, taken
over by a second, with the control connection as the third; with two, a batch
could not hold the events of both clients. Two player tokens let one request wait
and another find the server ready; three let a token be drawn for a second
district in between. Which character is played matters to `AuthSrvSessions`, and to
none of the properties of `AuthSrvFailures`, whose account has none yet. The stray of
`AuthSrvFailures` sends one message, which is enough to name a server that is there, is
starting, or is not there, before or after the server announces itself; the one
message is handled again with every event. The other runs of `AuthSrv` have no strays: a
stray may say of any account that it left, and may keep a client's token from ever
reaching its server, so liveness and what a player expects hold only without. Two
sessions of the game server give an array slot that
moves. (A player id is never used again: the parties run out with the first round
of ids, in the code as in the model.)

In `GmWorld` two players, loading or creating characters, fill the table with six and
four items, so freed ids are given out again and the free list goes down to its
last elements; three agents are both players and one dropped item, or a player and
two. Three places with paths of three waypoints give a corner, a way back and a
tick that takes a corner with distance left; two units of time let a tick end
before, on and behind a waypoint one place away. The map of `GmPaths` has two
circles and a portal that is open one way, so nodes are overwritten while they
wait, popped when they are closed, and out of reach; the costs let `MaxCost` cut
what is behind two steps. The heap reaches five nodes there; the smallest heap that
goes wrong has seven (`PathHeapSeven`), so this is the range in which it is a
priority queue.

Deadlock is not checked where the model may stop: `halted`, a game server that
exits, and the bounds on tokens, messages and places. `GmPaths` cannot stop and is
checked for deadlock.

### What the code does and should not

Five runs state what the code, a comment or an assertion says, and TLC refutes it.

| Run | What it says | What happens |
|---|---|---|
| `AuthSrvTombstone` | `KnownObjects`: the `default: abort()` of `AuthSrv_ProcessEvent` is not reached | an account is taken over while its old connection has an event later in the batch: the server aborts |
| `AuthSrvReplay` | `PlayingIsKnown`: "Account expected to be connected" | an old `PlayerLeft` is handled again and takes the account off the server it came back to |
| `GameSrvKill` | `RightPlayer`: the player removed is that of the connection killed | invalid data followed by a hang-up: another client's player gets the disconnect |
| `GmWorldItems` | `GivesOutFreed`: `assert(header->freed)` | players who leave free none of their items; with all ids in use the next allocation fails the assert, the table does not grow |
| `PathHeapSeven` | `LowestFirst`: "we won't even pop the higher cost" | with seven nodes a pop breaks the heap |

`GmWorld` stays below the limit (`MaxLive`), so that its other properties are about a
table that works.

More was met while modelling and is modelled as it is, without a run of its own:

- a client may open a control connection, on the public port as on the internal one
  (`AuthSrv.c:122-134`, `1201`); a `ServerReady` on it that names a server which is not
  there ends the process (`AuthSrvCtrl.c:74-76`), one that names a server which is there
  makes it that server's connection, and a message of no known kind ends the process
  if it came with the hello (`AuthSrv.c:1216-1219`);
- an agent that is ordered to where it stands, and corrected or ticked on the spot,
  is nowhere: its place is no number, it stays so whatever the ticks do, and only its
  client can put it back, anywhere (`GmAgent.c:352-356`, `413-417`, `483`);
- every join takes a party id for ever, so the party table comes to the same end
  with the 64th join; `GameSrv` counts the parties and halts there;
- a query that fails during a log-in drops the account and leaves the connection
  logged in to it (`AuthSrv.c:655`); that is why `Registered` is checked without failing
  queries;
- `GmBag_TryAddToBag` puts the item where there already is one, which is then in no
  bag (`TryAddToBackpack`), and a dropped item stays in its bag (`HandleDropItem`);
- `CancelPlayerTransfer` is written with the size of another message
  (`AuthSrv.c:848`), a player transfer draws a token the registry never hears of
  (`AuthSrv.c:901`), a connection may be handed over on a control connection that was
  lost in the same round (`AuthSrv.c:1197`), and a transferred socket that cannot be
  registered is only logged (`GameSrv.c:1222`);
- a queued node of the search is overwritten whatever it cost (`PathAddNode`), so the
  way that is found need not be the shortest, and no property says so.

### Fairness

`AuthSrv!Fairness`: the loop runs (weak fairness of the thread); an event has
finitely many messages (`EndAuthEvent`); the kernel returns an armed socket that
stays ready, accepts come out of the backlog, and bytes written by a game server
arrive (strong fairness of `Poll` and the reads for one socket: a batch may leave
out any socket, but not for ever, since `epoll_wait` takes from a ready list in
turn). One subtlety is written down in `FirstEventToCome`. When `ServerReady`
arrives together with the hello, it is parsed at once and handled only with the
next event. That event comes because the fresh `CtrlConnection` forgot that its
socket is writable and waits for that too. Without this premise `PendingAnswered`
fails.

`GameSrv!Fairness`: the loop runs, and the kernel does not pass over a ready
socket; the control connection takes bytes again and again, because the
authentication server reads. `HangupReported` has one exception, `CtrlStuck`: a control
connection that blocked in a round in which it had no event is not registered for
writing.

`GmMovement!FairSpec`: a round that began ends, and among the rounds there are
again and again some in which the clock has moved on (strong fairness, since other
rounds come in between). `GmPaths!PathsSpec`: `PathFinding` is a loop that goes on once
it was called. In no module do clients, players or the other server owe anything.

## The proofs

Each theorem is about every value of the constants that satisfies the assumptions
named in the modules; hypotheses beyond those are in its statement, and there are
three of them:

- `MaxLive <= Size - 2` (`GmIdTable_proofs`, `GmWorld_proofs`): two ids of the item table
  stay free. That is the exact limit: `GmWorldItems` refutes `GivesOutFreed` beyond.
- `"db_error" \notin Allowed` (`ConnectionsAreRegistered`): no query fails, because one that
  does leaves a connection logged in to an account that was dropped
  (`AuthSrv.c:655`).
- `Capacity <= 6` (`LowestComesFirst`, `ImplementsPriorityQueue`): at most six nodes in
  the heap. The code has no such bound, and this is again the exact limit:
  `PathHeapSeven` refutes `LowestFirst` with seven. What is true of a search with any
  number of nodes, `SearchUsesPriorityQueue`, is proved without it.

The invariants a run checks are seldom inductive. Each proof module has the
conjunction that is, in parts that are named for what they say; the parts were
checked with TLC before they were proved. Most proofs go through a classification
of the actions: one lemma says which of a handful of changes each action is, and the
invariants are proved from the changes.

### `AuthSrv_proofs`

For every number of accounts, districts, connections, servers, tokens and every set
`Allowed`.

- `TypeCorrect`: `Spec => []TypeOK`. One step per action; control messages are
  sequences of `CtrlMsg`, so the lemmas about `SubSeq` and `\o` come first.
- `ReadyIsHandled`: on the connection of a game server, `HandleServerReady` finds the server
  that the message names, and it is the one at the other end. `PeerIsKnown`, a part of
  the invariant, says why: a server is registered before it is in the backlog, entries are never
  deleted, and what a game server writes names no other one (`NamesOnly`), through
  the channel, the message array and every replay. Nothing like it is assumed or shown of strays.
- `NothingWaits` and `TokensGivenOutOnce`: a token is in a pending transfer, or was
  given out, or was not drawn. `GivenOutOnce` alone is not inductive: a replayed
  `ServerReady` gives out what is pending, so it needs that pending tokens are
  ungiven, that they are pending on one server only, and that a ready server has
  none.
- `DistrictsAreDistinct`: a server is created only when none is compatible.
- `ConnectionsAreTheServers` (`CtrlConnIsPeer`): the connection a server is reached over is
  gone, or is its own or a stray's, and the announcement is among its messages. It needs that
  tokens grow, so that no later object takes the token of a lost connection, that
  nothing waits under token 0, and that a control connection keeps its type and messages.
- `RequestsStayQueued`: what an account was assigned is pending until ready.
- `LeavesByMessageOnly`: the action property `StaysOnServer`, from `TypeOK`.
- `WakeupsAreKept` (`NoLostWakeup`): within a round every object is armed, or has an event to
  come, or is to be armed at the end (`RoundInOrder`); what is closed or was wiped is
  in the list of objects to remove (`ClosedIsRemoved`). At "poll" the lists are empty.
- `ConnectionsAreRegistered` (`Registered`): `CurrentIsSole` is what is missing. While its event
  is handled a connection may be closed and already have lost its account to another
  one; in that time no other connection may hold it.
- `UsesGameServers` (`ServersAreGameServers`): for every server, each step maps to a step of
  `GameServer` or to a stutter. It rests on `PeerIsKnown`, `CtrlConnIsPeer` and `TokensIssued`: the
  server's entry is there before its first message, and what is read from its
  connection is what it wrote. Strays may be there: what they send is read from no
  game server, and a client that is handed over on a stray reaches none.

### `GameSrv_proofs`

For every number of accounts, connections, ids and every set `Allowed`. The inductive
invariant `IInv` is `TypeOK`, `SessionsAgree`, `IdsAreAccounted` and:

- `TransfersAreFresh`: a token that waits in a transfer, read or unread, waits once,
  and has neither connection nor player yet. Without it a transfer could overwrite the
  player of a connection.
- `CutIsClosed`: a connection whose flush failed is closed, so the player it leaves
  behind is one `SessionsAgree` allows.
- `RoundInOrder`: which lists are empty in which phase; every socket is armed or has
  its turn in this round (`LookedAfter`).
- `EndIsLast` and `AnnouncedFirst`: the end of the control connection is the last message,
  and nothing is written before `ServerReady`.

`GameServerTypeCorrect`, `ConnectionsAndPlayersAgree`, `NoIdIsLost` and `WakeupsAreKept`
follow. `RefinesGameServer` (`IsGameServer`) is the refinement: `SessionChange` says that a step
keeps all sessions, or reads transfers, or ends the connection, or hands over, flushes, ends
or begins one session, and each of these is one step of `GameServer` or a stutter.
`PlayersOf` is what `Playing` counts, so a session that ends changes one count by one
(`FS_RemoveElement`). Together with `UsesGameServers` this closes the gap between the two
big modules: what `AuthSrv` takes for granted, `GameSrv` keeps, for every instance.

### `GmIdTable_proofs`

- `TypeCorrect` and `TableNeverGrows`: the link of an element in the list is never
  0, because a freed element is given the old tail for a link and the tail points
  back. So `free_head` never becomes 0 (`NeverGrows`): the growing branch of
  `GmIdAllocate` is dead code.
- `FreedGivenOut`: `GivesOutFreed`. The list is described by a sequence of distinct
  free ids from `free_head` to `free_tail`, its length at least two.
- `ImplementsQueue`: that sequence is the queue of `IdQueue`. It is unique, since each of its
  elements is the link of the one before, so allocating takes its head and freeing
  appends.

### `GmWorld_proofs`

For every number of accounts, connections, agents, professions chosen and any set of
saved characters. It extends `GmIdTable_proofs`: whatever a handler does to the table is
`GmIdAllocate`, `GmIdFree` or nothing (`TableStep`). `WorldInv` is

- `ItemsInv`: the types and the queue; an element of the table has a kind exactly when
  it is not free (`KindsInv`); what a slot refers to has a kind (`CarriedInv`), except the slots
  whose item the running handler has freed and will take out of the bag (`Gone`); no
  id is in two slots (`OnePlaceInv`), nothing on the ground is worn (`GroundInv`); the steps
  that are left are in the order of their handler (`StepsInOrder`), and run for a player
  that is there (`HandlerInv`).
- `AgentsInv`: agents and players name each other, free agents are distinct and free.
- `ViewsAgree`, which is inductive with these.
- `Loading`: each slot that was saved is filled or its step is still to come. `Dressing`: the
  same for what was chosen.

`WorldTypeCorrect`, `CarriedItemsExist`, `ItemsAreInOnePlace`, `GroundItemsExist`,
`CharactersAreLoaded`, `ChosenIsWorn`, `ClientsAreTold`, `WorldGivesOutFreed` and
`WorldImplementsQueue` are all of the module's properties. `OnePlaceInv` needs that an
id that is given out is in no slot. That holds because ids in slots have a kind, and
only freed ones are given out: the properties about bags rest on the one about the
table. `NullAssumption` (`NULL` is no token, kind, bag, player or agent) is the only
assumption that was added.

### `GmMovement_proofs`

For every set of places, length of path and time between rounds and ticks: all safety
properties of the module (`TypeCorrect`, `PathIsFollowed`, `DestinationIsAhead`, `ClientsKnow`,
`PaceIsKept`). They are inductive together with two facts: between rounds less than a
world tick has passed, and the destination of a walking agent is a place. The tick is
one lemma, used by every order that begins with one. Places that are no number are
included: `PaceIsKept` says in which two ways an agent gets there, after a correction
while its direction is `NaN` or when it turns on the spot (`TurnsOnTheSpot`), and that
nothing but a correction brings it back.

### `PathHeap_proofs`

For any costs, and any number of nodes unless said otherwise.

- `HeapTypeCorrect` and `NothingIsLost`: the ways up and down are recursive functions, shown
  to be defined, and to be chains from child to parent, by least and greatest
  counterexamples. The slots before and after are matched by a bijection
  (`Rearranged`), so every node is there as often as it was.
- `LowestComesFirst` (`LowestFirst`, at most six nodes): `InOrder`, that no node costs less
  than its parent, is inductive. A push keeps the order of any number of nodes
  (`PushKeeps`), and so does the way down of a pop (`SunkKeeps`). What breaks it is the
  move that follows in the code, of the very last node into the hole, where the way
  left at the middle slot: `PopKeeps` shows that it does no harm up to six nodes.
- `ImplementsPriorityQueue` (`IsPriorityQueue`, at most six nodes): `PushImplements` and
  `PopImplements` turn the bijections into equations between bags.

### `GmPaths_proofs`

For every map, all lengths, estimates and any `MaxCost`: all safety properties of the
search. All but the last of these use of the heap only that a push adds and a pop takes
its node, so they hold whatever the order is. The inductive invariant `Inv` adds to the properties:

- `SourceFirst`: nothing but the source is found before the source was popped;
- `TodoIsNext` and `AllSeen`: the neighbours of a popped node are found or still to be
  visited, which with an empty queue gives `NothingIsLeft`;
- `Ranked`: the nodes can be numbered so that each parent comes before its children.
  Costs do not show this, because lengths may be 0; the numbers exist because a
  node is overwritten only while it is open, when nothing hangs on it. From the
  ranks it follows that the list along `next` has no circle, is no longer than there are
  trapezoids, and so ends at the source (`ListIsWay`, `PathsAreWays`).

`SearchUsesPriorityQueue` is about any number of nodes: each step pushes a node of the right
type, pops, empties the queue for the next search, or leaves it alone (`StepIsQueueStep`). A
search begins in order (`InOrder`); in order, each of these is a step of `PriorityQueue`;
and what loses the order can only be a pop from an odd number of nodes, seven or more
(`MayMisplace`, from `PopKeeps`), since only there the move of the very last node may end
under a dearer one. From then until the next search the order is not guaranteed, and
nothing is claimed of it.

`NodeAssumption` (a `PathFindNode` is not `NULL`) is the only assumption that was added.

### What is only model-checked

Liveness: `PendingAnswered`, `AccountReleased`, `HangupReported`, `ComesToStand` and `SearchEnds`.
They rest on fairness, and the prover does not reason about `ENABLED`. `IsPriorityQueue` of a search is
checked for the five nodes of `GmPaths`, and proved step by step as long as the heap is
in order. Every other property of a passing run is proved; the five that a run refutes are in
"What the code does and should not".

The other way round, `ReadyIsHandled`, `NeverGrows`, `TypeOK` of the heap and `Keeps`
(`NothingIsLost`) are proved and in no run. `LowestFirst` is in `PathHeapSeven` only, which refutes
it; on six nodes `IsPriorityQueue` is checked, which says more.

## Not modelled

- Geometry: where a trapezoid is entered, how far that is, whether a line is clear,
  and the funnel that makes waypoints of a list of trapezoids. It is arithmetic on
  floats. Rounding and overflow of places are left out with it; `NaN` is not.
- Of an agent: health, energy, rotation, load times, planes. A client that loads is
  not told where the agents are going, so `ClientsAreTold` is about those that were
  there.
- Bags other than the backpack and the equipped items, and dyeing, which has no effect.
- Attributes, titles, colours, the other chat messages: they are stored or copied
  and nothing depends on them.
- The SQL, message formats, encryption, the archive, the Windows layer, SIGINT,
  running out of memory, failing `epoll_ctl`, and the vendored code (SQLite,
  stb), which is nine tenths of the lines under `src/code/OpenTyria`.
- A game server asks for a player transfer only in `AuthSrvFailures`: the code that
  would ask has no caller. Deleting a character and every message that is only
  answered leave the modelled state alone.

## Plan

1. Done: `AuthSrv`, `GameServer`, `GameSrv`, `GmIdTable`, `PathHeap` with runs and
   slips; the proofs above.
2. Done: `GmWorld`, `GmMovement`, `GmPaths`.
3. Left: a composition of `AuthSrv` and `GameSrv` over one control connection, to drop
   the abstraction for one server. Both refine or use `GameServer`, so this adds the
   timing of the stream only.
4. Done: proofs of every invariant and action property the runs check, and of the
   refinements `IsGameServer`, `ServersAreGameServers`, `QueueSpec` and `IsPriorityQueue`.
5. Left to prove: the composition of 3 when it is there, and that the two contracts
   meet; safety lemmas towards the liveness properties, such as that a helpful step is
   never taken back.
