------------------------------- MODULE AuthSrv -------------------------------
(***************************************************************************)
(* The authentication server: one thread that runs AuthSrv_Update for      *)
(* ever.  A round polls a batch of socket events, dispatches them one by   *)
(* one, flushes the outgoing buffers, drops the objects that were closed   *)
(* and re-arms the sockets that had an event.  Handlers of one event are   *)
(* steps of their own here, so a client may have sent anything; nothing    *)
(* else of the server runs between them.                                   *)
(*                                                                         *)
(* The clients, the database and the game server threads are the           *)
(* environment; Allowed names the less regular things they may do.         *)
(*                                                                         *)
(* Clients and game servers come to the same kind of listener, and what a  *)
(* connection is for depends on its first bytes alone; so a control        *)
(* connection need not be that of a game server ("stray_ctrl").            *)
(***************************************************************************)
EXTENDS Integers, Sequences, FiniteSets

CONSTANTS
  Accounts,        \* account ids of the database
  Characters,      \* character ids of the database
  Districts,       \* map, region, language and type of a game instance
  MaxToken,        \* bound: connections accepted (UINTPTR_MAX in the code)
  MaxServer,       \* bound: game servers created
  MaxReserved,     \* bound: game servers a token is kept for until they connect
  MaxPlayerToken,  \* bound: player tokens drawn
  MaxStray,        \* bound: control connections of nobody's, and messages on one
  Allowed,         \* the irregular behaviours of the environment
  NULL

Irregular == {"db_error",       \* a query fails after the session was found
              "relogin",        \* a connection logs in more than once
              "start_failure",  \* GameSrv_Setup or GameSrv_Start fails
              "server_exit",    \* a control connection is lost
              "stray_ctrl",     \* a control connection is no game server's
              "token_reuse",    \* a client presents a player token twice
              "map_transfer"}   \* a game server asks for a player transfer

Token       == 1..MaxToken
ServerId    == 1..MaxServer
PlayerToken == 1..MaxPlayerToken

CtrlMsg ==
  [msg_id : {"ServerReady"}, server_id : ServerId, account_id : {NULL}, district : {NULL}]
    \cup [msg_id : {"PlayerLeft"}, server_id : {0}, account_id : Accounts,
          district : {NULL}]
    \cup [msg_id : {"StartPlayerTransfer"}, server_id : {0}, account_id : Accounts,
          district : Districts]

\* `open' is "source.socket # 0", `peer' the game server at the other end (0
\* where there is none), `closed' that the NULL message was queued.
IoObject ==
  [type       : {"None", "Connection", "AuthConnection", "CtrlConnection"},
   open       : BOOLEAN,
   peer       : 0..MaxServer,
   account_id : Accounts \cup {NULL},
   connected  : BOOLEAN,
   character  : Characters \cup {NULL},
   messages   : Seq(CtrlMsg),
   closed     : BOOLEAN]

GlobalAccountRegistry ==
  [char_id           : Characters \cup {NULL},
   current_server_id : 0..MaxServer,
   current_player_id : 0..MaxPlayerToken,
   auth_conn_token   : 0..MaxToken]

\* The order of a pending_transfers array decides no state, so it is a set.
AuthTransfer == [type         : {"Auth", "Game"},
                 conn_token   : Token,
                 player_token : PlayerToken]

GameSrvMetadata == [ctrl_conn         : 0..MaxToken,
                    district          : Districts,
                    ready             : BOOLEAN,
                    pending_transfers : SUBSET AuthTransfer]

TransferConnection == [account_id : Accounts, player_token : PlayerToken]

ASSUME BoundsAssumption == /\ MaxToken \in Nat
                           /\ MaxServer \in Nat
                           /\ MaxReserved \in Nat
                           /\ MaxPlayerToken \in Nat
                           /\ MaxStray \in Nat
ASSUME AllowedAssumption == Allowed \subseteq Irregular
ASSUME NullAssumption == /\ NULL \notin Accounts
                         /\ NULL \notin Characters
                         /\ NULL \notin Districts
                         /\ NULL \notin IoObject
                         /\ NULL \notin GlobalAccountRegistry
                         /\ NULL \notin GameSrvMetadata

VARIABLES
  last_token_issued,    \* AuthSrv.last_token_issued
  objects,              \* AuthSrv.objects, NULL where there is no entry
  accounts,             \* AuthSrv.accounts
  games,                \* AuthSrv.games
  objects_with_event,   \* AuthSrv.objects_with_event
  objects_to_remove,    \* AuthSrv.objects_to_remove
  phase,                \* where the thread is in AuthSrv_Update
  events,               \* events of the batch that are still to dispatch
  current,              \* token of the event being dispatched, or 0
  msg_idx,              \* next control message of that event
  last_player_token,    \* player tokens drawn so far
  halted,               \* the process hit abort(), an assert or a NULL pointer
  armed,                \* one-shot registrations of the kernel
  backlog,              \* game servers whose connection is not accepted yet
  to_auth,              \* bytes on the way from a game server
  to_game,              \* TransferConnection messages on their way
  playing,              \* number of players an account has on a game server
  sent,                 \* history: how often a player token was given out
  used                  \* history: player tokens presented by a client

counters     == <<last_token_issued, last_player_token>>
registries   == <<objects, accounts, games>>
batchVars    == <<objects_with_event, phase, events>>
dispatchVars == <<current, msg_idx>>
threadVars   == <<batchVars, objects_to_remove, dispatchVars>>
envVars      == <<backlog, to_auth, to_game, playing>>
historyVars  == <<sent, used>>
worldVars    == <<armed, envVars, historyVars>>
vars         == <<counters, registries, threadVars, halted, worldVars>>

Ready(s) == [msg_id |-> "ServerReady", server_id |-> s, account_id |-> NULL,
             district |-> NULL]

Request(id, a, d) == [msg_id |-> id, server_id |-> 0, account_id |-> a, district |-> d]

NoneObject ==
  [type |-> "None", open |-> FALSE, peer |-> 0, account_id |-> NULL,
   connected |-> FALSE, character |-> NULL, messages |-> <<>>, closed |-> FALSE]

NewConnection(s) == [NoneObject EXCEPT !.type = "Connection", !.open = TRUE, !.peer = s]

Init ==
  /\ last_token_issued = 0
  /\ objects = [t \in Token |-> NULL]
  /\ accounts = [a \in Accounts |-> NULL]
  /\ games = [s \in ServerId |-> NULL]
  /\ objects_with_event = {}
  /\ objects_to_remove = {}
  /\ phase = "poll"
  /\ events = {}
  /\ current = 0
  /\ msg_idx = 1
  /\ last_player_token = 0
  /\ halted = FALSE
  /\ armed = {}
  /\ backlog = {}
  /\ to_auth = [s \in ServerId |-> <<>>]
  /\ to_game = [s \in ServerId |-> <<>>]
  /\ playing = [s \in ServerId |-> [a \in Accounts |-> 0]]
  /\ sent = [p \in PlayerToken |-> 0]
  /\ used = {}

-----------------------------------------------------------------------------
(* The registries *)

GetObject(t) == IF t \in Token THEN objects[t] ELSE NULL

HasType(t, type) == GetObject(t) # NULL /\ GetObject(t).type = type

\* Slips this code could have had are kept next to what they would change; the
\* properties are checked to notice them.  Here: a playing account is forgotten.
MarkAccountAuthDisconnected_Forgets(accs, a) ==
  IF a = NULL THEN accs ELSE [accs EXCEPT ![a] = NULL]

\* The account half of a lookup that fails is a no-op in the code.
MarkAccountAuthDisconnected(accs, a) ==
  IF a = NULL THEN accs
  ELSE IF accs[a] = NULL THEN accs
  ELSE IF accs[a].current_server_id = 0 THEN [accs EXCEPT ![a] = NULL]
  ELSE [accs EXCEPT ![a] = [@ EXCEPT !.auth_conn_token = 0]]

\* A slip: the account is forgotten while somebody is logged in.
MarkAccountGameDisconnected_Forgets(accs, a) ==
  IF a = NULL THEN accs ELSE [accs EXCEPT ![a] = NULL]

\* A slip: -1 for no server.
MarkAccountGameDisconnected_MinusOne(accs, a) ==
  IF a = NULL THEN accs
  ELSE IF accs[a] = NULL THEN accs
  ELSE [accs EXCEPT ![a] = [@ EXCEPT !.current_server_id = -1]]

\* A slip: the account still counts as being on the server.
MarkAccountGameDisconnected_Stays(accs, a) ==
  IF a = NULL THEN accs
  ELSE IF accs[a] = NULL THEN accs
  ELSE [accs EXCEPT ![a] = [@ EXCEPT !.current_player_id = 0]]

MarkAccountGameDisconnected(accs, a) ==
  IF a = NULL THEN accs
  ELSE IF accs[a] = NULL THEN accs
  ELSE IF accs[a].auth_conn_token = 0 THEN [accs EXCEPT ![a] = NULL]
  ELSE [accs EXCEPT ![a] = [@ EXCEPT !.current_server_id = 0,
                                     !.current_player_id = 0]]

AddConnectedAccount(t) ==
  [char_id |-> NULL, current_server_id |-> 0, current_player_id |-> 0,
   auth_conn_token |-> t]

\* A slip: the first server is passed over.
FindCompatibleGameSrv_SkipsFirst(d) ==
  {s \in ServerId : s > 1 /\ games[s] # NULL /\ games[s].district = d}

\* District numbers do not tell servers apart: every server has number 1 and
\* requests come with 0 or with that number.  The code takes the first of these
\* servers; there is never a second one (OneServerPerDistrict).
FindCompatibleGameSrv(d) == {s \in ServerId : games[s] # NULL /\ games[s].district = d}

NewMetadata(d) == [ctrl_conn |-> 0, district |-> d, ready |-> FALSE,
                   pending_transfers |-> {}]

QueueTransfer(metadata, type, t, p) ==
  [metadata EXCEPT !.pending_transfers =
     @ \cup {[type |-> type, conn_token |-> t, player_token |-> p]}]

GiveOut(tokens) == [p \in PlayerToken |-> IF p \in tokens THEN sent[p] + 1 ELSE sent[p]]

\* AuthConnection_SendMessage drops what is sent to a closed socket.
Reaches(t, type) == HasType(t, type) /\ objects[t].open

\* A slip: nobody is told to remove the object.
CloseAuthConnection_KeepsObject(t) ==
  /\ objects' = [objects EXCEPT ![t] = [@ EXCEPT !.open = FALSE]]
  /\ accounts' = MarkAccountAuthDisconnected(accounts, objects[t].account_id)
  /\ UNCHANGED objects_to_remove

CloseAuthConnection(t) ==
  /\ objects' = [objects EXCEPT ![t] = [@ EXCEPT !.open = FALSE]]
  /\ objects_to_remove' = objects_to_remove \cup {t}
  /\ accounts' = MarkAccountAuthDisconnected(accounts, objects[t].account_id)

\* A slip: the server is started first, and registered when it is ready.
CreateServer_Late(s, metadata, started) ==
  /\ games[s] = NULL
  /\ backlog' = IF started THEN backlog \cup {s} ELSE backlog
  /\ UNCHANGED <<games, to_auth>>

\* The metadata is registered before the server is set up and started, and
\* stays registered when that fails.
CreateServer(s, metadata, started) ==
  /\ games[s] = NULL
  /\ \A r \in ServerId : r < s => games[r] # NULL
  /\ games' = [games EXCEPT ![s] = metadata]
  /\ backlog' = IF started THEN backlog \cup {s} ELSE backlog
  /\ to_auth' = IF started
                THEN [to_auth EXCEPT ![s] = <<Ready(s)>>]
                ELSE to_auth

Running(t) == ~halted /\ phase = "events" /\ current = t

-----------------------------------------------------------------------------
(* AuthSrv_Update *)

\* iocp_poll returns some of the armed sockets, each at most once, and the
\* one-shot registration of those is spent.
Poll ==
  /\ ~halted /\ phase = "poll"
  /\ phase' = "events"
  /\ \E batch \in SUBSET armed :
       /\ events' = batch
       /\ armed' = armed \ batch
  /\ UNCHANGED <<counters, registries, objects_with_event, objects_to_remove,
                 dispatchVars, halted, envVars, historyVars>>

TakeEvent(t) ==
  /\ Running(0) /\ t \in events
  /\ events' = events \ {t}
  /\ objects_with_event' = objects_with_event \cup {t}

\* The object of an event was killed by an earlier event of the batch.  (It is
\* never gone: entries are deleted by their own event or at the end.)
ProcessEventNone(t) ==
  /\ TakeEvent(t)
  /\ HasType(t, "None")
  /\ halted' = TRUE
  /\ UNCHANGED <<counters, registries, phase, objects_to_remove, dispatchVars,
                 worldVars>>

EventsDone ==
  /\ Running(0) /\ events = {}
  /\ phase' = "flush"
  /\ UNCHANGED <<counters, registries, objects_with_event, events,
                 objects_to_remove, dispatchVars, halted, worldVars>>

Rearmed(objs) == {t \in armed \cup objects_with_event : objs[t] # NULL}

\* Removes what was closed and re-arms the rest of the batch.
UpdateDone ==
  /\ ~halted /\ phase = "flush"
  /\ phase' = "poll"
  /\ objects' = [t \in Token |-> IF t \in objects_to_remove THEN NULL ELSE objects[t]]
  /\ objects_to_remove' = {}
  /\ objects_with_event' = {}
  /\ armed' = Rearmed(objects')
  /\ halted' = (\E t \in objects_with_event : objects'[t] # NULL /\ objects'[t].type = "None")
  /\ UNCHANGED <<counters, accounts, games, events, dispatchVars, envVars,
                 historyVars>>

-----------------------------------------------------------------------------
(* Listener and handshake *)

\* Bounded: the last tokens are kept for the game servers still to connect, of
\* the first MaxReserved.
ServersToCome == {s \in ServerId : s <= MaxReserved /\ (games[s] = NULL \/ s \in backlog)}

\* A slip: the token of an object that is gone is used again.
NextToken_Reuses ==
  CHOOSE t \in Token :
    objects[t] = NULL /\ \A u \in Token : objects[u] = NULL => t <= u

NextToken == last_token_issued + 1

\* The peer is a game server that waits in the backlog, or somebody else.
ProcessListenerEvent ==
  /\ Running(0)
  /\ last_token_issued < MaxToken
  /\ \E s \in {0} \cup backlog :
       /\ s = 0 => last_token_issued + Cardinality(ServersToCome) < MaxToken
       /\ objects' = [objects EXCEPT ![NextToken] = NewConnection(s)]
       /\ backlog' = backlog \ {s}
  /\ last_token_issued' = NextToken
  /\ armed' = armed \cup {NextToken}
  /\ UNCHANGED <<last_player_token, accounts, games, threadVars, halted, to_auth,
                 to_game, playing, historyVars>>

\* The hello or the seed is incomplete: ERR_WOULDBLOCK.
ProcessConnectionEvent(t) ==
  /\ TakeEvent(t)
  /\ HasType(t, "Connection")
  /\ UNCHANGED <<counters, registries, phase, objects_to_remove, dispatchVars,
                 halted, worldVars>>

\* Peer gone, bad header or failed key exchange.
ConnectionFailed(t) ==
  /\ TakeEvent(t)
  /\ HasType(t, "Connection")
  /\ objects[t].peer = 0
  /\ objects' = [objects EXCEPT ![t] = NULL]
  /\ UNCHANGED <<counters, accounts, games, phase, objects_to_remove,
                 dispatchVars, halted, worldVars>>

DoPostHandshakeAuth(t) ==
  /\ TakeEvent(t)
  /\ HasType(t, "Connection")
  /\ objects[t].peer = 0
  /\ objects' = [objects EXCEPT ![t] = [NoneObject EXCEPT !.type = "AuthConnection",
                                                          !.open = TRUE]]
  /\ UNCHANGED <<counters, accounts, games, phase, objects_to_remove,
                 dispatchVars, halted, worldVars>>

\* What the registry must hold for a game hello to be let through.
Admitted(a, c, s, p) ==
  /\ accounts[a].char_id = c
  /\ accounts[a].current_server_id = s
  /\ accounts[a].current_player_id = p
  /\ games[s] # NULL
  /\ HasType(games[s].ctrl_conn, "CtrlConnection")

\* A client presents a token it was given; the code reads the registry entry
\* of the account without checking that there is one.  What is written to a
\* control connection that was lost in this round, or is nobody's, goes nowhere.
DoPostHandshakeGame(t, a, c, s, p) ==
  /\ TakeEvent(t)
  /\ HasType(t, "Connection")
  /\ objects[t].peer = 0
  /\ sent[p] > 0
  /\ p \notin used \/ "token_reuse" \in Allowed
  /\ used' = IF "token_reuse" \in Allowed THEN used ELSE used \cup {p}
  /\ IF accounts[a] = NULL
     THEN /\ halted' = TRUE
          /\ UNCHANGED <<objects, to_game>>
     ELSE /\ objects' = [objects EXCEPT ![t] = NULL]
          /\ LET ctrl_conn == objects[games[s].ctrl_conn] IN
               to_game' = IF Admitted(a, c, s, p) /\ ctrl_conn.open /\ ctrl_conn.peer # 0
                          THEN [to_game EXCEPT ![ctrl_conn.peer] =
                                 Append(@, [account_id |-> a, player_token |-> p])]
                          ELSE to_game
          /\ UNCHANGED halted
  /\ UNCHANGED <<counters, accounts, games, phase, objects_to_remove,
                 dispatchVars, armed, backlog, to_auth, playing, sent>>

\* What may have arrived from game server s; from nobody's (0), any message may.
Arrived(s) == IF s = 0 THEN {<<>>} \cup {<<msg>> : msg \in CtrlMsg}
              ELSE {SubSeq(to_auth[s], 1, n) : n \in 0..Len(to_auth[s])}

Read(s, received) ==
  to_auth' = IF s = 0 THEN to_auth
             ELSE [to_auth EXCEPT ![s] = SubSeq(@, Len(received) + 1, Len(@))]

\* What is read may make no sense, unless a game server wrote it; the process is
\* ended over some of that.
MakesNoSense(s) == s = 0 /\ halted' = TRUE /\ UNCHANGED <<objects, to_auth>>

Strays == {t \in Token : HasType(t, "CtrlConnection") /\ objects[t].peer = 0}

\* Bytes that follow the hello are parsed now and handled at the next event.
DoPostHandshakeCtrl(t) ==
  /\ TakeEvent(t)
  /\ HasType(t, "Connection")
  /\ LET s == objects[t].peer IN
       /\ s = 0 => "stray_ctrl" \in Allowed /\ Cardinality(Strays) < MaxStray
       /\ \/ MakesNoSense(s)
          \/ \E received \in Arrived(s) :
               /\ s = 0 => Len(received) <= MaxStray
               /\ objects' = [objects EXCEPT ![t] =
                    [NewConnection(s) EXCEPT !.type = "CtrlConnection", !.messages = received]]
               /\ Read(s, received)
               /\ UNCHANGED halted
  /\ UNCHANGED <<counters, accounts, games, phase, objects_to_remove,
                 dispatchVars, armed, backlog, to_game, playing, historyVars>>

-----------------------------------------------------------------------------
(* Auth connections *)

\* The read loop of the event; it may find the peer gone or garbage, and what
\* was received before that is still handled.
BeginAuthEvent(t) ==
  /\ TakeEvent(t)
  /\ HasType(t, "AuthConnection")
  /\ current' = t
  /\ UNCHANGED <<counters, games, phase, msg_idx, halted, worldVars>>
  /\ \/ UNCHANGED <<objects, accounts, objects_to_remove>>
     \/ CloseAuthConnection(t)

\* A handler failed, the client said goodbye, or a message made no sense.
AuthEventFailed(t) ==
  /\ Running(t) /\ HasType(t, "AuthConnection")
  /\ CloseAuthConnection(t)
  /\ current' = 0
  /\ UNCHANGED <<counters, games, batchVars, msg_idx, halted, worldVars>>

\* No more messages.  A connection that killed itself has none left.
EndAuthEvent(t) ==
  /\ Running(t) /\ (HasType(t, "AuthConnection") \/ HasType(t, "None"))
  /\ current' = 0
  /\ UNCHANGED <<counters, registries, batchVars, objects_to_remove, msg_idx,
                 halted, worldVars>>

\* Logging in takes the account over from the connection that holds it.  If
\* that is this very connection its object is wiped under the handler, which
\* then writes into the wiped object.  Killing a tombstone aborts.
HandlePortalAccountLogin(t, a, c) ==
  LET old    == IF accounts[a] = NULL THEN 0 ELSE accounts[a].auth_conn_token
      kills  == HasType(old, "AuthConnection")
      self   == old = t
      token  == IF self THEN 0 ELSE t
      entry  == IF accounts[a] = NULL THEN AddConnectedAccount(token)
                ELSE [accounts[a] EXCEPT !.auth_conn_token = token]
      wiped  == [NoneObject EXCEPT !.account_id = a, !.connected = TRUE, !.character = c]
      login  == [objects[t] EXCEPT !.account_id = a, !.connected = TRUE, !.character = c]
  IN
  /\ Running(t) /\ HasType(t, "AuthConnection")
  /\ ~objects[t].connected \/ "relogin" \in Allowed
  /\ IF HasType(old, "None")
     THEN /\ halted' = TRUE
          /\ UNCHANGED <<objects, accounts, objects_to_remove>>
     ELSE /\ objects' = [o \in Token |-> CASE o = t -> (IF self THEN wiped ELSE login)
                                           [] kills /\ o = old /\ o # t -> NoneObject
                                           [] OTHER -> objects[o]]
          /\ objects_to_remove' = objects_to_remove \cup (IF kills THEN {old} ELSE {})
          /\ \/ accounts' = [accounts EXCEPT ![a] = entry]
             \/ /\ "db_error" \in Allowed
                /\ accounts' = MarkAccountAuthDisconnected([accounts EXCEPT ![a] = entry], a)
          /\ UNCHANGED halted
  /\ UNCHANGED <<counters, games, batchVars, dispatchVars, worldVars>>

\* Without the list of characters none is selected.
HandleChangePlayCharacter(t, c) ==
  /\ Running(t) /\ HasType(t, "AuthConnection")
  /\ objects[t].connected
  /\ c # NULL \/ "db_error" \in Allowed
  /\ objects' = [objects EXCEPT ![t] = [@ EXCEPT !.character = c]]
  /\ UNCHANGED <<counters, accounts, games, threadVars, halted, worldVars>>

\* What HandleRequestGameInstance demands of the connection and the registry.
MayRequestGame(t) ==
  /\ Running(t) /\ HasType(t, "AuthConnection")
  /\ objects[t].connected
  /\ objects[t].account_id # NULL
  /\ accounts[objects[t].account_id] # NULL
  /\ accounts[objects[t].account_id].current_server_id = 0

Assign(a, c, s, p) ==
  accounts' = [accounts EXCEPT ![a] = [@ EXCEPT !.char_id = c,
                                                !.current_server_id = s,
                                                !.current_player_id = p]]

DrawPlayerToken ==
  /\ last_player_token < MaxPlayerToken
  /\ last_player_token' = last_player_token + 1

\* There is a server for the district: the client is told, or has to wait
\* until that server has announced itself.
HandleRequestGameInstance(t, d, s) ==
  /\ MayRequestGame(t)
  /\ s \in FindCompatibleGameSrv(d)
  /\ DrawPlayerToken
  /\ Assign(objects[t].account_id, objects[t].character, s, last_player_token')
  /\ IF games[s].ctrl_conn = 0
     THEN /\ games' = [games EXCEPT ![s] = QueueTransfer(@, "Auth", t, last_player_token')]
          /\ UNCHANGED sent
     ELSE /\ sent' = GiveOut(IF objects[t].open THEN {last_player_token'} ELSE {})
          /\ UNCHANGED games
  /\ UNCHANGED <<last_token_issued, objects, threadVars, halted, armed, envVars,
                 used>>

\* There is none, and one is started.
RequestCreatesServer(t, d, s) ==
  /\ MayRequestGame(t)
  /\ FindCompatibleGameSrv(d) = {}
  /\ DrawPlayerToken
  /\ Assign(objects[t].account_id, objects[t].character, s, last_player_token')
  /\ CreateServer(s, QueueTransfer(NewMetadata(d), "Auth", t, last_player_token'), TRUE)
  /\ UNCHANGED <<last_token_issued, objects, threadVars, halted, armed, to_game,
                 playing, historyVars>>

\* There is none, and it cannot be started: the client gets an error.
RequestCreationFails(t, d, s) ==
  /\ "start_failure" \in Allowed
  /\ MayRequestGame(t)
  /\ FindCompatibleGameSrv(d) = {}
  /\ accounts' = [accounts EXCEPT ![objects[t].account_id] =
                    [@ EXCEPT !.char_id = objects[t].character]]
  /\ CreateServer(s, NewMetadata(d), FALSE)
  /\ UNCHANGED <<counters, objects, threadVars, halted, armed, to_game, playing,
                 historyVars>>

-----------------------------------------------------------------------------
(* Control connections *)

\* A slip: the messages are cleared before they are read into, not after they
\* are handled, so those that came with the hello are lost.
Receive_Clears(conn, received, lost) ==
  [conn EXCEPT !.messages = received,
               !.open = @ /\ ~lost,
               !.closed = @ \/ lost]

Receive(conn, received, lost) ==
  [conn EXCEPT !.messages = @ \o received,
               !.open = @ /\ ~lost,
               !.closed = @ \/ lost]

\* Reads what has arrived.  The messages of earlier events are still in the
\* array: nothing ever clears it, so the loop below starts over with them.
BeginCtrlEvent(t) ==
  /\ TakeEvent(t)
  /\ HasType(t, "CtrlConnection")
  /\ current' = t
  /\ msg_idx' = 1
  /\ LET s == objects[t].peer IN
       \/ MakesNoSense(s)
       \/ \E received \in Arrived(s), lost \in BOOLEAN :
            /\ lost => s = 0 \/ "server_exit" \in Allowed
            /\ s = 0 => Len(objects[t].messages) + Len(received) <= MaxStray
            /\ objects' = [objects EXCEPT ![t] = Receive(@, received, lost)]
            /\ Read(s, received)
            /\ UNCHANGED halted
  /\ UNCHANGED <<counters, accounts, games, phase, objects_to_remove, armed,
                 backlog, to_game, playing, historyVars>>

\* The NULL message of a lost connection is the last one.
EndCtrlEvent(t) ==
  /\ Running(t) /\ HasType(t, "CtrlConnection")
  /\ msg_idx > Len(objects[t].messages)
  /\ objects_to_remove' = objects_to_remove \cup (IF objects[t].closed THEN {t} ELSE {})
  /\ current' = 0
  /\ UNCHANGED <<counters, registries, batchVars, msg_idx, halted, worldVars>>

Handles(t, id) ==
  /\ Running(t) /\ HasType(t, "CtrlConnection")
  /\ msg_idx <= Len(objects[t].messages)
  /\ objects[t].messages[msg_idx].msg_id = id
  /\ msg_idx' = msg_idx + 1

Completed(transfer) ==
  \/ transfer.type = "Auth" /\ Reaches(transfer.conn_token, "AuthConnection")
  \/ transfer.type = "Game" /\ Reaches(transfer.conn_token, "CtrlConnection")

\* A slip: the pending transfers stay.
MarkReady_Keeps(metadata, t) == [metadata EXCEPT !.ctrl_conn = t, !.ready = TRUE]

MarkReady(metadata, t) == [metadata EXCEPT !.ctrl_conn = t, !.ready = TRUE,
                                           !.pending_transfers = {}]

\* The server is the one that the message names, whose connection that may be,
\* and there may be none.  A pending transfer whose connection is gone is dropped.
HandleServerReady(t) ==
  LET s       == objects[t].messages[msg_idx].server_id
      pending == games[s].pending_transfers
  IN
  /\ Handles(t, "ServerReady")
  /\ IF games[s] = NULL
     THEN /\ halted' = TRUE
          /\ UNCHANGED <<games, sent>>
     ELSE /\ games' = [games EXCEPT ![s] = MarkReady(@, t)]
          /\ sent' = GiveOut({x.player_token : x \in {y \in pending : Completed(y)}})
          /\ UNCHANGED halted
  /\ UNCHANGED <<counters, objects, accounts, batchVars, objects_to_remove,
                 current, armed, envVars, used>>

HandlePlayerLeft(t) ==
  /\ Handles(t, "PlayerLeft")
  /\ accounts' = MarkAccountGameDisconnected(accounts,
                                             objects[t].messages[msg_idx].account_id)
  /\ UNCHANGED <<counters, objects, games, batchVars, objects_to_remove, current,
                 halted, worldVars>>

\* The registry is not told about the new server or the new token.
HandlerStartPlayerTransfer(t, s) ==
  LET msg == objects[t].messages[msg_idx] IN
  /\ Handles(t, "StartPlayerTransfer")
  /\ accounts[msg.account_id] # NULL
  /\ s \in FindCompatibleGameSrv(msg.district)
  /\ DrawPlayerToken
  /\ IF games[s].ctrl_conn = 0
     THEN /\ games' = [games EXCEPT ![s] = QueueTransfer(@, "Game", t, last_player_token')]
          /\ UNCHANGED sent
     ELSE /\ sent' = GiveOut(IF objects[t].open THEN {last_player_token'} ELSE {})
          /\ UNCHANGED games
  /\ UNCHANGED <<last_token_issued, objects, accounts, batchVars,
                 objects_to_remove, current, halted, armed, envVars, used>>

TransferCreatesServer(t, s) ==
  LET msg == objects[t].messages[msg_idx] IN
  /\ Handles(t, "StartPlayerTransfer")
  /\ accounts[msg.account_id] # NULL
  /\ FindCompatibleGameSrv(msg.district) = {}
  /\ DrawPlayerToken
  /\ CreateServer(s, QueueTransfer(NewMetadata(msg.district), "Game", t, last_player_token'),
                  TRUE)
  /\ UNCHANGED <<last_token_issued, objects, accounts, batchVars,
                 objects_to_remove, current, halted, armed, to_game, playing,
                 historyVars>>

\* The game server is to be told that there is no transfer, because the account
\* is unknown or no server can be started.  SendCancelPlayerTransfer passes the
\* size of another message, which CtrlConn_WriteMessage asserts against.
CancelPlayerTransfer(t) ==
  LET msg == objects[t].messages[msg_idx] IN
  /\ Handles(t, "StartPlayerTransfer")
  /\ halted' = TRUE
  /\ \/ /\ accounts[msg.account_id] = NULL
        /\ UNCHANGED <<games, backlog, to_auth>>
     \/ /\ "start_failure" \in Allowed
        /\ accounts[msg.account_id] # NULL
        /\ FindCompatibleGameSrv(msg.district) = {}
        /\ \E s \in ServerId : CreateServer(s, NewMetadata(msg.district), FALSE)
  /\ UNCHANGED <<counters, objects, accounts, batchVars, objects_to_remove,
                 current, armed, to_game, playing, historyVars>>

-----------------------------------------------------------------------------
(* The end of a round: a flush fails *)

FlushFailed(t) ==
  /\ ~halted /\ phase = "flush"
  /\ Reaches(t, "AuthConnection")
  /\ CloseAuthConnection(t)
  /\ UNCHANGED <<counters, games, batchVars, dispatchVars, halted, worldVars>>

-----------------------------------------------------------------------------
(* Game servers, as the authentication server sees them *)

PlayerJoins(s) ==
  /\ ~halted /\ to_game[s] # <<>>
  /\ playing' = [playing EXCEPT ![s][Head(to_game[s]).account_id] = @ + 1]
  /\ to_game' = [to_game EXCEPT ![s] = Tail(@)]
  /\ UNCHANGED <<counters, registries, threadVars, halted, armed, backlog,
                 to_auth, historyVars>>

\* A slip: the message is sent, but the player stays.
PlayerLeaves_Stays(s, a) ==
  /\ ~halted /\ playing[s][a] > 0
  /\ to_auth[s] = <<>>
  /\ to_auth' = [to_auth EXCEPT ![s] = Append(@, Request("PlayerLeft", a, NULL))]
  /\ UNCHANGED <<counters, registries, threadVars, halted, armed, backlog,
                 to_game, playing, historyVars>>

PlayerLeaves(s, a) ==
  /\ ~halted /\ playing[s][a] > 0
  /\ playing' = [playing EXCEPT ![s][a] = @ - 1]
  /\ to_auth' = [to_auth EXCEPT ![s] = Append(@, Request("PlayerLeft", a, NULL))]
  /\ UNCHANGED <<counters, registries, threadVars, halted, armed, backlog,
                 to_game, historyVars>>

PlayerTravels(s, a, d) ==
  /\ "map_transfer" \in Allowed
  /\ ~halted /\ playing[s][a] > 0 /\ to_auth[s] = <<>>
  /\ last_player_token < MaxPlayerToken
  /\ to_auth' = [to_auth EXCEPT ![s] = Append(@, Request("StartPlayerTransfer", a, d))]
  /\ UNCHANGED <<counters, registries, threadVars, halted, armed, backlog,
                 to_game, playing, historyVars>>

-----------------------------------------------------------------------------
Connection ==
  \/ ProcessListenerEvent
  \/ \E t \in Token :
       \/ ProcessConnectionEvent(t)
       \/ ConnectionFailed(t)
       \/ DoPostHandshakeAuth(t)
       \/ DoPostHandshakeCtrl(t)
       \/ \E a \in Accounts, c \in Characters \cup {NULL}, s \in ServerId, p \in PlayerToken :
            DoPostHandshakeGame(t, a, c, s, p)

AuthEvent(t) ==
  \/ BeginAuthEvent(t)
  \/ AuthEventFailed(t)
  \/ EndAuthEvent(t)
  \/ \E a \in Accounts, c \in Characters \cup {NULL} : HandlePortalAccountLogin(t, a, c)
  \/ \E c \in Characters \cup {NULL} : HandleChangePlayCharacter(t, c)
  \/ \E d \in Districts, s \in ServerId :
       \/ HandleRequestGameInstance(t, d, s)
       \/ RequestCreatesServer(t, d, s)
       \/ RequestCreationFails(t, d, s)

CtrlEvent(t) ==
  \/ BeginCtrlEvent(t)
  \/ EndCtrlEvent(t)
  \/ HandleServerReady(t)
  \/ HandlePlayerLeft(t)
  \/ CancelPlayerTransfer(t)
  \/ \E s \in ServerId : \/ HandlerStartPlayerTransfer(t, s)
                         \/ TransferCreatesServer(t, s)

Thread ==
  \/ Poll
  \/ EventsDone
  \/ UpdateDone
  \/ Connection
  \/ \E t \in Token : \/ ProcessEventNone(t)
                      \/ AuthEvent(t)
                      \/ CtrlEvent(t)
                      \/ FlushFailed(t)

GameServers ==
  \E s \in ServerId :
    \/ PlayerJoins(s)
    \/ \E a \in Accounts : \/ PlayerLeaves(s, a)
                           \/ \E d \in Districts : PlayerTravels(s, a, d)

Next == Thread \/ GameServers

Spec == Init /\ [][Next]_vars

\* The thread runs; the messages of an event are finitely many; the kernel
\* returns an armed socket that stays readable, and what a game server wrote
\* arrives.  Clients and players owe nothing.
ConnectionOf(s, t) == GetObject(t) # NULL /\ objects[t].peer = s

\* A fresh CtrlConnection does not take over that the socket is writable.  So
\* AuthSrv_Update waits for that too, and it has an event even when all that
\* the server wrote was received with the hello.
FirstEventToCome(s) ==
  /\ \E t \in Token : ConnectionOf(s, t) /\ HasType(t, "CtrlConnection")
  /\ ~games[s].ready

Fairness ==
  /\ WF_vars(Thread)
  /\ WF_vars(\E t \in Token : EndAuthEvent(t))
  /\ \A s \in ServerId :
       /\ SF_vars(ProcessListenerEvent /\ s \in backlog \ backlog')
       /\ SF_vars(/\ to_auth[s] # <<>> \/ FirstEventToCome(s)
                  /\ Poll
                  /\ \E t \in events' : ConnectionOf(s, t))
       /\ SF_vars(\E t \in Token : ConnectionOf(s, t) /\ DoPostHandshakeCtrl(t))
       /\ SF_vars(\E t \in Token : /\ ConnectionOf(s, t)
                                   /\ BeginCtrlEvent(t)
                                   /\ to_auth[s] = <<>> \/ to_auth' # to_auth)

FairSpec == Spec /\ Fairness

-----------------------------------------------------------------------------
(* Properties *)

TypeOK ==
  /\ last_token_issued \in 0..MaxToken
  /\ objects \in [Token -> IoObject \cup {NULL}]
  /\ accounts \in [Accounts -> GlobalAccountRegistry \cup {NULL}]
  /\ games \in [ServerId -> GameSrvMetadata \cup {NULL}]
  /\ objects_with_event \subseteq Token
  /\ objects_to_remove \subseteq Token
  /\ phase \in {"poll", "events", "flush"}
  /\ events \subseteq Token
  /\ current \in 0..MaxToken
  /\ msg_idx \in Nat \ {0}
  /\ last_player_token \in 0..MaxPlayerToken
  /\ halted \in BOOLEAN
  /\ armed \subseteq Token
  /\ backlog \subseteq ServerId
  /\ to_auth \in [ServerId -> Seq(CtrlMsg)]
  /\ to_game \in [ServerId -> Seq(TransferConnection)]
  /\ playing \in [ServerId -> [Accounts -> Nat]]
  /\ sent \in [PlayerToken -> Nat]
  /\ used \subseteq PlayerToken

\* Every logged-in connection that is still open is the one the registry holds
\* for its account; so an account never has two of them, whichever of them
\* logged in, closed, was killed or failed to flush in between.
Registered ==
  \A t \in Token :
    Reaches(t, "AuthConnection") /\ objects[t].connected =>
      /\ accounts[objects[t].account_id] # NULL
      /\ accounts[objects[t].account_id].auth_conn_token = t

\* An account that was sent to a server which has not announced itself still
\* has its transfer queued there: no request is lost between the request and
\* the ServerReady message, whatever happens to the client in between.
AssignedIsQueued ==
  \A a \in Accounts :
    accounts[a] # NULL /\ accounts[a].current_server_id # 0 =>
      LET metadata == games[accounts[a].current_server_id] IN
        /\ metadata # NULL
        /\ metadata.ctrl_conn = 0 =>
             \E x \in metadata.pending_transfers :
               x.player_token = accounts[a].current_player_id

\* A player token is given out at most once, however often the control
\* messages of the server it is for are handled again.
GivenOutOnce == \A p \in PlayerToken : sent[p] <= 1

\* Nothing waits for a server that has announced itself.
NothingWaitsForReady ==
  \A s \in ServerId :
    games[s] # NULL /\ games[s].ready => games[s].pending_transfers = {}

\* When the thread polls, every object it keeps has an open, armed socket:
\* one that is not armed would never be heard of again.
NoLostWakeup ==
  phase = "poll" =>
    \A t \in Token : objects[t] # NULL =>
      objects[t].type # "None" /\ objects[t].open /\ t \in armed

\* Requests for the same district meet on the same server.
OneServerPerDistrict ==
  \A r, s \in ServerId :
    r # s /\ games[r] # NULL /\ games[s] # NULL => games[r].district # games[s].district

\* An account leaves its game server only while a PlayerLeft message for it is
\* handled; in particular losing the auth connection or logging in again does
\* not make the registry forget where the account is playing.
LeftByMessage(a) ==
  /\ current # 0
  /\ HasType(current, "CtrlConnection")
  /\ msg_idx <= Len(objects[current].messages)
  /\ objects[current].messages[msg_idx] = Request("PlayerLeft", a, NULL)

StaysOnServer ==
  [][\A a \in Accounts :
       accounts[a] # NULL /\ accounts[a].current_server_id # 0 =>
         \/ /\ accounts'[a] # NULL
            /\ accounts'[a].current_server_id = accounts[a].current_server_id
         \/ LeftByMessage(a)]_vars

\* What a game server announces on its connection is itself, and it is in the
\* registry from before it connects: AuthSrvCtrl_HandleServerReady, which does
\* not look whether it is, fails on the message of somebody else only.
AnnouncesItself ==
  /\ \A s \in backlog : games[s] # NULL
  /\ \A t \in Token :
       objects[t] # NULL /\ objects[t].peer # 0 =>
         /\ games[objects[t].peer] # NULL
         /\ \A i \in DOMAIN objects[t].messages :
              objects[t].messages[i].server_id \in {0, objects[t].peer}

\* A server is reached over a connection on which it was announced, and as long
\* as that is kept it is the server's own or nobody's: no later object takes
\* its token, and no other server's messages move it.
ReachedWhereAnnounced ==
  \A s \in ServerId :
    games[s] # NULL /\ games[s].ctrl_conn # 0 =>
      \/ GetObject(games[s].ctrl_conn) = NULL
      \/ /\ HasType(games[s].ctrl_conn, "CtrlConnection")
         /\ objects[games[s].ctrl_conn].peer \in {0, s}
         /\ \E i \in DOMAIN objects[games[s].ctrl_conn].messages :
              objects[games[s].ctrl_conn].messages[i] = Ready(s)

CtrlConnIsPeer == AnnouncesItself /\ ReachedWhereAnnounced

TransferPending(s) == games[s] # NULL /\ games[s].pending_transfers # {}

\* A pending transfer is answered or dropped: the server it waits for is heard
\* of, whatever the clients do meanwhile.
PendingAnswered ==
  \A s \in ServerId : TransferPending(s) ~> ~TransferPending(s) \/ halted

\* An account whose player left its game server may be sent to one again.
AccountReleased ==
  \A s \in ServerId, a \in Accounts :
    (\E i \in 1..Len(to_auth[s]) : to_auth[s][i] = Request("PlayerLeft", a, NULL))
      ~> \/ accounts[a] = NULL
         \/ accounts[a].current_server_id = 0
         \/ halted

\* Each game server is used as a GameServer: nothing is read from it that it
\* did not write, and nothing is handed to it before it announced itself.
TheServer(s) ==
  INSTANCE GameServer WITH
    to_game <- [i \in DOMAIN to_game[s] |-> to_game[s][i].account_id],
    playing <- playing[s],
    to_auth <- [i \in DOMAIN to_auth[s] |->
                  [msg_id     |-> to_auth[s][i].msg_id,
                   account_id |-> to_auth[s][i].account_id]]

ServersAreGameServers ==
  /\ \A s \in ServerId : TheServer(s)!Init
  /\ [][\A s \in ServerId : [TheServer(s)!Next]_(TheServer(s)!serverVars)]_vars

-----------------------------------------------------------------------------
(* What the code expects and the model refutes *)

\* AuthSrv_ProcessEvent takes the kind of the object it gets an event for to be
\* one it knows, and aborts otherwise.
KnownObjects == phase = "events" => \A t \in events : ~HasType(t, "None")

\* AuthSrvCtrl_HandlerStartPlayerTransfer: "Account expected to be connected"
\* while it has a player on a game server.
PlayingIsKnown ==
  \A s \in ServerId, a \in Accounts : playing[s][a] > 0 => accounts[a] # NULL
=============================================================================
