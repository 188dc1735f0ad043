------------------------------- MODULE GameSrv -------------------------------
(***************************************************************************)
(* A game server: the thread that runs GameSrv_Update until the control    *)
(* connection to the authentication server is lost.  A round polls a batch *)
(* of socket events, reads from the sockets of the batch, handles the      *)
(* messages the players sent, flushes what is to be sent and re-arms the   *)
(* sockets of the batch.  Handling one event, or one message of a player,  *)
(* is one step; so is one message of the control connection.               *)
(*                                                                         *)
(* Of a player the model keeps who it is and which connection it has; of   *)
(* the messages of a client, whether they end the session.                 *)
(***************************************************************************)
EXTENDS Integers, Sequences, FiniteSets

CONSTANTS
  MaxAccount,   \* bound: account ids of the database
  MaxToken,     \* bound: connections handed to this server
  MaxMessages,  \* bound: messages of a client that wait to be read
  Size,         \* elements of a GmIdTable (64 in the code)
  Allowed,      \* the irregular behaviours of the environment
  NULL

Irregular == {"invalid_message",  \* a client sends what does not unpack
              "flush_failure",    \* sending to a client fails for good
              "ctrl_blocks",      \* the control connection takes no more bytes
              "ctrl_lost"}        \* the authentication server goes away

Accounts == 1..MaxAccount
Token    == 1..MaxToken
Socket   == {0} \cup Token \* token 0 is the control connection
PlayerId == 1..(Size - 1) \* id 0 of the table is never given out

ClientMsgs == {"play", "confirm", "disconnect", "invalid"}

Transfer == [token : Token, account_id : Accounts]

GmPlayer == [conn_token : Token, account_id : Accounts]

\* `from' is the connection a message was received on; the code has only the
\* player id.
GamePlayerMsg == [player_id : PlayerId,
                  header    : ClientMsgs \ {"invalid"},
                  from      : Token]

CtrlMsg == [msg_id : {"ServerReady"}, account_id : {NULL}, conn_token : {0}]
             \cup [msg_id : {"PlayerLeft"}, account_id : Accounts, conn_token : Token]

ASSUME BoundsAssumption == /\ MaxAccount \in Nat
                           /\ MaxToken \in Nat
                           /\ MaxMessages \in Nat
                           /\ Size \in Nat \ {0}
ASSUME AllowedAssumption == Allowed \subseteq Irregular
ASSUME NullAssumption == NULL \notin Accounts \cup GmPlayer \cup Transfer

VARIABLES
  connections,              \* player id of each connection, 0: no such connection
  slots,                    \* tokens in the order of the stb_ds array
  players,                  \* GameSrv.players, NULL where there is none
  free_players,             \* ids that are not in use, oldest first
  parties,                  \* how many party ids were given out
  messages,                 \* GameSrv.messages
  connections_with_event,   \* GameSrv.connections_with_event
  phase,                    \* where the thread is in GameSrv_Update
  events,                   \* flags of the events that are still to process
  quit_signaled,            \* GameSrv.quit_signaled
  halted,                   \* the process hit an assert
  ctrl_open,                \* the control socket was not reset
  ctrl_connected,           \* ctrl_conn.connected
  ctrl_writable,            \* ctrl_conn.writable
  ctrl_messages,            \* ctrl_conn.messages, NULL: the peer is gone
  outgoing,                 \* ctrl_conn.outgoing
  armed,                    \* one-shot registrations of the kernel
  ctrl_in,                  \* transfers that arrived and were not read
  ctrl_lost,                \* the peer closed the control connection
  written,                  \* messages written to the control connection
  from_client,              \* messages that arrived and were not read
  hung_up,                  \* clients that closed their connection
  account_of,               \* history: the account a connection was for
  cut                       \* history: connections closed by a failed flush

connVars   == <<connections, slots>>
playerVars == <<players, free_players>>
batchVars  == <<connections_with_event, events>>
ctrlVars   == <<ctrl_open, ctrl_connected, ctrl_writable>>
authVars   == <<ctrl_in, ctrl_lost, account_of>>
clientVars == <<from_client, hung_up>>
vars == <<connVars, playerVars, parties, messages, batchVars, phase,
          quit_signaled, halted, ctrlVars, ctrl_messages, outgoing, armed,
          written, authVars, clientVars, cut>>

ServerReady == [msg_id |-> "ServerReady", account_id |-> NULL, conn_token |-> 0]

\* Slips this code could have had are kept next to what they would change; the
\* properties are checked to notice them.  Here: the player is cleared first.
PlayerLeft_Cleared(player) == [msg_id     |-> "PlayerLeft",
                               account_id |-> NULL,
                               conn_token |-> player.conn_token]

PlayerLeft(player) == [msg_id     |-> "PlayerLeft",
                       account_id |-> player.account_id,
                       conn_token |-> player.conn_token]

\* After GameSrv_Start: the control connection is being established.
Init ==
  /\ connections = [t \in Token |-> 0]
  /\ slots = <<>>
  /\ players = [p \in PlayerId |-> NULL]
  /\ free_players = [p \in PlayerId |-> p]
  /\ parties = 0
  /\ messages = <<>>
  /\ connections_with_event = {}
  /\ phase = "poll"
  /\ events = [t \in Socket |-> {}]
  /\ quit_signaled = FALSE
  /\ halted = FALSE
  /\ ctrl_open = TRUE
  /\ ctrl_connected = FALSE
  /\ ctrl_writable = FALSE
  /\ ctrl_messages = <<>>
  /\ outgoing = <<>>
  /\ armed = [t \in Socket |-> IF t = 0 THEN {"read", "write"} ELSE {}]
  /\ ctrl_in = <<>>
  /\ ctrl_lost = FALSE
  /\ written = <<>>
  /\ from_client = [t \in Token |-> <<>>]
  /\ hung_up = {}
  /\ account_of = [t \in Token |-> NULL]
  /\ cut = {}

-----------------------------------------------------------------------------
(* Connections and players *)

\* stbds_hmdel moves the last element of the array to the place of the one
\* that is deleted.
SlotOf(t) == CHOOSE i \in 1..Len(slots) : slots[i] = t

\* A slip: the last element is not moved.
SwapDelete_DropsLast(i) == SubSeq(slots, 1, Len(slots) - 1)

SwapDelete(i) == SubSeq([slots EXCEPT ![i] = slots[Len(slots)]], 1, Len(slots) - 1)

\* GameConnection_Free and stbds_hmdel; closing the socket ends its
\* registration with the kernel.
Delete(t) ==
  /\ connections' = [connections EXCEPT ![t] = 0]
  /\ slots' = SwapDelete(SlotOf(t))
  /\ armed' = [armed EXCEPT ![t] = {}]

CloseConnection(t) == IF connections[t] = 0
                      THEN UNCHANGED <<connVars, armed>>
                      ELSE Delete(t)

\* A slip: the id is not freed.
Forget_LeaksId(p) ==
  IF players[p] = NULL
  THEN UNCHANGED <<playerVars, outgoing>>
  ELSE /\ outgoing' = Append(outgoing, PlayerLeft(players[p]))
       /\ players' = [players EXCEPT ![p] = NULL]
       /\ UNCHANGED free_players

\* A slip: the authentication server is not told.
Forget_Silent(p) ==
  IF players[p] = NULL
  THEN UNCHANGED <<playerVars, outgoing>>
  ELSE /\ players' = [players EXCEPT ![p] = NULL]
       /\ free_players' = Append(free_players, p)
       /\ UNCHANGED outgoing

\* What is left of GameSrv_RemovePlayer when the connection is closed: the
\* message for the authentication server and the id.  The party of the player
\* stays allocated.
Forget(p) ==
  IF players[p] = NULL
  THEN UNCHANGED <<playerVars, outgoing>>
  ELSE /\ outgoing' = Append(outgoing, PlayerLeft(players[p]))
       /\ players' = [players EXCEPT ![p] = NULL]
       /\ free_players' = Append(free_players, p)

RemovePlayer(p) ==
  /\ Forget(p)
  /\ IF players[p] = NULL THEN UNCHANGED <<connVars, armed>>
     ELSE CloseConnection(players[p].conn_token)

\* The connection is deleted before its player, which then has none to close.
KillConnection(t) ==
  /\ Delete(t)
  /\ Forget(connections[t])

\* GameSrv_PeerDisconnected still holds a pointer into the array when its
\* connection was killed: it reads the connection that was moved there.
PlayerInSlot(t) == IF SlotOf(t) < Len(slots)
                   THEN connections[slots[Len(slots)]]
                   ELSE connections[t]

-----------------------------------------------------------------------------
(* GameSrv_Update *)

Running == ~halted /\ phase # "exit"

IsReadable(t) == IF t = 0 THEN ctrl_in # <<>> \/ ctrl_lost
                 ELSE from_client[t] # <<>> \/ t \in hung_up

\* iocp_poll returns some of the sockets that are ready for what they are
\* armed for, and their one-shot registration is spent.
Poll ==
  /\ Running /\ phase = "poll"
  /\ phase' = "events"
  /\ \E batch \in SUBSET Socket : \E writable \in SUBSET batch :
       /\ events' = [t \in Socket |->
            {flag \in armed[t] : \/ flag = "read" /\ t \in batch /\ IsReadable(t)
                                 \/ flag = "write" /\ t \in writable}]
       /\ \A t \in batch : events'[t] # {}
       /\ armed' = [t \in Socket |-> IF t \in batch THEN {} ELSE armed[t]]
  /\ UNCHANGED <<connVars, playerVars, parties, messages, connections_with_event,
                 quit_signaled, halted, ctrlVars, ctrl_messages, outgoing,
                 written, authVars, clientVars, cut>>

TakeEvent(t) ==
  /\ Running /\ phase = "events"
  /\ ctrl_messages = <<>>
  /\ events[t] # {}
  /\ events' = [events EXCEPT ![t] = {}]
  /\ connections_with_event' = connections_with_event \cup {t}

\* Reads all there is on the control connection, and announces the server
\* when it has become writable.
ProcessCtrlEvent ==
  LET reads    == "read" \in events[0]
      writable == ctrl_writable \/ "write" \in events[0]
      lost     == reads /\ ctrl_lost
      kept     == IF lost THEN <<>> ELSE outgoing
  IN
  /\ TakeEvent(0)
  /\ ctrl_writable' = writable
  /\ ctrl_connected' = (ctrl_connected \/ writable)
  /\ outgoing' = IF writable /\ ~ctrl_connected THEN Append(kept, ServerReady) ELSE kept
  /\ ctrl_open' = (ctrl_open /\ ~lost)
  /\ ctrl_messages' = (IF reads THEN ctrl_in ELSE <<>>)
                        \o (IF lost THEN <<NULL>> ELSE <<>>)
  /\ ctrl_in' = IF reads THEN <<>> ELSE ctrl_in
  /\ UNCHANGED <<connVars, playerVars, parties, messages, phase, quit_signaled,
                 halted, armed, written, ctrl_lost, account_of, clientVars, cut>>

HandlesCtrl ==
  /\ Running /\ phase = "events"
  /\ ctrl_messages # <<>>

\* A player is created for the connection, and a party for the player.  When
\* a table has no id left, GmIdAllocate hits its assert.
HandleTransferConnection ==
  LET msg == Head(ctrl_messages) IN
  /\ HandlesCtrl
  /\ msg # NULL
  /\ IF free_players = <<>> \/ parties = Size - 1
     THEN /\ halted' = TRUE
          /\ UNCHANGED <<connVars, playerVars, parties, ctrl_messages, armed>>
     ELSE /\ ctrl_messages' = Tail(ctrl_messages)
          /\ players' = [players EXCEPT ![Head(free_players)] =
                           [conn_token |-> msg.token, account_id |-> msg.account_id]]
          /\ free_players' = Tail(free_players)
          /\ parties' = parties + 1
          /\ connections' = [connections EXCEPT ![msg.token] = Head(free_players)]
          /\ slots' = Append(slots, msg.token)
          /\ armed' = [armed EXCEPT ![msg.token] = {"read", "write"}]
          /\ UNCHANGED halted
  /\ UNCHANGED <<messages, batchVars, phase, quit_signaled, ctrlVars, outgoing,
                 written, authVars, clientVars, cut>>

SignalQuit ==
  /\ HandlesCtrl
  /\ Head(ctrl_messages) = NULL
  /\ ctrl_messages' = <<>>
  /\ quit_signaled' = TRUE
  /\ UNCHANGED <<connVars, playerVars, parties, messages, batchVars, phase,
                 halted, ctrlVars, outgoing, armed, written, authVars,
                 clientVars, cut>>

-----------------------------------------------------------------------------
(* Events of the clients *)

\* The connection of an event was removed earlier in the round, or the socket
\* is only writable.
NothingToRead(t) ==
  /\ TakeEvent(t)
  /\ connections[t] = 0 \/ "read" \notin events[t]
  /\ UNCHANGED <<connVars, playerVars, parties, messages, phase,
                 quit_signaled, halted, ctrlVars, ctrl_messages, outgoing, armed,
                 written, authVars, clientVars, cut>>

Message(p, header, t) == [player_id |-> p, header |-> header, from |-> t]

Invalid(t) == \E i \in 1..Len(from_client[t]) : from_client[t][i] = "invalid"

\* The messages in front of the first one that does not unpack.
Unpacked(t) ==
  LET n == IF Invalid(t)
           THEN CHOOSE i \in 1..Len(from_client[t]) :
                  /\ from_client[t][i] = "invalid"
                  /\ \A j \in 1..(i - 1) : from_client[t][j] # "invalid"
           ELSE Len(from_client[t]) + 1
  IN [i \in 1..(n - 1) |-> Message(connections[t], from_client[t][i], t)]

Reads(t) ==
  /\ TakeEvent(t)
  /\ connections[t] # 0 /\ "read" \in events[t]
  /\ from_client' = [from_client EXCEPT ![t] = <<>>]
  /\ UNCHANGED <<parties, phase, quit_signaled, halted, ctrlVars,
                 ctrl_messages, written, authVars, hung_up, cut>>

GetMessages(t) ==
  /\ Reads(t)
  /\ ~Invalid(t) /\ t \notin hung_up
  /\ messages' = messages \o Unpacked(t)
  /\ UNCHANGED <<connVars, playerVars, outgoing, armed>>

\* A slip: nothing is queued for the peer.
PeerDisconnected_Silent(t) ==
  /\ Reads(t)
  /\ ~Invalid(t) /\ t \in hung_up
  /\ messages' = messages \o Unpacked(t)
  /\ UNCHANGED <<connVars, playerVars, outgoing, armed>>

\* What was received before the peer went is handled, and then the peer is
\* treated as if it had sent a disconnect.
PeerDisconnected(t) ==
  /\ Reads(t)
  /\ ~Invalid(t) /\ t \in hung_up
  /\ messages' = messages \o Append(Unpacked(t), Message(connections[t], "disconnect", t))
  /\ UNCHANGED <<connVars, playerVars, outgoing, armed>>

GetMessagesKills(t) ==
  /\ Reads(t)
  /\ Invalid(t) /\ t \notin hung_up
  /\ messages' = messages \o Unpacked(t)
  /\ KillConnection(t)

\* The disconnect that follows is for whatever is in the slot now.
PeerDisconnectedKills(t) ==
  /\ Reads(t)
  /\ Invalid(t) /\ t \in hung_up
  /\ messages' = messages \o Append(Unpacked(t), Message(PlayerInSlot(t), "disconnect", t))
  /\ KillConnection(t)

EventsDone ==
  /\ Running /\ phase = "events"
  /\ (\A t \in Socket : events[t] = {}) /\ ctrl_messages = <<>>
  /\ phase' = "messages"
  /\ UNCHANGED <<connVars, playerVars, parties, messages, batchVars,
                 quit_signaled, halted, ctrlVars, ctrl_messages, outgoing, armed,
                 written, authVars, clientVars, cut>>

-----------------------------------------------------------------------------
(* Messages of the players *)

Handles(header) ==
  /\ Running /\ phase = "messages"
  /\ messages # <<>>
  /\ Head(messages).header = header
  /\ messages' = Tail(messages)
  /\ UNCHANGED <<parties, batchVars, phase, quit_signaled, halted, ctrlVars,
                 ctrl_messages, written, authVars, clientVars, cut>>

\* Everything that moves, talks, drops or draws but ends no session.
HandleOther == Handles("play") /\ UNCHANGED <<connVars, playerVars, outgoing, armed>>

HandleDisconnect == Handles("disconnect") /\ RemovePlayer(Head(messages).player_id)

\* A character that was created ends the session; one whose name is taken
\* does not.
HandleCharCreationConfirm ==
  LET p == Head(messages).player_id IN
  /\ Handles("confirm")
  /\ \/ UNCHANGED <<connVars, playerVars, outgoing, armed>>
     \/ /\ players[p] # NULL
        /\ connections[players[p].conn_token] # 0
        /\ RemovePlayer(p)

MessagesDone ==
  /\ Running /\ phase = "messages"
  /\ messages = <<>>
  /\ phase' = "flush"
  /\ UNCHANGED <<connVars, playerVars, parties, messages, batchVars,
                 quit_signaled, halted, ctrlVars, ctrl_messages, outgoing, armed,
                 written, authVars, clientVars, cut>>

-----------------------------------------------------------------------------
(* The end of a round *)

\* The connection is closed; its player stays.
FlushFailed(t) ==
  /\ "flush_failure" \in Allowed
  /\ Running /\ phase = "flush"
  /\ connections[t] # 0
  /\ CloseConnection(t)
  /\ cut' = cut \cup {t}
  /\ UNCHANGED <<playerVars, parties, messages, batchVars, phase, quit_signaled,
                 halted, ctrlVars, ctrl_messages, outgoing, written, authVars,
                 clientVars>>

\* CtrlConn_UpdateWrite: what could not be written stays in the buffer.
UpdateWrite ==
  IF ctrl_writable /\ ctrl_open /\ outgoing # <<>>
  THEN \E n \in 0..Len(outgoing) :
         /\ n < Len(outgoing) => "ctrl_blocks" \in Allowed
         /\ written' = written \o SubSeq(outgoing, 1, n)
         /\ outgoing' = SubSeq(outgoing, n + 1, Len(outgoing))
         /\ ctrl_writable' = (n = Len(outgoing))
  ELSE UNCHANGED <<written, outgoing, ctrl_writable>>

\* A slip: a client that takes no more bytes is not read from.
Interest_WriteOnly(blocked) == IF blocked THEN {"write"} ELSE {"read"}

\* Who takes no more bytes is waited for as well.
Interest(blocked) == {"read"} \cup (IF blocked THEN {"write"} ELSE {})

Registered(t) == IF t = 0 THEN ctrl_open ELSE connections[t] # 0

\* Only the sockets of the batch are registered again.
UpdateDone ==
  /\ Running /\ phase = "flush"
  /\ UpdateWrite
  /\ \E blocked \in SUBSET {t \in connections_with_event : t # 0 /\ Registered(t)} :
       armed' = [t \in Socket |->
         IF t \notin connections_with_event THEN armed[t]
         ELSE IF ~Registered(t) THEN {}
         ELSE Interest(IF t = 0 THEN ~ctrl_writable' ELSE t \in blocked)]
  /\ connections_with_event' = {}
  /\ phase' = IF quit_signaled THEN "exit" ELSE "poll"
  /\ UNCHANGED <<connVars, playerVars, parties, messages, events,
                 quit_signaled, halted, ctrl_open, ctrl_connected, ctrl_messages,
                 authVars, clientVars, cut>>

-----------------------------------------------------------------------------
(* The authentication server and the clients *)

threadVars == <<connVars, playerVars, parties, messages, batchVars, phase,
                quit_signaled, halted, ctrlVars, ctrl_messages, outgoing, armed,
                written, cut>>

HasLeft(t) == \E i \in 1..Len(written) : written[i].conn_token = t

\* An account is handed over when the server has announced itself and the
\* account has no session on it that the authentication server knows of.
\* Accounts are numbered in the order in which they come.
AuthTransfers(t, a) ==
  /\ ~halted /\ ~ctrl_lost
  /\ written # <<>>
  /\ account_of[t] = NULL
  /\ \A u \in Token : u < t => account_of[u] # NULL
  /\ \A u \in Token : account_of[u] = a => HasLeft(u)
  /\ \A b \in 1..(a - 1) : \E u \in Token : account_of[u] = b
  /\ account_of' = [account_of EXCEPT ![t] = a]
  /\ ctrl_in' = Append(ctrl_in, [token |-> t, account_id |-> a])
  /\ UNCHANGED <<threadVars, ctrl_lost, clientVars>>

AuthGone ==
  /\ "ctrl_lost" \in Allowed
  /\ ~halted /\ ~ctrl_lost
  /\ ctrl_lost' = TRUE
  /\ UNCHANGED <<threadVars, ctrl_in, account_of, clientVars>>

ClientSends(t, m) ==
  /\ m = "invalid" => "invalid_message" \in Allowed
  /\ ~halted
  /\ connections[t] # 0 /\ t \notin hung_up
  /\ Len(from_client[t]) < MaxMessages
  /\ from_client' = [from_client EXCEPT ![t] = Append(@, m)]
  /\ UNCHANGED <<threadVars, authVars, hung_up>>

ClientHangsUp(t) ==
  /\ ~halted
  /\ connections[t] # 0 /\ t \notin hung_up
  /\ hung_up' = hung_up \cup {t}
  /\ UNCHANGED <<threadVars, authVars, from_client>>

-----------------------------------------------------------------------------
GameEvent(t) ==
  \/ NothingToRead(t)
  \/ GetMessages(t)
  \/ GetMessagesKills(t)
  \/ PeerDisconnected(t)
  \/ PeerDisconnectedKills(t)

Thread ==
  \/ Poll
  \/ ProcessCtrlEvent
  \/ HandleTransferConnection
  \/ SignalQuit
  \/ \E t \in Token : GameEvent(t) \/ FlushFailed(t)
  \/ EventsDone
  \/ HandleOther
  \/ HandleDisconnect
  \/ HandleCharCreationConfirm
  \/ MessagesDone
  \/ UpdateDone

Environment ==
  \/ AuthGone
  \/ \E t \in Token :
       \/ \E a \in Accounts : AuthTransfers(t, a)
       \/ \E m \in ClientMsgs : ClientSends(t, m)
       \/ ClientHangsUp(t)

Next == Thread \/ Environment

Spec == Init /\ [][Next]_vars

\* The thread runs, the kernel does not pass over an armed socket that stays
\* ready, and the control connection takes bytes again and again.  Neither the
\* clients nor the authentication server owe anything.
Fairness ==
  /\ WF_vars(Thread)
  /\ SF_vars(Poll /\ events'[0] # {})
  /\ \A t \in Token : SF_vars(Poll /\ "read" \in events'[t])
  /\ SF_vars(UpdateDone /\ Len(written') > Len(written))

FairSpec == Spec /\ Fairness

-----------------------------------------------------------------------------
(* Properties *)

TypeOK ==
  /\ connections \in [Token -> {0} \cup PlayerId]
  /\ slots \in Seq(Token)
  /\ players \in [PlayerId -> GmPlayer \cup {NULL}]
  /\ free_players \in Seq(PlayerId)
  /\ parties \in 0..(Size - 1)
  /\ messages \in Seq(GamePlayerMsg)
  /\ connections_with_event \subseteq Socket
  /\ phase \in {"poll", "events", "messages", "flush", "exit"}
  /\ events \in [Socket -> SUBSET {"read", "write"}]
  /\ quit_signaled \in BOOLEAN
  /\ halted \in BOOLEAN
  /\ ctrl_open \in BOOLEAN
  /\ ctrl_connected \in BOOLEAN
  /\ ctrl_writable \in BOOLEAN
  /\ ctrl_messages \in Seq(Transfer \cup {NULL})
  /\ outgoing \in Seq(CtrlMsg)
  /\ armed \in [Socket -> SUBSET {"read", "write"}]
  /\ ctrl_in \in Seq(Transfer)
  /\ ctrl_lost \in BOOLEAN
  /\ written \in Seq(CtrlMsg)
  /\ from_client \in [Token -> Seq(ClientMsgs)]
  /\ hung_up \subseteq Token
  /\ account_of \in [Token -> Accounts \cup {NULL}]
  /\ cut \subseteq Token

\* A connection and its player know each other, in whatever order they were
\* created, killed, closed and removed; and the array of the connections holds
\* each of them once.
ConnectionHasPlayer ==
  /\ \A t \in Token : connections[t] # 0 =>
       /\ players[connections[t]] # NULL
       /\ players[connections[t]].conn_token = t
  /\ \A t \in Token : connections[t] # 0 <=> \E i \in 1..Len(slots) : slots[i] = t
  /\ \A i, j \in 1..Len(slots) : i # j => slots[i] # slots[j]

\* A player without a connection is one whose connection failed in a flush:
\* no other way of losing a connection leaves its player behind.
PlayerHasConnection ==
  \A p \in PlayerId : players[p] # NULL =>
    LET t == players[p].conn_token IN connections[t] = p \/ t \in cut

SessionsAgree == ConnectionHasPlayer /\ PlayerHasConnection

\* The ids that are not in use wait in the queue, each of them once: no id is
\* given out twice and none is lost.
IdsAreAccounted ==
  /\ \A p \in PlayerId :
       players[p] = NULL <=> \E i \in 1..Len(free_players) : free_players[i] = p
  /\ \A i, j \in 1..Len(free_players) : i # j => free_players[i] # free_players[j]

\* When the thread polls, every connection is armed for reading: one that is
\* not would never be heard of again.
NoLostWakeup ==
  phase = "poll" =>
    /\ \A t \in Token : connections[t] # 0 => "read" \in armed[t]
    /\ "read" \in armed[0]
    /\ ~ctrl_connected => "write" \in armed[0]

\* What was written is not complete, and nobody waits for the socket to take
\* more: GameSrv_UpdateCtrlConnection is only called after an event.
CtrlStuck == phase = "poll" /\ outgoing # <<>> /\ "write" \notin armed[0]

\* A client that hung up is reported to the authentication server, so that its
\* account can play again, unless flushing to it failed before or the control
\* connection blocked in a round in which it had no event.
HangupReported ==
  \A t \in Token :
    connections[t] # 0 /\ t \in hung_up ~>
      HasLeft(t) \/ t \in cut \/ CtrlStuck \/ halted \/ phase = "exit"

\* The authentication server finds in this server what it takes it to be: who
\* is handed over joins or is lost with the server, who joined leaves once and
\* with a message, and the messages are read in the order of the events.
PlayersOf(a) == {p \in PlayerId : players[p] # NULL /\ players[p].account_id = a}

\* The end of the connection comes after the last transfer.
WithoutEnd(s) == IF s # <<>> /\ s[Len(s)] = NULL THEN SubSeq(s, 1, Len(s) - 1) ELSE s

AccountsOf(s) == [i \in DOMAIN s |-> s[i].account_id]

Told(s) == [i \in DOMAIN s |-> [msg_id |-> s[i].msg_id, account_id |-> s[i].account_id]]

ToGame  == AccountsOf(WithoutEnd(ctrl_messages) \o ctrl_in)
Playing == [a \in Accounts |-> Cardinality(PlayersOf(a))]
ToAuth  == Told(written \o outgoing)

Server == INSTANCE GameServer WITH
  to_game <- ToGame,
  playing <- Playing,
  to_auth <- ToAuth

IsGameServer == Server!Spec

-----------------------------------------------------------------------------
(* What the code expects and the model refutes *)

\* GameSrv_KillConnection: "After killing the connection, we just make sure we
\* remove the player if the connection was associated to any players".  The
\* player removed is to be that of the connection a message came from.
RightPlayer ==
  phase = "messages" /\ messages # <<>> =>
    LET m == Head(messages) IN
      players[m.player_id] # NULL => players[m.player_id].conn_token = m.from
=============================================================================
