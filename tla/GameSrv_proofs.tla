--------------------------- MODULE GameSrv_proofs ---------------------------
(***************************************************************************)
(* Connections and players agree, no id is lost and no wakeup either: for  *)
(* any number of accounts, connections and messages, any size of the id    *)
(* tables and whatever the clients and the authentication server do.       *)
(***************************************************************************)
EXTENDS GameSrv, SequenceLemmas, FiniteSetTheorems

-----------------------------------------------------------------------------
(* What is added to the properties to make them inductive *)

Brings(s, t) == \E i \in 1..Len(s) : s[i] # NULL /\ s[i].token = t

OncePerToken(s) == \A i, j \in 1..Len(s) :
                     i # j /\ s[i] # NULL /\ s[j] # NULL => s[i].token # s[j].token

Waits(t) == Brings(ctrl_messages, t) \/ Brings(ctrl_in, t)

\* Nothing is known of the connection yet.
Unused(t) == /\ connections[t] = 0
             /\ t \notin cut
             /\ \A p \in PlayerId : players[p] # NULL => players[p].conn_token # t

\* A connection is handed over once: what waits to be taken over is not in use
\* and was not in use before.
TransfersAreFresh ==
  /\ \A t \in Token : account_of[t] = NULL => Unused(t) /\ ~Waits(t)
  /\ \A t \in Token : Waits(t) => Unused(t)
  /\ \A t \in Token : ~(Brings(ctrl_messages, t) /\ Brings(ctrl_in, t))
  /\ OncePerToken(ctrl_messages)
  /\ OncePerToken(ctrl_in)

CutIsClosed == \A t \in cut : connections[t] = 0

\* The socket is watched by the kernel, or the round has yet to come to it.
LookedAfter(t, flag) == \/ flag \in armed[t]
                        \/ t \in connections_with_event
                        \/ events[t] # {}

\* What a round does with its events, and what it leaves for its end.
RoundInOrder ==
  /\ phase = "poll" => connections_with_event = {}
  /\ phase # "events" => (\A t \in Socket : events[t] = {}) /\ ctrl_messages = <<>>
  /\ quit_signaled => phase # "poll"
  /\ ctrl_writable => ctrl_connected
  /\ ~ctrl_open /\ ~quit_signaled =>
       ctrl_messages # <<>> /\ ctrl_messages[Len(ctrl_messages)] = NULL
  /\ \A t \in Token : connections[t] # 0 => LookedAfter(t, "read")
  /\ ctrl_open => LookedAfter(0, "read")
  /\ ctrl_open /\ ~ctrl_connected => LookedAfter(0, "write")

\* The end of the connection comes after the last transfer.
EndIsLast == \A i \in 1..(Len(ctrl_messages) - 1) : ctrl_messages[i] # NULL

\* The server announces itself before anything else.
AnnouncedFirst ==
  /\ ~ctrl_connected => written = <<>> /\ outgoing = <<>>
  /\ written = <<>> => \A t \in Token : account_of[t] = NULL

-----------------------------------------------------------------------------
(* Transfers *)

LEMMA TransferIsNotNull == \A m \in Transfer : m # NULL /\ m.token \in Token
  BY NullAssumption DEF Transfer

LEMMA BringsTail ==
  ASSUME NEW s \in Seq(Transfer \cup {NULL}), s # <<>>
  PROVE  /\ \A t : Brings(Tail(s), t) => Brings(s, t)
         /\ Head(s) # NULL => Brings(s, Head(s).token)
         /\ OncePerToken(s) => OncePerToken(Tail(s))
         /\ OncePerToken(s) /\ Head(s) # NULL => ~Brings(Tail(s), Head(s).token)
         /\ Head(s) # s[Len(s)] => Tail(s) # <<>>
         /\ Tail(s) # <<>> => Tail(s)[Len(Tail(s))] = s[Len(s)]
<1> DEFINE new == Tail(s)
<1>1. /\ Len(s) \in Nat /\ Len(s) >= 1 /\ Head(s) = s[1] /\ Len(new) = Len(s) - 1
      /\ new \in Seq(Transfer \cup {NULL})
      /\ \A i \in 1..Len(new) : new[i] = s[i + 1]
  BY HeadTailProperties, LenProperties
<1> HIDE DEF new
<1>2. \A i \in 1..Len(new) : i + 1 \in 1..Len(s) /\ i + 1 # 1 /\ new[i] = s[i + 1]
  BY <1>1
<1>3. 1 \in 1..Len(s)
  BY <1>1
<1>4. \A t : Brings(new, t) => Brings(s, t)
  BY <1>2 DEF Brings
<1>5. Head(s) # NULL => Brings(s, Head(s).token)
  BY <1>1, <1>3 DEF Brings
<1>6. ASSUME OncePerToken(s) PROVE OncePerToken(new)
  <2> SUFFICES ASSUME NEW i \in 1..Len(new), NEW j \in 1..Len(new),
                      i # j, new[i] # NULL, new[j] # NULL
               PROVE  new[i].token # new[j].token
    BY DEF OncePerToken
  <2>1. i + 1 # j + 1
    BY <1>1
  <2>2. /\ i + 1 \in 1..Len(s) /\ new[i] = s[i + 1]
        /\ j + 1 \in 1..Len(s) /\ new[j] = s[j + 1]
    BY <1>2
  <2> QED
    BY <1>6, <2>1, <2>2 DEF OncePerToken
<1>7. ASSUME OncePerToken(s), Head(s) # NULL PROVE ~Brings(new, Head(s).token)
  <2> SUFFICES ASSUME NEW i \in 1..Len(new), new[i] # NULL
               PROVE  new[i].token # Head(s).token
    BY DEF Brings
  <2> QED
    BY <1>1, <1>2, <1>3, <1>7 DEF OncePerToken
<1>8. Head(s) # s[Len(s)] => new # <<>>
  BY <1>1
<1>9. new # <<>> => new[Len(new)] = s[Len(s)]
  <2> SUFFICES ASSUME new # <<>> PROVE new[Len(new)] = s[Len(s)]
    OBVIOUS
  <2>1. Len(new) \in 1..Len(new) /\ Len(new) + 1 = Len(s)
    BY <1>1
  <2> QED
    BY <1>2, <2>1
<1> QED
  BY <1>4, <1>5, <1>6, <1>7, <1>8, <1>9 DEF new

LEMMA BringsAppended ==
  ASSUME NEW s \in Seq(Transfer), NEW m \in Transfer
  PROVE  /\ \A t : Brings(Append(s, m), t) <=> Brings(s, t) \/ t = m.token
         /\ OncePerToken(s) /\ ~Brings(s, m.token) => OncePerToken(Append(s, m))
<1> DEFINE new == Append(s, m)
<1>1. /\ Len(s) \in Nat /\ Len(new) = Len(s) + 1 /\ new[Len(s) + 1] = m
      /\ \A i \in 1..Len(s) : new[i] = s[i]
  BY AppendProperties
<1> HIDE DEF new
<1>2. \A i \in 1..Len(s) : i \in 1..Len(new) /\ new[i] = s[i]
  BY <1>1
<1>3. Len(s) + 1 \in 1..Len(new)
  BY <1>1
<1>4. \A i \in 1..Len(new) : i \in 1..Len(s) \/ i = Len(s) + 1
  BY <1>1
<1>5. m # NULL
  BY TransferIsNotNull
<1>6. ASSUME NEW t PROVE Brings(new, t) <=> Brings(s, t) \/ t = m.token
  BY <1>1, <1>2, <1>3, <1>4, <1>5 DEF Brings
<1>7. ASSUME OncePerToken(s), ~Brings(s, m.token) PROVE OncePerToken(new)
  <2> SUFFICES ASSUME NEW i \in 1..Len(new), NEW j \in 1..Len(new),
                      i # j, new[i] # NULL, new[j] # NULL
               PROVE  new[i].token # new[j].token
    BY DEF OncePerToken
  <2> QED
    BY <1>1, <1>2, <1>4, <1>7 DEF OncePerToken, Brings
<1> QED
  BY <1>6, <1>7 DEF new

LEMMA BringsRead ==
  ASSUME NEW s \in Seq(Transfer), NEW end \in {<<>>, <<NULL>>}
  PROVE  /\ s \o end \in Seq(Transfer \cup {NULL})
         /\ \A t : Brings(s \o end, t) <=> Brings(s, t)
         /\ OncePerToken(s) => OncePerToken(s \o end)
         /\ \A i \in 1..(Len(s \o end) - 1) : (s \o end)[i] # NULL
         /\ end = <<NULL>> => s \o end # <<>> /\ (s \o end)[Len(s \o end)] = NULL
<1>1. s \in Seq(Transfer \cup {NULL})
  BY SeqMonotonic, Zenon
<1>2. \A i \in 1..Len(s) : s[i] # NULL
  BY ElementOfSeq, TransferIsNotNull
<1>3. CASE end = <<>>
  <2>1. s \o end = s
    BY <1>3, ConcatEmptySeq
  <2>2. end # <<NULL>>
    BY <1>3
  <2>3. \A i \in 1..(Len(s) - 1) : i \in 1..Len(s)
    BY LenProperties
  <2>4. \A i \in 1..(Len(s) - 1) : s[i] # NULL
    BY <1>2, <2>3
  <2> QED
    BY <1>1, <2>1, <2>2, <2>4
<1>4. CASE end = <<NULL>>
  <2> DEFINE new == Append(s, NULL)
  <2>1. s \o end = new
    BY <1>1, <1>4, AppendIsConcat
  <2>2. /\ Len(s) \in Nat /\ Len(new) = Len(s) + 1 /\ new[Len(s) + 1] = NULL
        /\ \A i \in 1..Len(s) : new[i] = s[i]
        /\ new # <<>> /\ new \in Seq(Transfer \cup {NULL})
    BY <1>1, AppendProperties
  <2> HIDE DEF new
  <2>3. \A i \in 1..Len(s) : i \in 1..Len(new) /\ new[i] = s[i]
    BY <2>2
  <2>4. \A i \in 1..Len(new) : i \in 1..Len(s) \/ i = Len(s) + 1
    BY <2>2
  <2>5. ASSUME NEW t PROVE Brings(new, t) <=> Brings(s, t)
    BY <2>2, <2>3, <2>4 DEF Brings
  <2>6. ASSUME OncePerToken(s) PROVE OncePerToken(new)
    BY <2>2, <2>3, <2>4, <2>6 DEF OncePerToken
  <2>7. \A i \in 1..(Len(new) - 1) : i \in 1..Len(s) /\ new[i] = s[i]
    BY <2>2
  <2> QED
    BY <1>2, <2>1, <2>2, <2>5, <2>6, <2>7
<1> QED
  BY <1>3, <1>4

-----------------------------------------------------------------------------
(* Types *)

LEMMA ServerReadyType == ServerReady \in CtrlMsg
  BY DEF ServerReady, CtrlMsg

LEMMA PlayerLeftType ==
  ASSUME NEW player \in GmPlayer
  PROVE  PlayerLeft(player) \in CtrlMsg
  BY DEF PlayerLeft, CtrlMsg, GmPlayer

LEMMA PlayerIsNotNull == \A player \in GmPlayer : player # NULL /\ player.conn_token \in Token
  BY NullAssumption DEF GmPlayer

LEMMA SlotIsFound ==
  ASSUME TypeOK, ConnectionHasPlayer, NEW t \in Token, connections[t] # 0
  PROVE  SlotOf(t) \in 1..Len(slots) /\ slots[SlotOf(t)] = t
<1>1. \E i \in 1..Len(slots) : slots[i] = t
  BY DEF ConnectionHasPlayer
<1> QED
  BY <1>1 DEF SlotOf

\* Deleting a connection takes it, and it only, from the array.
LEMMA DeleteKeeps ==
  ASSUME TypeOK, ConnectionHasPlayer, NEW t \in Token, connections[t] # 0, Delete(t)
  PROVE  /\ connections' \in [Token -> {0} \cup PlayerId]
         /\ connections' = [connections EXCEPT ![t] = 0]
         /\ armed' \in [Socket -> SUBSET {"read", "write"}]
         /\ slots' \in Seq(Token) /\ Distinct(slots')
         /\ \A u : Occurs(slots', u) <=> Occurs(slots, u) /\ u # t
<1>1. SlotOf(t) \in 1..Len(slots) /\ slots[SlotOf(t)] = t
  BY SlotIsFound
<1>2. slots \in Seq(Token) /\ Distinct(slots)
  BY DEF TypeOK, ConnectionHasPlayer, Distinct
<1>3. slots' = SubSeq([slots EXCEPT ![SlotOf(t)] = slots[Len(slots)]], 1, Len(slots) - 1)
  BY DEF Delete, SwapDelete
<1>4. slots' \in Seq(Token) /\ Distinct(slots')
      /\ \A u : Occurs(slots', u) <=> Occurs(slots, u) /\ u # slots[SlotOf(t)]
  <2>1. ASSUME NEW i \in 1..Len(slots)
        PROVE  LET new == SubSeq([slots EXCEPT ![i] = slots[Len(slots)]], 1, Len(slots) - 1)
               IN  /\ new \in Seq(Token) /\ Distinct(new)
                   /\ \A u : Occurs(new, u) <=> Occurs(slots, u) /\ u # slots[i]
    BY <1>2, SwapOccurs
  <2> QED
    BY <1>1, <1>3, <2>1
<1> QED
  BY <1>1, <1>4 DEF TypeOK, Delete

\* What a message of a player is about is who had the connection.
LEMMA MessageType ==
  ASSUME NEW p \in PlayerId, NEW header \in ClientMsgs \ {"invalid"}, NEW t \in Token
  PROVE  Message(p, header, t) \in GamePlayerMsg
  BY DEF Message, GamePlayerMsg

LEMMA UnpackedType ==
  ASSUME TypeOK, NEW t \in Token, connections[t] # 0
  PROVE  Unpacked(t) \in Seq(GamePlayerMsg)
<1> DEFINE s == from_client[t]
           first(i) == s[i] = "invalid" /\ \A j \in 1..(i - 1) : s[j] # "invalid"
           n == IF Invalid(t) THEN CHOOSE i \in 1..Len(s) : first(i) ELSE Len(s) + 1
           msgs == [i \in 1..(n - 1) |-> Message(connections[t], s[i], t)]
<1>1. s \in Seq(ClientMsgs) /\ Len(s) \in Nat /\ connections[t] \in PlayerId
  BY LenProperties DEF TypeOK
<1>2. Unpacked(t) = msgs
  BY DEF Unpacked
<1>3. /\ n - 1 \in Nat
      /\ \A i \in 1..(n - 1) : i \in 1..Len(s) /\ s[i] # "invalid"
  <2>1. CASE Invalid(t)
    <3> DEFINE T == {i \in 1..Len(s) : s[i] = "invalid"}
    <3>1. T # {} /\ T \subseteq Nat
      BY <1>1, <2>1 DEF Invalid
    <3>2. PICK k \in T : \A m \in T : k <= m
      BY <3>1, Least
    <3>3. k \in 1..Len(s) /\ s[k] = "invalid"
      OBVIOUS
    <3>4. \A j \in 1..(k - 1) : j \in 1..Len(s) /\ ~(k <= j)
      BY <1>1, <3>3
    <3>5. first(k)
      BY <3>2, <3>3, <3>4
    <3> HIDE DEF T
    <3>6. n = CHOOSE i \in 1..Len(s) : first(i)
      BY <2>1
    <3>7. n \in 1..Len(s) /\ first(n)
      BY <3>3, <3>5, <3>6
    <3> HIDE DEF n, s
    <3>8. \A j \in 1..(n - 1) : j \in 1..Len(s)
      BY <1>1, <3>7
    <3> QED
      BY <3>7, <3>8
  <2>2. CASE ~Invalid(t)
    <3>1. n = Len(s) + 1
      BY <2>2
    <3>2. \A i \in 1..Len(s) : s[i] # "invalid"
      BY <2>2 DEF Invalid
    <3> HIDE DEF n, s
    <3> QED
      BY <1>1, <3>1, <3>2
  <2> QED
    BY <2>1, <2>2
<1>4. \A i \in 1..(n - 1) : s[i] \in ClientMsgs \ {"invalid"}
  BY <1>1, <1>3, ElementOfSeq
<1> HIDE DEF n, s
<1>5. \A i \in 1..(n - 1) : Message(connections[t], s[i], t) \in GamePlayerMsg
  BY <1>1, <1>4, MessageType
<1>6. msgs \in Seq(GamePlayerMsg)
  BY <1>3, <1>5, IsASeq
<1> QED
  BY <1>2, <1>6

LEMMA PlayerInSlotType ==
  ASSUME TypeOK, ConnectionHasPlayer, NEW t \in Token, connections[t] # 0
  PROVE  PlayerInSlot(t) \in PlayerId
<1>1. SlotOf(t) \in 1..Len(slots)
  BY SlotIsFound
<1>2. Len(slots) \in 1..Len(slots) /\ slots[Len(slots)] \in Token
  BY <1>1, ElementOfSeq DEF TypeOK
<1>3. connections[slots[Len(slots)]] # 0
  BY <1>2 DEF ConnectionHasPlayer
<1> QED
  BY <1>2, <1>3 DEF PlayerInSlot, TypeOK

LEMMA ForgetType ==
  ASSUME TypeOK, NEW p \in PlayerId, Forget(p)
  PROVE  /\ players' \in [PlayerId -> GmPlayer \cup {NULL}]
         /\ free_players' \in Seq(PlayerId)
         /\ outgoing' \in Seq(CtrlMsg)
<1>1. players[p] # NULL => PlayerLeft(players[p]) \in CtrlMsg
  BY PlayerLeftType DEF TypeOK
<1>2. CASE players[p] = NULL
  BY <1>2 DEF TypeOK, Forget, playerVars
<1>3. CASE players[p] # NULL
  <2>1. Append(outgoing, PlayerLeft(players[p])) \in Seq(CtrlMsg)
    BY <1>1, <1>3, AppendProperties DEF TypeOK
  <2>2. Append(free_players, p) \in Seq(PlayerId)
    BY AppendProperties DEF TypeOK
  <2> QED
    BY <1>3, <2>1, <2>2 DEF TypeOK, Forget
<1> QED
  BY <1>2, <1>3

LEMMA SubSeqType ==
  ASSUME NEW S, NEW s \in Seq(S), NEW a \in 1..(Len(s) + 1), NEW b \in 0..Len(s)
  PROVE  SubSeq(s, a, b) \in Seq(S)
<1>1. \A i \in a..b : i \in 1..Len(s)
  OBVIOUS
<1>2. a \in Int /\ b \in Int /\ \A i \in a..b : s[i] \in S
  BY <1>1, ElementOfSeq, LenProperties
<1> QED
  BY <1>2, SubSeqProperties

LEMMA TypeInit == Init => TypeOK
<1> SUFFICES ASSUME Init PROVE TypeOK
  OBVIOUS
<1>1. free_players \in Seq(PlayerId)
  <2>1. Size - 1 \in Nat
    BY BoundsAssumption
  <2>2. free_players = [p \in 1..(Size - 1) |-> p]
    BY DEF Init, PlayerId
  <2> QED
    BY <2>1, <2>2 DEF PlayerId
<1>2. 0 \in 0..(Size - 1)
  BY BoundsAssumption
<1>3. /\ slots \in Seq(Token) /\ messages \in Seq(GamePlayerMsg)
      /\ ctrl_messages \in Seq(Transfer \cup {NULL}) /\ outgoing \in Seq(CtrlMsg)
      /\ ctrl_in \in Seq(Transfer) /\ written \in Seq(CtrlMsg)
  BY DEF Init
<1>4. /\ from_client \in [Token -> Seq(ClientMsgs)]
      /\ events \in [Socket -> SUBSET {"read", "write"}]
      /\ armed \in [Socket -> SUBSET {"read", "write"}]
  BY DEF Init
<1>5. /\ connections \in [Token -> {0} \cup PlayerId]
      /\ players \in [PlayerId -> GmPlayer \cup {NULL}]
      /\ account_of \in [Token -> Accounts \cup {NULL}]
  BY DEF Init
<1> QED
  BY <1>1, <1>2, <1>3, <1>4, <1>5 DEF Init, TypeOK

LEMMA TypeStep == TypeOK /\ SessionsAgree /\ [Next]_vars => TypeOK'
<1> SUFFICES ASSUME TypeOK, ConnectionHasPlayer, PlayerHasConnection, [Next]_vars
             PROVE  TypeOK'
  BY DEF SessionsAgree
<1> USE DEF connVars, playerVars, batchVars, ctrlVars, authVars, clientVars
<1>1. CASE Poll
  BY <1>1 DEF Poll, TypeOK, Running
<1>2. CASE ProcessCtrlEvent
  <2>1. outgoing' \in Seq(CtrlMsg)
    BY <1>2, ServerReadyType, AppendProperties DEF ProcessCtrlEvent, TypeOK
  <2>2. ctrl_messages' \in Seq(Transfer \cup {NULL})
    <3>1. ctrl_in \in Seq(Transfer) /\ <<>> \in Seq(Transfer)
      BY DEF TypeOK
    <3> QED
      BY <1>2, <3>1, BringsRead DEF ProcessCtrlEvent
  <2>3. ctrl_in' \in Seq(Transfer)
    BY <1>2 DEF ProcessCtrlEvent, TypeOK
  <2>4. ctrl_open' \in BOOLEAN /\ ctrl_connected' \in BOOLEAN /\ ctrl_writable' \in BOOLEAN
    BY <1>2, Zenon DEF ProcessCtrlEvent, TypeOK
  <2>5. connections_with_event' \subseteq Socket /\ events' \in [Socket -> SUBSET {"read", "write"}]
    BY <1>2 DEF ProcessCtrlEvent, TakeEvent, TypeOK, Socket
  <2> QED
    BY <1>2, <2>1, <2>2, <2>3, <2>4, <2>5 DEF ProcessCtrlEvent, TypeOK
<1>3. CASE HandleTransferConnection
  <2> DEFINE msg == Head(ctrl_messages)
             p == Head(free_players)
  <2>1. msg \in Transfer /\ Tail(ctrl_messages) \in Seq(Transfer \cup {NULL})
    BY <1>3, HeadTailProperties DEF HandleTransferConnection, HandlesCtrl, TypeOK
  <2>2. CASE free_players = <<>> \/ parties = Size - 1
    BY <1>3, <2>2 DEF HandleTransferConnection, TypeOK
  <2>3. CASE ~(free_players = <<>> \/ parties = Size - 1)
    <3>1. p \in PlayerId /\ Tail(free_players) \in Seq(PlayerId)
      BY <2>3, HeadTailProperties DEF TypeOK
    <3>2. msg.token \in Token /\ msg.token \in Socket
          /\ [conn_token |-> msg.token, account_id |-> msg.account_id] \in GmPlayer
      BY <2>1 DEF Transfer, GmPlayer, Socket
    <3>3. parties + 1 \in 0..(Size - 1)
      BY <2>3, BoundsAssumption DEF TypeOK
    <3>4. Append(slots, msg.token) \in Seq(Token)
      BY <3>2, AppendProperties DEF TypeOK
    <3>5. /\ ctrl_messages' = Tail(ctrl_messages)
          /\ players' = [players EXCEPT ![p] =
                          [conn_token |-> msg.token, account_id |-> msg.account_id]]
          /\ free_players' = Tail(free_players)
          /\ parties' = parties + 1
          /\ connections' = [connections EXCEPT ![msg.token] = p]
          /\ slots' = Append(slots, msg.token)
          /\ armed' = [armed EXCEPT ![msg.token] = {"read", "write"}]
          /\ UNCHANGED halted
      BY <1>3, <2>3 DEF HandleTransferConnection
    <3>6. UNCHANGED <<messages, batchVars, phase, quit_signaled, ctrlVars, outgoing,
                      written, authVars, clientVars, cut>>
      BY <1>3 DEF HandleTransferConnection
    <3> HIDE DEF msg, p
    <3> QED
      BY <2>1, <3>1, <3>2, <3>3, <3>4, <3>5, <3>6 DEF TypeOK
  <2> QED
    BY <2>2, <2>3
<1>4. CASE SignalQuit
  BY <1>4 DEF SignalQuit, TypeOK
<1>5. ASSUME NEW t \in Token, NothingToRead(t) PROVE TypeOK'
  BY <1>5 DEF NothingToRead, TakeEvent, TypeOK, Socket
<1>6. ASSUME NEW t \in Token, Reads(t)
      PROVE  /\ from_client' \in [Token -> Seq(ClientMsgs)]
             /\ connections_with_event' \subseteq Socket
             /\ events' \in [Socket -> SUBSET {"read", "write"}]
             /\ connections[t] \in PlayerId /\ Unpacked(t) \in Seq(GamePlayerMsg)
  <2>1. connections[t] \in PlayerId /\ connections[t] # 0
    BY <1>6 DEF Reads, TypeOK, PlayerId
  <2>2. Unpacked(t) \in Seq(GamePlayerMsg)
    BY <2>1, UnpackedType
  <2>3. from_client' \in [Token -> Seq(ClientMsgs)]
    BY <1>6 DEF Reads, TypeOK
  <2>4. t \in Socket
    BY DEF Socket
  <2>5. /\ connections_with_event' \subseteq Socket
        /\ events' \in [Socket -> SUBSET {"read", "write"}]
    BY <1>6, <2>4 DEF Reads, TakeEvent, TypeOK
  <2> QED
    BY <2>1, <2>2, <2>3, <2>5
<1>7. ASSUME NEW t \in Token, GetMessages(t) PROVE TypeOK'
  <2>1. Reads(t)
    BY <1>7 DEF GetMessages
  <2>2. messages' \in Seq(GamePlayerMsg)
    BY <1>6, <1>7, <2>1, ConcatProperties DEF GetMessages, TypeOK
  <2> QED
    BY <1>6, <1>7, <2>1, <2>2 DEF GetMessages, Reads, TypeOK
<1>8. ASSUME NEW t \in Token, Reads(t), KillConnection(t), messages' \in Seq(GamePlayerMsg)
      PROVE  TypeOK'
  <2>1. connections[t] \in PlayerId /\ connections[t] # 0
    BY <1>6, <1>8 DEF PlayerId
  <2>2. /\ connections' \in [Token -> {0} \cup PlayerId] /\ slots' \in Seq(Token)
        /\ armed' \in [Socket -> SUBSET {"read", "write"}]
    BY <1>8, <2>1, DeleteKeeps DEF KillConnection
  <2>3. /\ players' \in [PlayerId -> GmPlayer \cup {NULL}]
        /\ free_players' \in Seq(PlayerId)
        /\ outgoing' \in Seq(CtrlMsg)
    BY <1>8, <2>1, ForgetType DEF KillConnection
  <2> QED
    BY <1>6, <1>8, <2>2, <2>3 DEF Reads, TypeOK
<1>9. ASSUME NEW t \in Token, GetMessagesKills(t) PROVE TypeOK'
  <2>1. Reads(t) /\ KillConnection(t)
    BY <1>9 DEF GetMessagesKills
  <2>2. messages' \in Seq(GamePlayerMsg)
    BY <1>6, <1>9, <2>1, ConcatProperties DEF GetMessagesKills, TypeOK
  <2> QED
    BY <1>8, <2>1, <2>2
<1>10. ASSUME NEW t \in Token, NEW p \in PlayerId, Reads(t),
              messages' = messages \o Append(Unpacked(t), Message(p, "disconnect", t))
       PROVE  messages' \in Seq(GamePlayerMsg)
  <2>1. Message(p, "disconnect", t) \in GamePlayerMsg
    BY MessageType DEF ClientMsgs
  <2>2. Append(Unpacked(t), Message(p, "disconnect", t)) \in Seq(GamePlayerMsg)
    BY <1>6, <1>10, <2>1, AppendProperties
  <2> QED
    BY <1>10, <2>2, ConcatProperties DEF TypeOK
<1>11. ASSUME NEW t \in Token, PeerDisconnected(t) PROVE TypeOK'
  <2>1. Reads(t)
    BY <1>11 DEF PeerDisconnected
  <2>2. messages' \in Seq(GamePlayerMsg)
    BY <1>6, <1>10, <1>11, <2>1 DEF PeerDisconnected
  <2> QED
    BY <1>6, <1>11, <2>1, <2>2 DEF PeerDisconnected, Reads, TypeOK
<1>12. ASSUME NEW t \in Token, PeerDisconnectedKills(t) PROVE TypeOK'
  <2>1. Reads(t) /\ KillConnection(t)
    BY <1>12 DEF PeerDisconnectedKills
  <2>2. PlayerInSlot(t) \in PlayerId
    BY <2>1, PlayerInSlotType DEF Reads
  <2>3. messages' \in Seq(GamePlayerMsg)
    BY <1>10, <1>12, <2>1, <2>2 DEF PeerDisconnectedKills
  <2> QED
    BY <1>8, <2>1, <2>3
<1>13. CASE EventsDone
  BY <1>13 DEF EventsDone, TypeOK
<1>14. ASSUME NEW header, Handles(header)
       PROVE  /\ messages' \in Seq(GamePlayerMsg)
              /\ Head(messages) \in GamePlayerMsg /\ Head(messages).player_id \in PlayerId
  <2>1. messages \in Seq(GamePlayerMsg) /\ messages # <<>> /\ messages' = Tail(messages)
    BY <1>14 DEF Handles, TypeOK
  <2>2. Head(messages) \in GamePlayerMsg /\ Tail(messages) \in Seq(GamePlayerMsg)
    BY <2>1, HeadTailProperties
  <2> QED
    BY <2>1, <2>2 DEF GamePlayerMsg
<1>15. CASE HandleOther
  BY <1>14, <1>15 DEF HandleOther, Handles, TypeOK
<1>16. ASSUME NEW header, Handles(header), NEW p \in PlayerId, RemovePlayer(p)
       PROVE  TypeOK'
  <2>1. /\ players' \in [PlayerId -> GmPlayer \cup {NULL}]
        /\ free_players' \in Seq(PlayerId)
        /\ outgoing' \in Seq(CtrlMsg)
    BY <1>16, ForgetType DEF RemovePlayer
  <2>2. /\ connections' \in [Token -> {0} \cup PlayerId] /\ slots' \in Seq(Token)
        /\ armed' \in [Socket -> SUBSET {"read", "write"}]
    <3>1. CASE players[p] = NULL
      BY <1>16, <3>1 DEF RemovePlayer, TypeOK
    <3>2. CASE players[p] # NULL
      <4> DEFINE t == players[p].conn_token
      <4>1. t \in Token
        BY <3>2, PlayerIsNotNull DEF TypeOK
      <4>2. CASE connections[t] = 0
        BY <1>16, <3>2, <4>2 DEF RemovePlayer, CloseConnection, TypeOK
      <4>3. CASE connections[t] # 0
        <5>1. Delete(t)
          BY <1>16, <3>2, <4>3 DEF RemovePlayer, CloseConnection
        <5> QED
          BY <4>1, <4>3, <5>1, DeleteKeeps
      <4> QED
        BY <4>2, <4>3
    <3> QED
      BY <3>1, <3>2
  <2> QED
    BY <1>14, <1>16, <2>1, <2>2 DEF Handles, TypeOK
<1>17. CASE HandleDisconnect
  BY <1>14, <1>16, <1>17 DEF HandleDisconnect
<1>18. CASE HandleCharCreationConfirm
  <2>1. Handles("confirm")
    BY <1>18 DEF HandleCharCreationConfirm
  <2>2. CASE UNCHANGED <<connVars, playerVars, outgoing, armed>>
    BY <1>14, <2>1, <2>2 DEF Handles, TypeOK
  <2>3. CASE RemovePlayer(Head(messages).player_id)
    BY <1>14, <1>16, <2>1, <2>3
  <2> QED
    BY <1>18, <2>2, <2>3 DEF HandleCharCreationConfirm
<1>19. CASE MessagesDone
  BY <1>19 DEF MessagesDone, TypeOK
<1>20. ASSUME NEW t \in Token, FlushFailed(t) PROVE TypeOK'
  <2>1. Delete(t) /\ connections[t] # 0
    BY <1>20 DEF FlushFailed, CloseConnection
  <2>2. /\ connections' \in [Token -> {0} \cup PlayerId] /\ slots' \in Seq(Token)
        /\ armed' \in [Socket -> SUBSET {"read", "write"}]
    BY <2>1, DeleteKeeps
  <2> QED
    BY <1>20, <2>2 DEF FlushFailed, TypeOK
<1>21. CASE UpdateDone
  <2>1. /\ written' \in Seq(CtrlMsg) /\ outgoing' \in Seq(CtrlMsg)
        /\ ctrl_writable' \in BOOLEAN
    <3>1. CASE ctrl_writable /\ ctrl_open /\ outgoing # <<>>
      <4>1. PICK n \in 0..Len(outgoing) :
               /\ written' = written \o SubSeq(outgoing, 1, n)
               /\ outgoing' = SubSeq(outgoing, n + 1, Len(outgoing))
               /\ ctrl_writable' = (n = Len(outgoing))
        BY <1>21, <3>1 DEF UpdateDone, UpdateWrite
      <4>2. /\ outgoing \in Seq(CtrlMsg) /\ Len(outgoing) \in Nat
            /\ n + 1 \in 1..(Len(outgoing) + 1) /\ 1 \in 1..(Len(outgoing) + 1)
            /\ Len(outgoing) \in 0..Len(outgoing)
        BY LenProperties DEF TypeOK
      <4>3. /\ SubSeq(outgoing, 1, n) \in Seq(CtrlMsg)
            /\ SubSeq(outgoing, n + 1, Len(outgoing)) \in Seq(CtrlMsg)
        BY <4>2, SubSeqType
      <4> QED
        BY <4>1, <4>3, ConcatProperties DEF TypeOK
    <3>2. CASE ~(ctrl_writable /\ ctrl_open /\ outgoing # <<>>)
      BY <1>21, <3>2 DEF UpdateDone, UpdateWrite, TypeOK
    <3> QED
      BY <3>1, <3>2
  <2>2. armed' \in [Socket -> SUBSET {"read", "write"}]
    BY <1>21 DEF UpdateDone, Interest, TypeOK
  <2>3. connections_with_event' \subseteq Socket /\ phase' \in {"exit", "poll"}
    BY <1>21 DEF UpdateDone
  <2> QED
    BY <1>21, <2>1, <2>2, <2>3 DEF UpdateDone, TypeOK
<1>22. CASE AuthGone
  BY <1>22 DEF AuthGone, threadVars, TypeOK
<1>23. ASSUME NEW t \in Token, NEW a \in Accounts, AuthTransfers(t, a) PROVE TypeOK'
  <2>1. [token |-> t, account_id |-> a] \in Transfer
    BY DEF Transfer
  <2>2. ctrl_in' \in Seq(Transfer)
    BY <1>23, <2>1, AppendProperties DEF AuthTransfers, TypeOK
  <2> QED
    BY <1>23, <2>2 DEF AuthTransfers, threadVars, TypeOK
<1>24. ASSUME NEW t \in Token, NEW m \in ClientMsgs, ClientSends(t, m) PROVE TypeOK'
  <2>1. Append(from_client[t], m) \in Seq(ClientMsgs)
    BY AppendProperties DEF TypeOK
  <2>2. from_client' \in [Token -> Seq(ClientMsgs)]
    BY <1>24, <2>1 DEF ClientSends, TypeOK
  <2> QED
    BY <1>24, <2>2 DEF ClientSends, threadVars, TypeOK
<1>25. ASSUME NEW t \in Token, ClientHangsUp(t) PROVE TypeOK'
  BY <1>25 DEF ClientHangsUp, threadVars, TypeOK
<1>26. CASE UNCHANGED vars
  BY <1>26 DEF vars, TypeOK
<1> QED
  BY <1>1, <1>2, <1>3, <1>4, <1>5, <1>7, <1>9, <1>11, <1>12, <1>13, <1>15, <1>17, <1>18,
     <1>19, <1>20, <1>21, <1>22, <1>23, <1>24, <1>25, <1>26
     DEF Next, Thread, Environment, GameEvent

-----------------------------------------------------------------------------
(* What a step does to the connections, the players, the transfers and the *)
(* messages for the authentication server                                 *)

SessionsKept == UNCHANGED <<connections, slots, players, free_players, cut>>

TransfersKept == UNCHANGED <<ctrl_messages, ctrl_in, account_of>>

MessagesKept == /\ written' \o outgoing' = written \o outgoing
                /\ written # <<>> => written' # <<>>
                /\ UNCHANGED ctrl_connected

Deleted(t) == /\ connections[t] # 0
              /\ connections' = [connections EXCEPT ![t] = 0]
              /\ Distinct(slots')
              /\ \A u : Occurs(slots', u) <=> Occurs(slots, u) /\ u # t

Forgotten(p) == /\ players[p] # NULL
                /\ players' = [players EXCEPT ![p] = NULL]
                /\ free_players' = Append(free_players, p)
                /\ outgoing' = Append(outgoing, PlayerLeft(players[p]))
                /\ UNCHANGED <<written, ctrl_connected>>

Flushed(t) == Deleted(t) /\ cut' = cut \cup {t} /\ UNCHANGED playerVars

Ended(t) == Deleted(t) /\ Forgotten(connections[t]) /\ UNCHANGED cut

Alone(p) == /\ Forgotten(p)
            /\ connections[players[p].conn_token] = 0
            /\ UNCHANGED <<connections, slots, cut>>

Joined(m) ==
  /\ ctrl_messages # <<>> /\ Head(ctrl_messages) = m
  /\ ctrl_messages' = Tail(ctrl_messages)
  /\ free_players # <<>>
  /\ players' = [players EXCEPT ![Head(free_players)] =
                   [conn_token |-> m.token, account_id |-> m.account_id]]
  /\ free_players' = Tail(free_players)
  /\ connections' = [connections EXCEPT ![m.token] = Head(free_players)]
  /\ slots' = Append(slots, m.token)
  /\ UNCHANGED <<cut, ctrl_in, account_of>>

TransfersRead ==
  /\ ctrl_messages = <<>>
  /\ \/ \E end \in {<<>>, <<NULL>>} : ctrl_messages' = ctrl_in \o end /\ ctrl_in' = <<>>
     \/ ctrl_messages' = <<>> /\ ctrl_in' = ctrl_in
  /\ UNCHANGED account_of

\* With the connection goes what was not written to it; when it is established
\* the server announces itself.
CtrlAnswered ==
  /\ UNCHANGED written
  /\ \/ outgoing' \in {outgoing, <<>>} /\ (ctrl_connected => ctrl_connected')
     \/ ~ctrl_connected /\ ctrl_connected' /\ outgoing' = Append(outgoing, ServerReady)
     \/ ~ctrl_connected /\ ctrl_connected' /\ outgoing' = <<ServerReady>>

TransfersEnd == /\ ctrl_messages # <<>> /\ Head(ctrl_messages) = NULL
                /\ ctrl_messages' = <<>>
                /\ UNCHANGED <<ctrl_in, account_of>>

HandedOver(t, a) ==
  /\ written # <<>>
  /\ account_of[t] = NULL
  /\ account_of' = [account_of EXCEPT ![t] = a]
  /\ ctrl_in' = Append(ctrl_in, [token |-> t, account_id |-> a])
  /\ UNCHANGED ctrl_messages

SessionChange ==
  \/ SessionsKept /\ TransfersKept /\ MessagesKept
  \/ SessionsKept /\ TransfersRead /\ CtrlAnswered
  \/ SessionsKept /\ TransfersEnd /\ MessagesKept
  \/ SessionsKept /\ MessagesKept /\ \E t \in Token, a \in Accounts : HandedOver(t, a)
  \/ \E t \in Token : Flushed(t) /\ TransfersKept /\ MessagesKept
  \/ \E t \in Token : Ended(t) /\ TransfersKept
  \/ \E p \in PlayerId : Alone(p) /\ TransfersKept
  \/ \E m \in Transfer : Joined(m) /\ MessagesKept

LEMMA SplitAppended ==
  ASSUME NEW S, NEW s \in Seq(S), NEW r \in Seq(S), NEW n \in 0..Len(r)
  PROVE  /\ (s \o SubSeq(r, 1, n)) \o SubSeq(r, n + 1, Len(r)) = s \o r
         /\ s # <<>> => s \o SubSeq(r, 1, n) # <<>>
<1>1. Len(r) \in Nat /\ n \in Nat /\ n <= Len(r)
  BY LenProperties
<1>2. /\ 1 \in 1..(Len(r) + 1) /\ n + 1 \in 1..(Len(r) + 1)
      /\ Len(r) \in 0..Len(r) /\ 1 - 1 = 0 /\ n \in (1 - 1)..Len(r) /\ Len(r) \in n..Len(r)
  BY <1>1
<1>3. SubSeq(r, 1, n) \in Seq(S) /\ SubSeq(r, n + 1, Len(r)) \in Seq(S)
  BY <1>2, SubSeqType
<1>4. SubSeq(r, 1, n) \o SubSeq(r, n + 1, Len(r)) = SubSeq(r, 1, Len(r))
  BY <1>2, ConcatAdjacentSubSeq
<1>5. SubSeq(r, 1, Len(r)) = r
  BY SubSeqFull
<1> DEFINE front == SubSeq(r, 1, n)
           back  == SubSeq(r, n + 1, Len(r))
<1>6. front \in Seq(S) /\ back \in Seq(S) /\ front \o back = r
  BY <1>3, <1>4, <1>5
<1> HIDE DEF front, back
<1>7. (s \o front) \o back = s \o (front \o back)
  <2>1. ASSUME NEW a \in Seq(S), NEW b \in Seq(S) PROVE (s \o a) \o b = s \o (a \o b)
    BY ConcatAssociative
  <2> QED
    BY <1>6, <2>1, Zenon
<1>8. s # <<>> => s \o front # <<>>
  BY <1>6, ConcatEqualIffEmpty
<1>9. (s \o front) \o back = s \o r
  BY <1>6, <1>7
<1> QED
  BY <1>8, <1>9 DEF front, back

LEMMA SessionStep ==
  ASSUME TypeOK, SessionsAgree, CutIsClosed, [Next]_vars
  PROVE  SessionChange
<1>1. ConnectionHasPlayer /\ PlayerHasConnection
  BY DEF SessionsAgree
<1>2. ASSUME NEW t \in Token, connections[t] # 0, Delete(t) PROVE Deleted(t)
  BY <1>1, <1>2, DeleteKeeps DEF Deleted
<1>3. ASSUME NEW t \in Token, connections[t] # 0, KillConnection(t),
             UNCHANGED <<cut, written, ctrl_connected>>
      PROVE  Ended(t)
  <2>1. players[connections[t]] # NULL
    BY <1>1, <1>3 DEF ConnectionHasPlayer
  <2>2. Forgotten(connections[t])
    BY <1>3, <2>1 DEF KillConnection, Forget, Forgotten
  <2>3. Deleted(t)
    BY <1>2, <1>3 DEF KillConnection
  <2> QED
    BY <1>3, <2>2, <2>3 DEF Ended
<1>4. ASSUME NEW p \in PlayerId, RemovePlayer(p),
             UNCHANGED <<cut, written, ctrl_connected>>
      PROVE  \/ SessionsKept /\ MessagesKept
             \/ Alone(p)
             \/ \E t \in Token : Ended(t)
  <2>1. CASE players[p] = NULL
    BY <1>4, <2>1
       DEF RemovePlayer, Forget, SessionsKept, MessagesKept, connVars, playerVars
  <2>2. CASE players[p] # NULL
    <3> DEFINE t == players[p].conn_token
    <3>1. t \in Token /\ Forgotten(p) /\ CloseConnection(t)
      BY <1>4, <2>2, PlayerIsNotNull DEF RemovePlayer, Forget, Forgotten, TypeOK
    <3>2. CASE connections[t] = 0
      BY <1>4, <3>1, <3>2 DEF CloseConnection, Alone, connVars
    <3>3. CASE connections[t] # 0
      <4>1. Deleted(t)
        BY <1>2, <3>1, <3>3 DEF CloseConnection
      <4>2. connections[t] \in PlayerId /\ players[connections[t]].conn_token = t
        BY <1>1, <3>1, <3>3 DEF ConnectionHasPlayer, TypeOK
      <4>3. connections[t] = p
        <5>1. connections[t] = p \/ t \in cut
          BY <1>1, <2>2 DEF PlayerHasConnection
        <5> QED
          BY <5>1, <3>3 DEF CutIsClosed
      <4> QED
        BY <1>4, <3>1, <4>1, <4>3 DEF Ended
    <3> QED
      BY <3>2, <3>3
  <2> QED
    BY <2>1, <2>2
<1>5. CASE UNCHANGED <<connVars, playerVars, cut, ctrl_messages, ctrl_in, account_of,
                       written, outgoing, ctrl_connected>>
  BY <1>5
     DEF SessionChange, SessionsKept, TransfersKept, MessagesKept, connVars, playerVars
<1>6. CASE ProcessCtrlEvent
  <2>1. SessionsKept
    BY <1>6 DEF ProcessCtrlEvent, SessionsKept, connVars, playerVars
  <2>2. TransfersRead
    <3>1. ctrl_messages = <<>> /\ UNCHANGED account_of
      BY <1>6 DEF ProcessCtrlEvent, TakeEvent
    <3>2. CASE "read" \in events[0]
      BY <1>6, <3>1, <3>2 DEF ProcessCtrlEvent, TransfersRead
    <3>3. CASE "read" \notin events[0]
      <4>1. ctrl_messages' = <<>> \o <<>> /\ ctrl_in' = ctrl_in
        BY <1>6, <3>3 DEF ProcessCtrlEvent
      <4> QED
        BY <3>1, <4>1 DEF TransfersRead
    <3> QED
      BY <3>2, <3>3
  <2>3. CtrlAnswered
    <3> DEFINE lost     == "read" \in events[0] /\ ctrl_lost
               writable == ctrl_writable \/ "write" \in events[0]
               kept     == IF lost THEN <<>> ELSE outgoing
    <3>1. /\ ctrl_connected' = (ctrl_connected \/ writable)
          /\ outgoing' = IF writable /\ ~ctrl_connected THEN Append(kept, ServerReady) ELSE kept
          /\ UNCHANGED written
      BY <1>6 DEF ProcessCtrlEvent
    <3>2. kept \in {outgoing, <<>>}
      OBVIOUS
    <3>3. Append(<<>>, ServerReady) = <<ServerReady>>
      OBVIOUS
    <3> HIDE DEF kept, writable
    <3>4. CASE writable /\ ~ctrl_connected
      BY <3>1, <3>2, <3>3, <3>4 DEF CtrlAnswered
    <3>5. CASE ~(writable /\ ~ctrl_connected)
      BY <3>1, <3>2, <3>5 DEF CtrlAnswered
    <3> QED
      BY <3>4, <3>5
  <2> QED
    BY <2>1, <2>2, <2>3 DEF SessionChange
<1>7. CASE HandleTransferConnection
  <2> DEFINE m == Head(ctrl_messages)
  <2>1. m \in Transfer /\ ctrl_messages # <<>>
    BY <1>7, HeadTailProperties DEF HandleTransferConnection, HandlesCtrl, TypeOK
  <2>2. CASE free_players = <<>> \/ parties = Size - 1
    BY <1>5, <1>7, <2>2 DEF HandleTransferConnection, authVars, ctrlVars
  <2>3. CASE ~(free_players = <<>> \/ parties = Size - 1)
    <3>1. Joined(m) /\ MessagesKept
      BY <1>7, <2>1, <2>3
         DEF HandleTransferConnection, Joined, MessagesKept, authVars, ctrlVars
    <3> QED
      BY <2>1, <3>1 DEF SessionChange
  <2> QED
    BY <2>2, <2>3
<1>8. CASE SignalQuit
  BY <1>8 DEF SignalQuit, HandlesCtrl, SessionChange, SessionsKept, TransfersEnd, MessagesKept,
              connVars, playerVars, authVars, ctrlVars
<1>9. ASSUME NEW t \in Token, NothingToRead(t) \/ GetMessages(t) \/ PeerDisconnected(t)
      PROVE  SessionChange
  BY <1>5, <1>9 DEF NothingToRead, GetMessages, PeerDisconnected, Reads, authVars, ctrlVars
<1>10. ASSUME NEW t \in Token, GetMessagesKills(t) \/ PeerDisconnectedKills(t)
       PROVE  SessionChange
  <2>1. /\ Reads(t) /\ KillConnection(t)
        /\ connections[t] # 0 /\ UNCHANGED <<cut, written, ctrl_connected>>
    BY <1>10 DEF GetMessagesKills, PeerDisconnectedKills, Reads, ctrlVars
  <2>2. TransfersKept
    BY <2>1, <1>10 DEF Reads, TransfersKept, authVars
  <2> QED
    BY <1>3, <2>1, <2>2 DEF SessionChange
<1>11. CASE HandleDisconnect \/ HandleCharCreationConfirm
  <2> DEFINE p == Head(messages).player_id
  <2>1. /\ messages # <<>>
        /\ TransfersKept /\ UNCHANGED <<cut, written, ctrl_connected>>
        /\ RemovePlayer(p) \/ UNCHANGED <<connVars, playerVars, outgoing>>
    BY <1>11
       DEF HandleDisconnect, HandleCharCreationConfirm, Handles, TransfersKept, authVars, ctrlVars
  <2>2. p \in PlayerId
    <3>1. Head(messages) \in GamePlayerMsg
      BY <2>1, HeadTailProperties DEF TypeOK
    <3> QED
      BY <3>1 DEF GamePlayerMsg
  <2> HIDE DEF p
  <2>3. CASE RemovePlayer(p)
    BY <1>4, <2>1, <2>2, <2>3 DEF SessionChange
  <2>4. CASE UNCHANGED <<connVars, playerVars, outgoing>>
    BY <2>1, <2>4 DEF SessionChange, SessionsKept, MessagesKept, connVars, playerVars
  <2> QED
    BY <2>1, <2>3, <2>4
<1>12. ASSUME NEW t \in Token, FlushFailed(t) PROVE SessionChange
  <2>1. Delete(t) /\ connections[t] # 0 /\ TransfersKept /\ MessagesKept
    BY <1>12 DEF FlushFailed, CloseConnection, TransfersKept, MessagesKept, authVars, ctrlVars
  <2>2. Flushed(t)
    BY <1>2, <1>12, <2>1 DEF FlushFailed, Flushed
  <2> QED
    BY <2>1, <2>2 DEF SessionChange
<1>13. CASE Poll \/ EventsDone \/ MessagesDone
  BY <1>5, <1>13 DEF Poll, EventsDone, MessagesDone, authVars, ctrlVars
<1>14. CASE HandleOther
  BY <1>5, <1>14 DEF HandleOther, Handles, authVars, ctrlVars
<1>15. CASE AuthGone
  BY <1>5, <1>15 DEF AuthGone, threadVars, ctrlVars
<1>16. ASSUME NEW t \in Token, NEW a \in Accounts, AuthTransfers(t, a)
       PROVE  SessionChange
  <2>1. SessionsKept /\ HandedOver(t, a) /\ MessagesKept
    BY <1>16
       DEF AuthTransfers, threadVars, SessionsKept, HandedOver, MessagesKept, connVars,
           playerVars, ctrlVars
  <2> QED
    BY <2>1 DEF SessionChange
<1>17. ASSUME NEW t \in Token, ClientHangsUp(t) \/ \E m \in ClientMsgs : ClientSends(t, m)
       PROVE  SessionChange
  BY <1>5, <1>17 DEF ClientHangsUp, ClientSends, threadVars, authVars, ctrlVars
<1>18. CASE UNCHANGED vars
  BY <1>5, <1>18 DEF vars, authVars, ctrlVars
<1>19. CASE UpdateDone
  <2>1. SessionsKept /\ TransfersKept /\ UNCHANGED ctrl_connected
    BY <1>19 DEF UpdateDone, SessionsKept, TransfersKept, connVars, playerVars, authVars
  <2>2. CASE ctrl_writable /\ ctrl_open /\ outgoing # <<>>
    <3>1. PICK n \in 0..Len(outgoing) :
             /\ written' = written \o SubSeq(outgoing, 1, n)
             /\ outgoing' = SubSeq(outgoing, n + 1, Len(outgoing))
      BY <1>19, <2>2 DEF UpdateDone, UpdateWrite
    <3>2. outgoing \in Seq(CtrlMsg) /\ written \in Seq(CtrlMsg)
      BY DEF TypeOK
    <3>3. written' \o outgoing' = written \o outgoing /\ (written # <<>> => written' # <<>>)
      BY <3>1, <3>2, SplitAppended
    <3> QED
      BY <2>1, <3>3 DEF SessionChange, MessagesKept
  <2>3. CASE ~(ctrl_writable /\ ctrl_open /\ outgoing # <<>>)
    BY <1>19, <2>1, <2>3 DEF UpdateDone, UpdateWrite, SessionChange, MessagesKept
  <2> QED
    BY <2>2, <2>3
<1> QED
  BY <1>19, <1>6, <1>7, <1>8, <1>9, <1>10, <1>11, <1>12, <1>13, <1>14, <1>15, <1>16, <1>17, <1>18
     DEF Next, Thread, Environment, GameEvent

-----------------------------------------------------------------------------
(* Connections and players *)

\* The properties in terms of what a sequence holds.
LEMMA ConnectionHasPlayerHolds ==
  ConnectionHasPlayer <=>
    /\ \A t \in Token : connections[t] # 0 =>
         /\ players[connections[t]] # NULL
         /\ players[connections[t]].conn_token = t
    /\ \A t \in Token : connections[t] # 0 <=> Occurs(slots, t)
    /\ Distinct(slots)
  BY DEF ConnectionHasPlayer, Occurs, Distinct

LEMMA IdsAreAccountedHolds ==
  IdsAreAccounted <=>
    /\ \A p \in PlayerId : players[p] = NULL <=> Occurs(free_players, p)
    /\ Distinct(free_players)
  BY DEF IdsAreAccounted, Occurs, Distinct

LEMMA IdsStep ==
  ASSUME TypeOK, IdsAreAccounted, SessionsAgree, SessionChange
  PROVE  IdsAreAccounted'
<1>1. /\ \A p \in PlayerId : players[p] = NULL <=> Occurs(free_players, p)
      /\ Distinct(free_players) /\ free_players \in Seq(PlayerId)
  BY IdsAreAccountedHolds DEF TypeOK
<1> DEFINE Accounted == /\ \A p \in PlayerId : players'[p] = NULL <=> Occurs(free_players', p)
                        /\ Distinct(free_players')
<1>2. ASSUME NEW p \in PlayerId, Forgotten(p) PROVE Accounted
  <2>1. ~Occurs(free_players, p)
    BY <1>1, <1>2 DEF Forgotten
  <2>2. Distinct(free_players') /\ \A q : Occurs(free_players', q) <=> Occurs(free_players, q) \/ q = p
    BY <1>1, <1>2, <2>1, AppendOccurs DEF Forgotten
  <2>3. \A q \in PlayerId : players'[q] = IF q = p THEN NULL ELSE players[q]
    BY <1>2 DEF Forgotten, TypeOK
  <2> QED
    BY <1>1, <2>2, <2>3
<1>3. ASSUME NEW m \in Transfer, Joined(m) PROVE Accounted
  <2> DEFINE p == Head(free_players)
             new == [conn_token |-> m.token, account_id |-> m.account_id]
  <2>1. /\ p \in PlayerId /\ Distinct(free_players') /\ ~Occurs(free_players', p)
        /\ \A q : Occurs(free_players, q) <=> q = p \/ Occurs(free_players', q)
    BY <1>1, <1>3, TailOccurs DEF Joined
  <2>2. new # NULL
    BY PlayerIsNotNull DEF Transfer, GmPlayer
  <2>3. players' = [players EXCEPT ![p] = new]
    BY <1>3 DEF Joined
  <2> HIDE DEF p, new
  <2>4. \A q \in PlayerId : players'[q] = IF q = p THEN new ELSE players[q]
    BY <2>1, <2>3 DEF TypeOK
  <2> QED
    BY <1>1, <2>1, <2>2, <2>4
<1>4. ASSUME UNCHANGED <<players, free_players>> PROVE Accounted
  BY <1>1, <1>4 DEF Occurs, Distinct
<1>5. ASSUME NEW t \in Token, Ended(t) PROVE Accounted
  <2>1. connections[t] \in PlayerId /\ Forgotten(connections[t])
    BY <1>5 DEF Ended, Deleted, TypeOK
  <2> QED
    BY <1>2, <2>1
<1>6. Accounted
  BY <1>2, <1>3, <1>4, <1>5 DEF SessionChange, SessionsKept, Flushed, Alone, playerVars
<1> QED
  BY <1>6 DEF IdsAreAccounted, Occurs, Distinct

LEMMA SessionsKeep ==
  ASSUME TypeOK, SessionsAgree, CutIsClosed, IdsAreAccounted, TransfersAreFresh, SessionChange
  PROVE  SessionsAgree' /\ CutIsClosed'
<1> DEFINE HasPlayer == \A t \in Token : connections[t] # 0 =>
                          /\ players[connections[t]] # NULL
                          /\ players[connections[t]].conn_token = t
           InArray == (\A t \in Token : connections[t] # 0 <=> Occurs(slots, t)) /\ Distinct(slots)
           Has(p) == players[p] # NULL =>
                       connections[players[p].conn_token] = p \/ players[p].conn_token \in cut
           Good == /\ HasPlayer' /\ InArray' /\ CutIsClosed'
                   /\ \A p \in PlayerId : Has(p)'
<1>1. /\ HasPlayer /\ InArray /\ \A p \in PlayerId : Has(p)
  BY ConnectionHasPlayerHolds DEF SessionsAgree, PlayerHasConnection
<1>2. /\ \A t \in Token : connections[t] # 0 => connections[t] \in PlayerId
      /\ \A p \in PlayerId : players[p] # NULL => players[p].conn_token \in Token
      /\ cut \subseteq Token /\ 0 \notin PlayerId
  <2>1. \A t \in Token : connections[t] # 0 => connections[t] \in PlayerId
    BY DEF TypeOK
  <2>2. \A p \in PlayerId : players[p] # NULL => players[p].conn_token \in Token
    BY PlayerIsNotNull DEF TypeOK
  <2>3. cut \subseteq Token /\ 0 \notin PlayerId
    BY DEF TypeOK, PlayerId
  <2> QED
    BY <2>1, <2>2, <2>3
<1>3. ASSUME SessionsKept PROVE Good
  BY <1>1, <1>3 DEF SessionsKept, CutIsClosed, Occurs, Distinct
<1>4. ASSUME NEW t \in Token, Deleted(t)
      PROVE  /\ InArray'
             /\ \A u \in Token : connections'[u] = IF u = t THEN 0 ELSE connections[u]
  <2>1. \A u \in Token : connections'[u] = IF u = t THEN 0 ELSE connections[u]
    BY <1>4 DEF Deleted, TypeOK
  <2>2. \A u \in Token : connections'[u] # 0 <=> Occurs(slots', u)
    BY <1>1, <1>4, <2>1 DEF Deleted
  <2>3. Distinct(slots')
    BY <1>4 DEF Deleted
  <2>4. InArray'
    BY <2>2, <2>3 DEF Occurs, Distinct
  <2> QED
    BY <2>1, <2>4
<1>5. ASSUME NEW t \in Token, Flushed(t) PROVE Good
  <2>1. Deleted(t) /\ cut' = cut \cup {t} /\ players' = players
    BY <1>5 DEF Flushed, playerVars
  <2>2. /\ InArray'
        /\ \A u \in Token : connections'[u] = IF u = t THEN 0 ELSE connections[u]
    BY <1>4, <2>1
  <2>3. HasPlayer'
    BY <1>1, <2>1, <2>2
  <2>4. CutIsClosed'
    BY <1>2, <2>1, <2>2 DEF CutIsClosed
  <2>5. \A p \in PlayerId : Has(p)'
    BY <1>1, <1>2, <2>1, <2>2
  <2> QED
    BY <2>2, <2>3, <2>4, <2>5
<1>6. ASSUME NEW p \in PlayerId, Forgotten(p)
      PROVE  \A q \in PlayerId : players'[q] = IF q = p THEN NULL ELSE players[q]
  BY <1>6 DEF Forgotten, TypeOK
<1>7. ASSUME NEW t \in Token, Ended(t) PROVE Good
  <2> DEFINE p == connections[t]
  <2>1. Deleted(t) /\ Forgotten(p) /\ cut' = cut /\ p # 0 /\ p \in PlayerId
    BY <1>2, <1>7 DEF Ended, Deleted
  <2>2. /\ InArray'
        /\ \A u \in Token : connections'[u] = IF u = t THEN 0 ELSE connections[u]
    BY <1>4, <2>1
  <2>3. \A q \in PlayerId : players'[q] = IF q = p THEN NULL ELSE players[q]
    BY <1>6, <2>1
  <2>4. players[p].conn_token = t /\ players[p] # NULL
    BY <1>1, <2>1
  <2>5. HasPlayer'
    <3> SUFFICES ASSUME NEW u \in Token, connections'[u] # 0
                 PROVE  /\ players'[connections'[u]] # NULL
                        /\ players'[connections'[u]].conn_token = u
      OBVIOUS
    <3>1. u # t /\ connections'[u] = connections[u] /\ connections[u] \in PlayerId
      BY <1>2, <2>2
    <3>2. connections[u] # p
      BY <1>1, <2>4, <3>1
    <3> QED
      BY <1>1, <2>3, <3>1, <3>2
  <2>6. CutIsClosed'
    BY <1>2, <2>1, <2>2 DEF CutIsClosed
  <2>7. \A q \in PlayerId : Has(q)'
    BY <1>1, <1>2, <2>1, <2>2, <2>3, <2>4
  <2> QED
    BY <2>2, <2>5, <2>6, <2>7
<1>8. ASSUME NEW p \in PlayerId, Alone(p) PROVE Good
  <2>1. /\ Forgotten(p) /\ connections[players[p].conn_token] = 0 /\ players[p] # NULL
        /\ connections' = connections /\ slots' = slots /\ cut' = cut
    BY <1>8 DEF Alone, Forgotten
  <2>2. \A q \in PlayerId : players'[q] = IF q = p THEN NULL ELSE players[q]
    BY <1>6, <2>1
  <2>3. \A u \in Token : connections[u] # p
    BY <1>1, <1>2, <2>1
  <2>4. HasPlayer'
    BY <1>1, <1>2, <2>1, <2>2, <2>3
  <2>5. InArray' /\ CutIsClosed'
    BY <1>1, <2>1 DEF Occurs, Distinct, CutIsClosed
  <2>6. \A q \in PlayerId : Has(q)'
    BY <1>1, <1>2, <2>1, <2>2
  <2> QED
    BY <2>4, <2>5, <2>6
<1>9. ASSUME NEW m \in Transfer, Joined(m) PROVE Good
  <2> DEFINE p == Head(free_players)
             t == m.token
             new == [conn_token |-> t, account_id |-> m.account_id]
  <2>1. /\ ctrl_messages # <<>> /\ Head(ctrl_messages) = m /\ free_players # <<>>
        /\ players' = [players EXCEPT ![p] = new]
        /\ connections' = [connections EXCEPT ![t] = p]
        /\ slots' = Append(slots, t) /\ cut' = cut
    BY <1>9 DEF Joined
  <2>2. m # NULL /\ t \in Token
    BY TransferIsNotNull
  <2>3. Unused(t)
    <3>1. Brings(ctrl_messages, t)
      BY <2>1, <2>2, BringsTail DEF TypeOK
    <3> QED
      BY <2>2, <3>1 DEF TransfersAreFresh, Waits
  <2>4. p \in PlayerId /\ players[p] = NULL /\ p # 0
    <3>1. p \in PlayerId /\ Occurs(free_players, p)
      BY <2>1, TailOccurs DEF TypeOK
    <3> QED
      BY <1>2, <3>1, IdsAreAccountedHolds
  <2>5. new # NULL /\ new.conn_token = t
    BY PlayerIsNotNull DEF Transfer, GmPlayer
  <2> HIDE DEF p, t, new
  <2>6. \A q \in PlayerId : players'[q] = IF q = p THEN new ELSE players[q]
    BY <2>1, <2>4 DEF TypeOK
  <2>7. \A u \in Token : connections'[u] = IF u = t THEN p ELSE connections[u]
    BY <2>1, <2>2 DEF TypeOK
  <2>8. HasPlayer'
    <3> SUFFICES ASSUME NEW u \in Token, connections'[u] # 0
                 PROVE  /\ players'[connections'[u]] # NULL
                        /\ players'[connections'[u]].conn_token = u
      OBVIOUS
    <3>1. CASE u = t
      BY <2>2, <2>4, <2>5, <2>6, <2>7, <3>1
    <3>2. CASE u # t
      <4>1. connections'[u] = connections[u] /\ connections[u] \in PlayerId /\ connections[u] # p
        BY <1>1, <1>2, <2>4, <2>7, <3>2
      <4> QED
        BY <1>1, <2>6, <4>1
    <3> QED
      BY <3>1, <3>2
  <2>9. InArray'
    <3>1. ~Occurs(slots, t)
      BY <1>1, <2>2, <2>3 DEF Unused
    <3>2. Distinct(slots') /\ \A u : Occurs(slots', u) <=> Occurs(slots, u) \/ u = t
      BY <1>1, <2>1, <2>2, <3>1, AppendOccurs DEF TypeOK
    <3>3. \A u \in Token : connections'[u] # 0 <=> Occurs(slots', u)
      BY <1>1, <2>4, <2>7, <3>2
    <3> QED
      BY <3>2, <3>3 DEF Occurs, Distinct
  <2>10. CutIsClosed'
    BY <1>2, <2>1, <2>3, <2>7 DEF CutIsClosed, Unused
  <2>11. \A q \in PlayerId : Has(q)'
    <3> SUFFICES ASSUME NEW q \in PlayerId, players'[q] # NULL
                 PROVE  \/ connections'[players'[q].conn_token] = q
                        \/ players'[q].conn_token \in cut
      BY <2>1
    <3>1. CASE q = p
      BY <2>2, <2>5, <2>6, <2>7, <3>1
    <3>2. CASE q # p
      <4>1. players'[q] = players[q] /\ players[q].conn_token \in Token
            /\ players[q].conn_token # t
        BY <1>2, <2>3, <2>6, <3>2 DEF Unused
      <4> QED
        BY <1>1, <2>7, <4>1
    <3> QED
      BY <3>1, <3>2
  <2> QED
    BY <2>8, <2>9, <2>10, <2>11
<1>10. Good
  BY <1>3, <1>5, <1>7, <1>8, <1>9 DEF SessionChange
<1>11. ConnectionHasPlayer'
  BY <1>10 DEF ConnectionHasPlayer, Occurs, Distinct
<1>12. PlayerHasConnection'
  BY <1>10 DEF PlayerHasConnection
<1> QED
  BY <1>10, <1>11, <1>12 DEF SessionsAgree

-----------------------------------------------------------------------------
(* Transfers are fresh *)

\* Whoever is unused stays so unless it is taken over.
LEMMA UnusedKept ==
  ASSUME TypeOK, NEW t \in Token, Unused(t),
         \/ SessionsKept
         \/ \E u \in Token : Flushed(u) \/ Ended(u)
         \/ \E p \in PlayerId : Alone(p)
         \/ \E m \in Transfer : Joined(m) /\ t # m.token
  PROVE  Unused(t)'
<1>1. /\ connections[t] = 0 /\ t \notin cut
      /\ \A p \in PlayerId : players[p] # NULL => players[p].conn_token # t
  BY DEF Unused
<1>2. ASSUME NEW u \in Token, Deleted(u) PROVE u # t /\ connections'[t] = 0
  BY <1>1, <1>2 DEF Deleted, TypeOK
<1>3. ASSUME NEW p, Forgotten(p)
      PROVE  \A q \in PlayerId : players'[q] # NULL => players'[q].conn_token # t
  BY <1>1, <1>3 DEF Forgotten, TypeOK
<1>4. ASSUME SessionsKept PROVE Unused(t)'
  BY <1>1, <1>4 DEF SessionsKept, Unused
<1>5. ASSUME NEW u \in Token, Flushed(u) PROVE Unused(t)'
  BY <1>1, <1>2, <1>5 DEF Flushed, Unused, playerVars
<1>6. ASSUME NEW u \in Token, Ended(u) PROVE Unused(t)'
  BY <1>1, <1>2, <1>3, <1>6 DEF Ended, Unused
<1>7. ASSUME NEW p \in PlayerId, Alone(p) PROVE Unused(t)'
  BY <1>1, <1>3, <1>7 DEF Alone, Unused
<1>8. ASSUME NEW m \in Transfer, Joined(m), t # m.token PROVE Unused(t)'
  <2> DEFINE p == Head(free_players)
             new == [conn_token |-> m.token, account_id |-> m.account_id]
  <2>1. /\ t # m.token /\ p \in PlayerId
        /\ players' = [players EXCEPT ![p] = new]
        /\ connections' = [connections EXCEPT ![m.token] = p] /\ cut' = cut
    BY <1>8, TailOccurs DEF Joined, TypeOK
  <2>2. new.conn_token = m.token
    OBVIOUS
  <2> HIDE DEF p, new
  <2>3. connections'[t] = 0
    BY <1>1, <2>1 DEF TypeOK
  <2>4. \A q \in PlayerId : players'[q] # NULL => players'[q].conn_token # t
    BY <1>1, <2>1, <2>2 DEF TypeOK
  <2> QED
    BY <1>1, <2>1, <2>3, <2>4 DEF Unused
<1> QED
  BY <1>4, <1>5, <1>6, <1>7, <1>8

LEMMA BringsNothing == OncePerToken(<<>>) /\ \A t : ~Brings(<<>>, t)
  BY DEF OncePerToken, Brings

LEMMA FreshStep ==
  ASSUME TypeOK, TransfersAreFresh, SessionChange
  PROVE  TransfersAreFresh'
<1> DEFINE New(t) == Brings(ctrl_messages', t) \/ Brings(ctrl_in', t)
           Fresh == /\ \A t \in Token : account_of'[t] = NULL => Unused(t)' /\ ~New(t)
                    /\ \A t \in Token : New(t) => Unused(t)'
                    /\ \A t \in Token : ~(Brings(ctrl_messages', t) /\ Brings(ctrl_in', t))
                    /\ OncePerToken(ctrl_messages')
                    /\ OncePerToken(ctrl_in')
<1>1. /\ \A t \in Token : account_of[t] = NULL => Unused(t) /\ ~Waits(t)
      /\ \A t \in Token : Waits(t) => Unused(t)
      /\ \A t \in Token : ~(Brings(ctrl_messages, t) /\ Brings(ctrl_in, t))
      /\ OncePerToken(ctrl_messages) /\ OncePerToken(ctrl_in)
  BY DEF TransfersAreFresh
<1>2. ASSUME TransfersKept,
             \/ SessionsKept
             \/ \E u \in Token : Flushed(u) \/ Ended(u)
             \/ \E p \in PlayerId : Alone(p)
      PROVE  Fresh
  <2>1. \A t \in Token : Unused(t) => Unused(t)'
    BY <1>2, UnusedKept
  <2>2. ctrl_messages' = ctrl_messages /\ ctrl_in' = ctrl_in /\ account_of' = account_of
    BY <1>2 DEF TransfersKept
  <2>3. \A t \in Token : New(t) <=> Waits(t)
    BY <2>2 DEF Waits
  <2> QED
    BY <1>1, <2>1, <2>2, <2>3
<1>3. ASSUME SessionsKept PROVE \A t \in Token : Unused(t) => Unused(t)'
  BY <1>3, UnusedKept
<1>4. ASSUME SessionsKept, TransfersRead PROVE Fresh
  <2>1. account_of' = account_of /\ ctrl_messages = <<>> /\ ctrl_in \in Seq(Transfer)
    BY <1>4 DEF TransfersRead, TypeOK
  <2>2. CASE ctrl_messages' = <<>> /\ ctrl_in' = ctrl_in
    <3>1. \A t \in Token : New(t) <=> Waits(t)
      BY <2>1, <2>2 DEF Waits
    <3> QED
      BY <1>1, <1>3, <1>4, <2>1, <2>2, <3>1, BringsNothing
  <2>3. ASSUME NEW end \in {<<>>, <<NULL>>}, ctrl_messages' = ctrl_in \o end, ctrl_in' = <<>>
        PROVE  Fresh
    <3>1. \A t : Brings(ctrl_messages', t) <=> Brings(ctrl_in, t)
      BY <2>1, <2>3, BringsRead
    <3>2. OncePerToken(ctrl_messages')
      BY <1>1, <2>1, <2>3, BringsRead
    <3>3. OncePerToken(ctrl_in') /\ \A t : ~Brings(ctrl_in', t)
      BY <2>3, BringsNothing
    <3>4. \A t \in Token : New(t) => Waits(t)
      BY <3>1, <3>3 DEF Waits
    <3> QED
      BY <1>1, <1>3, <1>4, <2>1, <3>2, <3>3, <3>4
  <2> QED
    BY <1>4, <2>2, <2>3 DEF TransfersRead
<1>5. ASSUME SessionsKept, TransfersEnd PROVE Fresh
  <2>1. ctrl_messages' = <<>> /\ ctrl_in' = ctrl_in /\ account_of' = account_of
    BY <1>5 DEF TransfersEnd
  <2>2. OncePerToken(ctrl_messages') /\ \A t : ~Brings(ctrl_messages', t)
    BY <2>1, BringsNothing
  <2>3. \A t \in Token : New(t) => Waits(t)
    BY <2>1, <2>2 DEF Waits
  <2> QED
    BY <1>1, <1>3, <1>5, <2>1, <2>2, <2>3
<1>6. ASSUME SessionsKept, NEW t \in Token, NEW a \in Accounts, HandedOver(t, a) PROVE Fresh
  <2> DEFINE m == [token |-> t, account_id |-> a]
  <2>1. /\ account_of[t] = NULL /\ account_of' = [account_of EXCEPT ![t] = a]
        /\ ctrl_in' = Append(ctrl_in, m) /\ ctrl_messages' = ctrl_messages
        /\ ctrl_in \in Seq(Transfer)
    BY <1>6 DEF HandedOver, TypeOK
  <2>2. m \in Transfer /\ m.token = t
    BY DEF Transfer
  <2>3. a # NULL
    BY NullAssumption
  <2>4. Unused(t) /\ ~Brings(ctrl_messages, t) /\ ~Brings(ctrl_in, t)
    BY <1>1, <2>1 DEF Waits
  <2> HIDE DEF m
  <2>5. OncePerToken(ctrl_in') /\ \A u : Brings(ctrl_in', u) <=> Brings(ctrl_in, u) \/ u = t
    BY <1>1, <2>1, <2>2, <2>4, BringsAppended
  <2>6. \A u \in Token : account_of'[u] = IF u = t THEN a ELSE account_of[u]
    BY <2>1 DEF TypeOK
  <2>7. \A u \in Token : New(u) <=> Waits(u) \/ u = t
    BY <2>1, <2>5 DEF Waits
  <2>8. \A u \in Token : ~(Brings(ctrl_messages', u) /\ Brings(ctrl_in', u))
    BY <1>1, <2>1, <2>4, <2>5
  <2>9. OncePerToken(ctrl_messages')
    BY <1>1, <2>1
  <2>10. \A u \in Token : account_of'[u] = NULL => u # t /\ account_of[u] = NULL
    BY <2>3, <2>6
  <2>11. \A u \in Token : New(u) => Unused(u)
    BY <1>1, <2>4, <2>7
  <2>12. \A u \in Token : account_of'[u] = NULL => Unused(u) /\ ~New(u)
    BY <1>1, <2>7, <2>10
  <2> QED
    BY <1>3, <1>6, <2>5, <2>8, <2>9, <2>11, <2>12
<1>7. ASSUME NEW m \in Transfer, Joined(m) PROVE Fresh
  <2>1. /\ ctrl_messages # <<>> /\ Head(ctrl_messages) = m
        /\ ctrl_messages' = Tail(ctrl_messages)
        /\ ctrl_in' = ctrl_in /\ account_of' = account_of
        /\ ctrl_messages \in Seq(Transfer \cup {NULL})
    BY <1>7 DEF Joined, TypeOK
  <2>2. m # NULL /\ m.token \in Token
    BY TransferIsNotNull
  <2>3. /\ \A t : Brings(ctrl_messages', t) => Brings(ctrl_messages, t)
        /\ Brings(ctrl_messages, m.token) /\ ~Brings(ctrl_messages', m.token)
        /\ OncePerToken(ctrl_messages')
    BY <1>1, <2>1, <2>2, BringsTail
  <2>4. Waits(m.token) /\ ~Brings(ctrl_in, m.token)
    BY <1>1, <2>2, <2>3 DEF Waits
  <2>5. \A t \in Token : New(t) => Waits(t) /\ t # m.token
    BY <2>1, <2>3, <2>4 DEF Waits
  <2>6. \A t \in Token : Unused(t) /\ t # m.token => Unused(t)'
    BY <1>7, UnusedKept
  <2>7. \A t \in Token : account_of'[t] = NULL => t # m.token /\ Unused(t) /\ ~Waits(t)
    BY <1>1, <2>1, <2>4
  <2> QED
    BY <1>1, <2>1, <2>3, <2>5, <2>6, <2>7
<1>8. Fresh
  BY <1>2, <1>4, <1>5, <1>6, <1>7 DEF SessionChange
<1> QED
  BY <1>8 DEF TransfersAreFresh, Waits, Brings, OncePerToken

-----------------------------------------------------------------------------
(* No wakeup is lost *)

LEMMA RoundInit == Init => RoundInOrder
<1> SUFFICES ASSUME Init PROVE RoundInOrder
  OBVIOUS
<1>1. "read" \in armed[0] /\ "write" \in armed[0]
  BY DEF Init, Socket
<1> QED
  BY <1>1 DEF Init, RoundInOrder, LookedAfter

\* Whatever is deleted, the others stay as they are.
LEMMA OthersLookedAfter ==
  ASSUME TypeOK, NEW t \in Token, Delete(t)
  PROVE  /\ \A u \in Token : connections'[u] # 0 => connections[u] # 0 /\ armed'[u] = armed[u]
         /\ armed'[0] = armed[0]
<1>1. 0 # t /\ t \in Socket /\ 0 \in Socket /\ Token \subseteq Socket
  BY DEF Token, Socket
<1> QED
  BY <1>1 DEF Delete, TypeOK

LEMMA RoundStep ==
  ASSUME TypeOK, TypeOK', RoundInOrder, [Next]_vars
  PROVE  RoundInOrder'
<1> USE DEF connVars, playerVars, batchVars, ctrlVars, authVars, clientVars
<1>1. Token \subseteq Socket /\ 0 \in Socket /\ 0 \notin Token
  BY DEF Token, Socket
<1> DEFINE Armed == /\ \A t \in Token : connections[t] # 0 => LookedAfter(t, "read")
                    /\ ctrl_open => LookedAfter(0, "read")
                    /\ ctrl_open /\ ~ctrl_connected => LookedAfter(0, "write")
           End == ~ctrl_open /\ ~quit_signaled =>
                    ctrl_messages # <<>> /\ ctrl_messages[Len(ctrl_messages)] = NULL
           Ctrl == ctrl_writable => ctrl_connected
           Phases == /\ phase = "poll" => connections_with_event = {}
                     /\ phase # "events" => (\A t \in Socket : events[t] = {}) /\ ctrl_messages = <<>>
                     /\ quit_signaled => phase # "poll"
<1>2. Armed /\ End /\ Ctrl /\ Phases
  BY DEF RoundInOrder
<1>3. ASSUME Armed', End', Ctrl', Phases' PROVE RoundInOrder'
  BY <1>3 DEF RoundInOrder
\* A step that leaves the sockets and the control connection alone.
<1>4. ASSUME UNCHANGED <<connections, armed, batchVars, ctrlVars>> PROVE Armed' /\ Ctrl'
  BY <1>2, <1>4 DEF LookedAfter
<1>5. ASSUME UNCHANGED <<ctrl_open, quit_signaled, ctrl_messages>> PROVE End'
  BY <1>2, <1>5
<1>6. ASSUME UNCHANGED <<phase, batchVars, ctrl_messages, quit_signaled>> PROVE Phases'
  BY <1>2, <1>6
<1>7. CASE Poll
  <2>1. /\ phase = "poll" /\ phase' = "events"
        /\ UNCHANGED <<connections, ctrlVars, quit_signaled, ctrl_messages, connections_with_event>>
    BY <1>7 DEF Poll
  <2>2. \A t \in Socket : events'[t] # {} \/ armed'[t] = armed[t]
    BY <1>7 DEF Poll
  <2>3. \A t \in Socket : events[t] = {} /\ t \notin connections_with_event
    BY <1>2, <2>1
  <2>4. Armed'
    BY <1>1, <1>2, <2>1, <2>2, <2>3 DEF LookedAfter
  <2>5. Ctrl' /\ End' /\ Phases'
    BY <1>2, <2>1
  <2> QED
    BY <1>3, <2>4, <2>5
\* An event that is taken is left for the end of the round.
<1>8. ASSUME NEW t \in Socket, TakeEvent(t), UNCHANGED phase, UNCHANGED quit_signaled
      PROVE  /\ Phases'
             /\ ctrl_messages = <<>>
             /\ \A u \in Socket, flag \in {"read", "write"} :
                  LookedAfter(u, flag) =>
                    \/ flag \in armed[u] \/ u \in connections_with_event' \/ events'[u] # {}
             /\ t \in connections_with_event'
  <2>1. /\ phase = "events" /\ ctrl_messages = <<>>
        /\ events' = [events EXCEPT ![t] = {}]
        /\ connections_with_event' = connections_with_event \cup {t}
    BY <1>8 DEF TakeEvent
  <2>2. \A u \in Socket : u # t => events'[u] = events[u]
    BY <2>1 DEF TypeOK
  <2> QED
    BY <1>8, <2>1, <2>2 DEF LookedAfter
<1>9. CASE ProcessCtrlEvent
  <2>1. /\ TakeEvent(0) /\ UNCHANGED <<connections, armed, phase, quit_signaled>>
        /\ ctrl_open' => ctrl_open
        /\ Ctrl'
    BY <1>9, <1>2 DEF ProcessCtrlEvent
  <2>2. Phases' /\ Armed'
    BY <1>1, <1>2, <1>8, <2>1 DEF LookedAfter
  <2>3. End'
    <3>1. ctrl_messages = <<>>
      BY <1>1, <1>8, <2>1
    <3>2. CASE "read" \in events[0] /\ ctrl_lost
      <4>1. ctrl_messages' = ctrl_in \o <<NULL>>
        BY <1>9, <3>2 DEF ProcessCtrlEvent
      <4>2. ctrl_messages' # <<>> /\ ctrl_messages'[Len(ctrl_messages')] = NULL
        BY <4>1, BringsRead DEF TypeOK
      <4> QED
        BY <4>2
    <3>3. CASE ~("read" \in events[0] /\ ctrl_lost)
      <4>1. ctrl_open' = ctrl_open /\ quit_signaled' = quit_signaled
        BY <1>9, <3>3 DEF ProcessCtrlEvent, TypeOK
      <4> QED
        BY <1>2, <3>1, <4>1
    <3> QED
      BY <3>2, <3>3
  <2> QED
    BY <1>3, <2>1, <2>2, <2>3
<1>10. CASE HandleTransferConnection
  <2> DEFINE t == Head(ctrl_messages).token
  <2>1. /\ phase = "events" /\ ctrl_messages # <<>> /\ Head(ctrl_messages) # NULL
        /\ UNCHANGED <<batchVars, phase, quit_signaled, ctrlVars>>
    BY <1>10 DEF HandleTransferConnection, HandlesCtrl
  <2>2. Ctrl' /\ Phases'
    BY <1>2, <2>1
  <2>3. CASE UNCHANGED <<connections, ctrl_messages, armed>>
    BY <1>3, <1>4, <1>5, <2>1, <2>2, <2>3
  <2>4. CASE /\ ctrl_messages' = Tail(ctrl_messages)
             /\ connections' = [connections EXCEPT ![t] = Head(free_players)]
             /\ armed' = [armed EXCEPT ![t] = {"read", "write"}]
    <3>1. t \in Token
      <4>1. Head(ctrl_messages) \in Transfer
        BY <2>1, HeadTailProperties DEF TypeOK
      <4> QED
        BY <4>1, TransferIsNotNull
    <3> HIDE DEF t
    <3>2. \A u \in Socket : armed[u] \subseteq armed'[u]
      BY <2>4 DEF TypeOK
    <3>3. \A u \in Token : u # t => connections'[u] = connections[u]
      BY <2>4 DEF TypeOK
    <3>4. "read" \in armed'[t]
      BY <1>1, <2>4, <3>1 DEF TypeOK
    <3>5. Armed'
      BY <1>1, <1>2, <2>1, <3>2, <3>3, <3>4 DEF LookedAfter
    <3>6. End'
      BY <1>2, <2>1, <2>4, BringsTail DEF TypeOK
    <3> QED
      BY <1>3, <2>2, <3>5, <3>6
  <2> QED
    BY <1>10, <2>3, <2>4 DEF HandleTransferConnection
<1>11. CASE SignalQuit
  <2>1. /\ phase = "events" /\ quit_signaled' = TRUE
        /\ UNCHANGED <<connections, armed, batchVars, ctrlVars, phase>>
    BY <1>11 DEF SignalQuit, HandlesCtrl
  <2>2. Phases' /\ End'
    BY <1>2, <2>1
  <2> QED
    BY <1>3, <1>4, <2>1, <2>2
<1>12. ASSUME NEW t \in Token, TakeEvent(t),
              UNCHANGED <<phase, quit_signaled, ctrlVars, ctrl_messages>>,
              \/ UNCHANGED <<connections, armed>>
              \/ Delete(t)
       PROVE  RoundInOrder'
  <2>1. /\ \A u \in Token : connections'[u] # 0 => connections[u] # 0 /\ armed'[u] = armed[u]
        /\ armed'[0] = armed[0]
    BY <1>12, OthersLookedAfter
  <2>2. /\ Phases' /\ End' /\ Ctrl'
        /\ \A u \in Socket, flag \in {"read", "write"} :
             LookedAfter(u, flag) =>
               \/ flag \in armed[u] \/ u \in connections_with_event' \/ events'[u] # {}
    BY <1>1, <1>2, <1>5, <1>8, <1>12
  <2>3. Armed'
    BY <1>1, <1>2, <1>12, <2>1, <2>2 DEF LookedAfter
  <2> QED
    BY <1>3, <2>2, <2>3
<1>13. ASSUME NEW t \in Token, NothingToRead(t) PROVE RoundInOrder'
  BY <1>12, <1>13 DEF NothingToRead
<1>14. ASSUME NEW t \in Token, GetMessages(t) \/ PeerDisconnected(t) PROVE RoundInOrder'
  BY <1>12, <1>14 DEF GetMessages, PeerDisconnected, Reads
<1>15. ASSUME NEW t \in Token, GetMessagesKills(t) \/ PeerDisconnectedKills(t)
       PROVE  RoundInOrder'
  BY <1>12, <1>15 DEF GetMessagesKills, PeerDisconnectedKills, KillConnection, Reads
<1>16. CASE EventsDone
  <2>1. /\ \A t \in Socket : events[t] = {}
        /\ ctrl_messages = <<>> /\ phase' = "messages"
        /\ UNCHANGED <<connections, armed, batchVars, ctrlVars, quit_signaled, ctrl_messages>>
    BY <1>16 DEF EventsDone
  <2>2. Phases'
    BY <2>1
  <2> QED
    BY <1>3, <1>4, <1>5, <2>1, <2>2
\* A step after the events that may delete a connection.
<1>17. ASSUME UNCHANGED <<batchVars, phase, quit_signaled, ctrlVars, ctrl_messages>>,
              \/ UNCHANGED <<connections, armed>>
              \/ \E t \in Token : Delete(t)
       PROVE  RoundInOrder'
  <2>1. /\ \A u \in Token : connections'[u] # 0 => connections[u] # 0 /\ armed'[u] = armed[u]
        /\ armed'[0] = armed[0]
    BY <1>17, OthersLookedAfter
  <2>2. Armed'
    BY <1>1, <1>2, <1>17, <2>1 DEF LookedAfter
  <2>3. Ctrl'
    BY <1>2, <1>17
  <2> QED
    BY <1>3, <1>5, <1>6, <1>17, <2>2, <2>3
<1>18. ASSUME NEW p \in PlayerId, RemovePlayer(p)
       PROVE  UNCHANGED <<connections, armed>> \/ \E t \in Token : Delete(t)
  <2>1. CASE players[p] = NULL
    BY <1>18, <2>1 DEF RemovePlayer
  <2>2. CASE players[p] # NULL
    <3>1. players[p].conn_token \in Token /\ CloseConnection(players[p].conn_token)
      BY <1>18, <2>2, PlayerIsNotNull DEF RemovePlayer, TypeOK
    <3> QED
      BY <3>1 DEF CloseConnection
  <2> QED
    BY <2>1, <2>2
<1>19. CASE HandleDisconnect \/ HandleCharCreationConfirm
  <2> DEFINE p == Head(messages).player_id
  <2>1. /\ messages # <<>>
        /\ UNCHANGED <<batchVars, phase, quit_signaled, ctrlVars, ctrl_messages>>
        /\ RemovePlayer(p) \/ UNCHANGED <<connections, armed>>
    BY <1>19 DEF HandleDisconnect, HandleCharCreationConfirm, Handles
  <2>2. p \in PlayerId
    <3>1. Head(messages) \in GamePlayerMsg
      BY <2>1, HeadTailProperties DEF TypeOK
    <3> QED
      BY <3>1 DEF GamePlayerMsg
  <2> HIDE DEF p
  <2> QED
    BY <1>17, <1>18, <2>1, <2>2
<1>20. CASE HandleOther
  BY <1>17, <1>20 DEF HandleOther, Handles
<1>21. CASE MessagesDone
  <2>1. /\ phase = "messages" /\ phase' = "flush"
        /\ UNCHANGED <<connections, armed, batchVars, ctrlVars, quit_signaled, ctrl_messages>>
    BY <1>21 DEF MessagesDone
  <2>2. Phases'
    BY <1>2, <2>1
  <2> QED
    BY <1>3, <1>4, <1>5, <2>1, <2>2
<1>22. ASSUME NEW t \in Token, FlushFailed(t) PROVE RoundInOrder'
  <2>1. Delete(t)
    BY <1>22 DEF FlushFailed, CloseConnection
  <2> QED
    BY <1>17, <1>22, <2>1 DEF FlushFailed
<1>23. CASE UpdateDone
  <2>1. /\ phase = "flush" /\ connections_with_event' = {}
        /\ phase' = IF quit_signaled THEN "exit" ELSE "poll"
        /\ UNCHANGED <<connections, events, quit_signaled, ctrl_open, ctrl_connected, ctrl_messages>>
    BY <1>23 DEF UpdateDone
  <2>2. /\ \A t \in Socket : events[t] = {}
        /\ ctrl_messages = <<>>
    BY <1>2, <2>1
  <2>3. Phases' /\ End'
    BY <1>2, <2>1, <2>2
  <2>4. ~ctrl_connected => ctrl_writable' = FALSE
    <3>1. ~ctrl_connected => ctrl_writable = FALSE
      BY <1>2 DEF TypeOK
    <3> QED
      BY <1>23, <3>1 DEF UpdateDone, UpdateWrite
  <2>5. Ctrl'
    BY <2>1, <2>4
  <2>6. /\ \A t \in Socket : t \notin connections_with_event => armed'[t] = armed[t]
        /\ \A t \in Socket : t \in connections_with_event /\ Registered(t) => "read" \in armed'[t]
        /\ 0 \in connections_with_event /\ ctrl_open /\ ~ctrl_writable' => "write" \in armed'[0]
    BY <1>1, <1>23 DEF UpdateDone, Interest, Registered
  <2>7. /\ \A t \in Token : connections[t] # 0 => Registered(t)
        /\ ctrl_open => Registered(0)
    BY <1>1 DEF Registered
  <2>8. Armed'
    BY <1>1, <1>2, <2>1, <2>2, <2>4, <2>6, <2>7 DEF LookedAfter
  <2> QED
    BY <1>3, <2>3, <2>5, <2>8
<1>24. CASE Environment \/ UNCHANGED vars
  <2>1. UNCHANGED <<connections, armed, batchVars, phase, quit_signaled, ctrlVars, ctrl_messages>>
    BY <1>24 DEF Environment, AuthGone, AuthTransfers, ClientSends, ClientHangsUp, threadVars, vars
  <2> QED
    BY <1>17, <2>1
<1> QED
  BY <1>7, <1>9, <1>10, <1>11, <1>13, <1>14, <1>15, <1>16, <1>19, <1>20, <1>21, <1>22, <1>23,
     <1>24 DEF Next, Thread, GameEvent

-----------------------------------------------------------------------------
(* The abstract game server *)

NoTransfer == \A t \in Token : ~Waits(t)

LEMMA EndStep ==
  ASSUME TypeOK, EndIsLast, SessionChange
  PROVE  EndIsLast'
<1>1. /\ ctrl_messages \in Seq(Transfer \cup {NULL}) /\ ctrl_in \in Seq(Transfer)
      /\ \A i \in 1..(Len(ctrl_messages) - 1) : ctrl_messages[i] # NULL
  BY DEF TypeOK, EndIsLast
<1>2. CASE ctrl_messages' = ctrl_messages
  BY <1>1, <1>2 DEF EndIsLast
<1>3. CASE ctrl_messages' = <<>>
  BY <1>3 DEF EndIsLast
<1>4. ASSUME NEW m \in Transfer, Joined(m) PROVE EndIsLast'
  <2>1. ctrl_messages # <<>> /\ ctrl_messages' = Tail(ctrl_messages)
    BY <1>4 DEF Joined
  <2>2. /\ Len(ctrl_messages') = Len(ctrl_messages) - 1 /\ Len(ctrl_messages) \in Nat
        /\ \A i \in 1..(Len(ctrl_messages) - 1) : ctrl_messages'[i] = ctrl_messages[i + 1]
    BY <1>1, <2>1, HeadTailProperties
  <2>3. \A i \in 1..(Len(ctrl_messages') - 1) :
          /\ i + 1 \in 1..(Len(ctrl_messages) - 1)
          /\ ctrl_messages'[i] = ctrl_messages[i + 1]
    BY <2>2
  <2> QED
    BY <1>1, <2>3 DEF EndIsLast
<1>5. ASSUME NEW end \in {<<>>, <<NULL>>}, ctrl_messages' = ctrl_in \o end PROVE EndIsLast'
  BY <1>1, <1>5, BringsRead DEF EndIsLast
<1> QED
  BY <1>2, <1>3, <1>4, <1>5
     DEF SessionChange, TransfersKept, TransfersRead, TransfersEnd, HandedOver

\* Before the server has announced itself there is nobody on it.
LEMMA NobodyBefore ==
  ASSUME TypeOK, TransfersAreFresh, AnnouncedFirst, ~ctrl_connected
  PROVE  /\ \A p \in PlayerId : players[p] = NULL
         /\ NoTransfer
         /\ written = <<>> /\ outgoing = <<>>
<1>1. written = <<>> /\ outgoing = <<>> /\ \A t \in Token : account_of[t] = NULL
  BY DEF AnnouncedFirst
<1>2. \A t \in Token : Unused(t) /\ ~Waits(t)
  BY <1>1 DEF TransfersAreFresh
<1>3. \A p \in PlayerId : players[p] = NULL
  BY <1>2, PlayerIsNotNull DEF TypeOK, Unused
<1> QED
  BY <1>1, <1>2, <1>3 DEF NoTransfer

LEMMA AnnouncedStep ==
  ASSUME TypeOK, TypeOK', TransfersAreFresh, AnnouncedFirst, SessionChange
  PROVE  AnnouncedFirst'
<1>1. /\ ctrl_connected \in BOOLEAN /\ ctrl_connected' \in BOOLEAN
      /\ written \in Seq(CtrlMsg) /\ outgoing \in Seq(CtrlMsg)
      /\ written' \in Seq(CtrlMsg) /\ outgoing' \in Seq(CtrlMsg)
  BY DEF TypeOK
<1>2. /\ ~ctrl_connected => written = <<>> /\ outgoing = <<>>
      /\ written = <<>> => \A t \in Token : account_of[t] = NULL
  BY DEF AnnouncedFirst
<1>3. ASSUME MessagesKept
      PROVE  /\ ~ctrl_connected' => written' = <<>> /\ outgoing' = <<>>
             /\ written' = <<>> => written = <<>>
  <2>1. ASSUME ~ctrl_connected' PROVE written' = <<>> /\ outgoing' = <<>>
    <3>1. written' \o outgoing' = <<>> \o <<>>
      BY <1>2, <1>3, <2>1 DEF MessagesKept
    <3>2. <<>> \o <<>> = <<>>
      OBVIOUS
    <3> QED
      BY <1>1, <3>1, <3>2, ConcatEqualIffEmpty
  <2> QED
    BY <1>3, <2>1 DEF MessagesKept
<1>4. ASSUME NEW p \in PlayerId, Forgotten(p)
      PROVE  ctrl_connected' /\ written' = written
  BY <1>4, NobodyBefore DEF Forgotten
<1>5. ASSUME MessagesKept, account_of' = account_of PROVE AnnouncedFirst'
  BY <1>2, <1>3, <1>5 DEF AnnouncedFirst
<1>6. ASSUME NEW p \in PlayerId, Forgotten(p), account_of' = account_of
      PROVE  AnnouncedFirst'
  BY <1>2, <1>4, <1>6 DEF AnnouncedFirst
<1>7. ASSUME NEW t \in Token, NEW a \in Accounts, HandedOver(t, a), MessagesKept
      PROVE  AnnouncedFirst'
  BY <1>3, <1>7 DEF AnnouncedFirst, HandedOver, MessagesKept
<1>8. ASSUME CtrlAnswered, account_of' = account_of PROVE AnnouncedFirst'
  <2>1. written' = written
    BY <1>8 DEF CtrlAnswered
  <2>2. ~ctrl_connected' => ~ctrl_connected /\ outgoing' \in {outgoing, <<>>}
    BY <1>8 DEF CtrlAnswered
  <2> QED
    BY <1>2, <1>8, <2>1, <2>2 DEF AnnouncedFirst
<1>9. ASSUME NEW t \in Token, Ended(t) PROVE connections[t] \in PlayerId /\ Forgotten(connections[t])
  BY <1>9 DEF Ended, Deleted, TypeOK
<1> QED
  BY <1>5, <1>6, <1>7, <1>8, <1>9
     DEF SessionChange, TransfersKept, TransfersRead, TransfersEnd, Alone, Joined

-----------------------------------------------------------------------------
(* What the abstract server sees of the transfers *)

LEMMA AccountsOfType ==
  ASSUME NEW s \in Seq(Transfer)
  PROVE  /\ AccountsOf(s) \in Seq(Accounts) /\ Len(AccountsOf(s)) = Len(s)
         /\ \A i \in 1..Len(s) : AccountsOf(s)[i] = s[i].account_id
<1>1. DOMAIN s = 1..Len(s) /\ Len(s) \in Nat
  BY LenProperties
<1>2. \A i \in 1..Len(s) : s[i].account_id \in Accounts
  <2>1. \A i \in 1..Len(s) : s[i] \in Transfer
    BY ElementOfSeq
  <2> QED
    BY <2>1 DEF Transfer
<1>3. AccountsOf(s) = [i \in 1..Len(s) |-> s[i].account_id]
  BY <1>1 DEF AccountsOf
<1> QED
  BY <1>1, <1>2, <1>3

LEMMA AccountsOfNothing == AccountsOf(<<>>) = <<>>
<1>1. <<>> \in Seq(Transfer) /\ Len(<<>>) = 0
  OBVIOUS
<1> QED
  BY <1>1, AccountsOfType, EmptySeq

AccountOf == [m \in Transfer |-> m.account_id]

LEMMA AccountsOfMapped ==
  /\ Maps(AccountOf, Transfer, Accounts)
  /\ \A m \in Transfer : AccountOf[m] = m.account_id
  /\ \A s \in Seq(Transfer) : AccountsOf(s) = Mapped(AccountOf, s)
<1>1. \A m \in Transfer : AccountOf[m] = m.account_id /\ AccountOf[m] \in Accounts
  BY DEF AccountOf, Transfer
<1>2. ASSUME NEW s \in Seq(Transfer) PROVE AccountsOf(s) = Mapped(AccountOf, s)
  <2>1. \A i \in DOMAIN s : s[i] \in Transfer
    BY LenProperties, ElementOfSeq
  <2> QED
    BY <1>1, <2>1 DEF AccountsOf, Mapped
<1> QED
  BY <1>1, <1>2 DEF Maps

LEMMA AccountsOfAppended ==
  ASSUME NEW s \in Seq(Transfer), NEW m \in Transfer
  PROVE  AccountsOf(Append(s, m)) = Append(AccountsOf(s), m.account_id)
<1>1. Append(s, m) \in Seq(Transfer)
  OBVIOUS
<1>2. Mapped(AccountOf, Append(s, m)) = Append(Mapped(AccountOf, s), AccountOf[m])
  BY AccountsOfMapped, MappedAppended
<1> QED
  BY <1>1, <1>2, AccountsOfMapped

LEMMA AccountsOfTail ==
  ASSUME NEW s \in Seq(Transfer), s # <<>>
  PROVE  /\ AccountsOf(s) # <<>> /\ Head(AccountsOf(s)) = Head(s).account_id
         /\ AccountsOf(Tail(s)) = Tail(AccountsOf(s))
<1>1. Tail(s) \in Seq(Transfer) /\ Head(s) \in Transfer
  BY HeadTailProperties
<1>2. /\ Mapped(AccountOf, s) # <<>> /\ Head(Mapped(AccountOf, s)) = AccountOf[Head(s)]
      /\ Mapped(AccountOf, Tail(s)) = Tail(Mapped(AccountOf, s))
  BY AccountsOfMapped, MappedTail
<1> QED
  BY <1>1, <1>2, AccountsOfMapped

\* Without the end of the connection only transfers are left.
LEMMA WithoutEndIs ==
  ASSUME NEW s \in Seq(Transfer \cup {NULL}), \A i \in 1..(Len(s) - 1) : s[i] # NULL
  PROVE  WithoutEnd(s) \in Seq(Transfer)
<1>1. Len(s) \in Nat /\ DOMAIN s = 1..Len(s) /\ s \in [1..Len(s) -> Transfer \cup {NULL}]
  BY LenProperties
<1>2. CASE s # <<>> /\ s[Len(s)] = NULL
  <2> DEFINE k == Len(s) - 1
  <2>1. k \in Nat /\ \A i \in 1..k : i \in 1..Len(s)
    BY <1>1, <1>2
  <2>2. \A i \in 1..k : s[i] \in Transfer
    BY <1>1, <2>1
  <2>3. WithoutEnd(s) = SubSeq(s, 1, k)
    BY <1>2 DEF WithoutEnd
  <2> HIDE DEF k
  <2> QED
    BY <2>1, <2>2, <2>3, FirstElements
<1>3. CASE ~(s # <<>> /\ s[Len(s)] = NULL)
  <2>1. \A i \in 1..Len(s) : i \in 1..(Len(s) - 1) \/ (i = Len(s) /\ s # <<>>)
    <3> DEFINE n == Len(s)
    <3>1. n \in Nat /\ (s = <<>> => n = 0)
      BY <1>1
    <3> SUFFICES \A i \in 1..n : i \in 1..(n - 1) \/ (i = n /\ s # <<>>)
      OBVIOUS
    <3> HIDE DEF n
    <3> QED
      BY <3>1
  <2>2. \A i \in 1..Len(s) : s[i] \in Transfer
    BY <1>1, <1>3, <2>1
  <2>3. s \in [1..Len(s) -> Transfer]
    BY <1>1, <2>2
  <2>4. s \in Seq(Transfer)
    BY <1>1, <2>3
  <2> QED
    BY <1>3, <2>4 DEF WithoutEnd
<1> QED
  BY <1>2, <1>3

LEMMA WithoutEndRead ==
  ASSUME NEW s \in Seq(Transfer), NEW end \in {<<>>, <<NULL>>}
  PROVE  WithoutEnd(s \o end) = s
<1>1. /\ s \in Seq(Transfer \cup {NULL}) /\ Len(s) \in Nat
      /\ \A i \in 1..Len(s) : s[i] # NULL
  BY SeqMonotonic, ElementOfSeq, TransferIsNotNull, LenProperties
<1>2. CASE end = <<>>
  <2>1. s \o end = s
    BY <1>2, ConcatEmptySeq
  <2>2. s # <<>> => Len(s) \in 1..Len(s)
    BY <1>1
  <2> QED
    BY <1>1, <2>1, <2>2 DEF WithoutEnd
<1>3. CASE end = <<NULL>>
  <2> DEFINE new == Append(s, NULL)
  <2>1. s \o end = new
    BY <1>1, <1>3, AppendIsConcat
  <2>2. /\ Len(new) = Len(s) + 1 /\ new[Len(s) + 1] = NULL /\ new # <<>>
        /\ \A i \in 1..Len(s) : new[i] = s[i]
    BY <1>1, AppendProperties
  <2> HIDE DEF new
  <2>3. Len(new) - 1 = Len(s)
    BY <1>1, <2>2
  <2>4. WithoutEnd(new) = SubSeq(new, 1, Len(s))
    BY <2>2, <2>3 DEF WithoutEnd
  <2>5. \A i \in 1..Len(s) : new[i] \in Transfer
    BY <2>2, ElementOfSeq
  <2>6. /\ SubSeq(new, 1, Len(s)) \in Seq(Transfer) /\ Len(SubSeq(new, 1, Len(s))) = Len(s)
        /\ \A i \in 1..Len(s) : SubSeq(new, 1, Len(s))[i] = new[i]
    BY <1>1, <2>5, FirstElements
  <2>7. SubSeq(new, 1, Len(s)) = s
    BY <2>2, <2>6, SeqEqual
  <2> QED
    BY <2>1, <2>4, <2>7
<1> QED
  BY <1>2, <1>3

LEMMA WithoutEndNothing == WithoutEnd(<<>>) = <<>>
  BY DEF WithoutEnd

LEMMA WithoutEndTail ==
  ASSUME NEW s \in Seq(Transfer \cup {NULL}), s # <<>>,
         \A i \in 1..(Len(s) - 1) : s[i] # NULL
  PROVE  /\ Head(s) # NULL =>
              /\ WithoutEnd(s) # <<>> /\ Head(WithoutEnd(s)) = Head(s)
              /\ WithoutEnd(Tail(s)) = Tail(WithoutEnd(s))
         /\ Head(s) = NULL => WithoutEnd(s) = <<>>
<1> DEFINE n    == Len(s)
           tail == Tail(s)
           cut1 == SubSeq(s, 1, n - 1)
<1>1. /\ n \in Nat /\ n >= 1 /\ Head(s) = s[1] /\ 1 \in 1..n
      /\ tail \in Seq(Transfer \cup {NULL}) /\ Len(tail) = n - 1
      /\ \A i \in 1..(n - 1) : tail[i] = s[i + 1]
      /\ \A i \in 1..n : s[i] \in Transfer \cup {NULL}
  BY HeadTailProperties, LenProperties, ElementOfSeq
<1> HIDE DEF tail, n
<1>2. \A i \in 1..(n - 1) : s[i] # NULL
  BY DEF n
<1>3. s[n] # NULL => WithoutEnd(s) = s
  BY DEF WithoutEnd, n
<1>4. s[n] = NULL => WithoutEnd(s) = cut1
  BY DEF WithoutEnd, n
<1>5. /\ cut1 \in Seq(Transfer \cup {NULL}) /\ Len(cut1) = n - 1
      /\ \A i \in 1..(n - 1) : cut1[i] = s[i]
  <2>1. n - 1 \in Nat /\ \A i \in 1..(n - 1) : i \in 1..n
    BY <1>1
  <2> QED
    BY <1>1, <2>1, FirstElements
<1> HIDE DEF cut1
<1>6. CASE Head(s) = NULL
  <2>1. n = 1
    <3>1. ~(1 \in 1..(n - 1))
      BY <1>1, <1>2, <1>6
    <3> QED
      BY <1>1, <3>1
  <2>2. cut1 = <<>>
    BY <1>5, <2>1, EmptySeq
  <2> QED
    BY <1>1, <1>4, <1>6, <2>1, <2>2
<1>7. CASE Head(s) # NULL /\ s[n] # NULL
  <2>1. tail # <<>> => tail[Len(tail)] = s[n]
    BY BringsTail DEF n, tail
  <2>2. WithoutEnd(tail) = tail
    BY <1>7, <2>1 DEF WithoutEnd
  <2> QED
    BY <1>3, <1>7, <2>2 DEF tail
<1>8. CASE Head(s) # NULL /\ s[n] = NULL
  <2> DEFINE left  == SubSeq(tail, 1, n - 2)
             right == Tail(cut1)
  <2>1. n >= 2 /\ n - 2 \in Nat /\ n - 1 # 0
    BY <1>1, <1>8
  <2>2. tail # <<>> /\ cut1 # <<>>
    BY <1>1, <1>5, <2>1, EmptySeq
  <2>3. tail[Len(tail)] = NULL
    BY <1>8, <2>2, BringsTail DEF n, tail
  <2>4. WithoutEnd(tail) = left
    <3>1. WithoutEnd(tail) = SubSeq(tail, 1, Len(tail) - 1)
      BY <2>2, <2>3 DEF WithoutEnd
    <3>2. Len(tail) - 1 = n - 2
      BY <1>1
    <3> QED
      BY <3>1, <3>2
  <2>5. /\ left \in Seq(Transfer \cup {NULL}) /\ Len(left) = n - 2
        /\ \A i \in 1..(n - 2) : left[i] = tail[i]
    <3>1. \A i \in 1..(n - 2) : i \in 1..Len(tail)
      BY <1>1
    <3>2. \A i \in 1..(n - 2) : tail[i] \in Transfer \cup {NULL}
      BY <1>1, <3>1, ElementOfSeq
    <3> QED
      BY <2>1, <3>2, FirstElements
  <2>6. /\ right \in Seq(Transfer \cup {NULL}) /\ Len(right) = (n - 1) - 1
        /\ Head(cut1) = cut1[1]
        /\ \A i \in 1..((n - 1) - 1) : right[i] = cut1[i + 1]
    BY <1>5, <2>2, HeadTailProperties
  <2> HIDE DEF left, right
  <2>7. Head(cut1) = Head(s)
    <3>1. 1 \in 1..(n - 1)
      BY <2>1, <1>1
    <3> QED
      BY <1>1, <1>5, <2>6, <3>1
  <2>8. ASSUME NEW i \in 1..(n - 2) PROVE left[i] = right[i]
    <3>1. i \in 1..(n - 1) /\ i + 1 \in 1..(n - 1) /\ i \in 1..((n - 1) - 1)
      BY <1>1, <2>1
    <3> QED
      BY <1>1, <1>5, <2>5, <2>6, <3>1
  <2>9. (n - 1) - 1 = n - 2
    BY <1>1
  <2>10. left = right
    BY <2>5, <2>6, <2>8, <2>9, SeqEqual
  <2> QED
    BY <1>4, <1>8, <2>2, <2>4, <2>7, <2>10 DEF right, tail
<1> QED
  BY <1>6, <1>7, <1>8

-----------------------------------------------------------------------------
(* What the abstract server sees of the messages on their way back *)

ToldMsg == [msg_id : {"ServerReady", "PlayerLeft"}, account_id : Accounts \cup {NULL}]

Tell(m) == [msg_id |-> m.msg_id, account_id |-> m.account_id]

LEMMA TellType == \A m \in CtrlMsg : Tell(m) \in ToldMsg
  BY DEF CtrlMsg, Tell, ToldMsg

LEMMA ToldType ==
  ASSUME NEW s \in Seq(CtrlMsg)
  PROVE  /\ Told(s) \in Seq(ToldMsg) /\ Len(Told(s)) = Len(s)
         /\ \A i \in 1..Len(s) : Told(s)[i] = Tell(s[i])
<1>1. DOMAIN s = 1..Len(s) /\ Len(s) \in Nat
  BY LenProperties
<1>2. \A i \in 1..Len(s) : Tell(s[i]) \in ToldMsg
  BY ElementOfSeq, TellType
<1>3. Told(s) = [i \in 1..Len(s) |-> Tell(s[i])]
  BY <1>1 DEF Told, Tell
<1> QED
  BY <1>1, <1>2, <1>3

LEMMA ToldNothing == Told(<<>>) = <<>>
<1>1. <<>> \in Seq(CtrlMsg) /\ Len(<<>>) = 0
  OBVIOUS
<1> QED
  BY <1>1, ToldType, EmptySeq

TellEach == [m \in CtrlMsg |-> Tell(m)]

LEMMA ToldMapped ==
  /\ Maps(TellEach, CtrlMsg, ToldMsg)
  /\ \A m \in CtrlMsg : TellEach[m] = Tell(m)
  /\ \A s \in Seq(CtrlMsg) : Told(s) = Mapped(TellEach, s)
<1>1. \A m \in CtrlMsg : TellEach[m] = Tell(m) /\ TellEach[m] \in ToldMsg
  BY TellType DEF TellEach
<1>2. ASSUME NEW s \in Seq(CtrlMsg) PROVE Told(s) = Mapped(TellEach, s)
  <2>1. \A i \in DOMAIN s : s[i] \in CtrlMsg
    BY LenProperties, ElementOfSeq
  <2>2. Told(s) = [i \in DOMAIN s |-> Tell(s[i])]
    BY DEF Told, Tell
  <2> QED
    BY <1>1, <2>1, <2>2 DEF Mapped
<1> QED
  BY <1>1, <1>2 DEF Maps

LEMMA ToldAppended ==
  ASSUME NEW s \in Seq(CtrlMsg), NEW m \in CtrlMsg
  PROVE  Told(Append(s, m)) = Append(Told(s), Tell(m))
<1>1. Append(s, m) \in Seq(CtrlMsg)
  OBVIOUS
<1>2. Mapped(TellEach, Append(s, m)) = Append(Mapped(TellEach, s), TellEach[m])
  BY ToldMapped, MappedAppended
<1> QED
  BY <1>1, <1>2, ToldMapped

LEMMA ToldFirst ==
  ASSUME NEW s \in Seq(CtrlMsg), NEW r \in Seq(CtrlMsg)
  PROVE  Told(s) = SubSeq(Told(s \o r), 1, Len(s)) /\ Len(s) \in 0..Len(Told(s \o r))
<1>0. ASSUME NEW v \in Seq(CtrlMsg), NEW a, NEW b, PartOf(v, a, b)
      PROVE  Mapped(TellEach, SubSeq(v, a, b)) = SubSeq(Mapped(TellEach, v), a, b)
  <2>1. Maps(TellEach, CtrlMsg, ToldMsg)
    BY ToldMapped
  <2> QED
    BY <1>0, <2>1, MappedPart
<1> DEFINE whole == s \o r
           n     == Len(s)
<1>1. /\ n \in Nat /\ Len(r) \in Nat /\ whole \in Seq(CtrlMsg) /\ Len(whole) = n + Len(r)
      /\ \A i \in 1..(n + Len(r)) : whole[i] = IF i <= n THEN s[i] ELSE r[i - n]
  BY ConcatProperties, LenProperties
<1> HIDE DEF whole
<1>2. n \in 0..Len(whole) /\ PartOf(whole, 1, n)
  BY <1>1 DEF PartOf
<1>3. Mapped(TellEach, SubSeq(whole, 1, n)) = SubSeq(Mapped(TellEach, whole), 1, n)
  <2> HIDE DEF n
  <2> QED
    BY <1>0, <1>1, <1>2
<1>4. s = SubSeq(whole, 1, n)
  <2>1. \A i \in 1..n : whole[i] = s[i] /\ s[i] \in CtrlMsg
    BY <1>1, ElementOfSeq
  <2>2. /\ SubSeq(whole, 1, n) \in Seq(CtrlMsg) /\ Len(SubSeq(whole, 1, n)) = n
        /\ \A i \in 1..n : SubSeq(whole, 1, n)[i] = whole[i]
    BY <1>1, <2>1, FirstElements
  <2> QED
    BY <2>1, <2>2, SeqEqual
<1>5. Len(Told(whole)) = Len(whole)
  BY <1>1, ToldType
<1>6. Told(s) = SubSeq(Told(whole), 1, n)
  BY <1>1, <1>3, <1>4, ToldMapped
<1> QED
  BY <1>2, <1>5, <1>6 DEF whole

-----------------------------------------------------------------------------
(* What the abstract server sees of the players *)

LEMMA PlayersOfFinite == \A a : IsFiniteSet(PlayersOf(a)) /\ Cardinality(PlayersOf(a)) \in Nat
<1>1. IsFiniteSet(PlayerId)
  BY BoundsAssumption, FS_Interval DEF PlayerId
<1>2. ASSUME NEW a PROVE IsFiniteSet(PlayersOf(a)) /\ Cardinality(PlayersOf(a)) \in Nat
  <2>1. PlayersOf(a) \in SUBSET PlayerId
    BY DEF PlayersOf
  <2>2. IsFiniteSet(PlayersOf(a))
    BY <1>1, <2>1, FS_Subset
  <2> QED
    BY <2>2, FS_CardinalityType
<1> QED
  BY <1>2

LEMMA PlayerLeavesPlaying ==
  ASSUME TypeOK, NEW p \in PlayerId, Forgotten(p)
  PROVE  /\ players[p].account_id \in Accounts
         /\ Playing[players[p].account_id] > 0
         /\ Playing' = [Playing EXCEPT ![players[p].account_id] = @ - 1]
<1>1. players[p] \in GmPlayer /\ players[p].account_id \in Accounts
  BY DEF TypeOK, Forgotten, GmPlayer
<1>2. PICK a \in Accounts : a = players[p].account_id
  BY <1>1
<1>3. \A q \in PlayerId : players'[q] = IF q = p THEN NULL ELSE players[q]
  BY DEF TypeOK, Forgotten
<1>4. p \in PlayersOf(a) /\ PlayersOf(a)' = PlayersOf(a) \ {p}
  BY <1>1, <1>2, <1>3, PlayerIsNotNull DEF PlayersOf
<1>5. \A b \in Accounts : b # a => PlayersOf(b)' = PlayersOf(b)
  BY <1>2, <1>3 DEF PlayersOf
<1>6. /\ IsFiniteSet(PlayersOf(a)) /\ Cardinality(PlayersOf(a)) \in Nat
      /\ PlayersOf(a) # {}
  BY <1>4, PlayersOfFinite
<1>7. Cardinality(PlayersOf(a)') = Cardinality(PlayersOf(a)) - 1
  BY <1>4, <1>6, FS_RemoveElement
<1>8. Cardinality(PlayersOf(a)) > 0
  BY <1>6, FS_EmptySet
<1>9. Playing' = [b \in Accounts |-> Cardinality(PlayersOf(b)')]
  BY DEF Playing
<1>10. Playing[a] = Cardinality(PlayersOf(a)) /\ Playing = [b \in Accounts |-> Cardinality(PlayersOf(b))]
  BY DEF Playing
<1>11. \A b \in Accounts : Cardinality(PlayersOf(b)') =
                             IF b = a THEN Playing[a] - 1 ELSE Cardinality(PlayersOf(b))
  BY <1>5, <1>7, <1>10
<1>12. Playing' = [Playing EXCEPT ![a] = @ - 1]
  BY <1>9, <1>10, <1>11
<1> QED
  BY <1>2, <1>8, <1>10, <1>12

LEMMA PlayerJoinsPlaying ==
  ASSUME TypeOK, IdsAreAccounted, NEW m \in Transfer, Joined(m)
  PROVE  /\ m.account_id \in Accounts
         /\ Playing' = [Playing EXCEPT ![m.account_id] = @ + 1]
<1> DEFINE a   == m.account_id
           p   == Head(free_players)
           new == [conn_token |-> m.token, account_id |-> a]
<1>1. a \in Accounts /\ new \in GmPlayer /\ new.account_id = a
  BY DEF Transfer, GmPlayer
<1>2. p \in PlayerId /\ players[p] = NULL /\ players' = [players EXCEPT ![p] = new]
  <2>1. p \in PlayerId /\ Occurs(free_players, p)
    BY TailOccurs DEF TypeOK, Joined
  <2> QED
    BY <2>1, IdsAreAccountedHolds DEF Joined
<1>3. new # NULL
  BY <1>1, PlayerIsNotNull
<1> HIDE DEF p, new
<1>4. \A q \in PlayerId : players'[q] = IF q = p THEN new ELSE players[q]
  BY <1>2 DEF TypeOK
<1>5. p \notin PlayersOf(a) /\ PlayersOf(a)' = PlayersOf(a) \cup {p}
  BY <1>1, <1>2, <1>3, <1>4 DEF PlayersOf
<1> HIDE DEF a
<1>6. \A b \in Accounts : b # a => PlayersOf(b)' = PlayersOf(b)
  BY <1>1, <1>2, <1>4 DEF PlayersOf
<1>7. Cardinality(PlayersOf(a)') = Cardinality(PlayersOf(a)) + 1
  BY <1>5, PlayersOfFinite, FS_AddElement
<1>8. Playing' = [b \in Accounts |-> Cardinality(PlayersOf(b)')]
  BY DEF Playing
<1>9. Playing[a] = Cardinality(PlayersOf(a)) /\ Playing = [b \in Accounts |-> Cardinality(PlayersOf(b))]
  BY <1>1 DEF Playing
<1>10. \A b \in Accounts : Cardinality(PlayersOf(b)') =
                             IF b = a THEN Playing[a] + 1 ELSE Cardinality(PlayersOf(b))
  BY <1>6, <1>7, <1>9
<1>11. Playing' = [Playing EXCEPT ![a] = @ + 1]
  BY <1>8, <1>9, <1>10
<1> QED
  BY <1>1, <1>11 DEF a

LEMMA NobodyPlaying ==
  ASSUME \A p \in PlayerId : players[p] = NULL
  PROVE  Playing = [a \in Accounts |-> 0]
<1>1. \A a : PlayersOf(a) = {}
  BY DEF PlayersOf
<1> QED
  BY <1>1, FS_EmptySet DEF Playing

-----------------------------------------------------------------------------
(* Every step is a step of the abstract server, or none *)

\* What happens to the transfers.
LEMMA ToGameStep ==
  ASSUME TypeOK, EndIsLast
  PROVE  /\ TransfersKept \/ TransfersRead \/ TransfersEnd => ToGame' = ToGame
         /\ \A t \in Token, a \in Accounts : HandedOver(t, a) => ToGame' = Append(ToGame, a)
         /\ \A m \in Transfer : Joined(m) =>
              /\ ToGame # <<>> /\ Head(ToGame) = m.account_id
              /\ ToGame' = Tail(ToGame)
<1> DEFINE first == WithoutEnd(ctrl_messages)
<1>1. /\ ctrl_messages \in Seq(Transfer \cup {NULL}) /\ ctrl_in \in Seq(Transfer)
      /\ \A i \in 1..(Len(ctrl_messages) - 1) : ctrl_messages[i] # NULL
  BY DEF TypeOK, EndIsLast
<1>2. first \in Seq(Transfer) /\ first \o ctrl_in \in Seq(Transfer)
  BY <1>1, WithoutEndIs, ConcatProperties
<1>3. ASSUME TransfersKept PROVE ToGame' = ToGame
  BY <1>3 DEF TransfersKept, ToGame
<1>4. ASSUME TransfersRead PROVE ToGame' = ToGame
  <2>1. first \o ctrl_in = ctrl_in
    BY <1>1, <1>4, WithoutEndNothing, ConcatEmptySeq DEF TransfersRead
  <2>2. WithoutEnd(ctrl_messages') \o ctrl_in' = ctrl_in
    <3>1. CASE ctrl_messages' = <<>> /\ ctrl_in' = ctrl_in
      BY <1>1, <3>1, WithoutEndNothing, ConcatEmptySeq
    <3>2. ASSUME NEW end \in {<<>>, <<NULL>>}, ctrl_messages' = ctrl_in \o end, ctrl_in' = <<>>
          PROVE  WithoutEnd(ctrl_messages') \o ctrl_in' = ctrl_in
      <4>1. WithoutEnd(ctrl_messages') = ctrl_in
        BY <1>1, <3>2, WithoutEndRead
      <4> QED
        BY <1>1, <3>2, <4>1, ConcatEmptySeq
    <3> QED
      BY <1>4, <3>1, <3>2 DEF TransfersRead
  <2> QED
    BY <2>1, <2>2 DEF ToGame
<1>5. ASSUME TransfersEnd PROVE ToGame' = ToGame
  <2>1. first = <<>>
    BY <1>1, <1>5, WithoutEndTail DEF TransfersEnd
  <2>2. WithoutEnd(ctrl_messages') = <<>> /\ ctrl_in' = ctrl_in
    BY <1>5, WithoutEndNothing DEF TransfersEnd
  <2> QED
    BY <2>1, <2>2 DEF ToGame
<1>6. ASSUME NEW t \in Token, NEW a \in Accounts, HandedOver(t, a)
      PROVE  ToGame' = Append(ToGame, a)
  <2> DEFINE m == [token |-> t, account_id |-> a]
  <2>1. m \in Transfer /\ m.account_id = a
    BY DEF Transfer
  <2>2. ctrl_in' = Append(ctrl_in, m) /\ ctrl_messages' = ctrl_messages
    BY <1>6 DEF HandedOver
  <2> HIDE DEF m, first
  <2>3. first \o Append(ctrl_in, m) = Append(first \o ctrl_in, m)
    BY <1>1, <1>2, <2>1, AppendToSecond
  <2>4. AccountsOf(Append(first \o ctrl_in, m)) = Append(AccountsOf(first \o ctrl_in), a)
    BY <1>2, <2>1, AccountsOfAppended
  <2> QED
    BY <2>2, <2>3, <2>4 DEF ToGame, first
<1>7. ASSUME NEW m \in Transfer, Joined(m)
      PROVE  /\ ToGame # <<>> /\ Head(ToGame) = m.account_id
             /\ ToGame' = Tail(ToGame)
  <2>1. /\ ctrl_messages # <<>> /\ Head(ctrl_messages) = m
        /\ ctrl_messages' = Tail(ctrl_messages) /\ ctrl_in' = ctrl_in
    BY <1>7 DEF Joined
  <2>2. m # NULL
    BY TransferIsNotNull
  <2>3. first # <<>> /\ Head(first) = m /\ WithoutEnd(ctrl_messages') = Tail(first)
    BY <1>1, <2>1, <2>2, WithoutEndTail
  <2> DEFINE all == first \o ctrl_in
  <2> HIDE DEF first
  <2>4. all # <<>> /\ Head(all) = m /\ Tail(all) = Tail(first) \o ctrl_in
    BY <1>1, <1>2, <2>3, TailOfFirst
  <2>5. all \in Seq(Transfer)
    BY <1>2
  <2>6. ToGame = AccountsOf(all) /\ ToGame' = AccountsOf(Tail(all))
    BY <2>1, <2>3, <2>4 DEF ToGame, first
  <2> HIDE DEF all
  <2> QED
    BY <2>4, <2>5, <2>6, AccountsOfTail
<1> QED
  BY <1>3, <1>4, <1>5, <1>6, <1>7

\* What happens to the messages.
LEMMA ToAuthStep ==
  ASSUME TypeOK
  PROVE  /\ MessagesKept => ToAuth' = ToAuth
         /\ \A p \in PlayerId : Forgotten(p) =>
              ToAuth' = Append(ToAuth, Server!Message("PlayerLeft", players[p].account_id))
         /\ UNCHANGED <<written, outgoing>> => ToAuth' = ToAuth
         /\ UNCHANGED written /\ outgoing' = <<>> =>
              \E n \in 0..Len(ToAuth) : ToAuth' = SubSeq(ToAuth, 1, n)
<1>1. written \in Seq(CtrlMsg) /\ outgoing \in Seq(CtrlMsg) /\ written \o outgoing \in Seq(CtrlMsg)
  BY ConcatProperties DEF TypeOK
<1>2. ASSUME MessagesKept PROVE ToAuth' = ToAuth
  BY <1>2 DEF MessagesKept, ToAuth
<1>3. ASSUME NEW p \in PlayerId, Forgotten(p)
      PROVE  ToAuth' = Append(ToAuth, Server!Message("PlayerLeft", players[p].account_id))
  <2> DEFINE m == PlayerLeft(players[p])
  <2>1. m \in CtrlMsg
    BY <1>3, PlayerLeftType DEF Forgotten, TypeOK
  <2>2. Tell(m) = Server!Message("PlayerLeft", players[p].account_id)
    BY DEF Tell, PlayerLeft, Server!Message
  <2>3. outgoing' = Append(outgoing, m) /\ written' = written
    BY <1>3 DEF Forgotten
  <2> HIDE DEF m
  <2>4. written \o Append(outgoing, m) = Append(written \o outgoing, m)
    BY <1>1, <2>1, AppendToSecond
  <2>5. Told(Append(written \o outgoing, m)) = Append(Told(written \o outgoing), Tell(m))
    BY <1>1, <2>1, ToldAppended
  <2>6. ToAuth' = Told(Append(written \o outgoing, m))
    BY <2>3, <2>4 DEF ToAuth
  <2> QED
    BY <2>2, <2>5, <2>6 DEF ToAuth
<1>4. ASSUME UNCHANGED <<written, outgoing>> PROVE ToAuth' = ToAuth
  BY <1>4 DEF ToAuth
<1>5. ASSUME UNCHANGED written, outgoing' = <<>>
      PROVE  \E n \in 0..Len(ToAuth) : ToAuth' = SubSeq(ToAuth, 1, n)
  <2>1. written' \o outgoing' = written
    BY <1>1, <1>5, ConcatEmptySeq
  <2>2. ToAuth' = Told(written)
    BY <2>1 DEF ToAuth
  <2>3. /\ Told(written) = SubSeq(ToAuth, 1, Len(written))
        /\ Len(written) \in 0..Len(ToAuth)
    BY <1>1, ToldFirst DEF ToAuth
  <2> QED
    BY <2>2, <2>3
<1> QED
  BY <1>2, <1>3, <1>4, <1>5

LEMMA NothingToGame ==
  ASSUME TypeOK, EndIsLast, NoTransfer
  PROVE  ToGame = <<>>
<1> DEFINE first == WithoutEnd(ctrl_messages)
<1>1. /\ ctrl_messages \in Seq(Transfer \cup {NULL}) /\ ctrl_in \in Seq(Transfer)
      /\ \A i \in 1..(Len(ctrl_messages) - 1) : ctrl_messages[i] # NULL
  BY DEF TypeOK, EndIsLast
<1>2. ctrl_in = <<>>
  <2>1. ASSUME ctrl_in # <<>> PROVE FALSE
    <3>1. 1 \in 1..Len(ctrl_in)
      BY <1>1, <2>1, EmptySeq
    <3>2. ctrl_in[1] \in Transfer
      BY <1>1, <3>1, ElementOfSeq
    <3>3. Brings(ctrl_in, ctrl_in[1].token) /\ ctrl_in[1].token \in Token
      BY <3>1, <3>2, TransferIsNotNull DEF Brings
    <3> QED
      BY <3>3 DEF NoTransfer, Waits
  <2> QED
    BY <2>1
<1>3. first = <<>>
  <2>1. CASE ctrl_messages = <<>>
    BY <2>1, WithoutEndNothing
  <2>2. CASE ctrl_messages # <<>>
    <3>1. Head(ctrl_messages) = NULL
      <4>1. ASSUME Head(ctrl_messages) # NULL PROVE FALSE
        <5>1. Head(ctrl_messages) \in Transfer
          BY <1>1, <2>2, <4>1, HeadTailProperties
        <5>2. Brings(ctrl_messages, Head(ctrl_messages).token)
          BY <1>1, <2>2, <4>1, BringsTail
        <5> QED
          BY <5>1, <5>2, TransferIsNotNull DEF NoTransfer, Waits
      <4> QED
        BY <4>1
    <3> QED
      BY <1>1, <2>2, <3>1, WithoutEndTail
  <2> QED
    BY <2>1, <2>2
<1>4. <<>> \o <<>> = <<>>
  OBVIOUS
<1> QED
  BY <1>2, <1>3, <1>4, AccountsOfNothing DEF ToGame

LEMMA AnnounceStep ==
  ASSUME TypeOK, TransfersAreFresh, EndIsLast, AnnouncedFirst, ~ctrl_connected,
         UNCHANGED <<written, players>>, ToGame' = ToGame,
         outgoing' = <<ServerReady>> \/ outgoing' = Append(outgoing, ServerReady)
  PROVE  Server!Announce
<1>1. /\ \A p \in PlayerId : players[p] = NULL
      /\ NoTransfer /\ written = <<>> /\ outgoing = <<>>
  BY NobodyBefore
<1>2. ToGame = <<>> /\ Playing = [a \in Accounts |-> 0]
  BY <1>1, NothingToGame, NobodyPlaying
<1>3. ToAuth = <<>>
  <2>1. written \o outgoing = <<>>
    BY <1>1, ConcatEqualIffEmpty
  <2> QED
    BY <2>1, ToldNothing DEF ToAuth
<1>4. ToAuth' = <<Server!Message("ServerReady", NULL)>>
  <2>1. written' \o outgoing' = Append(<<>>, ServerReady)
    BY <1>1
  <2>2. Told(Append(<<>>, ServerReady)) = Append(<<>>, Tell(ServerReady))
    <3>1. <<>> \in Seq(CtrlMsg)
      OBVIOUS
    <3> QED
      BY <3>1, ServerReadyType, ToldAppended, ToldNothing
  <2>3. Tell(ServerReady) = Server!Message("ServerReady", NULL)
    BY DEF Tell, ServerReady, Server!Message
  <2> QED
    BY <2>1, <2>2, <2>3 DEF ToAuth
<1>5. Playing' = Playing
  BY DEF Playing, PlayersOf
<1> QED
  BY <1>2, <1>3, <1>4, <1>5 DEF Server!Announce

LEMMA ServerInit == Init => Server!Init
<1> SUFFICES ASSUME Init PROVE Server!Init
  OBVIOUS
<1>1. ToGame = <<>>
  <2>1. WithoutEnd(ctrl_messages) \o ctrl_in = <<>>
    BY WithoutEndNothing DEF Init
  <2> QED
    BY <2>1, AccountsOfNothing DEF ToGame
<1>2. ToAuth = <<>>
  <2>1. written \o outgoing = <<>>
    BY DEF Init
  <2> QED
    BY <2>1, ToldNothing DEF ToAuth
<1>3. Playing = [a \in Accounts |-> 0]
  BY NobodyPlaying DEF Init
<1> QED
  BY <1>1, <1>2, <1>3 DEF Server!Init

LEMMA ServerStep ==
  ASSUME TypeOK, TransfersAreFresh, IdsAreAccounted, EndIsLast, AnnouncedFirst, SessionChange
  PROVE  [Server!Next]_Server!serverVars
<1>1. ASSUME players' = players PROVE Playing' = Playing
  BY <1>1 DEF Playing, PlayersOf
<1>2. ASSUME players' = players, TransfersKept \/ TransfersEnd, MessagesKept
      PROVE  UNCHANGED Server!serverVars
  BY <1>1, <1>2, ToGameStep, ToAuthStep DEF Server!serverVars
<1>3. ASSUME SessionsKept, TransfersRead, CtrlAnswered
      PROVE  [Server!Next]_Server!serverVars
  <2>1. players' = players /\ Playing' = Playing /\ ToGame' = ToGame /\ written' = written
    BY <1>1, <1>3, ToGameStep DEF SessionsKept, CtrlAnswered
  <2>2. CASE outgoing' = outgoing
    BY <2>1, <2>2, ToAuthStep DEF Server!serverVars
  <2>3. CASE outgoing' = <<>>
    <3>1. Server!ConnectionLost
      BY <2>1, <2>3, ToAuthStep DEF Server!ConnectionLost
    <3> QED
      BY <3>1 DEF Server!Next
  <2>4. CASE ~ctrl_connected /\ (outgoing' = <<ServerReady>> \/ outgoing' = Append(outgoing, ServerReady))
    <3>1. Server!Announce
      BY <2>1, <2>4, AnnounceStep
    <3> QED
      BY <3>1 DEF Server!Next
  <2> QED
    BY <1>3, <2>2, <2>3, <2>4 DEF CtrlAnswered
<1>4. ASSUME SessionsKept, MessagesKept, NEW t \in Token, NEW a \in Accounts, HandedOver(t, a)
      PROVE  [Server!Next]_Server!serverVars
  <2>1. Playing' = Playing /\ ToGame' = Append(ToGame, a) /\ ToAuth' = ToAuth
    BY <1>1, <1>4, ToGameStep, ToAuthStep DEF SessionsKept
  <2>2. Server!HandOver(a)
    BY <2>1 DEF Server!HandOver
  <2> QED
    BY <2>2 DEF Server!Next
<1>5. ASSUME NEW p \in PlayerId, Forgotten(p), TransfersKept
      PROVE  [Server!Next]_Server!serverVars
  <2> DEFINE a == players[p].account_id
  <2>1. /\ a \in Accounts /\ Playing[a] > 0
        /\ Playing' = [Playing EXCEPT ![a] = @ - 1]
    BY <1>5, PlayerLeavesPlaying
  <2>2. /\ ToGame' = ToGame
        /\ ToAuth' = Append(ToAuth, Server!Message("PlayerLeft", a))
    BY <1>5, ToGameStep, ToAuthStep
  <2>3. Server!PlayerLeaves(a)
    BY <2>1, <2>2 DEF Server!PlayerLeaves
  <2> QED
    BY <2>1, <2>3 DEF Server!Next
<1>6. ASSUME NEW m \in Transfer, Joined(m), MessagesKept
      PROVE  [Server!Next]_Server!serverVars
  <2>1. /\ ToGame # <<>> /\ Head(ToGame) = m.account_id
        /\ ToGame' = Tail(ToGame) /\ ToAuth' = ToAuth
        /\ Playing' = [Playing EXCEPT ![m.account_id] = @ + 1]
    BY <1>6, ToGameStep, ToAuthStep, PlayerJoinsPlaying
  <2>2. Server!PlayerJoins
    BY <2>1 DEF Server!PlayerJoins
  <2> QED
    BY <2>2 DEF Server!Next
<1>7. ASSUME NEW t \in Token, Ended(t) PROVE connections[t] \in PlayerId /\ Forgotten(connections[t])
  BY <1>7 DEF Ended, Deleted, TypeOK
<1>8. ASSUME NEW t \in Token, Ended(t), TransfersKept PROVE [Server!Next]_Server!serverVars
  BY <1>5, <1>7, <1>8
<1>9. ASSUME NEW p \in PlayerId, Alone(p), TransfersKept PROVE [Server!Next]_Server!serverVars
  BY <1>5, <1>9 DEF Alone
<1> QED
  BY <1>2, <1>3, <1>4, <1>6, <1>8, <1>9 DEF SessionChange, SessionsKept, Flushed, playerVars

-----------------------------------------------------------------------------
(* The theorems *)

IInv == /\ TypeOK
        /\ SessionsAgree
        /\ CutIsClosed
        /\ IdsAreAccounted
        /\ TransfersAreFresh
        /\ RoundInOrder
        /\ EndIsLast
        /\ AnnouncedFirst

LEMMA IInvInit == Init => IInv
<1> SUFFICES ASSUME Init PROVE IInv
  OBVIOUS
<1>1. TypeOK /\ RoundInOrder
  BY TypeInit, RoundInit
<1>2. SessionsAgree /\ CutIsClosed
  BY DEF Init, SessionsAgree, ConnectionHasPlayer, PlayerHasConnection, CutIsClosed
<1>3. IdsAreAccounted
  <2>1. Size - 1 \in Nat /\ PlayerId = 1..(Size - 1)
    BY BoundsAssumption DEF PlayerId
  <2>2. free_players = [p \in 1..(Size - 1) |-> p]
    BY <2>1 DEF Init
  <2>3. Len(free_players) = Size - 1 /\ \A i \in 1..(Size - 1) : free_players[i] = i
    BY <2>1, <2>2
  <2>4. \A p \in PlayerId : players[p] = NULL
    BY DEF Init
  <2> QED
    BY <2>1, <2>3, <2>4 DEF IdsAreAccounted
<1>4. TransfersAreFresh
  <2>1. \A t \in Token : Unused(t)
    BY DEF Init, Unused
  <2>2. OncePerToken(ctrl_messages) /\ OncePerToken(ctrl_in)
        /\ \A t : ~Brings(ctrl_messages, t) /\ ~Brings(ctrl_in, t)
    BY BringsNothing DEF Init
  <2> QED
    BY <2>1, <2>2 DEF TransfersAreFresh, Waits
<1>5. EndIsLast /\ AnnouncedFirst
  BY DEF Init, EndIsLast, AnnouncedFirst
<1> QED
  BY <1>1, <1>2, <1>3, <1>4, <1>5 DEF IInv

LEMMA IInvStep == IInv /\ [Next]_vars => IInv'
<1> SUFFICES ASSUME IInv, [Next]_vars PROVE IInv'
  OBVIOUS
<1>1. TypeOK' /\ SessionChange
  BY TypeStep, SessionStep DEF IInv
<1>2. SessionsAgree' /\ CutIsClosed' /\ IdsAreAccounted' /\ TransfersAreFresh'
  BY <1>1, SessionsKeep, IdsStep, FreshStep DEF IInv
<1>3. RoundInOrder'
  BY <1>1, RoundStep DEF IInv
<1>4. EndIsLast' /\ AnnouncedFirst'
  BY <1>1, EndStep, AnnouncedStep DEF IInv
<1> QED
  BY <1>1, <1>2, <1>3, <1>4 DEF IInv

LEMMA IInvHolds == Spec => []IInv
  BY IInvInit, IInvStep, PTL DEF Spec

\* The variables keep their types.
THEOREM GameServerTypeCorrect == Spec => []TypeOK
<1>1. IInv => TypeOK
  BY DEF IInv
<1> QED
  BY <1>1, IInvHolds, PTL

\* A connection and its player know each other; a player without a connection
\* is one whose connection was closed by a failed flush.
THEOREM ConnectionsAndPlayersAgree == Spec => []SessionsAgree
<1>1. IInv => SessionsAgree
  BY DEF IInv
<1> QED
  BY <1>1, IInvHolds, PTL

\* Every player id is either in use or waits once in the queue of free ids.
THEOREM NoIdIsLost == Spec => []IdsAreAccounted
<1>1. IInv => IdsAreAccounted
  BY DEF IInv
<1> QED
  BY <1>1, IInvHolds, PTL

\* When the thread polls, the kernel watches every connection for reading, and
\* the control connection for writing until it is established.
THEOREM WakeupsAreKept == Spec => []NoLostWakeup
<1>1. IInv => NoLostWakeup
  <2> SUFFICES ASSUME RoundInOrder, TypeOK, phase = "poll"
               PROVE  /\ \A t \in Token : connections[t] # 0 => "read" \in armed[t]
                      /\ "read" \in armed[0]
                      /\ ~ctrl_connected => "write" \in armed[0]
    BY DEF IInv, NoLostWakeup
  <2>1. \A t \in Socket, flag \in {"read", "write"} :
          LookedAfter(t, flag) => flag \in armed[t]
    BY DEF RoundInOrder, LookedAfter
  <2>2. ctrl_open
    BY DEF RoundInOrder
  <2> QED
    BY <2>1, <2>2 DEF RoundInOrder, Socket
<1> QED
  BY <1>1, IInvHolds, PTL

\* The authentication server finds in this server the game server it takes it
\* to be: every step of the code is one step of GameServer, or changes nothing
\* that the authentication server can see.
THEOREM RefinesGameServer == Spec => IsGameServer
<1>1. Init => Server!Init
  BY ServerInit
<1>2. IInv /\ [Next]_vars => [Server!Next]_Server!serverVars
  <2> SUFFICES ASSUME IInv, [Next]_vars PROVE [Server!Next]_Server!serverVars
    OBVIOUS
  <2>1. SessionChange
    BY SessionStep DEF IInv
  <2> QED
    BY <2>1, ServerStep DEF IInv
<1> QED
  BY <1>1, <1>2, IInvHolds, PTL DEF Spec, IsGameServer, Server!Spec
=============================================================================
