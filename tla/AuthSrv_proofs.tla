--------------------------- MODULE AuthSrv_proofs ---------------------------
(***************************************************************************)
(* Invariants of the authentication server, for any number of accounts,    *)
(* connections, game servers and player tokens.                            *)
(***************************************************************************)
EXTENDS AuthSrv, SequenceLemmas

-----------------------------------------------------------------------------
(* Types of the operators the actions are built from *)

Objects  == [Token -> IoObject \cup {NULL}]
Registry == [Accounts -> GlobalAccountRegistry \cup {NULL}]
Games    == [ServerId -> GameSrvMetadata \cup {NULL}]

\* An entry that a lookup finds is an object of the map.
LEMMA HasTypeObject ==
  ASSUME objects \in Objects, NEW t, NEW type, HasType(t, type)
  PROVE  t \in Token /\ objects[t] \in IoObject /\ objects[t].type = type
  BY NullAssumption DEF Objects, HasType, GetObject

LEMMA NoneObjectType == NoneObject \in IoObject
  BY BoundsAssumption DEF NoneObject, IoObject

LEMMA NewConnectionType ==
  ASSUME NEW s \in 0..MaxServer
  PROVE  NewConnection(s) \in IoObject
  BY NoneObjectType DEF NewConnection, IoObject

LEMMA MarkAuthType ==
  ASSUME NEW accs \in Registry, NEW a \in Accounts \cup {NULL}
  PROVE  MarkAccountAuthDisconnected(accs, a) \in Registry
<1>1. CASE a = NULL \/ accs[a] = NULL
  BY <1>1 DEF MarkAccountAuthDisconnected
<1>2. CASE a # NULL /\ accs[a] # NULL
  <2>1. a \in Accounts /\ accs[a] \in GlobalAccountRegistry
    BY <1>2 DEF Registry
  <2>2. [accs[a] EXCEPT !.auth_conn_token = 0] \in GlobalAccountRegistry
    BY <2>1, BoundsAssumption DEF GlobalAccountRegistry
  <2> QED
    BY <1>2, <2>1, <2>2 DEF Registry, MarkAccountAuthDisconnected
<1> QED
  BY <1>1, <1>2

LEMMA MarkGameType ==
  ASSUME NEW accs \in Registry, NEW a \in Accounts \cup {NULL}
  PROVE  MarkAccountGameDisconnected(accs, a) \in Registry
<1>1. CASE a = NULL \/ accs[a] = NULL
  BY <1>1 DEF MarkAccountGameDisconnected
<1>2. CASE a # NULL /\ accs[a] # NULL
  <2>1. a \in Accounts /\ accs[a] \in GlobalAccountRegistry
    BY <1>2 DEF Registry
  <2>2. [accs[a] EXCEPT !.current_server_id = 0, !.current_player_id = 0]
          \in GlobalAccountRegistry
    <3>1. 0 \in 0..MaxServer /\ 0 \in 0..MaxPlayerToken
      BY BoundsAssumption
    <3> QED
      BY <2>1, <3>1 DEF GlobalAccountRegistry
  <2> QED
    BY <1>2, <2>1, <2>2 DEF Registry, MarkAccountGameDisconnected
<1> QED
  BY <1>1, <1>2

LEMMA CloseType ==
  ASSUME TypeOK, NEW t \in Token, objects[t] \in IoObject, CloseAuthConnection(t)
  PROVE  /\ objects' \in Objects
         /\ objects_to_remove' \subseteq Token
         /\ accounts' \in Registry
<1>1. objects' \in Objects
  BY DEF CloseAuthConnection, TypeOK, Objects, IoObject
<1>2. objects_to_remove' \subseteq Token
  BY DEF CloseAuthConnection, TypeOK
<1>3. objects[t].account_id \in Accounts \cup {NULL}
  BY DEF IoObject
<1>4. accounts' \in Registry
  BY <1>3, MarkAuthType DEF CloseAuthConnection, TypeOK, Registry
<1> QED
  BY <1>1, <1>2, <1>4

LEMMA NewMetadataType ==
  ASSUME NEW d \in Districts
  PROVE  NewMetadata(d) \in GameSrvMetadata
  BY BoundsAssumption DEF NewMetadata, GameSrvMetadata

LEMMA QueueTransferType ==
  ASSUME NEW m \in GameSrvMetadata, NEW type \in {"Auth", "Game"},
         NEW t \in Token, NEW p \in PlayerToken
  PROVE  QueueTransfer(m, type, t, p) \in GameSrvMetadata
  BY DEF QueueTransfer, GameSrvMetadata, AuthTransfer

LEMMA RequestType ==
  /\ \A s \in ServerId : Ready(s) \in CtrlMsg
  /\ \A a \in Accounts : Request("PlayerLeft", a, NULL) \in CtrlMsg
  /\ \A a \in Accounts, d \in Districts : Request("StartPlayerTransfer", a, d) \in CtrlMsg
  BY DEF Request, Ready, CtrlMsg

\* The message a handler runs on.
LEMMA HandlesType ==
  ASSUME TypeOK, NEW t, NEW id, Handles(t, id)
  PROVE  /\ t \in Token /\ objects[t] \in IoObject
         /\ objects[t].type = "CtrlConnection"
         /\ objects[t].messages[msg_idx] \in CtrlMsg
         /\ objects[t].messages[msg_idx].msg_id = id
         /\ msg_idx' \in Nat \ {0}
<1>1. /\ t \in Token /\ objects[t] \in IoObject /\ objects[t].type = "CtrlConnection"
  BY HasTypeObject DEF Handles, TypeOK, Objects
<1>2. objects[t].messages \in Seq(CtrlMsg)
  BY <1>1 DEF IoObject
<1> QED
  BY <1>1, <1>2 DEF Handles, TypeOK

LEMMA ReadyType ==
  ASSUME TypeOK, NEW t, HandleServerReady(t)
  PROVE  /\ t \in Token /\ objects[t] \in IoObject
         /\ objects[t].type = "CtrlConnection"
         /\ msg_idx \in DOMAIN objects[t].messages
         /\ objects[t].messages[msg_idx].server_id \in ServerId
         /\ objects[t].messages[msg_idx]
              = Ready(objects[t].messages[msg_idx].server_id)
         /\ msg_idx' \in Nat \ {0}
<1>1. Handles(t, "ServerReady")
  BY DEF HandleServerReady
<1>2. /\ t \in Token /\ objects[t] \in IoObject /\ objects[t].type = "CtrlConnection"
      /\ objects[t].messages[msg_idx] \in CtrlMsg
      /\ objects[t].messages[msg_idx].msg_id = "ServerReady"
      /\ msg_idx' \in Nat \ {0}
  BY <1>1, HandlesType
<1>3. msg_idx \in DOMAIN objects[t].messages
  <2>1. objects[t].messages \in Seq(CtrlMsg)
    BY <1>2 DEF IoObject
  <2> QED
    BY <1>1, <2>1 DEF Handles, TypeOK
<1>4. ASSUME NEW m \in CtrlMsg, m.msg_id = "ServerReady"
      PROVE  m.server_id \in ServerId /\ m = Ready(m.server_id)
  BY <1>4 DEF CtrlMsg, Ready
<1> QED
  BY <1>2, <1>3, <1>4

LEMMA CreateServerType ==
  ASSUME TypeOK, NEW s \in ServerId, NEW m \in GameSrvMetadata,
         NEW started \in BOOLEAN, CreateServer(s, m, started)
  PROVE  /\ games' \in Games
         /\ backlog' \subseteq ServerId
         /\ to_auth' \in [ServerId -> Seq(CtrlMsg)]
<1>1. games' \in Games
  BY DEF CreateServer, TypeOK, Games
<1>2. backlog' \subseteq ServerId
  BY DEF CreateServer, TypeOK
<1>3. <<Ready(s)>> \in Seq(CtrlMsg)
  BY RequestType
<1>4. to_auth' \in [ServerId -> Seq(CtrlMsg)]
  BY <1>3 DEF CreateServer, TypeOK
<1> QED
  BY <1>1, <1>2, <1>4

LEMMA ReceiveType ==
  ASSUME NEW conn \in IoObject, NEW received \in Seq(CtrlMsg), NEW lost \in BOOLEAN
  PROVE  Receive(conn, received, lost) \in IoObject
<1>1. conn.messages \o received \in Seq(CtrlMsg)
  BY ConcatProperties DEF IoObject
<1> QED
  BY <1>1 DEF Receive, IoObject

\* MayRequestGame has looked at the connection and at the registry entry.
LEMMA AssignType ==
  ASSUME TypeOK, NEW t \in Token, MayRequestGame(t), NEW s \in ServerId,
         NEW p \in PlayerToken, Assign(objects[t].account_id, objects[t].character, s, p)
  PROVE  accounts' \in Registry
<1>1. /\ objects[t] \in IoObject
      /\ objects[t].account_id \in Accounts
      /\ accounts[objects[t].account_id] \in GlobalAccountRegistry
  BY HasTypeObject DEF MayRequestGame, TypeOK, IoObject, Objects
<1>2. s \in 0..MaxServer /\ p \in 0..MaxPlayerToken /\ objects[t].character \in Characters \cup {NULL}
  BY <1>1, BoundsAssumption DEF ServerId, PlayerToken, IoObject
<1>3. [accounts[objects[t].account_id] EXCEPT !.char_id = objects[t].character,
                                              !.current_server_id = s,
                                              !.current_player_id = p]
        \in GlobalAccountRegistry
  BY <1>1, <1>2 DEF GlobalAccountRegistry
<1> QED
  BY <1>3 DEF Assign, TypeOK, Registry

LEMMA LoginType ==
  ASSUME TypeOK, NEW t \in Token, NEW a \in Accounts, NEW c \in Characters \cup {NULL},
         HandlePortalAccountLogin(t, a, c)
  PROVE  /\ objects' \in Objects
         /\ accounts' \in Registry
         /\ objects_to_remove' \subseteq Token
         /\ halted' \in BOOLEAN
<1> DEFINE old   == IF accounts[a] = NULL THEN 0 ELSE accounts[a].auth_conn_token
           kills == HasType(old, "AuthConnection")
           self  == old = t
           token == IF self THEN 0 ELSE t
           entry == IF accounts[a] = NULL THEN AddConnectedAccount(token)
                    ELSE [accounts[a] EXCEPT !.auth_conn_token = token]
           wiped == [NoneObject EXCEPT !.account_id = a, !.connected = TRUE, !.character = c]
           login == [objects[t] EXCEPT !.account_id = a, !.connected = TRUE, !.character = c]
<1>1. objects[t] \in IoObject
  BY HasTypeObject DEF HandlePortalAccountLogin, TypeOK, Objects
<1>2. login \in IoObject
  BY <1>1 DEF IoObject
<1>3. wiped \in IoObject
  BY NoneObjectType DEF IoObject
<1>4. token \in 0..MaxToken
  BY BoundsAssumption DEF Token
<1>5. entry \in GlobalAccountRegistry
  <2>1. CASE accounts[a] = NULL
    BY <1>4, <2>1, BoundsAssumption DEF AddConnectedAccount, GlobalAccountRegistry
  <2>2. CASE accounts[a] # NULL
    <3>1. accounts[a] \in GlobalAccountRegistry
      BY <2>2 DEF TypeOK
    <3> HIDE DEF token
    <3> QED
      BY <1>4, <2>2, <3>1 DEF GlobalAccountRegistry
  <2> QED
    BY <2>1, <2>2
<1>6. [accounts EXCEPT ![a] = entry] \in Registry
  BY <1>5 DEF TypeOK, Registry
<1>7. MarkAccountAuthDisconnected([accounts EXCEPT ![a] = entry], a) \in Registry
  BY <1>6, MarkAuthType
<1>8. kills => old \in Token
  BY HasTypeObject DEF TypeOK, Objects
<1> HIDE DEF entry, wiped, login, kills, self
<1>9. CASE HasType(old, "None")
  BY <1>9 DEF HandlePortalAccountLogin, TypeOK, Objects, Registry
<1>10. CASE ~HasType(old, "None")
  <2>1. objects' = [o \in Token |-> CASE o = t -> (IF self THEN wiped ELSE login)
                                      [] kills /\ o = old /\ o # t -> NoneObject
                                      [] OTHER -> objects[o]]
    BY <1>10 DEF HandlePortalAccountLogin, entry, wiped, login, kills, self
  <2>2. objects' \in Objects
    BY <2>1, <1>2, <1>3, NoneObjectType DEF TypeOK, Objects
  <2>3. objects_to_remove' = objects_to_remove \cup (IF kills THEN {old} ELSE {})
    BY <1>10 DEF HandlePortalAccountLogin, kills
  <2>4. objects_to_remove' \subseteq Token
    BY <2>3, <1>8 DEF TypeOK
  <2>5. \/ accounts' = [accounts EXCEPT ![a] = entry]
        \/ accounts' = MarkAccountAuthDisconnected([accounts EXCEPT ![a] = entry], a)
    BY <1>10 DEF HandlePortalAccountLogin, entry, self
  <2> QED
    BY <1>6, <1>7, <1>10, <2>2, <2>4, <2>5 DEF HandlePortalAccountLogin, TypeOK
<1> QED
  BY <1>9, <1>10

\* What a login does to the objects: it touches auth connections only.
LEMMA LoginObjects ==
  ASSUME TypeOK, NEW t \in Token, NEW a \in Accounts, NEW c \in Characters \cup {NULL},
         HandlePortalAccountLogin(t, a, c), NEW o \in Token, objects'[o] # objects[o]
  PROVE  /\ objects[o] \in IoObject /\ objects[o].type = "AuthConnection"
         /\ objects'[o] \in IoObject /\ objects'[o].type \in {"None", "AuthConnection"}
         /\ objects'[o].peer \in {0, objects[o].peer}
         /\ objects'[o].peer # 0 => objects'[o].messages = objects[o].messages
<1> DEFINE old   == IF accounts[a] = NULL THEN 0 ELSE accounts[a].auth_conn_token
           kills == HasType(old, "AuthConnection")
           self  == old = t
           wiped == [NoneObject EXCEPT !.account_id = a, !.connected = TRUE, !.character = c]
           login == [objects[t] EXCEPT !.account_id = a, !.connected = TRUE, !.character = c]
<1>1. objects[t] \in IoObject /\ objects[t].type = "AuthConnection"
  BY HasTypeObject DEF HandlePortalAccountLogin, TypeOK, Objects
<1>2. /\ login \in IoObject /\ login.type = "AuthConnection"
      /\ login.peer = objects[t].peer /\ login.messages = objects[t].messages
  BY <1>1 DEF IoObject
<1>3. wiped \in IoObject /\ wiped.type = "None" /\ wiped.peer = 0
  BY NoneObjectType DEF IoObject, NoneObject
<1>4. NoneObject \in IoObject /\ NoneObject.type = "None" /\ NoneObject.peer = 0
  BY NoneObjectType DEF NoneObject
<1>5. kills => objects[old] \in IoObject /\ objects[old].type = "AuthConnection"
  BY HasTypeObject DEF TypeOK, Objects
<1>6. objects' = [i \in Token |-> CASE i = t -> (IF self THEN wiped ELSE login)
                                    [] kills /\ i = old /\ i # t -> NoneObject
                                    [] OTHER -> objects[i]]
        \/ objects' = objects
  BY DEF HandlePortalAccountLogin
<1> HIDE DEF old, kills, self, wiped, login
<1> QED
  BY <1>1, <1>2, <1>3, <1>4, <1>5, <1>6

LEMMA SubSeqType ==
  ASSUME NEW S, NEW s \in Seq(S), NEW m \in Nat \ {0}, NEW n \in 0..Len(s)
  PROVE  SubSeq(s, m, n) \in Seq(S)
<1>1. \A i \in m..n : s[i] \in S
  OBVIOUS
<1> QED
  BY <1>1, SubSeqProperties

LEMMA SuffixType ==
  ASSUME TypeOK, NEW s \in ServerId, NEW n \in 0..Len(to_auth[s]),
         to_auth' = [to_auth EXCEPT ![s] = SubSeq(@, n + 1, Len(@))]
  PROVE  to_auth' \in [ServerId -> Seq(CtrlMsg)]
<1>1. to_auth[s] \in Seq(CtrlMsg)
  BY DEF TypeOK
<1>2. SubSeq(to_auth[s], n + 1, Len(to_auth[s])) \in Seq(CtrlMsg)
  BY <1>1, SubSeqType
<1> QED
  BY <1>2 DEF TypeOK

\* What an event of a control connection reads: some of what its server wrote,
\* or anything when it is nobody's.
Comes(s, received) ==
  /\ received \in Seq(CtrlMsg)
  /\ s = 0 => to_auth' = to_auth
  /\ s # 0 => /\ s \in ServerId
              /\ \E n \in 0..Len(to_auth[s]) :
                   /\ received = SubSeq(to_auth[s], 1, n)
                   /\ to_auth' = [to_auth EXCEPT ![s] = SubSeq(@, n + 1, Len(@))]

LEMMA ReadComes ==
  ASSUME TypeOK, NEW s \in 0..MaxServer, NEW received \in Arrived(s), Read(s, received)
  PROVE  Comes(s, received)
<1>1. CASE s = 0
  <2>1. <<>> \in Seq(CtrlMsg) /\ \A msg \in CtrlMsg : <<msg>> \in Seq(CtrlMsg)
    OBVIOUS
  <2>2. received \in {<<>>} \cup {<<msg>> : msg \in CtrlMsg}
    BY <1>1 DEF Arrived
  <2>3. received = <<>> \/ \E msg \in CtrlMsg : received = <<msg>>
    BY <2>2
  <2>4. received \in Seq(CtrlMsg)
    BY <2>1, <2>3
  <2> QED
    BY <1>1, <2>4 DEF Read, Comes
<1>2. CASE s # 0
  <2>1. s \in ServerId /\ to_auth[s] \in Seq(CtrlMsg)
    BY <1>2, BoundsAssumption DEF ServerId, TypeOK
  <2>2. PICK n \in 0..Len(to_auth[s]) : received = SubSeq(to_auth[s], 1, n)
    BY <1>2 DEF Arrived
  <2>3. received \in Seq(CtrlMsg)
    BY <2>1, <2>2, SubSeqType
  <2>4. Len(received) = n
    BY <2>1, <2>2, SubSeqProperties
  <2>5. to_auth' = [to_auth EXCEPT ![s] = SubSeq(@, n + 1, Len(@))]
    BY <1>2, <2>4 DEF Read
  <2> QED
    BY <1>2, <2>1, <2>2, <2>3, <2>5 DEF Comes
<1> QED
  BY <1>1, <1>2

LEMMA ComesType ==
  ASSUME TypeOK, NEW s, NEW received, Comes(s, received)
  PROVE  /\ received \in Seq(CtrlMsg)
         /\ to_auth' \in [ServerId -> Seq(CtrlMsg)]
<1>1. CASE s = 0
  BY <1>1 DEF Comes, TypeOK
<1>2. CASE s # 0
  BY <1>2, SuffixType DEF Comes
<1> QED
  BY <1>1, <1>2

\* The connection that a control hello makes.
NewCtrl(s, received) ==
  [NewConnection(s) EXCEPT !.type = "CtrlConnection", !.messages = received]

LEMMA NewCtrlType ==
  ASSUME NEW s \in 0..MaxServer, NEW received \in Seq(CtrlMsg)
  PROVE  /\ NewCtrl(s, received) \in IoObject
         /\ NewCtrl(s, received).type = "CtrlConnection"
         /\ NewCtrl(s, received).open
         /\ NewCtrl(s, received).peer = s
         /\ NewCtrl(s, received).messages = received
         /\ ~NewCtrl(s, received).connected
         /\ ~NewCtrl(s, received).closed
<1>1. NewConnection(s) \in IoObject
  BY NewConnectionType
<1> QED
  BY <1>1 DEF NewCtrl, IoObject, NewConnection, NoneObject

LEMMA HandshakeCtrl ==
  ASSUME TypeOK, NEW t \in Token, DoPostHandshakeCtrl(t)
  PROVE  /\ objects[t] \in IoObject /\ objects[t].type = "Connection"
         /\ \/ MakesNoSense(objects[t].peer)
            \/ \E received \in Seq(CtrlMsg) :
                 /\ objects' = [objects EXCEPT ![t] = NewCtrl(objects[t].peer, received)]
                 /\ Comes(objects[t].peer, received)
                 /\ UNCHANGED halted
<1>1. objects[t] \in IoObject /\ objects[t].type = "Connection"
  BY HasTypeObject DEF DoPostHandshakeCtrl, TypeOK, Objects
<1> DEFINE s == objects[t].peer
<1>2. s \in 0..MaxServer
  BY <1>1 DEF IoObject
<1>3. CASE MakesNoSense(s)
  BY <1>1, <1>3
<1>4. ASSUME NEW received \in Arrived(s), Read(s, received), UNCHANGED halted,
             objects' = [objects EXCEPT ![t] = NewCtrl(s, received)]
      PROVE  \E r \in Seq(CtrlMsg) :
               /\ objects' = [objects EXCEPT ![t] = NewCtrl(objects[t].peer, r)]
               /\ Comes(objects[t].peer, r)
               /\ UNCHANGED halted
  <2>1. Comes(s, received)
    BY <1>2, <1>4, ReadComes
  <2>2. received \in Seq(CtrlMsg)
    BY <2>1, ComesType
  <2> QED
    BY <1>4, <2>1, <2>2
<1>5. \/ MakesNoSense(s)
      \/ \E received \in Arrived(s) :
           /\ objects' = [objects EXCEPT ![t] = NewCtrl(s, received)]
           /\ Read(s, received)
           /\ UNCHANGED halted
  BY DEF DoPostHandshakeCtrl, NewCtrl
<1> QED
  BY <1>1, <1>3, <1>4, <1>5

LEMMA CtrlEventReads ==
  ASSUME TypeOK, NEW t \in Token, BeginCtrlEvent(t)
  PROVE  /\ objects[t] \in IoObject /\ objects[t].type = "CtrlConnection"
         /\ \/ MakesNoSense(objects[t].peer)
            \/ \E received \in Seq(CtrlMsg), lost \in BOOLEAN :
                 /\ objects' = [objects EXCEPT ![t] = Receive(objects[t], received, lost)]
                 /\ Comes(objects[t].peer, received)
                 /\ UNCHANGED halted
<1>1. objects[t] \in IoObject /\ objects[t].type = "CtrlConnection"
  BY HasTypeObject DEF BeginCtrlEvent, TypeOK, Objects
<1> DEFINE s == objects[t].peer
<1>2. s \in 0..MaxServer
  BY <1>1 DEF IoObject
<1>3. CASE MakesNoSense(s)
  BY <1>1, <1>3
<1>4. ASSUME NEW received \in Arrived(s), NEW lost \in BOOLEAN, Read(s, received),
             UNCHANGED halted,
             objects' = [objects EXCEPT ![t] = Receive(objects[t], received, lost)]
      PROVE  \E r \in Seq(CtrlMsg), l \in BOOLEAN :
               /\ objects' = [objects EXCEPT ![t] = Receive(objects[t], r, l)]
               /\ Comes(objects[t].peer, r)
               /\ UNCHANGED halted
  <2>1. Comes(s, received)
    BY <1>2, <1>4, ReadComes
  <2>2. received \in Seq(CtrlMsg)
    BY <2>1, ComesType
  <2> QED
    BY <1>4, <2>1, <2>2
<1>5. \/ MakesNoSense(s)
      \/ \E received \in Arrived(s), lost \in BOOLEAN :
           /\ objects' = [objects EXCEPT ![t] = Receive(objects[t], received, lost)]
           /\ Read(s, received)
           /\ UNCHANGED halted
  BY DEF BeginCtrlEvent
<1> QED
  BY <1>1, <1>3, <1>4, <1>5

LEMMA GiveOutType ==
  ASSUME TypeOK, NEW tokens
  PROVE  GiveOut(tokens) \in [PlayerToken -> Nat]
  BY DEF TypeOK, GiveOut

-----------------------------------------------------------------------------
(* Type correctness *)

LEMMA TypeInit == Init => TypeOK
<1> SUFFICES ASSUME Init PROVE TypeOK
  OBVIOUS
<1>1. /\ last_token_issued \in 0..MaxToken
      /\ last_player_token \in 0..MaxPlayerToken
      /\ current \in 0..MaxToken
      /\ msg_idx \in Nat \ {0}
  BY BoundsAssumption DEF Init
<1>2. /\ objects \in [Token -> IoObject \cup {NULL}]
      /\ accounts \in [Accounts -> GlobalAccountRegistry \cup {NULL}]
      /\ games \in [ServerId -> GameSrvMetadata \cup {NULL}]
  BY DEF Init
<1>3. /\ to_auth \in [ServerId -> Seq(CtrlMsg)]
      /\ to_game \in [ServerId -> Seq(TransferConnection)]
  BY DEF Init
<1>4. /\ playing \in [ServerId -> [Accounts -> Nat]]
      /\ sent \in [PlayerToken -> Nat]
  BY DEF Init
<1> QED
  BY <1>1, <1>2, <1>3, <1>4 DEF Init, TypeOK

LEMMA TypeStep == TypeOK /\ [Next]_vars => TypeOK'
<1> SUFFICES ASSUME TypeOK, [Next]_vars PROVE TypeOK'
  OBVIOUS
<1> USE DEF counters, registries, batchVars, dispatchVars, threadVars, envVars,
            historyVars, worldVars
<1>0. objects \in Objects
  BY DEF TypeOK, Objects
<1>1. CASE Poll
  BY <1>1 DEF Poll, TypeOK
<1>2. CASE EventsDone
  BY <1>2 DEF EventsDone, TypeOK
<1>3. CASE UpdateDone
  BY <1>3 DEF UpdateDone, Rearmed, TypeOK
<1>4. CASE ProcessListenerEvent
  <2>1. PICK s \in {0} \cup backlog :
          /\ objects' = [objects EXCEPT ![last_token_issued + 1] = NewConnection(s)]
          /\ backlog' = backlog \ {s}
    BY <1>4 DEF ProcessListenerEvent, NextToken
  <2>2. last_token_issued + 1 \in Token
    BY <1>4, BoundsAssumption DEF ProcessListenerEvent, NextToken, TypeOK, Token
  <2>3. NewConnection(s) \in IoObject
    BY NewConnectionType, BoundsAssumption DEF TypeOK, ServerId
  <2>4. objects' \in [Token -> IoObject \cup {NULL}]
    BY <2>1, <2>3 DEF TypeOK
  <2>5. last_token_issued' \in 0..MaxToken
    BY <1>4, <2>2 DEF ProcessListenerEvent, NextToken, Token
  <2> QED
    BY <1>4, <2>1, <2>2, <2>4, <2>5 DEF ProcessListenerEvent, NextToken, TypeOK
<1>5. ASSUME NEW t \in Token, ProcessEventNone(t) PROVE TypeOK'
  BY <1>5 DEF ProcessEventNone, TakeEvent, TypeOK
<1>6. ASSUME NEW t \in Token, ProcessConnectionEvent(t) PROVE TypeOK'
  BY <1>6 DEF ProcessConnectionEvent, TakeEvent, TypeOK
<1>7. ASSUME NEW t \in Token, ConnectionFailed(t) PROVE TypeOK'
  BY <1>7 DEF ConnectionFailed, TakeEvent, TypeOK
<1>8. ASSUME NEW t \in Token, DoPostHandshakeAuth(t) PROVE TypeOK'
  BY <1>8, NoneObjectType DEF DoPostHandshakeAuth, TakeEvent, TypeOK, IoObject
<1>9. ASSUME NEW t \in Token, DoPostHandshakeCtrl(t) PROVE TypeOK'
  <2> DEFINE s == objects[t].peer
  <2>1. s \in 0..MaxServer
    BY <1>9, HandshakeCtrl DEF IoObject
  <2>2. /\ objects' \in [Token -> IoObject \cup {NULL}]
        /\ to_auth' \in [ServerId -> Seq(CtrlMsg)]
        /\ halted' \in BOOLEAN
    <3>1. CASE MakesNoSense(s)
      BY <3>1 DEF MakesNoSense, TypeOK
    <3>2. CASE ~MakesNoSense(s)
      <4>1. PICK received \in Seq(CtrlMsg) :
              /\ objects' = [objects EXCEPT ![t] = NewCtrl(s, received)]
              /\ Comes(s, received)
              /\ UNCHANGED halted
        BY <1>9, <3>2, HandshakeCtrl
      <4>2. NewCtrl(s, received) \in IoObject
        BY <2>1, NewCtrlType
      <4>3. to_auth' \in [ServerId -> Seq(CtrlMsg)]
        BY <4>1, ComesType
      <4> HIDE DEF s
      <4> QED
        BY <4>1, <4>2, <4>3 DEF TypeOK
    <3> QED
      BY <3>1, <3>2
  <2>3. /\ TakeEvent(t)
        /\ UNCHANGED <<counters, accounts, games, phase, objects_to_remove,
                       dispatchVars, armed, backlog, to_game, playing, historyVars>>
    BY <1>9 DEF DoPostHandshakeCtrl
  <2> HIDE DEF s
  <2> QED
    BY <2>2, <2>3 DEF TakeEvent, TypeOK
<1>10. ASSUME NEW t \in Token, NEW a \in Accounts, NEW c \in Characters \cup {NULL},
              NEW s \in ServerId, NEW p \in PlayerToken, DoPostHandshakeGame(t, a, c, s, p)
       PROVE TypeOK'
  <2> DEFINE ctrl_conn == objects[games[s].ctrl_conn]
             transfer  == [account_id |-> a, player_token |-> p]
  <2>1. transfer \in TransferConnection
    BY DEF TransferConnection
  <2>2. \/ to_game' = to_game
        \/ /\ Admitted(a, c, s, p) /\ ctrl_conn.peer # 0
           /\ to_game' = [to_game EXCEPT ![ctrl_conn.peer] = Append(@, transfer)]
    BY <1>10 DEF DoPostHandshakeGame
  <2>3. to_game' \in [ServerId -> Seq(TransferConnection)]
    <3>1. CASE to_game' = to_game
      BY <3>1 DEF TypeOK
    <3>2. CASE to_game' # to_game
      <4>1. ctrl_conn \in IoObject
        BY <1>0, <2>2, <3>2, HasTypeObject DEF Admitted
      <4>2. ctrl_conn.peer \in ServerId
        <5>1. ctrl_conn.peer # 0
          BY <2>2, <3>2
        <5> HIDE DEF ctrl_conn
        <5>2. ctrl_conn.peer \in 0..MaxServer
          BY <4>1 DEF IoObject
        <5> QED
          BY <5>1, <5>2, BoundsAssumption DEF ServerId
      <4> HIDE DEF ctrl_conn, transfer
      <4>3. Append(to_game[ctrl_conn.peer], transfer) \in Seq(TransferConnection)
        BY <2>1, <4>2, AppendProperties DEF TypeOK
      <4> QED
        BY <2>2, <3>2, <4>3 DEF TypeOK
    <3> QED
      BY <3>1, <3>2
  <2>4. objects' \in [Token -> IoObject \cup {NULL}]
    BY <1>10 DEF DoPostHandshakeGame, TypeOK
  <2>5. halted' \in BOOLEAN /\ used' \subseteq PlayerToken
    BY <1>10 DEF DoPostHandshakeGame, TypeOK
  <2> QED
    BY <1>10, <2>3, <2>4, <2>5 DEF DoPostHandshakeGame, TakeEvent, TypeOK
<1>11. ASSUME NEW t \in Token, BeginAuthEvent(t) PROVE TypeOK'
  <2>1. objects[t] \in IoObject /\ current' \in 0..MaxToken
    BY <1>0, <1>11, HasTypeObject, BoundsAssumption DEF BeginAuthEvent, Token
  <2>2. /\ objects' \in [Token -> IoObject \cup {NULL}]
        /\ objects_to_remove' \subseteq Token
        /\ accounts' \in [Accounts -> GlobalAccountRegistry \cup {NULL}]
    BY <1>11, <2>1, CloseType DEF BeginAuthEvent, TypeOK, Objects, Registry
  <2> QED
    BY <1>11, <2>1, <2>2 DEF BeginAuthEvent, TakeEvent, TypeOK
<1>12. ASSUME NEW t \in Token, AuthEventFailed(t) PROVE TypeOK'
  <2>1. objects[t] \in IoObject /\ current' \in 0..MaxToken
    BY <1>0, <1>12, HasTypeObject, BoundsAssumption DEF AuthEventFailed
  <2>2. /\ objects' \in [Token -> IoObject \cup {NULL}]
        /\ objects_to_remove' \subseteq Token
        /\ accounts' \in [Accounts -> GlobalAccountRegistry \cup {NULL}]
    BY <1>12, <2>1, CloseType DEF AuthEventFailed, Objects, Registry
  <2> QED
    BY <1>12, <2>1, <2>2 DEF AuthEventFailed, TypeOK
<1>13. ASSUME NEW t \in Token, EndAuthEvent(t) PROVE TypeOK'
  BY <1>13, BoundsAssumption DEF EndAuthEvent, TypeOK
<1>14. ASSUME NEW t \in Token, NEW a \in Accounts, NEW c \in Characters \cup {NULL},
              HandlePortalAccountLogin(t, a, c)
       PROVE TypeOK'
  BY <1>14, LoginType DEF HandlePortalAccountLogin, TypeOK, Objects, Registry
<1>15. ASSUME NEW t \in Token, NEW c \in Characters \cup {NULL}, HandleChangePlayCharacter(t, c)
       PROVE TypeOK'
  <2>1. objects[t] \in IoObject
    BY <1>0, <1>15, HasTypeObject DEF HandleChangePlayCharacter
  <2>2. [objects[t] EXCEPT !.character = c] \in IoObject
    BY <2>1 DEF IoObject
  <2> QED
    BY <1>15, <2>2 DEF HandleChangePlayCharacter, TypeOK
<1>16. ASSUME NEW t \in Token, NEW d \in Districts, NEW s \in ServerId,
              HandleRequestGameInstance(t, d, s)
       PROVE TypeOK'
  <2>1. games[s] \in GameSrvMetadata
    BY <1>16 DEF HandleRequestGameInstance, FindCompatibleGameSrv, TypeOK
  <2>2. last_player_token' \in PlayerToken
    BY <1>16, BoundsAssumption DEF HandleRequestGameInstance, DrawPlayerToken, TypeOK, PlayerToken
  <2>3. accounts' \in [Accounts -> GlobalAccountRegistry \cup {NULL}]
    BY <1>16, <2>2, AssignType DEF HandleRequestGameInstance, Registry
  <2>4. games' \in [ServerId -> GameSrvMetadata \cup {NULL}]
    <3>1. QueueTransfer(games[s], "Auth", t, last_player_token') \in GameSrvMetadata
      BY <2>1, <2>2, QueueTransferType
    <3> QED
      BY <1>16, <3>1 DEF HandleRequestGameInstance, TypeOK
  <2>5. sent' \in [PlayerToken -> Nat]
    BY <1>16, GiveOutType DEF HandleRequestGameInstance, TypeOK
  <2>6. last_player_token' \in 0..MaxPlayerToken
    BY <2>2, BoundsAssumption DEF PlayerToken
  <2> QED
    BY <1>16, <2>3, <2>4, <2>5, <2>6 DEF HandleRequestGameInstance, TypeOK
<1>17. ASSUME NEW t \in Token, NEW d \in Districts, NEW s \in ServerId,
              RequestCreatesServer(t, d, s)
       PROVE TypeOK'
  <2>1. last_player_token' \in PlayerToken
    BY <1>17, BoundsAssumption DEF RequestCreatesServer, DrawPlayerToken, TypeOK, PlayerToken
  <2>2. accounts' \in [Accounts -> GlobalAccountRegistry \cup {NULL}]
    BY <1>17, <2>1, AssignType DEF RequestCreatesServer, Registry
  <2>3. QueueTransfer(NewMetadata(d), "Auth", t, last_player_token') \in GameSrvMetadata
    BY <2>1, NewMetadataType, QueueTransferType
  <2>4. /\ games' \in [ServerId -> GameSrvMetadata \cup {NULL}]
        /\ backlog' \subseteq ServerId
        /\ to_auth' \in [ServerId -> Seq(CtrlMsg)]
    BY <1>17, <2>3, CreateServerType DEF RequestCreatesServer, Games
  <2>5. last_player_token' \in 0..MaxPlayerToken
    BY <2>1, BoundsAssumption DEF PlayerToken
  <2> QED
    BY <1>17, <2>2, <2>4, <2>5 DEF RequestCreatesServer, TypeOK
<1>18. ASSUME NEW t \in Token, NEW d \in Districts, NEW s \in ServerId,
              RequestCreationFails(t, d, s)
       PROVE TypeOK'
  <2>1. /\ objects[t] \in IoObject
        /\ objects[t].account_id \in Accounts
        /\ accounts[objects[t].account_id] \in GlobalAccountRegistry
    BY <1>0, <1>18, HasTypeObject DEF RequestCreationFails, MayRequestGame, TypeOK, IoObject
  <2>2. [accounts[objects[t].account_id] EXCEPT !.char_id = objects[t].character]
          \in GlobalAccountRegistry
    BY <2>1 DEF GlobalAccountRegistry, IoObject
  <2>3. accounts' \in [Accounts -> GlobalAccountRegistry \cup {NULL}]
    BY <1>18, <2>2 DEF RequestCreationFails, TypeOK
  <2>4. /\ games' \in [ServerId -> GameSrvMetadata \cup {NULL}]
        /\ backlog' \subseteq ServerId
        /\ to_auth' \in [ServerId -> Seq(CtrlMsg)]
    BY <1>18, NewMetadataType, CreateServerType DEF RequestCreationFails, Games
  <2> QED
    BY <1>18, <2>3, <2>4 DEF RequestCreationFails, TypeOK
<1>19. ASSUME NEW t \in Token, BeginCtrlEvent(t) PROVE TypeOK'
  <2>1. objects[t] \in IoObject /\ current' \in 0..MaxToken
    BY <1>0, <1>19, HasTypeObject, BoundsAssumption DEF BeginCtrlEvent, Token
  <2> DEFINE s == objects[t].peer
  <2>2. /\ objects' \in [Token -> IoObject \cup {NULL}]
        /\ to_auth' \in [ServerId -> Seq(CtrlMsg)]
        /\ halted' \in BOOLEAN
    <3>1. CASE MakesNoSense(s)
      BY <3>1 DEF MakesNoSense, TypeOK
    <3>2. CASE ~MakesNoSense(s)
      <4>1. PICK received \in Seq(CtrlMsg), lost \in BOOLEAN :
              /\ objects' = [objects EXCEPT ![t] = Receive(objects[t], received, lost)]
              /\ Comes(s, received)
              /\ UNCHANGED halted
        BY <1>19, <3>2, CtrlEventReads
      <4>2. Receive(objects[t], received, lost) \in IoObject
        BY <2>1, ReceiveType
      <4>3. to_auth' \in [ServerId -> Seq(CtrlMsg)]
        BY <4>1, ComesType
      <4> QED
        BY <4>1, <4>2, <4>3 DEF TypeOK
    <3> QED
      BY <3>1, <3>2
  <2>3. /\ TakeEvent(t) /\ msg_idx' = 1
        /\ UNCHANGED <<counters, accounts, games, phase, objects_to_remove, armed,
                       backlog, to_game, playing, historyVars>>
    BY <1>19 DEF BeginCtrlEvent
  <2> HIDE DEF s
  <2> QED
    BY <2>1, <2>2, <2>3 DEF TakeEvent, TypeOK
<1>20. ASSUME NEW t \in Token, EndCtrlEvent(t) PROVE TypeOK'
  BY <1>20, BoundsAssumption DEF EndCtrlEvent, TypeOK
<1>21. ASSUME NEW t \in Token, HandleServerReady(t) PROVE TypeOK'
  <2> DEFINE s == objects[t].messages[msg_idx].server_id
  <2>1. s \in ServerId /\ msg_idx' \in Nat \ {0}
    BY <1>21, ReadyType
  <2>2. CASE games[s] = NULL
    BY <1>21, <2>1, <2>2 DEF HandleServerReady, TypeOK
  <2>3. CASE games[s] # NULL
    <3>1. games[s] \in GameSrvMetadata
      BY <2>1, <2>3 DEF TypeOK
    <3>2. MarkReady(games[s], t) \in GameSrvMetadata
      <4>1. t \in 0..MaxToken
        BY BoundsAssumption DEF Token
      <4> HIDE DEF s
      <4> QED
        BY <3>1, <4>1 DEF MarkReady, GameSrvMetadata
    <3>3. games' = [games EXCEPT ![s] = MarkReady(games[s], t)]
      BY <1>21, <2>3 DEF HandleServerReady
    <3>4. games' \in [ServerId -> GameSrvMetadata \cup {NULL}]
      BY <3>2, <3>3 DEF TypeOK
    <3>5. sent' \in [PlayerToken -> Nat]
      BY <1>21, <2>3, GiveOutType DEF HandleServerReady
    <3> QED
      BY <1>21, <2>1, <2>3, <3>4, <3>5 DEF HandleServerReady, TypeOK
  <2> QED
    BY <2>2, <2>3
<1>22. ASSUME NEW t \in Token, HandlePlayerLeft(t) PROVE TypeOK'
  <2>1. objects[t].messages[msg_idx].account_id \in Accounts \cup {NULL} /\ msg_idx' \in Nat \ {0}
    BY <1>22, HandlesType DEF HandlePlayerLeft, CtrlMsg
  <2>2. accounts' \in [Accounts -> GlobalAccountRegistry \cup {NULL}]
    BY <1>22, <2>1, MarkGameType DEF HandlePlayerLeft, TypeOK, Registry
  <2> QED
    BY <1>22, <2>1, <2>2 DEF HandlePlayerLeft, TypeOK
<1>23. ASSUME NEW t \in Token, NEW s \in ServerId, HandlerStartPlayerTransfer(t, s)
       PROVE TypeOK'
  <2>1. games[s] \in GameSrvMetadata /\ msg_idx' \in Nat \ {0}
    BY <1>23, HandlesType DEF HandlerStartPlayerTransfer, FindCompatibleGameSrv, TypeOK
  <2>2. last_player_token' \in PlayerToken
    BY <1>23, BoundsAssumption DEF HandlerStartPlayerTransfer, DrawPlayerToken, TypeOK, PlayerToken
  <2>3. QueueTransfer(games[s], "Game", t, last_player_token') \in GameSrvMetadata
    BY <2>1, <2>2, QueueTransferType
  <2>4. games' \in [ServerId -> GameSrvMetadata \cup {NULL}]
    BY <1>23, <2>3 DEF HandlerStartPlayerTransfer, TypeOK
  <2>5. sent' \in [PlayerToken -> Nat]
    BY <1>23, GiveOutType DEF HandlerStartPlayerTransfer, TypeOK
  <2>6. last_player_token' \in 0..MaxPlayerToken
    BY <2>2, BoundsAssumption DEF PlayerToken
  <2> QED
    BY <1>23, <2>1, <2>4, <2>5, <2>6 DEF HandlerStartPlayerTransfer, TypeOK
<1>24. ASSUME NEW t \in Token, NEW s \in ServerId, TransferCreatesServer(t, s)
       PROVE TypeOK'
  <2> DEFINE msg == objects[t].messages[msg_idx]
  <2>1. msg.district \in Districts /\ msg_idx' \in Nat \ {0}
    BY <1>24, HandlesType DEF TransferCreatesServer, CtrlMsg
  <2>2. last_player_token' \in PlayerToken
    BY <1>24, BoundsAssumption DEF TransferCreatesServer, DrawPlayerToken, TypeOK, PlayerToken
  <2>3. QueueTransfer(NewMetadata(msg.district), "Game", t, last_player_token') \in GameSrvMetadata
    BY <2>1, <2>2, NewMetadataType, QueueTransferType
  <2>4. /\ games' \in [ServerId -> GameSrvMetadata \cup {NULL}]
        /\ backlog' \subseteq ServerId
        /\ to_auth' \in [ServerId -> Seq(CtrlMsg)]
    BY <1>24, <2>3, CreateServerType DEF TransferCreatesServer, Games
  <2>5. last_player_token' \in 0..MaxPlayerToken
    BY <2>2, BoundsAssumption DEF PlayerToken
  <2> QED
    BY <1>24, <2>1, <2>4, <2>5 DEF TransferCreatesServer, TypeOK
<1>25. ASSUME NEW t \in Token, CancelPlayerTransfer(t) PROVE TypeOK'
  <2> DEFINE msg == objects[t].messages[msg_idx]
  <2>1. msg.district \in Districts /\ msg_idx' \in Nat \ {0}
    BY <1>25, HandlesType DEF CancelPlayerTransfer, CtrlMsg
  <2>2. /\ games' \in [ServerId -> GameSrvMetadata \cup {NULL}]
        /\ backlog' \subseteq ServerId
        /\ to_auth' \in [ServerId -> Seq(CtrlMsg)]
    BY <1>25, <2>1, NewMetadataType, CreateServerType DEF CancelPlayerTransfer, TypeOK, Games
  <2> QED
    BY <1>25, <2>1, <2>2 DEF CancelPlayerTransfer, TypeOK
<1>26. ASSUME NEW t \in Token, FlushFailed(t) PROVE TypeOK'
  <2>1. objects[t] \in IoObject
    BY <1>0, <1>26, HasTypeObject DEF FlushFailed, Reaches
  <2>2. /\ objects' \in [Token -> IoObject \cup {NULL}]
        /\ objects_to_remove' \subseteq Token
        /\ accounts' \in [Accounts -> GlobalAccountRegistry \cup {NULL}]
    BY <1>26, <2>1, CloseType DEF FlushFailed, Objects, Registry
  <2> QED
    BY <1>26, <2>2 DEF FlushFailed, TypeOK
<1>27. ASSUME NEW s \in ServerId, PlayerJoins(s) PROVE TypeOK'
  <2>1. /\ Head(to_game[s]) \in TransferConnection
        /\ Tail(to_game[s]) \in Seq(TransferConnection)
    BY <1>27, HeadTailProperties DEF PlayerJoins, TypeOK
  <2>2. playing' \in [ServerId -> [Accounts -> Nat]]
    <3> DEFINE a == Head(to_game[s]).account_id
    <3>1. a \in Accounts
      BY <2>1 DEF TransferConnection
    <3>2. playing[s] \in [Accounts -> Nat]
      BY DEF TypeOK
    <3>3. [playing[s] EXCEPT ![a] = @ + 1] \in [Accounts -> Nat]
      BY <3>1, <3>2
    <3>4. playing' = [playing EXCEPT ![s] = [playing[s] EXCEPT ![a] = @ + 1]]
      BY <1>27 DEF PlayerJoins, TypeOK
    <3> QED
      BY <3>3, <3>4 DEF TypeOK
  <2> QED
    BY <1>27, <2>1, <2>2 DEF PlayerJoins, TypeOK
<1>28. ASSUME NEW s \in ServerId, NEW a \in Accounts, PlayerLeaves(s, a) PROVE TypeOK'
  <2>1. Append(to_auth[s], Request("PlayerLeft", a, NULL)) \in Seq(CtrlMsg)
    BY RequestType, AppendProperties DEF TypeOK
  <2>2. playing' \in [ServerId -> [Accounts -> Nat]]
    <3>1. playing[s] \in [Accounts -> Nat]
      BY DEF TypeOK
    <3>2. playing[s][a] > 0
      BY <1>28 DEF PlayerLeaves
    <3>3. [playing[s] EXCEPT ![a] = @ - 1] \in [Accounts -> Nat]
      BY <3>1, <3>2
    <3>4. playing' = [playing EXCEPT ![s] = [playing[s] EXCEPT ![a] = @ - 1]]
      BY <1>28 DEF PlayerLeaves, TypeOK
    <3> QED
      BY <3>3, <3>4 DEF TypeOK
  <2> QED
    BY <1>28, <2>1, <2>2 DEF PlayerLeaves, TypeOK
<1>29. ASSUME NEW s \in ServerId, NEW a \in Accounts, NEW d \in Districts, PlayerTravels(s, a, d)
       PROVE TypeOK'
  <2>1. Append(to_auth[s], Request("StartPlayerTransfer", a, d)) \in Seq(CtrlMsg)
    BY RequestType, AppendProperties DEF TypeOK
  <2> QED
    BY <1>29, <2>1 DEF PlayerTravels, TypeOK
<1>30. CASE UNCHANGED vars
  BY <1>30 DEF vars, TypeOK
<1> QED
  BY <1>1, <1>2, <1>3, <1>4, <1>5, <1>6, <1>7, <1>8, <1>9, <1>10, <1>11, <1>12,
     <1>13, <1>14, <1>15, <1>16, <1>17, <1>18, <1>19, <1>20, <1>21, <1>22, <1>23,
     <1>24, <1>25, <1>26, <1>27, <1>28, <1>29, <1>30
     DEF Next, Thread, GameServers, Connection, AuthEvent, CtrlEvent

-----------------------------------------------------------------------------
(* What is announced.  Messages name no server but the one they come from. *)

NamesOnly(messages, s) == \A msg : Occurs(messages, msg) => msg.server_id \in {0, s}

PeerIsKnown ==
  /\ \A s \in backlog : games[s] # NULL
  /\ \A o \in Token : objects[o] # NULL /\ objects[o].peer # 0 =>
       games[objects[o].peer] # NULL /\ NamesOnly(objects[o].messages, objects[o].peer)
  /\ \A s \in ServerId : NamesOnly(to_auth[s], s)

LEMMA PartOccurs ==
  ASSUME NEW S, NEW r \in Seq(S), NEW a \in Nat \ {0}, NEW b \in 0..Len(r), NEW v,
         Occurs(SubSeq(r, a, b), v)
  PROVE  Occurs(r, v)
<1> DEFINE part == SubSeq(r, a, b)
<1>1. \A i \in a..b : r[i] \in S
  OBVIOUS
<1>2. Len(part) = (IF a <= b THEN b - a + 1 ELSE 0) /\ \A i \in 1..Len(part) : part[i] = r[a + i - 1]
  BY <1>1, SubSeqProperties
<1>3. PICK i \in 1..Len(part) : part[i] = v
  BY DEF Occurs
<1>4. a + i - 1 \in 1..Len(r) /\ r[a + i - 1] = v
  BY <1>2, <1>3
<1> QED
  BY <1>4 DEF Occurs

-----------------------------------------------------------------------------
(* The server registry.  A step leaves it alone or changes one entry. *)

CreatedServer(s, d) ==
  /\ games[s] = NULL /\ FindCompatibleGameSrv(d) = {}
  /\ backlog' \subseteq backlog \cup {s}
  /\ sent' = sent
  /\ \/ /\ games' = [games EXCEPT ![s] = NewMetadata(d)]
        /\ last_player_token' = last_player_token
     \/ /\ DrawPlayerToken
        /\ \E type \in {"Auth", "Game"}, t \in Token :
             games' = [games EXCEPT ![s] =
                         QueueTransfer(NewMetadata(d), type, t, last_player_token')]

QueuedOn(s) ==
  /\ games[s] \in GameSrvMetadata /\ games[s].ctrl_conn = 0
  /\ backlog' \subseteq backlog
  /\ sent' = sent
  /\ DrawPlayerToken
  /\ \E type \in {"Auth", "Game"}, t \in Token :
       games' = [games EXCEPT ![s] = QueueTransfer(@, type, t, last_player_token')]

Announced(s, t) ==
  /\ games[s] \in GameSrvMetadata
  /\ objects[t] \in IoObject /\ objects[t].type = "CtrlConnection"
  /\ objects[t].peer \in {0, s} /\ Occurs(objects[t].messages, Ready(s))
  /\ objects' = objects
  /\ backlog' \subseteq backlog
  /\ last_player_token' = last_player_token
  /\ accounts' = accounts
  /\ games' = [games EXCEPT ![s] = [@ EXCEPT !.ctrl_conn = t, !.ready = TRUE,
                                            !.pending_transfers = {}]]
  /\ \E done \in SUBSET games[s].pending_transfers :
       sent' = GiveOut({x.player_token : x \in done})

GamesKept ==
  /\ games' = games
  /\ backlog' \subseteq backlog
  /\ \/ sent' = sent /\ last_player_token' = last_player_token
     \/ /\ DrawPlayerToken
        /\ \E tokens \in {{}, {last_player_token'}} : sent' = GiveOut(tokens)

RegistryChange ==
  \/ GamesKept
  \/ \E s \in ServerId, d \in Districts : CreatedServer(s, d)
  \/ \E s \in ServerId : QueuedOn(s)
  \/ \E s \in ServerId, t \in Token : Announced(s, t)

LEMMA RegistryStep ==
  ASSUME TypeOK, PeerIsKnown, [Next]_vars
  PROVE  RegistryChange
<1> USE DEF counters, registries, batchVars, dispatchVars, threadVars, envVars,
            historyVars, worldVars
<1>1. CASE UNCHANGED <<games, backlog, sent, last_player_token>>
  BY <1>1 DEF RegistryChange, GamesKept
<1>2. CASE ProcessListenerEvent
  BY <1>2 DEF ProcessListenerEvent, NextToken, RegistryChange, GamesKept
<1>3. ASSUME NEW t \in Token, NEW d \in Districts, NEW s \in ServerId,
             HandleRequestGameInstance(t, d, s)
      PROVE  RegistryChange
  <2>1. games[s] \in GameSrvMetadata
    BY <1>3 DEF HandleRequestGameInstance, FindCompatibleGameSrv, TypeOK
  <2>2. CASE games[s].ctrl_conn = 0
    BY <1>3, <2>1, <2>2 DEF HandleRequestGameInstance, RegistryChange, QueuedOn
  <2>3. CASE games[s].ctrl_conn # 0
    BY <1>3, <2>3 DEF HandleRequestGameInstance, RegistryChange, GamesKept
  <2> QED
    BY <2>2, <2>3
<1>4. ASSUME NEW t \in Token, NEW d \in Districts, NEW s \in ServerId,
             RequestCreatesServer(t, d, s)
      PROVE  RegistryChange
  <2>1. CreatedServer(s, d)
    BY <1>4 DEF RequestCreatesServer, CreateServer, CreatedServer
  <2> QED
    BY <2>1 DEF RegistryChange
<1>5. ASSUME NEW t \in Token, NEW d \in Districts, NEW s \in ServerId,
             RequestCreationFails(t, d, s)
      PROVE  RegistryChange
  <2>1. CreatedServer(s, d)
    BY <1>5 DEF RequestCreationFails, CreateServer, CreatedServer
  <2> QED
    BY <2>1 DEF RegistryChange
<1>6. ASSUME NEW t \in Token, HandleServerReady(t) PROVE RegistryChange
  <2> DEFINE s == objects[t].messages[msg_idx].server_id
             done == {y \in games[s].pending_transfers : Completed(y)}
  <2>1. CASE games[s] = NULL
    BY <1>6, <2>1 DEF HandleServerReady, RegistryChange, GamesKept
  <2>2. CASE games[s] # NULL
    <3>1. /\ objects[t] \in IoObject /\ objects[t].type = "CtrlConnection"
          /\ s \in ServerId
      BY <1>6, ReadyType
    <3>2. Occurs(objects[t].messages, Ready(s))
      <4>1. objects[t].messages \in Seq(CtrlMsg)
        BY <3>1 DEF IoObject
      <4>2. msg_idx \in 1..Len(objects[t].messages) /\ objects[t].messages[msg_idx] = Ready(s)
        BY <1>6, <4>1, ReadyType
      <4> QED
        BY <4>2 DEF Occurs
    <3>3. objects[t].peer \in {0, s}
      <4>1. Ready(s).server_id = s
        BY DEF Ready
      <4>2. objects[t].peer # 0 => s \in {0, objects[t].peer}
        BY <3>1, <3>2, <4>1, NullAssumption DEF PeerIsKnown, NamesOnly
      <4> QED
        BY <3>1, <4>2 DEF ServerId
    <3>4. games[s] \in GameSrvMetadata
      BY <2>2, <3>1 DEF TypeOK
    <3>5. done \in SUBSET games[s].pending_transfers
      OBVIOUS
    <3>6. sent' = GiveOut({x.player_token : x \in done})
      BY <1>6, <2>2 DEF HandleServerReady
    <3>7. /\ objects' = objects /\ backlog' = backlog /\ accounts' = accounts
          /\ last_player_token' = last_player_token
          /\ games' = [games EXCEPT ![s] = [@ EXCEPT !.ctrl_conn = t, !.ready = TRUE,
                                                    !.pending_transfers = {}]]
      BY <1>6, <2>2 DEF HandleServerReady, MarkReady
    <3> HIDE DEF done, s
    <3>8. Announced(s, t)
      BY <3>1, <3>2, <3>3, <3>4, <3>5, <3>6, <3>7 DEF Announced
    <3> QED
      BY <3>1, <3>8 DEF RegistryChange
  <2> QED
    BY <2>1, <2>2
<1>7. ASSUME NEW t \in Token, NEW s \in ServerId, HandlerStartPlayerTransfer(t, s)
      PROVE  RegistryChange
  <2>1. games[s] \in GameSrvMetadata
    BY <1>7 DEF HandlerStartPlayerTransfer, FindCompatibleGameSrv, TypeOK
  <2>2. CASE games[s].ctrl_conn = 0
    BY <1>7, <2>1, <2>2 DEF HandlerStartPlayerTransfer, RegistryChange, QueuedOn
  <2>3. CASE games[s].ctrl_conn # 0
    BY <1>7, <2>3 DEF HandlerStartPlayerTransfer, RegistryChange, GamesKept
  <2> QED
    BY <2>2, <2>3
<1>8. ASSUME NEW t \in Token, NEW s \in ServerId, TransferCreatesServer(t, s)
      PROVE  RegistryChange
  <2> DEFINE d == objects[t].messages[msg_idx].district
  <2>1. d \in Districts
    BY <1>8, HandlesType DEF TransferCreatesServer, CtrlMsg
  <2>2. CreatedServer(s, d)
    BY <1>8 DEF TransferCreatesServer, CreateServer, CreatedServer
  <2> QED
    BY <2>1, <2>2 DEF RegistryChange
<1>9. ASSUME NEW t \in Token, CancelPlayerTransfer(t) PROVE RegistryChange
  <2> DEFINE d == objects[t].messages[msg_idx].district
  <2>1. d \in Districts
    BY <1>9, HandlesType DEF CancelPlayerTransfer, CtrlMsg
  <2>2. CASE UNCHANGED games
    BY <1>9, <2>2 DEF CancelPlayerTransfer, CreateServer, RegistryChange, GamesKept
  <2>3. ASSUME NEW s \in ServerId, FindCompatibleGameSrv(d) = {},
               CreateServer(s, NewMetadata(d), FALSE)
        PROVE  CreatedServer(s, d)
    BY <1>9, <2>3 DEF CancelPlayerTransfer, CreateServer, CreatedServer
  <2> QED
    BY <1>9, <2>1, <2>2, <2>3 DEF CancelPlayerTransfer, RegistryChange
<1> DEFINE Same == UNCHANGED <<games, backlog, sent, last_player_token>>
<1>10. Poll \/ EventsDone \/ UpdateDone => Same
  BY DEF Poll, EventsDone, UpdateDone
<1>11. ASSUME NEW t \in Token
       PROVE  /\ ProcessEventNone(t) \/ ProcessConnectionEvent(t) \/ ConnectionFailed(t) => Same
              /\ DoPostHandshakeAuth(t) \/ DoPostHandshakeCtrl(t) => Same
              /\ \A a \in Accounts, c \in Characters \cup {NULL}, s \in ServerId,
                    p \in PlayerToken : DoPostHandshakeGame(t, a, c, s, p) => Same
  BY DEF ProcessEventNone, ProcessConnectionEvent, ConnectionFailed, DoPostHandshakeAuth,
         DoPostHandshakeCtrl, DoPostHandshakeGame
<1>12. ASSUME NEW t \in Token
       PROVE  /\ BeginAuthEvent(t) \/ AuthEventFailed(t) \/ EndAuthEvent(t) => Same
              /\ \A a \in Accounts, c \in Characters \cup {NULL} :
                   HandlePortalAccountLogin(t, a, c) => Same
              /\ \A c \in Characters \cup {NULL} : HandleChangePlayCharacter(t, c) => Same
  BY DEF BeginAuthEvent, AuthEventFailed, EndAuthEvent, HandlePortalAccountLogin,
         HandleChangePlayCharacter
<1>13. ASSUME NEW t \in Token
       PROVE  BeginCtrlEvent(t) \/ EndCtrlEvent(t) \/ HandlePlayerLeft(t) \/ FlushFailed(t) => Same
  BY DEF BeginCtrlEvent, EndCtrlEvent, HandlePlayerLeft, FlushFailed
<1>14. GameServers => Same
  BY DEF GameServers, PlayerJoins, PlayerLeaves, PlayerTravels
<1>15. UNCHANGED vars => Same
  BY DEF vars
<1> HIDE DEF Same
<1>16. Same => RegistryChange
  BY <1>1 DEF Same
<1> QED
  BY <1>2, <1>3, <1>4, <1>5, <1>6, <1>7, <1>8, <1>9, <1>10, <1>11, <1>12, <1>13,
     <1>14, <1>15, <1>16
     DEF Next, Thread, Connection, AuthEvent, CtrlEvent

LEMMA DrawnToken ==
  ASSUME TypeOK, DrawPlayerToken
  PROVE  last_player_token' \in PlayerToken /\ last_player_token' = last_player_token + 1
  BY BoundsAssumption DEF DrawPlayerToken, TypeOK, PlayerToken

LEMMA CreatedEntry ==
  ASSUME TypeOK, NEW s \in ServerId, NEW d \in Districts, CreatedServer(s, d)
  PROVE  /\ \A r \in ServerId \ {s} : games'[r] = games[r]
         /\ games'[s] \in GameSrvMetadata
         /\ games'[s].ctrl_conn = 0 /\ games'[s].ready = FALSE /\ games'[s].district = d
         /\ \/ /\ games'[s].pending_transfers = {}
               /\ last_player_token' = last_player_token
            \/ /\ DrawPlayerToken
               /\ \E x \in AuthTransfer : /\ games'[s].pending_transfers = {x}
                                          /\ x.player_token = last_player_token'
<1>1. \A r \in ServerId \ {s} : games'[r] = games[r]
  BY DEF CreatedServer, TypeOK
<1>2. /\ NewMetadata(d) \in GameSrvMetadata
      /\ NewMetadata(d).ctrl_conn = 0 /\ NewMetadata(d).ready = FALSE
      /\ NewMetadata(d).district = d /\ NewMetadata(d).pending_transfers = {}
  BY NewMetadataType DEF NewMetadata
<1>3. CASE /\ games' = [games EXCEPT ![s] = NewMetadata(d)]
           /\ last_player_token' = last_player_token
  BY <1>1, <1>2, <1>3 DEF TypeOK
<1>4. ASSUME DrawPlayerToken, NEW type \in {"Auth", "Game"}, NEW t \in Token,
             games' = [games EXCEPT ![s] =
                         QueueTransfer(NewMetadata(d), type, t, last_player_token')]
      PROVE  /\ games'[s] \in GameSrvMetadata
             /\ games'[s].ctrl_conn = 0 /\ games'[s].ready = FALSE /\ games'[s].district = d
             /\ \E x \in AuthTransfer : /\ games'[s].pending_transfers = {x}
                                        /\ x.player_token = last_player_token'
  <2> DEFINE x == [type |-> type, conn_token |-> t, player_token |-> last_player_token']
  <2>1. last_player_token' \in PlayerToken
    BY <1>4, DrawnToken
  <2>2. games'[s] = QueueTransfer(NewMetadata(d), type, t, last_player_token')
    BY <1>4 DEF TypeOK
  <2>3. x \in AuthTransfer /\ x.player_token = last_player_token'
    BY <2>1 DEF AuthTransfer
  <2>4. games'[s] \in GameSrvMetadata
    BY <1>2, <2>1, <2>2, QueueTransferType
  <2>5. games'[s] = [NewMetadata(d) EXCEPT !.pending_transfers = @ \cup {x}]
    BY <2>2 DEF QueueTransfer
  <2> HIDE DEF x
  <2>6. games'[s].pending_transfers = {x}
    BY <1>2, <2>5 DEF GameSrvMetadata
  <2> QED
    BY <1>2, <2>3, <2>4, <2>5, <2>6 DEF GameSrvMetadata
<1> QED
  BY <1>1, <1>3, <1>4 DEF CreatedServer

LEMMA QueuedEntry ==
  ASSUME TypeOK, NEW s \in ServerId, QueuedOn(s)
  PROVE  /\ \A r \in ServerId \ {s} : games'[r] = games[r]
         /\ games'[s] \in GameSrvMetadata
         /\ games'[s].ctrl_conn = 0 /\ games'[s].ready = games[s].ready
         /\ games'[s].district = games[s].district
         /\ \E x \in AuthTransfer :
              /\ games'[s].pending_transfers = games[s].pending_transfers \cup {x}
              /\ x.player_token = last_player_token'
<1>1. PICK type \in {"Auth", "Game"}, t \in Token :
        games' = [games EXCEPT ![s] = QueueTransfer(@, type, t, last_player_token')]
  BY DEF QueuedOn
<1> DEFINE x == [type |-> type, conn_token |-> t, player_token |-> last_player_token']
<1>2. last_player_token' \in PlayerToken
  BY DrawnToken DEF QueuedOn
<1>3. games'[s] = QueueTransfer(games[s], type, t, last_player_token')
  BY <1>1 DEF TypeOK
<1>4. x \in AuthTransfer /\ x.player_token = last_player_token'
  BY <1>2 DEF AuthTransfer
<1>5. games'[s] \in GameSrvMetadata
  BY <1>2, <1>3, QueueTransferType DEF QueuedOn
<1>6. games'[s] = [games[s] EXCEPT !.pending_transfers = @ \cup {x}]
  BY <1>3 DEF QueueTransfer
<1>7. \A r \in ServerId \ {s} : games'[r] = games[r]
  BY <1>1 DEF TypeOK
<1> HIDE DEF x
<1> QED
  BY <1>4, <1>5, <1>6, <1>7 DEF GameSrvMetadata, QueuedOn

LEMMA AnnouncedEntry ==
  ASSUME TypeOK, NEW s \in ServerId, NEW t \in Token, Announced(s, t)
  PROVE  /\ \A r \in ServerId \ {s} : games'[r] = games[r]
         /\ games'[s] \in GameSrvMetadata
         /\ games'[s].ctrl_conn = t /\ games'[s].ready = TRUE
         /\ games'[s].district = games[s].district
         /\ games'[s].pending_transfers = {}
<1>1. t \in 0..MaxToken
  BY BoundsAssumption DEF Token
<1>2. games'[s] = [games[s] EXCEPT !.ctrl_conn = t, !.ready = TRUE, !.pending_transfers = {}]
  BY DEF Announced, TypeOK
<1>3. \A r \in ServerId \ {s} : games'[r] = games[r]
  BY DEF Announced, TypeOK
<1>4. games[s] \in GameSrvMetadata
  BY DEF Announced, TypeOK
<1>5. /\ games'[s] \in GameSrvMetadata
      /\ games'[s].ctrl_conn = t
      /\ games'[s].ready = TRUE
      /\ games'[s].district = games[s].district
      /\ games'[s].pending_transfers = {}
  BY <1>1, <1>2, <1>4 DEF GameSrvMetadata
<1> QED
  BY <1>3, <1>5

-----------------------------------------------------------------------------
(* The objects.  Whatever a step does to one, a control connection keeps its *)
(* type, its peer and its messages until it is deleted, and tokens are never *)
(* used again.                                                               *)

Stays(o) ==
  /\ objects[o] \in IoObject /\ objects'[o] \in IoObject
  /\ objects[o].type = "CtrlConnection" =>
       /\ objects'[o].type = "CtrlConnection" /\ objects'[o].peer = objects[o].peer
       /\ \A msg : Occurs(objects[o].messages, msg) => Occurs(objects'[o].messages, msg)
  /\ objects'[o].peer \in {0, objects[o].peer}
  /\ objects'[o].peer # 0 => NamesOnly(objects'[o].messages, objects[o].peer)
  /\ objects'[o].type = "AuthConnection" => objects[o].type # "CtrlConnection"

Accepted(o) ==
  /\ o = last_token_issued + 1 /\ last_token_issued' = o
  /\ \E s \in {0} \cup backlog : objects'[o] = NewConnection(s)

ObjectKept(o) == objects'[o] = NULL \/ Stays(o) \/ Accepted(o)

LEMMA ComesFrom ==
  ASSUME TypeOK, PeerIsKnown, NEW s, s # 0, NEW received, Comes(s, received)
  PROVE  NamesOnly(received, s)
<1>1. PICK n \in 0..Len(to_auth[s]) : received = SubSeq(to_auth[s], 1, n)
  BY DEF Comes
<1>2. s \in ServerId /\ to_auth[s] \in Seq(CtrlMsg)
  BY DEF Comes, TypeOK
<1>3. \A v : Occurs(received, v) => Occurs(to_auth[s], v)
  BY <1>1, <1>2, PartOccurs
<1> QED
  BY <1>2, <1>3 DEF PeerIsKnown, NamesOnly

LEMMA ObjectStep ==
  ASSUME TypeOK, PeerIsKnown, [Next]_vars
  PROVE  /\ \A o \in Token : ObjectKept(o)
         /\ last_token_issued' \in {last_token_issued, last_token_issued + 1}
<1> USE DEF counters, registries, batchVars, dispatchVars, threadVars, envVars,
            historyVars, worldVars
<1> DEFINE Kept == /\ \A o \in Token : ObjectKept(o)
                   /\ last_token_issued' \in {last_token_issued, last_token_issued + 1}
<1>0. \A o \in Token : objects[o] = NULL \/ objects[o] \in IoObject
  BY DEF TypeOK
<1>1. ASSUME NEW o \in Token, objects'[o] = objects[o] PROVE ObjectKept(o)
  <2>1. CASE objects[o] = NULL
    BY <1>1, <2>1 DEF ObjectKept
  <2>2. CASE objects[o] # NULL
    <3>1. /\ objects[o] \in IoObject
          /\ objects[o].peer # 0 => NamesOnly(objects[o].messages, objects[o].peer)
      BY <1>0, <2>2 DEF PeerIsKnown
    <3> QED
      BY <1>1, <3>1 DEF ObjectKept, Stays
  <2> QED
    BY <2>1, <2>2
<1>2. UNCHANGED <<objects, last_token_issued>> => Kept
  BY <1>1
<1>3. UpdateDone => Kept
  BY <1>1 DEF UpdateDone, ObjectKept
<1>4. ASSUME ProcessListenerEvent PROVE Kept
  <2>1. PICK s \in {0} \cup backlog :
          objects' = [objects EXCEPT ![last_token_issued + 1] = NewConnection(s)]
    BY <1>4 DEF ProcessListenerEvent, NextToken
  <2>2. last_token_issued' = last_token_issued + 1
    BY <1>4 DEF ProcessListenerEvent, NextToken
  <2>3. ASSUME NEW o \in Token PROVE ObjectKept(o)
    <3>1. CASE o = last_token_issued + 1
      BY <2>1, <2>2, <3>1 DEF ObjectKept, Accepted, TypeOK
    <3>2. CASE o # last_token_issued + 1
      BY <1>1, <2>1, <3>2 DEF TypeOK
    <3> QED
      BY <3>1, <3>2
  <2> QED
    BY <2>2, <2>3
<1>5. ASSUME NEW t \in Token, last_token_issued' = last_token_issued,
             \A o \in Token \ {t} : objects'[o] = objects[o], ObjectKept(t)
      PROVE  Kept
  BY <1>1, <1>5
<1>6. ASSUME NEW t \in Token, objects[t] \in IoObject, CloseAuthConnection(t),
             HasType(t, "AuthConnection"), last_token_issued' = last_token_issued
      PROVE  Kept
  <2>1. /\ objects[t].type = "AuthConnection"
        /\ objects[t].peer # 0 => NamesOnly(objects[t].messages, objects[t].peer)
    BY <1>6, NullAssumption DEF HasType, GetObject, PeerIsKnown
  <2>2. objects'[t] = [objects[t] EXCEPT !.open = FALSE]
    BY <1>6 DEF CloseAuthConnection, TypeOK
  <2>3. /\ objects'[t] \in IoObject /\ objects'[t].type = "AuthConnection"
        /\ objects'[t].peer = objects[t].peer /\ objects'[t].messages = objects[t].messages
    BY <1>6, <2>1, <2>2 DEF IoObject
  <2>4. ObjectKept(t)
    BY <1>6, <2>1, <2>3 DEF ObjectKept, Stays
  <2> QED
    BY <1>5, <1>6, <2>4 DEF CloseAuthConnection, TypeOK
<1>7. ASSUME NEW t \in Token, ConnectionFailed(t) PROVE Kept
  <2>1. ObjectKept(t)
    BY <1>7 DEF ConnectionFailed, TypeOK, ObjectKept
  <2> QED
    BY <1>5, <1>7, <2>1 DEF ConnectionFailed, TypeOK
<1>8. ASSUME NEW t \in Token, DoPostHandshakeAuth(t) PROVE Kept
  <2>1. objects[t] \in IoObject /\ objects[t].type = "Connection"
    BY <1>8, HasTypeObject DEF DoPostHandshakeAuth, TypeOK, Objects
  <2>2. objects'[t] = [NoneObject EXCEPT !.type = "AuthConnection", !.open = TRUE]
    BY <1>8 DEF DoPostHandshakeAuth, TypeOK
  <2>3. objects'[t] \in IoObject /\ objects'[t].peer = 0 /\ objects'[t].type = "AuthConnection"
    BY <2>2, NoneObjectType DEF IoObject, NoneObject
  <2>4. ObjectKept(t)
    BY <2>1, <2>3 DEF ObjectKept, Stays
  <2> QED
    BY <1>5, <1>8, <2>4 DEF DoPostHandshakeAuth, TypeOK
<1>9. ASSUME NEW t \in Token, NEW a \in Accounts, NEW c \in Characters \cup {NULL},
             NEW s \in ServerId, NEW p \in PlayerToken, DoPostHandshakeGame(t, a, c, s, p)
      PROVE  Kept
  <2>1. CASE UNCHANGED objects
    BY <1>2, <1>9, <2>1 DEF DoPostHandshakeGame
  <2>2. CASE objects' = [objects EXCEPT ![t] = NULL]
    BY <1>5, <1>9, <2>2 DEF DoPostHandshakeGame, TypeOK, ObjectKept
  <2> QED
    BY <1>9, <2>1, <2>2 DEF DoPostHandshakeGame
<1>10. ASSUME NEW t \in Token, DoPostHandshakeCtrl(t) PROVE Kept
  <2> DEFINE s == objects[t].peer
  <2>1. objects[t] \in IoObject /\ objects[t].type = "Connection" /\ s \in 0..MaxServer
    BY <1>10, HandshakeCtrl DEF IoObject
  <2>2. CASE MakesNoSense(s)
    BY <1>2, <1>10, <2>2 DEF MakesNoSense, DoPostHandshakeCtrl
  <2>3. CASE ~MakesNoSense(s)
    <3>1. PICK received \in Seq(CtrlMsg) :
            /\ objects' = [objects EXCEPT ![t] = NewCtrl(s, received)]
            /\ Comes(s, received)
      BY <1>10, <2>3, HandshakeCtrl
    <3>2. /\ NewCtrl(s, received) \in IoObject
          /\ NewCtrl(s, received).type = "CtrlConnection"
          /\ NewCtrl(s, received).peer = s
          /\ NewCtrl(s, received).messages = received
      BY <2>1, NewCtrlType
    <3>3. s # 0 => NamesOnly(received, s)
      BY <3>1, ComesFrom
    <3>4. objects'[t] = NewCtrl(s, received)
      BY <3>1 DEF TypeOK
    <3>5. ObjectKept(t)
      BY <2>1, <3>2, <3>3, <3>4 DEF ObjectKept, Stays
    <3> QED
      BY <1>5, <1>10, <3>1, <3>5 DEF DoPostHandshakeCtrl, TypeOK
  <2> QED
    BY <2>2, <2>3
<1>11. ASSUME NEW t \in Token, BeginAuthEvent(t) PROVE Kept
  <2>1. HasType(t, "AuthConnection") /\ objects[t] \in IoObject
    BY <1>11, HasTypeObject DEF BeginAuthEvent, TypeOK, Objects
  <2> QED
    BY <1>2, <1>6, <1>11, <2>1 DEF BeginAuthEvent
<1>12. ASSUME NEW t \in Token, AuthEventFailed(t) \/ FlushFailed(t) PROVE Kept
  <2>1. HasType(t, "AuthConnection") /\ objects[t] \in IoObject
    BY <1>12, HasTypeObject DEF AuthEventFailed, FlushFailed, Reaches, TypeOK, Objects
  <2> QED
    BY <1>6, <1>12, <2>1 DEF AuthEventFailed, FlushFailed
<1>13. ASSUME NEW t \in Token, NEW a \in Accounts, NEW c \in Characters \cup {NULL},
              HandlePortalAccountLogin(t, a, c)
       PROVE  Kept
  <2>1. ASSUME NEW o \in Token PROVE ObjectKept(o)
    <3>1. CASE objects'[o] = objects[o]
      BY <1>1, <3>1
    <3>2. CASE objects'[o] # objects[o]
      <4>1. /\ objects[o] \in IoObject /\ objects[o].type = "AuthConnection"
            /\ objects'[o] \in IoObject /\ objects'[o].type \in {"None", "AuthConnection"}
            /\ objects'[o].peer \in {0, objects[o].peer}
            /\ objects'[o].peer # 0 => objects'[o].messages = objects[o].messages
        BY <1>13, <3>2, LoginObjects
      <4>2. objects[o].peer # 0 => NamesOnly(objects[o].messages, objects[o].peer)
        BY <4>1, NullAssumption DEF PeerIsKnown
      <4> QED
        BY <4>1, <4>2 DEF ObjectKept, Stays
    <3> QED
      BY <3>1, <3>2
  <2> QED
    BY <1>13, <2>1 DEF HandlePortalAccountLogin
<1>14. ASSUME NEW t \in Token, NEW c \in Characters \cup {NULL}, HandleChangePlayCharacter(t, c)
       PROVE  Kept
  <2>1. objects[t] \in IoObject /\ objects[t].type = "AuthConnection"
    BY <1>14, HasTypeObject DEF HandleChangePlayCharacter, TypeOK, Objects
  <2>2. objects'[t] = [objects[t] EXCEPT !.character = c]
    BY <1>14 DEF HandleChangePlayCharacter, TypeOK
  <2>3. /\ objects'[t] \in IoObject /\ objects'[t].type = "AuthConnection"
        /\ objects'[t].peer = objects[t].peer /\ objects'[t].messages = objects[t].messages
    BY <2>1, <2>2 DEF IoObject
  <2>4. objects[t].peer # 0 => NamesOnly(objects[t].messages, objects[t].peer)
    BY <2>1, NullAssumption DEF PeerIsKnown
  <2>5. ObjectKept(t)
    BY <2>1, <2>3, <2>4 DEF ObjectKept, Stays
  <2> QED
    BY <1>5, <1>14, <2>5 DEF HandleChangePlayCharacter, TypeOK
<1>15. ASSUME NEW t \in Token, BeginCtrlEvent(t) PROVE Kept
  <2> DEFINE s == objects[t].peer
  <2>1. objects[t] \in IoObject /\ objects[t].type = "CtrlConnection"
    BY <1>15, CtrlEventReads
  <2>2. CASE MakesNoSense(s)
    BY <1>2, <1>15, <2>2 DEF MakesNoSense, BeginCtrlEvent
  <2>3. CASE ~MakesNoSense(s)
    <3>1. PICK received \in Seq(CtrlMsg), lost \in BOOLEAN :
            /\ objects' = [objects EXCEPT ![t] = Receive(objects[t], received, lost)]
            /\ Comes(s, received)
      BY <1>15, <2>3, CtrlEventReads
    <3>2. objects'[t] = Receive(objects[t], received, lost)
      BY <3>1 DEF TypeOK
    <3>3. /\ objects'[t] \in IoObject /\ objects'[t].type = "CtrlConnection"
          /\ objects'[t].peer = s /\ objects'[t].messages = objects[t].messages \o received
      <4>1. objects'[t] \in IoObject
        BY <2>1, <3>2, ReceiveType
      <4> QED
        BY <2>1, <3>2, <4>1 DEF Receive, IoObject
    <3>4. objects[t].messages \in Seq(CtrlMsg)
      BY <2>1 DEF IoObject
    <3>5. \A v : Occurs(objects'[t].messages, v)
                   <=> Occurs(objects[t].messages, v) \/ Occurs(received, v)
      BY <3>3, <3>4, ConcatOccurs
    <3>6. s # 0 => NamesOnly(received, s) /\ NamesOnly(objects[t].messages, s)
      BY <2>1, <3>1, ComesFrom, NullAssumption DEF PeerIsKnown
    <3>7. s # 0 => NamesOnly(objects'[t].messages, s)
      BY <3>5, <3>6 DEF NamesOnly
    <3>8. ObjectKept(t)
      BY <2>1, <3>3, <3>5, <3>7 DEF ObjectKept, Stays
    <3> QED
      BY <1>5, <1>15, <3>1, <3>8 DEF BeginCtrlEvent, TypeOK
  <2> QED
    BY <2>2, <2>3
<1> DEFINE Same == UNCHANGED <<objects, last_token_issued>>
<1>16. Poll \/ EventsDone \/ UNCHANGED vars => Same
  BY DEF Poll, EventsDone, vars
<1>17. GameServers => Same
  BY DEF GameServers, PlayerJoins, PlayerLeaves, PlayerTravels
<1>18. ASSUME NEW t \in Token
       PROVE  /\ ProcessEventNone(t) \/ ProcessConnectionEvent(t) \/ EndAuthEvent(t) => Same
              /\ \A d \in Districts, s \in ServerId :
                   HandleRequestGameInstance(t, d, s) \/ RequestCreatesServer(t, d, s)
                     \/ RequestCreationFails(t, d, s) => Same
  BY DEF ProcessEventNone, ProcessConnectionEvent, EndAuthEvent, HandleRequestGameInstance,
         RequestCreatesServer, RequestCreationFails
<1>19. ASSUME NEW t \in Token
       PROVE  /\ EndCtrlEvent(t) \/ HandleServerReady(t) \/ HandlePlayerLeft(t)
                   \/ CancelPlayerTransfer(t) => Same
              /\ \A s \in ServerId : HandlerStartPlayerTransfer(t, s)
                                      \/ TransferCreatesServer(t, s) => Same
  BY DEF EndCtrlEvent, HandleServerReady, HandlePlayerLeft, CancelPlayerTransfer,
         HandlerStartPlayerTransfer, TransferCreatesServer
<1>20. Same => Kept
  BY <1>2
<1> HIDE DEF Same, Kept
<1>21. Kept
  BY <1>3, <1>4, <1>7, <1>8, <1>9, <1>10, <1>11, <1>12, <1>13, <1>14, <1>15, <1>16,
     <1>17, <1>18, <1>19, <1>20
     DEF Next, Thread, Connection, AuthEvent, CtrlEvent
<1> QED
  BY <1>21 DEF Kept

-----------------------------------------------------------------------------
(* Control connections *)

Named == \A s \in ServerId : NamesOnly(to_auth'[s], s)

LEMMA CreatedNamed ==
  ASSUME TypeOK, PeerIsKnown, NEW s, s \in ServerId, NEW metadata, NEW started,
         CreateServer(s, metadata, started)
  PROVE  Named
<1>1. ASSUME NEW v, Occurs(<<Ready(s)>>, v) PROVE v = Ready(s)
  BY <1>1 DEF Occurs
<1>2. NamesOnly(<<Ready(s)>>, s)
  BY <1>1 DEF NamesOnly, Ready
<1>3. to_auth' = to_auth \/ to_auth' = [to_auth EXCEPT ![s] = <<Ready(s)>>]
  BY DEF CreateServer
<1> QED
  BY <1>2, <1>3 DEF Named, PeerIsKnown, TypeOK

LEMMA SentNamed ==
  ASSUME TypeOK, PeerIsKnown, NEW s \in ServerId, NEW msg \in CtrlMsg, msg.server_id = 0,
         to_auth' = [to_auth EXCEPT ![s] = Append(@, msg)]
  PROVE  Named
<1>1. to_auth[s] \in Seq(CtrlMsg)
  BY DEF TypeOK
<1>2. \A v : Occurs(Append(to_auth[s], msg), v) <=> Occurs(to_auth[s], v) \/ v = msg
  BY <1>1, AppendOccurs
<1>3. NamesOnly(Append(to_auth[s], msg), s)
  BY <1>2 DEF NamesOnly, PeerIsKnown
<1> QED
  BY <1>3 DEF Named, PeerIsKnown, TypeOK

LEMMA ComesNamed ==
  ASSUME TypeOK, PeerIsKnown, NEW s, NEW received, Comes(s, received)
  PROVE  Named
<1>1. CASE s = 0
  BY <1>1 DEF Comes, Named, PeerIsKnown
<1>2. CASE s # 0
  <2>1. s \in ServerId
    BY <1>2 DEF Comes
  <2>2. PICK n \in 0..Len(to_auth[s]) :
          to_auth' = [to_auth EXCEPT ![s] = SubSeq(@, n + 1, Len(@))]
    BY <1>2 DEF Comes
  <2> DEFINE rest == SubSeq(to_auth[s], n + 1, Len(to_auth[s]))
  <2>3. to_auth[s] \in Seq(CtrlMsg)
    BY <2>1 DEF TypeOK
  <2>4. n + 1 \in Nat \ {0} /\ Len(to_auth[s]) \in 0..Len(to_auth[s])
    BY <2>3
  <2>5. \A v : Occurs(rest, v) => Occurs(to_auth[s], v)
    BY <2>3, <2>4, PartOccurs
  <2>6. to_auth' = [to_auth EXCEPT ![s] = rest]
    BY <2>2
  <2> HIDE DEF rest
  <2>7. NamesOnly(rest, s)
    BY <2>1, <2>5 DEF NamesOnly, PeerIsKnown
  <2> QED
    BY <2>1, <2>6, <2>7 DEF Named, PeerIsKnown, TypeOK
<1> QED
  BY <1>1, <1>2

LEMMA NamedStep ==
  ASSUME TypeOK, PeerIsKnown, [Next]_vars
  PROVE  Named
<1> USE DEF counters, registries, batchVars, dispatchVars, threadVars, envVars,
            historyVars, worldVars
<1> DEFINE Same == UNCHANGED to_auth
<1>1. Same => Named
  BY DEF Named, PeerIsKnown
<1>2. Poll \/ EventsDone \/ UpdateDone \/ ProcessListenerEvent => Same
  BY DEF Poll, EventsDone, UpdateDone, ProcessListenerEvent
<1>3. ASSUME NEW t \in Token
      PROVE  /\ ProcessEventNone(t) \/ ProcessConnectionEvent(t) \/ ConnectionFailed(t) => Same
             /\ DoPostHandshakeAuth(t) \/ FlushFailed(t) => Same
             /\ \A a \in Accounts, c \in Characters \cup {NULL}, s \in ServerId,
                   p \in PlayerToken : DoPostHandshakeGame(t, a, c, s, p) => Same
  BY DEF ProcessEventNone, ProcessConnectionEvent, ConnectionFailed, DoPostHandshakeAuth,
         DoPostHandshakeGame, FlushFailed
<1>4. ASSUME NEW t \in Token, DoPostHandshakeCtrl(t) PROVE Named
  <2>1. CASE MakesNoSense(objects[t].peer)
    BY <1>1, <2>1 DEF MakesNoSense
  <2>2. CASE ~MakesNoSense(objects[t].peer)
    BY <1>4, <2>2, HandshakeCtrl, ComesNamed
  <2> QED
    BY <2>1, <2>2
<1>5. ASSUME NEW t \in Token
      PROVE  /\ BeginAuthEvent(t) \/ AuthEventFailed(t) \/ EndAuthEvent(t) => Same
             /\ \A a \in Accounts, c \in Characters \cup {NULL} :
                  HandlePortalAccountLogin(t, a, c) => Same
             /\ \A c \in Characters \cup {NULL} : HandleChangePlayCharacter(t, c) => Same
             /\ \A d \in Districts, s \in ServerId : HandleRequestGameInstance(t, d, s) => Same
  BY DEF BeginAuthEvent, AuthEventFailed, EndAuthEvent, HandlePortalAccountLogin,
         HandleChangePlayCharacter, HandleRequestGameInstance
<1>6. ASSUME NEW t \in Token, NEW d \in Districts, NEW s \in ServerId,
             RequestCreatesServer(t, d, s) \/ RequestCreationFails(t, d, s)
      PROVE  Named
  BY <1>6, CreatedNamed DEF RequestCreatesServer, RequestCreationFails
<1>7. ASSUME NEW t \in Token, BeginCtrlEvent(t) PROVE Named
  <2>1. CASE MakesNoSense(objects[t].peer)
    BY <1>1, <2>1 DEF MakesNoSense
  <2>2. CASE ~MakesNoSense(objects[t].peer)
    BY <1>7, <2>2, CtrlEventReads, ComesNamed
  <2> QED
    BY <2>1, <2>2
<1>8. ASSUME NEW t \in Token
      PROVE  /\ EndCtrlEvent(t) \/ HandleServerReady(t) \/ HandlePlayerLeft(t) => Same
             /\ \A s \in ServerId : HandlerStartPlayerTransfer(t, s) => Same
  BY DEF EndCtrlEvent, HandleServerReady, HandlePlayerLeft, HandlerStartPlayerTransfer
<1>9. ASSUME NEW t \in Token, NEW s \in ServerId, TransferCreatesServer(t, s) PROVE Named
  BY <1>9, CreatedNamed DEF TransferCreatesServer
<1>10. ASSUME NEW t \in Token, CancelPlayerTransfer(t) PROVE Named
  BY <1>1, <1>10, CreatedNamed DEF CancelPlayerTransfer
<1>11. ASSUME NEW s \in ServerId, PlayerJoins(s) PROVE Same
  BY <1>11 DEF PlayerJoins
<1>12. ASSUME NEW s \in ServerId, NEW a \in Accounts, PlayerLeaves(s, a) PROVE Named
  <2>1. /\ Request("PlayerLeft", a, NULL) \in CtrlMsg
        /\ Request("PlayerLeft", a, NULL).server_id = 0
    BY RequestType DEF Request
  <2> QED
    BY <1>12, <2>1, SentNamed DEF PlayerLeaves
<1>13. ASSUME NEW s \in ServerId, NEW a \in Accounts, NEW d \in Districts,
              PlayerTravels(s, a, d)
       PROVE  Named
  <2>1. /\ Request("StartPlayerTransfer", a, d) \in CtrlMsg
        /\ Request("StartPlayerTransfer", a, d).server_id = 0
    BY RequestType DEF Request
  <2> QED
    BY <1>13, <2>1, SentNamed DEF PlayerTravels
<1>14. UNCHANGED vars => Same
  BY DEF vars
<1> HIDE DEF Same
<1> QED
  BY <1>1, <1>2, <1>3, <1>4, <1>5, <1>6, <1>7, <1>8, <1>9, <1>10, <1>11, <1>12, <1>13, <1>14
     DEF Next, Thread, Connection, AuthEvent, CtrlEvent, GameServers

LEMMA PeerStep == TypeOK /\ PeerIsKnown /\ [Next]_vars => PeerIsKnown'
<1> SUFFICES ASSUME TypeOK, PeerIsKnown, [Next]_vars PROVE PeerIsKnown'
  OBVIOUS
<1>1. RegistryChange /\ TypeOK'
  BY RegistryStep, TypeStep
<1> DEFINE Known == /\ \A s \in ServerId : games[s] # NULL => games'[s] # NULL
                    /\ \A s \in backlog' : games'[s] # NULL
<1>2. Known
  <2>1. CASE GamesKept
    BY <2>1 DEF GamesKept, PeerIsKnown
  <2>2. ASSUME NEW s \in ServerId, NEW d \in Districts, CreatedServer(s, d)
        PROVE  Known
    <3>1. games'[s] # NULL /\ \A r \in ServerId \ {s} : games'[r] = games[r]
      BY <2>2, CreatedEntry, NullAssumption
    <3>2. \A r \in ServerId : games[r] # NULL => games'[r] # NULL
      BY <3>1
    <3>3. \A r \in backlog' : r \in backlog \/ r = s
      BY <2>2 DEF CreatedServer
    <3>4. backlog \subseteq ServerId /\ \A r \in backlog : games[r] # NULL
      BY DEF PeerIsKnown, TypeOK
    <3> QED
      BY <3>1, <3>2, <3>3, <3>4
  <2>3. ASSUME NEW s \in ServerId, QueuedOn(s) PROVE Known
    <3>1. games'[s] # NULL /\ \A r \in ServerId \ {s} : games'[r] = games[r]
      BY <2>3, QueuedEntry, NullAssumption
    <3> QED
      BY <2>3, <3>1 DEF QueuedOn, PeerIsKnown, TypeOK
  <2>4. ASSUME NEW s \in ServerId, NEW t \in Token, Announced(s, t) PROVE Known
    <3>1. games'[s] # NULL /\ \A r \in ServerId \ {s} : games'[r] = games[r]
      BY <2>4, AnnouncedEntry, NullAssumption
    <3> QED
      BY <2>4, <3>1 DEF Announced, PeerIsKnown, TypeOK
  <2> QED
    BY <1>1, <2>1, <2>2, <2>3, <2>4 DEF RegistryChange
<1>3. ASSUME NEW o \in Token, objects'[o] # NULL, objects'[o].peer # 0
      PROVE  /\ games'[objects'[o].peer] # NULL
             /\ NamesOnly(objects'[o].messages, objects'[o].peer)
  <2>1. CASE Stays(o)
    <3>1. /\ objects'[o].peer = objects[o].peer /\ objects[o] # NULL
          /\ objects[o].peer \in ServerId
      BY <1>3, <2>1, NullAssumption, BoundsAssumption DEF Stays, IoObject, ServerId
    <3> QED
      BY <1>2, <1>3, <2>1, <3>1 DEF Stays, PeerIsKnown
  <2>2. CASE Accepted(o)
    <3>1. PICK s \in {0} \cup backlog : objects'[o] = NewConnection(s)
      BY <2>2 DEF Accepted
    <3>2. objects'[o].peer = s /\ objects'[o].messages = <<>>
      BY <3>1 DEF NewConnection, NoneObject
    <3>3. \A v : ~Occurs(<<>>, v)
      BY DEF Occurs
    <3> QED
      BY <1>2, <1>3, <3>2, <3>3 DEF PeerIsKnown, TypeOK, NamesOnly
  <2> QED
    BY <1>3, <2>1, <2>2, ObjectStep DEF ObjectKept
<1>4. Named
  BY NamedStep
<1> QED
  BY <1>2, <1>3, <1>4 DEF PeerIsKnown, Named

-----------------------------------------------------------------------------
(* Metadata and player tokens *)

\* A pending transfer for player token p is in the queue of server s.
Waits(s, p) ==
  games[s] # NULL /\ \E x \in games[s].pending_transfers : x.player_token = p

\* A server is ready once it has a control connection, and then nothing waits
\* for it.
ReadyIsConnected ==
  \A s \in ServerId : games[s] # NULL => (games[s].ready <=> games[s].ctrl_conn # 0)

\* A token that waits was drawn, is in one queue only and was not given out.
TokensInv ==
  /\ GivenOutOnce
  /\ \A p \in PlayerToken : sent[p] # 0 => p <= last_player_token
  /\ \A s \in ServerId, p \in PlayerToken :
       Waits(s, p) => p <= last_player_token /\ sent[p] = 0
  /\ \A r, s \in ServerId, p \in PlayerToken : Waits(r, p) /\ Waits(s, p) => r = s

LEMMA ReadyStep ==
  ASSUME TypeOK, PeerIsKnown, ReadyIsConnected, NothingWaitsForReady, OneServerPerDistrict,
         [Next]_vars
  PROVE  (ReadyIsConnected /\ NothingWaitsForReady /\ OneServerPerDistrict)'
<1>1. RegistryChange
  BY RegistryStep
<1>2. CASE GamesKept
  BY <1>2 DEF GamesKept, ReadyIsConnected, NothingWaitsForReady, OneServerPerDistrict
<1>3. ASSUME NEW s \in ServerId, NEW d \in Districts, CreatedServer(s, d)
      PROVE  (ReadyIsConnected /\ NothingWaitsForReady /\ OneServerPerDistrict)'
  <2>1. /\ \A r \in ServerId \ {s} : games'[r] = games[r]
        /\ games'[s].ctrl_conn = 0 /\ games'[s].ready = FALSE /\ games'[s].district = d
    BY <1>3, CreatedEntry
  <2>2. \A r \in ServerId : games[r] # NULL => games[r].district # d
    BY <1>3 DEF CreatedServer, FindCompatibleGameSrv
  <2> QED
    BY <2>1, <2>2 DEF ReadyIsConnected, NothingWaitsForReady, OneServerPerDistrict
<1>4. ASSUME NEW s \in ServerId, QueuedOn(s)
      PROVE  (ReadyIsConnected /\ NothingWaitsForReady /\ OneServerPerDistrict)'
  <2>1. /\ \A r \in ServerId \ {s} : games'[r] = games[r]
        /\ games'[s].ctrl_conn = 0 /\ games'[s].ready = games[s].ready
        /\ games'[s].district = games[s].district
    BY <1>4, QueuedEntry
  <2>2. games[s] # NULL /\ games[s].ready = FALSE
    BY <1>4, NullAssumption DEF QueuedOn, ReadyIsConnected, GameSrvMetadata
  <2> QED
    BY <2>1, <2>2 DEF ReadyIsConnected, NothingWaitsForReady, OneServerPerDistrict
<1>5. ASSUME NEW s \in ServerId, NEW t \in Token, Announced(s, t)
      PROVE  (ReadyIsConnected /\ NothingWaitsForReady /\ OneServerPerDistrict)'
  <2>1. /\ \A r \in ServerId \ {s} : games'[r] = games[r]
        /\ games'[s].ctrl_conn = t /\ games'[s].ready = TRUE
        /\ games'[s].district = games[s].district
        /\ games'[s].pending_transfers = {}
    BY <1>5, AnnouncedEntry
  <2>2. games[s] # NULL /\ t # 0
    BY <1>5, NullAssumption DEF Announced, Token
  <2> QED
    BY <2>1, <2>2 DEF ReadyIsConnected, NothingWaitsForReady, OneServerPerDistrict
<1> QED
  BY <1>1, <1>2, <1>3, <1>4, <1>5 DEF RegistryChange

LEMMA TokensStep ==
  ASSUME TypeOK, PeerIsKnown, TokensInv, [Next]_vars
  PROVE  TokensInv'
<1>1. RegistryChange
  BY RegistryStep
<1>2. /\ last_player_token \in Nat
      /\ sent \in [PlayerToken -> Nat]
      /\ PlayerToken \subseteq Nat
  BY BoundsAssumption DEF TypeOK, PlayerToken
<1>3. CASE GamesKept
  <2>1. \A s \in ServerId, p \in PlayerToken : Waits(s, p)' <=> Waits(s, p)
    BY <1>3 DEF GamesKept, Waits
  <2>2. CASE sent' = sent /\ last_player_token' = last_player_token
    BY <2>1, <2>2 DEF TokensInv, GivenOutOnce
  <2>3. ASSUME DrawPlayerToken, NEW tokens \in {{}, {last_player_token'}},
               sent' = GiveOut(tokens)
        PROVE  TokensInv'
    <3>1. last_player_token' = last_player_token + 1
      BY <2>3, DrawnToken
    <3>2. \A p \in PlayerToken : p <= last_player_token => sent'[p] = sent[p]
      BY <1>2, <2>3, <3>1 DEF GiveOut
    <3>3. \A p \in PlayerToken : p > last_player_token => sent[p] = 0
      BY <1>2 DEF TokensInv
    <3>4. \A p \in PlayerToken : p > last_player_token + 1 => sent'[p] = 0
      BY <1>2, <2>3, <3>1, <3>3 DEF GiveOut
    <3>5. \A p \in PlayerToken : sent'[p] <= 1
      BY <1>2, <2>3, <3>2, <3>3 DEF GiveOut, TokensInv, GivenOutOnce
    <3> QED
      BY <1>2, <2>1, <3>1, <3>2, <3>4, <3>5 DEF TokensInv, GivenOutOnce
  <2> QED
    BY <1>3, <2>2, <2>3 DEF GamesKept
<1>4. ASSUME NEW s \in ServerId,
             \A r \in ServerId \ {s}, p \in PlayerToken : Waits(r, p)' <=> Waits(r, p),
             \A p \in PlayerToken :
               Waits(s, p)' => \/ Waits(s, p)
                               \/ p = last_player_token' /\ p = last_player_token + 1,
             last_player_token' \in {last_player_token, last_player_token + 1},
             sent' = sent
      PROVE  TokensInv'
  <2>1. \A p \in PlayerToken : p > last_player_token => sent[p] = 0
    BY <1>2 DEF TokensInv
  <2>2. \A r \in ServerId, p \in PlayerToken :
          Waits(r, p)' => p <= last_player_token' /\ sent[p] = 0
    BY <1>2, <1>4, <2>1 DEF TokensInv
  <2>3. ASSUME NEW r \in ServerId, NEW q \in ServerId, NEW p \in PlayerToken,
               Waits(r, p)', Waits(q, p)'
        PROVE  r = q
    BY <1>2, <1>4, <2>3 DEF TokensInv
  <2> QED
    BY <1>2, <1>4, <2>2, <2>3 DEF TokensInv, GivenOutOnce
<1>5. ASSUME NEW s \in ServerId, NEW d \in Districts, CreatedServer(s, d)
      PROVE  TokensInv'
  <2>1. /\ \A r \in ServerId \ {s} : games'[r] = games[r]
        /\ \/ /\ games'[s].pending_transfers = {}
              /\ last_player_token' = last_player_token
           \/ /\ \E x \in AuthTransfer : /\ games'[s].pending_transfers = {x}
                                         /\ x.player_token = last_player_token'
              /\ DrawPlayerToken
    BY <1>5, CreatedEntry
  <2>2. \A p \in PlayerToken :
          Waits(s, p)' => p = last_player_token' /\ p = last_player_token + 1
    BY <2>1, DrawnToken DEF Waits
  <2>3. last_player_token' \in {last_player_token, last_player_token + 1}
    BY <2>1, DrawnToken
  <2>4. \A r \in ServerId \ {s}, p \in PlayerToken : Waits(r, p)' <=> Waits(r, p)
    BY <2>1 DEF Waits
  <2>5. sent' = sent
    BY <1>5 DEF CreatedServer
  <2> QED
    BY <1>4, <2>2, <2>3, <2>4, <2>5
<1>6. ASSUME NEW s \in ServerId, QueuedOn(s) PROVE TokensInv'
  <2>1. /\ \A r \in ServerId \ {s} : games'[r] = games[r]
        /\ \E x \in AuthTransfer :
             /\ games'[s].pending_transfers = games[s].pending_transfers \cup {x}
             /\ x.player_token = last_player_token'
    BY <1>6, QueuedEntry
  <2>2. games[s] # NULL /\ last_player_token' = last_player_token + 1 /\ sent' = sent
    BY <1>6, DrawnToken, NullAssumption DEF QueuedOn
  <2>3. \A p \in PlayerToken : Waits(s, p)' => Waits(s, p) \/ p = last_player_token'
    BY <2>1, <2>2 DEF Waits
  <2>4. \A r \in ServerId \ {s}, p \in PlayerToken : Waits(r, p)' <=> Waits(r, p)
    BY <2>1 DEF Waits
  <2> QED
    BY <1>4, <2>2, <2>3, <2>4
<1>7. ASSUME NEW s \in ServerId, NEW t \in Token, Announced(s, t) PROVE TokensInv'
  <2>1. /\ \A r \in ServerId \ {s} : games'[r] = games[r]
        /\ games'[s].pending_transfers = {}
    BY <1>7, AnnouncedEntry
  <2>2. PICK done \in SUBSET games[s].pending_transfers :
          sent' = GiveOut({x.player_token : x \in done})
    BY <1>7 DEF Announced
  <2>3. games[s] # NULL /\ last_player_token' = last_player_token
    BY <1>7, NullAssumption DEF Announced
  <2>4. \A p \in PlayerToken : ~Waits(s, p)'
    BY <2>1 DEF Waits
  <2>5. \A r \in ServerId \ {s}, p \in PlayerToken : Waits(r, p)' <=> Waits(r, p)
    BY <2>1 DEF Waits
  <2>6. \A p \in PlayerToken :
          sent'[p] = IF \E x \in done : x.player_token = p THEN sent[p] + 1 ELSE sent[p]
    BY <2>2 DEF GiveOut
  <2>7. \A p \in PlayerToken : (\E x \in done : x.player_token = p) => Waits(s, p)
    BY <2>2, <2>3 DEF Waits
  <2>8. \A p \in PlayerToken : sent'[p] = IF Waits(s, p) /\ sent'[p] # 0 THEN 1 ELSE sent[p]
    BY <1>2, <2>6, <2>7 DEF TokensInv
  <2>9. \A r \in ServerId, p \in PlayerToken : Waits(r, p)' => r # s /\ Waits(r, p)
    BY <2>4, <2>5
  <2> QED
    BY <1>2, <2>3, <2>8, <2>9 DEF TokensInv, GivenOutOnce
<1> QED
  BY <1>1, <1>3, <1>5, <1>6, <1>7 DEF RegistryChange

-----------------------------------------------------------------------------
(* Tokens of objects *)

\* Nothing is stored, and nothing refers to, a token that was not issued.
TokensIssued ==
  /\ \A o \in Token : objects[o] # NULL => o <= last_token_issued
  /\ \A s \in ServerId : games[s] # NULL => games[s].ctrl_conn <= last_token_issued

LEMMA ConnStep ==
  ASSUME TypeOK, PeerIsKnown, TokensIssued, ReachedWhereAnnounced, [Next]_vars
  PROVE  (TokensIssued /\ ReachedWhereAnnounced)'
<1>1. RegistryChange
  BY RegistryStep
<1>2. /\ \A o \in Token : ObjectKept(o)
      /\ last_token_issued' \in {last_token_issued, last_token_issued + 1}
  BY ObjectStep
<1>3. last_token_issued \in Nat /\ Token \subseteq Nat
  BY BoundsAssumption DEF TypeOK, Token
<1> DEFINE IsPeer(o, s) ==
             /\ objects[o] \in IoObject /\ objects[o].type = "CtrlConnection"
             /\ objects[o].peer \in {0, s} /\ Occurs(objects[o].messages, Ready(s))
<1> DEFINE StaysPeer(o, s) ==
             /\ objects'[o] \in IoObject /\ objects'[o].type = "CtrlConnection"
             /\ objects'[o].peer \in {0, s} /\ Occurs(objects'[o].messages, Ready(s))
<1>4. ASSUME NEW o \in Token, NEW s \in ServerId, o <= last_token_issued,
             objects[o] = NULL \/ IsPeer(o, s)
      PROVE  objects'[o] = NULL \/ StaysPeer(o, s)
  BY <1>2, <1>3, <1>4, NullAssumption DEF ObjectKept, Stays, Accepted
<1>5. ASSUME NEW s \in ServerId, games[s] # NULL, games[s].ctrl_conn # 0
      PROVE  /\ games[s].ctrl_conn \in Token
             /\ games[s].ctrl_conn <= last_token_issued
             /\ objects[games[s].ctrl_conn] = NULL \/ IsPeer(games[s].ctrl_conn, s)
  <2>1. games[s].ctrl_conn \in Token
    BY <1>5, BoundsAssumption DEF TypeOK, GameSrvMetadata, Token
  <2> DEFINE o == games[s].ctrl_conn
  <2>2. o <= last_token_issued
    BY <1>5 DEF TokensIssued
  <2>3. CASE objects[o] # NULL
    <3>1. /\ objects[o] \in IoObject /\ objects[o].messages \in Seq(CtrlMsg)
      BY <2>1, <2>3 DEF TypeOK, IoObject
    <3>2. /\ objects[o].type = "CtrlConnection" /\ objects[o].peer \in {0, s}
          /\ \E i \in DOMAIN objects[o].messages : objects[o].messages[i] = Ready(s)
      BY <1>5, <2>1, <2>3 DEF ReachedWhereAnnounced, HasType, GetObject
    <3>3. Occurs(objects[o].messages, Ready(s))
      BY <3>1, <3>2 DEF Occurs
    <3> QED
      BY <2>1, <2>2, <3>1, <3>2, <3>3
  <2> QED
    BY <2>1, <2>2, <2>3
<1>6. \A o \in Token : objects'[o] # NULL => o <= last_token_issued'
  BY <1>2, <1>3, NullAssumption DEF ObjectKept, Stays, Accepted, TokensIssued
<1> DEFINE Peered(s) == games'[s] # NULL /\ games'[s].ctrl_conn # 0 =>
                          /\ games'[s].ctrl_conn \in Token
                          /\ games'[s].ctrl_conn <= last_token_issued
                          /\ \/ objects'[games'[s].ctrl_conn] = NULL
                             \/ StaysPeer(games'[s].ctrl_conn, s)
<1>7. ASSUME NEW s \in ServerId,
             games'[s] # NULL /\ games'[s].ctrl_conn # 0 => games[s] # NULL,
             games'[s] # NULL /\ games'[s].ctrl_conn # 0
               => games'[s].ctrl_conn = games[s].ctrl_conn
      PROVE  Peered(s)
  <2> SUFFICES ASSUME games'[s] # NULL, games'[s].ctrl_conn # 0 PROVE Peered(s)
    OBVIOUS
  <2> DEFINE o == games[s].ctrl_conn
  <2>1. o \in Token /\ o <= last_token_issued /\ (objects[o] = NULL \/ IsPeer(o, s))
    BY <1>5, <1>7
  <2>2. objects'[o] = NULL \/ StaysPeer(o, s)
    BY <1>4, <2>1
  <2> QED
    BY <1>7, <2>1, <2>2
<1>8. ASSUME NEW s \in ServerId PROVE Peered(s)
  <2>1. CASE GamesKept
    BY <1>7, <2>1 DEF GamesKept
  <2>2. ASSUME NEW r \in ServerId, NEW d \in Districts, CreatedServer(r, d) PROVE Peered(s)
    <3>1. games'[r].ctrl_conn = 0 /\ \A q \in ServerId \ {r} : games'[q] = games[q]
      BY <2>2, CreatedEntry
    <3> QED
      BY <1>7, <3>1
  <2>3. ASSUME NEW r \in ServerId, QueuedOn(r) PROVE Peered(s)
    <3>1. games'[r].ctrl_conn = 0 /\ \A q \in ServerId \ {r} : games'[q] = games[q]
      BY <2>3, QueuedEntry
    <3> QED
      BY <1>7, <3>1
  <2>4. ASSUME NEW r \in ServerId, NEW t \in Token, Announced(r, t) PROVE Peered(s)
    <3>1. games'[r].ctrl_conn = t /\ \A q \in ServerId \ {r} : games'[q] = games[q]
      BY <2>4, AnnouncedEntry
    <3>2. CASE s = r
      <4>1. objects[t] # NULL /\ IsPeer(t, s) /\ objects' = objects
        BY <2>4, <3>2, NullAssumption DEF Announced
      <4>2. t <= last_token_issued
        BY <4>1 DEF TokensIssued
      <4> QED
        BY <3>1, <3>2, <4>1, <4>2
    <3>3. CASE s # r
      BY <1>7, <3>1, <3>3
    <3> QED
      BY <3>2, <3>3
  <2> QED
    BY <1>1, <2>1, <2>2, <2>3, <2>4 DEF RegistryChange
<1>9. TypeOK'
  BY TypeStep
<1>10. ASSUME NEW s \in ServerId, games'[s] # NULL
       PROVE  games'[s].ctrl_conn <= last_token_issued'
  <2>1. games'[s].ctrl_conn \in 0..MaxToken
    BY <1>9, <1>10 DEF TypeOK, GameSrvMetadata
  <2> QED
    BY <1>2, <1>3, <1>8, <1>10, <2>1, BoundsAssumption
<1>11. ASSUME NEW o \in Token, NEW s \in ServerId, StaysPeer(o, s)
       PROVE  \E i \in DOMAIN objects'[o].messages : objects'[o].messages[i] = Ready(s)
  <2>1. objects'[o].messages \in Seq(CtrlMsg)
    BY <1>11 DEF IoObject
  <2> QED
    BY <1>11, <2>1 DEF Occurs
<1>12. ReachedWhereAnnounced'
  <2> SUFFICES ASSUME NEW s \in ServerId, games'[s] # NULL, games'[s].ctrl_conn # 0
               PROVE  \/ GetObject(games[s].ctrl_conn)' = NULL
                      \/ /\ HasType(games[s].ctrl_conn, "CtrlConnection")'
                         /\ objects'[games'[s].ctrl_conn].peer \in {0, s}
                         /\ \E i \in DOMAIN objects'[games'[s].ctrl_conn].messages :
                              objects'[games'[s].ctrl_conn].messages[i] = Ready(s)
    BY DEF ReachedWhereAnnounced, Ready
  <2> DEFINE o == games'[s].ctrl_conn
  <2>1. o \in Token /\ (objects'[o] = NULL \/ StaysPeer(o, s))
    BY <1>8
  <2>2. CASE objects'[o] = NULL
    BY <2>1, <2>2 DEF GetObject
  <2>3. CASE StaysPeer(o, s)
    BY <1>11, <2>1, <2>3, NullAssumption DEF HasType, GetObject
  <2> QED
    BY <2>1, <2>2, <2>3
<1> QED
  BY <1>6, <1>10, <1>12 DEF TokensIssued

-----------------------------------------------------------------------------
(* Where accounts play *)

\* What a step does to the registry entry of an account.
KeepsServer(a) ==
  /\ accounts[a] # NULL /\ accounts'[a] # NULL
  /\ accounts'[a].current_server_id = accounts[a].current_server_id
  /\ accounts'[a].current_player_id = accounts[a].current_player_id

OnNoServer(entry) == entry = NULL \/ entry.current_server_id = 0

SentToServer(a) ==
  /\ accounts[a] # NULL /\ OnNoServer(accounts[a])
  /\ \E s \in ServerId :
       /\ accounts'[a].current_server_id = s
       /\ accounts'[a].current_player_id = last_player_token'
       /\ games'[s] # NULL
       /\ games'[s].ctrl_conn = 0 =>
            \E x \in games'[s].pending_transfers : x.player_token = last_player_token'

AccountChange(a) ==
  \/ KeepsServer(a)
  \/ OnNoServer(accounts[a]) /\ OnNoServer(accounts'[a])
  \/ LeftByMessage(a) /\ OnNoServer(accounts'[a])
  \/ SentToServer(a)

LEMMA MarkAuthChange ==
  ASSUME NEW accs \in [Accounts -> GlobalAccountRegistry \cup {NULL}],
         NEW b \in Accounts \cup {NULL}, NEW a \in Accounts
  PROVE  LET after == MarkAccountAuthDisconnected(accs, b)[a] IN
           \/ /\ accs[a] # NULL /\ after # NULL
              /\ after.current_server_id = accs[a].current_server_id
              /\ after.current_player_id = accs[a].current_player_id
           \/ OnNoServer(accs[a]) /\ OnNoServer(after)
<1>1. CASE b = NULL \/ accs[b] = NULL
  BY <1>1 DEF MarkAccountAuthDisconnected, OnNoServer
<1>2. CASE b # NULL /\ accs[b] # NULL /\ accs[b].current_server_id = 0
  BY <1>2 DEF MarkAccountAuthDisconnected, OnNoServer
<1>3. CASE b # NULL /\ accs[b] # NULL /\ accs[b].current_server_id # 0
  <2> DEFINE e == [accs[b] EXCEPT !.auth_conn_token = 0]
  <2>1. MarkAccountAuthDisconnected(accs, b) = [accs EXCEPT ![b] = e]
    BY <1>3 DEF MarkAccountAuthDisconnected
  <2>2. accs[b] \in GlobalAccountRegistry
    BY <1>3
  <2>3. /\ e \in GlobalAccountRegistry
        /\ e.current_server_id = accs[b].current_server_id
        /\ e.current_player_id = accs[b].current_player_id
    BY <2>2, BoundsAssumption DEF GlobalAccountRegistry
  <2> HIDE DEF e
  <2> QED
    BY <1>3, <2>1, <2>3, NullAssumption DEF OnNoServer
<1> QED
  BY <1>1, <1>2, <1>3

LEMMA CloseChange ==
  ASSUME TypeOK, NEW t \in Token, objects[t] # NULL, CloseAuthConnection(t), NEW a \in Accounts
  PROVE  AccountChange(a)
<1>1. objects[t].account_id \in Accounts \cup {NULL}
  BY DEF TypeOK, IoObject
<1>2. accounts \in [Accounts -> GlobalAccountRegistry \cup {NULL}]
  BY DEF TypeOK
<1> QED
  BY <1>1, <1>2, MarkAuthChange DEF CloseAuthConnection, AccountChange, KeepsServer

LEMMA AccountStep ==
  ASSUME TypeOK, PeerIsKnown, [Next]_vars, NEW a \in Accounts
  PROVE  AccountChange(a)
<1> USE DEF counters, registries, batchVars, dispatchVars, threadVars, envVars,
            historyVars, worldVars
<1> DEFINE Same == accounts' = accounts
<1>1. Same => AccountChange(a)
  BY DEF AccountChange, KeepsServer, OnNoServer
<1>2. \A t \in Token : HasType(t, "AuthConnection") => objects[t] # NULL
  BY DEF HasType, GetObject
<1>3. accounts[a] # NULL => accounts[a] \in GlobalAccountRegistry
  BY DEF TypeOK
<1>4. ASSUME NEW t \in Token
      PROVE  BeginAuthEvent(t) \/ AuthEventFailed(t) \/ FlushFailed(t) => AccountChange(a)
  <2>1. BeginAuthEvent(t) \/ AuthEventFailed(t) \/ FlushFailed(t)
          => /\ objects[t] # NULL
             /\ Same \/ CloseAuthConnection(t)
    BY <1>2 DEF BeginAuthEvent, AuthEventFailed, FlushFailed, Reaches
  <2> HIDE DEF Same
  <2> QED
    BY <1>1, <2>1, CloseChange
<1>5. ASSUME NEW t \in Token, NEW b \in Accounts, NEW c \in Characters \cup {NULL},
             HandlePortalAccountLogin(t, b, c)
      PROVE  AccountChange(a)
  <2> DEFINE old   == IF accounts[b] = NULL THEN 0 ELSE accounts[b].auth_conn_token
             token == IF old = t THEN 0 ELSE t
             entry == IF accounts[b] = NULL THEN AddConnectedAccount(token)
                      ELSE [accounts[b] EXCEPT !.auth_conn_token = token]
             after == [accounts EXCEPT ![b] = entry]
  <2>1. \/ Same \/ accounts' = after \/ accounts' = MarkAccountAuthDisconnected(after, b)
    BY <1>5 DEF HandlePortalAccountLogin
  <2>2. token \in 0..MaxToken
    BY BoundsAssumption DEF Token
  <2> HIDE DEF token
  <2>3. accounts[b] # NULL => accounts[b] \in GlobalAccountRegistry
    BY DEF TypeOK
  <2>4. /\ entry \in GlobalAccountRegistry
        /\ accounts[b] = NULL => entry.current_server_id = 0
        /\ accounts[b] # NULL =>
             /\ entry.current_server_id = accounts[b].current_server_id
             /\ entry.current_player_id = accounts[b].current_player_id
    <3>1. CASE accounts[b] = NULL
      BY <2>2, <3>1, BoundsAssumption DEF AddConnectedAccount, GlobalAccountRegistry
    <3>2. CASE accounts[b] # NULL
      BY <2>2, <2>3, <3>2 DEF GlobalAccountRegistry
    <3> QED
      BY <3>1, <3>2
  <2> HIDE DEF entry
  <2>5. after \in [Accounts -> GlobalAccountRegistry \cup {NULL}]
    BY <2>4 DEF TypeOK
  <2>6. \/ /\ accounts[a] # NULL /\ after[a] # NULL
           /\ after[a].current_server_id = accounts[a].current_server_id
           /\ after[a].current_player_id = accounts[a].current_player_id
        \/ OnNoServer(accounts[a]) /\ OnNoServer(after[a])
    <3>1. CASE a = b
      BY <2>4, <3>1, NullAssumption DEF TypeOK, OnNoServer
    <3>2. CASE a # b
      BY <3>2 DEF TypeOK, OnNoServer
    <3> QED
      BY <3>1, <3>2
  <2>7. CASE accounts' = after
    BY <2>6, <2>7 DEF AccountChange, KeepsServer
  <2>8. CASE accounts' = MarkAccountAuthDisconnected(after, b)
    <3> HIDE DEF after
    <3>1. \/ /\ after[a] # NULL /\ accounts'[a] # NULL
             /\ accounts'[a].current_server_id = after[a].current_server_id
             /\ accounts'[a].current_player_id = after[a].current_player_id
          \/ OnNoServer(after[a]) /\ OnNoServer(accounts'[a])
      BY <2>5, <2>8, MarkAuthChange
    <3> QED
      BY <2>6, <3>1 DEF AccountChange, KeepsServer, OnNoServer
  <2> QED
    BY <1>1, <2>1, <2>7, <2>8
<1>6. ASSUME NEW t \in Token, NEW d \in Districts, NEW s \in ServerId,
             \/ HandleRequestGameInstance(t, d, s) \/ RequestCreatesServer(t, d, s)
             \/ RequestCreationFails(t, d, s)
      PROVE  AccountChange(a)
  <2> DEFINE b == objects[t].account_id
  <2>1. b \in Accounts /\ accounts[b] \in GlobalAccountRegistry
        /\ accounts[b] # NULL /\ accounts[b].current_server_id = 0
    BY <1>2, <1>6, HasTypeObject
       DEF HandleRequestGameInstance, RequestCreatesServer, RequestCreationFails,
           MayRequestGame, TypeOK, IoObject
  <2> HIDE DEF b
  <2>2. ASSUME NEW x, NEW y, NEW z, accounts' = [accounts EXCEPT ![b] =
                 [@ EXCEPT !.char_id = x, !.current_server_id = y, !.current_player_id = z]]
        PROVE  /\ a # b => accounts'[a] = accounts[a]
               /\ accounts'[b].current_server_id = y
               /\ accounts'[b].current_player_id = z
    BY <2>1, <2>2 DEF TypeOK, GlobalAccountRegistry
  <2>3. CASE a # b
    <3>1. accounts'[a] = accounts[a]
      BY <1>6, <2>3 DEF HandleRequestGameInstance, RequestCreatesServer,
                        RequestCreationFails, Assign, TypeOK, b
    <3> QED
      BY <3>1 DEF AccountChange, KeepsServer, OnNoServer
  <2>4. CASE a = b /\ RequestCreationFails(t, d, s)
    <3>1. accounts'[a] = [accounts[a] EXCEPT !.char_id = objects[t].character]
      BY <2>1, <2>4 DEF RequestCreationFails, TypeOK, b
    <3>2. accounts'[a].current_server_id = 0
      BY <2>1, <2>4, <3>1 DEF GlobalAccountRegistry
    <3> QED
      BY <2>1, <2>4, <3>2 DEF AccountChange, OnNoServer
  <2>5. CASE a = b /\ HandleRequestGameInstance(t, d, s)
    <3>1. /\ accounts'[a].current_server_id = s
          /\ accounts'[a].current_player_id = last_player_token'
      BY <2>2, <2>5 DEF HandleRequestGameInstance, Assign, b
    <3>2. games[s] # NULL /\ games[s] \in GameSrvMetadata /\ DrawPlayerToken
      BY <2>5 DEF HandleRequestGameInstance, FindCompatibleGameSrv, TypeOK
    <3>3. /\ games'[s] # NULL
          /\ games'[s].ctrl_conn = 0 =>
               \E x \in games'[s].pending_transfers : x.player_token = last_player_token'
      <4>1. CASE games[s].ctrl_conn = 0
        <5>1. games'[s] = QueueTransfer(games[s], "Auth", t, last_player_token')
          BY <2>5, <4>1 DEF HandleRequestGameInstance, TypeOK
        <5>2. last_player_token' \in PlayerToken
          BY <3>2, DrawnToken
        <5>3. games'[s] \in GameSrvMetadata
          BY <3>2, <5>1, <5>2, QueueTransferType
        <5>4. [type |-> "Auth", conn_token |-> t, player_token |-> last_player_token']
                \in games'[s].pending_transfers
          BY <3>2, <5>1 DEF QueueTransfer, GameSrvMetadata
        <5> QED
          BY <5>3, <5>4, NullAssumption
      <4>2. CASE games[s].ctrl_conn # 0
        BY <2>5, <3>2, <4>2 DEF HandleRequestGameInstance
      <4> QED
        BY <4>1, <4>2
    <3> QED
      BY <2>1, <2>5, <3>1, <3>3 DEF AccountChange, SentToServer, OnNoServer
  <2>6. CASE a = b /\ RequestCreatesServer(t, d, s)
    <3>1. /\ accounts'[a].current_server_id = s
          /\ accounts'[a].current_player_id = last_player_token'
      BY <2>2, <2>6 DEF RequestCreatesServer, Assign, b
    <3>2. last_player_token' \in PlayerToken
      BY <2>6, DrawnToken DEF RequestCreatesServer
    <3>3. games'[s] = QueueTransfer(NewMetadata(d), "Auth", t, last_player_token')
      BY <2>6 DEF RequestCreatesServer, CreateServer, TypeOK
    <3>4. NewMetadata(d) \in GameSrvMetadata
      BY NewMetadataType
    <3>5. games'[s] \in GameSrvMetadata
      BY <3>2, <3>3, <3>4, QueueTransferType
    <3>6. [type |-> "Auth", conn_token |-> t, player_token |-> last_player_token']
            \in games'[s].pending_transfers
      BY <3>3, <3>4 DEF QueueTransfer, GameSrvMetadata
    <3> QED
      BY <2>1, <2>6, <3>1, <3>5, <3>6, NullAssumption
         DEF AccountChange, SentToServer, OnNoServer
  <2> QED
    BY <1>6, <2>3, <2>4, <2>5, <2>6
<1>7. ASSUME NEW t \in Token, HandlePlayerLeft(t) PROVE AccountChange(a)
  <2> DEFINE m == objects[t].messages[msg_idx]
  <2>1. /\ Handles(t, "PlayerLeft")
        /\ accounts' = MarkAccountGameDisconnected(accounts, m.account_id)
    BY <1>7 DEF HandlePlayerLeft
  <2>2. m \in CtrlMsg /\ m.msg_id = "PlayerLeft"
    BY <2>1, HandlesType DEF Handles
  <2>3. m.account_id \in Accounts /\ m = Request("PlayerLeft", m.account_id, NULL)
    BY <2>2 DEF CtrlMsg, Request
  <2>4. current = t /\ HasType(t, "CtrlConnection") /\ msg_idx <= Len(objects[t].messages)
        /\ t # 0
    BY <2>1 DEF Handles, Running, Token
  <2>5. LeftByMessage(m.account_id)
    BY <2>3, <2>4 DEF LeftByMessage
  <2> HIDE DEF m
  <2>6. CASE a # m.account_id
    <3>1. accounts'[a] = accounts[a]
      BY <2>1, <2>6 DEF MarkAccountGameDisconnected, TypeOK
    <3> QED
      BY <3>1 DEF AccountChange, KeepsServer, OnNoServer
  <2>7. CASE a = m.account_id
    <3>1. OnNoServer(accounts'[a])
      <4>1. CASE accounts[a] = NULL \/ accounts[a].auth_conn_token = 0
        <5>1. accounts' = MarkAccountGameDisconnected(accounts, a) /\ a # NULL
          BY <2>1, <2>7, NullAssumption
        <5>2. \/ accounts' = accounts /\ accounts[a] = NULL
              \/ accounts' = [accounts EXCEPT ![a] = NULL]
          BY <4>1, <5>1 DEF MarkAccountGameDisconnected
        <5>3. accounts'[a] = NULL
          BY <5>2 DEF TypeOK
        <5> QED
          BY <5>3 DEF OnNoServer
      <4>2. CASE accounts[a] # NULL /\ accounts[a].auth_conn_token # 0
        <5>1. a # NULL
          BY NullAssumption
        <5> DEFINE e == [accounts[a] EXCEPT !.current_server_id = 0,
                                            !.current_player_id = 0]
        <5>2. accounts' = [accounts EXCEPT ![a] = e]
          BY <2>1, <2>7, <4>2, <5>1 DEF MarkAccountGameDisconnected
        <5>3. accounts'[a] = e
          BY <5>2 DEF TypeOK
        <5> QED
          BY <1>3, <4>2, <5>3 DEF OnNoServer, GlobalAccountRegistry
      <4> QED
        BY <4>1, <4>2
    <3> QED
      BY <2>5, <2>7, <3>1 DEF AccountChange
  <2> QED
    BY <2>6, <2>7
<1>8. Poll \/ EventsDone \/ UpdateDone \/ ProcessListenerEvent \/ UNCHANGED vars => Same
  BY DEF Poll, EventsDone, UpdateDone, ProcessListenerEvent, NextToken, vars
<1>9. ASSUME NEW t \in Token
      PROVE  /\ ProcessEventNone(t) \/ ProcessConnectionEvent(t) \/ ConnectionFailed(t)
                  \/ DoPostHandshakeAuth(t) \/ DoPostHandshakeCtrl(t) \/ EndAuthEvent(t) => Same
             /\ \A b \in Accounts, c \in Characters \cup {NULL}, s \in ServerId, p \in PlayerToken :
                  DoPostHandshakeGame(t, b, c, s, p) => Same
             /\ \A c \in Characters \cup {NULL} : HandleChangePlayCharacter(t, c) => Same
  BY DEF ProcessEventNone, ProcessConnectionEvent, ConnectionFailed, DoPostHandshakeAuth,
         DoPostHandshakeCtrl, DoPostHandshakeGame, EndAuthEvent, HandleChangePlayCharacter
<1>10. ASSUME NEW t \in Token
       PROVE  /\ BeginCtrlEvent(t) \/ EndCtrlEvent(t) \/ HandleServerReady(t)
                   \/ CancelPlayerTransfer(t) => Same
              /\ \A s \in ServerId : HandlerStartPlayerTransfer(t, s)
                                      \/ TransferCreatesServer(t, s) => Same
  BY DEF BeginCtrlEvent, EndCtrlEvent, HandleServerReady, CancelPlayerTransfer,
         HandlerStartPlayerTransfer, TransferCreatesServer
<1>11. GameServers => Same
  BY DEF GameServers, PlayerJoins, PlayerLeaves, PlayerTravels
<1> HIDE DEF Same
<1> QED
  BY <1>1, <1>4, <1>5, <1>6, <1>7, <1>8, <1>9, <1>10, <1>11
     DEF Next, Thread, Connection, AuthEvent, CtrlEvent

\* What waits for a server goes on waiting until the server has announced itself.
LEMMA QueueKept ==
  ASSUME TypeOK, PeerIsKnown, [Next]_vars, NEW s \in ServerId, games[s] # NULL
  PROVE  /\ games'[s] # NULL
         /\ games'[s].ctrl_conn = 0 =>
              /\ games[s].ctrl_conn = 0
              /\ games[s].pending_transfers \subseteq games'[s].pending_transfers
<1> DEFINE Kept == /\ games'[s] # NULL
                   /\ games'[s].ctrl_conn = 0 =>
                        /\ games[s].ctrl_conn = 0
                        /\ games[s].pending_transfers \subseteq games'[s].pending_transfers
<1>1. games'[s] = games[s] => Kept
  OBVIOUS
<1>2. CASE GamesKept
  BY <1>1, <1>2 DEF GamesKept
<1>3. ASSUME NEW r \in ServerId, NEW d \in Districts, CreatedServer(r, d) PROVE Kept
  <2>1. r # s /\ \A q \in ServerId \ {r} : games'[q] = games[q]
    BY <1>3, CreatedEntry DEF CreatedServer
  <2> QED
    BY <1>1, <2>1
<1>4. ASSUME NEW r \in ServerId, QueuedOn(r) PROVE Kept
  <2>1. /\ \A q \in ServerId \ {r} : games'[q] = games[q]
        /\ games'[r] # NULL
        /\ games[r].pending_transfers \subseteq games'[r].pending_transfers
    BY <1>4, QueuedEntry, NullAssumption
  <2>2. games[r].ctrl_conn = 0
    BY <1>4 DEF QueuedOn
  <2> QED
    BY <1>1, <2>1, <2>2
<1>5. ASSUME NEW r \in ServerId, NEW t \in Token, Announced(r, t) PROVE Kept
  <2>1. /\ \A q \in ServerId \ {r} : games'[q] = games[q]
        /\ games'[r] # NULL /\ games'[r].ctrl_conn = t
    BY <1>5, AnnouncedEntry, NullAssumption
  <2>2. t # 0
    BY DEF Token
  <2> QED
    BY <1>1, <2>1, <2>2
<1>6. RegistryChange
  BY RegistryStep
<1> QED
  BY <1>2, <1>3, <1>4, <1>5, <1>6 DEF RegistryChange

LEMMA AssignedStep ==
  ASSUME TypeOK, PeerIsKnown, AssignedIsQueued, [Next]_vars
  PROVE  AssignedIsQueued'
<1> SUFFICES ASSUME NEW a \in Accounts, accounts'[a] # NULL,
                    accounts'[a].current_server_id # 0
             PROVE  /\ games'[accounts'[a].current_server_id] # NULL
                    /\ games'[accounts'[a].current_server_id].ctrl_conn = 0 =>
                         \E x \in games'[accounts'[a].current_server_id].pending_transfers :
                           x.player_token = accounts'[a].current_player_id
  BY DEF AssignedIsQueued
<1>1. AccountChange(a)
  BY AccountStep
<1>2. CASE KeepsServer(a)
  <2> DEFINE s == accounts[a].current_server_id
  <2>1. s \in ServerId
    BY <1>2, BoundsAssumption DEF KeepsServer, TypeOK, GlobalAccountRegistry, ServerId
  <2>2. /\ games[s] # NULL
        /\ games[s].ctrl_conn = 0 =>
             \E x \in games[s].pending_transfers :
               x.player_token = accounts[a].current_player_id
    BY <1>2 DEF KeepsServer, AssignedIsQueued
  <2>3. /\ games'[s] # NULL
        /\ games'[s].ctrl_conn = 0 =>
             /\ games[s].ctrl_conn = 0
             /\ games[s].pending_transfers \subseteq games'[s].pending_transfers
    BY <2>1, <2>2, QueueKept
  <2> QED
    BY <1>2, <2>2, <2>3 DEF KeepsServer
<1>3. CASE SentToServer(a)
  BY <1>3 DEF SentToServer
<1> QED
  BY <1>1, <1>2, <1>3 DEF AccountChange, OnNoServer

-----------------------------------------------------------------------------
(* The round.  What the thread has to come back to is in its batch; what was *)
(* closed is removed at the end of it.                                       *)

Watched(t) == t \in armed \cup events \cup objects_with_event

RoundInOrder ==
  /\ phase # "events" => events = {} /\ current = 0
  /\ phase = "poll" => objects_with_event = {} /\ objects_to_remove = {}
  /\ current \notin events
  /\ \A t \in Token : objects[t] # NULL => Watched(t)

\* A lost control connection still handles the messages of its event.
IsLost(t) == t = current /\ objects[t].type = "CtrlConnection" /\ objects[t].closed

EndsWithRound(t) ==
  /\ objects[t].type = "None" => ~objects[t].open
  /\ objects[t].type = "AuthConnection" /\ ~objects[t].open => t \notin events
  /\ ~objects[t].open => t \in objects_to_remove \/ IsLost(t)

ClosedIsRemoved == \A t \in Token : objects[t] # NULL => EndsWithRound(t)

\* What a step does to the batch.
Polled == /\ phase = "poll" /\ phase' = "events"
          /\ events' \subseteq armed /\ armed' = armed \ events'
          /\ UNCHANGED <<objects_with_event, objects_to_remove, current>>

Took(t) == /\ Running(0) /\ t \in events
           /\ events' = events \ {t}
           /\ objects_with_event' = objects_with_event \cup {t}
           /\ current' \in {0, t}
           /\ objects_to_remove \subseteq objects_to_remove'
           /\ UNCHANGED <<phase, armed>>

\* Once the messages of a lost control connection are handled, it is removed.
Handled == \/ current' = current
           \/ /\ phase = "events" /\ current' = 0
              /\ \A t \in Token : IsLost(t) => t \in objects_to_remove'

BatchKept == /\ UNCHANGED <<phase, events, objects_with_event>>
             /\ armed \subseteq armed'
             /\ objects_to_remove \subseteq objects_to_remove'
             /\ phase = "poll" => objects_to_remove' = objects_to_remove
             /\ Handled

Dispatched == /\ Running(0) /\ events = {} /\ phase' = "flush"
              /\ UNCHANGED <<armed, events, objects_with_event, objects_to_remove, current>>

BatchChange == \/ Polled
               \/ \E t \in Token : Took(t)
               \/ BatchKept
               \/ Dispatched
               \/ UpdateDone

LEMMA BatchStep ==
  ASSUME TypeOK, [Next]_vars
  PROVE  BatchChange
<1> USE DEF counters, registries, batchVars, dispatchVars, threadVars, envVars,
            historyVars, worldVars
<1> DEFINE Same == UNCHANGED <<phase, events, objects_with_event, objects_to_remove, armed,
                               current>>
<1>1. Same => BatchKept
  BY DEF BatchKept, Handled
<1>2. Poll => Polled
  BY DEF Poll, Polled
<1>3. EventsDone => Dispatched
  BY DEF EventsDone, Dispatched
<1>4. ProcessListenerEvent => BatchKept
  BY DEF ProcessListenerEvent, BatchKept, Handled
<1>5. ASSUME NEW t \in Token
      PROVE  /\ ProcessEventNone(t) \/ ProcessConnectionEvent(t) => Took(t)
             /\ ConnectionFailed(t) \/ DoPostHandshakeAuth(t) => Took(t)
             /\ DoPostHandshakeCtrl(t) \/ BeginAuthEvent(t) \/ BeginCtrlEvent(t) => Took(t)
  BY DEF ProcessEventNone, ProcessConnectionEvent, ConnectionFailed, DoPostHandshakeAuth,
         DoPostHandshakeCtrl, BeginAuthEvent, BeginCtrlEvent, CloseAuthConnection, TakeEvent,
         Running, Took
<1>6. ASSUME NEW t \in Token, NEW a \in Accounts, NEW c \in Characters \cup {NULL},
             NEW s \in ServerId, NEW p \in PlayerToken, DoPostHandshakeGame(t, a, c, s, p)
      PROVE  Took(t)
  BY <1>6 DEF DoPostHandshakeGame, TakeEvent, Running, Took
<1>7. ASSUME NEW t \in Token, Running(t), HasType(t, "AuthConnection") \/ HasType(t, "None")
      PROVE  \A u \in Token : ~IsLost(u)
  BY <1>7 DEF Running, HasType, GetObject, IsLost
<1>8. ASSUME NEW t \in Token
      PROVE  /\ AuthEventFailed(t) => BatchKept
             /\ EndAuthEvent(t) => BatchKept
  BY <1>7 DEF AuthEventFailed, EndAuthEvent, CloseAuthConnection, BatchKept, Handled, Running
<1>9. ASSUME NEW t \in Token, EndCtrlEvent(t) PROVE BatchKept
  BY <1>9 DEF EndCtrlEvent, BatchKept, Handled, Running, IsLost
<1>10. ASSUME NEW t \in Token, FlushFailed(t) PROVE BatchKept
  BY <1>10 DEF FlushFailed, CloseAuthConnection, BatchKept, Handled
<1>11. ASSUME NEW t \in Token, NEW a \in Accounts, NEW c \in Characters \cup {NULL},
              HandlePortalAccountLogin(t, a, c)
       PROVE  BatchKept
  <2>1. objects_to_remove \subseteq objects_to_remove'
    BY <1>11 DEF HandlePortalAccountLogin
  <2>2. phase = "events" /\ UNCHANGED <<phase, events, objects_with_event, armed, current>>
    BY <1>11 DEF HandlePortalAccountLogin, Running
  <2> QED
    BY <2>1, <2>2 DEF BatchKept, Handled
<1>12. UNCHANGED vars => Same
  BY DEF vars
<1>13. GameServers => Same
  BY DEF GameServers, PlayerJoins, PlayerLeaves, PlayerTravels
<1>14. ASSUME NEW t \in Token
       PROVE  /\ \A c \in Characters \cup {NULL} : HandleChangePlayCharacter(t, c) => Same
              /\ \A d \in Districts, s \in ServerId :
                   HandleRequestGameInstance(t, d, s) \/ RequestCreatesServer(t, d, s)
                     \/ RequestCreationFails(t, d, s) => Same
  BY DEF HandleChangePlayCharacter, HandleRequestGameInstance, RequestCreatesServer,
         RequestCreationFails
<1>15. ASSUME NEW t \in Token
       PROVE  /\ HandleServerReady(t) \/ HandlePlayerLeft(t) \/ CancelPlayerTransfer(t) => Same
              /\ \A s \in ServerId : HandlerStartPlayerTransfer(t, s)
                                      \/ TransferCreatesServer(t, s) => Same
  BY DEF HandleServerReady, HandlePlayerLeft, CancelPlayerTransfer,
         HandlerStartPlayerTransfer, TransferCreatesServer
<1> HIDE DEF Same
<1> QED
  BY <1>1, <1>2, <1>3, <1>4, <1>5, <1>6, <1>8, <1>9, <1>10, <1>11, <1>12, <1>13, <1>14, <1>15
     DEF Next, Thread, Connection, AuthEvent, CtrlEvent, BatchChange

\* What a step does to an object.
SameKind(o) == /\ objects[o] # NULL /\ objects'[o] # NULL
               /\ objects'[o].type = objects[o].type
               /\ objects'[o].open = objects[o].open
               /\ objects'[o].closed = objects[o].closed

Opened(o) == /\ objects'[o].open /\ objects'[o].type # "None"
             /\ objects[o] # NULL \/ o \in armed'

Removed(o) == /\ objects[o] # NULL /\ ~objects'[o].open
              /\ objects'[o].type \in {"None", "AuthConnection"}
              /\ o \in objects_to_remove'
              /\ o \in events' => objects'[o].type = "None"

LostNow(o) == /\ objects[o] # NULL /\ ~objects'[o].open
              /\ objects'[o].type = "CtrlConnection" /\ objects'[o].closed
              /\ o = current'

Fate(o) == \/ objects'[o] = NULL
           \/ SameKind(o)
           \/ Opened(o)
           \/ Removed(o)
           \/ LostNow(o)

\* What a login does to the objects: it takes the account over from the
\* connection that holds it.
HolderOf(a) == IF accounts[a] = NULL THEN 0 ELSE accounts[a].auth_conn_token

Wiped(o) == /\ objects'[o] # NULL /\ objects'[o].type = "None" /\ ~objects'[o].open
            /\ o \in objects_to_remove'

TakesOver(t, a) ==
  /\ \A o \in Token \ {t, HolderOf(a)} : objects'[o] = objects[o]
  /\ HasType(HolderOf(a), "AuthConnection") => Wiped(HolderOf(a))
  /\ HolderOf(a) \in Token \ {t} /\ ~HasType(HolderOf(a), "AuthConnection") =>
       objects'[HolderOf(a)] = objects[HolderOf(a)]
  /\ HolderOf(a) # t => /\ SameKind(t)
                        /\ objects'[t].connected /\ objects'[t].account_id = a

LEMMA LoginTakesOver ==
  ASSUME TypeOK, NEW t \in Token, NEW a \in Accounts, NEW c \in Characters \cup {NULL},
         HandlePortalAccountLogin(t, a, c)
  PROVE  UNCHANGED <<objects, accounts>> \/ TakesOver(t, a)
<1> DEFINE old   == IF accounts[a] = NULL THEN 0 ELSE accounts[a].auth_conn_token
           kills == HasType(old, "AuthConnection")
           self  == old = t
           wiped == [NoneObject EXCEPT !.account_id = a, !.connected = TRUE, !.character = c]
           login == [objects[t] EXCEPT !.account_id = a, !.connected = TRUE, !.character = c]
<1>1. objects[t] \in IoObject /\ objects[t].type = "AuthConnection" /\ HasType(t, "AuthConnection")
  BY HasTypeObject DEF HandlePortalAccountLogin, TypeOK, Objects
<1>2. /\ login # NULL /\ login.type = objects[t].type /\ login.open = objects[t].open
      /\ login.closed = objects[t].closed /\ login.connected /\ login.account_id = a
  <2>1. login \in IoObject
    BY <1>1 DEF IoObject
  <2> QED
    BY <1>1, <2>1, NullAssumption DEF IoObject
<1>3. wiped # NULL /\ wiped.type = "None" /\ ~wiped.open
  <2>1. wiped \in IoObject
    BY NoneObjectType DEF IoObject
  <2> QED
    BY <2>1, NullAssumption DEF NoneObject
<1>4. NoneObject # NULL /\ NoneObject.type = "None" /\ ~NoneObject.open
  BY NoneObjectType, NullAssumption DEF NoneObject
<1>5. \/ UNCHANGED <<objects, accounts>>
      \/ /\ objects' = [o \in Token |-> CASE o = t -> (IF self THEN wiped ELSE login)
                                          [] kills /\ o = old /\ o # t -> NoneObject
                                          [] OTHER -> objects[o]]
         /\ kills => old \in objects_to_remove'
  BY DEF HandlePortalAccountLogin
<1>6. kills => old \in Token
  BY DEF HasType, GetObject
<1>7. HolderOf(a) = old
  BY DEF HolderOf
<1>8. objects[t] # NULL
  BY <1>1, NullAssumption
<1> HIDE DEF old, wiped, login
<1>9. CASE UNCHANGED <<objects, accounts>>
  BY <1>9
<1>10. ASSUME objects' = [o \in Token |-> CASE o = t -> (IF self THEN wiped ELSE login)
                                            [] kills /\ o = old /\ o # t -> NoneObject
                                            [] OTHER -> objects[o]],
              kills => old \in objects_to_remove'
       PROVE  TakesOver(t, a)
  <2>1. \A o \in Token \ {t, old} : objects'[o] = objects[o]
    BY <1>10
  <2>2. kills => Wiped(old)
    <3>1. CASE kills /\ self
      BY <1>3, <1>10, <3>1 DEF Wiped
    <3>2. CASE kills /\ ~self
      BY <1>4, <1>6, <1>10, <3>2 DEF Wiped
    <3> QED
      BY <3>1, <3>2
  <2>3. old \in Token \ {t} /\ ~kills => objects'[old] = objects[old]
    BY <1>10
  <2>4. ~self => SameKind(t) /\ objects'[t].connected /\ objects'[t].account_id = a
    BY <1>2, <1>8, <1>10 DEF SameKind
  <2> QED
    BY <1>7, <2>1, <2>2, <2>3, <2>4 DEF TakesOver
<1> QED
  BY <1>5, <1>9, <1>10

\* Closing an auth connection.
LEMMA CloseRemoves ==
  ASSUME TypeOK, NEW t \in Token, HasType(t, "AuthConnection"), CloseAuthConnection(t)
  PROVE  /\ \A o \in Token \ {t} : objects'[o] = objects[o]
         /\ objects'[t] # NULL /\ ~objects'[t].open /\ objects'[t].type = "AuthConnection"
         /\ objects'[t].connected = objects[t].connected
         /\ objects'[t].account_id = objects[t].account_id
         /\ t \in objects_to_remove'
<1>1. objects[t] \in IoObject /\ objects[t].type = "AuthConnection"
  BY HasTypeObject DEF TypeOK, Objects
<1>2. objects'[t] = [objects[t] EXCEPT !.open = FALSE]
  BY DEF CloseAuthConnection, TypeOK
<1>3. objects'[t] \in IoObject
  BY <1>1, <1>2 DEF IoObject
<1>4. \A o \in Token \ {t} : objects'[o] = objects[o]
  BY DEF CloseAuthConnection, TypeOK
<1>5. t \in objects_to_remove'
  BY DEF CloseAuthConnection
<1> QED
  BY <1>1, <1>2, <1>3, <1>4, <1>5, NullAssumption DEF IoObject

LEMMA FateStep ==
  ASSUME TypeOK, RoundInOrder, ClosedIsRemoved, [Next]_vars
  PROVE  \A o \in Token : Fate(o)
<1> USE DEF counters, registries, batchVars, dispatchVars, threadVars, envVars,
            historyVars, worldVars
<1> DEFINE Fates == \A o \in Token : Fate(o)
<1>1. ASSUME NEW o \in Token, objects'[o] = objects[o] PROVE Fate(o)
  BY <1>1 DEF Fate, SameKind
<1>2. ASSUME NEW t \in Token, \A o \in Token \ {t} : objects'[o] = objects[o], Fate(t)
      PROVE  Fates
  BY <1>1, <1>2
<1>3. UpdateDone => Fates
  BY <1>1 DEF UpdateDone, Fate
<1>4. ASSUME ProcessListenerEvent PROVE Fates
  <2>1. PICK s \in {0} \cup backlog : objects' = [objects EXCEPT ![NextToken] = NewConnection(s)]
    BY <1>4 DEF ProcessListenerEvent
  <2>2. NextToken \in Token /\ NextToken \in armed'
    BY <1>4, BoundsAssumption DEF ProcessListenerEvent, NextToken, Token, TypeOK
  <2>3. objects'[NextToken] = NewConnection(s) /\ \A o \in Token \ {NextToken} : objects'[o] = objects[o]
    BY <2>1, <2>2 DEF TypeOK
  <2>4. NewConnection(s).open /\ NewConnection(s).type # "None"
    BY DEF NewConnection, NoneObject
  <2>5. Fate(NextToken)
    BY <2>2, <2>3, <2>4 DEF Fate, Opened
  <2> HIDE DEF NextToken
  <2> QED
    BY <1>2, <2>2, <2>3, <2>5
<1>5. ASSUME NEW t \in Token, HasType(t, "AuthConnection"), CloseAuthConnection(t), t \notin events'
      PROVE  Fates
  <2>1. objects[t] # NULL
    BY <1>5 DEF HasType, GetObject
  <2>2. Fate(t)
    BY <1>5, <2>1, CloseRemoves DEF Fate, Removed
  <2> QED
    BY <1>2, <1>5, <2>2, CloseRemoves
<1>6. ASSUME NEW t \in Token, ConnectionFailed(t) PROVE Fates
  BY <1>2, <1>6 DEF ConnectionFailed, TypeOK, Fate
<1>7. ASSUME NEW t \in Token, DoPostHandshakeAuth(t) PROVE Fates
  <2>1. objects[t] # NULL
    BY <1>7 DEF DoPostHandshakeAuth, HasType, GetObject
  <2>2. objects'[t] = [NoneObject EXCEPT !.type = "AuthConnection", !.open = TRUE]
    BY <1>7 DEF DoPostHandshakeAuth, TypeOK
  <2>3. Fate(t)
    BY <2>1, <2>2 DEF NoneObject, Fate, Opened
  <2> QED
    BY <1>2, <1>7, <2>3 DEF DoPostHandshakeAuth, TypeOK
<1>8. ASSUME NEW t \in Token, NEW a \in Accounts, NEW c \in Characters \cup {NULL},
             NEW s \in ServerId, NEW p \in PlayerToken, DoPostHandshakeGame(t, a, c, s, p)
      PROVE  Fates
  <2>1. CASE UNCHANGED objects
    BY <1>1, <2>1
  <2>2. CASE objects' = [objects EXCEPT ![t] = NULL]
    BY <1>2, <2>2 DEF TypeOK, Fate
  <2> QED
    BY <1>8, <2>1, <2>2 DEF DoPostHandshakeGame
<1>9. ASSUME NEW t \in Token, DoPostHandshakeCtrl(t) PROVE Fates
  <2> DEFINE s == objects[t].peer
  <2>1. objects[t] \in IoObject /\ s \in 0..MaxServer
    BY <1>9, HandshakeCtrl DEF IoObject
  <2>2. CASE MakesNoSense(s)
    BY <1>1, <2>2 DEF MakesNoSense
  <2>3. CASE ~MakesNoSense(s)
    <3>1. PICK received \in Seq(CtrlMsg) :
            objects' = [objects EXCEPT ![t] = NewCtrl(s, received)]
      BY <1>9, <2>3, HandshakeCtrl
    <3>2. NewCtrl(s, received).open /\ NewCtrl(s, received).type # "None"
      BY <2>1, NewCtrlType
    <3>3. objects'[t] = NewCtrl(s, received) /\ objects[t] # NULL
      BY <2>1, <3>1, NullAssumption DEF TypeOK
    <3>4. Fate(t)
      BY <3>2, <3>3 DEF Fate, Opened
    <3> QED
      BY <1>2, <3>1, <3>4 DEF TypeOK
  <2> QED
    BY <2>2, <2>3
<1>10. ASSUME NEW t \in Token, BeginAuthEvent(t) PROVE Fates
  <2>1. HasType(t, "AuthConnection") /\ t \notin events'
    BY <1>10 DEF BeginAuthEvent, TakeEvent
  <2> QED
    BY <1>1, <1>5, <1>10, <2>1 DEF BeginAuthEvent
<1>11. ASSUME NEW t \in Token, AuthEventFailed(t) PROVE Fates
  <2>1. t \notin events'
    BY <1>11 DEF AuthEventFailed, Running, RoundInOrder
  <2> QED
    BY <1>5, <1>11, <2>1 DEF AuthEventFailed
<1>12. ASSUME NEW t \in Token, FlushFailed(t) PROVE Fates
  <2>1. t \notin events'
    BY <1>12 DEF FlushFailed, RoundInOrder
  <2> QED
    BY <1>5, <1>12, <2>1 DEF FlushFailed, Reaches
<1>13. ASSUME NEW t \in Token, NEW a \in Accounts, NEW c \in Characters \cup {NULL},
              HandlePortalAccountLogin(t, a, c)
       PROVE  Fates
  <2>1. CASE UNCHANGED objects
    BY <1>1, <2>1
  <2>2. ASSUME TakesOver(t, a), NEW o \in Token PROVE Fate(o)
    <3>1. HasType(t, "AuthConnection")
      BY <1>13 DEF HandlePortalAccountLogin
    <3>2. CASE o = HolderOf(a) /\ HasType(o, "AuthConnection")
      <4>1. Wiped(o) /\ objects[o] # NULL
        BY <2>2, <3>2 DEF TakesOver, HasType, GetObject
      <4> QED
        BY <4>1 DEF Wiped, Fate, Removed
    <3>3. CASE o # t /\ ~(o = HolderOf(a) /\ HasType(o, "AuthConnection"))
      BY <1>1, <2>2, <3>3 DEF TakesOver
    <3>4. CASE o = t /\ o # HolderOf(a)
      BY <2>2, <3>4 DEF TakesOver, Fate
    <3> QED
      BY <3>1, <3>2, <3>3, <3>4
  <2> QED
    BY <1>13, <2>1, <2>2, LoginTakesOver
<1>14. ASSUME NEW t \in Token, NEW c \in Characters \cup {NULL}, HandleChangePlayCharacter(t, c)
       PROVE  Fates
  <2>1. objects[t] \in IoObject
    BY <1>14, HasTypeObject DEF HandleChangePlayCharacter, TypeOK, Objects
  <2>2. objects'[t] = [objects[t] EXCEPT !.character = c]
    BY <1>14 DEF HandleChangePlayCharacter, TypeOK
  <2>3. Fate(t)
    BY <2>1, <2>2, NullAssumption DEF Fate, SameKind, IoObject
  <2> QED
    BY <1>2, <1>14, <2>3 DEF HandleChangePlayCharacter, TypeOK
<1>15. ASSUME NEW t \in Token, BeginCtrlEvent(t) PROVE Fates
  <2>1. objects[t] \in IoObject /\ objects[t].type = "CtrlConnection" /\ objects[t] # NULL
    BY <1>15, HasTypeObject, NullAssumption DEF BeginCtrlEvent, TypeOK, Objects
  <2>2. t \in events /\ t # 0 /\ current = 0 /\ current' = t
    BY <1>15 DEF BeginCtrlEvent, TakeEvent, Running, Token
  <2>3. CASE MakesNoSense(objects[t].peer)
    BY <1>1, <2>3 DEF MakesNoSense
  <2>4. CASE ~MakesNoSense(objects[t].peer)
    <3>1. PICK received \in Seq(CtrlMsg), lost \in BOOLEAN :
            objects' = [objects EXCEPT ![t] = Receive(objects[t], received, lost)]
      BY <1>15, <2>4, CtrlEventReads
    <3>2. objects'[t] = Receive(objects[t], received, lost)
      BY <3>1 DEF TypeOK
    <3>3. /\ objects'[t].type = "CtrlConnection"
          /\ objects'[t].open = (objects[t].open /\ ~lost)
          /\ objects'[t].closed = (objects[t].closed \/ lost)
      BY <2>1, <3>2 DEF Receive, IoObject
    <3>4. Fate(t)
      <4>1. CASE objects'[t].open
        BY <2>1, <3>3, <4>1 DEF Fate, Opened
      <4>2. CASE lost
        BY <2>1, <2>2, <3>3, <4>2 DEF Fate, LostNow
      <4>3. CASE ~objects'[t].open /\ ~lost
        <5>1. objects'[t].open = objects[t].open /\ objects'[t].closed = objects[t].closed
          BY <2>1, <3>3, <4>3 DEF IoObject
        <5> QED
          BY <2>1, <3>3, <5>1 DEF Fate, SameKind
      <4> QED
        BY <4>1, <4>2, <4>3
    <3> QED
      BY <1>2, <3>1, <3>4 DEF TypeOK
  <2> QED
    BY <2>3, <2>4
<1> DEFINE Same == objects' = objects
<1>16. Poll \/ EventsDone \/ UNCHANGED vars => Same
  BY DEF Poll, EventsDone, vars
<1>17. GameServers => Same
  BY DEF GameServers, PlayerJoins, PlayerLeaves, PlayerTravels
<1>18. ASSUME NEW t \in Token
       PROVE  /\ ProcessEventNone(t) \/ ProcessConnectionEvent(t) \/ EndAuthEvent(t) => Same
              /\ \A d \in Districts, s \in ServerId :
                   HandleRequestGameInstance(t, d, s) \/ RequestCreatesServer(t, d, s)
                     \/ RequestCreationFails(t, d, s) => Same
  BY DEF ProcessEventNone, ProcessConnectionEvent, EndAuthEvent, HandleRequestGameInstance,
         RequestCreatesServer, RequestCreationFails
<1>19. ASSUME NEW t \in Token
       PROVE  /\ EndCtrlEvent(t) \/ HandleServerReady(t) \/ HandlePlayerLeft(t)
                   \/ CancelPlayerTransfer(t) => Same
              /\ \A s \in ServerId : HandlerStartPlayerTransfer(t, s)
                                      \/ TransferCreatesServer(t, s) => Same
  BY DEF EndCtrlEvent, HandleServerReady, HandlePlayerLeft, CancelPlayerTransfer,
         HandlerStartPlayerTransfer, TransferCreatesServer
<1>20. Same => Fates
  BY <1>1
<1> HIDE DEF Same, Fates
<1>21. Fates
  BY <1>3, <1>4, <1>6, <1>7, <1>8, <1>9, <1>10, <1>11, <1>12, <1>13, <1>14, <1>15, <1>16,
     <1>17, <1>18, <1>19, <1>20
     DEF Next, Thread, Connection, AuthEvent, CtrlEvent
<1> QED
  BY <1>21 DEF Fates

\* Within a round, the thread and its batch stay in order.
LEMMA RoundStep ==
  ASSUME TypeOK, RoundInOrder, ClosedIsRemoved, [Next]_vars
  PROVE  RoundInOrder'
<1>1. /\ events \subseteq Token /\ 0 \notin Token /\ armed \subseteq Token
      /\ \A t \in Token : objects[t] # NULL => t \in armed \cup events \cup objects_with_event
  BY DEF TypeOK, Token, RoundInOrder, Watched
<1>2. ASSUME NEW t \in Token, objects'[t] # NULL
      PROVE  objects[t] # NULL \/ t \in armed'
  <2>1. Fate(t)
    BY FateStep
  <2> QED
    BY <1>2, <2>1 DEF Fate, SameKind, Opened, Removed, LostNow
<1>3. CASE Polled
  BY <1>1, <1>2, <1>3 DEF Polled, RoundInOrder, Watched
<1>4. ASSUME NEW t \in Token, Took(t) PROVE RoundInOrder'
  BY <1>1, <1>2, <1>4 DEF Took, Running, RoundInOrder, Watched
<1>5. CASE BatchKept
  <2>1. /\ phase' = phase /\ events' = events /\ objects_with_event' = objects_with_event
        /\ armed \subseteq armed' /\ current' \in {current, 0}
        /\ phase = "poll" => objects_to_remove' = objects_to_remove
    BY <1>5 DEF BatchKept, Handled
  <2> QED
    BY <1>1, <1>2, <2>1 DEF RoundInOrder, Watched
<1>6. CASE Dispatched
  BY <1>1, <1>2, <1>6 DEF Dispatched, Running, RoundInOrder, Watched
<1>7. CASE UpdateDone
  <2>1. armed' = {t \in armed \cup objects_with_event : objects'[t] # NULL}
    BY <1>7 DEF UpdateDone, Rearmed
  <2>2. events = {} /\ events' = {} /\ current' = 0
    BY <1>7 DEF UpdateDone, RoundInOrder, dispatchVars
  <2>3. phase' = "poll" /\ objects_with_event' = {} /\ objects_to_remove' = {}
    BY <1>7 DEF UpdateDone
  <2>4. \A t \in Token : objects'[t] # NULL => t \in armed'
    BY <1>1, <1>2, <2>1, <2>2
  <2> QED
    BY <2>2, <2>3, <2>4 DEF RoundInOrder, Watched
<1> QED
  BY <1>3, <1>4, <1>5, <1>6, <1>7, BatchStep DEF BatchChange

LEMMA ClosedStep ==
  ASSUME TypeOK, RoundInOrder, ClosedIsRemoved, [Next]_vars
  PROVE  ClosedIsRemoved'
<1> SUFFICES ASSUME NEW o \in Token, objects'[o] # NULL PROVE EndsWithRound(o)'
  BY DEF ClosedIsRemoved
<1>1. Fate(o) /\ BatchChange
  BY FateStep, BatchStep
<1>2. CASE Opened(o)
  BY <1>2 DEF Opened, EndsWithRound
<1>3. CASE Removed(o)
  BY <1>3 DEF Removed, EndsWithRound
<1>4. CASE LostNow(o)
  BY <1>4 DEF LostNow, EndsWithRound, IsLost
<1>5. CASE SameKind(o)
  <2>1. /\ EndsWithRound(o)
        /\ objects'[o].type = objects[o].type /\ objects'[o].open = objects[o].open
        /\ objects'[o].closed = objects[o].closed
    BY <1>5 DEF SameKind, ClosedIsRemoved
  <2>2. CASE Polled
    <3>1. objects_to_remove = {} /\ current = 0 /\ o # 0
      BY <2>2 DEF Polled, RoundInOrder, Token
    <3>2. objects[o].open
      BY <2>1, <3>1 DEF EndsWithRound, IsLost
    <3> QED
      BY <2>1, <3>2 DEF EndsWithRound
  <2>3. ASSUME NEW t \in Token, Took(t) PROVE EndsWithRound(o)'
    <3>1. ~IsLost(o)
      BY <2>3 DEF Took, Running, IsLost, Token
    <3> QED
      BY <2>1, <2>3, <3>1 DEF Took, EndsWithRound
  <2>4. CASE BatchKept
    <3>1. events' = events /\ objects_to_remove \subseteq objects_to_remove'
      BY <2>4 DEF BatchKept
    <3>2. IsLost(o) => IsLost(o)' \/ o \in objects_to_remove'
      BY <2>1, <2>4 DEF BatchKept, Handled, IsLost
    <3> QED
      BY <2>1, <3>1, <3>2 DEF EndsWithRound
  <2>5. CASE Dispatched
    BY <2>1, <2>5 DEF Dispatched, EndsWithRound, IsLost
  <2>6. CASE UpdateDone
    <3>1. o \notin objects_to_remove /\ current = 0 /\ o # 0
      BY <2>6 DEF UpdateDone, RoundInOrder, Token
    <3>2. objects[o].open
      BY <2>1, <3>1 DEF EndsWithRound, IsLost
    <3> QED
      BY <2>1, <3>2 DEF EndsWithRound
  <2> QED
    BY <1>1, <2>2, <2>3, <2>4, <2>5, <2>6 DEF BatchChange
<1> QED
  BY <1>1, <1>2, <1>3, <1>4, <1>5 DEF Fate

-----------------------------------------------------------------------------
(* Who is logged in *)

LoggedIn(t) == Reaches(t, "AuthConnection") /\ objects[t].connected

ConnectedHasAccount ==
  \A t \in Token : HasType(t, "AuthConnection") =>
                     (objects[t].connected <=> objects[t].account_id # NULL)

\* Nobody else is logged in to the account of t.
Sole(t) ==
  HasType(t, "AuthConnection") /\ objects[t].connected =>
    \A u \in Token \ {t} : LoggedIn(u) => objects[u].account_id # objects[t].account_id

\* The connection whose event is handled may be closed and have lost its
\* account already; no other connection has it before the event is over.
CurrentIsSole == current # 0 => Sole(current)

Sessions == ConnectedHasAccount /\ CurrentIsSole /\ Registered

\* What a step does to the session of an object that stays an auth connection.
SessionKept(o) ==
  HasType(o, "AuthConnection")' =>
    \/ ~objects'[o].connected /\ objects'[o].account_id = NULL
    \/ /\ HasType(o, "AuthConnection")
       /\ objects'[o].connected = objects[o].connected
       /\ objects'[o].account_id = objects[o].account_id
       /\ objects'[o].open => objects[o].open

HolderKept(a) ==
  accounts[a] # NULL /\ accounts[a].auth_conn_token # 0 =>
    accounts'[a] # NULL /\ accounts'[a].auth_conn_token = accounts[a].auth_conn_token

Closes(t) == /\ HasType(t, "AuthConnection") /\ CloseAuthConnection(t)
             /\ t = current \/ objects[t].open

SessionChange ==
  \/ (\A o \in Token : SessionKept(o)) /\ (\A a \in Accounts : HolderKept(a))
  \/ \E t \in Token : Closes(t)
  \/ \E t \in Token, a \in Accounts, c \in Characters \cup {NULL} :
       HandlePortalAccountLogin(t, a, c)

LEMMA OpenIsSole ==
  ASSUME Registered, NEW t \in Token, HasType(t, "AuthConnection"), objects[t].open
  PROVE  Sole(t)
  BY DEF Registered, Sole, LoggedIn, Reaches

LEMMA HolderStep ==
  ASSUME TypeOK, NEW t \in Token,
         HandlePlayerLeft(t)
           \/ \E d \in Districts, s \in ServerId : \/ HandleRequestGameInstance(t, d, s)
                                                   \/ RequestCreatesServer(t, d, s)
                                                   \/ RequestCreationFails(t, d, s),
         NEW a \in Accounts
  PROVE  HolderKept(a)
<1>1. accounts[a] # NULL => accounts[a] \in GlobalAccountRegistry
  BY DEF TypeOK
<1>2. accounts'[a] = accounts[a] => HolderKept(a)
  BY DEF HolderKept
<1>3. ASSUME NEW e \in GlobalAccountRegistry, accounts'[a] = e,
             e.auth_conn_token = accounts[a].auth_conn_token
      PROVE  HolderKept(a)
  BY <1>3, NullAssumption DEF HolderKept
<1>4. CASE HandlePlayerLeft(t)
  <2> DEFINE m == objects[t].messages[msg_idx]
  <2>1. Handles(t, "PlayerLeft") /\ accounts' = MarkAccountGameDisconnected(accounts, m.account_id)
    BY <1>4 DEF HandlePlayerLeft
  <2>2. m.account_id \in Accounts /\ m.account_id # NULL
    <3>1. m \in CtrlMsg /\ m.msg_id = "PlayerLeft"
      BY <2>1, HandlesType
    <3> QED
      BY <3>1, NullAssumption DEF CtrlMsg
  <2> HIDE DEF m
  <2>3. CASE a # m.account_id \/ accounts[a] = NULL
    <3>1. accounts'[a] = accounts[a]
      BY <2>1, <2>2, <2>3 DEF MarkAccountGameDisconnected, TypeOK
    <3> QED
      BY <1>2, <3>1
  <2>4. CASE a = m.account_id /\ accounts[a] # NULL /\ accounts[a].auth_conn_token = 0
    BY <2>4 DEF HolderKept
  <2>5. CASE a = m.account_id /\ accounts[a] # NULL /\ accounts[a].auth_conn_token # 0
    <3> DEFINE e == [accounts[a] EXCEPT !.current_server_id = 0, !.current_player_id = 0]
    <3>1. accounts' = [accounts EXCEPT ![a] = e]
      BY <2>1, <2>2, <2>5 DEF MarkAccountGameDisconnected
    <3>2. accounts'[a] = e
      BY <3>1 DEF TypeOK
    <3>3. 0 \in 0..MaxServer /\ 0 \in 0..MaxPlayerToken
      BY BoundsAssumption
    <3>4. e \in GlobalAccountRegistry /\ e.auth_conn_token = accounts[a].auth_conn_token
      BY <1>1, <2>5, <3>3 DEF GlobalAccountRegistry
    <3> HIDE DEF e
    <3> QED
      BY <1>3, <3>2, <3>4
  <2> QED
    BY <2>3, <2>4, <2>5
<1>5. ASSUME NEW d \in Districts, NEW s \in ServerId,
             \/ HandleRequestGameInstance(t, d, s)
             \/ RequestCreatesServer(t, d, s)
             \/ RequestCreationFails(t, d, s)
      PROVE  HolderKept(a)
  <2> DEFINE b == objects[t].account_id
             c == objects[t].character
  <2>1. MayRequestGame(t)
    BY <1>5 DEF HandleRequestGameInstance, RequestCreatesServer, RequestCreationFails
  <2>2. c \in Characters \cup {NULL} /\ b \in Accounts /\ accounts[b] \in GlobalAccountRegistry
    BY <2>1, HasTypeObject DEF MayRequestGame, TypeOK, IoObject, Objects
  <2>3. CASE RequestCreationFails(t, d, s)
    <3>1. accounts' = [accounts EXCEPT ![b] = [accounts[b] EXCEPT !.char_id = c]]
      BY <2>3 DEF RequestCreationFails
    <3> DEFINE e == [accounts[b] EXCEPT !.char_id = c]
    <3>2. e \in GlobalAccountRegistry /\ e.auth_conn_token = accounts[b].auth_conn_token
      BY <2>2 DEF GlobalAccountRegistry
    <3>3. accounts'[a] = accounts[a] \/ (a = b /\ accounts'[a] = e)
      BY <2>2, <3>1 DEF TypeOK
    <3> HIDE DEF b, c, e
    <3> QED
      BY <1>2, <1>3, <3>2, <3>3
  <2>4. ASSUME Assign(b, c, s, last_player_token'), last_player_token' \in PlayerToken
        PROVE  HolderKept(a)
    <3> DEFINE p == last_player_token'
               e == [accounts[b] EXCEPT !.char_id = c, !.current_server_id = s,
                                        !.current_player_id = p]
    <3>1. s \in 0..MaxServer /\ p \in 0..MaxPlayerToken
      BY <2>4, BoundsAssumption DEF ServerId, PlayerToken
    <3>2. accounts' = [accounts EXCEPT ![b] = e]
      BY <2>4 DEF Assign
    <3>3. e \in GlobalAccountRegistry /\ e.auth_conn_token = accounts[b].auth_conn_token
      BY <2>2, <3>1 DEF GlobalAccountRegistry
    <3>4. accounts'[a] = accounts[a] \/ (a = b /\ accounts'[a] = e)
      BY <2>2, <3>2 DEF TypeOK
    <3> HIDE DEF b, c, e, p
    <3> QED
      BY <1>2, <1>3, <3>3, <3>4
  <2> QED
    BY <1>5, <2>3, <2>4, DrawnToken DEF HandleRequestGameInstance, RequestCreatesServer
<1> QED
  BY <1>4, <1>5

LEMMA SessionStep ==
  ASSUME TypeOK, ClosedIsRemoved, [Next]_vars
  PROVE  SessionChange
<1> USE DEF counters, registries, batchVars, dispatchVars, threadVars, envVars,
            historyVars, worldVars
<1> DEFINE Same     == objects' = objects
           NoHolder == accounts' = accounts
           Quiet    == (\A o \in Token : SessionKept(o)) /\ (\A a \in Accounts : HolderKept(a))
<1>1. ASSUME NEW o \in Token, objects'[o] = objects[o] PROVE SessionKept(o)
  BY <1>1 DEF SessionKept, HasType, GetObject
<1>2. NoHolder => \A a \in Accounts : HolderKept(a)
  BY DEF HolderKept
<1>3. Same /\ NoHolder => Quiet
  BY <1>1, <1>2
<1>4. ASSUME NEW t \in Token, NoHolder, \A o \in Token \ {t} : objects'[o] = objects[o], SessionKept(t)
      PROVE  Quiet
  BY <1>1, <1>2, <1>4
<1>5. ASSUME UpdateDone PROVE Quiet
  <2>1. \A o \in Token : objects'[o] = NULL \/ objects'[o] = objects[o]
    BY <1>5 DEF UpdateDone
  <2>2. \A o \in Token : SessionKept(o)
    BY <1>1, <2>1 DEF SessionKept, HasType, GetObject
  <2> QED
    BY <1>2, <1>5, <2>2 DEF UpdateDone
<1>6. ASSUME ProcessListenerEvent PROVE Quiet
  <2>1. PICK s \in {0} \cup backlog : objects' = [objects EXCEPT ![NextToken] = NewConnection(s)]
    BY <1>6 DEF ProcessListenerEvent
  <2>2. \A o \in Token : objects'[o] = NewConnection(s) \/ objects'[o] = objects[o]
    BY <2>1 DEF TypeOK
  <2>3. NewConnection(s).type = "Connection"
    BY DEF NewConnection, NoneObject
  <2>4. \A o \in Token : SessionKept(o)
    BY <1>1, <2>2, <2>3 DEF SessionKept, HasType, GetObject
  <2> QED
    BY <1>2, <1>6, <2>4 DEF ProcessListenerEvent
<1>7. ASSUME NEW t \in Token, ConnectionFailed(t) PROVE Quiet
  BY <1>4, <1>7 DEF ConnectionFailed, TypeOK, SessionKept, HasType, GetObject
<1>8. ASSUME NEW t \in Token, DoPostHandshakeAuth(t) PROVE Quiet
  <2>1. objects'[t] = [NoneObject EXCEPT !.type = "AuthConnection", !.open = TRUE]
    BY <1>8 DEF DoPostHandshakeAuth, TypeOK
  <2>2. SessionKept(t)
    BY <2>1 DEF NoneObject, SessionKept
  <2> QED
    BY <1>4, <1>8, <2>2 DEF DoPostHandshakeAuth, TypeOK
<1>9. ASSUME NEW t \in Token, NEW a \in Accounts, NEW c \in Characters \cup {NULL},
             NEW s \in ServerId, NEW p \in PlayerToken, DoPostHandshakeGame(t, a, c, s, p)
      PROVE  Quiet
  <2>1. NoHolder
    BY <1>9 DEF DoPostHandshakeGame
  <2>2. CASE Same
    BY <1>3, <2>1, <2>2
  <2>3. CASE objects' = [objects EXCEPT ![t] = NULL]
    BY <1>4, <2>1, <2>3 DEF TypeOK, SessionKept, HasType, GetObject
  <2> QED
    BY <1>9, <2>2, <2>3 DEF DoPostHandshakeGame
<1>10. ASSUME NEW t \in Token, DoPostHandshakeCtrl(t) PROVE Quiet
  <2>1. NoHolder /\ objects[t].peer \in 0..MaxServer
    BY <1>10, HandshakeCtrl DEF DoPostHandshakeCtrl, IoObject
  <2>2. CASE Same
    BY <1>3, <2>1, <2>2
  <2>3. CASE ~Same
    <3>1. PICK received \in Seq(CtrlMsg) :
            objects' = [objects EXCEPT ![t] = NewCtrl(objects[t].peer, received)]
      BY <1>10, <2>3, HandshakeCtrl DEF MakesNoSense
    <3>2. objects'[t] = NewCtrl(objects[t].peer, received)
      BY <3>1 DEF TypeOK
    <3>3. objects'[t].type = "CtrlConnection"
      BY <2>1, <3>2, NewCtrlType
    <3>4. SessionKept(t)
      BY <3>3 DEF SessionKept, HasType, GetObject
    <3> QED
      BY <1>4, <2>1, <3>1, <3>4 DEF TypeOK
  <2> QED
    BY <2>2, <2>3
<1>11. ASSUME NEW t \in Token, BeginAuthEvent(t) PROVE Quiet \/ Closes(t)
  <2>1. HasType(t, "AuthConnection") /\ t \in events /\ objects[t] # NULL
    BY <1>11 DEF BeginAuthEvent, TakeEvent, HasType, GetObject
  <2>2. objects[t].open
    BY <2>1 DEF ClosedIsRemoved, EndsWithRound, HasType, GetObject
  <2> HIDE DEF Quiet
  <2> QED
    BY <1>3, <1>11, <2>1, <2>2 DEF BeginAuthEvent, Closes
<1>12. ASSUME NEW t \in Token PROVE AuthEventFailed(t) \/ FlushFailed(t) => Closes(t)
  BY DEF AuthEventFailed, FlushFailed, Running, Reaches, Closes
<1>13. ASSUME NEW t \in Token, NEW c \in Characters \cup {NULL}, HandleChangePlayCharacter(t, c)
       PROVE  Quiet
  <2>1. objects[t] \in IoObject /\ HasType(t, "AuthConnection")
    BY <1>13, HasTypeObject DEF HandleChangePlayCharacter, TypeOK, Objects
  <2>2. objects'[t] = [objects[t] EXCEPT !.character = c]
    BY <1>13 DEF HandleChangePlayCharacter, TypeOK
  <2>3. /\ objects'[t].connected = objects[t].connected
        /\ objects'[t].account_id = objects[t].account_id
        /\ objects'[t].open = objects[t].open
    BY <2>1, <2>2 DEF IoObject
  <2>4. SessionKept(t)
    BY <2>1, <2>3 DEF SessionKept
  <2> QED
    BY <1>4, <1>13, <2>4 DEF HandleChangePlayCharacter, TypeOK
<1>14. ASSUME NEW t \in Token, BeginCtrlEvent(t) PROVE Quiet
  <2>1. objects[t] \in IoObject /\ objects[t].type = "CtrlConnection" /\ NoHolder
    BY <1>14, CtrlEventReads DEF BeginCtrlEvent
  <2>2. CASE Same
    BY <1>3, <2>1, <2>2
  <2>3. CASE ~Same
    <3>1. PICK received \in Seq(CtrlMsg), lost \in BOOLEAN :
            objects' = [objects EXCEPT ![t] = Receive(objects[t], received, lost)]
      BY <1>14, <2>3, CtrlEventReads DEF MakesNoSense
    <3>2. objects'[t] = Receive(objects[t], received, lost)
      BY <3>1 DEF TypeOK
    <3>3. objects'[t].type = "CtrlConnection"
      BY <2>1, <3>2 DEF Receive, IoObject
    <3>4. SessionKept(t)
      BY <3>3 DEF SessionKept, HasType, GetObject
    <3> QED
      BY <1>4, <2>1, <3>1, <3>4 DEF TypeOK
  <2> QED
    BY <2>2, <2>3
<1>15. ASSUME NEW t \in Token
       PROVE  /\ HandlePlayerLeft(t) => Quiet
              /\ \A d \in Districts, s \in ServerId :
                   HandleRequestGameInstance(t, d, s) \/ RequestCreatesServer(t, d, s)
                     \/ RequestCreationFails(t, d, s) => Quiet
  <2>1. /\ HandlePlayerLeft(t) => Same
        /\ \A d \in Districts, s \in ServerId :
             HandleRequestGameInstance(t, d, s) \/ RequestCreatesServer(t, d, s)
               \/ RequestCreationFails(t, d, s) => Same
    BY DEF HandlePlayerLeft, HandleRequestGameInstance, RequestCreatesServer,
           RequestCreationFails
  <2>2. Same => \A o \in Token : SessionKept(o)
    BY <1>1
  <2> HIDE DEF Same
  <2> QED
    BY <2>1, <2>2, HolderStep
<1> DEFINE Idle == Same /\ NoHolder
<1>16. Poll \/ EventsDone \/ UNCHANGED vars => Idle
  BY DEF Poll, EventsDone, vars
<1>17. GameServers => Idle
  BY DEF GameServers, PlayerJoins, PlayerLeaves, PlayerTravels
<1>18. ASSUME NEW t \in Token
       PROVE  /\ ProcessEventNone(t) \/ ProcessConnectionEvent(t) \/ EndAuthEvent(t) => Idle
              /\ EndCtrlEvent(t) \/ HandleServerReady(t) \/ CancelPlayerTransfer(t) => Idle
              /\ \A s \in ServerId : HandlerStartPlayerTransfer(t, s)
                                      \/ TransferCreatesServer(t, s) => Idle
  BY DEF ProcessEventNone, ProcessConnectionEvent, EndAuthEvent, EndCtrlEvent,
         HandleServerReady, CancelPlayerTransfer, HandlerStartPlayerTransfer,
         TransferCreatesServer
<1>19. Idle => Quiet
  BY <1>3
<1>20. Quiet => SessionChange
  BY DEF SessionChange
<1>21. ASSUME NEW t \in Token
       PROVE  /\ Closes(t) => SessionChange
              /\ \A a \in Accounts, c \in Characters \cup {NULL} :
                   HandlePortalAccountLogin(t, a, c) => SessionChange
  BY DEF SessionChange
<1> HIDE DEF Same, NoHolder, Quiet, Idle
<1> QED
  BY <1>5, <1>6, <1>7, <1>8, <1>9, <1>10, <1>11, <1>12, <1>13, <1>14, <1>15, <1>16, <1>17,
     <1>18, <1>19, <1>20, <1>21
     DEF Next, Thread, Connection, AuthEvent, CtrlEvent

\* Closing a connection makes nobody but its own account lose its holder.
LEMMA OthersKeepHolder ==
  ASSUME TypeOK, NEW t \in Token, CloseAuthConnection(t),
         NEW a \in Accounts, a # objects[t].account_id
  PROVE  accounts'[a] = accounts[a]
  BY DEF CloseAuthConnection, MarkAccountAuthDisconnected, TypeOK

LEMMA SoleKept ==
  ASSUME \A o \in Token : SessionKept(o), NEW t \in Token, Sole(t)
  PROVE  Sole(t)'
<1>1. ASSUME NEW o \in Token, HasType(o, "AuthConnection")', objects'[o].connected
      PROVE  /\ HasType(o, "AuthConnection") /\ objects[o].connected
             /\ objects'[o].account_id = objects[o].account_id
             /\ objects'[o].open => objects[o].open
  BY <1>1 DEF SessionKept
<1>2. SUFFICES ASSUME HasType(t, "AuthConnection")', objects'[t].connected,
                      NEW u \in Token \ {t}, LoggedIn(u)'
               PROVE  objects'[u].account_id # objects'[t].account_id
  BY DEF Sole
<1>3. /\ HasType(u, "AuthConnection") /\ objects[u].connected /\ objects[u].open
      /\ objects'[u].account_id = objects[u].account_id
  BY <1>1, <1>2 DEF LoggedIn, Reaches
<1> QED
  BY <1>1, <1>2, <1>3 DEF Sole, LoggedIn, Reaches

LEMMA CurrentStep ==
  ASSUME TypeOK, ClosedIsRemoved, Sessions, [Next]_vars, current' # 0
  PROVE  current' \in Token /\ Sole(current')
<1>1. current' \in {0, current} \/ \E t \in Token : t \in events /\ current' = t
  BY BatchStep DEF BatchChange, Polled, Took, BatchKept, Handled, Dispatched, UpdateDone,
                   dispatchVars
<1>2. CASE current' \in {0, current}
  BY <1>2 DEF Sessions, CurrentIsSole, TypeOK, Token
<1>3. ASSUME NEW t \in Token, t \in events PROVE Sole(t)
  <2>1. CASE HasType(t, "AuthConnection")
    <3>1. objects[t].open
      BY <1>3, <2>1 DEF ClosedIsRemoved, EndsWithRound, HasType, GetObject
    <3> QED
      BY <2>1, <3>1, OpenIsSole DEF Sessions
  <2>2. CASE ~HasType(t, "AuthConnection")
    BY <2>2 DEF Sole
  <2> QED
    BY <2>1, <2>2
<1> QED
  BY <1>1, <1>2, <1>3

LEMMA SessionsKept ==
  ASSUME TypeOK, ClosedIsRemoved, Sessions, [Next]_vars, \A o \in Token : SessionKept(o)
  PROVE  ConnectedHasAccount' /\ CurrentIsSole'
<1>1. ConnectedHasAccount'
  BY DEF Sessions, ConnectedHasAccount, SessionKept
<1>2. ASSUME current' # 0 PROVE Sole(current)'
  <2>1. PICK t \in Token : t = current' /\ Sole(t)
    BY <1>2, CurrentStep
  <2>2. Sole(t)'
    BY <2>1, SoleKept
  <2> QED
    BY <2>1, <2>2 DEF Sole, HasType, GetObject, LoggedIn, Reaches
<1> QED
  BY <1>1, <1>2 DEF CurrentIsSole

LEMMA LoginStep ==
  ASSUME "db_error" \notin Allowed, TypeOK, Sessions,
         NEW t \in Token, NEW a \in Accounts, NEW c \in Characters \cup {NULL},
         HandlePortalAccountLogin(t, a, c), TakesOver(t, a), ~UNCHANGED <<objects, accounts>>
  PROVE  Sessions'
<1> DEFINE h == HolderOf(a)
<1>1. /\ HasType(t, "AuthConnection") /\ objects[t] # NULL /\ current = t /\ current' = t /\ t # 0
      /\ a # NULL
  BY NullAssumption DEF HandlePortalAccountLogin, Running, dispatchVars, HasType, GetObject, Token
<1>2. /\ \A b \in Accounts \ {a} : accounts'[b] = accounts[b]
      /\ h # t => accounts'[a] # NULL /\ accounts'[a].auth_conn_token = t
  <2> DEFINE token == IF h = t THEN 0 ELSE t
             entry == IF accounts[a] = NULL THEN AddConnectedAccount(token)
                      ELSE [accounts[a] EXCEPT !.auth_conn_token = token]
  <2>1. accounts' = [accounts EXCEPT ![a] = entry] \/ UNCHANGED <<objects, accounts>>
    BY DEF HandlePortalAccountLogin, HolderOf
  <2>2. token \in 0..MaxToken
    BY BoundsAssumption DEF Token
  <2>3. entry \in GlobalAccountRegistry /\ entry.auth_conn_token = token
    <3> HIDE DEF token
    <3>1. CASE accounts[a] = NULL
      <4>1. 0 \in 0..MaxServer /\ 0 \in 0..MaxPlayerToken
        BY BoundsAssumption
      <4> QED
        BY <2>2, <3>1, <4>1 DEF AddConnectedAccount, GlobalAccountRegistry
    <3>2. CASE accounts[a] # NULL
      <4>1. accounts[a] \in GlobalAccountRegistry
        BY <3>2 DEF TypeOK
      <4> QED
        BY <2>2, <3>2, <4>1 DEF GlobalAccountRegistry
    <3> QED
      BY <3>1, <3>2
  <2> HIDE DEF entry
  <2> QED
    BY <2>1, <2>3, NullAssumption DEF TypeOK
<1>3. ASSUME NEW o \in Token \ {t}, HasType(o, "AuthConnection")'
      PROVE  o # h /\ objects'[o] = objects[o] /\ HasType(o, "AuthConnection")
  <2>1. ~(o = h /\ HasType(o, "AuthConnection"))
    BY <1>3 DEF TakesOver, Wiped, HasType, GetObject
  <2>2. objects'[o] = objects[o]
    BY <2>1 DEF TakesOver
  <2> QED
    BY <1>3, <2>1, <2>2 DEF HasType, GetObject
<1>4. ASSUME NEW o \in Token \ {t}, LoggedIn(o)'
      PROVE  /\ objects'[o] = objects[o] /\ LoggedIn(o)
             /\ objects[o].account_id # a
  <2>1. o # h /\ objects'[o] = objects[o] /\ LoggedIn(o)
    BY <1>3, <1>4 DEF LoggedIn, Reaches, HasType, GetObject
  <2>2. objects[o].account_id # a
    BY <2>1 DEF Sessions, Registered, LoggedIn, HolderOf
  <2> QED
    BY <2>1, <2>2
<1>5. CASE h = t
  <2>1. ~HasType(t, "AuthConnection")'
    BY <1>1, <1>5 DEF TakesOver, Wiped, HasType, GetObject
  <2>2. ConnectedHasAccount' /\ CurrentIsSole'
    BY <1>1, <1>3, <2>1 DEF Sessions, ConnectedHasAccount, CurrentIsSole, Sole
  <2>3. ASSUME NEW o \in Token, LoggedIn(o)'
        PROVE  /\ accounts'[objects'[o].account_id] # NULL
               /\ accounts'[objects'[o].account_id].auth_conn_token = o
    <3>1. o # t
      BY <2>1, <2>3 DEF LoggedIn, Reaches
    <3>2. objects[o].account_id \in Accounts \ {a}
      BY <1>4, <2>3, <3>1 DEF LoggedIn, Reaches, Sessions, ConnectedHasAccount, HasType,
                              GetObject, TypeOK, IoObject
    <3> QED
      BY <1>2, <1>4, <2>3, <3>1, <3>2 DEF Sessions, Registered, LoggedIn
  <2> QED
    BY <2>2, <2>3 DEF Sessions, Registered, LoggedIn
<1>6. CASE h # t
  <2>1. objects'[t].connected /\ objects'[t].account_id = a
    BY <1>6 DEF TakesOver
  <2>2. ConnectedHasAccount'
    BY <1>1, <1>3, <2>1 DEF Sessions, ConnectedHasAccount
  <2>3. CurrentIsSole'
    BY <1>1, <1>4, <2>1 DEF CurrentIsSole, Sole
  <2>4. ASSUME NEW o \in Token, LoggedIn(o)'
        PROVE  /\ accounts'[objects'[o].account_id] # NULL
               /\ accounts'[objects'[o].account_id].auth_conn_token = o
    <3>1. CASE o = t
      BY <1>2, <1>6, <2>1, <3>1
    <3>2. CASE o # t
      <4>1. objects[o].account_id \in Accounts \ {a}
        BY <1>4, <2>4, <3>2 DEF LoggedIn, Reaches, Sessions, ConnectedHasAccount, HasType,
                                GetObject, TypeOK, IoObject
      <4> QED
        BY <1>2, <1>4, <2>4, <3>2, <4>1 DEF Sessions, Registered, LoggedIn
    <3> QED
      BY <3>1, <3>2
  <2> QED
    BY <2>2, <2>3, <2>4 DEF Sessions, Registered, LoggedIn
<1> QED
  BY <1>5, <1>6

LEMMA SessionsStep ==
  ASSUME "db_error" \notin Allowed, TypeOK, ClosedIsRemoved, Sessions, [Next]_vars
  PROVE  Sessions'
<1>1. ASSUME \A o \in Token : SessionKept(o), NEW o \in Token, LoggedIn(o)'
      PROVE  /\ LoggedIn(o) /\ objects'[o].account_id = objects[o].account_id
             /\ objects[o].account_id \in Accounts
             /\ accounts[objects[o].account_id] # NULL
             /\ accounts[objects[o].account_id].auth_conn_token = o
  <2>1. LoggedIn(o) /\ objects'[o].account_id = objects[o].account_id
    BY <1>1 DEF SessionKept, LoggedIn, Reaches
  <2>2. objects[o].account_id \in Accounts
    BY <2>1 DEF LoggedIn, Reaches, Sessions, ConnectedHasAccount, HasType, GetObject,
                TypeOK, IoObject
  <2> QED
    BY <2>1, <2>2 DEF Sessions, Registered, LoggedIn
<1>2. ASSUME \A o \in Token : SessionKept(o), \A a \in Accounts : HolderKept(a)
      PROVE  Sessions'
  <2>1. ConnectedHasAccount' /\ CurrentIsSole'
    BY <1>2, SessionsKept
  <2>2. ASSUME NEW o \in Token, LoggedIn(o)'
        PROVE  /\ accounts'[objects'[o].account_id] # NULL
               /\ accounts'[objects'[o].account_id].auth_conn_token = o
    <3>1. o # 0
      BY DEF Token
    <3> QED
      BY <1>1, <1>2, <2>2, <3>1 DEF HolderKept
  <2> QED
    BY <2>1, <2>2 DEF Sessions, Registered, LoggedIn
<1>3. ASSUME NEW t \in Token, Closes(t) PROVE Sessions'
  <2>1. Sole(t)
    BY <1>3, OpenIsSole DEF Closes, Sessions, CurrentIsSole, Token
  <2>2. /\ \A o \in Token \ {t} : objects'[o] = objects[o]
        /\ HasType(t, "AuthConnection") /\ ~objects'[t].open
        /\ objects'[t].connected = objects[t].connected
        /\ objects'[t].account_id = objects[t].account_id
    BY <1>3, CloseRemoves DEF Closes
  <2>3. \A o \in Token : SessionKept(o)
    BY <2>2 DEF SessionKept, HasType, GetObject
  <2>4. ConnectedHasAccount' /\ CurrentIsSole'
    BY <2>3, SessionsKept
  <2>5. ASSUME NEW o \in Token, LoggedIn(o)'
        PROVE  /\ accounts'[objects'[o].account_id] # NULL
               /\ accounts'[objects'[o].account_id].auth_conn_token = o
    <3>1. /\ LoggedIn(o) /\ objects'[o].account_id = objects[o].account_id
          /\ objects[o].account_id \in Accounts
          /\ accounts[objects[o].account_id] # NULL
          /\ accounts[objects[o].account_id].auth_conn_token = o
      BY <1>1, <2>3, <2>5
    <3>2. o # t
      BY <2>2, <2>5 DEF LoggedIn, Reaches
    <3>3. objects[o].account_id # objects[t].account_id
      <4>1. CASE objects[t].connected
        BY <2>1, <2>2, <3>1, <3>2, <4>1 DEF Sole
      <4>2. CASE ~objects[t].connected
        BY <2>2, <3>1, <4>2, NullAssumption DEF Sessions, ConnectedHasAccount
      <4> QED
        BY <4>1, <4>2
    <3>4. accounts'[objects[o].account_id] = accounts[objects[o].account_id]
      BY <1>3, <3>1, <3>3, OthersKeepHolder DEF Closes
    <3> QED
      BY <3>1, <3>4
  <2> QED
    BY <2>4, <2>5 DEF Sessions, Registered, LoggedIn
<1>4. ASSUME NEW t \in Token, NEW a \in Accounts, NEW c \in Characters \cup {NULL},
             HandlePortalAccountLogin(t, a, c)
      PROVE  Sessions'
  <2>1. CASE TakesOver(t, a) /\ ~UNCHANGED <<objects, accounts>>
    BY <1>4, <2>1, LoginStep
  <2>2. CASE UNCHANGED <<objects, accounts>>
    <3>1. \A o \in Token : SessionKept(o)
      BY <2>2 DEF SessionKept, HasType, GetObject
    <3>2. \A b \in Accounts : HolderKept(b)
      BY <2>2 DEF HolderKept
    <3> QED
      BY <1>2, <3>1, <3>2
  <2> QED
    BY <1>4, <2>1, <2>2, LoginTakesOver
<1> QED
  BY <1>2, <1>3, <1>4, SessionStep DEF SessionChange

-----------------------------------------------------------------------------
(* The game servers.  A step leaves a server alone or is one of its steps. *)

Untouched(s) == /\ to_game[s] = <<>> /\ to_auth[s] = <<>>
                /\ playing[s] = [a \in Accounts |-> 0]

\* Nothing is written to or by a server before it is in the registry.
UnknownIsUntouched == \A s \in ServerId : games[s] = NULL => Untouched(s)

LeftAlone(s) == /\ to_game'[s] = to_game[s] /\ to_auth'[s] = to_auth[s]
                /\ playing'[s] = playing[s]

Starts(s) ==
  /\ games[s] = NULL /\ games'[s] # NULL
  /\ to_auth'[s] = <<Ready(s)>>
  /\ to_game'[s] = to_game[s] /\ playing'[s] = playing[s]

GetsAccount(s) ==
  /\ games[s] # NULL
  /\ \E m \in TransferConnection : to_game'[s] = Append(to_game[s], m)
  /\ to_auth'[s] = to_auth[s] /\ playing'[s] = playing[s]

IsRead(s) ==
  /\ games[s] # NULL
  /\ \E n \in 0..Len(to_auth[s]) : to_auth'[s] = SubSeq(to_auth[s], n + 1, Len(to_auth[s]))
  /\ to_game'[s] = to_game[s] /\ playing'[s] = playing[s]

LetsIn(s) ==
  /\ to_game[s] # <<>>
  /\ to_game'[s] = Tail(to_game[s])
  /\ playing'[s] = [playing[s] EXCEPT ![Head(to_game[s]).account_id] = @ + 1]
  /\ to_auth'[s] = to_auth[s]

LetsGo(s) ==
  \E a \in Accounts :
    /\ playing[s][a] > 0
    /\ playing'[s] = [playing[s] EXCEPT ![a] = @ - 1]
    /\ to_auth'[s] = Append(to_auth[s], Request("PlayerLeft", a, NULL))
    /\ to_game'[s] = to_game[s]

SendsOn(s) ==
  \E a \in Accounts, d \in Districts :
    /\ playing[s][a] > 0
    /\ to_auth'[s] = Append(to_auth[s], Request("StartPlayerTransfer", a, d))
    /\ to_game'[s] = to_game[s] /\ playing'[s] = playing[s]

ServerChange(s) ==
  \/ LeftAlone(s)
  \/ Starts(s)
  \/ GetsAccount(s)
  \/ IsRead(s)
  \/ LetsIn(s)
  \/ LetsGo(s)
  \/ SendsOn(s)

LEMMA CreateServerChanges ==
  ASSUME TypeOK, NEW r \in ServerId, NEW metadata, metadata # NULL, NEW started \in BOOLEAN,
         CreateServer(r, metadata, started), UNCHANGED <<to_game, playing>>,
         NEW s \in ServerId
  PROVE  ServerChange(s)
<1>1. games'[r] # NULL /\ games[r] = NULL /\ (s # r => games'[s] = games[s])
  BY DEF CreateServer, TypeOK
<1>2. CASE started /\ s = r
  BY <1>1, <1>2 DEF CreateServer, TypeOK, ServerChange, Starts
<1>3. CASE ~(started /\ s = r)
  <2>1. to_auth'[s] = to_auth[s]
    BY <1>3 DEF CreateServer, TypeOK
  <2> QED
    BY <1>1, <2>1 DEF ServerChange, LeftAlone
<1> QED
  BY <1>2, <1>3

LEMMA MetadataIsEntry ==
  ASSUME NEW d \in Districts
  PROVE  /\ NewMetadata(d) # NULL
         /\ \A type \in {"Auth", "Game"}, t \in Token, p \in PlayerToken :
              QueueTransfer(NewMetadata(d), type, t, p) # NULL
  BY NewMetadataType, QueueTransferType, NullAssumption

LEMMA ServerStep ==
  ASSUME TypeOK, PeerIsKnown, [Next]_vars, NEW s \in ServerId
  PROVE  ServerChange(s)
<1> USE DEF counters, registries, batchVars, dispatchVars, threadVars, envVars,
            historyVars, worldVars
<1> DEFINE Same == UNCHANGED <<to_auth, to_game, playing>>
<1>1. Same => ServerChange(s)
  BY DEF ServerChange, LeftAlone
<1>2. ASSUME NEW t \in Token, NEW a \in Accounts, NEW c \in Characters \cup {NULL},
             NEW r \in ServerId, NEW p \in PlayerToken, DoPostHandshakeGame(t, a, c, r, p)
      PROVE  ServerChange(s)
  <2> DEFINE m == [account_id |-> a, player_token |-> p]
             q == objects[games[r].ctrl_conn].peer
  <2>1. UNCHANGED <<games, to_auth, playing>>
    BY <1>2 DEF DoPostHandshakeGame
  <2>2. \/ to_game' = to_game
        \/ /\ Admitted(a, c, r, p) /\ q # 0
           /\ to_game' = [to_game EXCEPT ![q] = Append(@, m)]
    BY <1>2 DEF DoPostHandshakeGame
  <2>3. CASE to_game'[s] = to_game[s]
    BY <2>1, <2>3 DEF ServerChange, LeftAlone
  <2>4. CASE to_game'[s] # to_game[s]
    <3>1. Admitted(a, c, r, p) /\ q = s /\ s # 0
      BY <2>2, <2>4 DEF TypeOK
    <3>2. games[s] # NULL
      BY <3>1, HasTypeObject, NullAssumption DEF Admitted, PeerIsKnown, TypeOK, Objects
    <3>3. to_game'[s] = Append(to_game[s], m)
      BY <2>2, <2>4, <3>1 DEF TypeOK
    <3>4. m \in TransferConnection
      BY DEF TransferConnection
    <3> HIDE DEF m
    <3> QED
      BY <2>1, <3>2, <3>3, <3>4 DEF ServerChange, GetsAccount
  <2> QED
    BY <2>3, <2>4
<1>3. ASSUME NEW r \in ServerId, games[r] # NULL, NEW n \in 0..Len(to_auth[r]),
             to_auth' = [to_auth EXCEPT ![r] = SubSeq(@, n + 1, Len(@))],
             UNCHANGED <<games, to_game, playing>>
      PROVE  ServerChange(s)
  <2>1. CASE s = r
    BY <1>3, <2>1 DEF TypeOK, ServerChange, IsRead
  <2>2. CASE s # r
    BY <1>3, <2>2 DEF TypeOK, ServerChange, LeftAlone
  <2> QED
    BY <2>1, <2>2
<1>4. ASSUME NEW t \in Token, objects[t] \in IoObject, NEW received,
             Comes(objects[t].peer, received), UNCHANGED <<games, to_game, playing>>
      PROVE  ServerChange(s)
  <2>1. CASE objects[t].peer = 0
    BY <1>1, <1>4, <2>1 DEF Comes
  <2>2. CASE objects[t].peer # 0
    <3>1. objects[t].peer \in ServerId /\ games[objects[t].peer] # NULL
      BY <1>4, <2>2, NullAssumption DEF Comes, PeerIsKnown
    <3>2. \E n \in 0..Len(to_auth[objects[t].peer]) :
            to_auth' = [to_auth EXCEPT ![objects[t].peer] = SubSeq(@, n + 1, Len(@))]
      BY <1>4, <2>2 DEF Comes
    <3> QED
      BY <1>3, <1>4, <3>1, <3>2
  <2> QED
    BY <2>1, <2>2
<1>5. ASSUME NEW t \in Token, DoPostHandshakeCtrl(t) PROVE ServerChange(s)
  <2>1. UNCHANGED <<games, to_game, playing>>
    BY <1>5 DEF DoPostHandshakeCtrl
  <2>2. CASE MakesNoSense(objects[t].peer)
    BY <1>1, <2>1, <2>2 DEF MakesNoSense
  <2>3. CASE ~MakesNoSense(objects[t].peer)
    BY <1>4, <1>5, <2>1, <2>3, HandshakeCtrl
  <2> QED
    BY <2>2, <2>3
<1>6. ASSUME NEW t \in Token, BeginCtrlEvent(t) PROVE ServerChange(s)
  <2>1. UNCHANGED <<games, to_game, playing>>
    BY <1>6 DEF BeginCtrlEvent
  <2>2. CASE MakesNoSense(objects[t].peer)
    BY <1>1, <2>1, <2>2 DEF MakesNoSense
  <2>3. CASE ~MakesNoSense(objects[t].peer)
    BY <1>4, <1>6, <2>1, <2>3, CtrlEventReads
  <2> QED
    BY <2>2, <2>3
<1>7. ASSUME NEW t \in Token, NEW d \in Districts, NEW r \in ServerId,
              RequestCreatesServer(t, d, r)
       PROVE  ServerChange(s)
  <2>1. last_player_token' \in PlayerToken
    BY <1>7, BoundsAssumption DEF RequestCreatesServer, TypeOK, DrawPlayerToken, PlayerToken
  <2> DEFINE entry == QueueTransfer(NewMetadata(d), "Auth", t, last_player_token')
  <2>2. entry # NULL
    BY <2>1, MetadataIsEntry
  <2>3. CreateServer(r, entry, TRUE) /\ UNCHANGED <<to_game, playing>>
    BY <1>7 DEF RequestCreatesServer
  <2> HIDE DEF entry
  <2> QED
    BY <2>2, <2>3, CreateServerChanges
<1>8. ASSUME NEW t \in Token, NEW r \in ServerId, TransferCreatesServer(t, r)
       PROVE  ServerChange(s)
  <2>1. last_player_token' \in PlayerToken
    BY <1>8, BoundsAssumption DEF TransferCreatesServer, TypeOK, DrawPlayerToken, PlayerToken
  <2> DEFINE d     == objects[t].messages[msg_idx].district
             entry == QueueTransfer(NewMetadata(d), "Game", t, last_player_token')
  <2>2. d \in Districts
    BY <1>8, HandlesType DEF TransferCreatesServer, CtrlMsg
  <2>3. CreateServer(r, entry, TRUE) /\ UNCHANGED <<to_game, playing>>
    BY <1>8 DEF TransferCreatesServer
  <2> HIDE DEF d
  <2>4. entry # NULL
    BY <2>1, <2>2, MetadataIsEntry
  <2> HIDE DEF entry
  <2> QED
    BY <2>3, <2>4, CreateServerChanges
<1>9. ASSUME NEW t \in Token, NEW d \in Districts, NEW r \in ServerId,
              RequestCreationFails(t, d, r)
       PROVE  ServerChange(s)
  <2>1. CreateServer(r, NewMetadata(d), FALSE) /\ UNCHANGED <<to_game, playing>>
    BY <1>9 DEF RequestCreationFails
  <2> QED
    BY <2>1, MetadataIsEntry, CreateServerChanges
<1>10. ASSUME NEW t \in Token, CancelPlayerTransfer(t) PROVE ServerChange(s)
  <2> DEFINE d == objects[t].messages[msg_idx].district
  <2>1. d \in Districts
    BY <1>10, HandlesType DEF CancelPlayerTransfer, CtrlMsg
  <2>2. \/ UNCHANGED to_auth
        \/ \E r \in ServerId : CreateServer(r, NewMetadata(d), FALSE)
    BY <1>10 DEF CancelPlayerTransfer
  <2>3. UNCHANGED <<to_game, playing>>
    BY <1>10 DEF CancelPlayerTransfer
  <2> HIDE DEF d
  <2> QED
    BY <1>1, <2>1, <2>2, <2>3, MetadataIsEntry, CreateServerChanges
<1>11. ASSUME NEW r \in ServerId, PlayerJoins(r) PROVE ServerChange(s)
  <2>1. UNCHANGED <<games, to_auth>>
    BY <1>11 DEF PlayerJoins
  <2>2. CASE s = r
    BY <1>11, <2>1, <2>2 DEF PlayerJoins, TypeOK, ServerChange, LetsIn
  <2>3. CASE s # r
    BY <1>11, <2>1, <2>3 DEF PlayerJoins, TypeOK, ServerChange, LeftAlone
  <2> QED
    BY <2>2, <2>3
<1>12. ASSUME NEW r \in ServerId, NEW a \in Accounts, PlayerLeaves(r, a) PROVE ServerChange(s)
  <2>1. UNCHANGED <<games, to_game>>
    BY <1>12 DEF PlayerLeaves
  <2>2. CASE s = r
    BY <1>12, <2>1, <2>2 DEF PlayerLeaves, TypeOK, ServerChange, LetsGo
  <2>3. CASE s # r
    BY <1>12, <2>1, <2>3 DEF PlayerLeaves, TypeOK, ServerChange, LeftAlone
  <2> QED
    BY <2>2, <2>3
<1>13. ASSUME NEW r \in ServerId, NEW a \in Accounts, NEW d \in Districts, PlayerTravels(r, a, d)
       PROVE  ServerChange(s)
  <2>1. UNCHANGED <<games, to_game, playing>>
    BY <1>13 DEF PlayerTravels
  <2>2. CASE s = r
    BY <1>13, <2>1, <2>2 DEF PlayerTravels, TypeOK, ServerChange, SendsOn
  <2>3. CASE s # r
    BY <1>13, <2>1, <2>3 DEF PlayerTravels, TypeOK, ServerChange, LeftAlone
  <2> QED
    BY <2>2, <2>3
<1>14. Poll \/ EventsDone \/ UpdateDone \/ ProcessListenerEvent => Same
  <2>1. Poll => Same
    BY DEF Poll
  <2>2. EventsDone => Same
    BY DEF EventsDone
  <2>3. UpdateDone => Same
    BY DEF UpdateDone
  <2>4. ProcessListenerEvent => Same
    BY DEF ProcessListenerEvent
  <2> QED
    BY <2>1, <2>2, <2>3, <2>4
<1>15. ASSUME NEW t \in Token
       PROVE  /\ ProcessEventNone(t) \/ ProcessConnectionEvent(t) \/ ConnectionFailed(t) => Same
              /\ DoPostHandshakeAuth(t) => Same
  BY DEF ProcessEventNone, ProcessConnectionEvent, ConnectionFailed, DoPostHandshakeAuth
<1>16. ASSUME NEW t \in Token
       PROVE  /\ BeginAuthEvent(t) \/ AuthEventFailed(t) \/ EndAuthEvent(t) => Same
              /\ \A a \in Accounts, c \in Characters \cup {NULL} :
                   HandlePortalAccountLogin(t, a, c) => Same
              /\ \A c \in Characters \cup {NULL} : HandleChangePlayCharacter(t, c) => Same
  <2>1. BeginAuthEvent(t) => Same
    BY DEF BeginAuthEvent
  <2>2. AuthEventFailed(t) \/ EndAuthEvent(t) => Same
    BY DEF AuthEventFailed, EndAuthEvent
  <2>3. \A a \in Accounts, c \in Characters \cup {NULL} : HandlePortalAccountLogin(t, a, c) => Same
    BY DEF HandlePortalAccountLogin
  <2>4. \A c \in Characters \cup {NULL} : HandleChangePlayCharacter(t, c) => Same
    BY DEF HandleChangePlayCharacter
  <2> QED
    BY <2>1, <2>2, <2>3, <2>4
<1>17. ASSUME NEW t \in Token
       PROVE  /\ EndCtrlEvent(t) \/ HandlePlayerLeft(t) \/ FlushFailed(t) => Same
              /\ HandleServerReady(t) => Same
              /\ \A r \in ServerId : HandlerStartPlayerTransfer(t, r) => Same
              /\ \A d \in Districts, r \in ServerId : HandleRequestGameInstance(t, d, r) => Same
  <2>1. EndCtrlEvent(t) \/ HandlePlayerLeft(t) \/ FlushFailed(t) => Same
    BY DEF EndCtrlEvent, HandlePlayerLeft, FlushFailed
  <2>2. HandleServerReady(t) => Same
    BY DEF HandleServerReady
  <2>3. \A r \in ServerId : HandlerStartPlayerTransfer(t, r) => Same
    BY DEF HandlerStartPlayerTransfer
  <2>4. \A d \in Districts, r \in ServerId : HandleRequestGameInstance(t, d, r) => Same
    BY DEF HandleRequestGameInstance
  <2> QED
    BY <2>1, <2>2, <2>3, <2>4
<1>18. UNCHANGED vars => Same
  BY DEF vars
<1> HIDE DEF Same
<1>19. GameServers => ServerChange(s)
  BY <1>11, <1>12, <1>13 DEF GameServers
<1>20. Connection => ServerChange(s)
  BY <1>1, <1>2, <1>5, <1>14, <1>15 DEF Connection
<1>21. ASSUME NEW t \in Token PROVE AuthEvent(t) => ServerChange(s)
  BY <1>1, <1>7, <1>9, <1>16, <1>17 DEF AuthEvent
<1>22. ASSUME NEW t \in Token PROVE CtrlEvent(t) => ServerChange(s)
  BY <1>1, <1>6, <1>8, <1>10, <1>17 DEF CtrlEvent
<1> QED
  BY <1>1, <1>14, <1>15, <1>17, <1>18, <1>19, <1>20, <1>21, <1>22 DEF Next, Thread

LEMMA KnownStaysKnown ==
  ASSUME TypeOK, PeerIsKnown, [Next]_vars, NEW s \in ServerId, games[s] # NULL
  PROVE  games'[s] # NULL
<1>1. CASE GamesKept
  BY <1>1 DEF GamesKept
<1>2. ASSUME NEW r \in ServerId, NEW d \in Districts, CreatedServer(r, d) PROVE games'[s] # NULL
  BY <1>2, CreatedEntry, NullAssumption
<1>3. ASSUME NEW r \in ServerId, QueuedOn(r) PROVE games'[s] # NULL
  BY <1>3, QueuedEntry, NullAssumption
<1>4. ASSUME NEW r \in ServerId, NEW t \in Token, Announced(r, t) PROVE games'[s] # NULL
  BY <1>4, AnnouncedEntry, NullAssumption
<1> QED
  BY <1>1, <1>2, <1>3, <1>4, RegistryStep DEF RegistryChange

LEMMA UntouchedStep ==
  TypeOK /\ PeerIsKnown /\ UnknownIsUntouched /\ [Next]_vars => UnknownIsUntouched'
<1> SUFFICES ASSUME TypeOK, PeerIsKnown, UnknownIsUntouched, [Next]_vars,
                    NEW s \in ServerId, games'[s] = NULL
             PROVE  Untouched(s)'
  BY DEF UnknownIsUntouched
<1>1. ServerChange(s)
  BY ServerStep
<1>2. games[s] = NULL => Untouched(s)
  BY DEF UnknownIsUntouched
<1>3. \A a \in Accounts : games[s] = NULL => playing[s][a] = 0
  BY <1>2 DEF Untouched
<1>4. games[s] = NULL
  BY KnownStaysKnown
<1>5. LeftAlone(s)
  <2>1. ~Starts(s) /\ ~GetsAccount(s) /\ ~IsRead(s)
    BY <1>4 DEF Starts, GetsAccount, IsRead
  <2>2. ~LetsIn(s)
    BY <1>2, <1>4 DEF LetsIn, Untouched
  <2>3. ~LetsGo(s) /\ ~SendsOn(s)
    <3>1. \A a \in Accounts : ~(playing[s][a] > 0)
      BY <1>3, <1>4
    <3> QED
      BY <3>1 DEF LetsGo, SendsOn
  <2> QED
    BY <1>1, <2>1, <2>2, <2>3 DEF ServerChange
<1> QED
  BY <1>2, <1>4, <1>5 DEF LeftAlone, Untouched

-----------------------------------------------------------------------------
(* What the abstract server sees of a queue *)

AccountsOf(q) == [i \in DOMAIN q |-> q[i].account_id]
MessagesOf(q) == [i \in DOMAIN q |-> [msg_id     |-> q[i].msg_id,
                                      account_id |-> q[i].account_id]]

Seen(m) == [msg_id |-> m.msg_id, account_id |-> m.account_id]

AccountOf == [m \in TransferConnection |-> m.account_id]
MessageOf == [m \in CtrlMsg |-> Seen(m)]

SeenMsg == [msg_id     : {"ServerReady", "PlayerLeft", "StartPlayerTransfer"},
            account_id : Accounts \cup {NULL}]

LEMMA AccountsOfMapped ==
  /\ Maps(AccountOf, TransferConnection, Accounts)
  /\ \A q \in Seq(TransferConnection) : AccountsOf(q) = Mapped(AccountOf, q)
<1>1. \A m \in TransferConnection : AccountOf[m] = m.account_id /\ m.account_id \in Accounts
  BY DEF AccountOf, TransferConnection
<1>2. ASSUME NEW q \in Seq(TransferConnection) PROVE AccountsOf(q) = Mapped(AccountOf, q)
  <2>1. \A i \in DOMAIN q : q[i] \in TransferConnection
    BY LenProperties, ElementOfSeq
  <2> QED
    BY <1>1, <2>1 DEF AccountsOf, Mapped
<1> QED
  BY <1>1, <1>2 DEF Maps

LEMMA MessagesOfMapped ==
  /\ Maps(MessageOf, CtrlMsg, SeenMsg)
  /\ \A q \in Seq(CtrlMsg) : MessagesOf(q) = Mapped(MessageOf, q)
<1>1. \A m \in CtrlMsg : Seen(m) \in SeenMsg
  BY DEF Seen, CtrlMsg, SeenMsg
<1>2. \A m \in CtrlMsg : MessageOf[m] = Seen(m)
  BY DEF MessageOf
<1>3. ASSUME NEW q \in Seq(CtrlMsg) PROVE MessagesOf(q) = Mapped(MessageOf, q)
  <2>1. \A i \in DOMAIN q : q[i] \in CtrlMsg
    BY LenProperties, ElementOfSeq
  <2>2. MessagesOf(q) = [i \in DOMAIN q |-> Seen(q[i])]
    BY DEF MessagesOf, Seen
  <2> QED
    BY <1>2, <2>1, <2>2 DEF Mapped
<1> QED
  BY <1>1, <1>2, <1>3 DEF Maps

LEMMA NothingSeen == AccountsOf(<<>>) = <<>> /\ MessagesOf(<<>>) = <<>>
  BY DEF AccountsOf, MessagesOf

LEMMA AccountsOfAppended ==
  ASSUME NEW q \in Seq(TransferConnection), NEW m \in TransferConnection
  PROVE  AccountsOf(Append(q, m)) = Append(AccountsOf(q), m.account_id)
<1>1. Append(q, m) \in Seq(TransferConnection)
  OBVIOUS
<1>2. Mapped(AccountOf, Append(q, m)) = Append(Mapped(AccountOf, q), AccountOf[m])
  BY AccountsOfMapped, MappedAppended
<1> QED
  BY <1>1, <1>2, AccountsOfMapped DEF AccountOf

LEMMA AccountsOfTail ==
  ASSUME NEW q \in Seq(TransferConnection), q # <<>>
  PROVE  /\ AccountsOf(q) # <<>> /\ Head(AccountsOf(q)) = Head(q).account_id
         /\ AccountsOf(Tail(q)) = Tail(AccountsOf(q))
<1>1. Tail(q) \in Seq(TransferConnection) /\ Head(q) \in TransferConnection
  BY HeadTailProperties
<1>2. /\ Mapped(AccountOf, q) # <<>> /\ Head(Mapped(AccountOf, q)) = AccountOf[Head(q)]
      /\ Mapped(AccountOf, Tail(q)) = Tail(Mapped(AccountOf, q))
  BY AccountsOfMapped, MappedTail
<1> QED
  BY <1>1, <1>2, AccountsOfMapped DEF AccountOf

LEMMA MessagesOfAppended ==
  ASSUME NEW q \in Seq(CtrlMsg), NEW m \in CtrlMsg
  PROVE  MessagesOf(Append(q, m)) = Append(MessagesOf(q), Seen(m))
<1>1. Append(q, m) \in Seq(CtrlMsg)
  OBVIOUS
<1>2. Mapped(MessageOf, Append(q, m)) = Append(Mapped(MessageOf, q), MessageOf[m])
  BY MessagesOfMapped, MappedAppended
<1> QED
  BY <1>1, <1>2, MessagesOfMapped DEF MessageOf

LEMMA MessagesOfPart ==
  ASSUME NEW q \in Seq(CtrlMsg), NEW n \in 0..Len(q)
  PROVE  /\ Len(MessagesOf(q)) = Len(q)
         /\ MessagesOf(SubSeq(q, n + 1, Len(q))) = SubSeq(MessagesOf(q), n + 1, Len(q))
<1>1. Len(q) \in Nat
  OBVIOUS
<1>2. PartOf(q, n + 1, Len(q))
  BY <1>1 DEF PartOf
<1>3. Mapped(MessageOf, SubSeq(q, n + 1, Len(q)))
        = SubSeq(Mapped(MessageOf, q), n + 1, Len(q))
  BY <1>2, MessagesOfMapped, MappedPart
<1>4. Len(Mapped(MessageOf, q)) = Len(q)
  BY MappedElements
<1>5. SubSeq(q, n + 1, Len(q)) \in Seq(CtrlMsg)
  BY SubSeqType
<1> QED
  BY <1>3, <1>4, <1>5, MessagesOfMapped

LEMMA MessagesOfStart ==
  \A s : MessagesOf(<<Ready(s)>>) = <<[msg_id |-> "ServerReady", account_id |-> NULL]>>
  BY DEF MessagesOf, Ready

LEMMA ServerImplements ==
  ASSUME TypeOK, UnknownIsUntouched, NEW s \in ServerId, ServerChange(s)
  PROVE  [TheServer(s)!Next]_(TheServer(s)!serverVars)
<1> DEFINE In   == AccountsOf(to_game[s])
           Out  == MessagesOf(to_auth[s])
           In1  == AccountsOf(to_game'[s])
           Out1 == MessagesOf(to_auth'[s])
<1>0. /\ to_game[s] \in Seq(TransferConnection) /\ to_auth[s] \in Seq(CtrlMsg)
      /\ playing[s] \in [Accounts -> Nat]
  BY DEF TypeOK
<1>1. CASE LeftAlone(s)
  BY <1>1 DEF LeftAlone, TheServer!serverVars, AccountsOf, MessagesOf
<1>2. CASE Starts(s)
  <2>1. In = <<>> /\ Out = <<>> /\ playing[s] = [a \in Accounts |-> 0]
    BY <1>2, NothingSeen DEF Starts, UnknownIsUntouched, Untouched
  <2>2. In1 = In /\ playing'[s] = playing[s]
    BY <1>2 DEF Starts
  <2>3. Out1 = <<[msg_id |-> "ServerReady", account_id |-> NULL]>>
    BY <1>2, MessagesOfStart DEF Starts
  <2>4. TheServer(s)!Announce
    BY <2>1, <2>2, <2>3 DEF TheServer!Announce, TheServer!Message, AccountsOf, MessagesOf
  <2> QED
    BY <2>4 DEF TheServer!Next
<1>3. CASE GetsAccount(s)
  <2>1. PICK m \in TransferConnection : to_game'[s] = Append(to_game[s], m)
    BY <1>3 DEF GetsAccount
  <2>2. In1 = Append(In, m.account_id)
    BY <1>0, <2>1, AccountsOfAppended
  <2>3. Out1 = Out /\ playing'[s] = playing[s]
    BY <1>3 DEF GetsAccount
  <2>4. m.account_id \in Accounts
    BY DEF TransferConnection
  <2>5. TheServer(s)!HandOver(m.account_id)
    BY <2>2, <2>3 DEF TheServer!HandOver, AccountsOf, MessagesOf
  <2> QED
    BY <2>4, <2>5 DEF TheServer!Next
<1>4. CASE IsRead(s)
  <2>1. PICK n \in 0..Len(to_auth[s]) : to_auth'[s] = SubSeq(to_auth[s], n + 1, Len(to_auth[s]))
    BY <1>4 DEF IsRead
  <2>2. Len(Out) = Len(to_auth[s]) /\ Out1 = SubSeq(Out, n + 1, Len(Out))
    BY <1>0, <2>1, MessagesOfPart
  <2>3. In1 = In /\ playing'[s] = playing[s]
    BY <1>4 DEF IsRead
  <2>4. CASE n = 0
    <3>1. to_auth'[s] = to_auth[s]
      <4>1. SubSeq(to_auth[s], 1, Len(to_auth[s])) = to_auth[s]
        BY <1>0, SubSeqFull
      <4> QED
        BY <2>1, <2>4, <4>1
    <3> QED
      BY <2>3, <3>1 DEF TheServer!serverVars, AccountsOf, MessagesOf
  <2>5. CASE n # 0
    <3>1. n \in 1..Len(Out)
      BY <1>0, <2>2, <2>5
    <3>2. TheServer(s)!Read(n)
      BY <2>2, <2>3, <3>1 DEF TheServer!Read, AccountsOf, MessagesOf
    <3> QED
      BY <3>1, <3>2 DEF TheServer!Next
  <2> QED
    BY <2>4, <2>5
<1>5. CASE LetsIn(s)
  <2>1. /\ In # <<>> /\ Head(In) = Head(to_game[s]).account_id
        /\ In1 = Tail(In)
    BY <1>0, <1>5, AccountsOfTail DEF LetsIn
  <2>2. /\ playing'[s] = [playing[s] EXCEPT ![Head(In)] = @ + 1]
        /\ Out1 = Out
    BY <1>5, <2>1 DEF LetsIn
  <2>3. TheServer(s)!PlayerJoins
    BY <2>1, <2>2 DEF TheServer!PlayerJoins, AccountsOf, MessagesOf
  <2> QED
    BY <2>3 DEF TheServer!Next
<1>6. CASE LetsGo(s)
  <2>1. PICK a \in Accounts :
          /\ playing[s][a] > 0
          /\ playing'[s] = [playing[s] EXCEPT ![a] = @ - 1]
          /\ to_auth'[s] = Append(to_auth[s], Request("PlayerLeft", a, NULL))
          /\ to_game'[s] = to_game[s]
    BY <1>6 DEF LetsGo
  <2>2. /\ Request("PlayerLeft", a, NULL) \in CtrlMsg
        /\ Seen(Request("PlayerLeft", a, NULL)) = [msg_id |-> "PlayerLeft", account_id |-> a]
    BY RequestType DEF Seen, Request
  <2>3. Out1 = Append(Out, [msg_id |-> "PlayerLeft", account_id |-> a])
    <3>1. to_auth'[s] = Append(to_auth[s], Request("PlayerLeft", a, NULL))
      BY <2>1
    <3> QED
      BY <1>0, <2>2, <3>1, MessagesOfAppended
  <2>4. TheServer(s)!PlayerLeaves(a)
    BY <2>1, <2>3 DEF TheServer!PlayerLeaves, TheServer!Message, AccountsOf, MessagesOf
  <2> QED
    BY <2>4 DEF TheServer!Next
<1>7. CASE SendsOn(s)
  <2>1. PICK a \in Accounts, d \in Districts :
          /\ playing[s][a] > 0
          /\ to_auth'[s] = Append(to_auth[s], Request("StartPlayerTransfer", a, d))
          /\ to_game'[s] = to_game[s] /\ playing'[s] = playing[s]
    BY <1>7 DEF SendsOn
  <2>2. /\ Request("StartPlayerTransfer", a, d) \in CtrlMsg
        /\ Seen(Request("StartPlayerTransfer", a, d))
             = [msg_id |-> "StartPlayerTransfer", account_id |-> a]
    BY RequestType DEF Seen, Request
  <2>3. Out1 = Append(Out, [msg_id |-> "StartPlayerTransfer", account_id |-> a])
    <3>1. to_auth'[s] = Append(to_auth[s], Request("StartPlayerTransfer", a, d))
      BY <2>1
    <3> QED
      BY <1>0, <2>2, <3>1, MessagesOfAppended
  <2>4. TheServer(s)!PlayerTravels(a)
    BY <2>1, <2>3 DEF TheServer!PlayerTravels, TheServer!Message, AccountsOf, MessagesOf
  <2> QED
    BY <2>4 DEF TheServer!Next
<1> QED
  BY <1>1, <1>2, <1>3, <1>4, <1>5, <1>6, <1>7 DEF ServerChange

-----------------------------------------------------------------------------
(* The theorems *)

\* The inductive invariant: the properties, and the parts that make them
\* inductive.
IInv ==
  /\ TypeOK
  /\ PeerIsKnown
  /\ ReadyIsConnected
  /\ NothingWaitsForReady
  /\ OneServerPerDistrict
  /\ TokensInv
  /\ TokensIssued
  /\ ReachedWhereAnnounced
  /\ AssignedIsQueued
  /\ RoundInOrder
  /\ ClosedIsRemoved

LEMMA IInvInit == Init => IInv
<1> SUFFICES ASSUME Init PROVE IInv
  OBVIOUS
<1>1. TypeOK
  BY TypeInit
<1>2. /\ \A t \in Token : objects[t] = NULL
      /\ \A s \in ServerId : games[s] = NULL
      /\ \A a \in Accounts : accounts[a] = NULL
      /\ \A p \in PlayerToken : sent[p] = 0
      /\ backlog = {}
  BY DEF Init
<1>3. PeerIsKnown
  <2>1. \A s \in ServerId : to_auth[s] = <<>>
    BY DEF Init
  <2>2. \A s : NamesOnly(<<>>, s)
    BY DEF NamesOnly, Occurs
  <2> QED
    BY <1>2, <2>1, <2>2 DEF PeerIsKnown
<1>4. ReadyIsConnected /\ NothingWaitsForReady /\ OneServerPerDistrict /\ ReachedWhereAnnounced
  BY <1>2 DEF ReadyIsConnected, NothingWaitsForReady, OneServerPerDistrict,
              ReachedWhereAnnounced
<1>5. TokensInv /\ TokensIssued /\ AssignedIsQueued
  BY <1>2 DEF TokensInv, GivenOutOnce, Waits, TokensIssued, AssignedIsQueued
<1>6. RoundInOrder /\ ClosedIsRemoved
  BY <1>2 DEF Init, RoundInOrder, ClosedIsRemoved
<1> QED
  BY <1>1, <1>3, <1>4, <1>5, <1>6 DEF IInv

LEMMA IInvStep == IInv /\ [Next]_vars => IInv'
  BY TypeStep, PeerStep, ReadyStep, TokensStep, ConnStep, AssignedStep, RoundStep, ClosedStep
     DEF IInv

LEMMA IInvHolds == Spec => []IInv
  BY IInvInit, IInvStep, PTL DEF Spec

LEMMA KnownAnnounces ==
  ASSUME TypeOK, PeerIsKnown
  PROVE  AnnouncesItself
<1>1. ASSUME NEW t \in Token, objects[t] # NULL, objects[t].peer # 0,
             NEW i \in DOMAIN objects[t].messages
      PROVE  objects[t].messages[i].server_id \in {0, objects[t].peer}
  <2>1. objects[t].messages \in Seq(CtrlMsg)
    BY <1>1 DEF TypeOK, IoObject
  <2>2. Occurs(objects[t].messages, objects[t].messages[i])
    BY <1>1, <2>1 DEF Occurs
  <2> QED
    BY <1>1, <2>2 DEF PeerIsKnown, NamesOnly
<1> QED
  BY <1>1 DEF PeerIsKnown, AnnouncesItself

\* The actions never read a record that is not there, and every variable keeps
\* its type.
THEOREM TypeCorrect == Spec => []TypeOK
<1>1. IInv => TypeOK
  BY DEF IInv
<1> QED
  BY <1>1, IInvHolds, PTL

\* AuthSrvCtrl_HandleServerReady uses what it finds for the server that a message
\* names without looking at it.  On the connection of a game server, whatever
\* other connections there are, it finds that server: the connection becomes
\* its own, and no other server's entry changes.
THEOREM ReadyIsHandled ==
  Spec => [][\A t \in Token : HandleServerReady(t) /\ objects[t].peer # 0 =>
               /\ UNCHANGED halted
               /\ games'[objects[t].peer].ctrl_conn = t
               /\ \A s \in ServerId \ {objects[t].peer} : games'[s] = games[s]]_vars
<1> DEFINE BecomesIts(t) == /\ UNCHANGED halted
                            /\ games'[objects[t].peer].ctrl_conn = t
                            /\ \A s \in ServerId \ {objects[t].peer} : games'[s] = games[s]
<1>1. ASSUME IInv, NEW t \in Token, HandleServerReady(t), objects[t].peer # 0
      PROVE  BecomesIts(t)
  <2> DEFINE s == objects[t].messages[msg_idx].server_id
  <2>1. /\ objects[t] \in IoObject /\ s \in ServerId
        /\ msg_idx \in DOMAIN objects[t].messages
    BY <1>1, ReadyType DEF IInv
  <2>2. AnnouncesItself
    BY <1>1, KnownAnnounces DEF IInv
  <2>3. s = objects[t].peer /\ games[s] # NULL
    BY <1>1, <2>1, <2>2, NullAssumption DEF AnnouncesItself, ServerId
  <2>4. games[s] \in GameSrvMetadata
    BY <1>1, <2>1, <2>3 DEF IInv, TypeOK
  <2>5. games' = [games EXCEPT ![s] = MarkReady(games[s], t)] /\ UNCHANGED halted
    BY <1>1, <2>3 DEF HandleServerReady
  <2> HIDE DEF s
  <2>6. MarkReady(games[s], t).ctrl_conn = t
    BY <2>4 DEF MarkReady, GameSrvMetadata
  <2>7. games'[s] = MarkReady(games[s], t) /\ \A r \in ServerId \ {s} : games'[r] = games[r]
    BY <1>1, <2>1, <2>5 DEF IInv, TypeOK
  <2> QED
    BY <2>3, <2>5, <2>6, <2>7
<1>2. IInv => [\A t \in Token : HandleServerReady(t) /\ objects[t].peer # 0 => BecomesIts(t)]_vars
  BY <1>1
<1> QED
  BY <1>2, IInvHolds, PTL

\* A player token is given out at most once: not by AuthSrv_CompleteGameTransfer
\* and AuthSrv_HandleRequestGameInstance both, and not again when the ServerReady
\* message is handled again.
THEOREM TokensGivenOutOnce == Spec => []GivenOutOnce
<1>1. IInv => GivenOutOnce
  BY DEF IInv, TokensInv
<1> QED
  BY <1>1, IInvHolds, PTL

\* AuthSrv_HandleRequestGameInstance never queues a transfer on a server that
\* has announced itself, where nothing would take it out of the queue.
THEOREM NothingWaits == Spec => []NothingWaitsForReady
<1>1. IInv => NothingWaitsForReady
  BY DEF IInv
<1> QED
  BY <1>1, IInvHolds, PTL

\* AuthSrv_FindCompatibleGameSrv has at most one candidate.
THEOREM DistrictsAreDistinct == Spec => []OneServerPerDistrict
<1>1. IInv => OneServerPerDistrict
  BY DEF IInv
<1> QED
  BY <1>1, IInvHolds, PTL

\* Whoever connects and whatever is sent: a game server announces itself only, and
\* is in the registry before it does; and the connection that GameSrvMetadata.ctrl_conn
\* names is gone or one on which that server was announced, its own or nobody's.
THEOREM ConnectionsAreTheServers == Spec => []CtrlConnIsPeer
<1>1. IInv => CtrlConnIsPeer
  BY KnownAnnounces DEF IInv, CtrlConnIsPeer
<1> QED
  BY <1>1, IInvHolds, PTL

\* No request of a client is lost between AuthSrv_HandleRequestGameInstance and
\* the ServerReady message of the server it waits for.
THEOREM RequestsStayQueued == Spec => []AssignedIsQueued
<1>1. IInv => AssignedIsQueued
  BY DEF IInv
<1> QED
  BY <1>1, IInvHolds, PTL

\* No login, kill or lost connection makes AuthSrv.accounts forget the server an
\* account plays on; only AuthSrvCtrl_HandlePlayerLeft does.
THEOREM LeavesByMessageOnly == Spec => StaysOnServer
<1> DEFINE Stay == \A a \in Accounts :
                     accounts[a] # NULL /\ accounts[a].current_server_id # 0 =>
                       \/ /\ accounts'[a] # NULL
                          /\ accounts'[a].current_server_id = accounts[a].current_server_id
                       \/ LeftByMessage(a)
<1>1. IInv /\ [Next]_vars => [Stay]_vars
  <2> SUFFICES ASSUME IInv, [Next]_vars, NEW a \in Accounts,
                      accounts[a] # NULL, accounts[a].current_server_id # 0
               PROVE  \/ /\ accounts'[a] # NULL
                         /\ accounts'[a].current_server_id = accounts[a].current_server_id
                      \/ LeftByMessage(a)
    OBVIOUS
  <2> QED
    BY AccountStep DEF IInv, AccountChange, KeepsServer, OnNoServer, SentToServer
<1> QED
  BY <1>1, IInvHolds, PTL DEF Spec, StaysOnServer

\* When AuthSrv_Update comes back to polling, every object it keeps has an open,
\* armed socket: what a handler closed or killed was removed, and what had an
\* event was armed again.
THEOREM WakeupsAreKept == Spec => []NoLostWakeup
<1>1. IInv => NoLostWakeup
  <2> SUFFICES ASSUME IInv, phase = "poll", NEW t \in Token, objects[t] # NULL
               PROVE  objects[t].type # "None" /\ objects[t].open /\ t \in armed
    BY DEF NoLostWakeup
  <2>1. /\ events = {} /\ objects_with_event = {} /\ objects_to_remove = {}
        /\ current = 0 /\ t # 0
    BY DEF IInv, RoundInOrder, Token
  <2>2. t \in armed
    BY <2>1 DEF IInv, RoundInOrder, Watched
  <2>3. EndsWithRound(t)
    BY DEF IInv, ClosedIsRemoved
  <2> QED
    BY <2>1, <2>2, <2>3 DEF EndsWithRound, IsLost
<1> QED
  BY <1>1, IInvHolds, PTL

\* As long as no query fails, every connection that is logged in is the one the
\* registry has for its account, however often it logs in, whoever takes the
\* account over and whatever is closed in between.
THEOREM ConnectionsAreRegistered ==
  ASSUME "db_error" \notin Allowed
  PROVE  Spec => []Registered
<1>1. Init => Sessions
  BY DEF Init, Sessions, ConnectedHasAccount, CurrentIsSole, Registered, Reaches, HasType,
         GetObject
<1>2. IInv /\ Sessions /\ [Next]_vars => Sessions'
  <2> SUFFICES ASSUME IInv, Sessions, [Next]_vars PROVE Sessions'
    OBVIOUS
  <2> QED
    BY SessionsStep DEF IInv
<1>3. Sessions => Registered
  BY DEF Sessions
<1> QED
  BY <1>1, <1>2, <1>3, IInvHolds, PTL DEF Spec

\* AuthSrv uses every game server the way a GameServer may be used: the registry
\* is written before the server starts, the messages of a server are read in
\* the order they were written and only once, and nobody is sent to a server
\* that is not known.
THEOREM UsesGameServers == Spec => ServersAreGameServers
<1> DEFINE Begin == \A s \in ServerId : TheServer(s)!Init
           Steps == \A s \in ServerId : [TheServer(s)!Next]_(TheServer(s)!serverVars)
<1>1. Init => Begin
  <2> SUFFICES ASSUME Init, NEW s \in ServerId PROVE TheServer(s)!Init
    OBVIOUS
  <2>1. /\ AccountsOf(to_game[s]) = <<>> /\ MessagesOf(to_auth[s]) = <<>>
        /\ playing[s] = [a \in Accounts |-> 0]
    BY NothingSeen DEF Init
  <2> QED
    BY <2>1 DEF TheServer!Init, AccountsOf, MessagesOf
<1>2. Init => UnknownIsUntouched
  BY DEF Init, UnknownIsUntouched, Untouched
<1>3. IInv /\ UnknownIsUntouched /\ [Next]_vars => UnknownIsUntouched'
  BY UntouchedStep DEF IInv
<1>4. IInv /\ UnknownIsUntouched /\ [Next]_vars => [Steps]_vars
  <2> SUFFICES ASSUME IInv, UnknownIsUntouched, [Next]_vars, NEW s \in ServerId
               PROVE  [TheServer(s)!Next]_(TheServer(s)!serverVars)
    OBVIOUS
  <2>1. TypeOK /\ ServerChange(s)
    BY ServerStep DEF IInv
  <2> QED
    BY <2>1, ServerImplements
<1> QED
  BY <1>1, <1>2, <1>3, <1>4, IInvHolds, PTL DEF Spec, ServersAreGameServers
=============================================================================
