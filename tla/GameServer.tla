---------------------------- MODULE GameServer ----------------------------
(***************************************************************************)
(* One game server, as far as the authentication server is concerned: the  *)
(* accounts on their way to it, those that have a player on it, and the    *)
(* messages on their way back.  AuthSrv takes its servers to behave like   *)
(* this, and GameSrv is shown to.                                          *)
(***************************************************************************)
EXTENDS Integers, Sequences

CONSTANTS Accounts, NULL

VARIABLES
  to_game,   \* accounts handed over and not joined yet
  playing,   \* number of players of each account
  to_auth    \* messages written and not read yet

serverVars == <<to_game, playing, to_auth>>

Message(id, a) == [msg_id |-> id, account_id |-> a]

Init == /\ to_game = <<>>
        /\ playing = [a \in Accounts |-> 0]
        /\ to_auth = <<>>

HandOver(a) == /\ to_game' = Append(to_game, a)
               /\ UNCHANGED <<playing, to_auth>>

\* A server announces itself before anybody plays on it.
Announce == /\ to_game = <<>> /\ to_auth = <<>>
            /\ playing = [a \in Accounts |-> 0]
            /\ to_auth' = <<Message("ServerReady", NULL)>>
            /\ UNCHANGED <<to_game, playing>>

PlayerJoins == /\ to_game # <<>>
               /\ playing' = [playing EXCEPT ![Head(to_game)] = @ + 1]
               /\ to_game' = Tail(to_game)
               /\ UNCHANGED to_auth

\* A player leaves the server and the message about it in one step.
PlayerLeaves(a) == /\ playing[a] > 0
                   /\ playing' = [playing EXCEPT ![a] = @ - 1]
                   /\ to_auth' = Append(to_auth, Message("PlayerLeft", a))
                   /\ UNCHANGED to_game

PlayerTravels(a) == /\ playing[a] > 0
                    /\ to_auth' = Append(to_auth, Message("StartPlayerTransfer", a))
                    /\ UNCHANGED <<to_game, playing>>

Read(n) == /\ n \in 1..Len(to_auth)
           /\ to_auth' = SubSeq(to_auth, n + 1, Len(to_auth))
           /\ UNCHANGED <<to_game, playing>>

\* With the connection goes what was not written to it in time.
ConnectionLost == /\ \E n \in 0..Len(to_auth) : to_auth' = SubSeq(to_auth, 1, n)
                  /\ UNCHANGED <<to_game, playing>>

Next == \/ Announce
        \/ PlayerJoins
        \/ \E a \in Accounts : HandOver(a) \/ PlayerLeaves(a) \/ PlayerTravels(a)
        \/ \E n \in 1..Len(to_auth) : Read(n)
        \/ ConnectionLost

Spec == Init /\ [][Next]_serverVars
=============================================================================
