------------------------------ MODULE Session ------------------------------
(***************************************************************************)
(* The sessions of clients: CServer::m_aClients[i].m_State                 *)
(* (engine/server/server.cpp) together with the player objects             *)
(* CGameContext::m_apPlayers[i] (game/server/gamecontext.cpp) that follow  *)
(* it.  This module holds the state and what each callback and message     *)
(* does to it; Votes composes it with the votes of CGameContext.           *)
(*                                                                         *)
(* Abstractions.  Bots and their slots are left out, and so are rights,    *)
(* names, inputs and spam protection.  A client whose INFO is refused is   *)
(* one that is dropped.  A rejoin (ClientRejoinCallback) changes neither   *)
(* m_State nor the player.  The map IdMap of ids that a client sees to     *)
(* slots is reduced to the set of slots in it, player[s].known: where in   *)
(* the map a slot stands matters to no property, but that the client       *)
(* itself stands at 0 (SelfId) does.  It is assumed that all players fit   *)
(* into the map (63 at most).                                              *)
(***************************************************************************)
EXTENDS Integers, FiniteSets

CONSTANTS
  Slots,         \* slots of players, 0 .. MAX_PLAYERS-1
  IPs,           \* IP addresses of clients
  NoPlayer,      \* m_apPlayers[i] of a slot without player
  NoIP,          \* the address of an empty slot
  MaxSessions    \* bound: how many clients connect

ASSUME SessionAssumption ==
  /\ Slots \subseteq Nat /\ IsFiniteSet(Slots)
  /\ NoIP \notin IPs
  /\ MaxSessions \in Nat

States == {"EMPTY", "PREAUTH", "AUTH", "CONNECTING", "READY", "INGAME"}
Teams == {"game", "spectators"}

Players == [ready   : BOOLEAN,       \* m_IsReady
            team    : Teams,         \* m_Team
            vote    : {-1, 0, 1},    \* m_Vote
            votePos : Nat,           \* m_VotePos
            known   : SUBSET Slots]  \* the slots in the client's IdMap

ASSUME NoPlayerAssumption == NoPlayer \notin Players

VARIABLES
  state,      \* state[s]: m_aClients[s].m_State
  player,     \* player[s]: m_apPlayers[s]
  ip,         \* ip[s]: address of the client in slot s, NoIP if none
  session,    \* session[s]: history, number of the client in slot s, 0 if none
  sessions    \* history: how many clients have connected

sessionVars == <<state, player, ip, session, sessions>>

SessionTypeOK ==
  /\ state \in [Slots -> States]
  /\ player \in [Slots -> Players \union {NoPlayer}]
  /\ ip \in [Slots -> IPs \union {NoIP}]
  /\ session \in [Slots -> Nat]
  /\ sessions \in 0 .. MaxSessions

HasPlayer(s) == player[s] # NoPlayer
Ingame(s) == state[s] = "INGAME"
Playing(s) == HasPlayer(s) /\ player[s].team # "spectators"

\* The id under which every client sees itself: idMap[0] = ClientID.
SelfId == 0

NewPlayer(s) ==
  [ready |-> FALSE, team |-> "game", vote |-> 0, votePos |-> 0, known |-> {s}]

\* ReverseTranslate of id v by client c: the slots it may mean.  An id that
\* means none of them is refused.
ReverseTranslate(c, v) == IF v = SelfId THEN {c} ELSE player[c].known \ {c}

InitSession ==
  /\ state = [s \in Slots |-> "EMPTY"]
  /\ player = [s \in Slots |-> NoPlayer]
  /\ ip = [s \in Slots |-> NoIP]
  /\ session = [s \in Slots |-> 0]
  /\ sessions = 0

Enter(s, a, st) ==
  /\ state[s] = "EMPTY"
  /\ \A t \in Slots : t < s => state[t] # "EMPTY"   \* TryAcceptClient
  /\ sessions < MaxSessions
  /\ state' = [state EXCEPT ![s] = st]
  /\ ip' = [ip EXCEPT ![s] = a]
  /\ sessions' = sessions + 1
  /\ session' = [session EXCEPT ![s] = sessions + 1]
  /\ UNCHANGED player

\* A client with a token gets a slot; a vanilla client (no auth) is sent the
\* map at once.
NewClient(s, a) == Enter(s, a, "PREAUTH")
NewClientNoAuth(s, a) == Enter(s, a, "CONNECTING")

Step(s, from, to) ==
  /\ state[s] \in from
  /\ state' = [state EXCEPT ![s] = to]
  /\ UNCHANGED <<ip, session, sessions>>

OnClientVer(s) == Step(s, {"PREAUTH"}, "AUTH") /\ UNCHANGED player
OnInfo(s) == Step(s, {"PREAUTH", "AUTH"}, "CONNECTING") /\ UNCHANGED player

\* NETMSG_READY: the client has the map; OnClientConnected makes its player.
OnReady(s) ==
  /\ Step(s, {"CONNECTING"}, "READY")
  /\ player' = [player EXCEPT ![s] = NewPlayer(s)]

OnStartInfo(s) ==
  /\ state[s] = "READY"
  /\ ~player[s].ready
  /\ player' = [player EXCEPT ![s].ready = TRUE]
  /\ UNCHANGED <<state, ip, session, sessions>>

\* NETMSG_ENTERGAME, with the session part of OnClientEnter.
OnEnterGame(s) ==
  /\ HasPlayer(s)
  /\ player[s].ready
  /\ Step(s, {"READY"}, "INGAME")
  /\ UNCHANGED player

\* Mutant of NotifiedDrops: the game hears of INGAME clients only.
IngameDrops(S) == {s \in S : state[s] = "INGAME"}

\* DelClientCallback of every slot in S, with the session part of
\* OnClientDrop, which runs for READY and INGAME clients only.
NotifiedDrops(S) == {s \in S : state[s] \in {"READY", "INGAME"}}

Dropped(S) ==
  /\ state' = [s \in Slots |-> IF s \in S THEN "EMPTY" ELSE state[s]]
  /\ player' = [s \in Slots |-> IF s \in NotifiedDrops(S) THEN NoPlayer
                                                          ELSE player[s]]
  /\ ip' = [s \in Slots |-> IF s \in S THEN NoIP ELSE ip[s]]
  /\ session' = [s \in Slots |-> IF s \in S THEN 0 ELSE session[s]]
  /\ UNCHANGED sessions

\* A new map is loaded: the game context is built anew, which deletes all
\* players, and every client past AUTH must fetch the map.
SessionReload ==
  /\ state' = [s \in Slots |->
                 IF state[s] \in {"EMPTY", "PREAUTH", "AUTH"} THEN state[s]
                                                              ELSE "CONNECTING"]
  /\ player' = [s \in Slots |-> NoPlayer]
  /\ UNCHANGED <<ip, session, sessions>>

\* CPlayer::SetTeam(TEAM_SPECTATORS) of every player in S.
ToSpectators(S) ==
  [s \in Slots |-> IF s \in S /\ HasPlayer(s)
                     THEN [player[s] EXCEPT !.team = "spectators"]
                     ELSE player[s]]

\* UpdatePlayerMaps: who is in the game gets all others of the game into its
\* map, and those that left out of it.
MapsUpdated ==
  [s \in Slots |-> IF Ingame(s) /\ HasPlayer(s)
                     THEN [player[s] EXCEPT !.known = {t \in Slots : Ingame(t)}]
                     ELSE player[s]]

-----------------------------------------------------------------------------
\* The game context has a player object for a client exactly while the server
\* passes it game messages (server.cpp:1302) and tells it of the client's drop
\* (server.cpp:875), READY and INGAME, and a client in the game has sent its
\* start info: OnMessage, OnClientDrop and OnClientEnter dereference
\* m_apPlayers[ClientID] without a test.
PlayerIffReady ==
  \A s \in Slots :
    /\ HasPlayer(s) <=> state[s] \in {"READY", "INGAME"}
    /\ Ingame(s) => player[s].ready
=============================================================================
