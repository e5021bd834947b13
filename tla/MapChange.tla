------------------------------ MODULE MapChange ------------------------------
(***************************************************************************)
(* One client and the map it plays: the messages by which a client gets    *)
(* the map and enters the game (engine/server/server.cpp), while the       *)
(* server loads new maps and the client may connect again.                 *)
(*                                                                         *)
(* The client is not part of this program.  As the server uses it, it      *)
(* loads the map of a MAP_CHANGE and answers READY, and answers CON_READY  *)
(* with STARTINFO and ENTERGAME, which are one message here.  All of these *)
(* are vital: they arrive in order, until the connection is made anew.     *)
(***************************************************************************)
EXTENDS Integers, Sequences

CONSTANTS
  MaxReloads,  \* bound: maps loaded after the first
  MaxRejoins   \* bound: reconnections of the client

ASSUME MapChangeAssumption == MaxReloads \in Nat /\ MaxRejoins \in Nat

ClientStates == {"PREAUTH", "CONNECTING", "READY", "INGAME"}
NoMap == -1

VARIABLES
  announced,   \* number of the map whose name and sha256 are announced
  clientState, \* m_State
  clientMap,   \* the map the client has, NoMap at first
  toClient,    \* vital messages on their way to the client
  toServer,    \* vital messages on their way to the server
  rejoins,     \* history: how often the client has connected again
  outside      \* history: it did so past AUTH and no map was loaded since

changeVars == <<announced, clientState, clientMap, toClient, toServer, rejoins, outside>>

ToClientMessages == [msg : {"MAP_CHANGE"}, map : 0 .. MaxReloads] \union
                    [msg : {"CON_READY"}, map : {NoMap}]
ToServerMessages == {"INFO", "READY", "ENTERGAME"}

ChangeTypeOK ==
  /\ announced \in 0 .. MaxReloads
  /\ clientState \in ClientStates
  /\ clientMap \in NoMap .. MaxReloads
  /\ toClient \in Seq(ToClientMessages)
  /\ toServer \in Seq(ToServerMessages)
  /\ rejoins \in 0 .. MaxRejoins
  /\ outside \in BOOLEAN

ChangeInit ==
  /\ announced = 0
  /\ clientState = "PREAUTH"
  /\ clientMap = NoMap
  /\ toClient = <<>> /\ toServer = <<"INFO">>
  /\ rejoins = 0 /\ outside = FALSE

MapChangeMsg(n) == [msg |-> "MAP_CHANGE", map |-> n]
ConReadyMsg == [msg |-> "CON_READY", map |-> NoMap]

-----------------------------------------------------------------------------
(* The server takes the first message that is on its way to it. *)

\* What NETMSG_INFO, NETMSG_READY and NETMSG_ENTERGAME do, each in the state
\* in which it does anything.
OnMessage(m) ==
  CASE m = "INFO" /\ clientState = "PREAUTH" ->
         /\ clientState' = "CONNECTING"
         /\ toClient' = Append(toClient, MapChangeMsg(announced))
    [] m = "READY" /\ clientState = "CONNECTING" ->
         /\ clientState' = "READY"
         /\ toClient' = Append(toClient, ConReadyMsg)
    [] m = "ENTERGAME" /\ clientState = "READY" ->
         /\ clientState' = "INGAME"
         /\ UNCHANGED toClient
    [] OTHER -> UNCHANGED <<clientState, toClient>>

ServerReceives ==
  /\ toServer # <<>>
  /\ toServer' = Tail(toServer)
  /\ OnMessage(Head(toServer))
  /\ UNCHANGED <<announced, clientMap, rejoins, outside>>

\* Mutant of MustFetch: a client that is still loading keeps what it loads.
MustFetchAgain == clientState \in {"READY", "INGAME"}

\* m_State > STATE_AUTH
MustFetch == clientState # "PREAUTH"

\* Run: a new map is loaded.
ChangeMap ==
  /\ announced < MaxReloads
  /\ announced' = announced + 1
  /\ IF MustFetch
       THEN /\ toClient' = Append(toClient, MapChangeMsg(announced + 1))
            /\ clientState' = "CONNECTING"
       ELSE UNCHANGED <<toClient, clientState>>
  /\ outside' = FALSE
  /\ UNCHANGED <<clientMap, toServer, rejoins>>

-----------------------------------------------------------------------------
(* The client. *)

ClientReceives ==
  /\ toClient # <<>>
  /\ toClient' = Tail(toClient)
  /\ IF Head(toClient).msg = "MAP_CHANGE"
       THEN /\ clientMap' = Head(toClient).map
            /\ toServer' = Append(toServer, "READY")
       ELSE /\ toServer' = Append(toServer, "ENTERGAME")
            /\ UNCHANGED clientMap
  /\ UNCHANGED <<announced, clientState, rejoins, outside>>

\* The client connects again from its address, ClientRejoinCallback: the map
\* is sent at once, the state stays.
ClientRejoins ==
  /\ rejoins < MaxRejoins
  /\ rejoins' = rejoins + 1
  /\ clientMap' = NoMap
  /\ toClient' = <<MapChangeMsg(announced)>>
  /\ toServer' = <<"INFO">>
  /\ outside' = (outside \/ clientState \in {"READY", "INGAME"})
  /\ UNCHANGED <<announced, clientState>>

ChangeNext ==
  \/ ServerReceives \/ ClientReceives
  \/ ChangeMap \/ ClientRejoins

ChangeSpec == ChangeInit /\ [][ChangeNext]_changeVars

-----------------------------------------------------------------------------
\* When nothing is on its way any more, the client plays, and it plays the
\* announced map, in whatever order maps were loaded and READY and ENTERGAME
\* of earlier maps arrived (server.cpp:1089, :2010).  A client that connected
\* again past AUTH is the exception: its READY is ignored and it stays outside
\* until the next map (server.cpp:808).
SettledClientPlays ==
  toClient = <<>> /\ toServer = <<>> /\ ~outside =>
    clientState = "INGAME" /\ clientMap = announced
=============================================================================
