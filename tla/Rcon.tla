--------------------------------- MODULE Rcon ---------------------------------
(***************************************************************************)
(* The remote console of the server: the command list of CConsole          *)
(* (engine/shared/console.cpp) and the clients that log in to it           *)
(* (engine/server/server.cpp).                                             *)
(*                                                                         *)
(* A client that logs in is told the commands it may use, a few in each    *)
(* tick, along the sorted command list.  While that goes on `mod_command`  *)
(* changes what moderators may use; those who are past the command are     *)
(* told at once, those who are not will come to it.                        *)
(*                                                                         *)
(* Abstractions.  A command's name is its number, so that < is str_comp.   *)
(* Temporary commands, which the server never has, and commands with other *)
(* flags are left out.  What is sent is vital and arrives in order.        *)
(***************************************************************************)
EXTENDS Integers, Sequences, FiniteSets, SequencesExt

CONSTANTS
  RconCommands,     \* the commands for CFGFLAG_SERVER
  ModCommand,   \* mod_command
  LogoutCommand,\* logout
  Clients,      \* client ids of players: 0, 1, ..
  MaxSend,      \* MAX_RCONCMD_SEND
  RconTries  \* sv_rcon_max_tries, 0 for any number

ASSUME RconAssumption ==
  /\ RconCommands \subseteq Nat \ {0}
  /\ ModCommand \in RconCommands /\ LogoutCommand \in RconCommands
  /\ IsFiniteSet(Clients) /\ Clients # {}
  /\ Clients = 0 .. Cardinality(Clients) - 1
  /\ MaxSend \in Nat \ {0} /\ RconTries \in Nat

VARIABLES
  list,     \* the commands along m_pNext, from m_pFirstCommand
  running,  \* all commands are registered, clients come
  forMods,  \* commands with ACCESS_LEVEL_MOD; the others have ACCESS_LEVEL_ADMIN
  authed,   \* m_Authed: "no", "mod" or "admin"
  tries,    \* m_AuthTries
  toSend,   \* m_pRconCmdToSend, NoCommand for 0
  next,     \* the client whose turn it is: Tick() % MAX_CLIENTS
  told,     \* the commands the client knows
  wanted    \* the client asked for the list when it logged in

rconVars == <<list, running, forMods, authed, tries, toSend, next, told, wanted>>

NoCommand == 0

RconTypeOK ==
  /\ Range(list) \subseteq RconCommands /\ running \in BOOLEAN /\ forMods \subseteq RconCommands
  /\ authed \in [Clients -> {"no", "mod", "admin"}]
  /\ tries \in [Clients -> 0 .. RconTries]
  /\ toSend \in [Clients -> RconCommands \union {NoCommand}]
  /\ next \in Clients
  /\ told \in [Clients -> SUBSET RconCommands] /\ wanted \in [Clients -> BOOLEAN]

RconInit ==
  /\ list = <<>> /\ running = FALSE /\ forMods = {}
  /\ authed = [i \in Clients |-> "no"]
  /\ tries = [i \in Clients |-> 0]
  /\ toSend = [i \in Clients |-> NoCommand]
  /\ next \in Clients
  /\ told = [i \in Clients |-> {}] /\ wanted = [i \in Clients |-> FALSE]

-----------------------------------------------------------------------------
(* The command list.                                                        *)

\* Mutant of AddCommandSorted: the new command goes to the front.
AddCommandFirst(c) == <<c>> \o list

\* AddCommandSorted.  (A list of one command is lost when another comes before it;
\* the first two that the constructor registers are in order.)
AddCommandSorted(c) ==
  LET after == {n \in DOMAIN list : c <= list[n]}
  IN  IF list = <<>> \/ c <= list[1]
        THEN IF Len(list) > 1 THEN <<c>> \o list ELSE <<c>>
      ELSE IF after = {} THEN Append(list, c)
      ELSE InsertAt(list, CHOOSE n \in after : \A m \in after : n <= m, c)

\* Register, while the server starts.
Register(c) ==
  /\ ~running
  /\ c \notin Range(list)
  /\ Len(list) = 1 => c > list[1]
  /\ list' = AddCommandSorted(c)
  /\ running' = (Range(list) \union {c} = RconCommands)
  /\ UNCHANGED <<forMods, authed, tries, toSend, next, told, wanted>>

MayUse(level, mods) == IF level = "admin" THEN RconCommands ELSE mods

\* The first command of the list from place n on that may be used at a level.
FirstFrom(n, level) ==
  LET usable == {m \in n .. Len(list) : list[m] \in MayUse(level, forMods)}
  IN  IF usable = {} THEN NoCommand
      ELSE list[CHOOSE m \in usable : \A k \in usable : m <= k]

FirstCommandInfo(level) == FirstFrom(1, level)

\* The next of them behind c.
NextCommandInfo(c, level) ==
  FirstFrom((CHOOSE m \in DOMAIN list : list[m] = c) + 1, level)

-----------------------------------------------------------------------------
(* Logging in and out.                                                      *)

\* NETMSG_RCON_AUTH with a right password; the client may ask for the list.
RconAuth(i, level, ask) ==
  /\ running
  /\ authed' = [authed EXCEPT ![i] = level]
  /\ toSend' = IF ask THEN [toSend EXCEPT ![i] = FirstCommandInfo(level)] ELSE toSend
  /\ wanted' = [wanted EXCEPT ![i] = ask]
  /\ UNCHANGED <<list, running, forMods, tries, next, told>>

\* The client is gone (DelClientCallback), or starts again in the same slot
\* (ClientRejoinCallback), which forgets all but the tries.
Gone(i, n) ==
  /\ authed' = [authed EXCEPT ![i] = "no"]
  /\ toSend' = [toSend EXCEPT ![i] = NoCommand]
  /\ tries' = [tries EXCEPT ![i] = n]
  /\ told' = [told EXCEPT ![i] = {}]
  /\ wanted' = [wanted EXCEPT ![i] = FALSE]
  /\ UNCHANGED <<list, running, forMods, next>>

RconDrop(i) == running /\ Gone(i, 0)
Rejoin(i) == running /\ Gone(i, tries[i])

\* A wrong password: the try that reaches the limit drops the client, or bans it,
\* which drops it as well.
RconWrongPassword(i) ==
  /\ running
  /\ RconTries > 0
  /\ IF tries[i] + 1 >= RconTries
       THEN Gone(i, 0)
       ELSE /\ tries' = [tries EXCEPT ![i] = @ + 1]
            /\ UNCHANGED <<list, running, forMods, authed, toSend, next, told, wanted>>

-----------------------------------------------------------------------------
(* Commands.                                                                *)

\* ExecuteLineStroked: the command is there and the client's level is enough.
Executes(i, c) ==
  running /\ authed[i] # "no" /\ c \in Range(list) /\ c \in MayUse(authed[i], forMods)

\* ConLogout.
Logout(i) ==
  /\ Executes(i, LogoutCommand)
  /\ Gone(i, 0)

\* Mutant of IsAhead: the comparison is turned round.
IsBehind(i, c) == toSend[i] # NoCommand /\ c <= toSend[i]

\* The list will come to c for client i: nothing need be said now.
IsAhead(i, c) == toSend[i] # NoCommand /\ c >= toSend[i]

\* ConModCommandAccess and its chain ConchainModCommandUpdate: c is given to
\* moderators or taken from them.  Moderators whose list is past it are told.
ModCommandAccess(c, given) ==
  LET informed == {i \in Clients : authed[i] = "mod" /\ ~IsAhead(i, c)}
  IN  /\ c \in Range(list)
      /\ forMods' = IF given THEN forMods \union {c} ELSE forMods \ {c}
      /\ told' = IF forMods' = forMods THEN told
                 ELSE [i \in Clients |-> IF i \notin informed THEN told[i]
                                         ELSE IF given THEN told[i] \union {c}
                                         ELSE told[i] \ {c}]
      /\ UNCHANGED <<list, running, authed, tries, toSend, next, wanted>>

\* By a client, or from a file, a vote or the external console.
SetModAccess(c, given) ==
  /\ running
  /\ ModCommandAccess(c, given)

ClientSetsModAccess(i, c, given) ==
  /\ Executes(i, ModCommand)
  /\ ModCommandAccess(c, given)

\* The commands that i is told next, MaxSend of them, and the one behind them.
Upcoming(i) ==
  LET line[n \in 0 .. MaxSend] ==
        IF n = 0 THEN toSend[i]
        ELSE IF line[n - 1] = NoCommand THEN NoCommand
        ELSE NextCommandInfo(line[n - 1], authed[i])
  IN  line

\* UpdateClientRconCommands, in every tick for one client.
UpdateClientRconCommands ==
  LET i == next
      line == Upcoming(i)
  IN  /\ running
      /\ next' = (next + 1) % Cardinality(Clients)
      /\ IF authed[i] = "no" THEN UNCHANGED <<toSend, told>>
         ELSE /\ told' = [told EXCEPT ![i] =
                            @ \union ({line[n] : n \in 0 .. MaxSend - 1} \ {NoCommand})]
              /\ toSend' = [toSend EXCEPT ![i] = line[MaxSend]]
      /\ UNCHANGED <<list, running, forMods, authed, tries, wanted>>

RconNext ==
  \/ \E c \in RconCommands : Register(c)
  \/ \E c \in RconCommands, given \in BOOLEAN :
       SetModAccess(c, given) \/ \E i \in Clients : ClientSetsModAccess(i, c, given)
  \/ \E i \in Clients :
       \/ \E level \in {"mod", "admin"}, ask \in BOOLEAN : RconAuth(i, level, ask)
       \/ RconWrongPassword(i) \/ Logout(i) \/ RconDrop(i) \/ Rejoin(i)
  \/ UpdateClientRconCommands

RconSpec == RconInit /\ [][RconNext]_rconVars

-----------------------------------------------------------------------------
\* A client that asked for the list knows every command it may use, except those
\* the list has still to come to: whatever is given and taken while the list is
\* being sent, nothing is left out (server.cpp:972-985 and 2262-2289).
RconListComplete ==
  \A i \in Clients : authed[i] # "no" /\ wanted[i] =>
    \A c \in MayUse(authed[i], forMods) : IsAhead(i, c) \/ c \in told[i]
=============================================================================
