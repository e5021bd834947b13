------------------------------- MODULE Services -------------------------------
(***************************************************************************)
(* What the services of the main loop promise together.  They share no     *)
(* state, and a behaviour of MCServices is one of part; the properties     *)
(* speak of the state that part has.                                       *)
(***************************************************************************)
EXTENDS Snapshots, IdMap, Bans, Econ, Rcon, Arms, Menu, ServerInfo

VARIABLE part    \* the part that a behaviour is of

-----------------------------------------------------------------------------
\* IDs: each snapshot ID is in one place, and none names a second entity while a
\* delta could still be made against a snapshot in which it named the first; a
\* client that knows few players is told of itself and of those that are near.
IdsHold ==
  /\ part = "snapshots" => IdsAccountedFor /\ IdNamesOneEntity
  /\ part = "id map" => IdMapServesClient

\* Bans: what the hashed lists find is what is listed, no banned client stays,
\* and what expires first is found first.
BansHold == part = "bans" => FoundIffListed /\ NoBannedClient /\ SoonestFirst

\* The consoles: an external line is executed whole, in order; a client of the
\* remote console is told of every command it may use.
ConsolesHold ==
  /\ part = "econ" => LinesAreWhole
  /\ part = "rcon" => RconListComplete

\* The chunks of the server information are whole and show who is in the game.
InfoIsWhole == part = "server info" => ServerInfoIsWhole
===============================================================================
