----------------------------- MODULE MCServices -----------------------------
(***************************************************************************)
(* Small instances for TLC of the parts that run in the main loop without  *)
(* another actor's steps in between.  They share no state, so that one run *)
(* checks them side by side: a behaviour is one of part, and what belongs  *)
(* to the others keeps its first value.                                    *)
(***************************************************************************)
EXTENDS Services, RingBuffer, SnapshotDelta, DataFile, Demo, MasterServer, ServerInfo,
        Packing, Huffman, HttpRequest, MapGen

CONSTANTS x, y, s1, s2, d1, d2, a1, a2, p1, p2, ip1

\* Buckets of the hash table of SnapshotDelta.
MCKeyHash(k) == k % 2

MCTargets ==
  {Single(<<0, 0>>), Single(<<1, 0>>), Single(<<1, 1>>),
   [lb |-> <<0, 0>>, ub |-> <<0, 1>>], [lb |-> <<0, 1>>, ub |-> <<1, 0>>]}
MCLocalhost == <<1, 1>>

\* An item that is ammunition, the hammer, a gun and a material.
MCItems ==
  <<[weapon |-> -1, ammo |-> 1, makeable |-> TRUE, give |-> 2, needs |-> <<0, 0, 0, 1>>],
    [weapon |-> 0, ammo |-> -1, makeable |-> FALSE, give |-> 1, needs |-> <<0, 0, 0, 0>>],
    [weapon |-> 1, ammo |-> -1, makeable |-> TRUE, give |-> 1, needs |-> <<0, 0, 0, 1>>],
    [weapon |-> -1, ammo |-> -1, makeable |-> FALSE, give |-> 1, needs |-> <<0, 0, 0, 0>>]>>

MCData == {<<7>>, <<7, 7>>}

MCSizeOf(n) == IF n[1] = 0 THEN 1 ELSE 2

MCMakeItems == <<"i1", "i2", "i3", "i4">>

MCInts == -16 .. 15
MCStrings == {<<>>, <<"a">>, <<"u">>, <<"bad">>, <<"a", "u">>, <<"u", "a">>, <<"a", "bad", "u">>}
MCRaws == {<<>>, <<0>>, <<5, 0>>, <<7, 7, 7>>}

MCFrequencies == (0 :> 9) @@ (1 :> 1) @@ (2 :> 2) @@ (3 :> 4)

\* A pocket above, tiles that touch and that do not, and some far below.
MCNoise ==
  {<<4, 4>>, <<4, 5>>, <<5, 7>>, <<5, 8>>, <<4, 9>>, <<5, 13>>, <<5, 14>>}
MCNohook == {{}, {<<4, 9>>, <<4, 8>>}}
MCRuleFiles ==
  [image \in {"grass_main_0.7", "generic_unhookable"} |->
     <<<<[id |-> 2, base |-> TRUE], [id |-> 16, base |-> FALSE]>>>>]

-----------------------------------------------------------------------------
serviceVars ==
  <<ring, snapVars, deltaVars, idMapVars, banVars, econVars, armsVars, dataFileVars,
    rconVars, demoVars, masterVars, serverInfoVars, menuVars, packVars, huffVars,
    httpVars, mapGenVars, part>>

Parts ==
  {"ring", "snapshots", "delta", "id map", "bans", "econ", "arms", "data file", "rcon",
   "demo", "master", "server info", "info requests", "menu", "packing", "huffman", "http",
   "map generator"}

Idle(p, v) == IF part = p THEN TRUE ELSE UNCHANGED v

OnlyItMoves ==
  /\ UNCHANGED part
  /\ Idle("ring", ring) /\ Idle("snapshots", snapVars) /\ Idle("delta", deltaVars)
  /\ Idle("id map", idMapVars) /\ Idle("bans", banVars) /\ Idle("econ", econVars)
  /\ Idle("arms", armsVars) /\ Idle("data file", dataFileVars) /\ Idle("rcon", rconVars)
  /\ Idle("demo", demoVars) /\ Idle("master", masterVars)
  /\ part = "info requests" \/ Idle("server info", serverInfoVars)
  /\ Idle("menu", menuVars)
  /\ Idle("packing", packVars) /\ Idle("huffman", huffVars) /\ Idle("http", httpVars)
  /\ Idle("map generator", mapGenVars)

ServicesInit ==
  /\ part \in Parts
  /\ Init /\ SnapInit /\ DeltaInit /\ IdMapInit /\ BansInit /\ EconInit /\ ArmsInit
  /\ FileInit /\ RconInit /\ DemoInit /\ MasterInit /\ ServerInfoInit /\ MenuInit
  /\ PackInit /\ HuffInit /\ HttpInit /\ MapGenInit
  \* these begin in more than one state
  /\ part # "delta" => current = <<>>
  /\ part # "rcon" => next = CHOOSE i \in Clients : TRUE
  /\ part # "http" => httpBody = 0 /\ ~toFile

ServicesNext ==
  \/ part = "ring" /\ Next /\ OnlyItMoves
  \/ part = "snapshots" /\ SnapNext /\ OnlyItMoves
  \/ part = "delta" /\ DeltaNext /\ OnlyItMoves
  \/ part = "id map" /\ IdMapNext /\ OnlyItMoves
  \/ part = "bans" /\ BansNext /\ OnlyItMoves
  \/ part = "econ" /\ EconNext /\ OnlyItMoves
  \/ part = "arms" /\ ArmsNext /\ OnlyItMoves
  \/ part = "data file" /\ FileNext /\ OnlyItMoves
  \/ part = "rcon" /\ RconNext /\ OnlyItMoves
  \/ part = "demo" /\ DemoNext /\ OnlyItMoves
  \/ part = "master" /\ MasterNext /\ OnlyItMoves
  \* the clients and the requests do not meet but in Reloads
  \/ part = "server info" /\ ServerInfoNext /\ LimitUnchanged /\ OnlyItMoves
  \/ part = "info requests" /\ ServerInfoNext /\ UNCHANGED clientState /\ OnlyItMoves
  \* the second player only has lines sent, which draw a menu as well
  \/ part = "menu" /\ MenuNext /\ ~menus'[p2].body /\ ~menus'[p2].open /\ OnlyItMoves
  \/ part = "packing" /\ PackNext /\ OnlyItMoves
  \/ part = "huffman" /\ HuffNext /\ OnlyItMoves
  \/ part = "http" /\ HttpNext /\ OnlyItMoves
  \/ part = "map generator" /\ MapGenNext /\ OnlyItMoves

ServicesSpec == ServicesInit /\ [][ServicesNext]_serviceVars

-----------------------------------------------------------------------------
\* The variables of every part keep to their types.
ServicesTypeOK ==
  CASE part = "ring" -> TypeOK
    [] part = "snapshots" -> SnapTypeOK
    [] part = "delta" -> DeltaTypeOK
    [] part = "id map" -> IdMapTypeOK
    [] part = "bans" -> BansTypeOK
    [] part = "econ" -> EconTypeOK
    [] part = "arms" -> ArmsTypeOK
    [] part = "data file" -> DataFileTypeOK
    [] part = "rcon" -> RconTypeOK
    [] part = "demo" -> DemoTypeOK
    [] part = "master" -> MasterTypeOK
    [] part \in {"server info", "info requests"} -> ServerInfoTypeOK
    [] part = "menu" -> MenuTypeOK
    [] part = "packing" -> PackTypeOK
    [] part = "huffman" -> HuffTypeOK
    [] part = "http" -> HttpTypeOK
    [] part = "map generator" -> MapGenTypeOK

\* What is written reads back: the delta of a snapshot, a data file, packed values,
\* a compressed packet, the response to a request.  Of a demo only that its chunks
\* follow from each other: the repository has no player that reads them back.
ReadsBack ==
  /\ part = "delta" => DeltaRestores
  /\ part = "data file" => FileReadsBack
  /\ part = "demo" => DemoFileChains
  /\ part = "packing" => UnpacksWhatWasPacked
  /\ part = "huffman" => HuffmanRestores
  /\ part = "http" => ResponseIsWhole
=============================================================================
