------------------------------- MODULE MapGen -------------------------------
(***************************************************************************)
(* The map generator (CMapGen, engine/server/mapgen.cpp), which a          *)
(* generator thread runs to make the next map, and what the server reads   *)
(* of the map when it has loaded it.  Two noises choose tiles; every area  *)
(* of air is joined to the first; the layers that clients draw follow from *)
(* the game layer.  The rest of the game layer is solid.                   *)
(*                                                                         *)
(* Where the code reads what was never assigned or was freed, the map is   *)
(* "undefined" and nothing more is said of it.                             *)
(***************************************************************************)
EXTENDS Integers, Sequences, FiniteSets, SequencesExt

CONSTANTS
  Width, Height,  \* sv_generated_map_width, sv_generated_map_height
  Border,         \* 4
  DoodadWidth,    \* 9
  NoiseTiles,     \* bound: where the noises may fall below the threshold
  NohookNoises,   \* bound: the sets of tiles that the first noise chooses from
  RuleFiles       \* the rules of each image, a missing file is without a record

\* The index that a rule gives, or that tiles have before the rules.
Rules == [id : Nat, base : BOOLEAN]

ASSUME MapGenAssumption ==
  /\ Width \in Nat /\ Height \in Nat /\ DoodadWidth \in Nat \ {0}
  \* a doodad stands three rows below the first row of its air
  /\ Border \in Nat /\ Border > 3
  /\ NoiseTiles \subseteq (0 .. Width - 1) \X (0 .. Height - 1)
  /\ \A low \in NohookNoises : low \subseteq (0 .. Width - 1) \X (0 .. Height - 1)
  \* no file of data/mapgen gives the index of the empty tile
  /\ \A image \in DOMAIN RuleFiles :
       /\ RuleFiles[image] \in Seq(Seq(Rules))
       /\ \A conf \in Range(RuleFiles[image]) : \A i \in DOMAIN conf : conf[i].id # 0

VARIABLES
  genStage,  \* how far CreateMap is
  air,       \* m_pGameTiles: TILE_AIR
  nohook,    \*               TILE_NOHOOK
  airList,   \* AirList: the tiles of air that no area has yet
  visited,   \* TileList: m_IsVisited
  area,      \* the area that is being filled: its tiles, in the order they were added
  looked,    \* how many of them the loop has looked at
  areas,     \* AreaList
  doodads,   \* m_pDoodadsTiles: the left upper tiles of the doodads
  groups,    \* MAPITEMTYPE_GROUP: m_StartLayer of each, m_NumLayers is 1
  layers,    \* MAPITEMTYPE_LAYER: what each is, its image and the tiles it draws
  images,    \* m_NumImages
  configs,   \* m_lConfigs: the rules that were read
  loaded     \* CLayers: the index of the game layer, 0 before the map is loaded

searchVars == <<airList, visited, area, looked>>
mapGenVars ==
  <<genStage, air, nohook, searchVars, areas, doodads, groups, layers, images, configs, loaded>>

Stages ==
  <<"background", "back tiles", "noise", "areas", "connect", "doodads", "hookable",
    "unhookable", "done">>

Tile == (0 .. Width - 1) \X (0 .. Height - 1)

MapGenTypeOK ==
  /\ genStage \in Range(Stages) \union {"idle", "undefined"}
  /\ air \subseteq Tile /\ nohook \subseteq Tile \ air
  /\ airList \subseteq Tile /\ visited \subseteq Tile
  /\ area \in Seq(Tile) /\ looked \in 0 .. Len(area)
  /\ areas \in Seq(Seq(Tile)) /\ doodads \subseteq Tile
  /\ groups \in Seq(Nat)
  /\ \A i \in DOMAIN layers :
       /\ layers[i].kind \in {"Quad", "Background", "Game", "Doodads", "Hookable", "Unhookable"}
       /\ layers[i].image \in Int /\ layers[i].drawn \subseteq Tile
  /\ images \in Nat /\ configs \in Seq(Seq(Rules))
  /\ loaded \in Nat

MapGenInit ==
  /\ genStage = "idle"
  /\ air = {} /\ nohook = {} /\ areas = <<>> /\ doodads = {}
  /\ airList = {} /\ visited = {} /\ area = <<>> /\ looked = 0
  /\ groups = <<>> /\ layers = <<>> /\ images = 0 /\ configs = <<>> /\ loaded = 0

-----------------------------------------------------------------------------
(* The items of the file.                                                   *)

\* Each Generate function: its layer, and its group which begins at the layer's
\* number before it was added.
AddGroup(layer) ==
  /\ layers' = Append(layers, layer)
  /\ groups' = Append(groups, Len(layers))

Layer(kind, image, drawn) == [kind |-> kind, image |-> image, drawn |-> drawn]

AddExternalImage(kind, drawn) == images' = images + 1 /\ AddGroup(Layer(kind, images, drawn))

\* An image that cannot be read adds nothing, and the layer has none.
AddEmbeddedImage(kind, drawn) ==
  \/ AddExternalImage(kind, drawn)
  \/ UNCHANGED images /\ AddGroup(Layer(kind, -1, drawn))

\* LoadRules: a file that is missing gives no configuration, and a file without a
\* section that of the image before.
LoadRules(image) == IF image \in DOMAIN RuleFiles THEN configs \o RuleFiles[image] ELSE configs
RuleOf(image) == IF image \in DOMAIN RuleFiles THEN Len(configs) + Len(RuleFiles[image]) ELSE 0

\* Proceed: a tile that is empty stays so; another gets the index of the base, then
\* that of each rule that holds around it and wins its draw.  The sets of tiles
\* that may be drawn in the end.
Indexes(conf) ==
  LET bases == {i \in DOMAIN conf : conf[i].base}
      first == CHOOSE i \in bases : \A j \in bases : i <= j
  IN  {IF bases = {} THEN 1 ELSE conf[first].id}
      \union {conf[i].id : i \in DOMAIN conf \ bases}

Proceed(full, rules, id) ==
  IF id \in DOMAIN rules /\ rules[id] # <<>> /\ 0 \in Indexes(rules[id])
    THEN SUBSET full ELSE {full}

-----------------------------------------------------------------------------
(* CreateMap up to the game layer.                                          *)

\* InitState, GenerateBackground.
StartMap ==
  /\ genStage = "idle"
  /\ genStage' = "back tiles"
  /\ AddGroup(Layer("Quad", -1, {}))
  /\ UNCHANGED <<air, nohook, searchVars, areas, doodads, images, configs, loaded>>

GenerateBackgroundTile(noise) ==
  /\ genStage = "back tiles"
  /\ genStage' = "noise"
  /\ configs' = LoadRules("grass_main")
  /\ \E drawn \in Proceed(noise, configs', RuleOf("grass_main")) :
       AddExternalImage("Background", drawn)
  /\ UNCHANGED <<air, nohook, searchVars, areas, doodads, loaded>>

InBorder(t) ==
  \/ t[1] <= Border - 1 \/ t[1] >= Width - Border
  \/ t[2] <= Border - 1 \/ t[2] >= Height - Border

\* Nohook where the first noise is low, air where the second is and the first is
\* not; the border is solid again.
Noise(low1, low2) ==
  /\ genStage = "noise"
  /\ genStage' = "areas"
  /\ nohook' = {t \in low1 : ~InBorder(t)}
  /\ air' = {t \in low2 \ low1 : ~InBorder(t)}
  /\ airList' = air'
  /\ UNCHANGED <<visited, area, looked, areas, doodads, groups, layers, images, configs, loaded>>

-----------------------------------------------------------------------------
(* CloseMap: the areas of air.                                              *)

Right(t) == <<t[1] + 1, t[2]>>
Left(t) == <<t[1] - 1, t[2]>>
Up(t) == <<t[1], t[2] - 1>>
Down(t) == <<t[1], t[2] + 1>>

\* The loops over the tiles that were found, but for what they change.
generated == <<air, nohook, doodads, groups, layers, images, configs, loaded>>

Linear(t) == t[2] * Width + t[1]

\* AirList[0]: rows from the top, each from the left.
FirstOf(ts) == CHOOSE t \in ts : \A u \in ts : Linear(t) <= Linear(u)

\* An area of more than one tile begins.
NewArea ==
  /\ genStage = "areas" /\ area = <<>>
  /\ Cardinality(airList) > 1
  /\ area' = <<FirstOf(airList)>> /\ looked' = 0
  /\ UNCHANGED <<genStage, airList, visited, areas, generated>>

Unseen(t) == IF t \in air \ visited THEN <<t>> ELSE <<>>

\* One tile of the area: the neighbour below is added without being marked, so
\* that another tile may add it again; the one above is marked in its stead.
VisitTile ==
  /\ genStage = "areas" /\ looked < Len(area)
  /\ looked' = looked + 1
  /\ LET t == area[looked + 1]
     IN  /\ area' = area \o Unseen(Right(t)) \o Unseen(Left(t)) \o Unseen(Up(t))
                          \o Unseen(Down(t))
         /\ visited' = visited \union {t} \union (air \intersect {Right(t), Left(t), Up(t)})
                         \union (IF Unseen(Down(t)) # <<>> THEN {Up(t)} ELSE {})
  /\ UNCHANGED <<genStage, airList, areas, generated>>

\* The tiles of the area are taken from AirList, and the area is added to the list.
AreaIsWhole ==
  /\ genStage = "areas" /\ area # <<>> /\ looked = Len(area)
  /\ airList' = airList \ Range(area)
  /\ areas' = Append(areas, area)
  /\ area' = <<>> /\ looked' = 0
  /\ UNCHANGED <<genStage, visited, generated>>

\* An area of the last tile is a local variable: it is freed when the loop ends.
Freed == <<>>

EndAreas ==
  /\ genStage = "areas" /\ area = <<>>
  /\ Cardinality(airList) <= 1
  /\ genStage' = "connect"
  /\ areas' = IF airList = {} THEN areas ELSE Append(areas, Freed)
  /\ UNCHANGED <<airList, visited, area, looked, generated>>

-----------------------------------------------------------------------------
(* "game tiles clear area to 1"                                             *)

Abs(n) == IF n < 0 THEN -n ELSE n
Distance(t, u) == Abs(t[1] - u[1]) + Abs(t[2] - u[2])

\* Every second tile of the first area is looked at, and the last.
Sampled(list) == {i \in DOMAIN list : i % 2 = 1 \/ i = Len(list)}

Cross(t) == {t, Right(t), Left(t), Up(t), Down(t)}
Around(ts) == UNION {Cross(t) : t \in ts}

\* From a to b, without b.
Toward(a, b) == IF a < b THEN a .. b - 1 ELSE b + 1 .. a

\* Mutant of Corridor: the corner is not dug.
CorridorOneWay(start, end) ==
  Around({<<x, start[2]>> : x \in Toward(start[1], end[1])})

\* Along the row of the start, then along the column of the end.
Corridor(start, end) ==
  Around({<<x, start[2]>> : x \in Toward(start[1], end[1])}
         \union {<<end[1], y>> : y \in Toward(start[2], end[2])})

\* One turn of the loop with a tile of the second area.
ConnectArea(end) ==
  /\ genStage = "connect" /\ Len(areas) > 1
  /\ areas[2] # Freed
  /\ end \in Range(areas[2])
  /\ LET D(i) == Distance(areas[1][i], end)
         near == {i \in Sampled(areas[1]) : D(i) < Width}
         i == CHOOSE k \in near : \A j \in near : D(k) < D(j) \/ (D(k) = D(j) /\ k <= j)
     IN  IF near = {} THEN genStage' = "undefined" /\ UNCHANGED <<air, nohook, areas>>
         ELSE /\ air' = air \union Corridor(areas[1][i], end)
              /\ nohook' = nohook \ Corridor(areas[1][i], end)
              /\ areas' = <<areas[1] \o areas[2]>> \o SubSeq(areas, 3, Len(areas))
              /\ UNCHANGED genStage
  /\ UNCHANGED <<searchVars, doodads, groups, layers, images, configs, loaded>>

\* A tile of the area that was freed is read.
ConnectFreed ==
  /\ genStage = "connect" /\ Len(areas) > 1 /\ areas[2] = Freed
  /\ genStage' = "undefined"
  /\ UNCHANGED <<air, nohook, searchVars, areas, doodads, groups, layers, images, configs, loaded>>

AddGameTile ==
  /\ genStage = "connect" /\ Len(areas) <= 1
  /\ genStage' = "doodads"
  /\ areas' = <<>>
  /\ AddGroup(Layer("Game", -1, Tile \ air))
  /\ UNCHANGED <<air, nohook, searchVars, doodads, images, configs, loaded>>

-----------------------------------------------------------------------------
(* The layers that follow from the game layer.                              *)

DoodadRows == 3
DoodadTiles(p) == (p[1] .. p[1] + DoodadWidth - 1) \X (p[2] .. p[2] + DoodadRows - 1)
RowFrom(t) == (t[1] .. t[1] + DoodadWidth - 1) \X {t[2]}

\* Where the row of a doodad is air: the row below its last is read then.
DoodadAir ==
  {t \in (0 .. Width - DoodadWidth - 1) \X (1 .. Height - DoodadRows) : RowFrom(t) \subseteq air}
DoodadGround(t) == RowFrom(<<t[1], t[2] + DoodadRows>>)

\* Row by row, from the left; where a doodad is, no other is put.
Placed ==
  LET upTo[n \in 0 .. Width * Height] ==
        IF n = 0 THEN {}
        ELSE LET t == <<(n - 1) % Width, (n - 1) \div Width>>
             IN  IF /\ t \in DoodadAir /\ DoodadGround(t) \intersect air = {}
                    /\ \A p \in upTo[n - 1] : DoodadTiles(p) \intersect DoodadTiles(t) = {}
                   THEN upTo[n - 1] \union {t} ELSE upTo[n - 1]
  IN  upTo[Width * Height]

GenerateDoodads ==
  /\ genStage = "doodads"
  /\ genStage' = "hookable"
  /\ doodads' = Placed
  /\ AddExternalImage("Doodads", UNION {DoodadTiles(p) : p \in doodads'})
  /\ UNCHANGED <<air, nohook, searchVars, areas, configs, loaded>>

GenerateHookable ==
  /\ genStage = "hookable"
  /\ genStage' = "unhookable"
  /\ configs' = LoadRules("grass_main_0.7")
  /\ \E drawn \in Proceed(Tile \ air, configs', RuleOf("grass_main_0.7")) :
       AddEmbeddedImage("Hookable", drawn)
  /\ UNCHANGED <<air, nohook, searchVars, areas, doodads, loaded>>

GenerateUnhookable ==
  /\ genStage = "unhookable"
  /\ genStage' = "done"
  /\ configs' = LoadRules("generic_unhookable")
  /\ \E drawn \in Proceed(nohook, configs', RuleOf("generic_unhookable")) :
       AddExternalImage("Unhookable", drawn)
  /\ UNCHANGED <<air, nohook, searchVars, areas, doodads, loaded>>

\* CLayers::Init: the last group whose layer is the game's.
LoadLayers ==
  /\ genStage = "done" /\ loaded = 0
  /\ \E g \in DOMAIN groups :
       /\ layers[groups[g] + 1].kind = "Game"
       /\ \A h \in g + 1 .. Len(groups) : layers[groups[h] + 1].kind # "Game"
       /\ loaded' = groups[g] + 1
  /\ UNCHANGED <<genStage, air, nohook, searchVars, areas, doodads, groups, layers, images,
                 configs>>

MapGenNext ==
  \/ StartMap
  \/ \E noise \in {{}, NoiseTiles} : GenerateBackgroundTile(noise)
  \/ \E low1 \in NohookNoises, low2 \in SUBSET NoiseTiles : Noise(low1, low2)
  \/ NewArea \/ VisitTile \/ AreaIsWhole \/ EndAreas
  \/ \E end \in Tile : ConnectArea(end)
  \/ ConnectFreed \/ AddGameTile \/ GenerateDoodads
  \/ GenerateHookable \/ GenerateUnhookable \/ LoadLayers

MapGenSpec == MapGenInit /\ [][MapGenNext]_mapGenVars

-----------------------------------------------------------------------------
\* What can be reached from a tile.
Grown(ts) == ts \union (Around(ts) \intersect air)

Reached(first) ==
  LET reach[n \in 0 .. Cardinality(air)] ==
        IF n = 0 THEN {first}
        ELSE Grown(reach[n - 1])
  IN  reach[Cardinality(air)]

\* When the areas have been joined, every tile of air can be reached from every
\* other: nobody comes into the game walled in.
OneArea ==
  genStage \in {"doodads", "hookable", "unhookable", "done"} /\ air # {} =>
    Reached(FirstOf(air)) = air

\* No corridor breaks through to the edge of the map: three tiles stay solid all
\* around, so that the search for doodads reads no row below the last either.
EdgeIsSolid ==
  /\ \A t \in air \union nohook :
       t[1] \in Border - 1 .. Width - Border /\ t[2] \in Border - 1 .. Height - Border
  /\ \A t \in DoodadAir : DoodadGround(t) \subseteq Tile

\* Each group has its own layer, each layer an image that is in the file, the
\* clients draw tiles exactly where the server has solid ones, and the layer the
\* server finds is the game's.
LayersAgree ==
  /\ \A g \in DOMAIN groups : groups[g] = g - 1
  /\ Len(groups) = Len(layers)
  /\ \A i \in DOMAIN layers : layers[i].image < images
  /\ \A i \in DOMAIN layers :
       /\ layers[i].kind \in {"Game", "Hookable"} => layers[i].drawn = Tile \ air
       /\ layers[i].kind = "Unhookable" => layers[i].drawn = nohook
  /\ loaded # 0 => layers[loaded].kind = "Game"

MapIsPlayable == OneArea /\ EdgeIsSolid /\ LayersAgree
=============================================================================
