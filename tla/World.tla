-------------------------------- MODULE World --------------------------------
(***************************************************************************)
(* The entities of the game: the lists of CGameWorld                       *)
(* (game/server/gameworld.cpp), the characters of players and bots that    *)
(* live in them, and the pointers that reach them, through one tick of the *)
(* game (CGameContext::OnTick: players, world, controller) and the         *)
(* messages between two ticks.                                             *)
(*                                                                         *)
(* The lists are doubly linked, as in the code.  A walk over a list calls  *)
(* each entity, and what is called may remove, delete and insert entities. *)
(* A character is a cell of a pool with one cell per client, all other     *)
(* entities (shots, which here are projectiles, lasers and pickups) are    *)
(* cells of the heap.                                                      *)
(*                                                                         *)
(* Abstractions.  Positions, health, weapons and timers are left out: which *)
(* characters a shot, a hammer or an explosion reaches, whether they die,  *)
(* what is fired and when a player respawns are choices.  The walks whose  *)
(* calls change no list (TickDefered, TickPaused, Snap) are left out.  A   *)
(* generated map has no death tiles, so a character dies by its own Tick   *)
(* only when it leaves the game layer.                                     *)
(***************************************************************************)
EXTENDS Integers, Sequences, FiniteSets

CONSTANTS
  Humans,   \* client slots below MAX_PLAYERS
  Bots,     \* client slots from BOT_CLIENTS_START on
  Cells,    \* bound: the heap cells there are for shots
  Null      \* the null pointer

Clients == Humans \union Bots
Entities == Clients \union Cells

ASSUME WorldAssumption ==
  /\ Humans \intersect Bots = {}
  /\ Clients \intersect Cells = {}
  /\ Null \notin Entities

\* The types of entities in the order of their lists; there are no flags.
Types == <<"projectile", "laser", "pickup", "character">>
ShotTypes == {"projectile", "laser", "pickup"}
TypeNames == ShotTypes \union {"character"}
Last == 4

VARIABLES
  first,    \* first[t]: m_apFirstEntityTypes
  next,     \* m_pNextTypeEntity
  prev,     \* m_pPrevTypeEntity
  type,     \* m_ObjType
  live,     \* the entities that exist: constructed and not yet deleted
  marked,   \* m_MarkedForDestroy
  alive,    \* m_Alive of characters
  core,     \* the clients with an entry in m_Core.m_apCharacters
  player,   \* the clients with a player object, m_apPlayers
  char,     \* the players with a character object, m_pCharacter
  paused,   \* m_Paused
  reset,    \* m_ResetRequested
  botInit,  \* m_BotDataInit
  phase,    \* where the main loop is
  walk,     \* index into Types of the list that is walked
  ent,      \* pEnt of the walk, or the character whose input fires
  trav,     \* m_pNextTraverseEntity
  called,   \* pEnt->Tick() is running
  targets,  \* apEnts: the characters that what is called has yet to hit
  dying,    \* the character whose Die is about to run, Null if none
  due,      \* the players that OnTick has yet to call
  started,  \* history: what was in the list when its walk began
  ticked    \* history: what has been called in this walk

lists == <<first, next, prev, type, live>>
people == <<alive, core, player, char>>
flags == <<paused, reset, botInit>>
walker == <<phase, walk, ent, trav, called, targets, dying, due, started, ticked>>
vars == <<lists, marked, people, flags, walker>>

TypeOK ==
  /\ first \in [TypeNames -> Entities \union {Null}]
  /\ next \in [Entities -> Entities \union {Null}]
  /\ prev \in [Entities -> Entities \union {Null}]
  /\ type \in [Entities -> TypeNames]
  /\ live \subseteq Entities /\ marked \subseteq Entities
  /\ alive \subseteq Clients /\ core \subseteq Clients
  /\ player \subseteq Clients /\ char \subseteq Clients
  /\ paused \in BOOLEAN /\ reset \in BOOLEAN /\ botInit \in BOOLEAN
  /\ phase \in {"idle", "input", "players", "reset", "tick", "remove",
                "controller"}
  /\ walk \in 1 .. Last
  /\ ent \in Entities \union {Null} /\ trav \in Entities \union {Null}
  /\ called \in BOOLEAN
  /\ targets \subseteq Clients /\ dying \in Clients \union {Null}
  /\ due \subseteq Clients
  /\ started \subseteq Entities /\ ticked \subseteq Entities

Init ==
  /\ first = [t \in TypeNames |-> Null]
  /\ next = [e \in Entities |-> Null]
  /\ prev = [e \in Entities |-> Null]
  /\ type = [e \in Entities |-> IF e \in Clients THEN "character" ELSE "projectile"]
  /\ live = {} /\ marked = {}
  /\ alive = {} /\ core = {} /\ player = {} /\ char = {}
  /\ paused = FALSE /\ reset = FALSE /\ botInit = FALSE
  /\ phase = "idle" /\ walk = 1
  /\ ent = Null /\ trav = Null /\ called = FALSE
  /\ targets = {} /\ dying = Null /\ due = {} /\ started = {} /\ ticked = {}

-----------------------------------------------------------------------------
(* The lists. *)

\* Listed as RemoveEntity finds it out.
InList(e) == next[e] # Null \/ prev[e] # Null \/ first[type[e]] = e

\* The entities of the list of type t, which are those whose links say so.
ListOf(t) == {e \in Entities : type[e] = t /\ InList(e)}

\* Mutant of Insert: the list is not tested for being empty.
InsertUnguarded(e, t) ==
  /\ first' = [first EXCEPT ![t] = e]
  /\ next' = [next EXCEPT ![e] = first[t]]
  /\ prev' = [f \in Entities \union {first[t]} |->
                IF f = first[t] THEN e ELSE IF f = e THEN Null ELSE prev[f]]
  /\ type' = [type EXCEPT ![e] = t]
  /\ live' = live \union {e}

\* A new entity e of type t, with InsertEntity(e).
Insert(e, t) ==
  /\ first' = [first EXCEPT ![t] = e]
  /\ next' = [next EXCEPT ![e] = first[t]]
  /\ prev' = [f \in Entities |-> IF f = first[t] THEN e
                                 ELSE IF f = e THEN Null ELSE prev[f]]
  /\ type' = [type EXCEPT ![e] = t]
  /\ live' = live \union {e}

\* Mutant of Advance: the walk is not told of the removal.
Stay(e, n) == n

\* m_pNextTraverseEntity n after e has been taken from its list.
Advance(e, n) == IF n = e THEN next[e] ELSE n

\* m_pNextTypeEntity and m_pPrevTypeEntity of the others after e is taken out.
NextWithout(e) == [f \in Entities |-> IF f = e THEN Null
                                      ELSE IF f = prev[e] THEN next[e] ELSE next[f]]
PrevWithout(e) == [f \in Entities |-> IF f = e THEN Null
                                      ELSE IF f = next[e] THEN prev[e] ELSE prev[f]]

\* Mutant of Unlink: the neighbour that follows keeps its link.
UnlinkForward(e) ==
  /\ first' = IF prev[e] = Null THEN [first EXCEPT ![type[e]] = next[e]] ELSE first
  /\ next' = NextWithout(e)
  /\ prev' = [prev EXCEPT ![e] = Null]

\* The links after RemoveEntity(e) of an e that is in a list.
Unlink(e) ==
  /\ first' = IF prev[e] = Null THEN [first EXCEPT ![type[e]] = next[e]] ELSE first
  /\ next' = NextWithout(e)
  /\ prev' = PrevWithout(e)

\* RemoveEntity(e) while the walk would go on with n.
RemoveEntity(e, n) ==
  IF InList(e) THEN Unlink(e) /\ trav' = Advance(e, n) /\ UNCHANGED type
               ELSE trav' = n /\ UNCHANGED <<first, next, prev, type>>

-----------------------------------------------------------------------------
(* Characters. *)

\* Mutant of Gone: a player is deleted without its character.
GoneNothing(c) == {}

\* What CCharacter::Die deletes: OnBotDead deletes the player of a bot and
\* with it the character.
Gone(c) == {c} \intersect Bots

\* CCharacter::Die of the character of c while the walk would go on with n;
\* the character objects in gone are deleted (a second RemoveEntity, by their
\* destructor, changes nothing).
Die(c, n, gone) ==
  /\ RemoveEntity(c, n)
  /\ alive' = alive \ {c}
  /\ core' = core \ {c}
  /\ live' = live \ gone
  /\ char' = char \ gone
  /\ player' = player \ ({c} \intersect Bots)

\* TryRespawn and CCharacter::Spawn: c gets a character.
Spawn(c) ==
  /\ Insert(c, "character")
  /\ alive' = alive \union {c}
  /\ core' = core \union {c}
  /\ char' = char \union {c}

\* CPlayer::KillCharacter of a human: the character dies and is deleted.
KillCharacter(c) ==
  IF c \in char THEN Die(c, trav, {c})
                ELSE UNCHANGED <<lists, trav, alive, core, char, player>>

-----------------------------------------------------------------------------
(* Between two ticks: messages and commands. *)

Idle == phase = "idle"

\* OnClientConnected
Connect(c) ==
  /\ Idle
  /\ c \in Humans \ player
  /\ player' = player \union {c}
  /\ UNCHANGED <<lists, marked, alive, core, char, flags, walker>>

\* OnClientDrop: OnDisconnect kills the character, then the player is deleted.
Drop(c) ==
  /\ Idle
  /\ c \in Humans \intersect player
  /\ IF c \in char
       THEN RemoveEntity(c, trav) /\ live' = live \ {c}
       ELSE UNCHANGED <<lists, trav>>
  /\ alive' = alive \ {c} /\ core' = core \ {c}
  /\ char' = char \ {c} /\ player' = player \ {c}
  /\ UNCHANGED <<marked, flags, phase, walk, ent, called, targets, dying, due,
                 started, ticked>>

\* NETMSGTYPE_CL_KILL, unless paused, and CPlayer::SetTeam: an administrator
\* at any time, the controller after its Tick for a player that is inactive.
Kill(c) ==
  /\ phase \in {"idle", "controller"}
  /\ c \in Humans \intersect char
  /\ KillCharacter(c)
  /\ UNCHANGED <<marked, flags, phase, walk, ent, called, targets, dying, due,
                 started, ticked>>

\* TogglePause, and StartRound, which asks for a reset and ends a pause.
TogglePause ==
  /\ Idle
  /\ paused' = ~paused
  /\ UNCHANGED <<lists, marked, people, reset, botInit, walker>>

StartRound ==
  /\ Idle
  /\ reset' = TRUE /\ paused' = FALSE
  /\ UNCHANGED <<lists, marked, people, botInit, walker>>

\* The thread that reads the data of the bots ends.
BotDataRead ==
  /\ ~botInit
  /\ botInit' = TRUE
  /\ UNCHANGED <<lists, marked, people, paused, reset, walker>>

\* CWeaponHammer::Fire, and HandleNinja along its way: others are hit, unless
\* the character is dead (GetPlayerChar gives none).
HammerFires(c) ==
  /\ targets' \in IF c \in alive THEN SUBSET (ListOf("character") \ {c}) ELSE {{}}
  /\ UNCHANGED lists

\* A gun, shotgun or grenade: a projectile, whose constructor inserts it.
ProjectileFired == \E e \in Cells \ live : Insert(e, "projectile") /\ targets' = {}

\* CTWSLaser::CTWSLaser inserts it and bounces at once: it may hit another.
LaserFired(c) ==
  \E e \in Cells \ live :
    /\ Insert(e, "laser")
    /\ targets' \in {{}} \union {{h} : h \in ListOf("character") \ {c}}

\* What a character that fires does.
Fires(c) == HammerFires(c) \/ ProjectileFired \/ LaserFired(c)

\* OnDirectInput: a character fires at once, between two ticks; also a dead one
\* whose object the next tick of its player will delete.
DirectInput(c) ==
  /\ Idle
  /\ ~paused
  /\ c \in Humans \intersect char
  /\ Fires(c)
  /\ phase' = "input" /\ ent' = c /\ called' = TRUE
  /\ UNCHANGED <<marked, people, flags, walk, trav, dying, due, started, ticked>>

InputDone ==
  /\ phase = "input"
  /\ targets = {} /\ dying = Null
  /\ phase' = "idle" /\ ent' = Null /\ called' = FALSE
  /\ UNCHANGED <<lists, marked, people, flags, walk, trav, targets, dying, due,
                 started, ticked>>

\* OnShutdown and Clear, when a new map is loaded: the players are deleted,
\* then what is left in the lists.
Reload ==
  /\ Idle
  /\ first' = [t \in TypeNames |-> Null]
  /\ next' = [e \in Entities |-> Null]
  /\ prev' = [e \in Entities |-> Null]
  /\ live' = live \ (char \union {e \in Entities : InList(e)})
  /\ marked' = {} /\ alive' = {} /\ core' = {} /\ char' = {} /\ player' = {}
  /\ paused' = FALSE /\ reset' = FALSE /\ botInit' = FALSE
  /\ UNCHANGED <<type, walker>>

-----------------------------------------------------------------------------
(* What is called hits characters. *)

\* TakeDamage of a character that is within reach: it survives or dies.
Hit(c) ==
  /\ called
  /\ dying = Null
  /\ c \in targets
  /\ targets' = targets \ {c}
  /\ dying' \in {Null, c}
  /\ UNCHANGED <<lists, marked, people, flags, phase, walk, ent, trav, called,
                 due, started, ticked>>

\* CreatePickup: a bot that dies leaves what it carries.
CreatePickup(e) ==
  /\ dying \in Bots
  /\ e \in Cells \ live
  /\ Insert(e, "pickup")
  /\ UNCHANGED <<marked, people, flags, walker>>

DieNow ==
  /\ dying # Null
  /\ Die(dying, trav, Gone(dying))
  /\ dying' = Null
  /\ UNCHANGED <<marked, flags, phase, walk, ent, called, targets, due,
                 started, ticked>>

-----------------------------------------------------------------------------
(* One tick: CGameContext::OnTick. *)

\* The players come first.
BeginTick ==
  /\ Idle
  /\ phase' = "players" /\ due' = player
  /\ UNCHANGED <<lists, marked, people, flags, walk, ent, trav, called, targets,
                 dying, started, ticked>>

\* Mutant of MayRespawn: the object of the dead character is not waited for.
MayRespawnDead(c) == c \notin alive

MayRespawn(c) == c \notin char

\* CPlayer::Tick: the object of a dead character is deleted, a player without
\* one may get one.
PlayerTick(c) ==
  /\ phase = "players"
  /\ c \in due
  /\ due' = due \ {c}
  /\ \/ /\ paused \/ c \in alive \/ c \notin char
        /\ UNCHANGED <<lists, people, trav>>
     \/ /\ ~paused /\ c \in char \ alive
        /\ RemoveEntity(c, trav)
        /\ live' = live \ {c} /\ char' = char \ {c}
        /\ UNCHANGED <<alive, core, player>>
     \/ /\ ~paused /\ MayRespawn(c)
        /\ Spawn(c)
        /\ UNCHANGED <<player, trav>>
  /\ UNCHANGED <<marked, flags, phase, walk, ent, called, targets, dying,
                 started, ticked>>

\* The walk of list w begins.
Enter(w) ==
  /\ walk' = w
  /\ ent' = first[Types[w]]
  /\ started' = ListOf(Types[w])
  /\ ticked' = {}

\* CGameWorld::Tick: a reset that was asked for, else the calls of all
\* entities, none of which does anything while the game is paused.
WorldTick ==
  /\ phase = "players" /\ due = {}
  /\ phase' = IF reset THEN "reset" ELSE IF paused THEN "remove" ELSE "tick"
  /\ Enter(1)
  /\ UNCHANGED <<lists, marked, people, flags, trav, called, targets, dying, due>>

\* CGameWorld::Reset up to its first RemoveEntities: shots are marked but for
\* pickups, characters are dead but stay where they are.
Reset ==
  /\ phase = "reset"
  /\ phase' = "remove"
  /\ marked' = marked \union ListOf("projectile") \union ListOf("laser")
  /\ alive' = alive \ ListOf("character")
  /\ core' = core \ ListOf("character")
  /\ UNCHANGED <<lists, char, player, flags, walk, ent, trav, called, targets,
                 dying, due, started, ticked>>

\* CProjectile::Tick, with CreateExplosion: what it hits it does not survive.
ProjectileTick(e) ==
  /\ targets' \in SUBSET ListOf("character")
  /\ marked' \in {marked \union {e}} \union (IF targets' = {} THEN {marked} ELSE {})

\* CTWSLaser::DoBounce: it hits one, or has no energy left, or bounces.
LaserTick(e) ==
  \/ targets' \in {{h} : h \in ListOf("character")} /\ UNCHANGED marked
  \/ targets' = {} /\ marked' \in {marked, marked \union {e}}

\* CPickup::Tick: it is taken, too old or outside of the layer, or stays.
PickupTick(e) == targets' = {} /\ marked' \in {marked, marked \union {e}}

ShotTick(e) ==
  /\ CASE type[e] = "projectile" -> ProjectileTick(e)
       [] type[e] = "laser" -> LaserTick(e)
       [] type[e] = "pickup" -> PickupTick(e)
  /\ UNCHANGED lists

\* CCharacter::Tick.
CharacterTick(c) ==
  /\ \/ targets' = {} /\ UNCHANGED lists
     \/ c \in alive /\ Fires(c)
  /\ UNCHANGED marked

\* m_pNextTraverseEntity = pEnt->m_pNextTypeEntity; pEnt->Tick();
Call ==
  /\ phase = "tick" /\ ent # Null /\ ~called
  /\ trav' = next[ent]
  /\ called' = TRUE
  /\ ticked' = ticked \union {ent}
  /\ IF ent \in Cells THEN ShotTick(ent) ELSE CharacterTick(ent)
  /\ UNCHANGED <<people, flags, phase, walk, ent, dying, due, started>>

\* HandleEvents: a character that is outside of the game layer dies.
LeaveLayer ==
  /\ phase = "tick" /\ called /\ targets = {} /\ dying = Null
  /\ ent \in alive
  /\ dying' = ent
  /\ UNCHANGED <<lists, marked, people, flags, phase, walk, ent, trav, called,
                 targets, due, started, ticked>>

\* Mutant of Onward: the walk reads the link after the call.
OnwardFromHere == IF ent = Null THEN Null ELSE next[ent]

\* pEnt = m_pNextTraverseEntity
Onward == trav

Return ==
  /\ phase = "tick" /\ called /\ targets = {} /\ dying = Null
  /\ ent' = Onward
  /\ called' = FALSE
  /\ UNCHANGED <<lists, marked, people, flags, phase, walk, trav, targets, dying,
                 due, started, ticked>>

\* RemoveEntities: what is marked is taken out and deleted.
Remove ==
  /\ phase = "remove" /\ ent # Null
  /\ IF ent \in marked
       THEN RemoveEntity(ent, next[ent]) /\ live' = live \ {ent}
       ELSE trav' = next[ent] /\ UNCHANGED lists
  /\ marked' = marked \ {ent}
  /\ ent' = trav'
  /\ UNCHANGED <<people, flags, phase, walk, called, targets, dying, due,
                 started, ticked>>

\* A walk is at the end of a list.
NextList ==
  /\ phase \in {"tick", "remove"} /\ ent = Null /\ ~called
  /\ walk < Last
  /\ Enter(walk + 1)
  /\ UNCHANGED <<lists, marked, people, flags, phase, trav, called, targets,
                 dying, due>>

\* A walk is at the end of all lists; PostReset changes timers of players only.
WalkDone ==
  /\ phase \in {"tick", "remove"} /\ ent = Null /\ ~called
  /\ walk = Last
  /\ phase' = IF phase = "tick" THEN "remove"
              ELSE IF reset THEN (IF paused THEN "remove" ELSE "tick")
              ELSE "controller"
  /\ reset' = IF phase = "remove" THEN FALSE ELSE reset
  /\ Enter(1)
  /\ UNCHANGED <<lists, marked, people, paused, botInit, trav, called, targets,
                 dying, due>>

\* CGameController::Tick: every slot of a bot that has none gets one.
CreateBot(b) ==
  /\ phase = "controller"
  /\ botInit
  /\ b \in Bots \ player
  /\ player' = player \union {b}
  /\ Spawn(b)
  /\ UNCHANGED <<marked, flags, walker>>

EndTick ==
  /\ phase = "controller"
  /\ botInit => Bots \subseteq player
  /\ phase' = "idle"
  /\ UNCHANGED <<lists, marked, people, flags, walk, ent, trav, called, targets,
                 dying, due, started, ticked>>

-----------------------------------------------------------------------------
Messages ==
  \/ \E c \in Humans : Connect(c) \/ Drop(c) \/ Kill(c) \/ DirectInput(c)
  \/ TogglePause \/ StartRound \/ BotDataRead \/ Reload \/ BeginTick

\* What the main loop goes on with by itself.
Turn ==
  \/ InputDone
  \/ \E c \in Clients : Hit(c) \/ PlayerTick(c)
  \/ \E e \in Cells : CreatePickup(e)
  \/ DieNow
  \/ WorldTick \/ Reset \/ Call \/ LeaveLayer \/ Return \/ Remove
  \/ NextList \/ WalkDone
  \/ \E b \in Bots : CreateBot(b)
  \/ EndTick

Next == Messages \/ Turn

\* The thread of the main loop runs on.
Spec == Init /\ [][Next]_vars /\ WF_vars(Turn)

-----------------------------------------------------------------------------
\* The links of the lists agree in both directions, and only a head has
\* nothing before it (gameworld.cpp:63-106).
ListsLinked ==
  /\ \A t \in TypeNames : first[t] # Null =>
       prev[first[t]] = Null /\ type[first[t]] = t
  /\ \A e \in Entities :
       /\ next[e] # Null => prev[next[e]] = e /\ type[next[e]] = type[e]
       /\ prev[e] # Null => next[prev[e]] = e /\ type[prev[e]] = type[e]
       /\ InList(e) /\ prev[e] = Null => first[type[e]] = e

\* No pointer outlives what it points to, and nothing is forgotten: what is
\* listed, what a player has as its character (a cell of the pool is in use
\* exactly then, entity.h:36, :44), what is about to be hit and what the world
\* core knows exists; a character takes part exactly while it is listed or,
\* after a reset, until it is deleted; a shot is listed until it is deleted.
NothingDangles ==
  /\ \A e \in Entities : InList(e) => e \in live
  /\ live \intersect Clients = char
  /\ live \intersect Cells \subseteq {e \in Entities : InList(e)}
  /\ char \subseteq player
  /\ alive = core
  /\ alive \subseteq {e \in char : InList(e)}
  /\ due \subseteq player /\ targets \subseteq char
  /\ dying # Null => dying \in char
  /\ marked \subseteq live \intersect Cells

\* A walk stands on an entity of its list, and will go on with one, however
\* many entities what is called removes (gameworld.cpp:101).
WalkStaysInList ==
  phase \in {"tick", "remove"} =>
    /\ ent # Null /\ ~called => ent \in ListOf(Types[walk])
    /\ called /\ trav # Null => trav \in ListOf(Types[walk])

\* Whatever the calls of a tick insert, delete and hit, the lists stay lists, no
\* pointer outlives what it points to and a walk goes on in its list.
EntitiesLive == ListsLinked /\ NothingDangles /\ WalkStaysInList

\* The walk of a tick calls each entity that was in the list when it began and
\* is still there when its turn comes, and each once; what is inserted
\* meanwhile waits for the next tick (gameworld.cpp:163-169).
CalledOncePerTick ==
  [][/\ ~called /\ called' /\ phase = "tick" =>
          ent \in (started \intersect live) \ ticked
     /\ phase = "tick" /\ walk' # walk =>
          started \intersect ListOf(Types[walk]) \subseteq ticked]_vars

\* Every tick and every input ends, whatever the lists go through.
TickEnds == phase # "idle" ~> phase = "idle"
=============================================================================
