--------------------------------- MODULE Arms ---------------------------------
(***************************************************************************)
(* What a player carries and fires: the inventory (CItemCore,              *)
(* lastday/item/item.cpp), crafting (lastday/item/make.cpp) and the        *)
(* weapons of its character (game/server/entities/character.cpp).          *)
(*                                                                         *)
(* A character keeps its own copy of the inventory: which weapons it has   *)
(* and how much ammunition.  Its Tick brings the copy up to date; between  *)
(* two ticks inputs fire, and commands and other threads change the        *)
(* inventory.                                                              *)
(*                                                                         *)
(* Abstractions.  One player; inventories do not share anything.  Where    *)
(* shots go is left to World.  CPlayer::Tick and CCharacter::Tick are      *)
(* separate, since what other characters do in the same tick of the game   *)
(* comes between them.  Bots, which need no ammunition, are left out.      *)
(***************************************************************************)
EXTENDS Integers, Sequences, FiniteSets

CONSTANTS
  NumWeapons,   \* NUM_LASTDAY_WEAPONS
  ItemTable,    \* m_aItems: [weapon, ammo, makeable, give, needs]; needs[i] of item i
  FullAutos,    \* weapons that go on firing
  FireDelay,    \* ticks until the next shot
  MaxFound,     \* bound: items picked up
  MaxInputs     \* bound: the inputs counted, above 2

WeaponIds == 0 .. NumWeapons - 1
AllItems == DOMAIN ItemTable
Hammer == 0

ASSUME ArmsAssumption ==
  /\ NumWeapons \in Nat \ {0} /\ FireDelay \in Nat \ {0}
  /\ FullAutos \subseteq WeaponIds
  /\ MaxFound \in Nat /\ MaxInputs \in Nat
  /\ \A i \in AllItems :
       /\ ItemTable[i].weapon \in WeaponIds \union {-1}
       /\ ItemTable[i].ammo \in WeaponIds \union {-1}
       /\ ItemTable[i].makeable \in BOOLEAN /\ ItemTable[i].give \in Nat
       /\ ItemTable[i].needs \in [AllItems -> Nat]
  \* What data/json/item.json lists: the hammer; items that are a weapon, ammunition
  \* or neither; one item of each; and only what is neither is needed to make others.
  /\ \E i \in AllItems : ItemTable[i].weapon = Hammer
  /\ \A i \in AllItems : ItemTable[i].weapon = -1 \/ ItemTable[i].ammo = -1
  /\ \A i, j \in AllItems :
       /\ ItemTable[i].weapon = ItemTable[j].weapon => ItemTable[i].weapon = -1 \/ i = j
       /\ ItemTable[i].ammo = ItemTable[j].ammo => ItemTable[i].ammo = -1 \/ i = j
       /\ ItemTable[i].needs[j] > 0 => ItemTable[j].weapon = -1 /\ ItemTable[j].ammo = -1

VARIABLES
  carried,  \* the inventory: number of each item, NoneListed if it has no entry
  body,     \* m_pCharacter: "none", "alive" or "dead"
  got,      \* m_aWeapons[].m_Got
  ammo,     \* m_aWeapons[].m_Ammo
  active,   \* m_ActiveWeapon
  queued,   \* m_QueuedWeapon
  reload,   \* m_ReloadTimer
  held,     \* m_LatestInput.m_Fire & 1
  inputs,   \* m_NumInputs
  menu,     \* GetMenuStatus()
  inTick,   \* CPlayer::Tick is done, CCharacter::Tick is not
  found,    \* how many items were picked up
  synced    \* history: a SyncItem thread has overwritten the inventory

armsVars == <<carried, body, got, ammo, active, queued, reload, held, inputs,
              menu, inTick, found, synced>>

NoneListed == -100

ArmsTypeOK ==
  /\ carried \in [AllItems -> Int]
  /\ body \in {"none", "alive", "dead"}
  /\ got \subseteq WeaponIds
  /\ ammo \in [WeaponIds -> Int]
  /\ active \in WeaponIds /\ queued \in WeaponIds \union {-1}
  /\ reload \in Nat /\ held \in BOOLEAN /\ inputs \in 0 .. MaxInputs
  /\ menu \in BOOLEAN /\ inTick \in BOOLEAN
  /\ found \in 0 .. MaxFound /\ synced \in BOOLEAN

ArmsInit ==
  /\ carried = [i \in AllItems |-> NoneListed]
  /\ body = "none"
  /\ got = {} /\ ammo = [w \in WeaponIds |-> 0]
  /\ active = Hammer /\ queued = -1 /\ reload = 0
  /\ held = FALSE /\ inputs = 0 /\ menu = FALSE
  /\ inTick = FALSE /\ found = 0 /\ synced = FALSE

-----------------------------------------------------------------------------
(* The inventory.                                                           *)

Listed(i) == carried[i] # NoneListed
GetInvItemNum(i) == IF Listed(i) THEN carried[i] ELSE 0

\* AddInvItemNum of all items at once.
AddInvItems(num) ==
  carried' = [i \in AllItems |-> IF num[i] = 0 THEN carried[i] ELSE GetInvItemNum(i) + num[i]]

\* CPickup::Tick: what lies on the ground is taken.
TakePickup(i) ==
  /\ body = "alive"
  /\ found < MaxFound
  /\ found' = found + 1
  /\ AddInvItems([j \in AllItems |-> IF j = i THEN 1 ELSE 0])
  /\ UNCHANGED <<body, got, ammo, active, queued, reload, held, inputs, menu, inTick, synced>>

\* MakeItem and ReturnItem, from the menu of what is makeable: a weapon is made once.
MakeItem(i) ==
  LET data == ItemTable[i]
  IN  /\ body = "alive" /\ ~inTick
      /\ data.makeable
      /\ \A j \in AllItems : GetInvItemNum(j) >= data.needs[j]
      /\ data.weapon > -1 => GetInvItemNum(i) = 0
      /\ AddInvItems([j \in AllItems |-> (IF j = i THEN data.give ELSE 0) - data.needs[j]])
      /\ UNCHANGED <<body, got, ammo, active, queued, reload, held, inputs, menu,
                     inTick, found, synced>>

\* SyncItem, in its thread: the number the database had when it was asked.  The
\* hammer is never written to the database.  (Bound: one of them for each player.)
SyncItem(i, n) ==
  /\ ~synced
  /\ ItemTable[i].weapon # Hammer
  /\ carried' = [carried EXCEPT ![i] = n]
  /\ synced' = TRUE
  /\ UNCHANGED <<body, got, ammo, active, queued, reload, held, inputs, menu, inTick, found>>

\* OnClientDrop: ClearInv; the slot is free for the next client.
ClearInv ==
  /\ ~inTick
  /\ carried' = [i \in AllItems |-> NoneListed]
  /\ body' = "none" /\ got' = {} /\ ammo' = [w \in WeaponIds |-> 0]
  /\ active' = Hammer /\ queued' = -1 /\ reload' = 0
  /\ held' = FALSE /\ inputs' = 0 /\ menu' = FALSE
  /\ synced' = FALSE
  /\ UNCHANGED <<inTick, found>>

-----------------------------------------------------------------------------
(* Weapons.                                                                 *)

\* IsWeaponHaveAmmo: the weapon is compared with the place of the item, not with w.
IsWeaponHaveAmmo(w) == \E i \in AllItems : ItemTable[i].ammo = i - 1

\* The entries of the inventory that are ammunition for w, and those that are w.
AmmoFor(w) == {i \in AllItems : ItemTable[i].ammo = w /\ Listed(i)}
Owned(w) == {i \in AllItems : ItemTable[i].weapon = w /\ Listed(i)}

\* SyncWeapon: what the inventory lists; a weapon is not lost again.
SyncWeapon ==
  /\ ammo' = [w \in WeaponIds |->
                IF AmmoFor(w) # {} THEN carried[CHOOSE i \in AmmoFor(w) : TRUE]
                ELSE IF IsWeaponHaveAmmo(w) THEN 0 ELSE -1]
  /\ got' = {w \in WeaponIds :
               IF Owned(w) # {} THEN carried[CHOOSE i \in Owned(w) : TRUE] # 0 ELSE w \in got}

\* DoWeaponSwitch for a queue q: the weapon and the queue after it.
DoWeaponSwitch(q) ==
  IF reload # 0 \/ q = -1 \/ q = active THEN <<active, q>> ELSE <<q, -1>>

\* Mutant of Reloading: the timer is not asked.
NeverReloading == FALSE

Reloading == reload # 0

\* OnWeaponFire: one item of ammunition less, if the inventory lists its one entry.
OnWeaponFire(w) == AddInvItems([j \in AllItems |-> IF j \in AmmoFor(w) THEN -1 ELSE 0])

\* FireWeapon with the switch sw, when fire was pressed or is held down;
\* ammunition a, menu open or not.  A shot without ammunition only costs time.
FireWeapon(sw, pressed, down, a) ==
  LET w == sw[1]
      willFire == pressed \/ (w \in FullAutos /\ down /\ a[w] # 0)
  IN  /\ active' = w /\ queued' = sw[2]
      /\ IF ~willFire \/ menu
           THEN UNCHANGED <<carried, reload>>
           ELSE /\ reload' = FireDelay
                /\ IF a[w] > 0 THEN OnWeaponFire(w) ELSE UNCHANGED carried

\* FireWeapon returns at once.
NoFire(sw) == active' = sw[1] /\ queued' = sw[2] /\ UNCHANGED <<carried, reload>>

-----------------------------------------------------------------------------
(* Ticks.                                                                   *)

\* An input may be predicted just before a tick: OnPredictedInput counts it.
PredictedInput ==
  inputs' = inputs \/ (inputs < MaxInputs /\ inputs' = inputs + 1)

\* CPlayer::Tick: a dead character is deleted; a player without one may spawn,
\* which OnCharacterSpawn gives a hammer.
PlayerTick ==
  /\ ~inTick
  /\ inTick' = TRUE
  /\ \/ /\ body = "dead"
        /\ body' = "none"
        /\ UNCHANGED <<carried, got, ammo, active, queued, reload, inputs>>
     \/ /\ body = "none"
        /\ body' = "alive"
        /\ carried' = [i \in AllItems |-> IF ItemTable[i].weapon = Hammer THEN 1 ELSE carried[i]]
        /\ got' = {} /\ ammo' = [w \in WeaponIds |-> 0]
        /\ active' = Hammer /\ queued' = -1 /\ reload' = 0
        /\ inputs' = 0
     \/ /\ body = "none"
        /\ UNCHANGED <<carried, body, got, ammo, active, queued, reload, inputs>>
     \/ /\ body = "alive"
        /\ PredictedInput
        /\ UNCHANGED <<carried, body, got, ammo, active, queued, reload>>
  /\ UNCHANGED <<held, menu, found, synced>>

\* CCharacter::Tick, up to HandleWeapons: the weapons are synchronised first, the
\* timer runs, or a weapon that is held down fires.
CharacterTick ==
  /\ inTick
  /\ body = "alive"
  /\ inTick' = FALSE
  /\ SyncWeapon
  /\ IF reload # 0
       THEN reload' = reload - 1 /\ UNCHANGED <<carried, active, queued>>
       ELSE \/ FireWeapon(DoWeaponSwitch(queued), FALSE, held, ammo')
            \/ NoFire(<<active, queued>>)     \* frozen
  /\ UNCHANGED <<body, held, inputs, menu, found, synced>>

TickDone ==
  /\ inTick
  /\ body # "alive"
  /\ inTick' = FALSE
  /\ UNCHANGED <<carried, body, got, ammo, active, queued, reload, held, inputs,
                 menu, found, synced>>

\* CCharacter::Die, by what others do in a tick or between ticks: the object stays.
DieByOthers ==
  /\ body = "alive"
  /\ body' = "dead"
  /\ menu' = FALSE
  /\ UNCHANGED <<carried, got, ammo, active, queued, reload, held, inputs, inTick,
                 found, synced>>

-----------------------------------------------------------------------------
(* Inputs between two ticks.                                                *)

\* Mutant of MayAct: a character that has only just spawned acts as well.
MayActAtOnce == ~inTick /\ body # "none"

\* CPlayer::OnDirectInput reaches the object, dead or alive.
MayAct == ~inTick /\ body # "none" /\ inputs > 2

\* HandleWeaponSwitch: the queue when w is wanted, by number or by going on to the
\* next or the last weapon that the character has.
HandleWeaponSwitch(w) == IF w \in got /\ w # active THEN w ELSE queued

\* OnDirectInput.  Fire was pressed since the last input or not.
DirectInput(w, pressed, down) ==
  /\ MayAct
  /\ held' = down
  /\ LET q == IF menu THEN queued ELSE HandleWeaponSwitch(w)
         sw == IF menu THEN <<active, q>> ELSE DoWeaponSwitch(q)
     IN  IF Reloading THEN NoFire(sw)
         ELSE FireWeapon(sw, pressed, down, ammo) \/ NoFire(sw)
  /\ UNCHANGED <<body, got, ammo, inputs, menu, inTick, found, synced>>

\* OpenMenu and CloseMenu.
ToggleMenu ==
  /\ ~inTick
  /\ menu' = ~menu
  /\ UNCHANGED <<carried, body, got, ammo, active, queued, reload, held, inputs,
                 inTick, found, synced>>

ArmsNext ==
  \/ \E i \in AllItems :
       \/ MakeItem(i)
       \/ ItemTable[i].weapon = -1 /\ ItemTable[i].ammo = -1 /\ TakePickup(i)
       \/ \E n \in 0 .. 1 : SyncItem(i, n)
  \/ ClearInv \/ PlayerTick \/ CharacterTick \/ TickDone
  \/ DieByOthers \/ ToggleMenu
  \/ \E w \in WeaponIds, pressed, down \in BOOLEAN : DirectInput(w, pressed, down)

ArmsSpec == ArmsInit /\ [][ArmsNext]_armsVars

-----------------------------------------------------------------------------
\* Although shots are paid from the inventory and allowed by the copy of the last
\* tick, nothing is spent that is not there, as long as no SyncItem thread has
\* overwritten it; and the loops that look for a weapon find one: an input never
\* reaches a character that has none (character.cpp:236-253).
ArmsHold ==
  /\ ~synced => \A i \in AllItems : Listed(i) => carried[i] >= 0
  /\ MayAct => got # {}
=============================================================================
