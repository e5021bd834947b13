--------------------------------- MODULE Menu ---------------------------------
(***************************************************************************)
(* The menus drawn into the message of the day: CMenu                      *)
(* (game/server/gamemenu.cpp) and the menu of a player                     *)
(* (game/server/player.cpp).                                               *)
(*                                                                         *)
(* One CMenu serves all players.  ShowMenu first lists the options of the  *)
(* page in m_DataTemp, an array of strings of the CMenu itself, and leaves *)
(* in the player's m_SelectOption a pointer to the text of the marked row. *)
(* The next ShowMenu, for whichever player, frees those strings: from then *)
(* on m_SelectOption dangles.  UseOptions reads it.                        *)
(*                                                                         *)
(* Abstractions.  An option is a name; the text around it, the chat line   *)
(* under it and the languages are left out.  What using an option does to  *)
(* the inventory is in Arms.                                               *)
(***************************************************************************)
EXTENDS Integers, Sequences

CONSTANTS
  Viewers,     \* the players
  MakeItems,   \* the names given to RegisterMake, in order
  Rows,        \* rows of the menu window (7)
  CloseTicks,  \* MENU_CLOSETICK
  MaxLine,     \* bound: how far a player scrolls
  NoOption     \* a text that names no option

MainOptions == <<"Player Inventory", "Make Item", "Sit">>

ASSUME MenuAssumption ==
  /\ Rows \in Nat \ {0} /\ CloseTicks \in Nat \ {0} /\ MaxLine \in Nat
  /\ MakeItems \in Seq(STRING) /\ MakeItems # <<>>   \* the item file is there
  /\ \A i \in DOMAIN MakeItems : MakeItems[i] # NoOption
  /\ \A i \in DOMAIN MainOptions : MainOptions[i] # NoOption

VARIABLES
  menus,    \* the menu of each player
  lastUse   \* history: what the last UseOptions did, and if the text it read was there

menuVars == <<menus, lastUse>>

PageNames == {"main", "item"}
OptionNames ==
  {MainOptions[i] : i \in DOMAIN MainOptions} \union {MakeItems[i] : i \in DOMAIN MakeItems}
Buttons == {"fire", "hook"}

MenuRecords ==
  [body : BOOLEAN,                        \* m_pCharacter
   open : BOOLEAN,                        \* m_Menu
   page : PageNames,                      \* m_MenuPage
   line : -MaxLine .. MaxLine,            \* m_MenuLine
   update : BOOLEAN,                      \* m_MenuNeedUpdate
   close : 0 .. CloseTicks,               \* m_MenuCloseTick
   down : SUBSET Buttons,                 \* the buttons of m_PrevInput
   marked : OptionNames \union {NoOption},\* the row marked in the last menu sent
   live : BOOLEAN]                        \* m_SelectOption still points to it

MenuTypeOK ==
  /\ menus \in [Viewers -> MenuRecords]
  /\ lastUse \in [did : {"none", "shown", "other", "unknown"}, live : BOOLEAN]

MenuInit ==
  /\ menus = [p \in Viewers |->
       [body |-> FALSE, open |-> FALSE, page |-> "main", line |-> 0,
        update |-> FALSE, close |-> 0, down |-> {}, marked |-> NoOption,
        live |-> FALSE]]
  /\ lastUse = [did |-> "none", live |-> FALSE]

(***************************************************************************)
(* GetData: the options of a page, in the order they were registered.      *)
(***************************************************************************)
Options(page) == IF page = "main" THEN MainOptions ELSE MakeItems

\* The row ShowMenu marks: with more options than rows it scrolls them under
\* the middle row.
MarkedRow(options, line) ==
  LET shift == IF Len(options) > Rows THEN Rows \div 2 ELSE 0
  IN  options[((line + shift) % Len(options)) + 1]

(***************************************************************************)
(* ShowMenu for p.  Listing the options frees the texts every other        *)
(* player's m_SelectOption points to.                                      *)
(***************************************************************************)
ShowMenu(ms, p) ==
  LET options == Options(ms[p].page)
      freed == [q \in Viewers |-> [ms[q] EXCEPT !.live = FALSE]]
  IN  IF options = <<>> THEN freed
      ELSE [freed EXCEPT ![p].marked = MarkedRow(options, ms[p].line),
                         ![p].live = TRUE]

CloseMenu(ms, p) == [ms EXCEPT ![p].open = FALSE, ![p].line = 0]

OpenMenu(ms, p) ==
  [ms EXCEPT ![p].open = TRUE, ![p].page = "main", ![p].update = TRUE,
             ![p].close = CloseTicks]

SetMenuPage(ms, p, page) ==
  [ms EXCEPT ![p].page = page, ![p].update = TRUE, ![p].close = CloseTicks]

AddMenuChat(ms, p) == [ShowMenu(ms, p) EXCEPT ![p].close = CloseTicks]

\* FindOption: the option of that name, if the player's page has it.
FindOption(name, page) ==
  IF \E i \in DOMAIN Options(page) : Options(page)[i] = name THEN {name} ELSE {}

\* The texts m_SelectOption may read: of freed memory, anything.
Reads(m) == IF m.live THEN {m.marked} ELSE OptionNames \union {NoOption}

(***************************************************************************)
(* UseOptions when m_SelectOption reads `name': the menus after it.  Items *)
(* are made, which answers with a line under the menu (AddMenuChat); the   *)
(* other options have a callback, of which "Make Item" opens the item page.*)
(***************************************************************************)
UseOption(ms, p, name) ==
  IF name \in {"Player Inventory", "Sit"} THEN CloseMenu(ms, p)
  ELSE LET shown == AddMenuChat(ms, p)
       IN  IF name = "Make Item" THEN SetMenuPage(shown, p, "item") ELSE shown

\* UseOptions, of which `after' says what the rest of the tick does.
UseOptions(ms, p, after(_)) ==
  \E name \in Reads(ms[p]) :
    IF FindOption(name, ms[p].page) = {}
    THEN menus' = after(ms) /\ lastUse' = [did |-> "unknown", live |-> ms[p].live]
    ELSE /\ menus' = after(UseOption(ms, p, name))
         /\ lastUse' = [did |-> IF name = ms[p].marked THEN "shown" ELSE "other",
                        live |-> ms[p].live]

(***************************************************************************)
(* CPlayer::Tick.  A button counts when it goes down.  The menu is drawn   *)
(* first if something changed, so that what is used next is what is shown. *)
(***************************************************************************)
Redrawn(ms, p) ==
  IF ms[p].update THEN [ShowMenu(ms, p) EXCEPT ![p].update = FALSE] ELSE ms

CountsDown(ms, p) ==
  LET left == [ms EXCEPT ![p].close = @ - 1]
  IN  CASE ms[p].close = 0 -> ms
        [] ms[p].close = 1 -> CloseMenu(left, p)
        [] OTHER           -> left

\* A hook button that forgets to have the menu drawn again.
BackToMainUndrawn(ms, p) == [ms EXCEPT ![p].page = "main"]

BackToMain(ms, p) == [ms EXCEPT ![p].page = "main", ![p].update = TRUE]

MenuTick(p, buttons) ==
  LET pressed == buttons \ menus[p].down
      drawn == CountsDown(Redrawn(menus, p), p)
      Rest(ms) == [(IF "hook" \in pressed THEN BackToMain(ms, p) ELSE ms)
                     EXCEPT ![p].down = buttons]
  IN  /\ menus[p].open /\ menus[p].body
      /\ IF "fire" \in pressed THEN UseOptions(drawn, p, Rest)
         ELSE menus' = Rest(drawn) /\ UNCHANGED lastUse

\* The same tick while the menu is closed.
IdleTick(p, buttons) ==
  /\ menus[p].body /\ ~menus[p].open
  /\ menus' = [menus EXCEPT ![p].down = buttons]
  /\ UNCHANGED lastUse

(***************************************************************************)
(* HandleWeaponSwitch: with the menu open the weapon keys scroll it.       *)
(***************************************************************************)
Scrolls(p, by) ==
  /\ menus[p].body /\ menus[p].open
  /\ menus[p].line + by \in -MaxLine .. MaxLine
  /\ menus' = [menus EXCEPT ![p].line = @ + by, ![p].update = TRUE,
                            ![p].close = CloseTicks]
  /\ UNCHANGED lastUse

\* The chat command /menu.
MenuCommand(p) ==
  /\ menus' = IF menus[p].open THEN CloseMenu(menus, p) ELSE OpenMenu(menus, p)
  /\ UNCHANGED lastUse

\* SendMenuChat: a line for p, whether its menu is open or not.
MenuChat(p) ==
  /\ menus' = AddMenuChat(menus, p)
  /\ UNCHANGED lastUse

Spawns(p) ==
  /\ ~menus[p].body
  /\ menus' = [menus EXCEPT ![p].body = TRUE, ![p].down = {}]
  /\ UNCHANGED lastUse

\* Die: the menu is closed only when the killer is there and is no bot.
Dies(p, byPlayer) ==
  /\ menus[p].body
  /\ LET dead == [menus EXCEPT ![p].body = FALSE]
     IN  menus' = IF byPlayer THEN CloseMenu(dead, p) ELSE dead
  /\ UNCHANGED lastUse

MenuNext ==
  \E p \in Viewers :
    \/ \E buttons \in SUBSET Buttons : MenuTick(p, buttons) \/ IdleTick(p, buttons)
    \/ \E by \in {-1, 1} : Scrolls(p, by)
    \/ \E byPlayer \in BOOLEAN : Dies(p, byPlayer)
    \/ MenuCommand(p) \/ MenuChat(p) \/ Spawns(p)

MenuSpec == MenuInit /\ [][MenuNext]_menuVars

(***************************************************************************)
(* "Use <mouse1>(Fire) to use option": the fire button uses the option the *)
(* menu on the player's screen marks: UseOptions finds an option on the    *)
(* player's page and it is the marked one (player.cpp:138-163,             *)
(* gamemenu.cpp:211-238).  With a second viewer the text may have been     *)
(* freed (README, section 4).                                              *)
(***************************************************************************)
UsesWhatIsShown == lastUse.did \in {"none", "shown"}

\* It does so, whatever the others do, as long as none of them had a menu drawn after the
\* player's own: a new page is drawn before the fire button is looked at, and what a use,
\* a chat line, a death or the hook button changed is drawn first.
UsesWhatIsShownUnlessFreed == lastUse.live => UsesWhatIsShown
=============================================================================
