-------------------------------- MODULE IdMap --------------------------------
(***************************************************************************)
(* The short player IDs of one client.  A client knows VANILLA_MAX_CLIENTS *)
(* players, the server has more: for each client it keeps a map of short   *)
(* IDs to real ones.  CPlayer::CPlayer makes the map (game/server/         *)
(* player.cpp), CGameWorld::UpdatePlayerMaps keeps the nearest players in  *)
(* it (game/server/gameworld.cpp), and IServer::Translate,                 *)
(* ReverseTranslate and SendPackMsgTranslate read it (engine/server.h).    *)
(*                                                                         *)
(* Abstractions.  A distance is a number: 0, near (below 1300, on the      *)
(* screen), or far.  The order that nth_element leaves is any that has the *)
(* nearest first.  Fewer than VANILLA_MAX_CLIENTS players stand on the     *)
(* very place of the client: with more of them it would be left to         *)
(* nth_element whether the client is among the nearest.                    *)
(***************************************************************************)
EXTENDS Integers, Sequences, SequencesExt, FiniteSetsExt

CONSTANTS
  Me,       \* the real ID of the client
  Others,   \* the other real IDs
  Vanilla   \* VANILLA_MAX_CLIENTS

ASSUME IdMapAssumption ==
  /\ Me \notin Others /\ Vanilla \in Nat /\ Vanilla > 1
  /\ -1 \notin Others \union {Me}
  \* MAX_CLIENTS is above VANILLA_MAX_CLIENTS.
  /\ IsFiniteSet(Others) /\ Cardinality(Others) >= Vanilla

VARIABLES
  idMap,    \* the map of the client
  present,   \* the others that are in the game
  said      \* what was last sent to the client: of whom, and under which short ID

idMapVars == <<idMap, present, said>>

Reals == Others \union {Me}
Shorts == 0 .. Vanilla - 1
Near == 1       \* below 1300
Far == 2        \* visible to nobody, but in the game
Nowhere == 3    \* 1e10: not in the game
Nothing == [kind |-> "nothing", from |-> Me, as |-> -1]

IdMapTypeOK ==
  /\ idMap \in [Shorts -> Reals \union {-1}]
  /\ present \subseteq Others
  /\ said \in [kind : {"nothing", "chat", "kill", "emoticon"}, from : Reals, as : Shorts \union {-1}]

IdMapInit ==
  /\ idMap = [i \in Shorts |-> IF i = 0 THEN Me ELSE -1]
  /\ present = {} /\ said = Nothing

-----------------------------------------------------------------------------
(* UpdatePlayerMaps.                                                        *)

Distances ==
  {d \in [Reals -> 0 .. Nowhere] :
     /\ d[Me] = 0
     /\ \A j \in Others : d[j] = Nowhere <=> j \notin present
     /\ Cardinality({j \in Reals : d[j] = 0}) < Vanilla}

\* nth_element: the first Vanilla - 1 are no farther than the next, and that one
\* no farther than the rest.
Orders(d) ==
  {o \in SetToSeqs(Reals) :
     \A i, j \in DOMAIN o : i <= Vanilla /\ j >= Vanilla => d[o[i]] <= d[o[j]]}

\* Who is no longer in the game leaves the map.
Kept(d) == [i \in Shorts |-> IF idMap[i] # -1 /\ d[idMap[i]] = Nowhere THEN -1 ELSE idMap[i]]

\* The last short ID is nobody's.
RoomFor(m) == {i \in 0 .. Vanilla - 2 : m[i] = -1}

\* Mutant of Give: who has an ID gets another.
GiveAgain(m, k) == IF RoomFor(m) = {} THEN m ELSE [m EXCEPT ![Min(RoomFor(m))] = k]

\* The nearest get the first free ID; those on the screen that find none count.
Give(m, k) ==
  IF k \in Range(m) \/ RoomFor(m) = {} THEN m ELSE [m EXCEPT ![Min(RoomFor(m))] = k]

\* The maps after each of the first that are in the game was given an ID.
Served(m, o, d) ==
  LET served[n \in 0 .. Vanilla - 1] ==
        IF n = 0 THEN m
        ELSE IF d[o[n]] = Nowhere THEN served[n - 1]
        ELSE Give(served[n - 1], o[n])
  IN  served

Given(m, o, d) == Served(m, o, d)[Vanilla - 1]

Demand(m, o, d) ==
  Cardinality({n \in 1 .. Vanilla - 1 : d[o[n]] <= Near /\ o[n] \notin Range(Given(m, o, d))})

\* As many of the farther ones lose theirs, from the end of the order.
Lost(m, o, count) ==
  LET old == {j \in Vanilla .. Len(o) : o[j] \in Range(m)}
  IN  {o[j] : j \in {i \in old : Cardinality({k \in old : k > i}) < count}}

UpdatePlayerMaps ==
  /\ \E d \in Distances : \E o \in Orders(d) :
       LET given == Given(Kept(d), o, d)
           lost == Lost(Kept(d), o, Demand(Kept(d), o, d))
       IN  idMap' = [i \in Shorts |-> IF i = Vanilla - 1 \/ given[i] \in lost THEN -1
                                      ELSE given[i]]
  /\ UNCHANGED <<present, said>>

-----------------------------------------------------------------------------
(* What names a player is sent under the short ID.                          *)

Translated(k) == k \in Range(idMap)
Translate(k) == Min({i \in Shorts : idMap[i] = k})

\* Chat of who has no short ID comes from the last one, with the name in front.
SendChat(k) ==
  /\ said' = [kind |-> "chat", from |-> k,
              as |-> IF Translated(k) THEN Translate(k) ELSE Vanilla - 1]
  /\ UNCHANGED <<idMap, present>>

SendEmoticon(k) ==
  /\ Translated(k)
  /\ said' = [kind |-> "emoticon", from |-> k, as |-> Translate(k)]
  /\ UNCHANGED <<idMap, present>>

\* A kill is told if the victim has an ID; a killer without one is the victim.
SendKill(killer, victim) ==
  /\ Translated(victim)
  /\ said' = [kind |-> "kill", from |-> IF Translated(killer) THEN killer ELSE victim,
              as |-> Translate(IF Translated(killer) THEN killer ELSE victim)]
  /\ UNCHANGED <<idMap, present>>

Enter(k) ==
  /\ present' = present \union {k}
  /\ UNCHANGED <<idMap, said>>

\* The map is not told until the next update.
LeaveGame(k) ==
  /\ present' = present \ {k}
  /\ UNCHANGED <<idMap, said>>

IdMapNext ==
  \/ UpdatePlayerMaps
  \/ \E k \in present \union {Me} : SendChat(k) \/ SendEmoticon(k)
  \/ \E k, v \in present \union {Me} : SendKill(k, v)
  \/ \E k \in Others \ present : Enter(k)
  \/ \E k \in present : LeaveGame(k)

IdMapSpec == IdMapInit /\ [][IdMapNext]_idMapVars

-----------------------------------------------------------------------------
\* A player has one short ID at most, and the client has one for itself ("always
\* send the player himself"); the last ID is nobody's ("player with empty name to say chat msgs"), so that
\* chat under it is of a player without one.
IdMapServesClient ==
  /\ \A i, j \in Shorts : idMap[i] = idMap[j] /\ idMap[i] # -1 => i = j
  /\ Me \in Range(idMap)
  /\ idMap[Vanilla - 1] = -1
=============================================================================
