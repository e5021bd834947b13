------------------------------ MODULE ServerInfo ------------------------------
(***************************************************************************)
(* What the server tells a server browser: CServer::CacheServerInfo,       *)
(* SendServerInfo, RateLimitServerInfoConnless, UpdateServerInfo and the   *)
(* places that expire the information (engine/server/server.cpp,           *)
(* game/server/gamecontext.cpp).  The information is put together once     *)
(* and cut into chunks, each of which is one datagram; there is a copy for *)
(* each protocol, with and without the clients.                            *)
(*                                                                         *)
(* Abstractions.  A client is listed by its name; clan, country, score and *)
(* the team share the name's life and are left out.  SizeOf gives the      *)
(* length of a client's entry, PrefixSize that of the server's own fields, *)
(* Room is NET_MAX_PAYLOAD - 18.  A second has SecondLength steps of time. *)
(* A name is the one asked for and the number that SetClientName put in    *)
(* front of it, 0 for none; names are short enough to be kept whole, and   *)
(* none that is asked for has a number in front of it already.             *)
(***************************************************************************)
EXTENDS Integers, Sequences, FiniteSets, SequencesExt

CONSTANTS
  Slots,        \* the first MAX_PLAYERS slots, numbers
  ClientNames,  \* names a client can ask for
  SizeOf(_),    \* length of the entry of a client with that name
  PrefixSize,   \* length of the server's own fields
  Room,         \* an extended datagram is full at this length
  VanillaMax,      \* VANILLA_MAX_CLIENTS
  LegacyChunk,  \* 24: clients in a datagram of the 64 player protocol
  PerSecond,    \* sv_server_info_per_second
  MaxRequests,  \* bound: requests in a behaviour
  MaxClock      \* bound: steps of time

\* Shown for a client that has no name yet, or is not yet in the game.
NoName == <<0, "connecting">>
Names == ((0 .. Cardinality(Slots)) \X ClientNames) \union {NoName}

\* The server's own fields, or the entry of any client, are in a datagram with room to
\* spare.
ASSUME ServerInfoAssumption ==
  /\ IsFiniteSet(Slots) /\ Slots = 0 .. Cardinality(Slots) - 1
  /\ VanillaMax \in Nat \ {0} /\ LegacyChunk \in Nat \ {0}
  /\ PerSecond \in Nat \ {0} /\ {PrefixSize, Room, MaxRequests, MaxClock} \subseteq Nat
  /\ PrefixSize < Room
  /\ \A n \in Names : SizeOf(n) \in Nat \ {0} /\ SizeOf(n) + 1 < Room

VARIABLES
  clientState,      \* CClient::m_State: empty, joining (PREAUTH to CONNECTING), ready, ingame
  clientName,       \* CClient::m_aName
  needsUpdate,      \* m_ServerInfoNeedsUpdate
  cache,            \* m_aServerInfoCache: type and m_SendClients to chunks
  requestsCounted,  \* m_ServerInfoNumRequests
  firstRequest,     \* m_ServerInfoFirstRequest
  clock,            \* Tick()
  served            \* history: when answers were sent in full, since the clock began

serverInfoVars ==
  <<clientState, clientName, needsUpdate, cache, requestsCounted, firstRequest, clock, served>>

SecondLength == 2
InfoTypes == {"vanilla", "legacy64", "extended"}
Known == {i \in Slots : clientState[i] \in {"ready", "ingame"}}

\* CServer::ClientName: "(connecting)" before the client is in the game.
ShownName(i) == IF clientState[i] = "ingame" THEN clientName[i] ELSE NoName

-----------------------------------------------------------------------------
(* CacheServerInfo.  A chunk carries the number at its head (the offset of  *)
(* the 64 player protocol, the index of an extended one), whether the       *)
(* server's own fields are in it, its clients and its length.               *)

InfoChunk(number, prefix, size) == [number |-> number, prefix |-> prefix, clients |-> <<>>, size |-> size]

WithClient(c, n) == [c EXCEPT !.clients = Append(@, n), !.size = @ + SizeOf(n)]

\* Adds one client to the last chunk, or to a new one.
AddVanilla(chunks, n) ==
  IF Len(Last(chunks).clients) = VanillaMax THEN chunks
  ELSE Front(chunks) \o <<WithClient(Last(chunks), n)>>

AddLegacy(chunks, n, stored) ==
  IF Len(Last(chunks).clients) = LegacyChunk
    THEN Append(chunks, WithClient(InfoChunk(stored, TRUE, PrefixSize), n))
    ELSE Front(chunks) \o <<WithClient(Last(chunks), n)>>

AddExtended(chunks, n) ==
  IF WithClient(Last(chunks), n).size >= Room
    THEN Append(chunks, WithClient(InfoChunk(Len(chunks), FALSE, 1), n))
    ELSE Front(chunks) \o <<WithClient(Last(chunks), n)>>

AddClient(type, chunks, n, stored) ==
  CASE type = "vanilla" -> AddVanilla(chunks, n)
    [] type = "legacy64" -> AddLegacy(chunks, n, stored)
    [] type = "extended" -> AddExtended(chunks, n)

\* The clients in the order of their slots.
ClientList ==
  LET upTo[n \in 0 .. Cardinality(Slots)] ==
        IF n = 0 THEN <<>>
        ELSE IF clientState[n - 1] = "empty" THEN upTo[n - 1]
        ELSE Append(upTo[n - 1], ShownName(n - 1))
  IN  upTo[Cardinality(Slots)]

CacheServerInfo(type, sendClients) ==
  LET list == IF sendClients THEN ClientList ELSE <<>>
      chunksOf[k \in 0 .. Len(list)] ==
        IF k = 0 THEN <<InfoChunk(0, TRUE, PrefixSize)>>
        ELSE AddClient(type, chunksOf[k - 1], list[k], k - 1)
  IN chunksOf[Len(list)]

-----------------------------------------------------------------------------
ServerInfoInit ==
  /\ clientState = [i \in Slots |-> "empty"] /\ clientName = [i \in Slots |-> NoName]
  /\ needsUpdate = FALSE /\ cache = [t \in InfoTypes |-> [b \in BOOLEAN |-> CacheServerInfo(t, b)]]
  /\ requestsCounted = 0 /\ firstRequest = 0 /\ clock = 0 /\ served = <<>>

LimitUnchanged == UNCHANGED <<requestsCounted, firstRequest, clock, served>>

\* NewClientCallback: the information is left as it is.
Joins(i) ==
  /\ clientState[i] = "empty" /\ clientState' = [clientState EXCEPT ![i] = "joining"]
  /\ UNCHANGED <<clientName, needsUpdate, cache>> /\ LimitUnchanged

\* READY: OnClientConnected expires the information (ExpireServerInfo).
Ready(i) ==
  /\ clientState[i] = "joining" /\ clientState' = [clientState EXCEPT ![i] = "ready"]
  /\ needsUpdate' = TRUE
  /\ UNCHANGED <<clientName, cache>> /\ LimitUnchanged

\* ENTERGAME: OnClientEnter expires it.
EnterForgets == needsUpdate
EnterExpires == TRUE

EntersGame(i) ==
  /\ clientState[i] = "ready" /\ clientState' = [clientState EXCEPT ![i] = "ingame"]
  /\ needsUpdate' = EnterExpires
  /\ UNCHANGED <<clientName, cache>> /\ LimitUnchanged

\* TrySetClientName: the client's own name is taken as it is, any other only if no other
\* client from READY on has it.
TrySetClientName(i, name) ==
  name = clientName[i] \/ name \notin {clientName[j] : j \in Known \ {i}}

\* SetClientName: the name that was asked for, or the first numbered one that will do.
SetClientName(i, n) ==
  LET number == CHOOSE k \in 0 .. Cardinality(Slots) :
                  /\ TrySetClientName(i, <<k, n>>)
                  /\ \A j \in 0 .. k - 1 : ~TrySetClientName(i, <<j, n>>)
  IN  <<number, n>>

\* STARTINFO and CHANGEINFO.
ChangesName(i) ==
  /\ i \in Known
  /\ \E n \in ClientNames : clientName' = [clientName EXCEPT ![i] = SetClientName(i, n)]
  /\ needsUpdate' = TRUE
  /\ UNCHANGED <<clientState, cache>> /\ LimitUnchanged

\* DelClientCallback: only a client that was READY is reported to the game, and
\* so only its leaving expires the information.
LeaveExpires(i) == needsUpdate \/ i \in Known

Leaves(i) ==
  /\ clientState[i] # "empty"
  /\ clientState' = [clientState EXCEPT ![i] = "empty"] /\ clientName' = [clientName EXCEPT ![i] = NoName]
  /\ needsUpdate' = LeaveExpires(i)
  /\ UNCHANGED cache /\ LimitUnchanged

\* The main loop: UpdateServerInfo.
UpdateServerInfo ==
  /\ needsUpdate /\ needsUpdate' = FALSE
  /\ cache' = [t \in InfoTypes |-> [b \in BOOLEAN |-> CacheServerInfo(t, b)]]
  /\ UNCHANGED <<clientState, clientName>> /\ LimitUnchanged

\* A map is loaded: the clients from READY on begin again, with the names they have,
\* and so does the clock; the requests that were counted stay counted.
NowJoining == [i \in Slots |-> IF i \in Known THEN "joining" ELSE clientState[i]]

Reloads ==
  /\ clientState' = NowJoining
  /\ cache' = [t \in InfoTypes |-> [b \in BOOLEAN |-> CacheServerInfo(t, b)']]
  /\ needsUpdate' = FALSE
  /\ clock' = 0 /\ firstRequest' = 0 /\ served' = <<>>
  /\ UNCHANGED <<clientName, requestsCounted>>

\* PumpNetwork, SendServerInfoConnless and RateLimitServerInfoConnless: whether
\* the clients are sent is decided before the request is counted.
Request ==
  /\ Len(served) < MaxRequests
  /\ served' = IF requestsCounted <= PerSecond THEN Append(served, clock) ELSE served
  /\ IF clock <= firstRequest + SecondLength
       THEN requestsCounted' = requestsCounted + 1 /\ UNCHANGED firstRequest
       ELSE requestsCounted' = 1 /\ firstRequest' = clock
  /\ requestsCounted <= MaxRequests
  /\ UNCHANGED <<clientState, clientName, needsUpdate, cache, clock>>

ClockTicks ==
  /\ clock < MaxClock /\ clock' = clock + 1
  /\ UNCHANGED <<clientState, clientName, needsUpdate, cache, requestsCounted, firstRequest, served>>

ServerInfoNext ==
  \/ UpdateServerInfo \/ Reloads \/ Request \/ ClockTicks
  \/ \E i \in Slots : Joins(i) \/ Ready(i) \/ EntersGame(i) \/ ChangesName(i) \/ Leaves(i)

ServerInfoSpec == ServerInfoInit /\ [][ServerInfoNext]_serverInfoVars

-----------------------------------------------------------------------------
(* The properties.                                                          *)

\* The types of the fields; an entry of the cache is never empty.
ServerInfoTypeOK ==
  /\ clientState \in [Slots -> {"empty", "joining", "ready", "ingame"}]
  /\ clientName \in [Slots -> Names]
  /\ needsUpdate \in BOOLEAN
  /\ \A t \in InfoTypes, b \in BOOLEAN : cache[t][b] # <<>>
  /\ {requestsCounted, firstRequest, clock} \subseteq Nat

ClientsOf(chunks) ==
  LET upTo[k \in 0 .. Len(chunks)] ==
        IF k = 0 THEN <<>> ELSE upTo[k - 1] \o chunks[k].clients
  IN  upTo[Len(chunks)]

\* The chunks of every protocol hold the same clients in the same order, as many
\* as the protocol knows, none lost or repeated where a chunk is full; the
\* offset of a chunk of the 64 player protocol is the number of clients in the
\* chunks before, an extended one carries its index, and each has room in its
\* datagram (CacheServerInfo); the copies without clients have none.
ChunksAreWhole ==
  /\ LET all == ClientsOf(cache["extended"][TRUE])
     IN /\ ClientsOf(cache["legacy64"][TRUE]) = all
        /\ ClientsOf(cache["vanilla"][TRUE])
             = SubSeq(all, 1, IF Len(all) < VanillaMax THEN Len(all) ELSE VanillaMax)
  /\ \A k \in DOMAIN cache["legacy64"][TRUE] :
       cache["legacy64"][TRUE][k].number = Len(ClientsOf(SubSeq(cache["legacy64"][TRUE], 1, k - 1)))
  /\ \A k \in DOMAIN cache["extended"][TRUE] :
       cache["extended"][TRUE][k].number = k - 1 /\ cache["extended"][TRUE][k].size < Room
  /\ \A t \in InfoTypes : ClientsOf(cache[t][FALSE]) = <<>>

\* While no update is due, a name is shown as often as there are clients in the game that
\* have it, whatever joined, left, was renamed or sent back to joining by a new map since
\* (ExpireServerInfo is called wherever a client that was READY comes, goes or takes a
\* name; one that never was READY may be listed as "(connecting)" after it left).
InfoIsCurrent ==
  LET shown == ClientsOf(cache["extended"][TRUE])
  IN ~needsUpdate =>
       \A n \in Names \ {NoName} :
         Cardinality({k \in DOMAIN shown : shown[k] = n})
           = Cardinality({i \in Slots : clientState[i] = "ingame" /\ clientName[i] = n})

ServerInfoIsWhole == ChunksAreWhole /\ InfoIsCurrent

\* "make sure that two clients doesn't have the same name" (TrySetClientName).  A client
\* that a new map sends back keeps its name without having it (README, section 4).
NamesAreUnique ==
  \A i, j \in Known : clientName[i] = clientName[j] /\ clientName[i] # NoName => i = j

\* sv_server_info_per_second is the "Maximum number of complete server info
\* responses that are sent out per second" (config_variables.h); the answer that
\* is decided before its request is counted is one more.
\* The code does not keep to it (README, section 4), and no run checks it.
AnswersAreLimited ==
  \A k \in DOMAIN served :
    Cardinality({j \in DOMAIN served : j >= k /\ served[j] < served[k] + SecondLength}) <= PerSecond
=============================================================================
