# LastDay server: TLA+ models, model checking and proofs

LastDay is a game server of the Teeworlds/DDNet family (C++). Clients talk to it
over UDP; one main loop runs the game, a few threads generate maps, talk to the
account database and register the server. This directory holds the TLA+ modules
that model it, the TLC configurations that check them on small instances, and
the TLAPS proofs. `PROJECT.json` maps every definition to the lines it models;
paths in this file are relative to `src/src/`.

## 1. Inventory

| Part | State it keeps | Operations | What makes it correct |
|---|---|---|---|
| Reliable connection, `engine/shared/network_conn.cpp`, `network.cpp` | state, sequence numbers, resend buffer, packet under construction, token | QueueChunk, Flush, Feed, Update, FetchChunk, Connect, Disconnect, DirectInit | vital chunks arrive once and in order; nothing undelivered is forgotten; eventually delivered |
| Resend buffer, `engine/shared/ringbuffer.cpp` | linked blocks in one piece of memory | Init, Allocate, PopFirst, First, Next | FIFO, no overlap, no leak |
| Server network, `engine/shared/network_server.cpp` | slots, token seed, connection limits | Recv, OnTokenCtrlMsg, OnPreConnMsg, OnConnCtrlMsg, TryAcceptClient, Update, Drop, Send | one slot per address; callbacks in step with slots; both ends agree on the token |
| Client network, `engine/shared/network_client.cpp`, STUN, `network_stun.cpp`, `stun.cpp` | one connection; the retry timer and the last answer | Connect, Disconnect, Update, Recv, Send; FeedStunServer, Update, OnPacket | a connection attempt ends; so does looking for the own address |
| Client sessions, `engine/server/server.cpp` | `m_aClients[i].m_State` (EMPTY, PREAUTH, AUTH, CONNECTING, READY, INGAME), rights | callbacks of the network, ProcessClientPacket, Kick | a player object exactly for READY and INGAME clients; a client enters with the current map |
| Main loop and map reload, `engine/server/server.cpp` 1822-2137 | `m_MapReload`, `m_GeneratedMap`, `m_MapLock`, map file, map in memory | Run, LoadMap, GenerateMap, ReloadMapThread | a requested map is loaded; what is served is what is announced |
| Map generator, `engine/server/mapgen.cpp`, `game/layers.cpp` | tiles, areas, layers, images | GenerateGameLayer and what follows it, CLayers::Init | all air is one area, the edge is solid, what is drawn is what is there |
| Snapshots and their ids, `engine/shared/snapshot.cpp`, `server.cpp` 73-159 and 676-806 | per client a list of stored snapshots, last acked tick, rate; free and timed ids | DoSnapshot, Add, Get, PurgeUntil, CreateDelta, UnpackDelta; NewID, FreeID, TimeoutIDs | deltas against a snapshot the client has; they restore it; an id names one entity |
| Short player ids, `engine/server.h`, `game/server/gameworld.cpp` | per client a map of 64 ids | UpdatePlayerMaps, Translate, ReverseTranslate | the client knows itself and those near it, each under one id |
| Remote console, `engine/server/server.cpp`, `engine/shared/console.cpp` | rights, tries, position in the command list | login, logout, UpdateClientRconCommands, mod_command | the client is told of what it may use |
| External console, `engine/shared/econ.cpp`, `network_console*.cpp` | TCP slots in two arrays, line buffers | Update, Recv, Drop | lines are whole and in order |
| Bans, `engine/shared/netban.cpp`, `netban.h` | pools, hash lists, a list sorted by expiry | BanAddr, BanRange, Unban*, Update, IsBanned, bans_save | found iff listed; expiry in order; no banned client stays |
| Server information, `engine/server/server.cpp` | cached chunks, rate limit | CacheServerInfo, SendServerInfo, ExpireServerInfo, SetClientName | whole, current, each client once |
| Registration, `engine/server/register.cpp` | per protocol status, serials; jobs | Update, OnToken, OnConfigChange, OnNewInfo, job results | old answers do not undo new ones; the master ends with the current information |
| Master server, `mastersrv/mastersrv.cpp` | servers, servers to check, packets | heartbeat, check, purge, build packets | what is listed is alive |
| Job pool, HTTP requests, `engine/shared/jobs.cpp`, `http.cpp` | job list, workers; state and buffer of a request | Add, WorkerThread, Destroy; Run, OnData, OnProgress, OnCompletion | jobs are taken in order and end; a response is whole |
| Votes, `game/server/gamecontext.cpp` | vote command, close time, votes of players | StartVote, OnTick, OnMessage, AbortVoteKickOnDisconnect | only a majority of this vote enforces; a kick hits whom it was called against; the tally is not stale |
| Game world, `game/server/gameworld.cpp`, `entity.cpp` | entity lists by type, `m_pNextTraverseEntity` | Insert, Remove, Tick, Reset | no list or pointer names a deleted entity; each is called once in a tick |
| Players, bots, characters, weapons | players, teams, bot slots, characters in pools, weapons and ammunition | join, team, respawn, CreateBot, Tick, FireWeapon, Die | a character fires what its inventory has |
| Accounts, inventory, crafting, `game/server/lastday/` | detached threads, SQL lock, rows, items per client | Register, Login, UpdateItem, SyncItem, ClearItem; AddInvItemNum, MakeItem | one row for each account and item; the lock is given back; numbers are never negative |
| Menus, `game/server/gamemenu.cpp` | page, row, pointer to the marked option | ShowMenu, UseOptions | what is used is what is shown |
| Files and codecs: data files, demos, compression, packing | | write and read | what is written reads back |
| Physics, localization, storage, base layer, vendored code | | | not modelled, see section 7 |

How they interact: `CServer::Run` is one thread. Each turn it may load a map,
runs the ticks that are due (`CGameContext::OnTick`), sends snapshots, and calls
`PumpNetwork`: `CNetServer::Update` (timeouts, resends, drops) and
`CNetServer::Recv` until the socket is empty. `CNetServer` calls back into
`CServer` when a slot is taken, rejoined or dropped, `CServer` calls
`CGameContext` when a client connects, enters or leaves. Map generators,
account queries, the bot data loader and jobs are other threads that share
memory with the main loop through a lock or nothing at all.

What is hard to test: loss, duplication and reordering of UDP packets in any
phase of a connection; the wrap of 10-bit sequence numbers; the time between a
close and the next `Update`; the slot that changes owners between a request and
its result; entities deleted while a list is walked; threads whose answers come
late or out of order. `PROJECT.json` lists each such hazard at its line, with
the properties that would catch it going wrong.

## 2. Modules

| Module | What it models |
|---|---|
| `SeqNumbers` | arithmetic of sequence numbers: `IsSeqInBackroom`, the ack window of `Feed` |
| `NetConn` | two `CNetConnection`s that are online with each other, and the network between them |
| `VitalChannel` | abstract: what a connection promises about vital messages |
| `Handshake` | slots, connection states and tokens of server and clients |
| `RingBuffer`, `Fifo` | `CRingBufferBase` at the level of blocks and pointers; abstract: what it promises |
| `Session` | states of clients on the server and their player objects, from the callbacks of `CNetServer` to the game |
| `Votes` | the votes of the game context over `Session`: calls, votes, tally, execution, abort |
| `World` | entity lists, characters and the pointers to them, through ticks, messages and map reloads |
| `MapReload`, `MapChange`, `MapGen` | the threads and the file of a new map; one client that is to get it; how it is made |
| `Accounts`, `Arms`, `Menu` | account threads and saved items; the inventory a character fires; the menus that show it |
| `JobPool`, `Register`, `HttpRequest` | the worker threads; registration at the master; a request that a worker makes |
| `Stun` | how a client finds out its global address |
| `Snapshots`, `SnapshotDelta`, `IdMap` | stored snapshots and ids of entities; deltas; ids of players |
| `Rcon`, `Econ`, `Bans` | the consoles and bans |
| `ServerInfo`, `MasterServer` | what a browser is told of the server; the master of the old protocol |
| `DataFile`, `Demo`, `Packing`, `Huffman` | the codecs |
| `Services` | what snapshots, ids, bans, consoles, inventory and menus promise together |
| `NetConnProofs`, `DataProofs`, `HandshakeProofs`, `VotesProofs`, `WorldProofs`, `ThreadsProofs`, `ServicesProofs` | theorems |
| `Lemmas` | facts about numbers and sequences that they share |
| `MCConnections`, `MCVotes`, `MCThreads`, `MCServices`, `MCMenu`, `MCNames` | constants, bounds and composition for the runs; `World` and `MapReload` need none |

The comment at the head of each module says what it leaves out.

**NetConn.** `sequence`, `ack`, `peerAck`, `buffer`, `construct`, `resendFlag`
are the fields `m_Sequence`, `m_Ack`, `m_PeerAck`, `m_Buffer`, `m_Construct` and
its resend flag; `inbox` is what `CNetRecvUnpacker` has not handed out; `net` is
the network. The actions are the functions: `QueueChunk`, `Flush`, `Update` (oldest
chunk resent, construct flushed or keepalive sent), `Timeout`, `Receive` (`Feed`
with `Resend` and `AckChunks`), `FetchChunk`. `FetchChunk` may be
interleaved with sends, as the server handles a chunk before it fetches the next.
A packet is a window of the stream with the ack of the moment it was sent. The
history variables `sent`, `got`, `broken` number the messages. A full resend
buffer is modelled as the code has it: the number is used and the chunk goes
out, but is not kept; from then on `broken` holds and the promises end. Left out: a
slot that the handshake of old clients took (`SetUnknownSeq`), which takes the first
number as it comes; both ends begin with 0.

**Handshake.** One record per client connection and per slot: state and token.
The packets are CONNECT, CONNECTACCEPT, ACCEPT, CLOSE and, for the check of
vanilla clients, the empty snapshot and the input that answers it. The
callbacks into `CServer` are part of the action that calls them, so `client[s]`
is `m_aClients[s].m_State` as far as the callbacks set it. Sequence numbers are
abstracted to a choice whether `Feed` takes a CLOSE.

**RingBuffer.** Sizes and offsets in units of `sizeof(CItem)`, to which the code
rounds. `Allocate` is `FindBlock`, `Split` and `Take`; `PopFirst` is the
merging loop of the code.

**Session.** `state[s]` is `m_aClients[s].m_State`, `player[s]` is
`m_apPlayers[s]` with `m_IsReady`, `m_Team`, `m_Vote`, `m_VotePos`; the map of
ids a client sees to slots is reduced to the slots in it (`known`). The operators
are the callbacks `NewClientCallback`, `DelClientCallback`, the messages INFO,
READY, ENTERGAME and STARTINFO, and the reset by a map reload. A new client
takes the lowest free slot, as in `TryAcceptClient`. Left out: bots, rights,
names, inputs; a rejoin changes neither state nor player.

**Votes.** EXTENDS `Session`; its actions call the operators of `Session` and add
what the game context does to the vote: `m_VoteCloseTime` is `close` (none,
running, abort), `m_aVoteCommand` the record `command`, `m_VoteEnforce`,
`m_VoteUpdate` and `m_VotePos` are `enforce`, `update`, `pos`. The tally is
written as sets (`Voters`, `SameAddress`, `ActVote`) where the code has two
nested loops with a table of those already counted. The three parts of a tick,
world, controller and votes, are actions of their own, so messages may come
between them: the model has more orders than the code. What a passed vote
executes is modelled down to the clients it drops (`Kick`, `BanExt`). The history
variables `session`, `target`, `ballots` and `forced` say who is meant, where the
code has slots only. Left out: cooldowns, `sv_vote_kick_min`, the votes an
authenticated client forces, and time but for the 25 seconds of a vote.

**World.** The lists are doubly linked (`m_pNextTypeEntity`, `m_pPrevTypeEntity`)
and a walk keeps `m_pNextTraverseEntity`, as in the code; what the called entity
does (fire, hit, kill, be picked up, mark itself for destruction) is a choice. A
character is a cell of the pool, so a new character of a slot takes the address
of the old one, while shots take any free cell. The pointers that may dangle are
`m_pCharacter` of a player, the entry in the core of the world, what a shot or an
explosion is about to hit, and the entity of the walk itself.

**JobPool.** A worker takes a job while it has the lock and begins it later: `Fetch`
and `Begin` are two actions, so that a job may begin before one that was taken earlier.

**MapReload, MapChange, MapGen.** `MapReload` has the flags as the code has them:
`m_MapReload`, `m_GeneratedMap`, the lock, the threads that wait for it, and the
file as whole, half written, or absent. `MapChange` follows one client through
INFO, MAP_CHANGE, READY, CON_READY and ENTERGAME while maps change and it
reconnects. `MapGen` takes any two noises, and walks through the stages of the
generator; where the code reads a tile that was never assigned or an area that
was freed the map is "undefined" (section 4).

**Accounts, Arms, Menu.** A thread of `Accounts` goes through its queries under
SQLLock and ends in the game; any query may fail, the process may crash. `MaxThreads`
bounds the threads that are alive at one time, not how many there are in all. `Arms`
keeps the copy that a character has of the inventory apart from the inventory
itself; its table of items is a constant, of which `ArmsAssumption` says what the
item files of the game keep to: one item is the hammer, no weapon is ammunition
as well, and nothing is made of the hammer. `Menu` keeps for each player whether the
string that its marked option points into is still there: a menu drawn for anyone
frees those of all.

**ServerInfo.** Clients join, ask for names, leave, and are sent back to CONNECTING by
a new map, with the names that they have. `TrySetClientName` takes a client's own name
as it is before it looks at those of the others, as in the code.

**Demo.** The recorder, and the player as it is, which does not get back what was
recorded (section 4). Chunks of messages are left out.

**Snapshots, IdMap.** The tick is that of the game, ids time out in real time and
the lag between them is bounded. What the client has is what it could unpack.
`IdMap` assumes that there are more slots than short ids.

**Bans.** The list by expiry is a sequence; a hash list is the set of what is on
it, as nothing depends on its order but the reason that is shown. The hash is the
sum of the bytes modulo its size, and the hash list of a range that of the bytes
its bounds share, as in the code.

**Rcon, Econ.** The command list is kept sorted by insertion as in the code, and a
client walks it by its position. The lines of `Econ` are cut from the buffer of a
connection, which pieces of TCP fill; `LinesUpTo` says what the lines of the whole
text are.

**Register.** A job is a record in `flight`; its two critical sections are two
actions. The master is external and may restart.

**Side by side.** `MCConnections`, `MCThreads` and `MCServices` put parts that share no state into
one run: `part` is chosen at the start, one part moves, the others keep their
first state. Each property holds of a part alone; what they have in common is the
question (lost and repeated packets; order of threads and late answers; every short
sequence of calls).

## 3. Runs

| Run | Question | Bounds |
|---|---|---|
| `connections` | types of both parts; no undelivered chunk is forgotten and `NetConn` implements `VitalChannel`; one slot for each address, callbacks in step with slots, tokens agree | stream: 6 sequence numbers, resend buffer of 2, one chunk per packet, 6 messages (a full wrap), 2 packets in flight, one lost or duplicated; states after an overflow are not explored (`Bounded`). Handshake: IPv6, vanilla and IPv4 client, two of them behind one IP, 2 slots, 3 connects in all, 2 packets in flight, one disturbed |
| `connections_live` | every message is delivered or the connection ends; a connecting client is served or gives up | stream: 3 messages (no wrap), packets of 2 chunks, one in flight, 2 faults, overflow included. Handshake: one client, 2 sessions, 2 disturbed packets |
| `menu` | finding: fire uses text that a menu of another player freed | two players, a window of 3 rows |
| `names` | finding: two clients of one name after a new map | two slots, one name |
| `handshake_ipv4` | finding: tokens of IPv4 clients can differ | one client, one slot; the stream, which shares the module, sends nothing |
| `handshake_rejoin` | finding: a duplicated ACCEPT resets a live connection | as `handshake_ipv4`, IPv6 |
| `votes` | sessions and players, target of a vote, majority, tally in time | 3 slots, 3 clients in all from 2 addresses, kick and ban votes, one client at a time on its way into the game (states after a reload with more are checked but not followed) |
| `votes_kick` | finding: a kick vote against the caller | as `votes`, bans only |
| `world` | lists stay linked, nothing dangles, each entity is called once in a tick, ticks end | two players, a bot, two cells for shots |
| `threads` | in whatever order threads and answers come: a settled client plays the announced map; one row for each account and item; jobs are taken in order; a new map comes; the SQL lock is given back; jobs are done or the pool is gone; registration converges; STUN settles | 2 requests and 1 waiting generator; 3 maps, 2 rejoins; 2 account threads at a time, 2 names, 1 slot; 2 workers, 3 jobs; one protocol with 2 requests in flight and 2 faults; 2 STUN servers |
| `services` | every short sequence of calls of the parts that only the main loop calls, and the codecs | in `MCServices.cfg`; see below |
| `map_download` | finding: the download is not the announced map | as in `threads` |

The bounds are small, but each holds what the property is about: 6 sequence
numbers satisfy `WindowAssumption` as 1024 do and wrap within the run; two slots
are enough for one address to hold two; 10 units let an item wrap, a remainder
be too small to cut and three blocks merge; three clients from two addresses
are two that share a vote and one against them, and a slot that is left is
taken again by the next. In `world` one character can kill two others in one
walk, of which one is the next of the walk, and a freed cell is taken again
before the walk ends. In `threads` two account threads at one time are the pair that
could insert the same row; as only those that are alive count, a player registers,
logs in, gets its items and has two updates of one item on their way. Two requests
in flight are answered in either order with a restart and a loss between. In `services` a bucket of the hash table
holds one item and two of three keys share it; snapshots are stored for one
tick, so that the acked one is purged; two bans fill a pool; a line of the
external console can be one character longer than its buffer takes, and is cut; of two
players the second is sent lines of chat, which free what the first one's menu has; the ids of a client are fewer than
the players; every message fills its buffer; the noise of the map has a pocket,
areas that touch and that do not, and one that is far. The proofs do not depend
on bounds.

What the invariants of `services` say, by part: `RingHolds` (blocks tile the
memory, nothing leaks); `IdsHold` (each id is in one place, none names a second
entity while a delta could be made against the first; the client knows itself and
the near); `MapIsPlayable` (one area, solid edge, layers that agree);
`ConsolesHold` (lines of the external console are executed whole and in order; a
client of the remote console knows each of its commands that the list has not
still to come to); `ArmsHold` (no number of an inventory is negative unless a
SyncItem thread overwrote it, and the loops that look for a weapon find one);
`ListIsAlive` (no server is listed twice, nor long after it answered);
`InfoIsWhole` (chunks are whole; while no update is due, a name is shown as often as
clients in the game have it, also after a new map);
`UsesWhatIsShownUnlessFreed` (the option that fire uses is the marked one of the page
shown, unless a menu was drawn for another player since);
`BansHold` (found iff listed, in order of expiry, no banned client in a slot);
`ReadsBack` (what the codecs write reads back: of a delta each item that is new or that
no full bucket hides, data files, messages, packets, HTTP bodies in memory; of a demo
only that each difference the recorder writes starts from what the chunk before stands
for). As action and refinement properties `ImplementsFifo` and
`DeltaBaseIsKnown`.

Fairness. Both main loops call `Update` and read the socket for ever: weak
fairness of what only needs that, strong fairness of receiving a packet that is
sent again and again, because a network that loses every one of them is a dead
one (in which case the timeout ends the connection). In `Handshake` a connection
is assumed to time out only if its peer has none or has one of another session.
`World` assumes that a tick that was begun goes on. `MapReload` assumes that the
main loop turns and that one of the generator threads runs when it can; which of
those that wait gets the lock is open. `Accounts` assumes that the threads run,
and that a thread which reaches a null pointer does crash; that a thread which waits
gets the lock is not assumed, so `QueriesEnd` says that the lock is given back. `JobPool` assumes that
the caller of `Add` goes on to raise the semaphore, that workers run, and that
`Destroy` goes on. `Register` assumes that the main loop calls `Update`, that time
passes, that the job which waits longest runs (which is what `JobPool` gives), and
that of challenge packets which are sent again and again one arrives. `Stun`
assumes that `Update` is called and time passes. `Votes` states no liveness: that
a vote ends is the 25 seconds in one guard.

## 4. Findings

* `handshake_ipv4`: an IPv4 client is accepted without a token, but a further
  CONNECT in its session is answered with one. If it adopts that token it
  refuses every packet of the server.
* `handshake_rejoin`: an ACCEPT that arrives twice is taken for a reconnect and
  resets the sequence numbers and the resend buffer of one side of a live
  connection.
* `votes_kick`: CALLVOTE checks the id of the kicked player before it translates it
  from what the client sees to a slot. A client sees itself as id 0, so one in
  another slot can start a vote against itself, and the check refuses votes
  against whoever it sees under the number of its own slot. With an old map of
  ids the vote may name a slot without client: a ban by vote then names the
  client whose id equals the ban time.
* `menu`: the option a player marked is a pointer into strings that all players share,
  and that `ShowMenu` frees when it draws a menu, or the chat line under one, for
  another player. `UseOptions` reads it in a later tick, in which the player's own menu
  need not have been drawn again.
* `names`: a new map sends all clients back to CONNECTING with the names they have, and
  `TrySetClientName` looks only at clients from READY on. One that is READY first can
  take the name of one that is not; that one then keeps it, as its own name is not
  tested again.
* `map_download`: `LoadMap` reads the map file a second time for what it sends to
  clients. A second generator thread that got the lock meanwhile writes the same
  file: the download differs from the checksum that was announced.

Known disagreements that no run checks. Each of these properties stands in its
module with a remark; the model has the code's behaviour, not the promise.

* `HttpRequest.WholeFileIsKept`: `io_close` returns 1 on success, although
  `base/system.h:317` says 0, and `http.cpp:347` takes anything but 0 for an error.
  Every download into a file ends in error and removes the file.
* `Votes.DecisionIsNoticed` leaves out changes of team: one by a command or for
  inactivity can decide the poll and does not set `m_VoteUpdate`, so that the poll runs
  until something else sets it or its time is over.
* `SnapshotDelta`: an item that a full bucket of a hash table hides may be lost or get
  the wrong value at the client (`snapshot.cpp:168-196`); `DeltaRestores` says nothing
  of it.
* `Register.OnlyEnabledRegister`: `OnToken` does not ask whether its protocol is
  enabled, so a challenge that comes after `sv_register` disabled the protocol
  registers it (`config_variables.h:23`).
* `Bans.SavedBansEnd`: bans are saved with the minutes left, rounded up; a ban whose
  last second this is, before `Update` removes it, is saved with 0 minutes, which
  are read as for ever.
* `Econ.TriesAreLimited` with `ec_bantime` set: a client with too many tries is
  banned but not dropped; it goes on trying (`config_variables.h:38`,
  `econ.cpp:142`).
* `Demo.PlaysWhatWasRecorded`: the player unpacks integers from the data that it
  read, not from the data it decompressed (`demo.cpp:500`), so that no recorded
  snapshot is shown as it was.
* `ServerInfo.AnswersAreLimited`: the limit is tested before the request is
  counted: one more complete answer than `sv_server_info_per_second` is sent
  (`config_variables.h:30`, `server.cpp:1312`).
* `MapGen`, stage "undefined": when no sampled tile of the first area is nearer than
  the width of the map, the corridor starts at an uninitialised tile
  (`mapgen.cpp:397-404`); the last area, if it is a single tile, is a local object
  that is used after its end (`mapgen.cpp:344-347`).
* `Packing`, `overrun`: `AddString` writes the terminating 0 behind a buffer that
  the string filled (`packer.cpp:61`).
* Registering an account tests the length of the name where it means that of the
  password (`game/server/gamecontext.cpp:1641`); `Accounts` leaves passwords out.

## 5. Proofs

The theorems hold for every value of the constants that the named assumptions
allow.

**NetConnProofs.** `BackroomCorrect` and `AckWindowCorrect` say what the two
tests on sequence numbers, with their case distinctions on the wrap, mean; they need
an even sequence space of at least 4. For a connection, the inductive invariant `IInv` says: chunk i of a stream
carries number i modulo the space (`StreamInv`); every packet in flight, the
construct and the inbox hold chunks that were queued and are not too old
(`Recent`); the buffer is the tail of the stream (`TailInv`); acks in flight and
`peerAck` stand for a position between what the buffer starts at and what the
peer fetched (`SenderInv`, `ReceiverInv`, `WindowInv`). It is needed because the
property talks of positions in the stream, and the code compares numbers modulo
1024: the two agree only while everything that can meet lies in one half of the
space. That is what `WindowAssumption` gives: the resend buffer (at most 455
chunks in 32 KB), a packet (at most 255 chunks) and what may overtake a packet on
its way are together less than the space. From `IInv` follow
`NothingUndeliveredForgotten` and `Refinement`, every step being a step of
`VitalChannel` or a stutter.

**DataProofs, resend buffer.** The memory of the ring buffer may have any size, and so may the
items. `RingInv` has two parts. `Tiled` is about the blocks: each ends where its
successor begins, `next` and `prev` agree, and `last` is the only one without
successor. `Queued` is about the items: unless the buffer is empty, there is a
sequence `s` of blocks, the oldest first, that are exactly the used ones, from
`consume` to the one before `produce`; each is followed in `s` by the block behind
it, or by the first block when only a free remainder is left behind it. The part that
makes it inductive is where free blocks can be: two never touch, and a free block is
`produce`, or `last`, or the first one while `produce` is `last`. It is why
`PopFirst`, which merges only around the block it frees, leaves nothing behind, and
why its loop over free blocks turns at most once and never comes round to where it
started. One lemma for each of `MergeBack`, `Split`, `Take` and the move of `consume`
gives the blocks and the sequence after it. `First` and `Next` walk along `s` and find
it whole (`Found`), which makes `Contents` the values along `s`: `RingAlwaysHolds`
follows, and `FifoRefinement` says that `Allocate` appends to this queue, `PopFirst`
takes its head, and `Init` empties it. That is all that `NetConn` assumes of
`m_Buffer`.

**DataProofs, deltas.** `DeltaAlwaysRestores`, for any snapshots, hash of keys and width of
integers, full buckets included: the receiver gets no item that the new snapshot lacks,
and each one that is new or that both hash tables find, with its value. Such an item is
either among the updates or equal to the one that the receiver keeps
(`UpdateMeaning`), and adding the difference modulo the width undoes taking it
(`DiffUndone`).

**DataProofs, HTTP.** `ResponseIsAlwaysWhole`, for any bodies, pieces and limits. `HttpInv`
counts what the callbacks were given; that the buffer grown by doubling has room for it
(`BufferIsEnough`) needs a buffer that is not empty when it is doubled, hence `MinBuffer`.

**HandshakeProofs.** `IInv` adds to the three properties what every packet may
carry: a CONNECTACCEPT of the checked handshake carries `GetToken` of its address,
an ACCEPT the token its sender adopted (`NetInv`), and what a client (`ConnInv`)
and a slot (`SlotInv`) hold accordingly. Without it a packet of an earlier
session could bring a slot any token.

**VotesProofs.** `IInv` says that a client in a slot has an address, that players
follow the sessions (`PlayerIffReady`) and that the slot a running vote names
has a player, of the session the vote was called against (`TargetPlays`). The
player is the part that `TargetKeepsSlot` lacks: a drop is passed to the game
context, and aborts the vote, only for READY and INGAME clients, and those are the
ones with a player. From it follow `TypeCorrect`, `PlayersFollowSessions` and
`VoteHitsItsTarget`. `BallotInv` adds that a vote in a player belongs to a client in
the game and, when it is a yes, to one that voted in this vote, and that only an
administrator leaves a running vote enforced. `MajorityDecides` rests on it and on
`TallyIsMajority`: `ip` maps the voters that count as yes one to one into the
addresses that play and voted (`OneVoterPerAddress`, `YesWasCast`), and every
address that plays has a voter (`VoterOfAddress`), so more than half of the voters
is more than half of the addresses. The action property `DecisionIsNoticed` is a
theorem too, `DecisionsAreNoticed`. The voter without address that a player who
has not entered yet makes only raises the number needed. Assumed is that slots
are a finite set of numbers.

**ThreadsProofs, job pool.** `JobsAlwaysTakenInOrder`, for any number of workers and
jobs. While the pool lives, the jobs that were taken followed by the list are the jobs
that were added (`ListAccounts`); when it goes the list is dropped and no worker
takes another (`NoWorkAfter`), so what was taken stays a prefix. In which order the
workers begin what they took is open, as it is in the code.

**ThreadsProofs, accounts.** `TablesAlwaysHaveOneRow`, for any number of threads,
names and slots. Only one thread is past the lock (`OneHolder`), so what its SELECT
did not find is still not there when it inserts (`Knows`).

**ThreadsProofs, map change.** `SettledClientAlwaysPlays`, for any number of maps
and reconnections. The property speaks of states in which nothing is on its way;
the invariant says what is on its way in the others: the last MAP_CHANGE names the
announced map (`WillHaveMap`), and in every state before INGAME the message that
leads on, or the one whose answer it is, is there (`WillGoOn`).

**ThreadsProofs, registration.** `KnownWasAlwaysTold`: the server never believes
that the master has information that it was not sent. A job ends in two critical
sections and others come between, so the invariant types the jobs: one that was
answered success carries a serial that the master was told (`ToldJobs`), which
holds on as what it was told only grows.

**ThreadsProofs, types.** `TypesAlwaysHold`, for all parts of `threads` together. Most
bounds are those of the code's own counters: a STUN wait is a power of two up to
2^9 seconds, whose doubling stops there.

**WorldProofs.** `TypeCorrect`, `EntitiesAlwaysLive` and `EachCalledOncePerTick`, for
any number of players, bots and cells. That a list is linked is said by its
pointers alone, so the invariant needs what excludes a ring: numbers that grow
along the links (`Ranks`), new at each insertion at the front; the members of a
list are then those that its first element reaches. `Walks` says where
`m_pNextTraverseEntity` stands, `Scheduled` what may go on in which part of a tick
(only a called entity hits, and who is about to die is not hit again).
`NothingDangles` is kept with these: whatever deletes an entity takes it off its
list first, and a character out of the core of the world and from its player. Assumed is that players and bots, and clients and
cells, are different.

**ServicesProofs, snapshots.** `DeltaBaseAlwaysKnown` and the first part of
`IdsAlwaysHold`. `EachOnce` says that an id is free, timed or used, and nowhere
twice; `UsageCounts` that the counters agree; `GoneIdsWait` that an id that a stored
snapshot names and that was deleted since still waits, for at least as long as a
delta could be made against that snapshot. Assumed is `SnapKeep <= IdTimeout`, which
is 3 and 5 seconds in the code. The loops of `TimeoutIDs` and `PurgeUntil` are
functions of how many they remove, which is the smallest number that is not to go.

**ServicesProofs, ids of players.** The second part of `IdsAlwaysHold`: an update
starts with the ids that are kept, gives free ones in any order of distance, and
takes them from the farthest. `OneShortEach` is kept by each gift, and the client
itself, at distance 0, is never among the lost.

**ServicesProofs, inventory.** `ArmsAlwaysHold`: `ShotIsPaid` says when the copy of
the inventory may be trusted (after a shot it may be wrong, but then the weapon
reloads until the next copy), `HammerStays` that a character has one weapon.

**ServicesProofs, menus.** `AlwaysUsesWhatIsShown`, for any number of players, menus and
rows: as long as the string that the marked option points into is there, it is the row
marked on the page shown (`Shown`), so fire uses what is on the screen. Without that
condition it is false (run `menu`). Each change of page, row or death is drawn before
the fire button is looked at, which `MenuInv` carries over the tick.

**ServicesProofs, consoles.** `ConsolesAlwaysHold`. Remote: the command list is
sorted and whole, so that the walk of a client passes over nothing (`ListSorted`,
`ListWhole`). External: what a connection executed are the lines that had ended at
some place of the text, and for an open one that is the place where its buffer
begins (`SlotOK`); `LinesUpTo`, the lines up to a place, is a recursive function over
the text, compared with the buffer by its smallest difference.

**ServicesProofs, bans.** `BansAlwaysHold`, for any addresses, hash size and limits.
The invariant `BansInv` says of each pool that its list is in order of expiry
(`Sorted`), has one entry for what is banned (`OneEach`), and that a hash list has
exactly what is on the list and hashes to it (`PoolOK`); and that no client has a
listed address. That the lookup finds what is listed rests on `MatchByPrefix`: an
address between the bounds of a range has the bytes that the bounds share, so the
hash of that prefix is the one the range is filed under, and comparing from that
byte on decides the same. What `exec` does with a saved list is a recursion over its
lines, whose every step is a ban (`ExecuteOK`).

**ServicesProofs, server information.** `InfoIsAlwaysWhole`, for any slots and any room in a
chunk, over joining, leaving, renaming and new maps. `InfoInv` says that the chunks are
whole, and that they show the clients in the game unless an update is due, which every
step that changes one of these asks for. Names need not be unique (run `names`), so what
is shown is counted by name, along a one to one map of the places in the chunks to the
slots (`Shows`).

**ServicesProofs, master server.** `ListIsAlwaysAlive`, for any addresses, expiry and
packet size. `MasterInv` bounds the age of each entry by its `expire`; the purge, which
moves the last entry to the place of one that it removes and looks at that place
again, is a loop whose every turn keeps what it has passed alive (`LoopRuns`).

**DataProofs, map generator.** `GeneratedMapIsPlayable`, for any size of the map, any
noise and any rules. That the air is one area is said without paths: a set of
air tiles that is closed under neighbours is empty or all of it (`ClosedIn`, `JoinedIn`,
`OneIn`). `MapInv` says of the search that an area is joined and, when its last tile was looked
at, next to nothing else (`Searched`); and of the corridors that while they are dug, each
closed set has a whole area of the list (`Anchored`), until one area is left or the
last was freed (`EndsFreed`). A corridor is a row and a column, and both join
(`RowJoins`, `ColumnJoins`). Three tiles at the edge stay solid
because noise and corridors keep to the inside; assumed are `Border > 3` and
that no rule of the automapper draws the empty tile, both of which the code and its rule files meet.

How recursion is handled. The theorems of the library about induction take an
operator as a parameter and cannot be used with the provers at hand. Where the code
loops over numbers, the model has a function of the number (which line, how many
entries, which item), and the proof looks at the smallest number that lacks what is claimed
(`SmallestNumber`, `NumbersUpTo`, `OneToN`, `RunExists`, `LoopRuns` in `Lemmas`, from the
well-foundedness of the numbers). Codecs are recursive operators over data, and stay with TLC.

Only model-checked: liveness (`EventuallyDelivered`, `ConnectSettles`, `TickEnds`,
`NewMapComes`, `QueriesEnd`, `JobsDoneOrPoolGone`, `RegistrationConverges`,
`CheckingEnds`), which is out of the prover's reach; and the two invariants of `MCServices`
that speak of all its parts at once, as that module reaches the recursive
operators of `Packing` and `Huffman`, where the prover has no arithmetic: `ServicesTypeOK`, and
`ReadsBack`, of which deltas and HTTP bodies are proved part by part; of demos it has
only what the recorder writes, and data files, packed messages and compressed packets are recursions over data.

## 6. Plan

Done are the network, sessions and votes, the world, the life of maps, threads and
requests, and the services and codecs. What would add most next:

1. Data files that read back as a theorem; `Packing` and `Huffman` with recursive functions.
2. `MapReload` composed with `Accounts` and the bot loader: detached threads over a
   reload (`gamecontext.cpp:1860`).
3. Inputs of clients and chunks of a map download in `Session`.
4. Health and effects of characters, drops of pickups, what bots decide.

## 7. Not modelled

* Physics (`game/gamecore.cpp`, `game/collision.cpp`): floating point geometry of
  one thread, computed from its inputs.
* Localization, chat commands, storage, memory heap: text, paths and a bump
  allocator; no order of calls matters.
* Base system layer: wrappers of the operating system, present as the network,
  lock and crash actions of the models. `mem_alloc` and `mem_free` link all blocks of
  all threads without a lock; what follows from that race depends on where the
  heap puts the blocks.
* Vendored libraries (sqlite, zlib, json-parser, libcurl).
* In parts that are modelled: what the note of the component in `PROJECT.json`
  names.
