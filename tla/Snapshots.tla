------------------------------ MODULE Snapshots ------------------------------
(***************************************************************************)
(* Snapshots for one client and the ids in them: CSnapIDPool and           *)
(* CServer::DoSnapshot (engine/server/server.cpp), CSnapshotStorage        *)
(* (engine/shared/snapshot.cpp).                                           *)
(*                                                                         *)
(* An entity has an id of the pool while it exists.  A snapshot names the  *)
(* ids of the moment; the server stores it for three seconds of ticks and  *)
(* sends it as a delta against a stored one that the client has            *)
(* acknowledged.  The ids of deleted entities wait five seconds of real    *)
(* time.  Ticks follow real time: the main loop runs all that are due      *)
(* before it makes a snapshot.                                             *)
(*                                                                         *)
(* Abstractions.  All entities are in view.  Contents, compression and     *)
(* packets are left out: a snapshot arrives or is lost, and the client has *)
(* it when it has what the delta was made against.  In the recover and     *)
(* init rates, which skip ticks, a snapshot is made or not.                *)
(***************************************************************************)
EXTENDS Integers, Sequences, FiniteSets, SequencesExt

CONSTANTS
  IDs,        \* ids of the pool
  SnapKeep,   \* three seconds of ticks
  IdTimeout,  \* five seconds of real time, in the unit of ticks
  MaxTick,    \* bound: ticks of one map
  MaxLag      \* bound: how far the ticks are behind real time

ASSUME SnapshotsAssumption ==
  /\ IsFiniteSet(IDs)
  /\ SnapKeep \in Nat /\ IdTimeout \in Nat /\ SnapKeep <= IdTimeout
  /\ MaxTick \in Nat /\ MaxLag \in Nat

VARIABLES
  freeIDs,   \* the free list, m_FirstFree first
  timedIDs,  \* the timed list, m_FirstTimed first: ids and the time they have left
  usedIDs,   \* ids with m_State 1
  usage,     \* m_Usage
  inUsage,   \* m_InUsage
  snapTick,  \* m_CurrentGameTick
  lag,       \* how many ticks are due
  ingame,    \* m_State is INGAME
  stored,    \* m_Snapshots: tick, ids, and which of them were deleted since
  acked,     \* m_LastAckedSnapshot, -1 if none
  rate,      \* m_SnapRate
  gotSnaps,       \* history: ticks of snapshots that the client has of this session
  before,    \* history: the last one it had before the session or the map, or -1
  ackStale   \* history: the last input is of a session or a map before

poolVars == <<freeIDs, timedIDs, usedIDs, usage, inUsage>>
clientVars == <<ingame, stored, acked, rate, gotSnaps, before, ackStale>>
snapVars == <<poolVars, snapTick, lag, clientVars>>

TimedIDs == {timedIDs[i].id : i \in DOMAIN timedIDs}
FreeIDs == ToSet(freeIDs)

SnapTypeOK ==
  /\ freeIDs \in Seq(IDs)
  /\ timedIDs \in Seq([id : IDs, left : -1 .. IdTimeout])
  /\ usedIDs \subseteq IDs
  /\ usage \in Nat /\ inUsage \in Nat
  /\ snapTick \in 0 .. MaxTick /\ lag \in 0 .. MaxLag
  /\ ingame \in BOOLEAN
  /\ stored \in Seq([tick : 0 .. MaxTick, ids : SUBSET IDs, gone : SUBSET IDs])
  /\ acked \in -1 .. MaxTick
  /\ rate \in {"init", "full", "recover"}
  /\ gotSnaps \subseteq 0 .. MaxTick /\ before \in -1 .. MaxTick
  /\ ackStale \in BOOLEAN

SnapInit ==
  /\ freeIDs = SetToSeq(IDs)
  /\ timedIDs = <<>> /\ usedIDs = {}
  /\ usage = 0 /\ inUsage = 0
  /\ snapTick = 0 /\ lag = 0
  /\ ingame = FALSE
  /\ stored = <<>> /\ acked = -1 /\ rate = "init"
  /\ gotSnaps = {} /\ before = -1 /\ ackStale = FALSE

-----------------------------------------------------------------------------
(* The pool. *)

\* Mutant of UsageWithout: the ids that are freed are still counted.
UsageKept(n) == usage

\* m_Usage after n calls of RemoveFirstTimeout.
UsageWithout(n) == usage - n

\* The free list and the timed list after n calls of RemoveFirstTimeout.
FreeWith(n) == Reverse([i \in 1 .. n |-> timedIDs[i].id]) \o freeIDs
TimedWithout(n) == SubSeq(timedIDs, n + 1, Len(timedIDs))

\* How many timed ids at the head of the list have waited long enough.
IdExpired == CHOOSE n \in 0 .. Len(timedIDs) :
  /\ \A i \in 1 .. n : timedIDs[i].left < 0
  /\ n < Len(timedIDs) => timedIDs[n + 1].left >= 0

\* NewID: those that have waited are freed, then the first free id is taken.
\* The code asserts that there is one.
NewID ==
  LET free == FreeWith(IdExpired)
  IN  /\ free # <<>>
      /\ freeIDs' = Tail(free)
      /\ timedIDs' = TimedWithout(IdExpired)
      /\ usedIDs' = usedIDs \union {Head(free)}
      /\ usage' = UsageWithout(IdExpired) + 1
      /\ inUsage' = inUsage + 1
      /\ UNCHANGED <<snapTick, lag, clientVars>>

\* Mutant of Waiting: an id is free when its entity is gone.
WaitingNot(id) == [id |-> id, left |-> -1]

Waiting(id) == [id |-> id, left |-> IdTimeout]

\* The stored snapshots that name an id of S name an entity that is gone.
Outdated(S) == [i \in DOMAIN stored |->
                  [stored[i] EXCEPT !.gone = @ \union (S \intersect stored[i].ids)]]

\* FreeID, when an entity is deleted.
FreeID(id) ==
  /\ id \in usedIDs
  /\ usedIDs' = usedIDs \ {id}
  /\ timedIDs' = Append(timedIDs, Waiting(id))
  /\ inUsage' = inUsage - 1
  /\ stored' = Outdated({id})
  /\ UNCHANGED <<freeIDs, usage, snapTick, lag, ingame, acked, rate, gotSnaps,
                 before, ackStale>>

-----------------------------------------------------------------------------
(* Time. *)

IdTimePasses ==
  /\ lag < MaxLag /\ snapTick + lag < MaxTick
  /\ lag' = lag + 1
  /\ timedIDs' = [i \in DOMAIN timedIDs |->
                    [timedIDs[i] EXCEPT !.left = IF @ < 0 THEN @ ELSE @ - 1]]
  /\ UNCHANGED <<freeIDs, usedIDs, usage, inUsage, snapTick, clientVars>>

RunTick ==
  /\ lag > 0
  /\ snapTick' = snapTick + 1
  /\ lag' = lag - 1
  /\ UNCHANGED <<poolVars, clientVars>>

-----------------------------------------------------------------------------
(* Snapshots. *)

\* Mutant of Purged: nothing is too old.
PurgedNothing == stored

\* PurgeUntil(m_CurrentGameTick - SERVER_TICK_SPEED*3): up to the first that is kept.
Purged ==
  LET kept == {i \in DOMAIN stored : stored[i].tick >= snapTick - SnapKeep}
  IN  IF kept = {} THEN <<>> ELSE SubSeq(stored, Min(kept), Len(stored))

\* The storage with the snapshot of this tick.
WithSnapshot ==
  Append(Purged, [tick |-> snapTick, ids |-> usedIDs, gone |-> {}])

\* DeltaTick: what Get finds for m_LastAckedSnapshot, -1 if nothing.
DeltaTick ==
  IF \E i \in DOMAIN WithSnapshot : WithSnapshot[i].tick = acked
    THEN acked ELSE -1

\* DoSnapshot for the client: store, choose what the delta is made against,
\* send.  What is sent arrives or is lost.
DoSnapshot ==
  /\ ingame
  /\ lag = 0
  /\ \A i \in DOMAIN stored : stored[i].tick < snapTick
  /\ stored' = WithSnapshot
  /\ rate' = IF DeltaTick = -1 /\ rate = "full" THEN "recover" ELSE rate
  /\ gotSnaps' \in {gotSnaps} \union (IF DeltaTick \in gotSnaps \union {-1}
                             THEN {gotSnaps \union {snapTick}} ELSE {})
  /\ UNCHANGED <<poolVars, snapTick, lag, ingame, acked, before, ackStale>>

\* NETMSG_INPUT that acknowledges tick t, in any state of the client.
Input(t, old) ==
  /\ t \in IF old THEN {before} ELSE gotSnaps \union {-1}
  /\ acked' = t
  /\ rate' = IF t > 0 THEN "full" ELSE rate
  /\ ackStale' = old
  /\ UNCHANGED <<poolVars, snapTick, lag, ingame, stored, gotSnaps, before>>

EnterGame ==
  /\ ~ingame
  /\ ingame' = TRUE
  /\ UNCHANGED <<poolVars, snapTick, lag, stored, acked, rate, gotSnaps, before, ackStale>>

\* Mutant of AckAfterReset: the last acknowledgement stays.
AckKept == acked

\* m_LastAckedSnapshot after CClient::Reset.
AckAfterReset == -1

\* CClient::Reset
ClientReset ==
  /\ stored' = <<>>
  /\ acked' = AckAfterReset
  /\ rate' = "init"
  /\ gotSnaps' = {}
  /\ before' = IF gotSnaps = {} THEN before ELSE Max(gotSnaps)
  /\ ackStale' = FALSE

\* ClientRejoinCallback: the client starts anew, its state stays.
SnapRejoin ==
  /\ ClientReset
  /\ UNCHANGED <<poolVars, snapTick, lag, ingame>>

\* A new map: LoadMap frees the ids that wait, OnShutdown deletes all entities,
\* whose ids wait, and the ticks begin at 0.
SnapReload ==
  /\ freeIDs' = FreeWith(Len(timedIDs))
  /\ \E order \in SetToSeqs(usedIDs) :
       timedIDs' = [i \in DOMAIN order |-> Waiting(order[i])]
  /\ usedIDs' = {}
  /\ usage' = UsageWithout(Len(timedIDs))
  /\ inUsage' = 0
  /\ snapTick' = 0 /\ lag' = 0
  /\ ingame' = FALSE
  /\ ClientReset

SnapNext ==
  \/ NewID
  \/ \E id \in IDs : FreeID(id)
  \/ IdTimePasses \/ RunTick
  \/ DoSnapshot
  \/ \E t \in -1 .. MaxTick, old \in BOOLEAN : Input(t, old)
  \/ EnterGame \/ SnapRejoin \/ SnapReload

SnapSpec == SnapInit /\ [][SnapNext]_snapVars

-----------------------------------------------------------------------------
\* Every id is free, waits or is in use, in one place only, and the counters
\* say how many are not free and how many are in use (server.cpp:73-159).
IdsAccountedFor ==
  /\ FreeIDs \union TimedIDs \union usedIDs = IDs
  /\ Len(freeIDs) + Len(timedIDs) + Cardinality(usedIDs) = Cardinality(IDs)
  /\ usage = Len(timedIDs) + Cardinality(usedIDs)
  /\ inUsage = Cardinality(usedIDs)

\* A delta is never made against a snapshot in which an id of an entity that
\* exists named another one: ids wait in real time, snapshots are kept for a
\* number of ticks, and a new map frees the ids that wait at once
\* (server.cpp:73-159, :723).
IdNamesOneEntity ==
  ingame /\ lag = 0 =>
    \A i \in DOMAIN stored :
      stored[i].tick >= snapTick - SnapKeep => stored[i].gone \intersect usedIDs = {}

\* A delta is made against a snapshot that the client has, or against none,
\* unless the last input was sent before the map was loaded or the client
\* joined again (server.cpp:735, :1122).
DeltaBaseIsKnown ==
  [][DoSnapshot /\ DeltaTick # -1 /\ ~ackStale => DeltaTick \in gotSnaps]_snapVars
=============================================================================
