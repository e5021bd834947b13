--------------------------------- MODULE Demo ---------------------------------
(***************************************************************************)
(* Demos (engine/shared/demo.cpp): the server records the snapshots it     *)
(* makes (CDemoRecorder, CServer::DoSnapshot), and CDemoPlayer plays them. *)
(*                                                                         *)
(* A demo is a file of chunks.  A tick marker begins each tick; it holds   *)
(* the tick, or how far it is from the last one.  A keyframe holds a whole *)
(* snapshot, other ticks the difference to the snapshot before, or         *)
(* nothing if there is none.                                               *)
(*                                                                         *)
(* Abstractions.  A snapshot is a value; its difference to another is the  *)
(* pair of the two.  What packing makes of a chunk matters to the player   *)
(* only, which unpacks it to something else (PlayChunk).  Header, map,     *)
(* sizes, chunks of messages (RecordMessage, OnDemoPlayerMessage) and the  *)
(* markers of a timeline are left out, and so is the time that paces the   *)
(* player.                                                                 *)
(***************************************************************************)
EXTENDS Integers, Sequences, FiniteSets, SequencesExt

CONSTANTS
  DemoSnaps,        \* contents of snapshots
  KeyInterval,  \* SERVER_TICK_SPEED*5
  MaxDelta,     \* 63: CHUNKMASK_TICK
  SnapStep,     \* ticks between snapshots are 1 .. SnapStep
  MaxRecorded,  \* bound: snapshots recorded
  NoSnap,       \* no snapshot
  Wrong         \* a snapshot that is none of DemoSnaps

ASSUME DemoAssumption ==
  /\ KeyInterval \in Nat /\ MaxDelta \in Nat \ {0} /\ SnapStep \in Nat \ {0}
  /\ MaxRecorded \in Nat
  /\ NoSnap \notin DemoSnaps /\ Wrong \notin DemoSnaps /\ NoSnap # Wrong

VARIABLES
  recording,  \* m_File of the recorder
  chunks,     \* the file
  lastKey,    \* m_LastKeyFrame
  lastTick,   \* m_LastTickMarker
  lastSnap,   \* m_aLastSnapshotData of the recorder
  tick,       \* the tick of the server, from the start of the recording
  recorded,   \* history: [tick, snap] of each snapshot that was recorded
  play        \* the player

demoVars == <<recording, chunks, lastKey, lastTick, lastSnap, tick, recorded, play>>

\* open: m_File; pos: the chunks read; prev, cur, coming: m_PreviousTick,
\* m_CurrentTick, m_NextTick; last: m_aLastSnapshotData, NoSnap for a size of -1;
\* shown: the last OnDemoPlayerSnapshot of this tick.
Closed == [open |-> FALSE, pos |-> 0, prev |-> -1, cur |-> -1, coming |-> -1,
           last |-> NoSnap, shown |-> NoSnap, paused |-> FALSE]

ChunkTypes == {"tick", "snapshot", "delta"}

DemoTypeOK ==
  /\ recording \in BOOLEAN
  /\ \A n \in DOMAIN chunks : chunks[n].type \in ChunkTypes
  /\ lastKey \in Int /\ lastTick \in Int /\ tick \in Nat
  /\ lastSnap \in DemoSnaps \union {NoSnap}
  /\ Len(recorded) <= MaxRecorded
  /\ DOMAIN play = DOMAIN Closed
  /\ play.pos \in 0 .. Len(chunks)
  /\ play.shown \in DemoSnaps \union {NoSnap, Wrong}

DemoInit ==
  /\ recording = FALSE /\ chunks = <<>> /\ lastKey = -1 /\ lastTick = -1
  /\ lastSnap = NoSnap /\ tick = 0 /\ recorded = <<>> /\ play = Closed

-----------------------------------------------------------------------------
(* The recorder.                                                            *)

Start ==
  /\ ~recording /\ ~play.open
  /\ recording' = TRUE
  /\ chunks' = <<>> /\ recorded' = <<>>
  /\ lastKey' = -1 /\ lastTick' = -1
  /\ tick' = 0
  /\ UNCHANGED <<lastSnap, play>>

\* WriteTickMarker: the tick itself if it is far from the last marker.
TickMarker(t, key) ==
  LET full == lastTick = -1 \/ t - lastTick > MaxDelta \/ key
  IN  [type |-> "tick", key |-> key, delta |-> IF full THEN 0 ELSE t - lastTick,
       tick |-> IF full THEN t ELSE 0]

Chunk(type, v) == [type |-> type, data |-> v]

\* Mutant of LastSnapshotData: the copy after a difference is forgotten.
LastKeyFrameData(s, isKey) == IF isKey THEN s ELSE lastSnap

\* m_aLastSnapshotData after the snapshot s.
LastSnapshotData(s, isKey) == s

\* RecordSnapshot, which DoSnapshot calls in every tick it makes snapshots in.
RecordSnapshot(t, s) ==
  LET isKey == lastKey = -1 \/ t - lastKey > KeyInterval
      body == IF isKey THEN <<Chunk("snapshot", s)>>
              ELSE IF s # lastSnap THEN <<Chunk("delta", <<lastSnap, s>>)>>
              ELSE <<>>
  IN  /\ recording
      /\ Len(recorded) < MaxRecorded
      /\ t \in tick + 1 .. tick + SnapStep
      /\ tick' = t
      /\ chunks' = chunks \o <<TickMarker(t, isKey)>> \o body
      /\ lastTick' = t
      /\ lastKey' = IF isKey THEN t ELSE lastKey
      /\ lastSnap' = IF body = <<>> THEN lastSnap ELSE LastSnapshotData(s, isKey)
      /\ recorded' = Append(recorded, [tick |-> t, snap |-> s])
      /\ UNCHANGED <<recording, play>>

\* Stop, by the console or because LoadMap has a new map, whose ticks begin again.
Stop ==
  /\ recording
  /\ recording' = FALSE
  /\ UNCHANGED <<tick, chunks, lastKey, lastTick, lastSnap, recorded, play>>

-----------------------------------------------------------------------------
(* The player.                                                              *)

\* ReadChunkHeader: the tick after a marker read at tick t.
TickAfter(t, c) == IF c.delta = 0 THEN c.tick ELSE t + c.delta

\* ScanFile: where keyframes begin.
KeyFrames == {n \in DOMAIN chunks : chunks[n].type = "tick" /\ chunks[n].key}

Load ==
  /\ ~recording /\ ~play.open /\ chunks # <<>>
  /\ play' = [Closed EXCEPT !.open = TRUE]
  /\ UNCHANGED <<recording, chunks, lastKey, lastTick, lastSnap, tick, recorded>>

\* One chunk of DoTick.  CNetBase unpacks it to aDecompressed; CVariableInt then
\* unpacks the packed chunk again, also to aDecompressed.  aData, which is used,
\* stays zero: a whole snapshot without items, a difference that changes nothing.
PlayChunk(p, c) ==
  LET s == IF c.type = "delta" THEN p.last ELSE Wrong
  IN  [p EXCEPT !.pos = @ + 1, !.last = s, !.shown = s]

\* DoTick: all chunks up to the next marker; a tick that has none repeats the
\* snapshot before; at the end of the file the player pauses.
DoTick(p) ==
  LET began == [p EXCEPT !.prev = p.cur, !.cur = p.coming, !.shown = NoSnap]
      rest == SubSeq(chunks, p.pos + 1, Len(chunks))
      ends == {n \in DOMAIN rest : rest[n].type = "tick"}
      end == IF ends = {} THEN Len(rest) + 1 ELSE CHOOSE n \in ends : \A m \in ends : n <= m
      played == FoldLeft(PlayChunk, began, SubSeq(rest, 1, end - 1))
  IN  IF ends = {} THEN [played EXCEPT !.paused = TRUE]
      ELSE [played EXCEPT !.pos = @ + 1,
                          !.shown = IF end = 1 THEN played.last ELSE @,
                          !.coming = TickAfter(played.cur, rest[end])]

\* The packed chunk may look like an error to CVariableInt: the player stops.
Fails(p) == p.pos < Len(chunks) /\ chunks[p.pos + 1].type # "tick"

NextFrame ==
  /\ play.open /\ ~play.paused
  /\ play' = DoTick(play) \/ (Fails(play) /\ play' = Closed)
  /\ UNCHANGED <<recording, chunks, lastKey, lastTick, lastSnap, tick, recorded>>

\* SetPos: playing begins again at a keyframe.
SetPos(k) ==
  /\ play.open
  /\ k \in KeyFrames
  /\ play' = DoTick([play EXCEPT !.pos = k - 1, !.prev = -1, !.cur = -1, !.coming = -1,
                                 !.paused = FALSE])
  /\ UNCHANGED <<recording, chunks, lastKey, lastTick, lastSnap, tick, recorded>>

StopPlaying ==
  /\ play.open
  /\ play' = Closed
  /\ UNCHANGED <<recording, chunks, lastKey, lastTick, lastSnap, tick, recorded>>

DemoNext ==
  \/ Start \/ \E s \in DemoSnaps, t \in tick + 1 .. tick + SnapStep : RecordSnapshot(t, s)
  \/ Stop
  \/ Load \/ NextFrame \/ (\E k \in KeyFrames : SetPos(k)) \/ StopPlaying

DemoSpec == DemoInit /\ [][DemoNext]_demoVars

-----------------------------------------------------------------------------
\* The snapshot that a chunk stands for.
SnapshotIn(c) == IF c.type = "snapshot" THEN c.data ELSE c.data[2]

\* Chunk m is the last one before chunk n that is not a marker.
LastBefore(m, n) ==
  /\ chunks[m].type # "tick"
  /\ \A k \in m + 1 .. n - 1 : chunks[k].type = "tick"

\* The file holds what was recorded, also where ticks have no chunk: a difference
\* starts from what the chunk before it stands for, across keyframes and ticks that
\* changed nothing, and the last chunk of the file stands for the last snapshot that
\* was recorded (demo.cpp:222-249).
DemoFileChains ==
  /\ \A n \in DOMAIN chunks :
       chunks[n].type = "delta" =>
         \E m \in 1 .. n - 1 : LastBefore(m, n) /\ chunks[n].data[1] = SnapshotIn(chunks[m])
  /\ recorded # <<>> =>
       \E m \in DOMAIN chunks : /\ LastBefore(m, Len(chunks) + 1)
                               /\ SnapshotIn(chunks[m]) = Last(recorded).snap

\* "process delta snapshot", "process full snapshot" (demo.cpp:512 and 536): what
\* the player shows in a tick is the snapshot that was recorded in it.
\* The code does not keep to it (README, section 4), and no run checks it.
PlaysWhatWasRecorded ==
  play.open /\ play.shown # NoSnap /\ play.cur # -1 =>
    [tick |-> play.cur, snap |-> play.shown] \in Range(recorded)
=============================================================================
