------------------------------- MODULE DataFile -------------------------------
(***************************************************************************)
(* Data files (engine/shared/datafile.cpp): a map is written by            *)
(* CDataFileWriter, as the map generator does it, and read back by         *)
(* CDataFileReader, as CMap and LoadMap do it.                             *)
(*                                                                         *)
(* The writer keeps items in the order they were added, links those of one *)
(* type, and writes the file type by type.  Item types with a UUID get an  *)
(* internal type, announced by an item of type ITEMTYPE_EX.                *)
(*                                                                         *)
(* Abstractions.  Sizes and offsets count words; the item header has two   *)
(* words (type and id, size), a UUID one.  Indices begin at 1 and 0 stands *)
(* for -1.  zlib is external.  Files of version 3 and byte orders are left *)
(* out: nothing here writes them.                                          *)
(***************************************************************************)
EXTENDS Integers, Sequences, FiniteSets, SequencesExt

CONSTANTS
  ExType,       \* ITEMTYPE_EX, also MAX_ITEM_TYPES - 1
  UuidTypeFrom, \* OFFSET_UUID_TYPE: larger internal types are extended ones
  PlainTypes,   \* item types without a UUID that are used
  UuidTypes,    \* item types with one: OFFSET_UUID and above
  ItemIds,      \* ids of items
  DataContents,     \* data of items and data blocks: sequences of words
  MaxAdded,     \* bound: calls of AddItem
  MaxDatas      \* bound: calls of AddData

ASSUME DataFileAssumption ==
  /\ ExType \in Nat /\ UuidTypeFrom \in 0 .. ExType
  /\ PlainTypes \subseteq 0 .. UuidTypeFrom
  /\ UuidTypes \subseteq Nat /\ \A u \in UuidTypes : u > ExType
  /\ Cardinality(UuidTypes) < ExType - UuidTypeFrom
  /\ ItemIds \subseteq Nat
  /\ \A c \in DataContents : c \in Seq(Nat)
  /\ MaxAdded \in Nat /\ MaxDatas \in Nat

VARIABLES
  items,     \* m_pItems: [type, id, data, prev, next]
  types,     \* m_pItemTypes: [num, first, last] of each type
  extended,  \* m_aExtendedItemTypes
  datas,     \* m_pDatas: [size, compressed]
  added,     \* history: the calls of AddItem
  blocks,    \* history: the calls of AddData
  file,      \* what Finish has written, NoFile before
  memory     \* m_ppDataPtrs: the data that is loaded, <<>> where nothing is

dataFileVars == <<items, types, extended, datas, added, blocks, file, memory>>

NoFile == [types |-> <<>>, offsets |-> <<>>, dataOffsets |-> <<>>, dataSizes |-> <<>>,
           items |-> <<>>, data |-> <<>>]

AllTypes == 0 .. ExType
HeaderSize == 2     \* sizeof(CDatafileItem)
SizeOfItemEx == 1   \* sizeof(CItemEx)

DataFileTypeOK ==
  /\ \A k \in DOMAIN items :
       /\ items[k].type \in AllTypes /\ items[k].id \in Nat
       /\ items[k].prev \in 0 .. Len(items) /\ items[k].next \in 0 .. Len(items)
  /\ types \in [AllTypes -> [num : 0 .. Len(items), first : 0 .. Len(items),
                             last : 0 .. Len(items)]]
  /\ Range(extended) \subseteq UuidTypes
  /\ Len(datas) = Len(blocks)
  /\ DOMAIN file = DOMAIN NoFile
  /\ Len(memory) = Len(file.dataSizes)

FileInit ==
  /\ items = <<>> /\ extended = <<>> /\ datas = <<>>
  /\ types = [t \in AllTypes |-> [num |-> 0, first |-> 0, last |-> 0]]
  /\ added = <<>> /\ blocks = <<>>
  /\ file = NoFile /\ memory = <<>>

-----------------------------------------------------------------------------
(* zlib.  Compressed data has another size, and gives back what was packed. *)

Compress(c) == <<Len(c)>> \o c \o <<0>>
Uncompress(c) == SubSeq(c, 2, 1 + c[1])

-----------------------------------------------------------------------------
(* The writer.                                                              *)

GetTypeFromIndex(i) == ExType - i

\* Items and types w after an item of the internal type t is added at the end.
Linked(w, t, id, c) ==
  LET k == Len(w.items) + 1
      info == w.types[t]
      told == [i \in DOMAIN w.items |->
                 IF i = info.last THEN [w.items[i] EXCEPT !.next = k] ELSE w.items[i]]
  IN  [items |-> Append(told, [type |-> t, id |-> id, data |-> c,
                               prev |-> info.last, next |-> 0]),
       types |-> [w.types EXCEPT ![t] =
                    [num |-> info.num + 1, last |-> k,
                     first |-> IF info.first = 0 THEN k ELSE info.first]]]

\* Mutant of GetExtendedItemTypeIndex: the known types are not searched.
AlwaysNewIndex(t) == Len(extended) + 1

\* GetExtendedItemTypeIndex: a type that is new is announced by an item.
GetExtendedItemTypeIndex(t) ==
  IF t \in Range(extended) THEN CHOOSE i \in DOMAIN extended : extended[i] = t
                           ELSE Len(extended) + 1

AddItem(t, id, c) ==
  LET before == [items |-> items, types |-> types]
      i == GetExtendedItemTypeIndex(t)
      isNew == t \in UuidTypes /\ t \notin Range(extended)
      ready == IF isNew THEN Linked(before, ExType, GetTypeFromIndex(i), <<t>>) ELSE before
      after == Linked(ready, IF t \in UuidTypes THEN GetTypeFromIndex(i) ELSE t, id, c)
  IN  /\ file = NoFile
      /\ Len(added) < MaxAdded
      /\ items' = after.items /\ types' = after.types
      /\ extended' = IF isNew THEN Append(extended, t) ELSE extended
      /\ added' = Append(added, [type |-> t, id |-> id, data |-> c])
      /\ UNCHANGED <<datas, blocks, file, memory>>

AddData(c) ==
  /\ file = NoFile
  /\ Len(datas) < MaxDatas
  /\ datas' = Append(datas, [size |-> Len(c), compressed |-> Compress(c)])
  /\ blocks' = Append(blocks, c)
  /\ UNCHANGED <<items, types, extended, added, file, memory>>

\* The items from k on, along m_Next.
Chain ==
  LET from[k \in 0 .. Len(items)] ==
        IF k = 0 THEN <<>> ELSE <<k>> \o from[items[k].next]
  IN  from

\* The types that have items, smallest first.
InTypes == SetToSortSeq({t \in AllTypes : types[t].num > 0}, <)

\* The items in the order they are written.
InOrder == FlattenSeq([n \in DOMAIN InTypes |-> Chain[types[InTypes[n]].first]])

\* Where each of some pieces begins when they follow each other.
Offsets(pieces) == [n \in DOMAIN pieces |-> Len(FlattenSeq(SubSeq(pieces, 1, n - 1)))]

Finish ==
  LET starts == [n \in DOMAIN InTypes |-> [m \in 1 .. types[InTypes[n]].num |-> 0]]
      written == [n \in DOMAIN InOrder |->
                    LET item == items[InOrder[n]]
                    IN  << <<item.type, item.id>>, Len(item.data) >> \o item.data]
      packed == [n \in DOMAIN datas |-> datas[n].compressed]
  IN  /\ file = NoFile
      /\ items # <<>>
      /\ file' = [types |-> [n \in DOMAIN InTypes |->
                               [type |-> InTypes[n], start |-> Offsets(starts)[n] + 1,
                                num |-> types[InTypes[n]].num]],
                  offsets |-> Offsets(written),
                  dataOffsets |-> Offsets(packed),
                  dataSizes |-> [n \in DOMAIN datas |-> datas[n].size],
                  items |-> FlattenSeq(written),
                  data |-> FlattenSeq(packed)]
      /\ memory' = [n \in DOMAIN datas |-> <<>>]      \* Open
      /\ UNCHANGED <<items, types, extended, datas, added, blocks>>

-----------------------------------------------------------------------------
(* The reader, which only has the file.                                     *)

\* The size of the piece at i of those at `offsets` in an area.
SizeAt(i, offsets, area) ==
  (IF i = Len(offsets) THEN Len(area) ELSE offsets[i + 1]) - offsets[i]

GetItemSize(i) == SizeAt(i, file.offsets, file.items) - HeaderSize
GetFileDataSize(i) == SizeAt(i, file.dataOffsets, file.data)

\* The parts of the item at i, as it is in the file.
RawType(i) == file.items[file.offsets[i] + 1][1]
RawId(i) == file.items[file.offsets[i] + 1][2]
ItemData(i) == SubSeq(file.items, file.offsets[i] + HeaderSize + 1,
                      file.offsets[i] + HeaderSize + GetItemSize(i))

Smallest(S) == CHOOSE n \in S : \A m \in S : n <= m

\* GetType, for an internal type: where its items are.
TypeRange(t) ==
  LET places == {n \in DOMAIN file.types : file.types[n].type = t}
  IN  IF places = {} THEN {}
      ELSE LET info == file.types[Smallest(places)]
           IN  info.start .. info.start + info.num - 1

\* GetInternalItemType: -1 for a type with a UUID that the file does not announce.
GetInternalItemType(t) ==
  IF t \notin UuidTypes THEN t
  ELSE LET found == {i \in TypeRange(ExType) :
                       GetItemSize(i) >= SizeOfItemEx /\ ItemData(i)[1] = t}
       IN  IF found = {} THEN -1 ELSE RawId(Smallest(found))

GetType(t) == TypeRange(GetInternalItemType(t))

\* FindItemIndex: the first of its type with the id, 0 if there is none.
FindItemIndex(t, id) ==
  LET found == {i \in GetType(t) : RawId(i) = id}
  IN  IF found = {} THEN 0 ELSE Smallest(found)

GetExternalItemType(internal) ==
  IF internal <= UuidTypeFrom \/ internal = ExType THEN internal
  ELSE LET i == FindItemIndex(ExType, internal)
       IN  IF i = 0 \/ GetItemSize(i) < SizeOfItemEx THEN internal ELSE ItemData(i)[1]

GetItem(i) == [type |-> GetExternalItemType(RawType(i)), id |-> RawId(i), data |-> ItemData(i)]

\* GetDataImpl: loads the data unless it is loaded.
GetData(i) ==
  /\ file # NoFile
  /\ i \in DOMAIN memory
  /\ memory[i] = <<>>
  /\ LET raw == SubSeq(file.data, file.dataOffsets[i] + 1,
                       file.dataOffsets[i] + GetFileDataSize(i))
     IN  memory' = [memory EXCEPT ![i] = SubSeq(Uncompress(raw), 1, file.dataSizes[i])]
  /\ UNCHANGED <<items, types, extended, datas, added, blocks, file>>

UnloadData(i) ==
  /\ file # NoFile
  /\ i \in DOMAIN memory
  /\ memory[i] # <<>>
  /\ memory' = [memory EXCEPT ![i] = <<>>]
  /\ UNCHANGED <<items, types, extended, datas, added, blocks, file>>

FileNext ==
  \/ \E t \in PlainTypes \union UuidTypes, id \in ItemIds, c \in DataContents : AddItem(t, id, c)
  \/ \E c \in DataContents : AddData(c)
  \/ Finish
  \/ \E i \in 1 .. MaxDatas : GetData(i) \/ UnloadData(i)

FileSpec == FileInit /\ [][FileNext]_dataFileVars

-----------------------------------------------------------------------------
\* What the reader finds of a type, in order.
ReadOf(t) ==
  LET range == GetType(t)
  IN  [n \in 1 .. Cardinality(range) |-> GetItem(Smallest(range) + n - 1)]

\* The file gives back what was added: the items of each type, with a UUID or
\* without, in the order of AddItem and with their data; by type and id the first
\* of them; and the data blocks as they were, also after they were unloaded
\* (datafile.cpp:101-468 reads what 557-869 wrote).
FileReadsBack ==
  file # NoFile =>
    /\ \A t \in PlainTypes \union UuidTypes :
         LET wanted == SelectSeq(added, LAMBDA a : a.type = t)
         IN  /\ ReadOf(t) = wanted
             /\ \A id \in ItemIds :
                  LET i == FindItemIndex(t, id)
                      same == SelectSeq(wanted, LAMBDA a : a.id = id)
                  IN  IF same = <<>> THEN i = 0 ELSE i # 0 /\ GetItem(i) = same[1]
    /\ \A i \in DOMAIN memory : memory[i] \in {<<>>, blocks[i]}
=============================================================================
