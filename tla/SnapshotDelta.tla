---------------------------- MODULE SnapshotDelta ----------------------------
(***************************************************************************)
(* The difference of two snapshots: CSnapshotDelta and CSnapshotBuilder    *)
(* (engine/shared/snapshot.cpp).  The server makes it, a client or a demo  *)
(* player applies it to the snapshot that it was made against.             *)
(*                                                                         *)
(* A snapshot is a sequence of items with distinct keys (type and id).  An *)
(* item has one integer of data.  CreateDelta finds items by a hash table  *)
(* whose buckets have a fixed size; what does not fit is not found.        *)
(* Whether the size of an item is written depends on its type only and is  *)
(* left out.  The limits of a snapshot (items, bytes) are those of the     *)
(* builder that made it.                                                   *)
(***************************************************************************)
EXTENDS Integers, Sequences, FiniteSets, SequencesExt

CONSTANTS
  ItemKeys,    \* keys of items
  IntRange,    \* 2^32
  KeyHash(_),   \* CalcHashID
  BucketSize,  \* HASHLIST_BUCKET_SIZE
  MaxItems     \* MAX_ITEMS - 1, what NewItem makes at most

ASSUME DeltaAssumption == IntRange \in Nat \ {0} /\ MaxItems \in Nat

VARIABLES
  past,   \* pFrom
  current     \* pTo

deltaVars == <<past, current>>

ItemValues == 0 .. IntRange - 1

Snaps == {s \in UNION {[1 .. n -> [key : ItemKeys, val : ItemValues]] : n \in 0 .. MaxItems} :
            \A i, j \in DOMAIN s : s[i].key = s[j].key => i = j}

KeysOf(s) == {s[i].key : i \in DOMAIN s}

\* GetItem(GetItemIndex(k))
ItemOf(s, k) == CHOOSE item \in ToSet(s) : item.key = k

-----------------------------------------------------------------------------
\* The items that share a bucket with item i and come before it.
DeltaBefore(s, i) == {j \in 1 .. i - 1 : KeyHash(s[j].key) = KeyHash(s[i].key)}

\* GenerateHash, GetItemIndexHashed: the keys that the table of s finds.
Hashed(s) == {s[i].key : i \in {j \in DOMAIN s : Cardinality(DeltaBefore(s, j)) < BucketSize}}

\* Mutant of DiffItem: the items are the wrong way round.
DiffTurned(old, new) == (old - new) % IntRange

\* DiffItem and UndiffItem, on 32 bits.
DiffItem(old, new) == (new - old) % IntRange
UndiffItem(old, diff) == (old + diff) % IntRange

\* What CreateDelta writes of an item of the new snapshot: the difference to
\* the item that the table finds, nothing when they agree, or all of it.
UpdateOf(from, item) ==
  IF item.key \notin Hashed(from) THEN <<item>>
  ELSE LET diff == DiffItem(ItemOf(from, item.key).val, item.val)
       IN  IF diff = 0 THEN <<>> ELSE <<[item EXCEPT !.val = diff]>>

CreateDelta(from, to) ==
  [deleted |-> KeysOf(from) \ Hashed(to),
   updates |-> FlattenSeq([i \in DOMAIN to |-> UpdateOf(from, to[i])])]

\* UnpackDelta: what is not deleted is copied, then each update changes or
\* adds an item; the item it starts from is looked up without a table.
UnpackDelta(from, delta) ==
  LET kept == KeysOf(from) \ delta.deleted
      updated == KeysOf(delta.updates)
  IN  [k \in kept \union updated |->
         IF k \notin updated THEN ItemOf(from, k).val
         ELSE LET v == ItemOf(delta.updates, k).val
              IN  IF k \in KeysOf(from) THEN UndiffItem(ItemOf(from, k).val, v) ELSE v]

-----------------------------------------------------------------------------
DeltaTypeOK == past \in Snaps /\ current \in Snaps

DeltaInit == past = <<>> /\ current \in Snaps

\* The next snapshot.
DeltaNext == past' = current /\ current' \in Snaps

DeltaSpec == DeltaInit /\ [][DeltaNext]_deltaVars

-----------------------------------------------------------------------------
\* What the receiver makes of a delta has no item that the snapshot it was made for
\* does not have, and has each item of it that is new or that both hash tables find,
\* with its value (snapshot.cpp:168-196, 265-352, 355-460).  Of an item that a full
\* bucket hides nothing is said: it may be lost or get the wrong value.
DeltaRestores ==
  LET result == UnpackDelta(past, CreateDelta(past, current))
  IN  /\ DOMAIN result \subseteq KeysOf(current)
      /\ \A k \in KeysOf(current) :
           k \notin KeysOf(past) \/ k \in Hashed(past) \intersect Hashed(current) =>
             k \in DOMAIN result /\ result[k] = ItemOf(current, k).val
=============================================================================
