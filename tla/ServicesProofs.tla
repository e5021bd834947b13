---------------------------- MODULE ServicesProofs ----------------------------
(***************************************************************************)
(* Proofs about the services of the main loop: the ids of snapshots and    *)
(* what deltas are made against (Snapshots), short player ids (IdMap),     *)
(* the inventory and the weapons (Arms), menus (Menu), the remote console  *)
(* (Rcon), the external one (Econ), bans (Bans), the information for       *)
(* browsers (ServerInfo) and the master server (MasterServer).             *)
(***************************************************************************)
EXTENDS Services, MasterServer, Lemmas

-----------------------------------------------------------------------------
(* The ids of snapshots.                                                    *)

SnapTypes ==
  /\ freeIDs \in Seq(IDs)
  /\ timedIDs \in Seq([id : IDs, left : Int])
  /\ usedIDs \subseteq IDs
  /\ snapTick \in Nat /\ lag \in Nat
  /\ stored \in Seq([tick : Nat, ids : SUBSET IDs, gone : SUBSET IDs])

\* An id is in one place of free list f, timed list t or set of used ids u.
EachOnce(f, t, u) ==
  /\ \A i, j \in DOMAIN f : f[i] = f[j] => i = j
  /\ \A i, j \in DOMAIN t : t[i].id = t[j].id => i = j
  /\ \A i \in DOMAIN f : f[i] \notin u
  /\ \A i \in DOMAIN f, j \in DOMAIN t : f[i] # t[j].id
  /\ \A j \in DOMAIN t : t[j].id \notin u
  /\ \A d \in IDs : \/ d \in u
                    \/ \E i \in DOMAIN f : f[i] = d
                    \/ \E j \in DOMAIN t : t[j].id = d

UsageCounts ==
  /\ usage = Len(timedIDs) + Cardinality(usedIDs)
  /\ inUsage = Cardinality(usedIDs)

\* While a snapshot could still be what a delta is made against, the ids of the
\* entities that it names and that were deleted since wait, and will wait at
\* least until it is too old.
GoneIdsWait ==
  \A i \in DOMAIN stored :
    /\ stored[i].tick <= snapTick
    /\ snapTick + lag <= stored[i].tick + IdTimeout =>
         \A d \in stored[i].gone :
           \E j \in DOMAIN timedIDs :
             /\ timedIDs[j].id = d
             /\ timedIDs[j].left + snapTick + lag >= stored[i].tick + IdTimeout

\* What was acknowledged in this session is known.
AckKnown == ~ackStale => acked \in gotSnaps \union {-1}

SnapInv ==
  /\ SnapTypes
  /\ EachOnce(freeIDs, timedIDs, usedIDs)
  /\ UsageCounts
  /\ GoneIdsWait
  /\ AckKnown

\* What RemoveFirstTimeout does to both lists when it is called n times.
LEMMA FreedLists ==
  ASSUME SnapTypes, NEW n \in 0 .. Len(timedIDs)
  PROVE  /\ FreeWith(n) \in Seq(IDs)
         /\ DOMAIN FreeWith(n) = 1 .. n + Len(freeIDs)
         /\ \A k \in 1 .. n : FreeWith(n)[k] = timedIDs[n - k + 1].id
         /\ \A k \in n + 1 .. n + Len(freeIDs) : FreeWith(n)[k] = freeIDs[k - n]
         /\ TimedWithout(n) \in Seq([id : IDs, left : Int])
         /\ Len(TimedWithout(n)) = Len(timedIDs) - n
         /\ DOMAIN TimedWithout(n) = 1 .. Len(timedIDs) - n
         /\ \A k \in 1 .. Len(timedIDs) - n : TimedWithout(n)[k] = timedIDs[k + n]
<1>. DEFINE R == [id : IDs, left : Int]
            s == [i \in 1 .. n |-> timedIDs[i].id]
            r == Reverse(s)
<1>1. /\ Len(timedIDs) \in Nat /\ n \in Nat /\ Len(freeIDs) \in Nat
      /\ DOMAIN timedIDs = 1 .. Len(timedIDs)
  BY LenProperties DEF SnapTypes
<1>2. \A i \in 1 .. Len(timedIDs) : timedIDs[i] \in R
  BY <1>1, ElementOfSeq DEF SnapTypes
<1>3. \A i \in 1 .. n : timedIDs[i].id \in IDs
  BY <1>1, <1>2
<1>4. s \in Seq(IDs) /\ Len(s) = n
  BY <1>1, <1>3
<1>5. r = [i \in 1 .. n |-> timedIDs[n - i + 1].id]
  <2>1. r = [i \in 1 .. n |-> s[(n - i) + 1]]
    BY <1>4 DEF Reverse
  <2>2. \A i \in 1 .. n : (n - i) + 1 \in 1 .. n
    BY <1>1
  <2>. QED  BY <2>1, <2>2
<1>6. r \in Seq(IDs) /\ Len(r) = n
  <2>1. \A i \in 1 .. n : n - i + 1 \in 1 .. n
    BY <1>1
  <2>2. \A i \in 1 .. n : timedIDs[n - i + 1].id \in IDs
    BY <1>3, <2>1
  <2>. HIDE DEF r
  <2>. QED  BY <1>1, <1>5, <2>2
<1>7. \A k \in 1 .. n : r[k] = timedIDs[n - k + 1].id
  <2>. HIDE DEF r
  <2>. QED  BY <1>5
<1>8. freeIDs \in Seq(IDs)
  BY DEF SnapTypes
<1>9. /\ FreeWith(n) \in Seq(IDs)
      /\ Len(FreeWith(n)) = n + Len(freeIDs)
      /\ \A k \in 1 .. n + Len(freeIDs) : FreeWith(n)[k] = IF k <= n THEN r[k] ELSE freeIDs[k - n]
  <2>1. FreeWith(n) = r \o freeIDs
    BY DEF FreeWith
  <2>. HIDE DEF r
  <2>2. /\ r \o freeIDs \in Seq(IDs)
        /\ Len(r \o freeIDs) = Len(r) + Len(freeIDs)
        /\ \A i \in 1 .. Len(r) + Len(freeIDs) :
             (r \o freeIDs)[i] = IF i <= Len(r) THEN r[i] ELSE freeIDs[i - Len(r)]
    BY <1>6, <1>8, ConcatProperties
  <2>3. Len(r) = n
    BY <1>6
  <2>. QED  BY <2>1, <2>2, <2>3
<1>10. DOMAIN FreeWith(n) = 1 .. n + Len(freeIDs)
  BY <1>9, LenProperties
<1>11. \A k \in 1 .. n : FreeWith(n)[k] = timedIDs[n - k + 1].id
  <2>. HIDE DEF r
  <2>1. ASSUME NEW k \in 1 .. n PROVE FreeWith(n)[k] = timedIDs[n - k + 1].id
    <3>1. k \in 1 .. n + Len(freeIDs) /\ k <= n
      BY <1>1
    <3>2. FreeWith(n)[k] = r[k]
      BY <1>9, <3>1
    <3>. QED  BY <1>7, <3>2
  <2>. QED  BY <2>1
<1>12. \A k \in n + 1 .. n + Len(freeIDs) : FreeWith(n)[k] = freeIDs[k - n]
  <2>. HIDE DEF r
  <2>1. ASSUME NEW k \in n + 1 .. n + Len(freeIDs) PROVE FreeWith(n)[k] = freeIDs[k - n]
    <3>1. k \in 1 .. n + Len(freeIDs) /\ ~(k <= n)
      BY <1>1
    <3>. QED  BY <1>9, <3>1
  <2>. QED  BY <2>1
<1>13. /\ TimedWithout(n) \in Seq(R)
       /\ Len(TimedWithout(n)) = Len(timedIDs) - n
       /\ \A k \in 1 .. Len(timedIDs) - n : TimedWithout(n)[k] = timedIDs[k + n]
  <2>. HIDE DEF R
  <2>1. \A i \in n + 1 .. Len(timedIDs) : timedIDs[i] \in R
    BY <1>1, <1>2
  <2>2. /\ SubSeq(timedIDs, n + 1, Len(timedIDs)) \in Seq(R)
        /\ Len(SubSeq(timedIDs, n + 1, Len(timedIDs)))
             = IF n + 1 <= Len(timedIDs) THEN Len(timedIDs) - (n + 1) + 1 ELSE 0
        /\ \A i \in 1 .. Len(timedIDs) - (n + 1) + 1 :
             SubSeq(timedIDs, n + 1, Len(timedIDs))[i] = timedIDs[n + 1 + i - 1]
    BY <1>1, <2>1, SubSeqProperties
  <2>. DEFINE l == Len(timedIDs)
  <2>3. l \in Nat /\ n \in 0 .. l
    BY <1>1
  <2>. HIDE DEF l
  <2>4. (IF n + 1 <= l THEN l - (n + 1) + 1 ELSE 0) = l - n
    BY <2>3
  <2>5. l - (n + 1) + 1 = l - n /\ \A i \in 1 .. l - n : n + 1 + i - 1 = i + n
    BY <2>3
  <2>. QED  BY <2>2, <2>4, <2>5 DEF TimedWithout, l
<1>14. DOMAIN TimedWithout(n) = 1 .. Len(timedIDs) - n
  BY <1>13, LenProperties
<1>. QED  BY <1>9, <1>10, <1>11, <1>12, <1>13, <1>14

\* RemoveFirstTimeout leaves each id in one place.
LEMMA FreedOnce ==
  ASSUME SnapTypes, EachOnce(freeIDs, timedIDs, usedIDs), NEW n \in 0 .. Len(timedIDs)
  PROVE  EachOnce(FreeWith(n), TimedWithout(n), usedIDs)
<1>. DEFINE f == FreeWith(n)
            t == TimedWithout(n)
            m == Len(freeIDs)
            l == Len(timedIDs)
<1>1. m \in Nat /\ l \in Nat /\ n \in Nat /\ n <= l
      /\ DOMAIN timedIDs = 1 .. l /\ DOMAIN freeIDs = 1 .. m
  BY LenProperties DEF SnapTypes
<1>2. /\ DOMAIN f = 1 .. n + m /\ DOMAIN t = 1 .. l - n
      /\ \A k \in 1 .. n : f[k] = timedIDs[n - k + 1].id
      /\ \A k \in n + 1 .. n + m : f[k] = freeIDs[k - n]
      /\ \A k \in 1 .. l - n : t[k] = timedIDs[k + n]
  BY FreedLists
<1>. HIDE DEF f, t, m, l
<1>3. ASSUME NEW i \in DOMAIN f, NEW j \in DOMAIN f, f[i] = f[j] PROVE i = j
  <2>. i \in 1 .. n + m /\ j \in 1 .. n + m
    BY <1>2
  <2>1. CASE i <= n /\ j <= n
    <3>1. /\ i \in 1 .. n /\ n - i + 1 \in 1 .. l
          /\ j \in 1 .. n /\ n - j + 1 \in 1 .. l
      BY <1>1, <2>1
    <3>2. timedIDs[n - i + 1].id = timedIDs[n - j + 1].id
      BY <1>2, <1>3, <3>1
    <3>3. n - i + 1 = n - j + 1
      BY <1>1, <3>1, <3>2 DEF EachOnce
    <3>. QED  BY <1>1, <3>1, <3>3
  <2>2. CASE i > n /\ j > n
    <3>1. /\ i \in n + 1 .. n + m /\ i - n \in 1 .. m
          /\ j \in n + 1 .. n + m /\ j - n \in 1 .. m
      BY <1>1, <2>2
    <3>2. freeIDs[i - n] = freeIDs[j - n]
      BY <1>2, <1>3, <3>1
    <3>3. i - n = j - n
      BY <1>1, <3>1, <3>2 DEF EachOnce
    <3>. QED  BY <1>1, <3>1, <3>3
  <2>3. ASSUME NEW a \in 1 .. n, NEW b \in n + 1 .. n + m, f[a] = f[b] PROVE FALSE
    <3>1. n - a + 1 \in 1 .. l /\ b - n \in 1 .. m
      BY <1>1
    <3>2. timedIDs[n - a + 1].id = freeIDs[b - n]
      BY <1>2, <2>3
    <3>. QED  BY <1>1, <3>1, <3>2 DEF EachOnce
  <2>4. ~(i <= n /\ j > n) /\ ~(i > n /\ j <= n)
    <3>1. i <= n /\ j > n => i \in 1 .. n /\ j \in n + 1 .. n + m
      BY <1>1
    <3>2. i > n /\ j <= n => j \in 1 .. n /\ i \in n + 1 .. n + m
      BY <1>1
    <3>. QED  BY <1>3, <2>3, <3>1, <3>2
  <2>. QED  BY <1>1, <2>1, <2>2, <2>4
<1>4. ASSUME NEW i \in DOMAIN t, NEW j \in DOMAIN t, t[i].id = t[j].id PROVE i = j
  <2>1. t[i] = timedIDs[i + n] /\ t[j] = timedIDs[j + n]
        /\ i + n \in DOMAIN timedIDs /\ j + n \in DOMAIN timedIDs
    BY <1>1, <1>2
  <2>2. i + n = j + n
    BY <1>4, <2>1 DEF EachOnce
  <2>. QED  BY <1>1, <1>2, <2>2
<1>5. ASSUME NEW i \in DOMAIN f
      PROVE  f[i] \notin usedIDs /\ \A j \in DOMAIN t : f[i] # t[j].id
  <2>1. CASE i <= n
    <3>1. f[i] = timedIDs[n - i + 1].id /\ n - i + 1 \in DOMAIN timedIDs
      BY <1>1, <1>2, <2>1
    <3>2. \A j \in DOMAIN t : t[j] = timedIDs[j + n] /\ j + n \in DOMAIN timedIDs
                              /\ j + n # n - i + 1
      BY <1>1, <1>2, <2>1
    <3>. QED  BY <3>1, <3>2 DEF EachOnce
  <2>2. CASE i > n
    <3>1. f[i] = freeIDs[i - n] /\ i - n \in DOMAIN freeIDs
      BY <1>1, <1>2, <2>2
    <3>2. \A j \in DOMAIN t : t[j] = timedIDs[j + n] /\ j + n \in DOMAIN timedIDs
      BY <1>1, <1>2
    <3>. QED  BY <3>1, <3>2 DEF EachOnce
  <2>. QED  BY <1>1, <1>2, <2>1, <2>2
<1>6. ASSUME NEW j \in DOMAIN t PROVE t[j].id \notin usedIDs
  <2>1. j \in 1 .. l - n /\ j + n \in 1 .. l
    BY <1>1, <1>2
  <2>. QED  BY <1>1, <1>2, <2>1 DEF EachOnce
<1>7. ASSUME NEW d \in IDs, d \notin usedIDs, \A i \in DOMAIN f : f[i] # d
      PROVE  \E j \in DOMAIN t : t[j].id = d
  <2>1. ASSUME NEW i \in DOMAIN freeIDs, freeIDs[i] = d PROVE FALSE
    <3>1. i + n \in 1 .. n + m /\ i + n \in n + 1 .. n + m /\ (i + n) - n = i
      BY <1>1
    <3>2. f[i + n] = freeIDs[i]
      BY <1>2, <3>1
    <3>. QED  BY <1>2, <1>7, <2>1, <3>1, <3>2
  <2>2. PICK j \in DOMAIN timedIDs : timedIDs[j].id = d
    BY <1>7, <2>1 DEF EachOnce
  <2>3. ASSUME j <= n PROVE FALSE
    <3>1. /\ n - j + 1 \in 1 .. n /\ n - j + 1 \in 1 .. n + m
          /\ n - (n - j + 1) + 1 = j
      BY <1>1, <2>3
    <3>2. f[n - j + 1] = timedIDs[j].id
      BY <1>2, <3>1
    <3>. QED  BY <1>2, <1>7, <2>2, <3>1, <3>2
  <2>4. j - n \in DOMAIN t /\ (j - n) + n = j
    BY <1>1, <1>2, <2>3
  <2>5. t[j - n] = timedIDs[j]
    BY <1>2, <2>4
  <2>. QED  BY <2>2, <2>4, <2>5
<1>8. EachOnce(f, t, usedIDs)
  BY <1>3, <1>4, <1>5, <1>6, <1>7 DEF EachOnce
<1>. QED  BY <1>8 DEF f, t

\* The ids that NewID frees have waited long enough.
LEMMA ExpiredIds ==
  ASSUME SnapTypes
  PROVE  /\ IdExpired \in 0 .. Len(timedIDs)
         /\ \A i \in 1 .. IdExpired : timedIDs[i].left < 0
<1>. DEFINE l == Len(timedIDs)
            T == {k \in 0 .. l : k < l => timedIDs[k + 1].left >= 0}
            Good(k) == /\ \A i \in 1 .. k : timedIDs[i].left < 0
                       /\ k < l => timedIDs[k + 1].left >= 0
<1>1. l \in Nat
  BY LenProperties DEF SnapTypes
<1>2. \A i \in 1 .. l : timedIDs[i].left \in Int
  <2>1. \A i \in 1 .. l : timedIDs[i] \in [id : IDs, left : Int]
    BY ElementOfSeq DEF SnapTypes
  <2>. QED  BY <2>1
<1>. HIDE DEF l
<1>3. l \in T /\ T \in SUBSET Nat
  BY <1>1
<1>4. PICK k \in T : \A n \in T : k <= n
  <2>. HIDE DEF T
  <2>. QED  BY <1>3, SmallestNumber
<1>5. ASSUME NEW i \in 1 .. k PROVE timedIDs[i].left < 0
  <2>1. i - 1 \in 0 .. l /\ ~(k <= i - 1) /\ (i - 1) + 1 = i /\ i - 1 < l /\ i \in 1 .. l
    BY <1>1
  <2>2. i - 1 \notin T
    <3>. HIDE DEF T
    <3>. QED  BY <1>4, <2>1
  <2>3. ~(timedIDs[i].left >= 0)
    BY <2>1, <2>2
  <2>. QED  BY <1>2, <2>1, <2>3
<1>6. k \in 0 .. l /\ Good(k)
  BY <1>5
<1>7. IdExpired = CHOOSE n \in 0 .. l : Good(n)
  BY DEF IdExpired, l
<1>8. IdExpired \in 0 .. l /\ Good(IdExpired)
  <2>. HIDE DEF Good
  <2>. QED  BY <1>6, <1>7
<1>. QED  BY <1>8 DEF l

\* What the types of the lists say of their elements.
LEMMA SnapElements ==
  ASSUME SnapTypes
  PROVE  /\ Len(timedIDs) \in Nat /\ DOMAIN timedIDs = 1 .. Len(timedIDs)
         /\ \A j \in DOMAIN timedIDs :
              timedIDs[j] \in [id : IDs, left : Int] /\ timedIDs[j].id \in IDs
              /\ timedIDs[j].left \in Int
         /\ Len(freeIDs) \in Nat /\ DOMAIN freeIDs = 1 .. Len(freeIDs)
         /\ \A j \in DOMAIN freeIDs : freeIDs[j] \in IDs
         /\ Len(stored) \in Nat /\ DOMAIN stored = 1 .. Len(stored)
         /\ \A i \in DOMAIN stored :
              /\ stored[i] \in [tick : Nat, ids : SUBSET IDs, gone : SUBSET IDs]
              /\ stored[i].tick \in Nat /\ stored[i].ids \subseteq IDs
              /\ stored[i].gone \subseteq IDs
         /\ IsFiniteSet(usedIDs) /\ Cardinality(usedIDs) \in Nat
<1>1. /\ Len(timedIDs) \in Nat /\ DOMAIN timedIDs = 1 .. Len(timedIDs)
      /\ Len(freeIDs) \in Nat /\ DOMAIN freeIDs = 1 .. Len(freeIDs)
      /\ Len(stored) \in Nat /\ DOMAIN stored = 1 .. Len(stored)
  BY LenProperties DEF SnapTypes
<1>2. \A j \in DOMAIN timedIDs : timedIDs[j] \in [id : IDs, left : Int]
  BY <1>1, ElementOfSeq DEF SnapTypes
<1>3. \A j \in DOMAIN freeIDs : freeIDs[j] \in IDs
  BY <1>1, ElementOfSeq DEF SnapTypes
<1>4. \A i \in DOMAIN stored :
        stored[i] \in [tick : Nat, ids : SUBSET IDs, gone : SUBSET IDs]
  BY <1>1, ElementOfSeq DEF SnapTypes
<1>5. IsFiniteSet(usedIDs) /\ Cardinality(usedIDs) \in Nat
  BY SnapshotsAssumption, FS_Subset, FS_CardinalityType DEF SnapTypes, SnapshotsAssumption
<1>6. \A j \in DOMAIN timedIDs : timedIDs[j].id \in IDs /\ timedIDs[j].left \in Int
  BY <1>2
<1>7. \A i \in DOMAIN stored : stored[i].tick \in Nat /\ stored[i].ids \subseteq IDs
                               /\ stored[i].gone \subseteq IDs
  BY <1>4
<1>. QED  BY <1>1, <1>2, <1>3, <1>4, <1>5, <1>6, <1>7

\* NewID keeps the invariant: it takes an id that no snapshot still names.
LEMMA NewIDStep ==
  ASSUME SnapInv, NewID
  PROVE  SnapInv'
<1>. USE DEF SnapInv
<1>1. PICK n \in 0 .. Len(timedIDs) : n = IdExpired
  BY ExpiredIds
<1>2. \A i \in 1 .. n : timedIDs[i].left < 0
  BY <1>1, ExpiredIds
<1>. DEFINE f == FreeWith(n)
            t == TimedWithout(n)
            R == [id : IDs, left : Int]
<1>3. /\ f # <<>> /\ freeIDs' = Tail(f) /\ timedIDs' = t
      /\ usedIDs' = usedIDs \union {Head(f)}
      /\ usage' = usage - n + 1 /\ inUsage' = inUsage + 1
      /\ UNCHANGED <<snapTick, lag, stored, acked, gotSnaps, ackStale>>
  BY <1>1 DEF NewID, UsageWithout, clientVars
<1>4. EachOnce(f, t, usedIDs)
  BY FreedOnce
<1>5. /\ f \in Seq(IDs) /\ DOMAIN f = 1 .. Len(f)
      /\ t \in Seq(R) /\ Len(t) = Len(timedIDs) - n /\ DOMAIN t = 1 .. Len(timedIDs) - n
      /\ \A k \in 1 .. Len(timedIDs) - n : t[k] = timedIDs[k + n]
  BY FreedLists, LenProperties
<1>. HIDE DEF f, t, R
<1>6. /\ Head(f) = f[1] /\ Head(f) \in IDs /\ Len(f) \in Nat \ {0}
      /\ Tail(f) \in Seq(IDs) /\ Len(Tail(f)) = Len(f) - 1
      /\ DOMAIN Tail(f) = 1 .. Len(f) - 1
      /\ \A k \in 1 .. Len(f) - 1 : Tail(f)[k] = f[k + 1]
  <2>1. /\ Head(f) \in IDs /\ Tail(f) \in Seq(IDs) /\ Len(Tail(f)) = Len(f) - 1
        /\ \A k \in 1 .. Len(Tail(f)) : Tail(f)[k] = f[k + 1]
    BY <1>3, <1>5, HeadTailProperties
  <2>2. Len(f) \in Nat \ {0}
    BY <1>3, <1>5, EmptySeq
  <2>3. Head(f) = f[1]
    BY <1>5, <2>2
  <2>4. DOMAIN Tail(f) = 1 .. Len(f) - 1
    BY <2>1, LenProperties
  <2>. QED  BY <2>1, <2>2, <2>3, <2>4
<1>. DEFINE h == f[1]
            g == Tail(f)
<1>7. h \notin usedIDs /\ 1 \in DOMAIN f
  BY <1>4, <1>5, <1>6 DEF EachOnce
<1>8. EachOnce(g, t, usedIDs \union {h})
  <2>. HIDE DEF g
  <2>0. /\ DOMAIN g = 1 .. Len(f) - 1
        /\ \A k \in 1 .. Len(f) - 1 : g[k] = f[k + 1] /\ k + 1 \in DOMAIN f /\ k + 1 # 1
    <3>1. \A k \in 1 .. Len(f) - 1 : k + 1 \in 1 .. Len(f) /\ k + 1 # 1
      BY <1>6
    <3>. QED  BY <1>5, <1>6, <3>1 DEF g
  <2>1. ASSUME NEW i \in DOMAIN g, NEW j \in DOMAIN g, g[i] = g[j] PROVE i = j
    <3>1. i + 1 = j + 1
      BY <1>4, <2>0, <2>1 DEF EachOnce
    <3>. QED  BY <1>6, <2>0, <3>1
  <2>2. \A i \in DOMAIN g : g[i] \notin usedIDs \union {h}
    BY <1>4, <1>7, <2>0 DEF EachOnce
  <2>3. \A i \in DOMAIN g, j \in DOMAIN t : g[i] # t[j].id
    BY <1>4, <2>0 DEF EachOnce
  <2>4. \A j \in DOMAIN t : t[j].id \notin usedIDs \union {h}
    BY <1>4, <1>7 DEF EachOnce
  <2>5. ASSUME NEW d \in IDs, d \notin usedIDs \union {h}, \A j \in DOMAIN t : t[j].id # d
        PROVE  \E i \in DOMAIN g : g[i] = d
    <3>1. PICK i \in DOMAIN f : f[i] = d
      BY <1>4, <2>5 DEF EachOnce
    <3>2. i \in 1 .. Len(f) /\ i # 1
      BY <1>5, <2>5, <3>1
    <3>3. i - 1 \in 1 .. Len(f) - 1 /\ (i - 1) + 1 = i
      BY <1>6, <3>2
    <3>. QED  BY <2>0, <3>1, <3>3
  <2>. QED  BY <1>4, <2>1, <2>2, <2>3, <2>4, <2>5 DEF EachOnce
<1>9. SnapTypes'
  BY <1>3, <1>5, <1>6 DEF SnapTypes, R
<1>10. EachOnce(freeIDs, timedIDs, usedIDs)'
  BY <1>3, <1>6, <1>8 DEF EachOnce
<1>11. UsageCounts'
  <2>1. Cardinality(usedIDs \union {h}) = Cardinality(usedIDs) + 1
    BY <1>7, SnapElements, FS_AddElement
  <2>2. Len(timedIDs) \in Nat /\ n \in Nat /\ Cardinality(usedIDs) \in Nat
    BY SnapElements
  <2>3. usage = Len(timedIDs) + Cardinality(usedIDs) /\ inUsage = Cardinality(usedIDs)
    BY DEF UsageCounts
  <2>4. Len(timedIDs') = Len(timedIDs) - n
    BY <1>3, <1>5
  <2>5. Cardinality(usedIDs') = Cardinality(usedIDs) + 1
    BY <1>3, <1>6, <2>1
  <2>. QED  BY <1>3, <2>2, <2>3, <2>4, <2>5 DEF UsageCounts
<1>12. GoneIdsWait'
  <2>1. ASSUME NEW i \in DOMAIN stored, snapTick + lag <= stored[i].tick + IdTimeout,
               NEW d \in stored[i].gone
        PROVE  \E j \in DOMAIN t : /\ t[j].id = d
                                   /\ t[j].left + snapTick + lag >= stored[i].tick + IdTimeout
    <3>1. PICK j \in DOMAIN timedIDs :
            /\ timedIDs[j].id = d
            /\ timedIDs[j].left + snapTick + lag >= stored[i].tick + IdTimeout
      BY <2>1 DEF GoneIdsWait
    <3>2. ~(timedIDs[j].left < 0)
      <4>1. /\ snapTick \in Nat /\ lag \in Nat /\ IdTimeout \in Nat
            /\ stored[i].tick \in Nat /\ timedIDs[j].left \in Int
        BY SnapElements, SnapshotsAssumption DEF SnapTypes, SnapshotsAssumption
      <4>. QED  BY <2>1, <3>1, <4>1
    <3>3. j \in 1 .. Len(timedIDs) /\ Len(timedIDs) \in Nat
      BY SnapElements
    <3>4. ~(j \in 1 .. n)
      BY <1>2, <3>2
    <3>5. j - n \in 1 .. Len(timedIDs) - n /\ (j - n) + n = j
      BY <3>3, <3>4
    <3>. QED  BY <1>5, <3>1, <3>5
  <2>2. \A i \in DOMAIN stored : stored[i].tick <= snapTick
    BY DEF GoneIdsWait
  <2>. QED  BY <1>3, <2>1, <2>2 DEF GoneIdsWait
<1>13. AckKnown'
  BY <1>3 DEF AckKnown
<1>. QED  BY <1>9, <1>10, <1>11, <1>12, <1>13

\* FreeID keeps the invariant: the id waits longer than any snapshot that names it.
LEMMA FreeIDStep ==
  ASSUME SnapInv, NEW id \in IDs, FreeID(id)
  PROVE  SnapInv'
<1>. USE DEF SnapInv
<1>. DEFINE w == Waiting(id)
            t == Append(timedIDs, w)
            l == Len(timedIDs)
            R == [id : IDs, left : Int]
            H == [tick : Nat, ids : SUBSET IDs, gone : SUBSET IDs]
            s == Outdated({id})
<1>1. /\ id \in usedIDs /\ usedIDs' = usedIDs \ {id} /\ timedIDs' = t
      /\ inUsage' = inUsage - 1 /\ stored' = s
      /\ UNCHANGED <<freeIDs, usage, snapTick, lag, acked, gotSnaps, ackStale>>
  BY DEF FreeID
<1>2. w \in R /\ w.id = id /\ w.left = IdTimeout /\ timedIDs \in Seq(R)
  BY SnapshotsAssumption DEF Waiting, SnapshotsAssumption, SnapTypes
<1>3. l \in Nat /\ DOMAIN timedIDs = 1 .. l
  BY SnapElements
<1>4. /\ t \in Seq(R) /\ Len(t) = l + 1 /\ DOMAIN t = 1 .. l + 1
      /\ \A j \in 1 .. l : t[j] = timedIDs[j]
      /\ t[l + 1] = w
  <2>. HIDE DEF R, w
  <2>. QED  BY <1>2, AppendProperties, LenProperties
<1>5. /\ DOMAIN s = DOMAIN stored
      /\ \A i \in DOMAIN stored :
           /\ s[i] \in H
           /\ s[i].tick = stored[i].tick
           /\ s[i].gone \subseteq stored[i].gone \union {id}
  <2>1. ASSUME NEW i \in DOMAIN stored
        PROVE  /\ [stored[i] EXCEPT !.gone = @ \union ({id} \intersect stored[i].ids)] \in H
               /\ [stored[i] EXCEPT !.gone = @ \union ({id} \intersect stored[i].ids)].tick
                    = stored[i].tick
               /\ [stored[i] EXCEPT !.gone = @ \union ({id} \intersect stored[i].ids)].gone
                    = stored[i].gone \union ({id} \intersect stored[i].ids)
    <3>1. stored[i] \in H
      BY SnapElements
    <3>. QED  BY <3>1
  <2>. QED  BY <2>1 DEF Outdated
<1>6. s \in Seq(H)
  <2>1. Len(stored) \in Nat /\ DOMAIN stored = 1 .. Len(stored)
    BY SnapElements
  <2>2. s \in [1 .. Len(stored) -> H]
    <3>1. s = [i \in DOMAIN stored |-> s[i]]
      BY DEF Outdated
    <3>. HIDE DEF s, H
    <3>. QED  BY <1>5, <2>1, <3>1
  <2>. HIDE DEF s, H
  <2>. QED  BY <2>1, <2>2
<1>. HIDE DEF w, t, s, R, H, l
<1>7. SnapTypes'
  BY <1>1, <1>4, <1>6 DEF SnapTypes, R, H
<1>8. EachOnce(freeIDs, t, usedIDs \ {id})
  <2>1. ASSUME NEW i \in DOMAIN t, NEW j \in DOMAIN t, t[i].id = t[j].id PROVE i = j
    <3>1. (i \in 1 .. l \/ i = l + 1) /\ (j \in 1 .. l \/ j = l + 1)
      BY <1>3, <1>4
    <3>2. \A k \in 1 .. l : t[k].id # t[l + 1].id
      BY <1>1, <1>2, <1>3, <1>4 DEF EachOnce
    <3>3. i \in 1 .. l /\ j \in 1 .. l => i = j
      BY <1>3, <1>4, <2>1 DEF EachOnce
    <3>. QED  BY <2>1, <3>1, <3>2, <3>3
  <2>2. \A i \in DOMAIN freeIDs, j \in DOMAIN t : freeIDs[i] # t[j].id
    <3>1. ASSUME NEW i \in DOMAIN freeIDs, NEW j \in DOMAIN t PROVE freeIDs[i] # t[j].id
      <4>1. j \in 1 .. l \/ j = l + 1
        BY <1>3, <1>4
      <4>. QED  BY <1>1, <1>2, <1>3, <1>4, <4>1 DEF EachOnce
    <3>. QED  BY <3>1
  <2>3. ASSUME NEW j \in DOMAIN t PROVE t[j].id \notin usedIDs \ {id}
    <3>1. j \in 1 .. l \/ j = l + 1
      BY <1>3, <1>4
    <3>. QED  BY <1>2, <1>3, <1>4, <3>1 DEF EachOnce
  <2>4. ASSUME NEW d \in IDs, d \notin usedIDs \ {id}, \A i \in DOMAIN freeIDs : freeIDs[i] # d
        PROVE  \E j \in DOMAIN t : t[j].id = d
    <3>1. CASE d = id
      <4>1. l + 1 \in DOMAIN t
        BY <1>3, <1>4
      <4>. QED  BY <1>2, <1>4, <3>1, <4>1
    <3>2. CASE d # id
      <4>1. PICK j \in DOMAIN timedIDs : timedIDs[j].id = d
        BY <2>4, <3>2 DEF EachOnce
      <4>2. j \in DOMAIN t
        BY <1>3, <1>4
      <4>. QED  BY <1>3, <1>4, <4>1, <4>2
    <3>. QED  BY <3>1, <3>2
  <2>5. \A i, j \in DOMAIN freeIDs : freeIDs[i] = freeIDs[j] => i = j
    BY DEF EachOnce
  <2>6. \A i \in DOMAIN freeIDs : freeIDs[i] \notin usedIDs \ {id}
    BY DEF EachOnce
  <2>. QED  BY <2>1, <2>2, <2>3, <2>4, <2>5, <2>6 DEF EachOnce
<1>9. EachOnce(freeIDs, timedIDs, usedIDs)'
  BY <1>1, <1>8 DEF EachOnce
<1>10. UsageCounts'
  <2>1. /\ Cardinality(usedIDs \ {id}) = Cardinality(usedIDs) - 1
        /\ Cardinality(usedIDs) \in Nat
    BY <1>1, SnapElements, FS_RemoveElement
  <2>2. usage = l + Cardinality(usedIDs) /\ inUsage = Cardinality(usedIDs)
    BY DEF UsageCounts, l
  <2>3. Len(timedIDs') = l + 1
    BY <1>1, <1>4
  <2>4. Cardinality(usedIDs') = Cardinality(usedIDs) - 1
    BY <1>1, <2>1
  <2>. QED  BY <1>1, <1>3, <2>1, <2>2, <2>3, <2>4 DEF UsageCounts
<1>11. ASSUME NEW i \in DOMAIN stored, snapTick + lag <= stored[i].tick + IdTimeout,
              NEW d \in s[i].gone
       PROVE  \E j \in DOMAIN t : /\ t[j].id = d
                                  /\ t[j].left + snapTick + lag >= stored[i].tick + IdTimeout
  <2>1. CASE d = id
    <3>1. l + 1 \in DOMAIN t /\ t[l + 1].id = d /\ t[l + 1].left = IdTimeout
      BY <1>2, <1>3, <1>4, <2>1
    <3>2. stored[i].tick <= snapTick
      BY DEF GoneIdsWait
    <3>3. snapTick \in Nat /\ lag \in Nat /\ IdTimeout \in Nat /\ stored[i].tick \in Nat
      BY SnapElements, SnapshotsAssumption DEF SnapTypes, SnapshotsAssumption
    <3>4. IdTimeout + snapTick + lag >= stored[i].tick + IdTimeout
      BY <3>2, <3>3
    <3>. QED  BY <3>1, <3>4
  <2>2. CASE d # id
    <3>1. d \in stored[i].gone
      BY <1>5, <2>2
    <3>2. PICK j \in DOMAIN timedIDs :
            /\ timedIDs[j].id = d
            /\ timedIDs[j].left + snapTick + lag >= stored[i].tick + IdTimeout
      BY <1>11, <3>1 DEF GoneIdsWait
    <3>3. j \in DOMAIN t /\ t[j] = timedIDs[j]
      BY <1>3, <1>4
    <3>. QED  BY <3>2, <3>3
  <2>. QED  BY <2>1, <2>2
<1>12. GoneIdsWait'
  <2>1. \A i \in DOMAIN stored : stored[i].tick <= snapTick
    BY DEF GoneIdsWait
  <2>. QED  BY <1>1, <1>5, <1>11, <2>1 DEF GoneIdsWait
<1>13. AckKnown'
  BY <1>1 DEF AckKnown
<1>. QED  BY <1>7, <1>9, <1>10, <1>12, <1>13

\* Time passes for the snapshots as for the ids that wait.
LEMMA IdTimeStep ==
  ASSUME SnapInv, IdTimePasses
  PROVE  SnapInv'
<1>. USE DEF SnapInv
<1>. DEFINE Later(r) == [r EXCEPT !.left = IF @ < 0 THEN @ ELSE @ - 1]
            t == [i \in DOMAIN timedIDs |-> Later(timedIDs[i])]
            R == [id : IDs, left : Int]
<1>1. /\ lag' = lag + 1 /\ timedIDs' = t
      /\ UNCHANGED <<freeIDs, usedIDs, usage, inUsage, snapTick, stored, acked,
                     gotSnaps, ackStale>>
  BY DEF IdTimePasses, clientVars
<1>2. Len(timedIDs) \in Nat /\ DOMAIN timedIDs = 1 .. Len(timedIDs)
  BY SnapElements
<1>3. ASSUME NEW i \in DOMAIN timedIDs
      PROVE  /\ Later(timedIDs[i]) \in R /\ Later(timedIDs[i]).id = timedIDs[i].id
             /\ Later(timedIDs[i]).left = IF timedIDs[i].left < 0 THEN timedIDs[i].left
                                          ELSE timedIDs[i].left - 1
  <2>1. timedIDs[i] \in R /\ timedIDs[i].left \in Int
    BY SnapElements
  <2>. QED  BY <2>1
<1>4. /\ DOMAIN t = DOMAIN timedIDs
      /\ \A i \in DOMAIN timedIDs :
           /\ t[i] \in R /\ t[i].id = timedIDs[i].id
           /\ t[i].left = IF timedIDs[i].left < 0 THEN timedIDs[i].left ELSE timedIDs[i].left - 1
  BY <1>3
<1>5. t \in Seq(R) /\ Len(t) = Len(timedIDs)
  <2>1. t \in [1 .. Len(timedIDs) -> R]
    <3>1. t = [i \in DOMAIN timedIDs |-> t[i]]
      OBVIOUS
    <3>. HIDE DEF t, R
    <3>. QED  BY <1>2, <1>4, <3>1
  <2>. HIDE DEF t, R
  <2>2. t \in Seq(R)
    BY <1>2, <2>1
  <2>3. DOMAIN t = 1 .. Len(timedIDs) /\ DOMAIN t = 1 .. Len(t) /\ Len(t) \in Nat
    BY <2>1, <2>2, LenProperties
  <2>. QED  BY <1>2, <2>2, <2>3
<1>. HIDE DEF t, R
<1>6. SnapTypes'
  BY <1>1, <1>5 DEF SnapTypes, R
<1>7. EachOnce(freeIDs, t, usedIDs)
  BY <1>4 DEF EachOnce
<1>8. EachOnce(freeIDs, timedIDs, usedIDs)'
  BY <1>1, <1>7 DEF EachOnce
<1>9. UsageCounts'
  <2>1. Len(timedIDs') = Len(timedIDs)
    BY <1>1, <1>5
  <2>. QED  BY <1>1, <2>1 DEF UsageCounts
<1>10. ASSUME NEW i \in DOMAIN stored, snapTick + (lag + 1) <= stored[i].tick + IdTimeout,
              NEW d \in stored[i].gone
       PROVE  \E j \in DOMAIN t : /\ t[j].id = d
                                  /\ t[j].left + snapTick + (lag + 1) >= stored[i].tick + IdTimeout
  <2>1. snapTick \in Nat /\ lag \in Nat /\ IdTimeout \in Nat /\ stored[i].tick \in Nat
    BY SnapElements, SnapshotsAssumption DEF SnapTypes, SnapshotsAssumption
  <2>2. snapTick + lag <= stored[i].tick + IdTimeout
    BY <1>10, <2>1
  <2>3. PICK j \in DOMAIN timedIDs :
          /\ timedIDs[j].id = d
          /\ timedIDs[j].left + snapTick + lag >= stored[i].tick + IdTimeout
    BY <2>2 DEF GoneIdsWait
  <2>4. timedIDs[j].left \in Int
    BY SnapElements
  <2>5. ~(timedIDs[j].left < 0)
    BY <1>10, <2>1, <2>3, <2>4
  <2>6. t[j].left = timedIDs[j].left - 1 /\ t[j].id = d /\ j \in DOMAIN t
    BY <1>4, <2>3, <2>5
  <2>7. t[j].left + snapTick + (lag + 1) >= stored[i].tick + IdTimeout
    BY <2>1, <2>3, <2>4, <2>6
  <2>. QED  BY <2>6, <2>7
<1>11. GoneIdsWait'
  <2>1. \A i \in DOMAIN stored : stored[i].tick <= snapTick
    BY DEF GoneIdsWait
  <2>. QED  BY <1>1, <1>10, <2>1 DEF GoneIdsWait
<1>12. AckKnown'
  BY <1>1 DEF AckKnown
<1>. QED  BY <1>6, <1>8, <1>9, <1>11, <1>12

\* A tick that was due is run: nothing is later than it was.
LEMMA RunTickStep ==
  ASSUME SnapInv, RunTick
  PROVE  SnapInv'
<1>. USE DEF SnapInv
<1>1. /\ lag > 0 /\ snapTick' = snapTick + 1 /\ lag' = lag - 1
      /\ UNCHANGED <<freeIDs, timedIDs, usedIDs, usage, inUsage, stored, acked, gotSnaps,
                     ackStale>>
  BY DEF RunTick, poolVars, clientVars
<1>2. snapTick \in Nat /\ lag \in Nat
  BY DEF SnapTypes
<1>3. SnapTypes'
  <2>1. snapTick + 1 \in Nat /\ lag - 1 \in Nat
    BY <1>1, <1>2
  <2>. QED  BY <1>1, <2>1 DEF SnapTypes
<1>4. EachOnce(freeIDs, timedIDs, usedIDs)' /\ UsageCounts' /\ AckKnown'
  BY <1>1 DEF EachOnce, UsageCounts, AckKnown
<1>5. GoneIdsWait'
  <2>1. ASSUME NEW i \in DOMAIN stored PROVE stored[i].tick <= snapTick + 1
    <3>1. stored[i].tick <= snapTick /\ stored[i].tick \in Nat
      BY SnapElements DEF GoneIdsWait
    <3>. QED  BY <1>2, <3>1
  <2>2. ASSUME NEW i \in DOMAIN stored, NEW j \in DOMAIN timedIDs
        PROVE  /\ (snapTick + 1) + (lag - 1) = snapTick + lag
               /\ timedIDs[j].left + (snapTick + 1) + (lag - 1) = timedIDs[j].left + snapTick + lag
    <3>1. timedIDs[j].left \in Int
      BY SnapElements
    <3>. QED  BY <1>2, <3>1
  <2>3. (snapTick + 1) + (lag - 1) = snapTick + lag
    BY <1>2
  <2>4. ASSUME NEW i \in DOMAIN stored, snapTick + lag <= stored[i].tick + IdTimeout,
               NEW d \in stored[i].gone
        PROVE  \E j \in DOMAIN timedIDs :
                 /\ timedIDs[j].id = d
                 /\ timedIDs[j].left + (snapTick + 1) + (lag - 1) >= stored[i].tick + IdTimeout
    <3>1. PICK j \in DOMAIN timedIDs :
            /\ timedIDs[j].id = d
            /\ timedIDs[j].left + snapTick + lag >= stored[i].tick + IdTimeout
      BY <2>4 DEF GoneIdsWait
    <3>. QED  BY <2>2, <3>1
  <2>. QED  BY <1>1, <2>1, <2>3, <2>4 DEF GoneIdsWait
<1>. QED  BY <1>3, <1>4, <1>5

\* A snapshot names entities that exist; what is dropped from the storage is not missed.
LEMMA DoSnapshotStep ==
  ASSUME SnapInv, DoSnapshot
  PROVE  SnapInv'
<1>. USE DEF SnapInv
<1>. DEFINE H == [tick : Nat, ids : SUBSET IDs, gone : SUBSET IDs]
            h == [tick |-> snapTick, ids |-> usedIDs, gone |-> {}]
            l == Len(stored)
<1>1. /\ stored' = Append(Purged, h)
      /\ gotSnaps \subseteq gotSnaps'
      /\ UNCHANGED <<freeIDs, timedIDs, usedIDs, usage, inUsage, snapTick, lag, acked, ackStale>>
  BY DEF DoSnapshot, WithSnapshot, poolVars
<1>2. stored \in Seq(H) /\ l \in Nat /\ DOMAIN stored = 1 .. l /\ h \in H
  BY SnapElements DEF SnapTypes
<1>3. /\ Purged \in Seq(H) /\ Len(Purged) \in Nat /\ DOMAIN Purged = 1 .. Len(Purged)
      /\ \A i \in DOMAIN Purged : \E k \in DOMAIN stored : Purged[i] = stored[k]
  <2>. DEFINE K == {i \in DOMAIN stored : stored[i].tick >= snapTick - SnapKeep}
  <2>1. CASE K = {}
    <3>1. Purged = <<>>
      BY <2>1 DEF Purged
    <3>2. Purged \in Seq(H) /\ Len(Purged) = 0 /\ DOMAIN Purged = {}
      BY <3>1
    <3>. QED  BY <3>2
  <2>2. CASE K # {}
    <3>1. K \in SUBSET Nat
      BY <1>2
    <3>2. \E m \in K : \A n \in K : m <= n
      <4>. HIDE DEF K
      <4>. QED  BY <2>2, <3>1, SmallestNumber
    <3>3. Min(K) \in K
      BY <3>2 DEF Min
    <3>4. PICK m \in 1 .. l : m = Min(K)
      BY <1>2, <3>3
    <3>5. Purged = SubSeq(stored, m, l)
      BY <2>2, <3>4 DEF Purged
    <3>. HIDE DEF H, h, K, l
    <3>6. \A i \in m .. l : stored[i] \in H
      <4>1. \A i \in m .. l : i \in 1 .. l
        BY <1>2
      <4>. QED  BY <1>2, <4>1, ElementOfSeq DEF l
    <3>7. /\ SubSeq(stored, m, l) \in Seq(H)
          /\ Len(SubSeq(stored, m, l)) = IF m <= l THEN l - m + 1 ELSE 0
          /\ \A i \in 1 .. l - m + 1 : SubSeq(stored, m, l)[i] = stored[m + i - 1]
      <4>1. m \in Int /\ l \in Int
        BY <1>2
      <4>. QED  BY <3>6, <4>1, SubSeqProperties
    <3>8. (IF m <= l THEN l - m + 1 ELSE 0) = l - m + 1 /\ l - m + 1 \in Nat
          /\ \A i \in 1 .. l - m + 1 : m + i - 1 \in 1 .. l
      BY <1>2
    <3>9. Purged \in Seq(H) /\ Len(Purged) = l - m + 1 /\ DOMAIN Purged = 1 .. l - m + 1
      BY <3>5, <3>7, <3>8, LenProperties
    <3>10. \A i \in DOMAIN Purged : \E k \in DOMAIN stored : Purged[i] = stored[k]
      BY <1>2, <3>5, <3>7, <3>8, <3>9
    <3>. QED  BY <3>8, <3>9, <3>10
  <2>. QED  BY <2>1, <2>2
<1>4. /\ Append(Purged, h) \in Seq(H)
      /\ DOMAIN Append(Purged, h) = 1 .. Len(Purged) + 1
      /\ \A i \in 1 .. Len(Purged) : Append(Purged, h)[i] = Purged[i]
      /\ Append(Purged, h)[Len(Purged) + 1] = h
  <2>. HIDE DEF H, h
  <2>. QED  BY <1>2, <1>3, AppendProperties, LenProperties
<1>5. \A i \in DOMAIN stored' : stored'[i] = h \/ \E k \in DOMAIN stored : stored'[i] = stored[k]
  <2>1. \A i \in 1 .. Len(Purged) + 1 : i \in 1 .. Len(Purged) \/ i = Len(Purged) + 1
    BY <1>3
  <2>. HIDE DEF h
  <2>. QED  BY <1>1, <1>3, <1>4, <2>1
<1>6. SnapTypes'
  BY <1>1, <1>4 DEF SnapTypes
<1>7. EachOnce(freeIDs, timedIDs, usedIDs)' /\ UsageCounts' /\ AckKnown'
  BY <1>1 DEF EachOnce, UsageCounts, AckKnown
<1>8. GoneIdsWait'
  <2>1. ASSUME NEW i \in DOMAIN stored'
        PROVE  /\ stored'[i].tick <= snapTick
               /\ snapTick + lag <= stored'[i].tick + IdTimeout =>
                    \A d \in stored'[i].gone :
                      \E j \in DOMAIN timedIDs :
                        /\ timedIDs[j].id = d
                        /\ timedIDs[j].left + snapTick + lag >= stored'[i].tick + IdTimeout
    <3>1. CASE stored'[i] = h
      BY <3>1 DEF SnapTypes
    <3>2. CASE \E k \in DOMAIN stored : stored'[i] = stored[k]
      <4>. HIDE DEF h
      <4>. QED  BY <3>2 DEF GoneIdsWait
    <3>. QED  BY <1>5, <3>1, <3>2
  <2>. HIDE DEF h
  <2>. QED  BY <1>1, <2>1 DEF GoneIdsWait
<1>. QED  BY <1>6, <1>7, <1>8

\* What a client says, and a client that starts anew.
LEMMA SnapClientSteps ==
  ASSUME SnapInv,
         \/ \E t \in -1 .. MaxTick, old \in BOOLEAN : Input(t, old)
         \/ EnterGame \/ SnapRejoin \/ UNCHANGED snapVars
  PROVE  SnapInv'
<1>. USE DEF SnapInv
<1>1. UNCHANGED <<freeIDs, timedIDs, usedIDs, usage, inUsage, snapTick, lag>>
  BY DEF Input, EnterGame, SnapRejoin, snapVars, poolVars
<1>2. EachOnce(freeIDs, timedIDs, usedIDs)' /\ UsageCounts'
  BY <1>1 DEF EachOnce, UsageCounts
<1>3. stored' = stored \/ stored' = <<>>
  BY DEF Input, EnterGame, SnapRejoin, ClientReset, snapVars, clientVars
<1>4. SnapTypes' /\ GoneIdsWait'
  <2>1. CASE stored' = stored
    BY <1>1, <2>1 DEF SnapTypes, GoneIdsWait
  <2>2. CASE stored' = <<>>
    BY <1>1, <2>2 DEF SnapTypes, GoneIdsWait
  <2>. QED  BY <1>3, <2>1, <2>2
<1>5. AckKnown'
  BY DEF Input, EnterGame, SnapRejoin, ClientReset, AckAfterReset, snapVars, clientVars, AckKnown
<1>. QED  BY <1>2, <1>4, <1>5

\* A new map: all ids are free or wait, and no snapshot is left that names one.
LEMMA SnapReloadStep ==
  ASSUME SnapInv, SnapReload
  PROVE  SnapInv'
<1>. USE DEF SnapInv
<1>. DEFINE n == Len(timedIDs)
            f == FreeWith(n)
            c == Cardinality(usedIDs)
            R == [id : IDs, left : Int]
<1>1. PICK order \in SetToSeqs(usedIDs) :
        timedIDs' = [i \in DOMAIN order |-> Waiting(order[i])]
  BY DEF SnapReload
<1>2. /\ freeIDs' = f /\ usedIDs' = {} /\ usage' = usage - n /\ inUsage' = 0
      /\ snapTick' = 0 /\ lag' = 0 /\ stored' = <<>> /\ acked' = -1 /\ ackStale' = FALSE
  BY DEF SnapReload, ClientReset, UsageWithout, AckAfterReset
<1>3. /\ order \in [1 .. c -> usedIDs] /\ DOMAIN order = 1 .. c
      /\ \A i, j \in 1 .. c : i # j => order[i] # order[j]
  BY DEF SetToSeqs
<1>4. IsFiniteSet(usedIDs) /\ c \in Nat /\ n \in Nat /\ n \in 0 .. n /\ usedIDs \subseteq IDs
  BY SnapElements DEF SnapTypes
<1>5. {order[i] : i \in 1 .. c} = usedIDs
  <2>. HIDE DEF c
  <2>1. order \in [1 .. Cardinality(usedIDs) -> usedIDs]
        /\ \A i, j \in 1 .. Cardinality(usedIDs) : i # j => order[i] # order[j]
    BY <1>3 DEF c
  <2>2. {order[i] : i \in 1 .. Cardinality(usedIDs)} = usedIDs
    BY <1>4, <2>1, AllElements
  <2>. QED  BY <2>2 DEF c
<1>6. /\ DOMAIN timedIDs' = 1 .. c
      /\ \A i \in 1 .. c : /\ timedIDs'[i] = [id |-> order[i], left |-> IdTimeout]
                           /\ timedIDs'[i].id = order[i] /\ timedIDs'[i] \in R
  <2>1. IdTimeout \in Int
    BY SnapshotsAssumption DEF SnapshotsAssumption
  <2>2. \A i \in 1 .. c : order[i] \in IDs
    BY <1>3, <1>4
  <2>. QED  BY <1>1, <1>3, <2>1, <2>2 DEF Waiting
<1>7. timedIDs' \in Seq(R) /\ Len(timedIDs') = c
  <2>1. timedIDs' \in [1 .. c -> R]
    <3>1. timedIDs' = [i \in 1 .. c |-> timedIDs'[i]]
      BY <1>1, <1>3
    <3>. HIDE DEF R, c
    <3>. QED  BY <1>6, <3>1
  <2>. HIDE DEF R, c
  <2>2. timedIDs' \in Seq(R)
    BY <1>4, <2>1
  <2>3. DOMAIN timedIDs' = 1 .. Len(timedIDs') /\ Len(timedIDs') \in Nat
    BY <2>2, LenProperties
  <2>. QED  BY <1>4, <1>6, <2>2, <2>3
<1>8. f \in Seq(IDs)
  BY <1>4, FreedLists
<1>9. EachOnce(f, TimedWithout(n), usedIDs) /\ DOMAIN TimedWithout(n) = {}
  <2>1. DOMAIN TimedWithout(n) = 1 .. n - n
    BY <1>4, FreedLists
  <2>2. 1 .. n - n = {}
    BY <1>4
  <2>. QED  BY <1>4, <2>1, <2>2, FreedOnce
<1>. HIDE DEF f, c, R, n
<1>10. EachOnce(f, timedIDs', {})
  <2>1. \A i, j \in DOMAIN f : f[i] = f[j] => i = j
    BY <1>9 DEF EachOnce
  <2>2. \A i, j \in DOMAIN timedIDs' : timedIDs'[i].id = timedIDs'[j].id => i = j
    BY <1>3, <1>6
  <2>3. \A i \in DOMAIN f, j \in DOMAIN timedIDs' : f[i] # timedIDs'[j].id
    BY <1>3, <1>6, <1>9 DEF EachOnce
  <2>4. ASSUME NEW d \in IDs, \A i \in DOMAIN f : f[i] # d
        PROVE  \E j \in DOMAIN timedIDs' : timedIDs'[j].id = d
    <3>1. d \in usedIDs
      BY <1>9, <2>4 DEF EachOnce
    <3>. QED  BY <1>5, <1>6, <3>1
  <2>. QED  BY <2>1, <2>2, <2>3, <2>4 DEF EachOnce
<1>11. SnapTypes'
  BY <1>2, <1>7, <1>8 DEF SnapTypes, R
<1>12. EachOnce(freeIDs, timedIDs, usedIDs)'
  BY <1>2, <1>10 DEF EachOnce
<1>13. UsageCounts'
  <2>1. usage = n + c
    BY DEF UsageCounts, n, c
  <2>2. Cardinality({}) = 0
    BY FS_EmptySet
  <2>. QED  BY <1>2, <1>4, <1>7, <2>1, <2>2 DEF UsageCounts
<1>14. GoneIdsWait' /\ AckKnown'
  BY <1>2 DEF GoneIdsWait, AckKnown
<1>. QED  BY <1>11, <1>12, <1>13, <1>14

LEMMA SnapInitInv == SnapInit => SnapInv
<1>. SUFFICES ASSUME SnapInit PROVE SnapInv
  OBVIOUS
<1>. DEFINE c == Cardinality(IDs)
<1>1. IsFiniteSet(IDs) /\ c \in Nat /\ ExistsBijection(1 .. c, IDs)
  BY SnapshotsAssumption, FS_CardinalityType DEF SnapshotsAssumption
<1>2. \E s \in [1 .. c -> IDs] : IsInjective(s)
  BY <1>1 DEF ExistsBijection, Bijection, Injection
<1>3. freeIDs \in [1 .. c -> IDs] /\ IsInjective(freeIDs)
  BY <1>2 DEF SnapInit, SetToSeq
<1>4. \A i, j \in 1 .. c : i # j => freeIDs[i] # freeIDs[j]
  BY <1>3 DEF IsInjective
<1>5. {freeIDs[i] : i \in 1 .. c} = IDs
  <2>. HIDE DEF c
  <2>1. /\ freeIDs \in [1 .. Cardinality(IDs) -> IDs]
        /\ \A i, j \in 1 .. Cardinality(IDs) : i # j => freeIDs[i] # freeIDs[j]
    BY <1>3, <1>4 DEF c
  <2>2. \E s : s = freeIDs
    OBVIOUS
  <2>3. PICK s : s = freeIDs
    BY <2>2
  <2>4. {s[i] : i \in 1 .. Cardinality(IDs)} = IDs
    <3>1. /\ s \in [1 .. Cardinality(IDs) -> IDs]
          /\ \A i, j \in 1 .. Cardinality(IDs) : i # j => s[i] # s[j]
      BY <2>1, <2>3
    <3>. QED  BY <1>1, <3>1, AllElements
  <2>. QED  BY <2>3, <2>4 DEF c
<1>6. freeIDs \in Seq(IDs) /\ DOMAIN freeIDs = 1 .. c
  BY <1>1, <1>3
<1>. HIDE DEF c
<1>7. SnapTypes
  BY <1>6 DEF SnapInit, SnapTypes
<1>8. EachOnce(freeIDs, timedIDs, usedIDs)
  BY <1>4, <1>5, <1>6 DEF SnapInit, EachOnce
<1>9. UsageCounts
  BY FS_EmptySet DEF SnapInit, UsageCounts
<1>10. GoneIdsWait /\ AckKnown
  BY DEF SnapInit, GoneIdsWait, AckKnown
<1>. QED  BY <1>7, <1>8, <1>9, <1>10 DEF SnapInv

LEMMA SnapNextInv == SnapInv /\ [SnapNext]_snapVars => SnapInv'
<1>. SUFFICES ASSUME SnapInv, [SnapNext]_snapVars PROVE SnapInv'
  OBVIOUS
<1>1. CASE NewID
  BY <1>1, NewIDStep
<1>2. CASE \E id \in IDs : FreeID(id)
  BY <1>2, FreeIDStep
<1>3. CASE IdTimePasses
  BY <1>3, IdTimeStep
<1>4. CASE RunTick
  BY <1>4, RunTickStep
<1>5. CASE DoSnapshot
  BY <1>5, DoSnapshotStep
<1>6. CASE \/ \E t \in -1 .. MaxTick, old \in BOOLEAN : Input(t, old)
           \/ EnterGame \/ SnapRejoin \/ UNCHANGED snapVars
  BY <1>6, SnapClientSteps
<1>7. CASE SnapReload
  BY <1>7, SnapReloadStep
<1>. QED  BY <1>1, <1>2, <1>3, <1>4, <1>5, <1>6, <1>7 DEF SnapNext

LEMMA SnapInvariance == SnapSpec => []SnapInv
<1>. QED  BY SnapInitInv, SnapNextInv, PTL DEF SnapSpec

\* The counters are right since no id is in two places.
LEMMA IdsCounted ==
  ASSUME SnapInv
  PROVE  IdsAccountedFor
<1>. USE DEF SnapInv
<1>. DEFINE t == [i \in DOMAIN timedIDs |-> timedIDs[i].id]
<1>1. /\ DOMAIN timedIDs = 1 .. Len(timedIDs) /\ Len(timedIDs) \in Nat
      /\ \A i \in DOMAIN timedIDs : timedIDs[i].id \in IDs
      /\ DOMAIN freeIDs = 1 .. Len(freeIDs) /\ Len(freeIDs) \in Nat
      /\ \A i \in DOMAIN freeIDs : freeIDs[i] \in IDs
      /\ IsFiniteSet(usedIDs) /\ Cardinality(usedIDs) \in Nat /\ usedIDs \subseteq IDs
  BY SnapElements DEF SnapTypes
<1>2. t \in Seq(IDs) /\ DOMAIN t = DOMAIN timedIDs /\ Len(t) = Len(timedIDs)
  BY <1>1
<1>3. \A i \in DOMAIN timedIDs : t[i] = timedIDs[i].id
  OBVIOUS
<1>4. {t[i] : i \in DOMAIN t} = TimedIDs
  <2>. HIDE DEF t
  <2>. QED  BY <1>2, <1>3 DEF TimedIDs
<1>5. IsFiniteSet(TimedIDs) /\ Cardinality(TimedIDs) = Len(timedIDs)
  <2>1. \A i, j \in DOMAIN t : t[i] = t[j] => i = j
    BY <1>2, <1>3 DEF EachOnce
  <2>. HIDE DEF t
  <2>2. IsFiniteSet({t[i] : i \in DOMAIN t}) /\ Cardinality({t[i] : i \in DOMAIN t}) = Len(t)
    BY <1>2, <2>1, DistinctElements
  <2>. QED  BY <1>2, <1>4, <2>2
<1>6. IsFiniteSet(FreeIDs) /\ Cardinality(FreeIDs) = Len(freeIDs)
  <2>1. freeIDs \in Seq(IDs) /\ \A i, j \in DOMAIN freeIDs : freeIDs[i] = freeIDs[j] => i = j
    BY DEF EachOnce, SnapTypes
  <2>2. /\ IsFiniteSet({freeIDs[i] : i \in DOMAIN freeIDs})
        /\ Cardinality({freeIDs[i] : i \in DOMAIN freeIDs}) = Len(freeIDs)
    BY <2>1, DistinctElements
  <2>. QED  BY <2>2 DEF FreeIDs, ToSet
<1>. HIDE DEF t
<1>7. /\ FreeIDs \intersect TimedIDs = {}
      /\ (FreeIDs \union TimedIDs) \intersect usedIDs = {}
  BY DEF EachOnce, FreeIDs, ToSet, TimedIDs
<1>8. FreeIDs \union TimedIDs \union usedIDs = IDs
  <2>1. FreeIDs \subseteq IDs /\ TimedIDs \subseteq IDs
    BY <1>1 DEF FreeIDs, ToSet, TimedIDs
  <2>2. \A d \in IDs : d \in usedIDs \/ d \in FreeIDs \/ d \in TimedIDs
    BY DEF EachOnce, FreeIDs, ToSet, TimedIDs
  <2>. QED  BY <1>1, <2>1, <2>2
<1>9. /\ IsFiniteSet(FreeIDs \union TimedIDs)
      /\ Cardinality(FreeIDs \union TimedIDs) = Len(freeIDs) + Len(timedIDs)
  <2>1. /\ IsFiniteSet(FreeIDs \union TimedIDs)
        /\ Cardinality(FreeIDs \union TimedIDs)
             = Cardinality(FreeIDs) + Cardinality(TimedIDs) - Cardinality(FreeIDs \intersect TimedIDs)
    BY <1>5, <1>6, FS_Union
  <2>2. Cardinality(FreeIDs \intersect TimedIDs) = 0
    BY <1>7, FS_EmptySet
  <2>. QED  BY <1>1, <1>5, <1>6, <2>1, <2>2
<1>10. Cardinality(IDs) = Len(freeIDs) + Len(timedIDs) + Cardinality(usedIDs)
  <2>. DEFINE W == FreeIDs \union TimedIDs
  <2>1. IsFiniteSet(W) /\ Cardinality(W) = Len(freeIDs) + Len(timedIDs)
        /\ W \union usedIDs = IDs /\ W \intersect usedIDs = {}
    BY <1>7, <1>8, <1>9
  <2>. HIDE DEF W
  <2>2. Cardinality(W \union usedIDs)
          = Cardinality(W) + Cardinality(usedIDs) - Cardinality(W \intersect usedIDs)
    BY <1>1, <2>1, FS_Union
  <2>3. Cardinality(W \intersect usedIDs) = 0
    BY <2>1, FS_EmptySet
  <2>4. Cardinality(IDs) = Cardinality(W \union usedIDs)
    BY <2>1
  <2>5. Cardinality(W) = Len(freeIDs) + Len(timedIDs)
    BY <2>1
  <2>6. Len(freeIDs) \in Nat /\ Len(timedIDs) \in Nat /\ Cardinality(usedIDs) \in Nat
    BY <1>1
  <2>. QED  BY <2>2, <2>3, <2>4, <2>5, <2>6
<1>. QED  BY <1>8, <1>10 DEF IdsAccountedFor, UsageCounts

\* What waits is not used, so no id that a delta's base names is an entity's again.
LEMMA NamesOne ==
  ASSUME SnapInv
  PROVE  IdNamesOneEntity
<1>. USE DEF SnapInv
<1>1. ASSUME lag = 0, NEW i \in DOMAIN stored, stored[i].tick >= snapTick - SnapKeep,
             NEW d \in stored[i].gone
      PROVE  d \notin usedIDs
  <2>1. /\ snapTick \in Nat /\ SnapKeep \in Nat /\ IdTimeout \in Nat /\ SnapKeep <= IdTimeout
        /\ stored[i].tick \in Nat
    BY SnapElements, SnapshotsAssumption DEF SnapTypes, SnapshotsAssumption
  <2>2. snapTick + lag <= stored[i].tick + IdTimeout
    BY <1>1, <2>1
  <2>3. PICK j \in DOMAIN timedIDs : timedIDs[j].id = d
    BY <2>2 DEF GoneIdsWait
  <2>. QED  BY <2>3 DEF EachOnce
<1>. QED  BY <1>1 DEF IdNamesOneEntity

\* A delta is made against a snapshot that the client has, or against none, unless
\* its last input is of a session or a map before (server.cpp:735, :1122): however
\* snapshots and acknowledgements are lost or late.
THEOREM DeltaBaseAlwaysKnown == SnapSpec => DeltaBaseIsKnown
<1>1. SnapInv /\ [SnapNext]_snapVars =>
        [DoSnapshot /\ DeltaTick # -1 /\ ~ackStale => DeltaTick \in gotSnaps]_snapVars
  BY DEF SnapInv, AckKnown, DeltaTick
<1>. QED  BY <1>1, SnapInvariance, PTL DEF SnapSpec, DeltaBaseIsKnown

-----------------------------------------------------------------------------
(* Short player ids.                                                        *)

IdMaps == [Shorts -> Reals \union {-1}]

\* A player has one short ID at most.
OneShortEach(m) == \A i, j \in Shorts : m[i] = m[j] /\ m[i] # -1 => i = j

IdMapInv ==
  /\ idMap \in IdMaps
  /\ IdMapServesClient

LEMMA RealsAreNotFree ==
  /\ -1 \notin Reals /\ Me \in Reals
  /\ Vanilla \in Nat /\ Vanilla > 1 /\ 0 \in Shorts /\ Vanilla - 1 \in Shorts
  /\ IsFiniteSet(Reals) /\ Cardinality(Reals) \in Nat /\ Cardinality(Reals) > Vanilla
<1>1. Vanilla \in Nat /\ Vanilla > 1 /\ 0 \in Shorts /\ Vanilla - 1 \in Shorts
  BY IdMapAssumption DEF IdMapAssumption, Shorts
<1>2. IsFiniteSet(Others) /\ Cardinality(Others) >= Vanilla /\ Me \notin Others
  BY IdMapAssumption DEF IdMapAssumption
<1>3. IsFiniteSet(Others \union {Me}) /\ Cardinality(Others \union {Me}) = Cardinality(Others) + 1
  BY <1>2, FS_AddElement
<1>4. Cardinality(Others) \in Nat
  BY <1>2, FS_CardinalityType
<1>5. IsFiniteSet(Reals) /\ Cardinality(Reals) \in Nat /\ Cardinality(Reals) > Vanilla
  BY <1>1, <1>2, <1>3, <1>4 DEF Reals
<1>. QED  BY <1>1, <1>5, IdMapAssumption DEF IdMapAssumption, Reals

\* Giving an ID changes nobody else's.
LEMMA GiveStep ==
  ASSUME NEW m \in IdMaps, OneShortEach(m), NEW k \in Reals
  PROVE  /\ Give(m, k) \in IdMaps /\ OneShortEach(Give(m, k))
         /\ \A i \in Shorts : m[i] # -1 => Give(m, k)[i] = m[i]
<1>1. CASE k \in Range(m) \/ RoomFor(m) = {}
  BY <1>1 DEF Give
<1>2. CASE k \notin Range(m) /\ RoomFor(m) # {}
  <2>1. RoomFor(m) \in SUBSET Nat
    BY RealsAreNotFree DEF RoomFor
  <2>2. \E r \in RoomFor(m) : \A n \in RoomFor(m) : r <= n
    BY <1>2, <2>1, SmallestNumber
  <2>3. PICK r \in RoomFor(m) : r = Min(RoomFor(m))
    BY <2>2 DEF Min
  <2>4. r \in Shorts /\ m[r] = -1
    BY RealsAreNotFree DEF RoomFor, Shorts
  <2>5. Give(m, k) = [m EXCEPT ![r] = k]
    BY <1>2, <2>3 DEF Give
  <2>6. \A i \in Shorts : m[i] # k
    BY <1>2 DEF Range, IdMaps
  <2>7. /\ Give(m, k) \in IdMaps /\ Give(m, k)[r] = k
        /\ \A i \in Shorts : i # r => Give(m, k)[i] = m[i]
    BY <2>4, <2>5 DEF IdMaps
  <2>8. OneShortEach(Give(m, k))
    BY <2>4, <2>6, <2>7 DEF OneShortEach
  <2>. QED  BY <2>4, <2>7, <2>8
<1>. QED  BY <1>1, <1>2

\* The loop over the nearest: each turn gives one of them an ID or nothing.
LEMMA ServedSteps ==
  ASSUME NEW m \in IdMaps, NEW o, NEW d, \A n \in 1 .. Vanilla - 1 : o[n] \in Reals,
         OneShortEach(m)
  PROVE  /\ Given(m, o, d) \in IdMaps /\ OneShortEach(Given(m, o, d))
         /\ \A i \in Shorts : m[i] # -1 => Given(m, o, d)[i] = m[i]
<1>. DEFINE N == Vanilla - 1
            Turn(n, x) == IF d[o[n]] = Nowhere THEN x ELSE Give(x, o[n])
            S == {x \in IdMaps : OneShortEach(x)}
            step == [n \in 1 .. N |-> [x \in S |-> Turn(n, x)]]
            Loop(f) == f = [n \in 0 .. N |-> IF n = 0 THEN m ELSE Turn(n, f[n - 1])]
<1>1. N \in Nat /\ m \in S
  BY RealsAreNotFree
<1>2. ASSUME NEW n \in 1 .. N, NEW x \in S
      PROVE  /\ Turn(n, x) \in S
             /\ \A i \in Shorts : x[i] # -1 => Turn(n, x)[i] = x[i]
  BY GiveStep
<1>. HIDE DEF Turn, N, S
<1>3. step \in [1 .. N -> [S -> S]]
  BY <1>2
<1>4. PICK g \in [0 .. N -> S] : g[0] = m /\ \A n \in 1 .. N : g[n] = step[n][g[n - 1]]
  <2>. HIDE DEF step
  <2>. QED  BY <1>1, <1>3, RecursionOnNumbers
<1>5. \A n \in 1 .. N : n - 1 \in 0 .. N /\ n \in 0 .. N
  BY <1>1
<1>6. \A n \in 1 .. N : g[n] = Turn(n, g[n - 1])
  BY <1>4, <1>5
<1>7. Loop(g)
  <2>1. \A n \in 0 .. N : n = 0 \/ n \in 1 .. N
    BY <1>1
  <2>2. \A n \in 0 .. N : g[n] = IF n = 0 THEN m ELSE Turn(n, g[n - 1])
    BY <1>4, <1>6, <2>1
  <2>. QED  BY <2>2
<1>8. Served(m, o, d) = CHOOSE f : Loop(f)
  BY DEF Served, Turn, N
<1>9. PICK f : f = Served(m, o, d) /\ Loop(f)
  <2>. HIDE DEF Loop
  <2>. QED  BY <1>7, <1>8
<1>10. f[0] = m /\ \A n \in 1 .. N : f[n] = Turn(n, f[n - 1])
  <2>1. 0 \in 0 .. N /\ \A n \in 1 .. N : n \in 0 .. N /\ n # 0
    BY <1>1
  <2>. QED  BY <1>9, <2>1
<1>. DEFINE Good(n) == f[n] \in S /\ \A i \in Shorts : m[i] # -1 => f[n][i] = m[i]
            T == {n \in 0 .. N : ~Good(n)}
<1>. HIDE DEF Loop, step
<1>11. ASSUME T # {} PROVE FALSE
  <2>1. T \in SUBSET Nat
    BY <1>1
  <2>2. PICK n \in T : \A k \in T : n <= k
    <3>. HIDE DEF T
    <3>. QED  BY <1>11, <2>1, SmallestNumber
  <2>3. n # 0
    BY <1>1, <1>10, <2>2
  <2>4. n \in 1 .. N /\ n - 1 \in 0 .. N /\ ~(n <= n - 1)
    BY <1>1, <2>3
  <2>5. Good(n - 1)
    <3>. HIDE DEF Good
    <3>. QED  BY <2>2, <2>4
  <2>6. PICK x \in S : x = f[n - 1]
    BY <2>5
  <2>7. f[n] = Turn(n, x)
    BY <1>10, <2>4, <2>6
  <2>8. Turn(n, x) \in S /\ \A i \in Shorts : x[i] # -1 => Turn(n, x)[i] = x[i]
    BY <1>2, <2>4
  <2>9. \A i \in Shorts : m[i] # -1 => x[i] = m[i]
    BY <2>5, <2>6
  <2>10. Good(n)
    BY <2>7, <2>8, <2>9
  <2>. QED  BY <2>10
<1>12. Good(N)
  <2>1. N \in 0 .. N
    BY <1>1
  <2>. HIDE DEF Good
  <2>. QED  BY <1>11, <2>1
<1>. QED  BY <1>9, <1>12 DEF Given, N, S

\* Of those that are not among the nearest nobody stands where the client is, so
\* that the client itself does not lose its ID.
LEMMA NearestHoldMe ==
  ASSUME NEW d \in Distances, NEW o \in Orders(d), NEW m, NEW n
  PROVE  Me \notin Lost(m, o, n)
<1>. SUFFICES ASSUME NEW j \in Vanilla .. Len(o), o[j] = Me PROVE FALSE
  BY DEF Lost
<1>1. /\ o \in [1 .. Cardinality(Reals) -> Reals] /\ DOMAIN o = 1 .. Cardinality(Reals)
      /\ \A x, y \in 1 .. Cardinality(Reals) : x # y => o[x] # o[y]
      /\ \A x, y \in DOMAIN o : x <= Vanilla /\ y >= Vanilla => d[o[x]] <= d[o[y]]
  BY DEF Orders, SetToSeqs
<1>2. o \in Seq(Reals) /\ Len(o) = Cardinality(Reals)
  <2>1. o \in Seq(Reals)
    BY <1>1, RealsAreNotFree
  <2>2. DOMAIN o = 1 .. Len(o) /\ Len(o) \in Nat
    BY <2>1, LenProperties
  <2>. QED  BY <1>1, <2>1, <2>2, RealsAreNotFree
<1>. DEFINE Z == {k \in Reals : d[k] = 0}
            g == [i \in 1 .. Vanilla |-> o[i]]
<1>3. d \in [Reals -> 0 .. Nowhere] /\ d[Me] = 0 /\ Cardinality(Z) < Vanilla
  BY DEF Distances
<1>4. j \in DOMAIN o /\ j >= Vanilla /\ \A i \in 1 .. Vanilla : i \in DOMAIN o /\ i <= Vanilla
  BY <1>1, <1>2, RealsAreNotFree
<1>5. ASSUME NEW i \in 1 .. Vanilla PROVE o[i] \in Z
  <2>1. o[i] \in Reals /\ d[o[i]] \in 0 .. Nowhere
    BY <1>1, <1>3, <1>4
  <2>2. d[o[i]] <= 0
    BY <1>1, <1>3, <1>4
  <2>3. d[o[i]] = 0
    BY <2>1, <2>2 DEF Nowhere
  <2>. QED  BY <2>1, <2>3
<1>6. g \in Injection(1 .. Vanilla, Z)
  <2>1. g \in [1 .. Vanilla -> Z]
    <3>. HIDE DEF Z
    <3>. QED  BY <1>5
  <2>2. \A x, y \in 1 .. Vanilla : g[x] = g[y] => x = y
    BY <1>1, <1>4
  <2>. HIDE DEF g, Z
  <2>. QED  BY <2>1, <2>2 DEF Injection, IsInjective
<1>7. IsFiniteSet(Z)
  BY RealsAreNotFree, FS_Subset
<1>. HIDE DEF Z, g
<1>8. Cardinality(1 .. Vanilla) <= Cardinality(Z)
  BY <1>6, <1>7, FS_Injection
<1>9. Cardinality(1 .. Vanilla) = Vanilla
  <2>1. Vanilla \in Nat
    BY RealsAreNotFree
  <2>2. Cardinality(1 .. Vanilla) = IF 1 > Vanilla THEN 0 ELSE Vanilla - 1 + 1
    BY <2>1, FS_Interval
  <2>. QED  BY <2>1, <2>2, RealsAreNotFree
<1>10. Cardinality(Z) \in Nat /\ Vanilla \in Nat
  BY <1>7, FS_CardinalityType, RealsAreNotFree
<1>. QED  BY <1>3, <1>8, <1>9, <1>10

LEMMA UpdateKeepsMe ==
  ASSUME IdMapInv, UpdatePlayerMaps
  PROVE  IdMapInv'
<1>. USE DEF IdMapInv, IdMapServesClient
<1>1. PICK d \in Distances : \E o \in Orders(d) :
        idMap' = [i \in Shorts |->
                    IF \/ i = Vanilla - 1
                       \/ Given(Kept(d), o, d)[i] \in Lost(Kept(d), o, Demand(Kept(d), o, d))
                    THEN -1 ELSE Given(Kept(d), o, d)[i]]
  BY DEF UpdatePlayerMaps
<1>2. PICK o \in Orders(d) :
        idMap' = [i \in Shorts |->
                    IF \/ i = Vanilla - 1
                       \/ Given(Kept(d), o, d)[i] \in Lost(Kept(d), o, Demand(Kept(d), o, d))
                    THEN -1 ELSE Given(Kept(d), o, d)[i]]
  BY <1>1
<1>. DEFINE m == Kept(d)
            given == Given(m, o, d)
            lost == Lost(m, o, Demand(m, o, d))
<1>3. /\ m \in IdMaps /\ OneShortEach(m)
      /\ \A i \in Shorts : m[i] = idMap[i] \/ m[i] = -1
      /\ \A i \in Shorts : idMap[i] = Me => m[i] = Me
  <2>1. d[Me] = 0
    BY DEF Distances
  <2>2. \A i \in Shorts : m[i] = IF idMap[i] # -1 /\ d[idMap[i]] = Nowhere THEN -1 ELSE idMap[i]
    BY DEF Kept
  <2>3. m \in IdMaps
    BY DEF Kept, IdMaps
  <2>. HIDE DEF m
  <2>4. \A i \in Shorts : m[i] = idMap[i] \/ m[i] = -1
    BY <2>2
  <2>5. \A i \in Shorts : idMap[i] = Me => m[i] = Me
    BY <2>1, <2>2 DEF Nowhere
  <2>. QED  BY <2>3, <2>4, <2>5 DEF OneShortEach
<1>4. \A n \in 1 .. Vanilla - 1 : o[n] \in Reals
  <2>1. o \in [1 .. Cardinality(Reals) -> Reals]
    BY DEF Orders, SetToSeqs
  <2>2. \A n \in 1 .. Vanilla - 1 : n \in 1 .. Cardinality(Reals)
    BY RealsAreNotFree
  <2>. QED  BY <2>1, <2>2
<1>. HIDE DEF m
<1>5. given \in IdMaps /\ OneShortEach(given) /\ \A i \in Shorts : m[i] # -1 => given[i] = m[i]
  BY <1>3, <1>4, ServedSteps
<1>6. Me \notin lost
  BY NearestHoldMe
<1>7. idMap' = [i \in Shorts |-> IF i = Vanilla - 1 \/ given[i] \in lost THEN -1 ELSE given[i]]
  BY <1>2 DEF m
<1>. HIDE DEF given, lost
<1>8. idMap' \in IdMaps /\ OneShortEach(idMap') /\ idMap'[Vanilla - 1] = -1
  <2>1. idMap' \in IdMaps
    BY <1>5, <1>7 DEF IdMaps
  <2>2. \A i \in Shorts : idMap'[i] = -1 \/ idMap'[i] = given[i]
    BY <1>7
  <2>3. OneShortEach(idMap')
    BY <1>5, <2>2 DEF OneShortEach
  <2>. QED  BY <1>7, <2>1, <2>3, RealsAreNotFree
<1>9. Me \in Range(idMap')
  <2>1. PICK i \in Shorts : idMap[i] = Me
    BY DEF Range, IdMaps
  <2>2. i # Vanilla - 1 /\ Me # -1
    BY <2>1, RealsAreNotFree
  <2>3. given[i] = Me
    BY <1>3, <1>5, <2>1, <2>2
  <2>4. idMap'[i] = Me
    BY <1>6, <1>7, <2>2, <2>3
  <2>. QED  BY <1>8, <2>4 DEF Range, IdMaps
<1>10. IdMapServesClient'
  BY <1>8, <1>9 DEF OneShortEach
<1>. QED  BY <1>8, <1>10 DEF IdMaps

LEMMA IdMapInvariance == IdMapSpec => []IdMapInv
<1>1. IdMapInit => IdMapInv
  <2>. SUFFICES ASSUME IdMapInit PROVE IdMapInv
    OBVIOUS
  <2>1. idMap = [i \in Shorts |-> IF i = 0 THEN Me ELSE -1]
    BY DEF IdMapInit
  <2>2. 0 # Vanilla - 1
    BY RealsAreNotFree
  <2>3. idMap \in IdMaps
    BY <2>1, RealsAreNotFree DEF IdMaps
  <2>4. \A i, j \in Shorts : idMap[i] = idMap[j] /\ idMap[i] # -1 => i = j
    BY <2>1, RealsAreNotFree
  <2>5. Me \in Range(idMap) /\ idMap[Vanilla - 1] = -1
    BY <2>1, <2>2, RealsAreNotFree DEF Range
  <2>. QED  BY <2>3, <2>4, <2>5 DEF IdMapInv, IdMapServesClient
<1>2. IdMapInv /\ [IdMapNext]_idMapVars => IdMapInv'
  <2>. SUFFICES ASSUME IdMapInv, [IdMapNext]_idMapVars PROVE IdMapInv'
    OBVIOUS
  <2>1. CASE UpdatePlayerMaps
    BY <2>1, UpdateKeepsMe
  <2>2. CASE UNCHANGED idMap
    BY <2>2 DEF IdMapInv, IdMapServesClient, IdMaps
  <2>. QED  BY <2>1, <2>2 DEF IdMapNext, idMapVars, SendChat, SendEmoticon, SendKill, Enter, LeaveGame
<1>. QED  BY <1>1, <1>2, PTL DEF IdMapSpec

\* IDs, for any number of them and of players: each snapshot ID is in one place and
\* the counters of the pool are right; none names a second entity while a delta
\* could still be made against a snapshot in which it named the first; and the
\* client always finds itself in its map of short IDs (CSnapIDPool, DoSnapshot,
\* CGameWorld::UpdatePlayerMaps).
THEOREM IdsAlwaysHold == SnapSpec /\ IdMapSpec => []IdsHold
<1>1. SnapInv /\ IdMapInv => IdsHold
  BY IdsCounted, NamesOne DEF IdsHold, IdMapInv
<1>. QED  BY <1>1, SnapInvariance, IdMapInvariance, PTL

-----------------------------------------------------------------------------
(* What a player carries and fires.                                         *)

\* A character has the hammer, from its first tick on.
HammerStays ==
  body # "none" => \A i \in AllItems : ItemTable[i].weapon = Hammer => carried[i] = 1

\* The copy of the inventory has a weapon before the first input that counts.
HasWeapon ==
  /\ inputs > 0 => got # {}
  /\ body = "alive" /\ ~inTick => got # {}

\* Ammunition in the copy is in the inventory, while a shot is possible: after a
\* shot the copy may be wrong, but then the weapon reloads until the next copy.
ShotIsPaid ==
  ~synced /\ body # "none" /\ reload = 0 =>
    \A w \in WeaponIds : ammo[w] > 0 =>
      \E i \in AllItems : ItemTable[i].ammo = w /\ carried[i] > 0

NothingOwed == ~synced => \A i \in AllItems : Listed(i) => carried[i] >= 0

ArmsInv == ArmsTypeOK /\ HammerStays /\ HasWeapon /\ ShotIsPaid /\ NothingOwed

\* The hammer is an item, no ammunition, and is needed for nothing.
LEMMA TheHammer ==
  /\ Hammer \in WeaponIds /\ -1 \notin WeaponIds
  /\ \E i \in AllItems : ItemTable[i].weapon = Hammer
  /\ \A i \in AllItems : ItemTable[i].weapon = Hammer =>
       /\ ItemTable[i].ammo = -1
       /\ \A j \in AllItems : ItemTable[j].needs[i] = 0
<1>1. Hammer \in WeaponIds /\ -1 \notin WeaponIds
  BY ArmsAssumption DEF Hammer, WeaponIds
<1>2. \E i \in AllItems : ItemTable[i].weapon = Hammer
  BY ArmsAssumption
<1>3. ASSUME NEW i \in AllItems, ItemTable[i].weapon = Hammer, NEW j \in AllItems
      PROVE  ItemTable[i].ammo = -1 /\ ItemTable[j].needs[i] = 0
  <2>1. ItemTable[i].weapon # -1
    BY <1>1, <1>3
  <2>2. ItemTable[i].ammo = -1
    BY <2>1, ArmsAssumption
  <2>3. ItemTable[j].needs[i] \in Nat
    BY ArmsAssumption
  <2>4. ~(ItemTable[j].needs[i] > 0)
    BY <2>1, ArmsAssumption
  <2>. QED  BY <2>2, <2>3, <2>4
<1>. QED  BY <1>1, <1>2, <1>3

\* FireWeapon, when the inventory has the ammunition that it is told of: a shot is
\* paid and the weapon reloads.
LEMMA Fired ==
  ASSUME ArmsTypeOK, NothingOwed, NEW sw, NEW pressed, NEW down, NEW a,
         sw[1] \in WeaponIds,
         ~synced => \A w \in WeaponIds : a[w] > 0 =>
                      \E i \in AllItems : ItemTable[i].ammo = w /\ carried[i] > 0,
         FireWeapon(sw, pressed, down, a)
  PROVE  /\ active' = sw[1] /\ queued' = sw[2]
         /\ carried' \in [AllItems -> Int]
         /\ \A i \in AllItems : ItemTable[i].weapon = Hammer => carried'[i] = carried[i]
         /\ ~synced => \A i \in AllItems : carried'[i] # NoneListed => carried'[i] >= 0
         /\ UNCHANGED <<carried, reload>> \/ reload' = FireDelay
<1>. DEFINE w == sw[1]
            num == [j \in AllItems |-> IF j \in AmmoFor(w) THEN -1 ELSE 0]
<1>1. active' = sw[1] /\ queued' = sw[2]
  BY DEF FireWeapon
<1>2. CASE UNCHANGED <<carried, reload>>
  BY <1>1, <1>2 DEF ArmsTypeOK, NothingOwed, Listed
<1>3. CASE reload' = FireDelay /\ UNCHANGED carried
  BY <1>1, <1>3 DEF ArmsTypeOK, NothingOwed, Listed
<1>4. CASE reload' = FireDelay /\ a[w] > 0 /\ OnWeaponFire(w)
  <2>1. carried' = [i \in AllItems |-> IF num[i] = 0 THEN carried[i] ELSE GetInvItemNum(i) + num[i]]
    BY <1>4 DEF OnWeaponFire, AddInvItems
  <2>2. \A i \in AllItems : carried'[i] = IF i \in AmmoFor(w) THEN carried[i] - 1 ELSE carried[i]
    BY <2>1 DEF AmmoFor, GetInvItemNum, ArmsTypeOK
  <2>3. carried' \in [AllItems -> Int]
    <3>1. DOMAIN carried' = AllItems /\ carried' = [i \in AllItems |-> carried'[i]]
      BY <2>1
    <3>2. \A i \in AllItems : carried'[i] \in Int
      BY <2>2 DEF ArmsTypeOK
    <3>. QED  BY <3>1, <3>2
  <2>4. ASSUME NEW i \in AllItems, ItemTable[i].weapon = Hammer
        PROVE  carried'[i] = carried[i]
    <3>1. ItemTable[i].ammo # w
      BY <2>4, TheHammer
    <3>. QED  BY <3>1, <2>2 DEF AmmoFor
  <2>5. ASSUME ~synced, NEW i \in AllItems, carried'[i] # NoneListed
        PROVE  carried'[i] >= 0
    <3>1. CASE i \notin AmmoFor(w)
      BY <3>1, <2>2, <2>5 DEF NothingOwed, Listed
    <3>2. CASE i \in AmmoFor(w)
      <4>1. PICK j \in AllItems : ItemTable[j].ammo = w /\ carried[j] > 0
        BY <1>4, <2>5
      <4>2. ItemTable[i].ammo = w /\ w # -1
        BY <3>2, TheHammer DEF AmmoFor
      <4>3. i = j
        BY <4>1, <4>2, ArmsAssumption
      <4>4. carried[i] \in Int /\ carried'[i] = carried[i] - 1
        BY <3>2, <2>2 DEF ArmsTypeOK
      <4>. QED  BY <4>1, <4>3, <4>4
    <3>. QED  BY <3>1, <3>2
  <2>. QED  BY <1>1, <1>4, <2>3, <2>4, <2>5
<1>5. \/ UNCHANGED <<carried, reload>>
      \/ reload' = FireDelay /\ UNCHANGED carried
      \/ reload' = FireDelay /\ a[w] > 0 /\ OnWeaponFire(w)
  BY DEF FireWeapon
<1>. QED  BY <1>2, <1>3, <1>4, <1>5

\* SyncWeapon copies what the inventory has.
LEMMA Copied ==
  ASSUME ArmsTypeOK, HammerStays, body # "none", SyncWeapon
  PROVE  /\ got' \subseteq WeaponIds /\ got' # {}
         /\ ammo' \in [WeaponIds -> Int]
         /\ \A w \in WeaponIds : ammo'[w] > 0 =>
              \E i \in AllItems : ItemTable[i].ammo = w /\ carried[i] > 0
<1>1. ASSUME NEW w \in WeaponIds
      PROVE  /\ ammo'[w] \in Int
             /\ ammo'[w] > 0 => \E i \in AllItems : ItemTable[i].ammo = w /\ carried[i] > 0
  <2>1. ammo'[w] = IF AmmoFor(w) # {} THEN carried[CHOOSE i \in AmmoFor(w) : TRUE]
                   ELSE IF IsWeaponHaveAmmo(w) THEN 0 ELSE -1
    BY DEF SyncWeapon
  <2>2. CASE AmmoFor(w) = {}
    BY <2>1, <2>2
  <2>3. CASE AmmoFor(w) # {}
    <3>1. PICK i \in AmmoFor(w) : i = CHOOSE e \in AmmoFor(w) : TRUE
      BY <2>3
    <3>2. ammo'[w] = carried[i]
      BY <2>1, <2>3, <3>1
    <3>3. i \in AllItems /\ ItemTable[i].ammo = w
      BY DEF AmmoFor
    <3>. QED  BY <3>2, <3>3 DEF ArmsTypeOK
  <2>. QED  BY <2>2, <2>3
<1>2. ammo' \in [WeaponIds -> Int]
  BY <1>1 DEF SyncWeapon
<1>3. got' \subseteq WeaponIds
  BY DEF SyncWeapon
<1>4. Hammer \in got'
  <2>1. PICK i \in AllItems : ItemTable[i].weapon = Hammer
    BY TheHammer
  <2>2. i \in Owned(Hammer)
    BY <2>1 DEF Owned, Listed, NoneListed, HammerStays
  <2>3. PICK j \in Owned(Hammer) : j = CHOOSE e \in Owned(Hammer) : TRUE
    BY <2>2
  <2>4. carried[j] = 1
    BY DEF Owned, HammerStays
  <2>. QED  BY <2>2, <2>3, <2>4, TheHammer DEF SyncWeapon
<1>. QED  BY <1>1, <1>2, <1>3, <1>4
\* DoWeaponSwitch leads to a weapon, and to a queue.
LEMMA Switched ==
  ASSUME ArmsTypeOK, NEW q \in WeaponIds \union {-1}
  PROVE  /\ DoWeaponSwitch(q)[1] \in WeaponIds
         /\ DoWeaponSwitch(q)[2] \in WeaponIds \union {-1}
<1>1. DoWeaponSwitch(q) = <<active, q>> \/ (q # -1 /\ DoWeaponSwitch(q) = <<q, -1>>)
  BY DEF DoWeaponSwitch
<1>. QED  BY <1>1 DEF ArmsTypeOK

\* Items are added, or taken of what is neither a weapon nor ammunition.
LEMMA InventoryGrows ==
  ASSUME ArmsInv, NEW num \in [AllItems -> Int], AddInvItems(num),
         ~synced => \A i \in AllItems : GetInvItemNum(i) + num[i] >= 0,
         \A i \in AllItems : ItemTable[i].ammo # -1 => num[i] >= 0,
         \A i \in AllItems : body # "none" /\ ItemTable[i].weapon = Hammer => num[i] = 0,
         UNCHANGED <<body, got, ammo, active, queued, reload, held, inputs, menu, inTick, synced>>,
         found' \in 0 .. MaxFound
  PROVE  ArmsInv'
<1>1. \A i \in AllItems :
        carried'[i] = IF num[i] = 0 THEN carried[i] ELSE GetInvItemNum(i) + num[i]
  BY DEF AddInvItems
<1>2. carried' \in [AllItems -> Int]
  BY <1>1 DEF AddInvItems, GetInvItemNum, ArmsInv, ArmsTypeOK
<1>3. ArmsTypeOK'
  BY <1>2 DEF ArmsInv, ArmsTypeOK
<1>4. HammerStays' /\ HasWeapon'
  BY <1>1 DEF ArmsInv, HammerStays, HasWeapon
<1>5. NothingOwed'
  BY <1>1 DEF ArmsInv, NothingOwed, Listed
<1>6. ShotIsPaid'
  <2>1. ASSUME NEW i \in AllItems, ItemTable[i].ammo # -1, carried[i] > 0
        PROVE  carried'[i] > 0
    <3>1. num[i] >= 0 /\ num[i] \in Int /\ carried[i] \in Int
      BY <2>1 DEF ArmsInv, ArmsTypeOK
    <3>2. GetInvItemNum(i) = carried[i]
      BY <2>1 DEF GetInvItemNum, Listed, NoneListed
    <3>. QED  BY <1>1, <2>1, <3>1, <3>2
  <2>2. \A w \in WeaponIds : w # -1
    BY TheHammer
  <2>3. SUFFICES ASSUME ~synced, body # "none", reload = 0, NEW w \in WeaponIds, ammo[w] > 0
                 PROVE  \E i \in AllItems : ItemTable[i].ammo = w /\ carried'[i] > 0
    BY DEF ShotIsPaid
  <2>4. PICK i \in AllItems : ItemTable[i].ammo = w /\ carried[i] > 0
    BY <2>3 DEF ArmsInv, ShotIsPaid
  <2>. QED  BY <2>1, <2>2, <2>4
<1>. QED  BY <1>3, <1>4, <1>5, <1>6 DEF ArmsInv

LEMMA PickupKeeps == ASSUME ArmsInv, NEW i \in AllItems, ItemTable[i].weapon = -1,
                            ItemTable[i].ammo = -1, TakePickup(i)
                     PROVE  ArmsInv'
<1>. DEFINE num == [j \in AllItems |-> IF j = i THEN 1 ELSE 0]
<1>1. num \in [AllItems -> Int] /\ AddInvItems(num)
  BY DEF TakePickup
<1>2. ~synced => \A j \in AllItems : GetInvItemNum(j) + num[j] >= 0
  BY DEF ArmsInv, ArmsTypeOK, NothingOwed, GetInvItemNum
<1>3. \A j \in AllItems : body # "none" /\ ItemTable[j].weapon = Hammer => num[j] = 0
  BY TheHammer
<1>4. found' \in 0 .. MaxFound
  BY ArmsAssumption DEF TakePickup, ArmsInv, ArmsTypeOK
<1>5. UNCHANGED <<body, got, ammo, active, queued, reload, held, inputs, menu, inTick, synced>>
  BY DEF TakePickup
<1>6. \A j \in AllItems : num[j] >= 0
  OBVIOUS
<1>. HIDE DEF num
<1>. QED  BY <1>1, <1>2, <1>3, <1>4, <1>5, <1>6, InventoryGrows

LEMMA MakeKeeps == ASSUME ArmsInv, NEW i \in AllItems, MakeItem(i) PROVE ArmsInv'
<1>. DEFINE data == ItemTable[i]
            num == [j \in AllItems |-> (IF j = i THEN data.give ELSE 0) - data.needs[j]]
<1>1. data.give \in Nat /\ \A j \in AllItems : data.needs[j] \in Nat
  BY ArmsAssumption
<1>2. num \in [AllItems -> Int]
  BY <1>1
<1>3. AddInvItems(num) /\ \A j \in AllItems : GetInvItemNum(j) >= data.needs[j]
  BY DEF MakeItem
<1>4. \A j \in AllItems : GetInvItemNum(j) \in Int
  BY DEF ArmsInv, ArmsTypeOK, GetInvItemNum
<1>5. \A j \in AllItems : GetInvItemNum(j) + num[j] >= 0
  BY <1>1, <1>3, <1>4
<1>6. \A j \in AllItems : ItemTable[j].ammo # -1 => num[j] >= 0
  <2>1. \A j \in AllItems : ItemTable[j].ammo # -1 => data.needs[j] = 0
    BY <1>1, ArmsAssumption
  <2>. QED  BY <2>1, <1>1
<1>7. ASSUME NEW j \in AllItems, body # "none", ItemTable[j].weapon = Hammer
      PROVE  num[j] = 0
  <2>1. data.needs[j] = 0
    BY <1>7, TheHammer
  <2>2. GetInvItemNum(j) = 1
    BY <1>7 DEF ArmsInv, HammerStays, GetInvItemNum, Listed, NoneListed
  <2>3. j # i
    BY <1>7, <2>2 DEF MakeItem, Hammer
  <2>. QED  BY <2>1, <2>3
<1>8. found' \in 0 .. MaxFound
  BY DEF MakeItem, ArmsInv, ArmsTypeOK
<1>9. UNCHANGED <<body, got, ammo, active, queued, reload, held, inputs, menu, inTick, synced>>
  BY DEF MakeItem
<1>. HIDE DEF num
<1>. QED  BY <1>2, <1>3, <1>5, <1>6, <1>7, <1>8, <1>9, InventoryGrows

\* CPlayer::Tick: a character that spawns has one hammer and an empty copy.
LEMMA PlayerTickKeeps == ASSUME ArmsInv, PlayerTick PROVE ArmsInv'
<1>. DEFINE spawned == [i \in AllItems |-> IF ItemTable[i].weapon = Hammer THEN 1 ELSE carried[i]]
<1>0. Hammer \in WeaponIds /\ MaxInputs \in Nat
  BY TheHammer, ArmsAssumption
<1>1. CASE body = "none" /\ body' = "alive" /\ carried' = spawned
           /\ got' = {} /\ ammo' = [w \in WeaponIds |-> 0]
           /\ active' = Hammer /\ queued' = -1 /\ reload' = 0 /\ inputs' = 0
  <2>1. carried' \in [AllItems -> Int]
    BY <1>1 DEF ArmsInv, ArmsTypeOK
  <2>2. ArmsTypeOK'
    BY <1>0, <1>1, <2>1 DEF PlayerTick, ArmsInv, ArmsTypeOK
  <2>3. HammerStays' /\ HasWeapon'
    BY <1>1 DEF PlayerTick, HammerStays, HasWeapon
  <2>4. ShotIsPaid'
    BY <1>1 DEF ShotIsPaid
  <2>5. NothingOwed'
    BY <1>1 DEF PlayerTick, ArmsInv, NothingOwed, Listed
  <2>. QED  BY <2>2, <2>3, <2>4, <2>5 DEF ArmsInv
<1>2. CASE /\ body' = IF body = "dead" THEN "none" ELSE body
           /\ UNCHANGED <<carried, got, ammo, active, queued, reload>>
           /\ inputs' = inputs \/ (body = "alive" /\ inputs < MaxInputs /\ inputs' = inputs + 1)
  <2>1. ArmsTypeOK'
    BY <1>0, <1>2 DEF PlayerTick, ArmsInv, ArmsTypeOK
  <2>2. HammerStays' /\ HasWeapon'
    BY <1>2 DEF PlayerTick, ArmsInv, HammerStays, HasWeapon
  <2>3. ShotIsPaid' /\ NothingOwed'
    BY <1>2 DEF PlayerTick, ArmsInv, ArmsTypeOK, ShotIsPaid, NothingOwed, Listed
  <2>. QED  BY <2>1, <2>2, <2>3 DEF ArmsInv
<1>. QED  BY <1>1, <1>2 DEF PlayerTick, PredictedInput

\* CCharacter::Tick copies the inventory before anything fires.
LEMMA CharacterTickKeeps == ASSUME ArmsInv, CharacterTick PROVE ArmsInv'
<1>1. /\ got' \subseteq WeaponIds /\ got' # {}
      /\ ammo' \in [WeaponIds -> Int]
      /\ \A w \in WeaponIds : ammo'[w] > 0 =>
           \E i \in AllItems : ItemTable[i].ammo = w /\ carried[i] > 0
  BY Copied DEF CharacterTick, ArmsInv
<1>2. FireDelay \in Nat \ {0}
  BY ArmsAssumption
<1>3. HasWeapon'
  BY <1>1 DEF HasWeapon
<1>4. CASE /\ UNCHANGED carried
           /\ active' \in WeaponIds /\ queued' \in WeaponIds \union {-1} /\ reload' \in Nat
  <2>1. ArmsTypeOK'
    BY <1>1, <1>4 DEF CharacterTick, ArmsInv, ArmsTypeOK
  <2>2. HammerStays' /\ NothingOwed'
    BY <1>4 DEF CharacterTick, ArmsInv, HammerStays, NothingOwed, Listed
  <2>3. ShotIsPaid'
    BY <1>1, <1>4 DEF ShotIsPaid
  <2>. QED  BY <1>3, <2>1, <2>2, <2>3 DEF ArmsInv
<1>5. ASSUME FireWeapon(DoWeaponSwitch(queued), FALSE, held, ammo')
      PROVE  ArmsInv'
  <2>1. PICK a \in [WeaponIds -> Int] : a = ammo'
    BY <1>1
  <2>2. \A w \in WeaponIds : a[w] > 0 =>
          \E i \in AllItems : ItemTable[i].ammo = w /\ carried[i] > 0
    BY <1>1, <2>1
  <2>3. PICK sw : sw = DoWeaponSwitch(queued)
    OBVIOUS
  <2>4. sw[1] \in WeaponIds /\ sw[2] \in WeaponIds \union {-1}
    BY <2>3, Switched DEF ArmsInv, ArmsTypeOK
  <2>5. FireWeapon(sw, FALSE, held, a)
    BY <1>5, <2>1, <2>3
  <2>6. /\ active' = sw[1] /\ queued' = sw[2]
        /\ carried' \in [AllItems -> Int]
        /\ \A i \in AllItems : ItemTable[i].weapon = Hammer => carried'[i] = carried[i]
        /\ ~synced => \A i \in AllItems : carried'[i] # NoneListed => carried'[i] >= 0
        /\ UNCHANGED <<carried, reload>> \/ reload' = FireDelay
    BY <2>2, <2>4, <2>5, Fired DEF ArmsInv
  <2>7. CASE UNCHANGED <<carried, reload>>
    BY <1>4, <2>4, <2>6, <2>7 DEF ArmsInv, ArmsTypeOK
  <2>8. CASE reload' = FireDelay
    <3>1. ArmsTypeOK'
      BY <1>1, <1>2, <2>4, <2>6, <2>8 DEF CharacterTick, ArmsInv, ArmsTypeOK
    <3>2. HammerStays' /\ NothingOwed'
      BY <2>6 DEF CharacterTick, ArmsInv, HammerStays, NothingOwed, Listed
    <3>3. ShotIsPaid'
      BY <1>2, <2>8 DEF ShotIsPaid
    <3>. QED  BY <1>3, <3>1, <3>2, <3>3 DEF ArmsInv
  <2>. QED  BY <2>6, <2>7, <2>8
<1>6. reload \in Nat /\ active \in WeaponIds /\ queued \in WeaponIds \union {-1}
  BY DEF ArmsInv, ArmsTypeOK
<1>7. CASE reload # 0 /\ reload' = reload - 1 /\ UNCHANGED <<carried, active, queued>>
  BY <1>4, <1>6, <1>7
<1>8. CASE NoFire(<<active, queued>>)
  BY <1>4, <1>6, <1>8 DEF NoFire
<1>. QED  BY <1>5, <1>7, <1>8 DEF CharacterTick

LEMMA DirectInputKeeps ==
  ASSUME ArmsInv, NEW v \in WeaponIds, NEW pressed \in BOOLEAN, NEW down \in BOOLEAN,
         DirectInput(v, pressed, down)
  PROVE  ArmsInv'
<1>. DEFINE q == IF menu THEN queued ELSE HandleWeaponSwitch(v)
            sw == IF menu THEN <<active, q>> ELSE DoWeaponSwitch(q)
<1>1. q \in WeaponIds \union {-1}
  BY DEF ArmsInv, ArmsTypeOK, HandleWeaponSwitch
<1>2. sw[1] \in WeaponIds /\ sw[2] \in WeaponIds \union {-1}
  BY <1>1, Switched DEF ArmsInv, ArmsTypeOK
<1>3. \/ NoFire(sw)
      \/ reload = 0 /\ FireWeapon(sw, pressed, down, ammo)
  BY DEF DirectInput, Reloading
<1>. HIDE DEF sw
<1>4. FireDelay \in Nat \ {0}
  BY ArmsAssumption
<1>5. /\ body # "none" /\ held' = down
      /\ UNCHANGED <<body, got, ammo, inputs, menu, inTick, found, synced>>
  BY DEF DirectInput, MayAct
<1>6. CASE UNCHANGED <<carried, reload>> /\ active' = sw[1] /\ queued' = sw[2]
  BY <1>2, <1>5, <1>6 DEF ArmsInv, ArmsTypeOK, HammerStays, HasWeapon, ShotIsPaid, NothingOwed, Listed
<1>7. CASE reload = 0 /\ FireWeapon(sw, pressed, down, ammo)
  <2>1. ~synced => \A w \in WeaponIds : ammo[w] > 0 =>
          \E i \in AllItems : ItemTable[i].ammo = w /\ carried[i] > 0
    BY <1>5, <1>7 DEF ArmsInv, ShotIsPaid
  <2>2. PICK s, a : s = sw /\ a = ammo
    OBVIOUS
  <2>3. /\ active' = s[1] /\ queued' = s[2]
        /\ carried' \in [AllItems -> Int]
        /\ \A i \in AllItems : ItemTable[i].weapon = Hammer => carried'[i] = carried[i]
        /\ ~synced => \A i \in AllItems : carried'[i] # NoneListed => carried'[i] >= 0
        /\ UNCHANGED <<carried, reload>> \/ reload' = FireDelay
    BY <1>2, <1>7, <2>1, <2>2, Fired DEF ArmsInv
  <2>4. CASE reload' = FireDelay
    <3>1. ArmsTypeOK'
      BY <1>2, <1>4, <1>5, <2>2, <2>3, <2>4 DEF ArmsInv, ArmsTypeOK
    <3>2. HammerStays' /\ HasWeapon' /\ NothingOwed'
      BY <1>5, <2>3 DEF ArmsInv, HammerStays, HasWeapon, NothingOwed, Listed
    <3>3. ShotIsPaid'
      BY <1>4, <2>4 DEF ShotIsPaid
    <3>. QED  BY <3>1, <3>2, <3>3 DEF ArmsInv
  <2>. QED  BY <1>6, <2>2, <2>3, <2>4
<1>. QED  BY <1>3, <1>6, <1>7 DEF NoFire

LEMMA ArmsInvariance == ArmsSpec => []ArmsInv
<1>0. Hammer \in WeaponIds /\ MaxInputs \in Nat /\ MaxFound \in Nat
  BY TheHammer, ArmsAssumption
<1>1. ArmsInit => ArmsInv
  <2>. SUFFICES ASSUME ArmsInit PROVE ArmsInv
    OBVIOUS
  <2>1. ArmsTypeOK
    <3>1. carried \in [AllItems -> Int] /\ ammo \in [WeaponIds -> Int]
      BY DEF ArmsInit, NoneListed
    <3>2. inputs \in 0 .. MaxInputs /\ found \in 0 .. MaxFound
      BY <1>0 DEF ArmsInit
    <3>. QED  BY <1>0, <3>1, <3>2 DEF ArmsInit, ArmsTypeOK
  <2>. QED  BY <2>1 DEF ArmsInit, ArmsInv, HammerStays, HasWeapon, ShotIsPaid, NothingOwed, Listed
<1>2. ArmsInv /\ [ArmsNext]_armsVars => ArmsInv'
  <2>. SUFFICES ASSUME ArmsInv, [ArmsNext]_armsVars PROVE ArmsInv'
    OBVIOUS
  <2>. USE DEF ArmsInv
  <2>1. ASSUME NEW i \in AllItems, NEW n \in 0 .. 1, SyncItem(i, n)
        PROVE  ArmsInv'
    BY <2>1 DEF SyncItem, ArmsTypeOK, HammerStays, HasWeapon, ShotIsPaid, NothingOwed
  <2>2. CASE ClearInv
    <3>1. ArmsTypeOK'
      <4>1. carried' \in [AllItems -> Int] /\ ammo' \in [WeaponIds -> Int]
        BY <2>2 DEF ClearInv, NoneListed
      <4>2. inputs' \in 0 .. MaxInputs /\ found' \in 0 .. MaxFound
        BY <1>0, <2>2 DEF ClearInv, ArmsTypeOK
      <4>. QED  BY <1>0, <2>2, <4>1, <4>2 DEF ClearInv, ArmsTypeOK
    <3>. QED
      BY <2>2, <3>1 DEF ClearInv, HammerStays, HasWeapon, ShotIsPaid, NothingOwed, Listed
  <2>3. CASE TickDone \/ DieByOthers \/ ToggleMenu \/ UNCHANGED armsVars
    BY <2>3 DEF TickDone, DieByOthers, ToggleMenu, armsVars, ArmsTypeOK, HammerStays,
      HasWeapon, ShotIsPaid, NothingOwed, Listed
  <2>. QED
    BY <2>1, <2>2, <2>3, MakeKeeps, PickupKeeps, PlayerTickKeeps, CharacterTickKeeps,
      DirectInputKeeps DEF ArmsNext
<1>. QED  BY <1>1, <1>2, PTL DEF ArmsSpec

\* Whatever the items and the weapons are: nothing is spent that a player does not
\* have, as long as no thread has overwritten the inventory, and no input reaches a
\* character that has no weapon (CCharacter::SyncWeapon, FireWeapon, OnWeaponFire,
\* HandleWeaponSwitch; CMakeCore::MakeItem).
THEOREM ArmsAlwaysHold == ArmsSpec => []ArmsHold
<1>1. ArmsInv => ArmsHold
  BY DEF ArmsInv, ArmsTypeOK, NothingOwed, HasWeapon, ArmsHold, MayAct
<1>. QED  BY <1>1, ArmsInvariance, PTL

-----------------------------------------------------------------------------
(* Menus.                                                                   *)

OptionsOf(page) == {Options(page)[i] : i \in DOMAIN Options(page)}

\* The marked text, if it is there still, is an option of the page that is shown.
Marks(m) == m.live => m.marked \in OptionsOf(m.page)

\* An open menu that need not be drawn again shows what it marks.
Fine(m) == m.open /\ ~m.update => Marks(m)

Shown(ms) ==
  /\ ms \in [Viewers -> MenuRecords]
  /\ \A q \in Viewers : Fine(ms[q])

MenuInv == MenuTypeOK /\ Shown(menus) /\ UsesWhatIsShownUnlessFreed

LEMMA RowsAreOptions ==
  ASSUME NEW page \in PageNames, NEW line \in Int
  PROVE  /\ Options(page) # <<>>
         /\ MarkedRow(Options(page), line) \in OptionsOf(page)
         /\ OptionsOf(page) \subseteq OptionNames
<1>1. /\ Options(page) # <<>> /\ Len(Options(page)) \in Nat \ {0}
      /\ DOMAIN Options(page) = 1 .. Len(Options(page))
  <2>1. MainOptions # <<>> /\ Len(MainOptions) = 3 /\ DOMAIN MainOptions = 1 .. 3
    BY DEF MainOptions
  <2>2. /\ Len(MakeItems) \in Nat \ {0} /\ DOMAIN MakeItems = 1 .. Len(MakeItems)
        /\ MakeItems # <<>>
    BY MenuAssumption
  <2>. QED  BY <2>1, <2>2 DEF Options
<1>2. OptionsOf(page) \subseteq OptionNames
  BY DEF OptionsOf, Options, OptionNames
<1>. DEFINE n == Len(Options(page))
            shift == IF n > Rows THEN Rows \div 2 ELSE 0
            row == ((line + shift) % n) + 1
<1>3. n \in Nat \ {0} /\ DOMAIN Options(page) = 1 .. n
  BY <1>1
<1>4. shift \in Int
  BY <1>3, MenuAssumption
<1>5. MarkedRow(Options(page), line) = Options(page)[row]
  BY DEF MarkedRow
<1>. HIDE DEF n, shift
<1>6. row \in 1 .. n
  BY <1>3, <1>4
<1>. QED  BY <1>1, <1>2, <1>3, <1>5, <1>6 DEF OptionsOf

LEMMA OneMenuChanges ==
  ASSUME NEW p \in Viewers, NEW ms, Shown(ms), NEW m \in MenuRecords, Fine(m),
         NEW ns, ns = [ms EXCEPT ![p] = m]
  PROVE  Shown(ns) /\ ns[p] = m
<1>1. ns \in [Viewers -> MenuRecords] /\ ns[p] = m
  BY DEF Shown
<1>2. \A q \in Viewers : q # p => ns[q] = ms[q]
  BY DEF Shown
<1>3. \A q \in Viewers : Fine(ns[q])
  BY <1>1, <1>2 DEF Shown
<1>. QED  BY <1>1, <1>3 DEF Shown

\* ShowMenu marks an option of the page; every other menu loses its text.
LEMMA ShowMarks ==
  ASSUME NEW p \in Viewers, NEW ms, Shown(ms)
  PROVE  Shown(ShowMenu(ms, p)) /\ Marks(ShowMenu(ms, p)[p])
<1>. DEFINE freed == [q \in Viewers |-> [ms[q] EXCEPT !.live = FALSE]]
            row == MarkedRow(Options(ms[p].page), ms[p].line)
            m == [freed[p] EXCEPT !.marked = row, !.live = TRUE]
<1>0. ms \in [Viewers -> MenuRecords] /\ ms[p] \in MenuRecords
  BY DEF Shown
<1>1. ms[p].page \in PageNames /\ ms[p].line \in Int
  BY <1>0, MenuAssumption DEF MenuRecords
<1>2. /\ Options(ms[p].page) # <<>>
      /\ row \in OptionsOf(ms[p].page) /\ row \in OptionNames
  BY <1>1, RowsAreOptions
<1>. HIDE DEF row
<1>3. Shown(freed)
  <2>1. \A q \in Viewers : freed[q] \in MenuRecords /\ Marks(freed[q])
    BY <1>0 DEF MenuRecords, Marks
  <2>2. freed \in [Viewers -> MenuRecords]
    BY <2>1
  <2>. QED  BY <2>1, <2>2 DEF Shown, Fine
<1>4. ShowMenu(ms, p) = [freed EXCEPT ![p].marked = row, ![p].live = TRUE]
  BY <1>2 DEF ShowMenu, row
<1>5. freed[p] \in MenuRecords /\ freed[p].page = ms[p].page
  BY <1>0 DEF MenuRecords
<1>. HIDE DEF freed
<1>6. ShowMenu(ms, p) = [freed EXCEPT ![p] = m]
  BY <1>3, <1>4 DEF Shown
<1>7. m \in MenuRecords /\ Marks(m)
  BY <1>2, <1>5 DEF MenuRecords, Marks
<1>. HIDE DEF m
<1>8. Fine(m)
  BY <1>7 DEF Fine
<1>9. Shown(ShowMenu(ms, p)) /\ ShowMenu(ms, p)[p] = m
  BY <1>3, <1>6, <1>7, <1>8, OneMenuChanges
<1>. QED  BY <1>7, <1>9

LEMMA Drawn ==
  ASSUME NEW p \in Viewers, NEW ms, Shown(ms), ms[p].open
  PROVE  Shown(Redrawn(ms, p)) /\ Marks(Redrawn(ms, p)[p])
<1>1. CASE ~ms[p].update
  BY <1>1 DEF Redrawn, Shown, Fine
<1>2. CASE ms[p].update
  <2>. DEFINE s == ShowMenu(ms, p)
  <2>1. Shown(s) /\ Marks(s[p])
    BY ShowMarks
  <2>2. Redrawn(ms, p) = [s EXCEPT ![p].update = FALSE]
    BY <1>2 DEF Redrawn
  <2>. HIDE DEF s
  <2>. DEFINE m == [s[p] EXCEPT !.update = FALSE]
  <2>3. m \in MenuRecords /\ Marks(m)
    BY <2>1 DEF Marks, MenuRecords, Shown
  <2>4. Redrawn(ms, p) = [s EXCEPT ![p] = m]
    BY <2>2
  <2>. HIDE DEF m
  <2>5. Fine(m)
    BY <2>3 DEF Fine
  <2>6. PICK ns : ns = Redrawn(ms, p)
    OBVIOUS
  <2>7. ns = [s EXCEPT ![p] = m]
    BY <2>4, <2>6
  <2>8. Shown(ns) /\ ns[p] = m
    <3>1. s \in [Viewers -> MenuRecords] /\ \A q \in Viewers : Fine(s[q])
      BY <2>1 DEF Shown
    <3>2. ns \in [Viewers -> MenuRecords] /\ ns[p] = m
          /\ \A q \in Viewers : q # p => ns[q] = s[q]
      BY <2>3, <2>7, <3>1
    <3>3. \A q \in Viewers : Fine(ns[q])
      BY <2>5, <3>1, <3>2
    <3>. QED  BY <3>2, <3>3 DEF Shown
  <2>. QED  BY <2>3, <2>6, <2>8
<1>3. ms[p].update \in BOOLEAN
  BY DEF Shown, MenuRecords
<1>. QED  BY <1>1, <1>2, <1>3

\* Closing a menu changes nothing of what it marks.
LEMMA MenuClosed ==
  ASSUME NEW p \in Viewers, NEW ms, Shown(ms)
  PROVE  /\ Shown(CloseMenu(ms, p))
         /\ Marks(ms[p]) => Marks(CloseMenu(ms, p)[p])
<1>. DEFINE m == [ms[p] EXCEPT !.open = FALSE, !.line = 0]
<1>0. 0 \in -MaxLine .. MaxLine
  BY MenuAssumption
<1>1. CloseMenu(ms, p) = [ms EXCEPT ![p] = m]
  BY DEF CloseMenu, Shown
<1>2. m \in MenuRecords /\ Fine(m) /\ (Marks(ms[p]) => Marks(m))
  BY <1>0 DEF MenuRecords, Fine, Marks, Shown
<1>. HIDE DEF m
<1>3. Shown(CloseMenu(ms, p)) /\ CloseMenu(ms, p)[p] = m
  BY <1>1, <1>2, OneMenuChanges
<1>. QED  BY <1>2, <1>3

LEMMA Counted ==
  ASSUME NEW p \in Viewers, NEW ms, Shown(ms), Marks(ms[p])
  PROVE  Shown(CountsDown(ms, p)) /\ Marks(CountsDown(ms, p)[p])
<1>. DEFINE c == ms[p].close
            m == [ms[p] EXCEPT !.close = @ - 1]
            left == [ms EXCEPT ![p].close = @ - 1]
<1>0. c \in 0 .. CloseTicks
  BY DEF MenuRecords, Shown
<1>1. CASE c = 0
  BY <1>1 DEF CountsDown
<1>2. CASE c # 0
  <2>1. c - 1 \in 0 .. CloseTicks
    BY <1>0, <1>2, MenuAssumption
  <2>2. m \in MenuRecords /\ Marks(m)
    BY <2>1 DEF MenuRecords, Marks, Shown
  <2>3. left = [ms EXCEPT ![p] = m]
    BY DEF Shown
  <2>. HIDE DEF m
  <2>4. CountsDown(ms, p) = IF c = 1 THEN CloseMenu(left, p) ELSE left
    BY <1>2 DEF CountsDown
  <2>. HIDE DEF left
  <2>5. Fine(m)
    BY <2>2 DEF Fine
  <2>6. Shown(left) /\ left[p] = m
    BY <2>2, <2>3, <2>5, OneMenuChanges
  <2>7. Shown(left) /\ Marks(left[p])
    BY <2>2, <2>6
  <2>8. Shown(CloseMenu(left, p)) /\ Marks(CloseMenu(left, p)[p])
    BY <2>7, MenuClosed
  <2>. QED  BY <2>4, <2>7, <2>8
<1>. QED  BY <1>1, <1>2

\* The rest of MenuTick keeps what was shown.
RestOf(ms, p, buttons, back) ==
  [(IF back THEN BackToMain(ms, p) ELSE ms) EXCEPT ![p].down = buttons]

LEMMA RestKeeps ==
  ASSUME NEW p \in Viewers, NEW ms, Shown(ms), NEW buttons \in SUBSET Buttons,
         NEW back
  PROVE  Shown(RestOf(ms, p, buttons, back))
<1>. DEFINE b == IF back THEN BackToMain(ms, p) ELSE ms
            m == [ms[p] EXCEPT !.page = "main", !.update = TRUE]
<1>0. m \in MenuRecords /\ Fine(m)
  BY DEF Shown, MenuRecords, PageNames, Fine
<1>1. back => b = [ms EXCEPT ![p] = m]
  BY DEF BackToMain, Shown
<1>. HIDE DEF m
<1>2. Shown(b)
  <2>1. CASE back
    <3>1. b = [ms EXCEPT ![p] = m]
      BY <1>1, <2>1
    <3>. HIDE DEF b
    <3>. QED  BY <1>0, <3>1, OneMenuChanges
  <2>2. CASE ~back
    BY <2>2
  <2>. QED  BY <2>1, <2>2
<1>3. RestOf(ms, p, buttons, back) = [b EXCEPT ![p].down = buttons]
  BY DEF RestOf
<1>. HIDE DEF b
<1>. DEFINE r == [b[p] EXCEPT !.down = buttons]
<1>4. r \in MenuRecords /\ Fine(r)
  BY <1>2 DEF Marks, MenuRecords, Shown, Fine
<1>5. RestOf(ms, p, buttons, back) = [b EXCEPT ![p] = r]
  BY <1>3
<1>. HIDE DEF r
<1>. QED  BY <1>2, <1>4, <1>5, OneMenuChanges

\* A line under the menu has it drawn.
LEMMA Chatted ==
  ASSUME NEW p \in Viewers, NEW ms, Shown(ms)
  PROVE  Shown(AddMenuChat(ms, p))
<1>. DEFINE s == ShowMenu(ms, p)
            m == [s[p] EXCEPT !.close = CloseTicks]
<1>0. CloseTicks \in 0 .. CloseTicks
  BY MenuAssumption
<1>1. Shown(s) /\ Marks(s[p])
  BY ShowMarks
<1>2. AddMenuChat(ms, p) = [s EXCEPT ![p].close = CloseTicks]
  BY DEF AddMenuChat
<1>. HIDE DEF s
<1>3. m \in MenuRecords /\ Fine(m)
  BY <1>0, <1>1 DEF MenuRecords, Marks, Shown, Fine
<1>4. AddMenuChat(ms, p) = [s EXCEPT ![p] = m]
  BY <1>2
<1>. HIDE DEF m
<1>. QED  BY <1>1, <1>3, <1>4, OneMenuChanges

LEMMA UsedKeeps ==
  ASSUME NEW p \in Viewers, NEW ms, Shown(ms), NEW name
  PROVE  Shown(UseOption(ms, p, name))
<1>. DEFINE a == AddMenuChat(ms, p)
<1>0. CloseTicks \in 0 .. CloseTicks
  BY MenuAssumption
<1>1. Shown(a) /\ Shown(CloseMenu(ms, p))
  BY Chatted, MenuClosed
<1>2. UseOption(ms, p, name) \in {CloseMenu(ms, p), a, SetMenuPage(a, p, "item")}
  BY DEF UseOption
<1>. HIDE DEF a
<1>3. Shown(SetMenuPage(a, p, "item"))
  <2>. DEFINE m == [a[p] EXCEPT !.page = "item", !.update = TRUE, !.close = CloseTicks]
  <2>0. a[p] \in MenuRecords
    BY <1>1 DEF Shown
  <2>1. m \in MenuRecords /\ m.update /\ Fine(m)
    BY <1>0, <2>0 DEF MenuRecords, PageNames, Fine
  <2>2. SetMenuPage(a, p, "item") = [a EXCEPT ![p] = m]
    BY <1>1 DEF SetMenuPage, Shown
  <2>. HIDE DEF m
  <2>. QED  BY <1>1, <2>1, <2>2, OneMenuChanges
<1>. QED  BY <1>1, <1>2, <1>3

LEMMA MenuTickKeeps ==
  ASSUME NEW p \in Viewers, MenuInv, NEW buttons \in SUBSET Buttons, MenuTick(p, buttons)
  PROVE  MenuInv'
<1>. DEFINE pressed == buttons \ menus[p].down
            back == "hook" \in pressed
            drawn == CountsDown(Redrawn(menus, p), p)
            Rest(ms) == [(IF "hook" \in pressed THEN BackToMain(ms, p) ELSE ms)
                           EXCEPT ![p].down = buttons]
            used(name) == [did |-> IF name = drawn[p].marked THEN "shown" ELSE "other",
                           live |-> drawn[p].live]
            not == [did |-> "unknown", live |-> drawn[p].live]
            Uses == [did : {"none", "shown", "other", "unknown"}, live : BOOLEAN]
<1>1. Shown(menus) /\ menus[p].open /\ lastUse \in Uses /\ UsesWhatIsShownUnlessFreed
  BY DEF MenuInv, MenuTypeOK, MenuTick
<1>2. Shown(drawn) /\ Marks(drawn[p])
  BY <1>1, Drawn, Counted
<1>3. \A ms : Rest(ms) = RestOf(ms, p, buttons, back)
  BY DEF RestOf
<1>4. \/ menus' = Rest(drawn) /\ UNCHANGED lastUse
      \/ \E name \in Reads(drawn[p]) :
           IF FindOption(name, drawn[p].page) = {}
           THEN menus' = Rest(drawn) /\ lastUse' = not
           ELSE menus' = Rest(UseOption(drawn, p, name)) /\ lastUse' = used(name)
  BY DEF MenuTick, UseOptions
<1>5. drawn[p].live \in BOOLEAN
  <2>. HIDE DEF drawn
  <2>. QED  BY <1>2 DEF Shown, MenuRecords
<1>. HIDE DEF drawn, Rest
<1>6. \A ms : Shown(ms) => Shown(Rest(ms))
  <2>1. PICK b : b = back
    OBVIOUS
  <2>. QED  BY <1>3, <2>1, RestKeeps
<1>7. ASSUME NEW ms, menus' = ms, Shown(ms), lastUse' \in Uses,
             lastUse'.live => lastUse'.did \in {"none", "shown"}
      PROVE  MenuInv'
  <2>1. MenuTypeOK' /\ UsesWhatIsShownUnlessFreed'
    BY <1>7 DEF Shown, MenuTypeOK, UsesWhatIsShownUnlessFreed, UsesWhatIsShown
  <2>2. Shown(menus)'
    BY <1>7 DEF Shown, Fine, Marks
  <2>. QED  BY <2>1, <2>2 DEF MenuInv
<1>8. CASE menus' = Rest(drawn) /\ UNCHANGED lastUse
  <2>1. Shown(Rest(drawn))
    BY <1>2, <1>6
  <2>. QED  BY <1>1, <1>7, <1>8, <2>1 DEF UsesWhatIsShownUnlessFreed, UsesWhatIsShown
<1>9. ASSUME NEW name \in Reads(drawn[p]),
             IF FindOption(name, drawn[p].page) = {}
             THEN menus' = Rest(drawn) /\ lastUse' = not
             ELSE menus' = Rest(UseOption(drawn, p, name)) /\ lastUse' = used(name)
      PROVE  MenuInv'
  <2>1. Shown(Rest(drawn)) /\ Shown(Rest(UseOption(drawn, p, name)))
    BY <1>2, <1>6, UsedKeeps
  <2>2. not \in Uses /\ used(name) \in Uses
        /\ not.live = drawn[p].live /\ used(name).live = drawn[p].live
    BY <1>5
  <2>3. ASSUME drawn[p].live
        PROVE  FindOption(name, drawn[p].page) # {} /\ used(name).did = "shown"
    <3>1. name = drawn[p].marked
      BY <2>3 DEF Reads
    <3>2. FindOption(name, drawn[p].page) # {}
      BY <1>2, <2>3, <3>1 DEF FindOption, Marks, OptionsOf
    <3>. QED  BY <3>1, <3>2
  <2>. HIDE DEF not, used, Uses
  <2>4. CASE FindOption(name, drawn[p].page) = {}
    BY <1>7, <1>9, <2>1, <2>2, <2>3, <2>4
  <2>5. CASE FindOption(name, drawn[p].page) # {}
    BY <1>7, <1>9, <2>1, <2>2, <2>3, <2>5
  <2>. QED  BY <2>4, <2>5
<1>. QED  BY <1>4, <1>8, <1>9

\* A step that leaves all menus fine and uses none.
LEMMA MenuChanged ==
  ASSUME MenuInv, NEW ms, Shown(ms), menus' = ms, UNCHANGED lastUse
  PROVE  MenuInv'
<1>1. Shown(menus)'
  BY DEF Shown, Fine, Marks
<1>. QED  BY <1>1 DEF MenuInv, MenuTypeOK, Shown, UsesWhatIsShownUnlessFreed, UsesWhatIsShown

LEMMA OtherMenuSteps ==
  ASSUME NEW p \in Viewers, MenuInv
  PROVE  /\ \A buttons \in SUBSET Buttons : IdleTick(p, buttons) => MenuInv'
         /\ \A by \in {-1, 1} : Scrolls(p, by) => MenuInv'
         /\ \A byPlayer \in BOOLEAN : Dies(p, byPlayer) => MenuInv'
         /\ MenuCommand(p) \/ MenuChat(p) \/ Spawns(p) => MenuInv'
<1>. DEFINE o == menus[p]
<1>1. o \in MenuRecords /\ Shown(menus) /\ Fine(o) /\ menus \in [Viewers -> MenuRecords]
  BY DEF MenuInv, MenuTypeOK, Shown
<1>2. 0 \in -MaxLine .. MaxLine /\ CloseTicks \in 0 .. CloseTicks
  BY MenuAssumption
<1>3. ASSUME NEW buttons \in SUBSET Buttons, IdleTick(p, buttons) PROVE MenuInv'
  <2>. DEFINE m == [o EXCEPT !.down = buttons]
  <2>1. m \in MenuRecords /\ Fine(m)
    BY <1>1 DEF MenuRecords, Marks, Fine
  <2>2. menus' = [menus EXCEPT ![p] = m] /\ UNCHANGED lastUse
    BY <1>3 DEF IdleTick
  <2>. HIDE DEF m
  <2>. QED  BY <1>1, <2>1, <2>2, OneMenuChanges, MenuChanged
<1>4. ASSUME NEW by \in {-1, 1}, Scrolls(p, by) PROVE MenuInv'
  <2>. DEFINE m == [o EXCEPT !.line = @ + by, !.update = TRUE, !.close = CloseTicks]
  <2>1. m \in MenuRecords /\ Fine(m)
    BY <1>1, <1>2, <1>4 DEF MenuRecords, Scrolls, Fine
  <2>2. menus' = [menus EXCEPT ![p] = m] /\ UNCHANGED lastUse
    BY <1>1, <1>4 DEF Scrolls
  <2>. HIDE DEF m
  <2>. QED  BY <1>1, <2>1, <2>2, OneMenuChanges, MenuChanged
<1>5. ASSUME NEW byPlayer \in BOOLEAN, Dies(p, byPlayer) PROVE MenuInv'
  <2>. DEFINE d == [o EXCEPT !.body = FALSE]
              dead == [menus EXCEPT ![p].body = FALSE]
  <2>1. d \in MenuRecords /\ Fine(d)
    BY <1>1 DEF MenuRecords, Marks, Fine
  <2>2. dead = [menus EXCEPT ![p] = d]
    BY <1>1
  <2>3. menus' = CloseMenu(dead, p) \/ menus' = dead
    BY <1>5 DEF Dies
  <2>4. UNCHANGED lastUse
    BY <1>5 DEF Dies
  <2>. HIDE DEF d, dead
  <2>5. Shown(dead)
    BY <1>1, <2>1, <2>2, OneMenuChanges
  <2>6. Shown(CloseMenu(dead, p))
    BY <2>5, MenuClosed
  <2>. QED  BY <2>3, <2>4, <2>5, <2>6, MenuChanged
<1>6. CASE MenuCommand(p)
  <2>. DEFINE n == [o EXCEPT !.open = TRUE, !.page = "main", !.update = TRUE, !.close = CloseTicks]
  <2>1. n \in MenuRecords /\ Fine(n)
    BY <1>1, <1>2 DEF MenuRecords, PageNames, Fine
  <2>2. menus' = CloseMenu(menus, p) \/ menus' = [menus EXCEPT ![p] = n]
    BY <1>1, <1>6 DEF MenuCommand, OpenMenu
  <2>3. UNCHANGED lastUse
    BY <1>6 DEF MenuCommand
  <2>. HIDE DEF n
  <2>4. Shown(CloseMenu(menus, p)) /\ Shown([menus EXCEPT ![p] = n])
    BY <1>1, <2>1, MenuClosed, OneMenuChanges
  <2>. QED  BY <2>2, <2>3, <2>4, MenuChanged
<1>7. CASE MenuChat(p)
  BY <1>1, <1>7, Chatted, MenuChanged DEF MenuChat
<1>8. CASE Spawns(p)
  <2>. DEFINE m == [o EXCEPT !.body = TRUE, !.down = {}]
  <2>1. m \in MenuRecords /\ Fine(m)
    BY <1>1 DEF MenuRecords, Marks, Fine
  <2>2. menus' = [menus EXCEPT ![p] = m] /\ UNCHANGED lastUse
    BY <1>1, <1>8 DEF Spawns
  <2>. HIDE DEF m
  <2>. QED  BY <1>1, <2>1, <2>2, OneMenuChanges, MenuChanged
<1>. QED  BY <1>3, <1>4, <1>5, <1>6, <1>7, <1>8

\* Whatever the players, the items, the rows and the ticks: unless another player's menu
\* freed the text in between, the fire button uses the option that the menu on the
\* player's screen marks (CPlayer::Tick, CMenu::ShowMenu, UseOptions).
THEOREM AlwaysUsesWhatIsShown == MenuSpec => []UsesWhatIsShownUnlessFreed
<1>1. MenuInit => MenuInv
  <2>. SUFFICES ASSUME MenuInit PROVE MenuInv
    OBVIOUS
  <2>1. \A q \in Viewers : menus[q] \in MenuRecords /\ ~menus[q].open
    BY MenuAssumption DEF MenuInit, MenuRecords, PageNames
  <2>2. menus \in [Viewers -> MenuRecords]
    BY <2>1 DEF MenuInit
  <2>3. lastUse = [did |-> "none", live |-> FALSE]
    BY DEF MenuInit
  <2>. QED  BY <2>1, <2>2, <2>3 DEF MenuInv, MenuTypeOK, UsesWhatIsShownUnlessFreed, Shown, Fine
<1>2. MenuInv /\ [MenuNext]_menuVars => MenuInv'
  <2>. SUFFICES ASSUME MenuInv, [MenuNext]_menuVars PROVE MenuInv'
    OBVIOUS
  <2>1. CASE UNCHANGED menuVars
    BY <2>1, MenuChanged DEF menuVars, MenuInv
  <2>2. ASSUME NEW p \in Viewers, NEW buttons \in SUBSET Buttons,
               MenuTick(p, buttons) \/ IdleTick(p, buttons)
        PROVE  MenuInv'
    BY <2>2, MenuTickKeeps, OtherMenuSteps
  <2>. QED  BY <2>1, <2>2, OtherMenuSteps DEF MenuNext
<1>3. MenuInv => UsesWhatIsShownUnlessFreed
  BY DEF MenuInv
<1>. QED  BY <1>1, <1>2, <1>3, PTL DEF MenuSpec

-----------------------------------------------------------------------------
(* The remote console.                                                      *)

RconTypes ==
  /\ list \in Seq(RconCommands) /\ running \in BOOLEAN /\ forMods \subseteq RconCommands
  /\ authed \in [Clients -> {"no", "mod", "admin"}]
  /\ tries \in [Clients -> Int]
  /\ toSend \in [Clients -> RconCommands \union {NoCommand}]
  /\ next \in Clients
  /\ told \in [Clients -> SUBSET RconCommands] /\ wanted \in [Clients -> BOOLEAN]

\* The list is sorted, so that what comes later is greater.
ListSorted == \A m, n \in DOMAIN list : m < n => list[m] < list[n]

\* Clients come when all commands are in the list.
ListWhole ==
  /\ running => Range(list) = RconCommands
  /\ ~running => \A i \in Clients : authed[i] = "no"

RconInv == RconTypes /\ ListSorted /\ ListWhole /\ RconListComplete

LEMMA CommandNumbers ==
  /\ RconCommands \subseteq Nat /\ NoCommand \notin RconCommands /\ MaxSend \in Nat \ {0}
BY RconAssumption DEF NoCommand

\* FirstCommandInfo, NextCommandInfo: nothing that may be used is passed over.
LEMMA FirstIsFirst ==
  ASSUME RconTypes, ListSorted, NEW n \in Nat \ {0}, NEW level
  PROVE  /\ FirstFrom(n, level) \in RconCommands \union {NoCommand}
         /\ \A m \in n .. Len(list) : list[m] \in MayUse(level, forMods) =>
              FirstFrom(n, level) # NoCommand /\ FirstFrom(n, level) <= list[m]
<1>. DEFINE usable == {m \in n .. Len(list) : list[m] \in MayUse(level, forMods)}
            IsFirst(m) == m \in usable /\ \A k \in usable : m <= k
<1>1. Len(list) \in Nat /\ DOMAIN list = 1 .. Len(list)
  BY DEF RconTypes
<1>2. FirstFrom(n, level) = IF usable = {} THEN NoCommand
                            ELSE list[CHOOSE m \in usable : \A k \in usable : m <= k]
  BY DEF FirstFrom
<1>3. CASE usable = {}
  BY <1>2, <1>3
<1>4. CASE usable # {}
  <2>1. usable \subseteq Nat /\ usable \subseteq DOMAIN list
    BY <1>1
  <2>2. \E m \in usable : \A k \in usable : m <= k
    <3>. HIDE DEF usable
    <3>. QED  BY <1>4, <2>1, SmallestNumber
  <2>3. PICK m \in usable : /\ \A k \in usable : m <= k
                            /\ FirstFrom(n, level) = list[m]
    <3>. HIDE DEF usable
    <3>. QED  BY <1>2, <1>4, <2>2
  <2>4. list[m] \in RconCommands
    BY <2>1, <2>3 DEF RconTypes
  <2>5. ASSUME NEW k \in usable PROVE list[m] <= list[k]
    <3>1. m <= k /\ m \in DOMAIN list /\ k \in DOMAIN list /\ m \in Nat /\ k \in Nat
      BY <2>1, <2>3
    <3>2. list[m] \in Nat /\ list[k] \in Nat
      <4>1. list[m] \in RconCommands /\ list[k] \in RconCommands
        BY <3>1 DEF RconTypes
      <4>. QED  BY <4>1, CommandNumbers
    <3>3. m = k \/ m < k
      BY <3>1
    <3>. QED  BY <3>1, <3>2, <3>3 DEF ListSorted
  <2>. QED  BY <2>3, <2>4, <2>5, CommandNumbers
<1>. QED  BY <1>3, <1>4

LEMMA NextIsNext ==
  ASSUME RconTypes, ListSorted, Range(list) = RconCommands,
         NEW c \in RconCommands, NEW level
  PROVE  /\ NextCommandInfo(c, level) \in RconCommands \union {NoCommand}
         /\ \A d \in MayUse(level, forMods) : d > c =>
              NextCommandInfo(c, level) # NoCommand /\ NextCommandInfo(c, level) <= d
<1>1. Len(list) \in Nat /\ DOMAIN list = 1 .. Len(list)
  BY DEF RconTypes
<1>2. PICK m \in DOMAIN list : list[m] = c /\ NextCommandInfo(c, level) = FirstFrom(m + 1, level)
  BY DEF Range, NextCommandInfo
<1>3. m \in Nat /\ m + 1 \in Nat \ {0}
  BY <1>1
<1>4. ASSUME NEW d \in MayUse(level, forMods), d > c
      PROVE  \E k \in m + 1 .. Len(list) : list[k] = d
  <2>1. d \in RconCommands
    BY DEF MayUse, RconTypes
  <2>2. PICK k \in DOMAIN list : list[k] = d
    BY <2>1 DEF Range
  <2>3. k \in 1 .. Len(list) /\ c \in Nat /\ d \in Nat
    BY <1>1, <2>1, CommandNumbers
  <2>4. k # m
    BY <1>2, <1>4, <2>2, <2>3
  <2>5. ~(k < m)
    BY <1>2, <1>4, <2>2, <2>3 DEF ListSorted
  <2>6. k \in m + 1 .. Len(list)
    BY <1>3, <2>3, <2>4, <2>5
  <2>. QED  BY <2>2, <2>6
<1>. QED  BY <1>2, <1>3, <1>4, FirstIsFirst

\* What a client is told next: of what it may use and the list had still to come
\* to, all that it is not told now.
LEMMA UpcomingIsAll ==
  RconInv /\ Range(list) = RconCommands =>
    \A i \in Clients :
      /\ Upcoming(i) \in [0 .. MaxSend -> RconCommands \union {NoCommand}]
      /\ \A c \in MayUse(authed[i], forMods) :
           toSend[i] # NoCommand /\ c >= toSend[i] =>
             \/ Upcoming(i)[MaxSend] # NoCommand /\ c >= Upcoming(i)[MaxSend]
             \/ \E n \in 0 .. MaxSend - 1 : c = Upcoming(i)[n]
<1>0. SUFFICES ASSUME RconInv, Range(list) = RconCommands, NEW i \in Clients
      PROVE  /\ Upcoming(i) \in [0 .. MaxSend -> RconCommands \union {NoCommand}]
             /\ \A c \in MayUse(authed[i], forMods) :
                  toSend[i] # NoCommand /\ c >= toSend[i] =>
                    \/ Upcoming(i)[MaxSend] # NoCommand /\ c >= Upcoming(i)[MaxSend]
                    \/ \E n \in 0 .. MaxSend - 1 : c = Upcoming(i)[n]
  OBVIOUS
<1>. DEFINE N == MaxSend
            S == RconCommands \union {NoCommand}
            Turn(x) == IF x = NoCommand THEN NoCommand ELSE NextCommandInfo(x, authed[i])
            step == [n \in 1 .. N |-> [x \in S |-> Turn(x)]]
            Loop(f) == f = [n \in 0 .. N |-> IF n = 0 THEN toSend[i] ELSE Turn(f[n - 1])]
<1>1. N \in Nat /\ N # 0 /\ toSend[i] \in S
  BY <1>0, CommandNumbers DEF RconInv, RconTypes
<1>2. ASSUME NEW x \in S
      PROVE  /\ Turn(x) \in S
             /\ \A d \in MayUse(authed[i], forMods) : x # NoCommand /\ d > x =>
                  Turn(x) # NoCommand /\ Turn(x) <= d
  <2>1. CASE x = NoCommand
    BY <2>1
  <2>2. CASE x # NoCommand
    <3>1. x \in RconCommands /\ Turn(x) = NextCommandInfo(x, authed[i])
      BY <2>2
    <3>. HIDE DEF Turn
    <3>. QED  BY <1>0, <3>1, NextIsNext DEF RconInv, ListWhole
  <2>. QED  BY <2>1, <2>2
<1>. HIDE DEF Turn, N, S
<1>3. step \in [1 .. N -> [S -> S]]
  BY <1>2
<1>4. PICK g \in [0 .. N -> S] : g[0] = toSend[i] /\ \A n \in 1 .. N : g[n] = step[n][g[n - 1]]
  <2>. HIDE DEF step
  <2>1. PICK a, st : a = toSend[i] /\ st = step
    OBVIOUS
  <2>2. a \in S /\ st \in Turns(N, S)
    BY <1>1, <1>3, <2>1 DEF Turns
  <2>3. N \in Nat
    BY <1>1
  <2>4. PICK f \in [0 .. N -> S] : Runs(f, a, st, N)
    BY <2>2, <2>3, RunExists
  <2>. QED  BY <2>1, <2>4 DEF Runs
<1>5. \A n \in 1 .. N : n - 1 \in 0 .. N /\ n \in 0 .. N /\ n - 1 \in 0 .. N - 1
  BY <1>1
<1>6. \A n \in 1 .. N : g[n] = Turn(g[n - 1])
  BY <1>4, <1>5
<1>7. Loop(g)
  <2>1. \A n \in 0 .. N : n = 0 \/ n \in 1 .. N
    BY <1>1
  <2>2. \A n \in 0 .. N : g[n] = IF n = 0 THEN toSend[i] ELSE Turn(g[n - 1])
    BY <1>4, <1>6, <2>1
  <2>. QED  BY <2>2
<1>8. Upcoming(i) = CHOOSE f : Loop(f)
  BY DEF Upcoming, Turn, N
<1>9. PICK line : line = Upcoming(i) /\ Loop(line)
  <2>. HIDE DEF Loop
  <2>. QED  BY <1>7, <1>8
<1>10. line[0] = toSend[i] /\ \A n \in 1 .. N : line[n] = Turn(line[n - 1])
  <2>1. 0 \in 0 .. N /\ \A n \in 1 .. N : n # 0
    BY <1>1
  <2>. QED  BY <1>5, <1>9, <2>1
<1>11. \A n \in 0 .. N : line[n] \in S
  <2>. DEFINE T == {n \in 0 .. N : line[n] \in S}
  <2>1. 0 \in T
    BY <1>1, <1>10
  <2>2. \A n \in 1 .. N : n - 1 \in T => n \in T
    BY <1>2, <1>5, <1>10
  <2>3. \A n \in 0 .. N : n \in T
    <3>. HIDE DEF T
    <3>. QED  BY <1>1, <2>1, <2>2, NumbersUpTo
  <2>. QED  BY <2>3
<1>12. line \in [0 .. N -> S]
  BY <1>9, <1>11
<1>13. ASSUME NEW c \in MayUse(authed[i], forMods), toSend[i] # NoCommand, c >= toSend[i]
       PROVE  \/ line[N] # NoCommand /\ c >= line[N]
              \/ \E n \in 0 .. N - 1 : c = line[n]
  <2>. DEFINE Comes(n) == line[n] # NoCommand /\ c >= line[n]
              Came(n) == \E k \in 0 .. n - 1 : c = line[k]
              T == {n \in 0 .. N : Comes(n) \/ Came(n)}
  <2>1. 0 \in T
    BY <1>1, <1>10, <1>13
  <2>2. ASSUME NEW n \in 1 .. N, n - 1 \in T
        PROVE  n \in T
    <3>1. n \in 0 .. N /\ n - 1 \in 0 .. N /\ n - 1 \in 0 .. n - 1 /\ 0 .. n - 1 - 1 \subseteq 0 .. n - 1
      BY <1>1
    <3>2. CASE Came(n - 1)
      BY <3>1, <3>2
    <3>3. CASE Comes(n - 1) /\ c = line[n - 1]
      BY <3>1, <3>3
    <3>4. CASE Comes(n - 1) /\ c # line[n - 1]
      <4>1. line[n - 1] \in RconCommands /\ c \in RconCommands
        BY <1>0, <1>11, <3>1, <3>4 DEF S, MayUse, RconInv, RconTypes
      <4>5. line[n - 1] \in Nat /\ c \in Nat
        BY <4>1, CommandNumbers
      <4>2. line[n - 1] \in Nat /\ c \in Nat /\ c > line[n - 1]
        BY <3>4, <4>5
      <4>3. line[n] # NoCommand /\ line[n] <= c
        BY <1>2, <1>10, <1>11, <3>1, <3>4, <4>2
      <4>4. line[n] \in Nat
        BY <1>11, <3>1, <4>3, CommandNumbers DEF S
      <4>. QED  BY <3>1, <4>2, <4>3, <4>4
    <3>. QED  BY <2>2, <3>2, <3>3, <3>4
  <2>3. \A n \in 0 .. N : n \in T
    <3>. HIDE DEF T
    <3>. QED  BY <1>1, <2>1, <2>2, NumbersUpTo
  <2>4. N \in 0 .. N
    BY <1>1
  <2>. QED  BY <2>3, <2>4
<1>. QED  BY <1>9, <1>12, <1>13 DEF N, S

\* A command is put where it belongs (CConsole::AddCommandSorted).
LEMMA RegisterKeeps == ASSUME RconInv, NEW c \in RconCommands, Register(c) PROVE RconInv'
<1>. DEFINE n == Len(list)
            after == {k \in DOMAIN list : c <= list[k]}
<1>1. n \in Nat /\ DOMAIN list = 1 .. n /\ list \in Seq(RconCommands)
  BY DEF RconInv, RconTypes
<1>2. \A k \in 1 .. n : list[k] \in RconCommands /\ list[k] # c
  BY <1>1 DEF Register, Range
<1>3. c \in Nat /\ \A k \in 1 .. n : list[k] \in Nat
  BY <1>2, CommandNumbers
<1>4. ~running /\ list' = AddCommandSorted(c) /\ running' = (Range(list) \union {c} = RconCommands)
      /\ UNCHANGED <<forMods, authed, tries, toSend, next, told, wanted>>
  BY DEF Register
<1>5. PICK p \in 1 .. n + 1 :
        /\ Len(list') = n + 1
        /\ \A k \in 1 .. n + 1 : list'[k] = IF k < p THEN list[k] ELSE IF k = p THEN c ELSE list[k - 1]
        /\ list' \in Seq(RconCommands)
        /\ \A k \in 1 .. n : IF k < p THEN list[k] < c ELSE c < list[k]
  <2>1. CASE list = <<>>
    <3>1. n = 0 /\ list' = <<c>>
      BY <1>4, <2>1 DEF AddCommandSorted
    <3>. HIDE DEF n
    <3>2. Len(<<c>>) = 1 /\ <<c>>[1] = c /\ <<c>> \in Seq(RconCommands)
      OBVIOUS
    <3>. QED  BY <3>1, <3>2
  <2>2. CASE list # <<>> /\ c <= list[1]
    <3>1. n > 1
      <4>1. n # 0
        BY <1>1, <2>2
      <4>2. n # 1
        BY <1>3, <2>2 DEF Register
      <4>. QED  BY <1>1, <4>1, <4>2
    <3>2. list' = <<c>> \o list
      BY <1>4, <2>2, <3>1 DEF AddCommandSorted
    <3>3. \A k \in 1 .. n : k = 1 \/ list[1] < list[k]
      BY <1>1, <3>1 DEF RconInv, ListSorted
    <3>4. \A k \in 1 .. n : c < list[k]
      BY <1>1, <1>2, <1>3, <2>2, <3>1, <3>3
    <3>5. /\ Len(list') = n + 1 /\ list' \in Seq(RconCommands)
          /\ \A k \in 1 .. n + 1 : list'[k] = IF k = 1 THEN c ELSE list[k - 1]
      BY <1>1, <3>2
    <3>6. 1 \in 1 .. n + 1 /\ \A k \in 1 .. n + 1 : ~(k < 1)
      BY <1>1
    <3>. QED  BY <3>4, <3>5, <3>6
  <2>3. CASE list # <<>> /\ ~(c <= list[1]) /\ after = {}
    <3>1. list' = Append(list, c)
      BY <1>4, <2>3 DEF AddCommandSorted
    <3>2. \A k \in 1 .. n : list[k] < c
      BY <1>1, <1>3, <2>3
    <3>3. /\ Len(list') = n + 1 /\ list' \in Seq(RconCommands)
          /\ \A k \in 1 .. n + 1 : list'[k] = IF k < n + 1 THEN list[k] ELSE c
      BY <1>1, <3>1
    <3>4. n + 1 \in 1 .. n + 1 /\ \A k \in 1 .. n : k < n + 1
      BY <1>1
    <3>5. \A k \in 1 .. n + 1 : k < n + 1 \/ k = n + 1
      BY <1>1
    <3>. HIDE DEF n, after
    <3>. QED  BY <3>2, <3>3, <3>4, <3>5
  <2>4. CASE list # <<>> /\ ~(c <= list[1]) /\ after # {}
    <3>1. after \subseteq Nat /\ after \subseteq 1 .. n
      BY <1>1
    <3>2. PICK p \in after : /\ \A m \in after : p <= m
                             /\ p = CHOOSE k \in after : \A m \in after : k <= m
      <4>. HIDE DEF after
      <4>1. \E k \in after : \A m \in after : k <= m
        BY <2>4, <3>1, SmallestNumber
      <4>. QED  BY <4>1
    <3>3. list' = InsertAt(list, p, c)
      BY <1>4, <2>4, <3>2 DEF AddCommandSorted
    <3>4. list' = SubSeq(list, 1, p - 1) \o <<c>> \o SubSeq(list, p, n)
      BY <3>3 DEF InsertAt
    <3>5. p \in 1 .. n /\ c <= list[p]
      BY <3>1
    <3>6. ASSUME NEW k \in 1 .. n PROVE IF k < p THEN list[k] < c ELSE c < list[k]
      <4>1. CASE k < p
        <5>1. k \notin after
          BY <1>1, <3>2, <3>5, <4>1
        <5>. QED  BY <1>1, <1>3, <4>1, <5>1
      <4>2. CASE ~(k < p)
        <5>1. k = p \/ list[p] < list[k]
          BY <1>1, <3>5, <4>2 DEF RconInv, ListSorted
        <5>2. list[k] # c /\ list[k] \in Nat /\ list[p] \in Nat
          BY <1>2, <1>3, <3>5
        <5>. QED  BY <1>3, <3>5, <4>2, <5>1, <5>2
      <4>. QED  BY <4>1, <4>2
    <3>. DEFINE a == SubSeq(list, 1, p - 1)
                b == SubSeq(list, p, n)
    <3>7. /\ a \in Seq(RconCommands) /\ Len(a) = p - 1
          /\ \A k \in 1 .. p - 1 : a[k] = list[k]
      BY <1>1, <3>5
    <3>8. /\ b \in Seq(RconCommands) /\ Len(b) = n - p + 1
          /\ \A k \in 1 .. n - p + 1 : b[k] = list[p + k - 1]
      BY <1>1, <3>5
    <3>. HIDE DEF a, b
    <3>. DEFINE d == a \o <<c>>
    <3>9. /\ d \in Seq(RconCommands) /\ Len(d) = p
          /\ \A k \in 1 .. p : d[k] = IF k < p THEN list[k] ELSE c
      BY <3>5, <3>7
    <3>. HIDE DEF d
    <3>10. list' = d \o b
      BY <3>4 DEF a, b, d
    <3>. HIDE DEF n
    <3>11. /\ list' \in Seq(RconCommands) /\ Len(list') = n + 1
           /\ \A k \in 1 .. n + 1 : list'[k] = IF k <= p THEN d[k] ELSE b[k - p]
      BY <1>1, <3>5, <3>8, <3>9, <3>10
    <3>12. \A k \in 1 .. n + 1 :
             list'[k] = IF k < p THEN list[k] ELSE IF k = p THEN c ELSE list[k - 1]
      <4>1. \A k \in 1 .. n + 1 : k > p => k - p \in 1 .. n - p + 1 /\ p + (k - p) - 1 = k - 1
        BY <1>1, <3>5
      <4>2. \A k \in 1 .. n + 1 : k <= p => k \in 1 .. p
        BY <3>5
      <4>3. ASSUME NEW k \in 1 .. n + 1, k <= p
            PROVE  list'[k] = IF k < p THEN list[k] ELSE c
        BY <3>9, <3>11, <4>2, <4>3
      <4>4. ASSUME NEW k \in 1 .. n + 1, k > p
            PROVE  list'[k] = list[k - 1]
        <5>1. ~(k <= p) /\ k - p \in 1 .. n - p + 1 /\ p + (k - p) - 1 = k - 1
          BY <3>5, <4>1, <4>4
        <5>2. list'[k] = b[k - p]
          BY <3>11, <5>1
        <5>3. b[k - p] = list[p + (k - p) - 1]
          BY <3>8, <5>1
        <5>. QED  BY <5>1, <5>2, <5>3
      <4>5. \A k \in 1 .. n + 1 : (k < p => k <= p) /\ (k = p => k <= p /\ ~(k < p))
                                  /\ (~(k < p) /\ k # p => k > p)
        BY <3>5
      <4>. QED  BY <4>3, <4>4, <4>5
    <3>13. p \in 1 .. n + 1
      BY <1>1, <3>5
    <3>. QED  BY <3>6, <3>11, <3>12, <3>13
  <2>. QED  BY <2>1, <2>2, <2>3, <2>4
<1>. HIDE DEF n, after
<1>6. DOMAIN list' = 1 .. n + 1
  BY <1>1, <1>5
<1>7. ListSorted'
  <2>. SUFFICES ASSUME NEW k \in 1 .. n + 1, NEW m \in 1 .. n + 1, k < m
                PROVE  list'[k] < list'[m]
    BY <1>6 DEF ListSorted
  <2>1. \A i, j \in 1 .. n : i < j => list[i] < list[j]
    BY <1>1 DEF RconInv, ListSorted
  <2>2. CASE m < p
    BY <1>1, <1>5, <2>1, <2>2
  <2>3. CASE m = p
    BY <1>1, <1>5, <2>3
  <2>4. CASE m > p /\ k < p
    <3>1. m - 1 \in 1 .. n /\ k \in 1 .. n /\ k < m - 1 /\ ~(m < p) /\ m # p
      BY <1>1, <1>5, <2>4
    <3>. QED  BY <1>5, <2>1, <2>4, <3>1
  <2>5. CASE m > p /\ k = p
    <3>1. m - 1 \in 1 .. n /\ ~(m - 1 < p) /\ ~(m < p) /\ m # p
      BY <1>1, <1>5, <2>5
    <3>. QED  BY <1>5, <2>5, <3>1
  <2>6. CASE m > p /\ k > p
    <3>1. /\ m - 1 \in 1 .. n /\ k - 1 \in 1 .. n /\ k - 1 < m - 1
          /\ ~(m < p) /\ m # p /\ ~(k < p) /\ k # p
      BY <1>1, <1>5, <2>6
    <3>. QED  BY <1>5, <2>1, <2>6, <3>1
  <2>. QED  BY <1>1, <1>5, <2>2, <2>3, <2>4, <2>5, <2>6
<1>8. Range(list') = Range(list) \union {c}
  <2>1. ASSUME NEW k \in 1 .. n PROVE list[k] \in Range(list')
    <3>1. CASE k < p
      <4>1. k \in 1 .. n + 1 /\ list'[k] = list[k]
        BY <1>1, <1>5, <3>1
      <4>. QED  BY <1>6, <4>1 DEF Range
    <3>2. CASE ~(k < p)
      <4>1. k + 1 \in 1 .. n + 1 /\ ~(k + 1 < p) /\ k + 1 # p /\ k + 1 - 1 = k
        BY <1>1, <1>5, <3>2
      <4>2. list'[k + 1] = list[k]
        BY <1>5, <4>1
      <4>. QED  BY <1>6, <4>1, <4>2 DEF Range
    <3>. QED  BY <3>1, <3>2
  <2>2. c \in Range(list')
    <3>1. list'[p] = c
      BY <1>1, <1>5
    <3>. QED  BY <1>6, <3>1 DEF Range
  <2>3. ASSUME NEW k \in 1 .. n + 1 PROVE list'[k] \in Range(list) \union {c}
    <3>1. k < p => k \in 1 .. n
      BY <1>1, <1>5
    <3>2. ~(k < p) /\ k # p => k - 1 \in 1 .. n
      BY <1>1, <1>5
    <3>. QED  BY <1>1, <1>5, <3>1, <3>2 DEF Range
  <2>. QED  BY <1>1, <1>6, <2>1, <2>2, <2>3 DEF Range
<1>9. RconTypes'
  BY <1>4, <1>5 DEF RconInv, RconTypes
<1>10. ListWhole'
  BY <1>4, <1>8 DEF RconInv, ListWhole
<1>11. RconListComplete'
  BY <1>4 DEF RconInv, ListWhole, RconListComplete
<1>. QED  BY <1>7, <1>9, <1>10, <1>11 DEF RconInv

\* Who logs in is told from the first command on.
LEMMA AuthKeeps ==
  ASSUME RconInv, NEW i \in Clients, NEW level \in {"mod", "admin"}, NEW ask \in BOOLEAN,
         RconAuth(i, level, ask)
  PROVE  RconInv'
<1>1. FirstCommandInfo(level) \in RconCommands \union {NoCommand}
  BY FirstIsFirst DEF RconInv, FirstCommandInfo
<1>2. RconTypes'
  BY <1>1 DEF RconAuth, RconInv, RconTypes
<1>3. ListSorted' /\ ListWhole'
  BY DEF RconAuth, RconInv, RconTypes, ListSorted, ListWhole
<1>4. ASSUME ask, NEW c \in MayUse(level, forMods)
      PROVE  FirstCommandInfo(level) # NoCommand /\ c >= FirstCommandInfo(level)
  <2>1. c \in Range(list) /\ DOMAIN list = 1 .. Len(list)
    BY DEF MayUse, RconAuth, RconInv, RconTypes, ListWhole
  <2>2. PICK m \in 1 .. Len(list) : list[m] = c
    BY <2>1 DEF Range
  <2>3. /\ FirstCommandInfo(level) # NoCommand /\ FirstCommandInfo(level) <= c
    BY <1>4, <2>2, FirstIsFirst DEF RconInv, FirstCommandInfo
  <2>4. c \in Nat /\ FirstCommandInfo(level) \in Nat
    BY <1>1, <2>1, <2>3, CommandNumbers DEF RconInv, RconTypes, ListWhole, RconAuth
  <2>. QED  BY <2>3, <2>4
<1>5. RconListComplete'
  <2>. SUFFICES ASSUME NEW j \in Clients, authed'[j] # "no", wanted'[j],
                       NEW c \in MayUse(authed'[j], forMods)
                PROVE  (toSend'[j] # NoCommand /\ c >= toSend'[j]) \/ c \in told[j]
    BY DEF RconListComplete, IsAhead, RconAuth
  <2>1. CASE j = i
    <3>1. authed'[j] = level /\ ask /\ toSend'[j] = FirstCommandInfo(level)
      BY <2>1 DEF RconAuth, RconInv, RconTypes
    <3>. QED  BY <1>4, <3>1
  <2>2. CASE j # i
    <3>1. authed'[j] = authed[j] /\ wanted'[j] = wanted[j] /\ toSend'[j] = toSend[j]
      BY <2>2 DEF RconAuth, RconInv, RconTypes
    <3>. QED  BY <3>1 DEF RconInv, RconListComplete, IsAhead
  <2>. QED  BY <2>1, <2>2
<1>. QED  BY <1>2, <1>3, <1>5 DEF RconInv

LEMMA GoneKeeps ==
  ASSUME RconInv, NEW i \in Clients, NEW n \in Int, Gone(i, n)
  PROVE  RconInv'
<1>1. RconTypes'
  BY DEF Gone, RconInv, RconTypes
<1>2. ListSorted' /\ ListWhole'
  BY DEF Gone, RconInv, RconTypes, ListSorted, ListWhole
<1>3. RconListComplete'
  <2>. SUFFICES ASSUME NEW j \in Clients, authed'[j] # "no", wanted'[j],
                       NEW c \in MayUse(authed'[j], forMods)
                PROVE  (toSend'[j] # NoCommand /\ c >= toSend'[j]) \/ c \in told'[j]
    BY DEF RconListComplete, IsAhead, Gone
  <2>1. j # i
    BY DEF Gone, RconInv, RconTypes
  <2>2. authed'[j] = authed[j] /\ wanted'[j] = wanted[j] /\ toSend'[j] = toSend[j] /\ told'[j] = told[j]
    BY <2>1 DEF Gone, RconInv, RconTypes
  <2>. QED  BY <2>2 DEF RconInv, RconListComplete, IsAhead
<1>. QED  BY <1>1, <1>2, <1>3 DEF RconInv

\* What moderators may use changes: those past the command are told.
LEMMA ModAccessKeeps ==
  ASSUME RconInv, running, NEW c \in RconCommands, NEW given \in BOOLEAN,
         ModCommandAccess(c, given)
  PROVE  RconInv'
<1>. DEFINE informed == {i \in Clients : authed[i] = "mod" /\ ~IsAhead(i, c)}
<1>1. /\ forMods' = IF given THEN forMods \union {c} ELSE forMods \ {c}
      /\ told' = IF forMods' = forMods THEN told
                 ELSE [i \in Clients |-> IF i \notin informed THEN told[i]
                                         ELSE IF given THEN told[i] \union {c}
                                         ELSE told[i] \ {c}]
      /\ UNCHANGED <<list, running, authed, tries, toSend, next, wanted>>
  BY DEF ModCommandAccess
<1>2. told' \in [Clients -> SUBSET RconCommands]
  BY <1>1 DEF RconInv, RconTypes
<1>3. RconTypes'
  BY <1>1, <1>2 DEF RconInv, RconTypes
<1>4. ListSorted' /\ ListWhole'
  BY <1>1 DEF RconInv, ListSorted, ListWhole
<1>5. RconListComplete'
  <2>. SUFFICES ASSUME NEW i \in Clients, authed[i] # "no", wanted[i],
                       NEW d \in MayUse(authed[i], forMods')
                PROVE  IsAhead(i, d) \/ d \in told'[i]
    BY <1>1 DEF RconListComplete, IsAhead
  <2>1. CASE forMods' = forMods
    BY <1>1, <2>1 DEF RconInv, RconListComplete
  <2>2. CASE forMods' # forMods
    <3>1. told'[i] = IF i \notin informed THEN told[i]
                     ELSE IF given THEN told[i] \union {c} ELSE told[i] \ {c}
      BY <1>1, <2>2
    <3>2. CASE d \in MayUse(authed[i], forMods) /\ d # c
      BY <3>1, <3>2 DEF RconInv, RconListComplete
    <3>3. CASE authed[i] = "admin"
      <4>1. i \notin informed /\ d \in MayUse(authed[i], forMods)
        BY <3>3 DEF MayUse
      <4>. QED  BY <3>1, <4>1 DEF RconInv, RconListComplete
    <3>4. CASE authed[i] = "mod" /\ d = c
      <4>1. given
        BY <1>1, <3>4 DEF MayUse
      <4>2. i \in informed \/ IsAhead(i, c)
        BY <3>4
      <4>. QED  BY <3>1, <3>4, <4>1, <4>2
    <3>5. authed[i] = "mod" \/ authed[i] = "admin"
      BY DEF RconInv, RconTypes
    <3>6. authed[i] = "mod" => d \in MayUse(authed[i], forMods) \/ d = c
      BY <1>1 DEF MayUse
    <3>. QED  BY <3>2, <3>3, <3>4, <3>5, <3>6
  <2>. QED  BY <2>1, <2>2
<1>. QED  BY <1>3, <1>4, <1>5 DEF RconInv

LEMMA UpdateKeeps == ASSUME RconInv, UpdateClientRconCommands PROVE RconInv'
<1>. DEFINE line == Upcoming(next)
            now == {line[n] : n \in 0 .. MaxSend - 1} \ {NoCommand}
<1>1. /\ running
      /\ next' = (next + 1) % Cardinality(Clients)
      /\ UNCHANGED <<list, running, forMods, authed, tries, wanted>>
      /\ \/ UNCHANGED <<toSend, told>>
         \/ /\ told' = [told EXCEPT ![next] = told[next] \union now]
            /\ toSend' = [toSend EXCEPT ![next] = line[MaxSend]]
  BY DEF UpdateClientRconCommands
<1>2. next' \in Clients
  <2>1. IsFiniteSet(Clients) /\ Clients # {} /\ Clients = 0 .. Cardinality(Clients) - 1
    BY RconAssumption
  <2>. DEFINE m == Cardinality(Clients)
  <2>2. m \in Nat
    BY <2>1, FS_CardinalityType
  <2>3. Clients = 0 .. m - 1 /\ m # 0 /\ next \in 0 .. m - 1 /\ next' = (next + 1) % m
    <3>1. m # 0
      BY <2>1, FS_EmptySet
    <3>2. next \in Clients /\ next' = (next + 1) % m
      BY <1>1 DEF RconInv, RconTypes
    <3>. HIDE DEF m
    <3>3. Clients = 0 .. m - 1
      BY <2>1 DEF m
    <3>. QED  BY <3>1, <3>2, <3>3
  <2>. HIDE DEF m
  <2>4. (next + 1) % m \in 0 .. m - 1
    BY <2>2, <2>3
  <2>. QED  BY <2>3, <2>4
<1>3. /\ next \in Clients
      /\ line \in [0 .. MaxSend -> RconCommands \union {NoCommand}]
      /\ \A c \in MayUse(authed[next], forMods) :
           toSend[next] # NoCommand /\ c >= toSend[next] =>
             \/ line[MaxSend] # NoCommand /\ c >= line[MaxSend]
             \/ \E n \in 0 .. MaxSend - 1 : c = line[n]
  BY <1>1, UpcomingIsAll DEF RconInv, RconTypes, ListWhole
<1>. HIDE DEF line
<1>4. now \subseteq RconCommands /\ line[MaxSend] \in RconCommands \union {NoCommand}
  BY <1>3, CommandNumbers
<1>5. RconTypes'
  BY <1>1, <1>2, <1>4 DEF RconInv, RconTypes
<1>6. ListSorted' /\ ListWhole'
  BY <1>1 DEF RconInv, ListSorted, ListWhole
<1>7. RconListComplete'
  <2>. SUFFICES ASSUME NEW i \in Clients, authed[i] # "no", wanted[i],
                       NEW c \in MayUse(authed[i], forMods)
                PROVE  (toSend'[i] # NoCommand /\ c >= toSend'[i]) \/ c \in told'[i]
    BY <1>1 DEF RconListComplete, IsAhead
  <2>1. (toSend[i] # NoCommand /\ c >= toSend[i]) \/ c \in told[i]
    BY DEF RconInv, RconListComplete, IsAhead
  <2>2. CASE UNCHANGED <<toSend, told>>
    BY <2>1, <2>2
  <2>3. CASE i # next /\ toSend'[i] = toSend[i] /\ told'[i] = told[i]
    BY <2>1, <2>3
  <2>4. CASE i = next /\ toSend'[i] = line[MaxSend] /\ told'[i] = told[i] \union now
    <3>1. c # NoCommand
      BY CommandNumbers DEF MayUse, RconInv, RconTypes
    <3>. QED  BY <1>3, <2>1, <2>4, <3>1
  <2>5. \/ UNCHANGED <<toSend, told>>
        \/ i # next /\ toSend'[i] = toSend[i] /\ told'[i] = told[i]
        \/ i = next /\ toSend'[i] = line[MaxSend] /\ told'[i] = told[i] \union now
    <3>1. toSend \in [Clients -> RconCommands \union {NoCommand}]
          /\ told \in [Clients -> SUBSET RconCommands]
      BY DEF RconInv, RconTypes
    <3>2. CASE /\ told' = [told EXCEPT ![next] = told[next] \union now]
               /\ toSend' = [toSend EXCEPT ![next] = line[MaxSend]]
      <4>. HIDE DEF now
      <4>1. i = next \/ i # next
        OBVIOUS
      <4>. QED  BY <1>3, <3>1, <3>2, <4>1
    <3>. QED  BY <1>1, <3>2
  <2>. QED  BY <2>2, <2>3, <2>4, <2>5
<1>. QED  BY <1>5, <1>6, <1>7 DEF RconInv

LEMMA RconInvariance == RconSpec => []RconInv
<1>1. RconInit => RconInv
  <2>. SUFFICES ASSUME RconInit PROVE RconInv
    OBVIOUS
  <2>1. RconTypes
    <3>1. running \in BOOLEAN /\ forMods \subseteq RconCommands
      BY DEF RconInit
    <3>6. list \in Seq(RconCommands)
      BY DEF RconInit
    <3>2. authed \in [Clients -> {"no", "mod", "admin"}] /\ tries \in [Clients -> Int]
      BY DEF RconInit
    <3>3. toSend \in [Clients -> RconCommands \union {NoCommand}] /\ next \in Clients
      BY DEF RconInit
    <3>4. told \in [Clients -> SUBSET RconCommands]
      BY DEF RconInit
    <3>5. wanted \in [Clients -> BOOLEAN]
      BY DEF RconInit
    <3>. QED  BY <3>1, <3>2, <3>3, <3>4, <3>5, <3>6 DEF RconTypes
  <2>. QED  BY <2>1 DEF RconInit, RconInv, ListSorted, ListWhole, RconListComplete
<1>2. RconInv /\ [RconNext]_rconVars => RconInv'
  <2>. SUFFICES ASSUME RconInv, [RconNext]_rconVars PROVE RconInv'
    OBVIOUS
  <2>1. ASSUME NEW c \in RconCommands, NEW given \in BOOLEAN,
               SetModAccess(c, given) \/ \E i \in Clients : ClientSetsModAccess(i, c, given)
        PROVE  RconInv'
    BY <2>1, ModAccessKeeps DEF SetModAccess, ClientSetsModAccess, Executes
  <2>2. ASSUME NEW i \in Clients, Logout(i) \/ RconDrop(i) \/ Rejoin(i) PROVE RconInv'
    <3>1. tries[i] \in Int /\ 0 \in Int
      BY DEF RconInv, RconTypes
    <3>2. PICK n \in Int : Gone(i, n)
      BY <2>2, <3>1 DEF Logout, RconDrop, Rejoin
    <3>. QED  BY <3>2, GoneKeeps
  <2>3. ASSUME NEW i \in Clients, RconWrongPassword(i) PROVE RconInv'
    <3>1. CASE Gone(i, 0)
      BY <3>1, GoneKeeps
    <3>2. CASE /\ tries' = [tries EXCEPT ![i] = @ + 1]
               /\ UNCHANGED <<list, running, forMods, authed, toSend, next, told, wanted>>
      BY <3>2 DEF RconInv, RconTypes, ListSorted, ListWhole, RconListComplete, IsAhead
    <3>. QED  BY <2>3, <3>1, <3>2 DEF RconWrongPassword
  <2>4. CASE UNCHANGED rconVars
    BY <2>4 DEF rconVars, RconInv, RconTypes, ListSorted, ListWhole, RconListComplete, IsAhead
  <2>. QED
    BY <2>1, <2>2, <2>3, <2>4, RegisterKeeps, AuthKeeps, UpdateKeeps DEF RconNext
<1>. QED  BY <1>1, <1>2, PTL DEF RconSpec

-----------------------------------------------------------------------------
(* The external console.                                                    *)

Texts == [ended : Seq(Seq(Characters)), open : Seq(Characters)]

LEMMA PrefixOf ==
  ASSUME NEW S, NEW a \in Seq(S), NEW b \in Seq(S), Len(a) <= Len(b),
         \A i \in 1 .. Len(a) : a[i] = b[i]
  PROVE  IsPrefix(a, b)
<1>. DEFINE n == Len(a)
<1>1. n \in Nat /\ n <= Len(b) /\ Len(b) \in Nat /\ \A i \in 1 .. n : a[i] = b[i]
  OBVIOUS
<1>2. \A i \in 1 .. n : b[i] \in S
  BY <1>1
<1>3. SubSeq(a, 1, n) = a
  BY SubSeqFull
<1>. HIDE DEF n
<1>4. /\ SubSeq(b, 1, n) \in Seq(S)
      /\ Len(SubSeq(b, 1, n)) = IF 1 <= n THEN n - 1 + 1 ELSE 0
      /\ \A i \in 1 .. n - 1 + 1 : SubSeq(b, 1, n)[i] = b[1 + i - 1]
  BY <1>1, <1>2, SubSeqProperties
<1>5. Len(SubSeq(b, 1, n)) = n /\ \A i \in 1 .. n : SubSeq(b, 1, n)[i] = b[i]
  BY <1>1, <1>4
<1>6. SubSeq(b, 1, n) = a
  <2>. DEFINE t == SubSeq(b, 1, n)
  <2>1. t \in Seq(S) /\ Len(t) = Len(a) /\ \A i \in 1 .. Len(t) : t[i] = a[i]
    BY <1>1, <1>4, <1>5 DEF n
  <2>. HIDE DEF t
  <2>2. t = a
    BY <2>1, SeqEqual
  <2>. QED  BY <2>2 DEF t
<1>. QED  BY <1>1, <1>3, <1>6 DEF IsPrefix, n

\* What a text is up to a character (CNetConsole, CEcon: the lines that are typed).
LEMMA LinesStep ==
  ASSUME NEW text \in Seq(Characters)
  PROVE  /\ LinesUpTo(text)[0] = NoText
         /\ \A n \in 1 .. Len(text) : LinesUpTo(text)[n] = After(LinesUpTo(text)[n - 1], text[n])
         /\ \A n \in 0 .. Len(text) : LinesUpTo(text)[n] \in Texts
<1>. DEFINE N == Len(text)
            S == Texts
            step == [n \in 1 .. N |-> [x \in S |-> After(x, text[n])]]
            Loop(f) == f = [n \in 0 .. N |-> IF n = 0 THEN NoText ELSE After(f[n - 1], text[n])]
<1>1. N \in Nat /\ NoText \in S /\ \A n \in 1 .. N : text[n] \in Characters
  BY DEF NoText, Texts
<1>2. ASSUME NEW x \in S, NEW c \in Characters PROVE After(x, c) \in S
  <2>1. x.ended \in Seq(Seq(Characters)) /\ x.open \in Seq(Characters)
    BY DEF Texts
  <2>2. Append(x.open, c) \in Seq(Characters) /\ Append(x.ended, x.open) \in Seq(Seq(Characters))
    BY <2>1
  <2>3. <<>> \in Seq(Characters)
    OBVIOUS
  <2>. QED  BY <2>1, <2>2, <2>3 DEF After, Texts
<1>. HIDE DEF N, S
<1>3. step \in Turns(N, S)
  BY <1>1, <1>2 DEF Turns
<1>4. PICK g \in [0 .. N -> S] : Runs(g, NoText, step, N)
  <2>. HIDE DEF step
  <2>. QED  BY <1>1, <1>3, RunExists
<1>5. \A n \in 1 .. N : n - 1 \in 0 .. N /\ n \in 0 .. N /\ n # 0
  BY <1>1
<1>6. g[0] = NoText /\ \A n \in 1 .. N : g[n] = After(g[n - 1], text[n])
  BY <1>4, <1>5 DEF Runs
<1>7. Loop(g)
  <2>1. \A n \in 0 .. N : n = 0 \/ n \in 1 .. N
    BY <1>1
  <2>2. \A n \in 0 .. N : g[n] = IF n = 0 THEN NoText ELSE After(g[n - 1], text[n])
    BY <1>6, <2>1
  <2>. QED  BY <2>2
<1>8. LinesUpTo(text) = CHOOSE f : Loop(f)
  BY DEF LinesUpTo, N
<1>9. PICK f : f = LinesUpTo(text) /\ Loop(f)
  <2>. HIDE DEF Loop
  <2>. QED  BY <1>7, <1>8
<1>10. f[0] = NoText /\ \A n \in 1 .. N : f[n] = After(f[n - 1], text[n])
  <2>1. 0 \in 0 .. N
    BY <1>1
  <2>. QED  BY <1>5, <1>9, <2>1
<1>11. \A n \in 0 .. N : f[n] \in S
  <2>. DEFINE T == {n \in 0 .. N : f[n] \in S}
  <2>1. 0 \in T
    BY <1>1, <1>10
  <2>2. \A n \in 1 .. N : n - 1 \in T => n \in T
    BY <1>1, <1>2, <1>5, <1>10
  <2>3. \A n \in 0 .. N : n \in T
    <3>. HIDE DEF T
    <3>. QED  BY <1>1, <2>1, <2>2, NumbersUpTo
  <2>. QED  BY <2>3
<1>. QED  BY <1>9, <1>10, <1>11 DEF N, S

\* Lines that have ended stay.
LEMMA EndedStay ==
  ASSUME NEW text \in Seq(Characters), NEW m \in 0 .. Len(text), NEW n \in m .. Len(text)
  PROVE  IsPrefix(LinesUpTo(text)[m].ended, LinesUpTo(text)[n].ended)
<1>. DEFINE f == LinesUpTo(text)
            N == Len(text)
            Longer(k) == /\ Len(f[m].ended) <= Len(f[k].ended)
                         /\ \A i \in 1 .. Len(f[m].ended) : f[m].ended[i] = f[k].ended[i]
            T == {k \in 0 .. N : k < m \/ Longer(k)}
<1>1. N \in Nat /\ m \in 0 .. N /\ n \in 0 .. N /\ ~(n < m)
  OBVIOUS
<1>2. \A k \in 0 .. N : f[k].ended \in Seq(Seq(Characters)) /\ f[k].open \in Seq(Characters)
  BY LinesStep DEF Texts
<1>3. Longer(m)
  OBVIOUS
<1>4. 0 \in T
  <2>1. 0 < m \/ m = 0
    BY <1>1
  <2>. QED  BY <1>1, <1>3, <2>1
<1>5. ASSUME NEW k \in 1 .. N, k - 1 \in T PROVE k \in T
  <2>1. k \in 0 .. N /\ k - 1 \in 0 .. N /\ (k < m \/ k = m \/ ~(k - 1 < m))
    BY <1>1
  <2>2. CASE ~(k - 1 < m)
    <3>1. Longer(k - 1)
      BY <1>5, <2>2
    <3>2. f[k] = After(f[k - 1], text[k])
      BY LinesStep
    <3>3. f[k].ended = f[k - 1].ended \/ f[k].ended = Append(f[k - 1].ended, f[k - 1].open)
      BY <3>2 DEF After
    <3>. DEFINE a == f[m].ended
                b == f[k - 1].ended
                c == f[k].ended
    <3>4. a \in Seq(Seq(Characters)) /\ b \in Seq(Seq(Characters)) /\ f[k - 1].open \in Seq(Characters)
      BY <1>1, <1>2, <2>1
    <3>5. Len(a) <= Len(b) /\ \A i \in 1 .. Len(a) : a[i] = b[i]
      BY <3>1
    <3>6. c = b \/ c = Append(b, f[k - 1].open)
      BY <3>3
    <3>. HIDE DEF a, b, c
    <3>7. Len(a) <= Len(c) /\ \A i \in 1 .. Len(a) : a[i] = c[i]
      <4>1. CASE c = b
        BY <3>5, <4>1
      <4>2. CASE c = Append(b, f[k - 1].open)
        <5>1. Len(c) = Len(b) + 1 /\ \A i \in 1 .. Len(b) : c[i] = b[i]
          BY <3>4, <4>2, AppendProperties
        <5>2. Len(a) \in Nat /\ Len(b) \in Nat
          BY <3>4
        <5>. QED  BY <3>5, <5>1, <5>2
      <4>. QED  BY <3>6, <4>1, <4>2
    <3>8. Longer(k)
      BY <3>7 DEF a, c
    <3>. QED  BY <2>1, <3>8
  <2>. QED  BY <1>3, <2>1, <2>2
<1>6. \A k \in 0 .. N : k \in T
  <2>. HIDE DEF T, N
  <2>. QED  BY <1>1, <1>4, <1>5, NumbersUpTo
<1>7. Longer(n)
  BY <1>1, <1>6
<1>. DEFINE a == f[m].ended
            b == f[n].ended
<1>8. a \in Seq(Seq(Characters)) /\ b \in Seq(Seq(Characters))
  BY <1>1, <1>2
<1>9. Len(a) <= Len(b) /\ \A i \in 1 .. Len(a) : a[i] = b[i]
  BY <1>7
<1>. HIDE DEF a, b
<1>10. IsPrefix(a, b)
  BY <1>8, <1>9, PrefixOf
<1>. QED  BY <1>10 DEF a, b

\* What comes before a character does not depend on what comes after.
LEMMA LinesOfBeginning ==
  ASSUME NEW text \in Seq(Characters), NEW more \in Seq(Characters), Len(text) <= Len(more),
         \A n \in 1 .. Len(text) : more[n] = text[n]
  PROVE  \A n \in 0 .. Len(text) : LinesUpTo(more)[n] = LinesUpTo(text)[n]
<1>. DEFINE N == Len(text)
            T == {n \in 0 .. N : LinesUpTo(more)[n] = LinesUpTo(text)[n]}
<1>1. N \in Nat /\ \A n \in 1 .. N : n \in 1 .. Len(more) /\ n \in 0 .. N
  OBVIOUS
<1>2. 0 \in T
  BY <1>1, LinesStep
<1>3. ASSUME NEW n \in 1 .. N, n - 1 \in T PROVE n \in T
  BY <1>1, <1>3, LinesStep
<1>. HIDE DEF T, N
<1>4. \A n \in 0 .. N : n \in T
  BY <1>1, <1>2, <1>3, NumbersUpTo
<1>. QED  BY <1>4 DEF T, N

\* What was executed when the text was taken up to somewhere: an open line counts,
\* its end is left in the buffer.
Closed(x) == IF x.open = <<>> THEN x.ended ELSE Append(x.ended, x.open)

SyncAt(p, buffer, text, ex) ==
  /\ p >= 0
  /\ \A k \in 1 .. Len(buffer) : buffer[k] = text[p + k]
  /\ ex = Closed(LinesUpTo(text)[p])
  /\ LinesUpTo(text)[p].open # <<>> => buffer # <<>> /\ buffer[1] = "nl"

\* Ends of lines close the line that is open.
LEMMA EndsClose ==
  ASSUME NEW text \in Seq(Characters), NEW p \in 0 .. Len(text), NEW q \in p .. Len(text),
         \A k \in p + 1 .. q : text[k] = "nl"
  PROVE  q = p \/ LinesUpTo(text)[q] = [ended |-> Closed(LinesUpTo(text)[p]), open |-> <<>>]
<1>. DEFINE N == Len(text)
            f == LinesUpTo(text)
            all == [ended |-> Closed(f[p]), open |-> <<>>]
            T == {n \in 0 .. N : n <= p \/ q < n \/ f[n] = all}
<1>1. N \in Nat /\ p \in 0 .. N /\ q \in 0 .. N /\ p <= q
  OBVIOUS
<1>2. 0 \in T
  BY <1>1
<1>3. ASSUME NEW n \in 1 .. N, n - 1 \in T PROVE n \in T
  <2>1. n \in 0 .. N /\ n - 1 \in 0 .. N /\ (n <= p \/ q < n \/ n \in p + 1 .. q)
    BY <1>1
  <2>2. CASE n \in p + 1 .. q
    <3>1. f[n] = After(f[n - 1], text[n]) /\ text[n] = "nl"
      BY <2>2, LinesStep
    <3>2. n - 1 = p \/ f[n - 1] = all
      <4>1. n - 1 = p \/ ~(n - 1 <= p \/ q < n - 1)
        BY <1>1, <2>2
      <4>. QED  BY <1>3, <4>1
    <3>3. CASE n - 1 = p
      <4>1. f[n] = After(f[p], "nl")
        BY <3>1, <3>3
      <4>2. After(f[p], "nl") = all
        BY DEF After, Closed
      <4>. QED  BY <2>1, <4>1, <4>2
    <3>4. CASE f[n - 1] = all
      <4>1. f[n] = After(all, "nl")
        BY <3>1, <3>4
      <4>2. ASSUME NEW e PROVE After([ended |-> e, open |-> <<>>], "nl") = [ended |-> e, open |-> <<>>]
        BY DEF After
      <4>. QED  BY <2>1, <4>1, <4>2
    <3>. QED  BY <3>2, <3>3, <3>4
  <2>. QED  BY <2>1, <2>2
<1>. HIDE DEF T, N
<1>4. \A n \in 0 .. N : n \in T
  BY <1>1, <1>2, <1>3, NumbersUpTo
<1>5. q \in T /\ ~(q < q) /\ (q <= p => q = p)
  BY <1>1, <1>4
<1>. QED  BY <1>5 DEF T

\* What follows up to the next end is the line.
LEMMA LineOpens ==
  ASSUME NEW text \in Seq(Characters), NEW p \in 0 .. Len(text), NEW q \in p .. Len(text),
         LinesUpTo(text)[p].open = <<>>, \A k \in p + 1 .. q : text[k] # "nl"
  PROVE  LinesUpTo(text)[q] = [ended |-> LinesUpTo(text)[p].ended, open |-> SubSeq(text, p + 1, q)]
<1>. DEFINE N == Len(text)
            f == LinesUpTo(text)
            upTo(n) == [ended |-> f[p].ended, open |-> SubSeq(text, p + 1, n)]
            T == {n \in 0 .. N : n < p \/ q < n \/ f[n] = upTo(n)}
<1>1. N \in Nat /\ p \in 0 .. N /\ q \in 0 .. N /\ p <= q /\ p \in Nat
  OBVIOUS
<1>2. f[p] = upTo(p)
  <2>1. f[p] \in Texts
    BY <1>1, LinesStep
  <2>2. f[p] = [ended |-> f[p].ended, open |-> <<>>]
    BY <2>1 DEF Texts
  <2>3. SubSeq(text, p + 1, p) = <<>>
    <3>. DEFINE e == SubSeq(text, p + 1, p)
    <3>1. ~(p + 1 <= p) /\ p + 1 \in Int /\ p \in Int
      BY <1>1
    <3>2. e \in Seq(Characters) /\ Len(e) = 0
      <4>1. \A i \in p + 1 .. p : text[i] \in Characters
        BY <3>1
      <4>. QED  BY <3>1, <4>1, SubSeqProperties
    <3>. HIDE DEF e
    <3>3. e = <<>>
      BY <3>2, EmptySeq
    <3>. QED  BY <3>3 DEF e
  <2>. QED  BY <2>2, <2>3
<1>3. 0 \in T
  <2>1. 0 < p \/ p = 0
    BY <1>1
  <2>. QED  BY <1>1, <1>2, <2>1
<1>4. ASSUME NEW n \in 1 .. N, n - 1 \in T PROVE n \in T
  <2>1. n \in 0 .. N /\ n - 1 \in 0 .. N /\ (n < p \/ n = p \/ q < n \/ n \in p + 1 .. q)
    BY <1>1
  <2>2. CASE n \in p + 1 .. q
    <3>1. f[n] = After(f[n - 1], text[n]) /\ text[n] # "nl"
      BY <2>2, LinesStep
    <3>2. f[n - 1] = upTo(n - 1)
      <4>1. ~(n - 1 < p \/ q < n - 1)
        BY <1>1, <2>2
      <4>. QED  BY <1>4, <4>1
    <3>3. Append(SubSeq(text, p + 1, n - 1), text[n]) = SubSeq(text, p + 1, n)
      <4>. DEFINE a == SubSeq(text, p + 1, n - 1)
                  b == Append(a, text[n])
                  c == SubSeq(text, p + 1, n)
      <4>1. /\ p + 1 \in Int /\ n \in Int /\ n - 1 \in Int /\ p + 1 <= n
            /\ \A i \in p + 1 .. n : i \in 1 .. N
            /\ \A i \in p + 1 .. n - 1 : i \in 1 .. N
        BY <1>1, <2>2
      <4>2. /\ a \in Seq(Characters)
            /\ Len(a) = IF p + 1 <= n - 1 THEN n - 1 - (p + 1) + 1 ELSE 0
            /\ \A i \in 1 .. n - 1 - (p + 1) + 1 : a[i] = text[p + 1 + i - 1]
        <5>1. \A i \in p + 1 .. n - 1 : text[i] \in Characters
          BY <4>1
        <5>. QED  BY <4>1, <5>1, SubSeqProperties
      <4>3. /\ c \in Seq(Characters)
            /\ Len(c) = IF p + 1 <= n THEN n - (p + 1) + 1 ELSE 0
            /\ \A i \in 1 .. n - (p + 1) + 1 : c[i] = text[p + 1 + i - 1]
        <5>1. \A i \in p + 1 .. n : text[i] \in Characters
          BY <4>1
        <5>. QED  BY <4>1, <5>1, SubSeqProperties
      <4>4. text[n] \in Characters
        OBVIOUS
      <4>. HIDE DEF a, c
      <4>5. b \in Seq(Characters) /\ Len(b) = Len(a) + 1 /\ b[Len(a) + 1] = text[n]
            /\ \A i \in 1 .. Len(a) : b[i] = a[i]
        BY <4>2, <4>4, AppendProperties
      <4>. HIDE DEF b
      <4>6. Len(a) = n - p - 1 /\ Len(c) = n - p /\ n - p - 1 \in Nat
        BY <1>1, <2>2, <4>2, <4>3
      <4>7. \A i \in 1 .. n - p - 1 : b[i] = text[p + i] /\ c[i] = text[p + i]
        <5>1. \A i \in 1 .. n - p - 1 : /\ i \in 1 .. n - 1 - (p + 1) + 1
                                        /\ i \in 1 .. n - (p + 1) + 1
                                        /\ i \in 1 .. n - p - 1
                                        /\ p + 1 + i - 1 = p + i
          BY <1>1, <2>2
        <5>. QED  BY <4>2, <4>3, <4>5, <4>6, <5>1
      <4>8. b[n - p] = text[n] /\ c[n - p] = text[n]
        <5>1. n - p \in 1 .. n - (p + 1) + 1 /\ p + 1 + (n - p) - 1 = n /\ n - p = n - p - 1 + 1
          BY <1>1, <2>2
        <5>. QED  BY <4>3, <4>5, <4>6, <5>1
      <4>9. \A i \in 1 .. n - p : i \in 1 .. n - p - 1 \/ i = n - p
        BY <1>1, <2>2
      <4>10. Len(b) = n - p /\ \A i \in 1 .. n - p : b[i] = c[i]
        <5>1. Len(b) = n - p
          BY <1>1, <2>2, <4>5, <4>6
        <5>2. \A i \in 1 .. n - p : b[i] = c[i]
          BY <4>7, <4>8, <4>9
        <5>. QED  BY <5>1, <5>2
      <4>11. b = c
        BY <4>3, <4>5, <4>6, <4>10, SeqEqual
      <4>. QED  BY <4>11 DEF a, b, c
    <3>4. f[n] = upTo(n)
      <4>1. f[n] = After(upTo(n - 1), text[n])
        BY <3>1, <3>2
      <4>2. ASSUME NEW c, NEW e, NEW o, c # "nl"
            PROVE  After([ended |-> e, open |-> o], c) = [ended |-> e, open |-> Append(o, c)]
        BY <4>2 DEF After
      <4>3. After(upTo(n - 1), text[n]) = [ended |-> f[p].ended, open |-> Append(SubSeq(text, p + 1, n - 1), text[n])]
        BY <3>1, <4>2
      <4>. QED  BY <3>3, <4>1, <4>3
    <3>. QED  BY <2>1, <3>4
  <2>. QED  BY <1>2, <2>1, <2>2
<1>. HIDE DEF T, N
<1>5. \A n \in 0 .. N : n \in T
  BY <1>1, <1>3, <1>4, NumbersUpTo
<1>6. q \in T /\ ~(q < q) /\ ~(q < p)
  BY <1>1, <1>5
<1>. QED  BY <1>6 DEF T

\* Ends of lines before a message.
LEMMA Begins ==
  ASSUME NEW buffer \in Seq(Characters)
  PROVE  /\ Begin(buffer) \in 1 .. Len(buffer) + 1
         /\ \A j \in 1 .. Begin(buffer) - 1 : buffer[j] = "nl"
         /\ Begin(buffer) <= Len(buffer) => buffer[Begin(buffer)] # "nl"
<1>. DEFINE N == Len(buffer)
            P(i) == /\ \A j \in 1 .. i - 1 : buffer[j] = "nl"
                    /\ i <= N => buffer[i] # "nl"
            T == {i \in 1 .. N + 1 : i = N + 1 \/ buffer[i] # "nl"}
<1>1. N \in Nat /\ N + 1 \in 1 .. N + 1
  OBVIOUS
<1>2. PICK b \in T : \A i \in T : b <= i
  <2>1. T \in SUBSET Nat /\ T # {}
    BY <1>1
  <2>. HIDE DEF T
  <2>. QED  BY <2>1, SmallestNumber
<1>3. b \in 1 .. N + 1 /\ (b <= N => buffer[b] # "nl")
  BY <1>1
<1>4. \A j \in 1 .. b - 1 : buffer[j] = "nl"
  <2>1. \A j \in 1 .. b - 1 : j \in 1 .. N + 1 /\ j # N + 1 /\ ~(b <= j)
    BY <1>1, <1>3
  <2>. QED  BY <1>2, <2>1
<1>5. Begin(buffer) = CHOOSE i \in 1 .. N + 1 : P(i)
  BY DEF Begin
<1>6. P(b)
  BY <1>3, <1>4
<1>7. Begin(buffer) \in 1 .. N + 1 /\ P(Begin(buffer))
  <2>. HIDE DEF P, N
  <2>. QED  BY <1>3, <1>5, <1>6
<1>. QED  BY <1>7

\* The message that WholeLine finds.
LEMMA LineFound ==
  ASSUME NEW buffer \in Seq(Characters), HasLine(buffer)
  PROVE  \E e \in Begin(buffer) + 1 .. Len(buffer) :
           /\ buffer[e] = "nl" /\ \A j \in Begin(buffer) .. e - 1 : buffer[j] # "nl"
           /\ WholeLine(buffer) = [line |-> SubSeq(buffer, Begin(buffer), e - 1),
                                   rest |-> SubSeq(buffer, e, Len(buffer))]
<1>. DEFINE N == Len(buffer)
            b == Begin(buffer)
            T == {i \in Ends(buffer) : i > b}
            P(i) == i > b /\ \A j \in Ends(buffer) : j > b => i <= j
<1>1. N \in Nat /\ b \in 1 .. N + 1 /\ (b <= N => buffer[b] # "nl")
  BY Begins
<1>2. Ends(buffer) = {i \in 1 .. N : buffer[i] = "nl"}
  BY DEF Ends
<1>3. PICK e \in T : \A i \in T : e <= i
  <2>1. T \in SUBSET Nat /\ T # {}
    BY <1>1, <1>2 DEF HasLine
  <2>. HIDE DEF T
  <2>. QED  BY <2>1, SmallestNumber
<1>4. e \in Ends(buffer) /\ P(e) /\ \A i \in Ends(buffer) : P(i) => e <= i /\ i <= e
  BY <1>3
<1>. HIDE DEF b
<1>5. (CHOOSE i \in Ends(buffer) : P(i)) = e
  <2>. DEFINE i == CHOOSE i \in Ends(buffer) : P(i)
  <2>. HIDE DEF P
  <2>1. i \in Ends(buffer) /\ P(i)
    BY <1>4
  <2>2. i \in Nat /\ e \in Nat
    BY <1>2, <1>4, <2>1
  <2>. HIDE DEF i
  <2>3. i = e
    BY <1>4, <2>1, <2>2
  <2>. QED  BY <2>3 DEF i
<1>6. WholeLine(buffer) = [line |-> SubSeq(buffer, b, e - 1), rest |-> SubSeq(buffer, e, Len(buffer))]
  BY <1>5 DEF WholeLine, b
<1>7. e \in b + 1 .. N /\ buffer[e] = "nl"
  BY <1>1, <1>2, <1>3
<1>8. \A j \in b .. e - 1 : buffer[j] # "nl"
  <2>1. ASSUME NEW j \in b .. e - 1 PROVE buffer[j] # "nl"
    <3>1. j \in 1 .. N /\ (j = b \/ j > b) /\ ~(e <= j) /\ b <= N
      BY <1>1, <1>7
    <3>. QED  BY <1>1, <1>2, <1>4, <3>1
  <2>. QED  BY <2>1
<1>. QED  BY <1>6, <1>7, <1>8 DEF b

\* A piece of a text, wherever it is taken from.
LEMMA SamePiece ==
  ASSUME NEW S, NEW a \in Seq(S), NEW c \in Seq(S), NEW p \in Nat,
         NEW i \in Nat, NEW j \in Nat, i >= 1, j <= Len(a), p + j <= Len(c),
         \A k \in i .. j : a[k] = c[p + k]
  PROVE  SubSeq(a, i, j) = SubSeq(c, p + i, p + j)
<1>. DEFINE x == SubSeq(a, i, j)
            y == SubSeq(c, p + i, p + j)
<1>1. /\ Len(a) \in Nat /\ Len(c) \in Nat /\ i \in Int /\ j \in Int /\ p + i \in Int /\ p + j \in Int
      /\ \A k \in i .. j : k \in 1 .. Len(a)
      /\ \A k \in p + i .. p + j : k \in 1 .. Len(c)
  OBVIOUS
<1>2. (\A k \in i .. j : a[k] \in S) /\ \A k \in p + i .. p + j : c[k] \in S
  BY <1>1
<1>3. /\ x \in Seq(S) /\ Len(x) = (IF i <= j THEN j - i + 1 ELSE 0)
      /\ \A k \in 1 .. j - i + 1 : x[k] = a[i + k - 1]
  BY <1>1, <1>2, SubSeqProperties
<1>4. /\ y \in Seq(S) /\ Len(y) = (IF p + i <= p + j THEN p + j - (p + i) + 1 ELSE 0)
      /\ \A k \in 1 .. p + j - (p + i) + 1 : y[k] = c[p + i + k - 1]
  BY <1>1, <1>2, SubSeqProperties
<1>. HIDE DEF x, y
<1>5. Len(x) = Len(y)
  BY <1>1, <1>3, <1>4
<1>6. ASSUME NEW k \in 1 .. Len(x) PROVE x[k] = y[k]
  <2>1. Len(x) = IF i <= j THEN j - i + 1 ELSE 0
    BY <1>3
  <2>2. k \in Int /\ 1 <= k /\ k <= j - i + 1
    BY <2>1
  <2>3. /\ k \in 1 .. j - i + 1 /\ k \in 1 .. p + j - (p + i) + 1
        /\ i + k - 1 \in i .. j /\ p + i + k - 1 = p + (i + k - 1)
    BY <2>2
  <2>4. x[k] = a[i + k - 1] /\ y[k] = c[p + i + k - 1]
    BY <1>3, <1>4, <2>3
  <2>. QED  BY <2>3, <2>4
<1>7. x = y
  BY <1>3, <1>4, <1>5, <1>6, SeqEqual
<1>. QED  BY <1>7 DEF x, y

\* Where the buffer is once what comes before one of its characters is taken.
LEMMA BufferMoves ==
  ASSUME NEW text \in Seq(Characters), NEW buffer \in Seq(Characters), NEW p \in Nat,
         p + Len(buffer) <= Len(text), \A k \in 1 .. Len(buffer) : buffer[k] = text[p + k],
         NEW e \in 1 .. Len(buffer) + 1
  PROVE  /\ SubSeq(buffer, e, Len(buffer)) \in Seq(Characters)
         /\ Len(SubSeq(buffer, e, Len(buffer))) = Len(buffer) - e + 1
         /\ \A k \in 1 .. Len(buffer) - e + 1 : /\ SubSeq(buffer, e, Len(buffer))[k] = buffer[e + k - 1]
                                                /\ SubSeq(buffer, e, Len(buffer))[k] = text[p + e - 1 + k]
<1>. DEFINE N == Len(buffer)
            r == SubSeq(buffer, e, N)
<1>1. N \in Nat /\ e \in Int /\ N \in Int /\ \A k \in e .. N : k \in 1 .. N
  OBVIOUS
<1>2. \A k \in e .. N : buffer[k] \in Characters
  BY <1>1
<1>3. /\ r \in Seq(Characters) /\ Len(r) = (IF e <= N THEN N - e + 1 ELSE 0)
      /\ \A k \in 1 .. N - e + 1 : r[k] = buffer[e + k - 1]
  <2>. HIDE DEF N
  <2>. QED  BY <1>1, <1>2, SubSeqProperties
<1>4. Len(r) = N - e + 1
  BY <1>1, <1>3
<1>5. \A k \in 1 .. N - e + 1 : e + k - 1 \in 1 .. N /\ p + (e + k - 1) = p + e - 1 + k
  BY <1>1
<1>6. \A k \in 1 .. N - e + 1 : buffer[e + k - 1] = text[p + e - 1 + k]
  BY <1>5
<1>. QED  BY <1>3, <1>4, <1>6

\* The ends of lines before a message close what is open (Recv skips them).
LEMMA UpToMessage ==
  ASSUME NEW text \in Seq(Characters), NEW buffer \in Seq(Characters), NEW p \in Nat, NEW ex,
         p + Len(buffer) <= Len(text), SyncAt(p, buffer, text, ex), buffer # <<>>
  PROVE  LET b == Begin(buffer)
             x == LinesUpTo(text)[p + b - 1]
         IN  x.open = <<>> /\ x.ended = ex
<1>0. /\ p + Len(buffer) <= Len(text) /\ \A k \in 1 .. Len(buffer) : buffer[k] = text[p + k]
      /\ ex = Closed(LinesUpTo(text)[p])
      /\ LinesUpTo(text)[p].open # <<>> => buffer[1] = "nl"
  BY DEF SyncAt
<1>1. PICK b : b = Begin(buffer)
  OBVIOUS
<1>2. /\ b \in 1 .. Len(buffer) + 1 /\ \A j \in 1 .. b - 1 : buffer[j] = "nl"
      /\ b <= Len(buffer) => buffer[b] # "nl"
  BY <1>1, Begins
<1>3. Len(buffer) \in Nat /\ Len(text) \in Nat /\ Len(buffer) >= 1
  <2>1. Len(buffer) # 0
    BY EmptySeq
  <2>. QED  BY <2>1
<1>4. p \in 0 .. Len(text) /\ p + b - 1 \in p .. Len(text)
  BY <1>0, <1>2, <1>3
<1>5. \A k \in p + 1 .. p + b - 1 : text[k] = "nl"
  <2>1. \A k \in p + 1 .. p + b - 1 : k - p \in 1 .. b - 1 /\ k - p \in 1 .. Len(buffer) /\ p + (k - p) = k
    BY <1>2, <1>3
  <2>. QED  BY <1>0, <1>2, <2>1
<1>6. PICK q : q = p + b - 1
  OBVIOUS
<1>7. q = p \/ LinesUpTo(text)[q] = [ended |-> Closed(LinesUpTo(text)[p]), open |-> <<>>]
  BY <1>4, <1>5, <1>6, EndsClose
<1>8. CASE q = p
  <2>1. b = 1 /\ b <= Len(buffer)
    BY <1>2, <1>3, <1>6, <1>8
  <2>2. LinesUpTo(text)[p].open = <<>>
    BY <1>0, <1>2, <2>1
  <2>. QED  BY <1>0, <1>1, <1>6, <1>8, <2>2 DEF Closed
<1>9. CASE q # p
  BY <1>0, <1>1, <1>6, <1>7, <1>9
<1>. QED  BY <1>8, <1>9

\* A line and what it leaves of the buffer.
LineTaken(p, buffer, text, ex, line, rest) ==
  LET q == p + Len(buffer) - Len(rest)
  IN  /\ line \in Seq(Characters) /\ rest \in Seq(Characters)
      /\ q \in Nat /\ q + Len(rest) = p + Len(buffer)
      /\ SyncAt(q, rest, text, Append(ex, line))
      /\ \E m \in 0 .. Len(text) : Append(ex, line) = LinesUpTo(text)[m].ended

\* Recv hands over the next line that was typed.
LEMMA LineIsTaken ==
  ASSUME NEW text \in Seq(Characters), NEW buffer \in Seq(Characters), NEW p \in Nat, NEW ex,
         p + Len(buffer) <= Len(text), SyncAt(p, buffer, text, ex), HasLine(buffer)
  PROVE  LineTaken(p, buffer, text, ex, WholeLine(buffer).line, WholeLine(buffer).rest)
<1>0. p + Len(buffer) <= Len(text) /\ \A k \in 1 .. Len(buffer) : buffer[k] = text[p + k]
  BY DEF SyncAt
<1>1. PICK b : b = Begin(buffer)
  OBVIOUS
<1>2. PICK e \in b + 1 .. Len(buffer) :
        /\ buffer[e] = "nl" /\ \A j \in b .. e - 1 : buffer[j] # "nl"
        /\ WholeLine(buffer) = [line |-> SubSeq(buffer, b, e - 1), rest |-> SubSeq(buffer, e, Len(buffer))]
  BY <1>1, LineFound
<1>3. b \in 1 .. Len(buffer) + 1 /\ Len(buffer) \in Nat /\ Len(text) \in Nat
  BY <1>1, Begins
<1>4. b >= 1 /\ b < e /\ e <= Len(buffer) /\ b \in Nat /\ e \in Nat
  BY <1>2, <1>3
<1>5. PICK q : q = p + e - 1
  OBVIOUS
<1>6. /\ p + b - 1 \in 0 .. Len(text) /\ q \in p + b - 1 .. Len(text) /\ q \in 0 .. Len(text)
      /\ q \in Nat /\ q + 1 \in 1 .. Len(text) /\ q + 1 - 1 = q /\ q + 1 \in 0 .. Len(text)
  BY <1>0, <1>3, <1>4, <1>5
<1>7. LinesUpTo(text)[p + b - 1].open = <<>> /\ LinesUpTo(text)[p + b - 1].ended = ex
  <2>1. buffer # <<>>
    BY <1>3, <1>4
  <2>. QED  BY <1>1, <2>1, UpToMessage
<1>8. \A k \in p + b - 1 + 1 .. q : text[k] # "nl"
  <2>1. \A k \in p + b - 1 + 1 .. q : k - p \in b .. e - 1 /\ k - p \in 1 .. Len(buffer) /\ p + (k - p) = k
    BY <1>3, <1>4, <1>5
  <2>. QED  BY <1>0, <1>2, <2>1
<1>9. PICK line : line = SubSeq(text, p + b - 1 + 1, q)
  OBVIOUS
<1>10. LinesUpTo(text)[q] = [ended |-> ex, open |-> line]
  <2>1. PICK o : o = p + b - 1
    OBVIOUS
  <2>. QED  BY <1>6, <1>7, <1>8, <1>9, <2>1, LineOpens
<1>11. SubSeq(buffer, b, e - 1) = line
  <2>1. e - 1 \in Nat /\ e - 1 <= Len(buffer) /\ p + (e - 1) <= Len(text) /\ p + (e - 1) = q /\ p + b - 1 + 1 = p + b
    BY <1>0, <1>3, <1>4, <1>5, <1>6
  <2>2. \A k \in b .. e - 1 : buffer[k] = text[p + k]
    BY <1>0, <1>3, <1>4
  <2>3. SubSeq(buffer, b, e - 1) = SubSeq(text, p + b, p + (e - 1))
    BY <1>4, <2>1, <2>2, SamePiece
  <2>. QED  BY <1>9, <2>1, <2>3
<1>12. line \in Seq(Characters) /\ line # <<>>
  <2>. DEFINE x == SubSeq(buffer, b, e - 1)
  <2>1. b \in Int /\ e - 1 \in Int /\ b <= e - 1 /\ \A i \in b .. e - 1 : i \in 1 .. Len(buffer)
    BY <1>3, <1>4
  <2>2. \A i \in b .. e - 1 : buffer[i] \in Characters
    BY <2>1
  <2>3. x \in Seq(Characters) /\ Len(x) = IF b <= e - 1 THEN e - 1 - b + 1 ELSE 0
    BY <2>1, <2>2, SubSeqProperties
  <2>. HIDE DEF x
  <2>4. Len(x) # 0
    BY <2>1, <2>3
  <2>5. x # <<>>
    BY <2>4
  <2>. QED  BY <1>11, <2>3, <2>5 DEF x
<1>13. PICK rest : rest = SubSeq(buffer, e, Len(buffer))
  OBVIOUS
<1>14. /\ rest \in Seq(Characters) /\ Len(rest) = Len(buffer) - e + 1
       /\ \A k \in 1 .. Len(buffer) - e + 1 : rest[k] = buffer[e + k - 1] /\ rest[k] = text[p + e - 1 + k]
  <2>1. e \in 1 .. Len(buffer) + 1
    BY <1>3, <1>4
  <2>. QED  BY <1>0, <1>13, <2>1, BufferMoves
<1>15. rest # <<>> /\ rest[1] = "nl" /\ Len(rest) \in Nat
  <2>1. 1 \in 1 .. Len(buffer) - e + 1 /\ e + 1 - 1 = e /\ Len(buffer) - e + 1 \in Nat /\ Len(buffer) - e + 1 # 0
    BY <1>3, <1>4
  <2>2. rest[1] = "nl"
    BY <1>2, <1>14, <2>1
  <2>3. rest # <<>>
    BY <1>14, <2>1
  <2>. QED  BY <1>14, <2>1, <2>2, <2>3
<1>16. p + Len(buffer) - Len(rest) = q /\ q + Len(rest) = p + Len(buffer)
  BY <1>3, <1>4, <1>5, <1>14
<1>17. Closed(LinesUpTo(text)[q]) = Append(ex, line)
  BY <1>10, <1>12 DEF Closed
<1>18. SyncAt(q, rest, text, Append(ex, line))
  <2>1. q >= 0
    BY <1>6
  <2>2. \A k \in 1 .. Len(rest) : rest[k] = text[q + k]
    BY <1>5, <1>14
  <2>. QED  BY <1>15, <1>17, <2>1, <2>2 DEF SyncAt
<1>19. LinesUpTo(text)[q + 1].ended = Append(ex, line)
  <2>1. LinesUpTo(text)[q + 1] = After(LinesUpTo(text)[q], text[q + 1])
    BY <1>6, LinesStep
  <2>2. text[q + 1] = "nl"
    <3>1. p + e = q + 1 /\ e \in 1 .. Len(buffer)
      BY <1>3, <1>4, <1>5
    <3>. QED  BY <1>0, <1>2, <3>1
  <2>. QED  BY <1>10, <1>12, <2>1, <2>2 DEF After
<1>20. WholeLine(buffer).line = line /\ WholeLine(buffer).rest = rest
  BY <1>2, <1>11, <1>13
<1>21. \E m \in 0 .. Len(text) : Append(ex, line) = LinesUpTo(text)[m].ended
  BY <1>6, <1>19
<1>22. LineTaken(p, buffer, text, ex, line, rest)
  BY <1>6, <1>12, <1>14, <1>16, <1>18, <1>21 DEF LineTaken
<1>. QED  BY <1>20, <1>22

\* Compaction only drops ends of lines.
LEMMA CompactKeeps ==
  ASSUME NEW text \in Seq(Characters), NEW buffer \in Seq(Characters), NEW p \in Nat, NEW ex,
         p + Len(buffer) <= Len(text), SyncAt(p, buffer, text, ex), Begin(buffer) > 1
  PROVE  LET rest == SubSeq(buffer, Begin(buffer), Len(buffer))
             q == p + Len(buffer) - Len(rest)
         IN  /\ rest \in Seq(Characters) /\ q \in Nat /\ q + Len(rest) = p + Len(buffer)
             /\ SyncAt(q, rest, text, ex)
<1>0. p + Len(buffer) <= Len(text) /\ \A k \in 1 .. Len(buffer) : buffer[k] = text[p + k]
  BY DEF SyncAt
<1>1. PICK b : b = Begin(buffer)
  OBVIOUS
<1>2. b \in 1 .. Len(buffer) + 1 /\ b > 1 /\ Len(buffer) \in Nat /\ Len(text) \in Nat
  BY <1>1, Begins
<1>3. buffer # <<>>
  BY <1>2
<1>4. PICK rest : rest = SubSeq(buffer, b, Len(buffer))
  OBVIOUS
<1>5. /\ rest \in Seq(Characters) /\ Len(rest) = Len(buffer) - b + 1
      /\ \A k \in 1 .. Len(buffer) - b + 1 : rest[k] = text[p + b - 1 + k]
  <2>1. b \in 1 .. Len(buffer) + 1
    BY <1>2
  <2>2. /\ SubSeq(buffer, b, Len(buffer)) \in Seq(Characters)
        /\ Len(SubSeq(buffer, b, Len(buffer))) = Len(buffer) - b + 1
        /\ \A k \in 1 .. Len(buffer) - b + 1 :
             SubSeq(buffer, b, Len(buffer))[k] = text[p + b - 1 + k]
    BY <1>0, <2>1, BufferMoves
  <2>. QED  BY <1>4, <2>2
<1>6. p + Len(buffer) - Len(rest) = p + b - 1 /\ p + b - 1 \in Nat
      /\ p + b - 1 + Len(rest) = p + Len(buffer)
  <2>1. PICK n \in Nat, r \in Int : n = Len(buffer) /\ r = Len(rest) /\ r = n - b + 1 /\ b \in 1 .. n + 1
    BY <1>2, <1>5
  <2>2. p + n - r = p + b - 1 /\ p + b - 1 \in Nat /\ p + b - 1 + r = p + n
    BY <2>1
  <2>. QED  BY <2>1, <2>2
<1>7. LinesUpTo(text)[p + b - 1].open = <<>> /\ LinesUpTo(text)[p + b - 1].ended = ex
  BY <1>0, <1>1, <1>3, UpToMessage
<1>8. SyncAt(p + b - 1, rest, text, ex)
  <2>1. p + b - 1 >= 0
    BY <1>6
  <2>. QED  BY <1>5, <1>7, <2>1 DEF SyncAt, Closed
<1>. QED  BY <1>1, <1>4, <1>5, <1>6, <1>8

\* A piece from TCP goes behind what the buffer holds.
LEMMA PieceKeeps ==
  ASSUME NEW text \in Seq(Characters), NEW buffer \in Seq(Characters), NEW p \in Nat, NEW ex,
         NEW n \in Nat, p + Len(buffer) + n <= Len(text), SyncAt(p, buffer, text, ex)
  PROVE  LET from == p + Len(buffer)
             more == buffer \o SubSeq(text, from + 1, from + n)
         IN  more \in Seq(Characters) /\ Len(more) = Len(buffer) + n /\ SyncAt(p, more, text, ex)
<1>. DEFINE from == p + Len(buffer)
            piece == SubSeq(text, from + 1, from + n)
            more == buffer \o piece
<1>0. /\ \A k \in 1 .. Len(buffer) : buffer[k] = text[p + k]
      /\ LinesUpTo(text)[p].open # <<>> => buffer # <<>> /\ buffer[1] = "nl"
  BY DEF SyncAt
<1>1. /\ Len(buffer) \in Nat /\ Len(text) \in Nat /\ from + 1 \in Int /\ from + n \in Int
      /\ \A k \in from + 1 .. from + n : k \in 1 .. Len(text)
  OBVIOUS
<1>2. \A k \in from + 1 .. from + n : text[k] \in Characters
  BY <1>1
<1>3. PICK a, b : a = from + 1 /\ b = from + n
  OBVIOUS
<1>4. piece \in Seq(Characters) /\ Len(piece) = n /\ \A k \in 1 .. n : piece[k] = text[from + k]
  <2>1. /\ SubSeq(text, a, b) \in Seq(Characters) /\ Len(SubSeq(text, a, b)) = (IF a <= b THEN b - a + 1 ELSE 0)
        /\ \A k \in 1 .. b - a + 1 : SubSeq(text, a, b)[k] = text[a + k - 1]
    <3>. HIDE DEF from
    <3>. QED  BY <1>1, <1>2, <1>3, SubSeqProperties
  <2>2. piece = SubSeq(text, a, b)
    BY <1>3
  <2>3. (IF a <= b THEN b - a + 1 ELSE 0) = n /\ b - a + 1 = n /\ \A k \in 1 .. n : a + k - 1 = from + k
    BY <1>1, <1>3
  <2>. HIDE DEF piece, from
  <2>. QED  BY <2>1, <2>2, <2>3
<1>5. \A k \in 1 .. n : piece[k] = text[from + k]
  BY <1>4
<1>. HIDE DEF piece
<1>6. /\ more \in Seq(Characters) /\ Len(more) = Len(buffer) + Len(piece)
      /\ \A i \in 1 .. Len(buffer) + Len(piece) :
           more[i] = IF i <= Len(buffer) THEN buffer[i] ELSE piece[i - Len(buffer)]
  BY <1>4, ConcatProperties
<1>. HIDE DEF more
<1>7. \A k \in 1 .. Len(more) : more[k] = text[p + k]
  <2>1. ASSUME NEW k \in 1 .. Len(more) PROVE more[k] = text[p + k]
    <3>1. k \in 1 .. Len(buffer) + Len(piece)
      BY <1>6
    <3>2. CASE k <= Len(buffer)
      <4>1. k \in 1 .. Len(buffer)
        BY <1>1, <3>2
      <4>. QED  BY <1>0, <1>6, <3>1, <3>2, <4>1
    <3>3. CASE ~(k <= Len(buffer))
      <4>1. k - Len(buffer) \in 1 .. n /\ from + (k - Len(buffer)) = p + k
        BY <1>1, <1>4, <3>1, <3>3
      <4>. QED  BY <1>5, <1>6, <3>1, <3>3, <4>1
    <3>. QED  BY <3>2, <3>3
  <2>. QED  BY <2>1
<1>8. LinesUpTo(text)[p].open # <<>> => more # <<>> /\ more[1] = "nl"
  <2>1. ASSUME buffer # <<>>, buffer[1] = "nl" PROVE more # <<>> /\ more[1] = "nl"
    <3>1. Len(buffer) # 0
      BY <2>1, EmptySeq
    <3>2. 1 <= Len(buffer) /\ 1 \in 1 .. Len(buffer) + Len(piece) /\ Len(more) # 0
      BY <1>1, <1>4, <1>6, <3>1
    <3>3. more[1] = "nl"
      BY <1>6, <2>1, <3>2
    <3>. QED  BY <3>2, <3>3
  <2>. QED  BY <1>0, <2>1
<1>9. SyncAt(p, more, text, ex)
  BY <1>7, <1>8 DEF SyncAt
<1>. QED  BY <1>4, <1>6, <1>9 DEF more, piece

\* What is typed later changes nothing of what was taken.
LEMMA TypingKeeps ==
  ASSUME NEW text \in Seq(Characters), NEW buffer \in Seq(Characters), NEW p \in Nat, NEW ex,
         NEW c \in Characters, p + Len(buffer) <= Len(text), SyncAt(p, buffer, text, ex)
  PROVE  SyncAt(p, buffer, Append(text, c), ex)
<1>. DEFINE more == Append(text, c)
<1>0. /\ \A k \in 1 .. Len(buffer) : buffer[k] = text[p + k]
      /\ ex = Closed(LinesUpTo(text)[p])
      /\ LinesUpTo(text)[p].open # <<>> => buffer # <<>> /\ buffer[1] = "nl"
  BY DEF SyncAt
<1>1. /\ more \in Seq(Characters) /\ Len(more) = Len(text) + 1
      /\ \A i \in 1 .. Len(text) : more[i] = text[i]
  BY AppendProperties
<1>. HIDE DEF more
<1>2. Len(text) <= Len(more) /\ p \in 0 .. Len(text)
  BY <1>1
<1>3. LinesUpTo(more)[p] = LinesUpTo(text)[p]
  BY <1>1, <1>2, LinesOfBeginning
<1>4. \A k \in 1 .. Len(buffer) : p + k \in 1 .. Len(text)
  OBVIOUS
<1>5. \A k \in 1 .. Len(buffer) : buffer[k] = more[p + k]
  BY <1>0, <1>1, <1>4
<1>. QED  BY <1>0, <1>3, <1>5 DEF SyncAt, more

-----------------------------------------------------------------------------
\* The inductive invariant: CEcon and CNetConsole agree on the slots; what was
\* executed is what had ended somewhere in the text, and for a connection that is
\* open that is where its buffer starts.
EconTypes ==
  /\ econConn \in [EconSlots -> [state : {"OFFLINE", "ONLINE", "ERROR"},
                                 ip : EconIPs \union {NoIP}, buffer : Seq(Characters)]]
  /\ econClient \in [EconSlots -> [state : {"EMPTY", "CONNECTED", "AUTHED"}, tries : Nat]]
  /\ typed \in [EconSlots -> Seq(Characters)]
  /\ underway \in [EconSlots -> Nat]
  /\ executed \in [EconSlots -> Seq(Seq(Characters))]

SlotOK(s) ==
  /\ econClient[s].state = "EMPTY" <=> econConn[s].state = "OFFLINE"
  /\ \E m \in 0 .. Len(typed[s]) : executed[s] = LinesUpTo(typed[s])[m].ended
  /\ econConn[s].state # "OFFLINE" =>
       \E p \in Nat : /\ p + Len(econConn[s].buffer) + underway[s] = Len(typed[s])
                      /\ SyncAt(p, econConn[s].buffer, typed[s], executed[s])

EconInv == EconTypes /\ \A s \in EconSlots : SlotOK(s)

\* Only one slot changes.
OthersStay(s) ==
  \A t \in EconSlots \ {s} :
    /\ econConn'[t] = econConn[t] /\ econClient'[t] = econClient[t] /\ typed'[t] = typed[t]
    /\ underway'[t] = underway[t] /\ executed'[t] = executed[t]

LEMMA OneSlot ==
  ASSUME EconInv, NEW s \in EconSlots, OthersStay(s), EconTypes', SlotOK(s)'
  PROVE  EconInv'
<1>1. ASSUME NEW t \in EconSlots, t # s PROVE SlotOK(t)'
  <2>1. /\ econConn'[t] = econConn[t] /\ econClient'[t] = econClient[t] /\ typed'[t] = typed[t]
        /\ underway'[t] = underway[t] /\ executed'[t] = executed[t]
    BY <1>1 DEF OthersStay
  <2>2. SlotOK(t)
    BY DEF EconInv
  <2>. QED  BY <2>1, <2>2 DEF SlotOK
<1>. QED  BY <1>1 DEF EconInv

\* A slot that is dropped keeps what was executed.
LEMMA DropKeeps ==
  ASSUME EconInv, NEW s \in EconSlots, Drop(s), UNCHANGED <<typed, underway>>,
         executed' \in [EconSlots -> Seq(Seq(Characters))],
         \A t \in EconSlots \ {s} : executed'[t] = executed[t],
         \E m \in 0 .. Len(typed[s]) : executed'[s] = LinesUpTo(typed[s])[m].ended
  PROVE  EconInv'
<1>0. SUFFICES ASSUME EconInv, Drop(s), UNCHANGED <<typed, underway>>,
                      executed' \in [EconSlots -> Seq(Seq(Characters))],
                      \A t \in EconSlots \ {s} : executed'[t] = executed[t],
                      \E m \in 0 .. Len(typed[s]) : executed'[s] = LinesUpTo(typed[s])[m].ended
               PROVE  EconInv'
  OBVIOUS
<1>1. EconTypes
  BY <1>0 DEF EconInv
<1>2. /\ ConnReset \in [state : {"OFFLINE", "ONLINE", "ERROR"}, ip : EconIPs \union {NoIP}, buffer : Seq(Characters)]
      /\ EmptyClient \in [state : {"EMPTY", "CONNECTED", "AUTHED"}, tries : Nat]
      /\ ConnReset.state = "OFFLINE" /\ EmptyClient.state = "EMPTY"
  BY DEF ConnReset, EmptyClient
<1>3. econConn' = [econConn EXCEPT ![s] = ConnReset] /\ econClient' = [econClient EXCEPT ![s] = EmptyClient]
  BY <1>0 DEF Drop
<1>4. econConn'[s] = ConnReset /\ econClient'[s] = EmptyClient
  BY <1>1, <1>3 DEF EconTypes
<1>5. OthersStay(s)
  BY <1>0, <1>1, <1>3 DEF OthersStay, EconTypes
<1>6. EconTypes'
  <2>. HIDE DEF ConnReset, EmptyClient
  <2>. QED  BY <1>0, <1>1, <1>2, <1>3 DEF EconTypes
<1>7. SlotOK(s)'
  BY <1>0, <1>2, <1>4 DEF SlotOK
<1>. QED  BY <1>0, <1>5, <1>6, <1>7, OneSlot

Conns == [state : {"OFFLINE", "ONLINE", "ERROR"}, ip : EconIPs \union {NoIP}, buffer : Seq(Characters)]

\* A slot whose connection gets another buffer.
LEMMA NewBuffer ==
  ASSUME NEW f \in [EconSlots -> Conns], NEW s \in EconSlots, NEW buffer \in Seq(Characters)
  PROVE  /\ [f EXCEPT ![s].buffer = buffer] \in [EconSlots -> Conns]
         /\ [f EXCEPT ![s].buffer = buffer][s].buffer = buffer
         /\ [f EXCEPT ![s].buffer = buffer][s].state = f[s].state
         /\ \A t \in EconSlots \ {s} : [f EXCEPT ![s].buffer = buffer][t] = f[t]
<1>1. f[s] \in Conns
  OBVIOUS
<1>2. PICK m : m = [f[s] EXCEPT !.buffer = buffer]
  OBVIOUS
<1>3. m \in Conns /\ m.buffer = buffer /\ m.state = f[s].state
  BY <1>1, <1>2 DEF Conns
<1>4. [f EXCEPT ![s].buffer = buffer] = [f EXCEPT ![s] = m]
  BY <1>2
<1>. QED  BY <1>3, <1>4

LEMMA AcceptKeeps ==
  ASSUME EconInv, NEW s \in EconSlots, NEW ip \in EconIPs, AcceptClient(ip, s)
  PROVE  EconInv'
<1>1. EconTypes
  BY DEF EconInv
<1>2. PICK conn, cl : /\ conn = [state |-> "ONLINE", ip |-> ip, buffer |-> <<>>]
                      /\ cl = [state |-> "CONNECTED", tries |-> 0]
  OBVIOUS
<1>3. /\ econConn' = [econConn EXCEPT ![s] = conn] /\ econClient' = [econClient EXCEPT ![s] = cl]
      /\ typed' = [typed EXCEPT ![s] = <<>>] /\ underway' = [underway EXCEPT ![s] = 0]
      /\ executed' = [executed EXCEPT ![s] = <<>>]
  BY <1>2 DEF AcceptClient
<1>4. conn \in Conns /\ cl \in [state : {"EMPTY", "CONNECTED", "AUTHED"}, tries : Nat]
  BY <1>2 DEF Conns
<1>5. EconTypes'
  BY <1>1, <1>3, <1>4 DEF EconTypes, Conns
<1>6. OthersStay(s)
  BY <1>1, <1>3 DEF OthersStay, EconTypes
<1>7. /\ econConn'[s] = conn /\ econClient'[s] = cl /\ typed'[s] = <<>> /\ underway'[s] = 0
      /\ executed'[s] = <<>>
  BY <1>1, <1>3 DEF EconTypes
<1>8. LinesUpTo(<<>>)[0] = NoText
  <2>1. <<>> \in Seq(Characters)
    OBVIOUS
  <2>2. PICK e : e = <<>> /\ e \in Seq(Characters)
    BY <2>1
  <2>3. LinesUpTo(e)[0] = NoText
    BY <2>2, LinesStep
  <2>. QED  BY <2>2, <2>3
<1>9. SyncAt(0, <<>>, <<>>, <<>>)
  BY <1>8 DEF SyncAt, NoText, Closed
<1>10. SlotOK(s)'
  <2>1. econClient'[s].state # "EMPTY" /\ econConn'[s].state # "OFFLINE" /\ econConn'[s].buffer = <<>>
    BY <1>2, <1>7
  <2>2. 0 \in 0 .. Len(typed'[s]) /\ executed'[s] = LinesUpTo(typed'[s])[0].ended
    BY <1>7, <1>8 DEF NoText
  <2>3. 0 + Len(econConn'[s].buffer) + underway'[s] = Len(typed'[s])
    BY <1>7, <2>1
  <2>4. SyncAt(0, econConn'[s].buffer, typed'[s], executed'[s])
    BY <1>7, <1>9, <2>1
  <2>. QED  BY <2>1, <2>2, <2>3, <2>4 DEF SlotOK
<1>. QED  BY <1>5, <1>6, <1>10, OneSlot

LEMMA TypeKeeps ==
  ASSUME EconInv, NEW s \in EconSlots, NEW c \in Characters, Type(s, c)
  PROVE  EconInv'
<1>1. EconTypes /\ SlotOK(s)
  BY DEF EconInv
<1>2. /\ econConn[s].state = "ONLINE" /\ econConn' = econConn /\ econClient' = econClient
      /\ typed' = [typed EXCEPT ![s] = Append(@, c)] /\ underway' = [underway EXCEPT ![s] = @ + 1]
      /\ executed' = executed
  BY DEF Type
<1>3. PICK text, buffer, ex : text = typed[s] /\ buffer = econConn[s].buffer /\ ex = executed[s]
  OBVIOUS
<1>4. text \in Seq(Characters) /\ buffer \in Seq(Characters) /\ underway[s] \in Nat
  BY <1>1, <1>3 DEF EconTypes
<1>5. PICK p \in Nat : p + Len(buffer) + underway[s] = Len(text) /\ SyncAt(p, buffer, text, ex)
  BY <1>1, <1>2, <1>3 DEF SlotOK
<1>6. PICK m \in 0 .. Len(text) : ex = LinesUpTo(text)[m].ended
  BY <1>1, <1>3 DEF SlotOK
<1>7. PICK more : more = Append(text, c)
  OBVIOUS
<1>8. /\ more \in Seq(Characters) /\ Len(more) = Len(text) + 1
      /\ \A i \in 1 .. Len(text) : more[i] = text[i]
  BY <1>4, <1>7, AppendProperties
<1>9. /\ econConn'[s] = econConn[s] /\ econClient'[s] = econClient[s] /\ typed'[s] = more
      /\ underway'[s] = underway[s] + 1 /\ executed'[s] = ex
  BY <1>1, <1>2, <1>3, <1>7 DEF EconTypes
<1>10. EconTypes'
  <2>1. typed' \in [EconSlots -> Seq(Characters)]
    BY <1>1, <1>2, <1>3, <1>7, <1>8 DEF EconTypes
  <2>2. underway' \in [EconSlots -> Nat]
    BY <1>1, <1>2 DEF EconTypes
  <2>. QED  BY <1>1, <1>2, <2>1, <2>2 DEF EconTypes
<1>11. OthersStay(s)
  BY <1>1, <1>2 DEF OthersStay, EconTypes
<1>12. p + Len(buffer) <= Len(text) /\ p + Len(buffer) + (underway[s] + 1) = Len(more)
       /\ Len(text) <= Len(more)
  BY <1>4, <1>5, <1>8
<1>13. SyncAt(p, buffer, more, ex)
  BY <1>4, <1>5, <1>7, <1>12, TypingKeeps
<1>14. m \in 0 .. Len(more) /\ LinesUpTo(more)[m] = LinesUpTo(text)[m]
  <2>1. \A n \in 0 .. Len(text) : LinesUpTo(more)[n] = LinesUpTo(text)[n]
    BY <1>4, <1>8, <1>12, LinesOfBeginning
  <2>2. m \in 0 .. Len(more)
    BY <1>4, <1>8
  <2>. QED  BY <2>1, <2>2
<1>15. SlotOK(s)'
  <2>1. econClient'[s].state = "EMPTY" <=> econConn'[s].state = "OFFLINE"
    BY <1>1, <1>9 DEF SlotOK
  <2>2. \E k \in 0 .. Len(typed'[s]) : executed'[s] = LinesUpTo(typed'[s])[k].ended
    BY <1>6, <1>9, <1>14
  <2>3. /\ p + Len(econConn'[s].buffer) + underway'[s] = Len(typed'[s])
        /\ SyncAt(p, econConn'[s].buffer, typed'[s], executed'[s])
    BY <1>3, <1>9, <1>12, <1>13
  <2>. QED  BY <2>1, <2>2, <2>3 DEF SlotOK
<1>. QED  BY <1>10, <1>11, <1>15, OneSlot

\* Another buffer, in step with the text, keeps the invariant.
LEMMA BufferKeeps ==
  ASSUME EconInv, NEW s \in EconSlots, econConn[s].state # "OFFLINE",
         NEW buffer \in Seq(Characters), econConn' = [econConn EXCEPT ![s].buffer = buffer],
         econClient' \in [EconSlots -> [state : {"EMPTY", "CONNECTED", "AUTHED"}, tries : Nat]],
         econClient'[s].state # "EMPTY", \A t \in EconSlots \ {s} : econClient'[t] = econClient[t],
         typed' = typed, NEW u \in Nat, underway' = [underway EXCEPT ![s] = u],
         NEW ex \in Seq(Seq(Characters)), executed' = [executed EXCEPT ![s] = ex],
         \E m \in 0 .. Len(typed[s]) : ex = LinesUpTo(typed[s])[m].ended,
         NEW p \in Nat, p + Len(buffer) + u = Len(typed[s]), SyncAt(p, buffer, typed[s], ex)
  PROVE  EconInv'
<1>0. SUFFICES
        ASSUME EconInv, econConn[s].state # "OFFLINE",
               econConn' = [econConn EXCEPT ![s].buffer = buffer],
               econClient' \in [EconSlots -> [state : {"EMPTY", "CONNECTED", "AUTHED"}, tries : Nat]],
               econClient'[s].state # "EMPTY", \A t \in EconSlots \ {s} : econClient'[t] = econClient[t],
               typed' = typed, underway' = [underway EXCEPT ![s] = u],
               executed' = [executed EXCEPT ![s] = ex],
               \E m \in 0 .. Len(typed[s]) : ex = LinesUpTo(typed[s])[m].ended,
               p + Len(buffer) + u = Len(typed[s]), SyncAt(p, buffer, typed[s], ex)
        PROVE  EconInv'
  OBVIOUS
<1>1. EconTypes
  BY <1>0 DEF EconInv
<1>2. econConn \in [EconSlots -> Conns]
  BY <1>1 DEF EconTypes, Conns
<1>3. PICK f : f = econConn
  OBVIOUS
<1>4. /\ econConn' \in [EconSlots -> Conns] /\ econConn'[s].buffer = buffer
      /\ econConn'[s].state = econConn[s].state /\ \A t \in EconSlots \ {s} : econConn'[t] = econConn[t]
  <2>1. f \in [EconSlots -> Conns] /\ econConn' = [f EXCEPT ![s].buffer = buffer]
    BY <1>0, <1>2, <1>3
  <2>2. PICK g : g = [f EXCEPT ![s].buffer = buffer]
    OBVIOUS
  <2>3. /\ g \in [EconSlots -> Conns] /\ g[s].buffer = buffer
        /\ g[s].state = f[s].state /\ \A t \in EconSlots \ {s} : g[t] = f[t]
    <3>1. /\ [f EXCEPT ![s].buffer = buffer] \in [EconSlots -> Conns]
          /\ [f EXCEPT ![s].buffer = buffer][s].buffer = buffer
          /\ [f EXCEPT ![s].buffer = buffer][s].state = f[s].state
          /\ \A t \in EconSlots \ {s} : [f EXCEPT ![s].buffer = buffer][t] = f[t]
      BY <2>1, NewBuffer, Zenon
    <3>. QED  BY <2>2, <3>1
  <2>. QED  BY <1>3, <2>1, <2>2, <2>3
<1>5. /\ underway' \in [EconSlots -> Nat] /\ underway'[s] = u
      /\ \A t \in EconSlots \ {s} : underway'[t] = underway[t]
  BY <1>0, <1>1 DEF EconTypes
<1>6. /\ executed' \in [EconSlots -> Seq(Seq(Characters))] /\ executed'[s] = ex
      /\ \A t \in EconSlots \ {s} : executed'[t] = executed[t]
  BY <1>0, <1>1 DEF EconTypes
<1>7. EconTypes'
  BY <1>0, <1>1, <1>4, <1>5, <1>6 DEF EconTypes, Conns
<1>8. OthersStay(s)
  BY <1>0, <1>4, <1>5, <1>6 DEF OthersStay
<1>9. SlotOK(s)'
  BY <1>0, <1>4, <1>5, <1>6 DEF SlotOK
<1>. QED  BY <1>0, <1>7, <1>8, <1>9, OneSlot

LEMMA ReceiveKeeps ==
  ASSUME EconInv, NEW s \in EconSlots, NEW n \in Nat, ReceivePiece(s, n)
  PROVE  EconInv'
<1>0. EconTypes /\ SlotOK(s) /\ econConn[s].state = "ONLINE"
  BY DEF EconInv, ReceivePiece
<1>1. PICK text, buffer, u : text = typed[s] /\ buffer = econConn[s].buffer /\ u = underway[s]
  OBVIOUS
<1>2. text \in Seq(Characters) /\ buffer \in Seq(Characters) /\ u \in Nat /\ executed[s] \in Seq(Seq(Characters))
  BY <1>0, <1>1 DEF EconTypes
<1>3. PICK ex \in Seq(Seq(Characters)) : ex = executed[s]
  BY <1>2
<1>4. PICK p \in Nat : p + Len(buffer) + u = Len(text) /\ SyncAt(p, buffer, text, ex)
  BY <1>0, <1>1, <1>3 DEF SlotOK
<1>5. /\ n <= u /\ econClient' = econClient /\ typed' = typed /\ executed' = executed
      /\ econConn' = [econConn EXCEPT ![s].buffer =
                        @ \o SubSeq(text, Len(text) - u + 1, Len(text) - u + n)]
      /\ underway' = [underway EXCEPT ![s] = @ - n]
  BY <1>1 DEF ReceivePiece
<1>6. /\ p + Len(buffer) + n <= Len(text) /\ Len(text) - u = p + Len(buffer) /\ u - n \in Nat
      /\ Len(buffer) \in Nat
  BY <1>2, <1>4, <1>5
<1>7. PICK more : more = buffer \o SubSeq(text, p + Len(buffer) + 1, p + Len(buffer) + n)
  OBVIOUS
<1>8. more \in Seq(Characters) /\ Len(more) = Len(buffer) + n /\ SyncAt(p, more, text, ex)
  <2>1. SyncAt(p, buffer, text, ex) /\ p + Len(buffer) + n <= Len(text)
    BY <1>4, <1>6
  <2>2. LET from == p + Len(buffer)
            new == buffer \o SubSeq(text, from + 1, from + n)
        IN  new \in Seq(Characters) /\ Len(new) = Len(buffer) + n /\ SyncAt(p, new, text, ex)
    BY <1>2, <2>1, PieceKeeps, Zenon
  <2>. QED  BY <1>7, <2>2, Zenon
<1>9. /\ econConn' = [econConn EXCEPT ![s].buffer = more]
      /\ underway' = [underway EXCEPT ![s] = u - n]
      /\ executed' = [executed EXCEPT ![s] = ex]
  <2>1. econConn' = [econConn EXCEPT ![s].buffer = more]
    BY <1>1, <1>5, <1>6, <1>7
  <2>2. underway' = [underway EXCEPT ![s] = u - n]
    BY <1>1, <1>5
  <2>3. executed' = [executed EXCEPT ![s] = ex]
    BY <1>0, <1>3, <1>5 DEF EconTypes
  <2>. QED  BY <2>1, <2>2, <2>3
<1>10. p + Len(more) + (u - n) = Len(text)
  <2>1. PICK a \in Nat, b \in Int, t \in Int : a = Len(buffer) /\ b = Len(more) /\ t = Len(text)
    BY <1>6
  <2>2. b = a + n /\ p + a + u = t
    BY <1>4, <1>8, <2>1
  <2>3. p + b + (u - n) = t
    BY <1>2, <2>2
  <2>. QED  BY <2>1, <2>3
<1>11. PICK left : left = u - n /\ left \in Nat
  BY <1>6
<1>12. /\ econConn[s].state # "OFFLINE" /\ econClient'[s].state # "EMPTY"
       /\ econClient' \in [EconSlots -> [state : {"EMPTY", "CONNECTED", "AUTHED"}, tries : Nat]]
       /\ \A t \in EconSlots \ {s} : econClient'[t] = econClient[t]
       /\ \E m \in 0 .. Len(typed[s]) : ex = LinesUpTo(typed[s])[m].ended
  BY <1>0, <1>3, <1>5 DEF EconTypes, SlotOK
<1>13. SyncAt(p, more, typed[s], ex) /\ p + Len(more) + left = Len(typed[s])
       /\ underway' = [underway EXCEPT ![s] = left]
  BY <1>1, <1>8, <1>9, <1>10, <1>11
<1>. QED  BY <1>5, <1>8, <1>9, <1>11, <1>12, <1>13, BufferKeeps

LEMMA CompactionKeeps ==
  ASSUME EconInv, NEW s \in EconSlots, Compact(s)
  PROVE  EconInv'
<1>0. EconTypes /\ SlotOK(s) /\ econConn[s].state = "ONLINE"
  BY DEF EconInv, Compact
<1>1. PICK text, buffer, u : text = typed[s] /\ buffer = econConn[s].buffer /\ u = underway[s]
  OBVIOUS
<1>2. text \in Seq(Characters) /\ buffer \in Seq(Characters) /\ u \in Nat /\ executed[s] \in Seq(Seq(Characters))
  BY <1>0, <1>1 DEF EconTypes
<1>3. PICK ex \in Seq(Seq(Characters)) : ex = executed[s]
  BY <1>2
<1>4. PICK p \in Nat : p + Len(buffer) + u = Len(text) /\ SyncAt(p, buffer, text, ex)
  BY <1>0, <1>1, <1>3 DEF SlotOK
<1>5. /\ Begin(buffer) > 1 /\ econClient' = econClient /\ typed' = typed /\ executed' = executed
      /\ econConn' = [econConn EXCEPT ![s].buffer = SubSeq(buffer, Begin(buffer), Len(buffer))]
      /\ underway' = underway
  BY <1>1 DEF Compact
<1>6. PICK rest, q : /\ rest = SubSeq(buffer, Begin(buffer), Len(buffer))
                     /\ q = p + Len(buffer) - Len(rest)
  OBVIOUS
<1>7. rest \in Seq(Characters) /\ q \in Nat /\ q + Len(rest) = p + Len(buffer) /\ SyncAt(q, rest, text, ex)
  <2>1. p + Len(buffer) <= Len(text)
    BY <1>2, <1>4
  <2>. QED  BY <1>2, <1>4, <1>5, <1>6, <2>1, CompactKeeps
<1>8. q + Len(rest) + u = Len(text)
  BY <1>2, <1>4, <1>7
<1>9. /\ econConn' = [econConn EXCEPT ![s].buffer = rest]
      /\ underway' = [underway EXCEPT ![s] = u] /\ executed' = [executed EXCEPT ![s] = ex]
  BY <1>0, <1>1, <1>3, <1>5, <1>6 DEF EconTypes
<1>10. /\ econConn[s].state # "OFFLINE" /\ econClient'[s].state # "EMPTY"
       /\ econClient' \in [EconSlots -> [state : {"EMPTY", "CONNECTED", "AUTHED"}, tries : Nat]]
       /\ \A t \in EconSlots \ {s} : econClient'[t] = econClient[t]
       /\ \E m \in 0 .. Len(typed[s]) : ex = LinesUpTo(typed[s])[m].ended
  BY <1>0, <1>3, <1>5 DEF EconTypes, SlotOK
<1>11. SyncAt(q, rest, typed[s], ex) /\ q + Len(rest) + u = Len(typed[s])
  BY <1>1, <1>7, <1>8
<1>. QED  BY <1>2, <1>5, <1>7, <1>9, <1>10, <1>11, BufferKeeps

LEMMA LineKeeps ==
  ASSUME EconInv, NEW s \in EconSlots, RecvLine(s)
  PROVE  EconInv'
<1>0. EconInv /\ EconTypes /\ SlotOK(s) /\ econConn[s].state = "ONLINE" /\ RecvLine(s)
  BY DEF EconInv, RecvLine
<1>1. PICK text, buffer, u : text = typed[s] /\ buffer = econConn[s].buffer /\ u = underway[s]
  OBVIOUS
<1>2. text \in Seq(Characters) /\ buffer \in Seq(Characters) /\ u \in Nat /\ executed[s] \in Seq(Seq(Characters))
  BY <1>0, <1>1 DEF EconTypes
<1>3. PICK taken \in Seq(Seq(Characters)) : taken = executed[s]
  BY <1>2
<1>4. PICK p \in Nat : p + Len(buffer) + u = Len(text) /\ SyncAt(p, buffer, text, taken)
  BY <1>0, <1>1, <1>3 DEF SlotOK
<1>5. PICK line, rest, q : /\ line = WholeLine(buffer).line /\ rest = WholeLine(buffer).rest
                           /\ q = p + Len(buffer) - Len(rest)
  OBVIOUS
<1>6. /\ HasLine(buffer) /\ executed' = [executed EXCEPT ![s] = Append(@, line)]
      /\ CASE econClient[s].state = "CONNECTED" -> \/ WrongPassword(s, line, rest)
                                                   \/ RightPassword(s, line, rest)
           [] econClient[s].state = "AUTHED" -> Command(s, line, rest)
      /\ UNCHANGED <<typed, underway>>
  BY <1>0, <1>1, <1>5 DEF RecvLine
<1>7. /\ line \in Seq(Characters) /\ rest \in Seq(Characters)
      /\ q \in Nat /\ q + Len(rest) = p + Len(buffer)
      /\ SyncAt(q, rest, text, Append(taken, line))
      /\ \E m \in 0 .. Len(text) : Append(taken, line) = LinesUpTo(text)[m].ended
  <2>1. p + Len(buffer) <= Len(text)
    BY <1>2, <1>4
  <2>2. SyncAt(p, buffer, text, taken) /\ HasLine(buffer)
    BY <1>4, <1>6
  <2>3. LineTaken(p, buffer, text, taken, WholeLine(buffer).line, WholeLine(buffer).rest)
    BY <1>2, <2>1, <2>2, LineIsTaken
  <2>4. LineTaken(p, buffer, text, taken, line, rest)
    BY <1>5, <2>3
  <2>. QED  BY <1>5, <2>4 DEF LineTaken
<1>8. PICK ex \in Seq(Seq(Characters)) : ex = Append(taken, line)
  <2>1. line \in Seq(Characters)
    BY <1>7
  <2>2. Append(taken, line) \in Seq(Seq(Characters))
    BY <2>1, AppendProperties
  <2>. QED  BY <2>2
<1>9. executed' = [executed EXCEPT ![s] = ex]
  BY <1>3, <1>6, <1>8
<1>10. /\ executed' \in [EconSlots -> Seq(Seq(Characters))] /\ executed'[s] = ex
       /\ \A t \in EconSlots \ {s} : executed'[t] = executed[t]
  BY <1>0, <1>9 DEF EconTypes
<1>11. \E m \in 0 .. Len(typed[s]) : ex = LinesUpTo(typed[s])[m].ended
  BY <1>1, <1>7, <1>8
<1>12. ASSUME Drop(s) PROVE EconInv'
  BY <1>0, <1>6, <1>10, <1>11, <1>12, DropKeeps
<1>13. ASSUME econConn' = [econConn EXCEPT ![s].buffer = rest],
              econClient' \in [EconSlots -> [state : {"EMPTY", "CONNECTED", "AUTHED"}, tries : Nat]],
              econClient'[s].state # "EMPTY", \A t \in EconSlots \ {s} : econClient'[t] = econClient[t]
       PROVE  EconInv'
  <2>1. q + Len(rest) + u = Len(text)
    BY <1>2, <1>4, <1>7
  <2>2. q + Len(rest) + u = Len(typed[s]) /\ SyncAt(q, rest, typed[s], ex)
    BY <1>1, <1>7, <1>8, <2>1
  <2>3. underway' = [underway EXCEPT ![s] = u] /\ typed' = typed /\ econConn[s].state # "OFFLINE"
    BY <1>0, <1>1, <1>6 DEF EconTypes
  <2>. QED  BY <1>0, <1>2, <1>7, <1>9, <1>11, <1>13, <2>2, <2>3, BufferKeeps
<1>14. /\ econClient \in [EconSlots -> [state : {"EMPTY", "CONNECTED", "AUTHED"}, tries : Nat]]
       /\ econClient[s] \in [state : {"EMPTY", "CONNECTED", "AUTHED"}, tries : Nat]
       /\ econClient[s].state # "EMPTY"
  BY <1>0 DEF EconTypes, SlotOK
<1>15. CASE WrongPassword(s, line, rest) /\ econClient[s].state = "CONNECTED"
  <2>1. CASE Drop(s)
    BY <1>12, <2>1
  <2>2. CASE ~Drop(s)
    <3>1. PICK m : m = [econClient[s] EXCEPT !.tries = econClient[s].tries + 1]
      OBVIOUS
    <3>2. m \in [state : {"EMPTY", "CONNECTED", "AUTHED"}, tries : Nat] /\ m.state = econClient[s].state
      BY <1>14, <3>1
    <3>3. econConn' = [econConn EXCEPT ![s].buffer = rest] /\ econClient' = [econClient EXCEPT ![s] = m]
      BY <1>15, <2>2, <3>1 DEF WrongPassword
    <3>. QED  BY <1>13, <1>14, <3>2, <3>3
  <2>. QED  BY <2>1, <2>2
<1>16. CASE RightPassword(s, line, rest)
  <2>1. PICK m : m = [econClient[s] EXCEPT !.state = "AUTHED"]
    OBVIOUS
  <2>2. m \in [state : {"EMPTY", "CONNECTED", "AUTHED"}, tries : Nat] /\ m.state # "EMPTY"
    BY <1>14, <2>1
  <2>3. econConn' = [econConn EXCEPT ![s].buffer = rest] /\ econClient' = [econClient EXCEPT ![s] = m]
    BY <1>16, <2>1 DEF RightPassword
  <2>. QED  BY <1>13, <1>14, <2>2, <2>3
<1>17. CASE Command(s, line, rest)
  <2>1. CASE Drop(s)
    BY <1>12, <2>1
  <2>2. CASE ~Drop(s)
    <3>1. econConn' = [econConn EXCEPT ![s].buffer = rest] /\ econClient' = econClient
      BY <1>17, <2>2 DEF Command
    <3>. QED  BY <1>13, <1>14, <3>1
  <2>. QED  BY <2>1, <2>2
<1>18. econClient[s].state = "CONNECTED" \/ econClient[s].state = "AUTHED"
  BY <1>14
<1>19. \/ WrongPassword(s, line, rest) /\ econClient[s].state = "CONNECTED"
       \/ RightPassword(s, line, rest) \/ Command(s, line, rest)
  <2>1. CASE econClient[s].state = "CONNECTED"
    BY <1>6, <2>1
  <2>2. CASE econClient[s].state = "AUTHED"
    BY <1>6, <2>2
  <2>. QED  BY <1>18, <2>1, <2>2
<1>. QED  BY <1>15, <1>16, <1>17, <1>19

-----------------------------------------------------------------------------
LEMMA EconInvariance == EconSpec => []EconInv
<1>1. EconInit => EconInv
  <2>. SUFFICES ASSUME EconInit PROVE EconInv
    OBVIOUS
  <2>1. EconTypes
    BY DEF EconInit, EconTypes, ConnReset, EmptyClient
  <2>2. ASSUME NEW s \in EconSlots PROVE SlotOK(s)
    <3>1. <<>> \in Seq(Characters)
      OBVIOUS
    <3>2. PICK e : e = <<>> /\ e \in Seq(Characters)
      BY <3>1
    <3>3. LinesUpTo(e)[0] = NoText
      BY <3>2, LinesStep
    <3>4. /\ econConn[s].state = "OFFLINE" /\ econClient[s].state = "EMPTY"
          /\ typed[s] = e /\ executed[s] = <<>>
      BY <3>2 DEF EconInit, ConnReset, EmptyClient
    <3>5. 0 \in 0 .. Len(typed[s]) /\ executed[s] = LinesUpTo(typed[s])[0].ended
      BY <3>2, <3>3, <3>4 DEF NoText
    <3>. QED  BY <3>4, <3>5 DEF SlotOK
  <2>. QED  BY <2>1, <2>2 DEF EconInv
<1>2. EconInv /\ [EconNext]_econVars => EconInv'
  <2>0. SUFFICES ASSUME EconInv, [EconNext]_econVars PROVE EconInv'
    OBVIOUS
  <2>1. CASE UNCHANGED econVars
    BY <2>0, <2>1 DEF econVars, EconInv, EconTypes, SlotOK
  <2>2. ASSUME NEW s \in EconSlots, ConnectionFails(s) \/ AuthTimeout(s) PROVE EconInv'
    <3>1. Drop(s) /\ UNCHANGED <<typed, underway, executed>>
      BY <2>2 DEF ConnectionFails, AuthTimeout
    <3>2. executed \in [EconSlots -> Seq(Seq(Characters))] /\ SlotOK(s)
      BY <2>0 DEF EconInv, EconTypes
    <3>3. /\ executed' \in [EconSlots -> Seq(Seq(Characters))]
          /\ \A t \in EconSlots \ {s} : executed'[t] = executed[t]
          /\ \E m \in 0 .. Len(typed[s]) : executed'[s] = LinesUpTo(typed[s])[m].ended
      BY <3>1, <3>2 DEF SlotOK
    <3>. QED  BY <2>0, <3>1, <3>3, DropKeeps
  <2>3. ASSUME NEW s \in EconSlots, SendFails(s) PROVE EconInv'
    <3>0. EconTypes /\ SlotOK(s)
      BY <2>0 DEF EconInv
    <3>1. PICK m : m = [econConn[s] EXCEPT !.state = "ERROR"]
      OBVIOUS
    <3>2. econConn[s] \in Conns /\ econConn \in [EconSlots -> Conns]
      BY <3>0 DEF EconTypes, Conns
    <3>3. m \in Conns /\ m.state = "ERROR" /\ m.buffer = econConn[s].buffer
      BY <3>1, <3>2 DEF Conns
    <3>4. econConn' = [econConn EXCEPT ![s] = m] /\ econConn[s].state = "ONLINE"
          /\ UNCHANGED <<econClient, typed, underway, executed>>
      BY <2>3, <3>1 DEF SendFails
    <3>5. /\ econConn' \in [EconSlots -> Conns] /\ econConn'[s] = m
          /\ \A t \in EconSlots \ {s} : econConn'[t] = econConn[t]
      BY <3>2, <3>3, <3>4
    <3>6. EconTypes' /\ OthersStay(s)
      BY <3>0, <3>4, <3>5 DEF EconTypes, OthersStay, Conns
    <3>7. SlotOK(s)'
      BY <3>0, <3>3, <3>4, <3>5 DEF SlotOK
    <3>. QED  BY <2>0, <3>6, <3>7, OneSlot
  <2>4. ASSUME EconNext PROVE EconInv'
    <3>1. PICK s \in EconSlots :
            \/ \E ip \in EconIPs : AcceptClient(ip, s)
            \/ \E c \in Characters : Type(s, c)
            \/ \E n \in 1 .. MaxTyped : ReceivePiece(s, n)
            \/ ConnectionFails(s) \/ SendFails(s) \/ Compact(s) \/ RecvLine(s) \/ AuthTimeout(s)
      BY <2>4 DEF EconNext
    <3>2. \A n \in 1 .. MaxTyped : n \in Nat
      BY EconAssumption
    <3>. QED  BY <2>0, <2>2, <2>3, <3>1, <3>2, AcceptKeeps, TypeKeeps, ReceiveKeeps,
                 CompactionKeeps, LineKeeps
  <2>. QED  BY <2>0, <2>1, <2>4
<1>. QED  BY <1>1, <1>2, PTL DEF EconSpec

\* Whatever pieces TCP makes of what is typed, each executed line is a line that was
\* typed, whole and in its place (CConsoleNetConnection::Recv), and CEcon and
\* CNetConsole agree on the slots in use.
LEMMA LinesAlwaysWhole == EconSpec => []LinesAreWhole
<1>1. EconInv => LinesAreWhole
  <2>0. SUFFICES ASSUME EconInv, NEW s \in EconSlots
                 PROVE  /\ IsPrefix(executed[s], Lines(s))
                        /\ econClient[s].state = "EMPTY" <=> econConn[s].state = "OFFLINE"
    BY DEF LinesAreWhole
  <2>1. SlotOK(s) /\ typed[s] \in Seq(Characters)
    BY <2>0 DEF EconInv, EconTypes
  <2>2. PICK text : text = typed[s]
    OBVIOUS
  <2>3. PICK m \in 0 .. Len(text) : executed[s] = LinesUpTo(text)[m].ended
    BY <2>1, <2>2 DEF SlotOK
  <2>4. PICK n : n = Len(text)
    OBVIOUS
  <2>5. n \in m .. Len(text)
    BY <2>1, <2>2, <2>4
  <2>6. IsPrefix(LinesUpTo(text)[m].ended, LinesUpTo(text)[n].ended)
    BY <2>1, <2>2, <2>5, EndedStay
  <2>7. IsPrefix(executed[s], Lines(s))
    BY <2>2, <2>3, <2>4, <2>6 DEF Lines
  <2>. QED  BY <2>1, <2>7 DEF SlotOK
<1>. QED  BY <1>1, EconInvariance, PTL

\* An external line is executed whole and in the order in which it was typed, and a
\* client of the remote console has been told of, or will come to, every command it
\* may use (CConsoleNetConnection::Recv; CServer::UpdateClientRconCommands).
THEOREM ConsolesAlwaysHold == EconSpec /\ RconSpec => []ConsolesHold
<1>1. LinesAreWhole /\ RconListComplete => ConsolesHold
  BY DEF ConsolesHold
<1>2. RconInv => RconListComplete
  BY DEF RconInv
<1>. QED  BY <1>1, <1>2, LinesAlwaysWhole, RconInvariance, PTL

-----------------------------------------------------------------------------
(* Bans: bytes, prefixes and hashes.                                        *)

Ranges == [lb : Addr, ub : Addr]

\* The sums that hashes are made of.
LEMMA Sums ==
  ASSUME NEW a \in Addr
  PROVE  \E f \in [0 .. AddrLength -> Nat] :
           /\ f[0] = 0 /\ \A n \in 1 .. AddrLength : f[n] = f[n - 1] + a[n]
           /\ \A k \in 0 .. AddrLength : HashOf(a, k) = f[k] % HashSize
<1>. DEFINE N == AddrLength
            step == [n \in 1 .. N |-> [x \in Nat |-> x + a[n]]]
            Loop(f) == f = [n \in 0 .. N |-> IF n = 0 THEN 0 ELSE f[n - 1] + a[n]]
<1>1. N \in Nat /\ \A n \in 1 .. N : a[n] \in Nat
  BY BansAssumption DEF Addr
<1>. HIDE DEF N
<1>2. step \in Turns(N, Nat) /\ 0 \in Nat
  BY <1>1 DEF Turns
<1>3. PICK g \in [0 .. N -> Nat] : Runs(g, 0, step, N)
  <2>. HIDE DEF step
  <2>. QED  BY <1>1, <1>2, RunExists
<1>4. \A n \in 1 .. N : n - 1 \in 0 .. N /\ n \in 0 .. N /\ n # 0
  BY <1>1
<1>5. g[0] = 0 /\ \A n \in 1 .. N : g[n] = g[n - 1] + a[n]
  BY <1>3, <1>4 DEF Runs
<1>6. Loop(g)
  <2>1. \A n \in 0 .. N : n = 0 \/ n \in 1 .. N
    BY <1>1
  <2>2. \A n \in 0 .. N : g[n] = IF n = 0 THEN 0 ELSE g[n - 1] + a[n]
    BY <1>5, <2>1
  <2>. QED  BY <2>2
<1>7. PICK f : f = (CHOOSE l : Loop(l)) /\ Loop(f)
  <2>. HIDE DEF Loop
  <2>. QED  BY <1>6
<1>8. f[0] = 0 /\ \A n \in 1 .. N : f[n] = f[n - 1] + a[n]
  <2>1. 0 \in 0 .. N
    BY <1>1
  <2>. QED  BY <1>4, <1>7, <2>1
<1>9. \A n \in 0 .. N : f[n] \in Nat
  <2>. DEFINE T == {n \in 0 .. N : f[n] \in Nat}
  <2>1. 0 \in T
    BY <1>1, <1>8
  <2>2. ASSUME NEW n \in 1 .. N, n - 1 \in T PROVE n \in T
    <3>1. f[n - 1] \in Nat /\ a[n] \in Nat /\ n \in 0 .. N /\ f[n] = f[n - 1] + a[n]
      BY <1>1, <1>4, <1>8, <2>2
    <3>2. PICK x \in Nat, y \in Nat : x = f[n - 1] /\ y = a[n]
      BY <3>1
    <3>. QED  BY <3>1, <3>2
  <2>3. \A n \in 0 .. N : n \in T
    <3>. HIDE DEF T
    <3>. QED  BY <1>1, <2>1, <2>2, NumbersUpTo
  <2>. QED  BY <2>3
<1>10. \A k \in 0 .. N : HashOf(a, k) = f[k] % HashSize
  BY <1>7 DEF HashOf, N
<1>11. f \in [0 .. N -> Nat]
  <2>1. f = [n \in 0 .. N |-> IF n = 0 THEN 0 ELSE f[n - 1] + a[n]]
    BY <1>7
  <2>2. \A n \in 0 .. N : (IF n = 0 THEN 0 ELSE f[n - 1] + a[n]) \in Nat
    <3>1. \A n \in 0 .. N : f[n] = IF n = 0 THEN 0 ELSE f[n - 1] + a[n]
      BY <2>1
    <3>. QED  BY <1>9, <3>1
  <2>. QED  BY <2>1, <2>2
<1>. QED  BY <1>8, <1>10, <1>11 DEF N

\* A hash is a place of a hash list.
LEMMA HashType ==
  ASSUME NEW a \in Addr, NEW k \in 0 .. AddrLength
  PROVE  HashOf(a, k) \in 0 .. HashSize - 1
<1>1. PICK f \in [0 .. AddrLength -> Nat] : HashOf(a, k) = f[k] % HashSize
  BY Sums
<1>2. PICK x \in Nat : x = f[k]
  OBVIOUS
<1>3. x % HashSize \in 0 .. HashSize - 1
  BY BansAssumption
<1>. QED  BY <1>1, <1>2, <1>3

\* A hash depends on the bytes it is of.
LEMMA SameHash ==
  ASSUME NEW a \in Addr, NEW b \in Addr, NEW k \in 0 .. AddrLength, \A j \in 1 .. k : a[j] = b[j]
  PROVE  HashOf(a, k) = HashOf(b, k)
<1>1. PICK f \in [0 .. AddrLength -> Nat] :
        /\ f[0] = 0 /\ \A n \in 1 .. AddrLength : f[n] = f[n - 1] + a[n]
        /\ \A i \in 0 .. AddrLength : HashOf(a, i) = f[i] % HashSize
  BY Sums
<1>2. PICK g \in [0 .. AddrLength -> Nat] :
        /\ g[0] = 0 /\ \A n \in 1 .. AddrLength : g[n] = g[n - 1] + b[n]
        /\ \A i \in 0 .. AddrLength : HashOf(b, i) = g[i] % HashSize
  BY Sums
<1>. DEFINE T == {n \in 0 .. k : f[n] = g[n]}
<1>3. k \in Nat /\ AddrLength \in Nat /\ 0 \in T
  BY <1>1, <1>2, BansAssumption
<1>4. \A n \in 1 .. k : n - 1 \in T => n \in T
  <2>1. \A n \in 1 .. k : n \in 1 .. AddrLength /\ n \in 0 .. k
    BY <1>3
  <2>. QED  BY <1>1, <1>2, <2>1
<1>5. \A n \in 0 .. k : n \in T
  <2>. HIDE DEF T
  <2>. QED  BY <1>3, <1>4, NumbersUpTo
<1>6. f[k] = g[k]
  BY <1>3, <1>5
<1>. QED  BY <1>1, <1>2, <1>6

\* The bytes that the bounds of a range share.
LEMMA SharedBytes ==
  ASSUME NEW d \in Ranges, d.lb # d.ub
  PROVE  /\ Shared(d) \in 0 .. AddrLength - 1
         /\ d.lb[Shared(d) + 1] # d.ub[Shared(d) + 1]
         /\ \A j \in 1 .. Shared(d) : d.lb[j] = d.ub[j]
<1>. DEFINE N == AddrLength
            P(k) == d.lb[k + 1] # d.ub[k + 1] /\ \A j \in 1 .. k : d.lb[j] = d.ub[j]
            T == {k \in 0 .. N - 1 : d.lb[k + 1] # d.ub[k + 1]}
<1>1. N \in Nat /\ d.lb \in [1 .. N -> Bytes] /\ d.ub \in [1 .. N -> Bytes]
  BY BansAssumption DEF Ranges, Addr
<1>2. PICK n \in 1 .. N : d.lb[n] # d.ub[n]
  <2>1. (\A n \in 1 .. N : d.lb[n] = d.ub[n]) => d.lb = d.ub
    BY <1>1
  <2>. QED  BY <2>1
<1>3. n - 1 \in 0 .. N - 1 /\ n - 1 + 1 = n
  BY <1>1
<1>4. T # {} /\ T \in SUBSET Nat
  <2>1. n - 1 \in T
    BY <1>2, <1>3
  <2>2. T \in SUBSET Nat
    BY <1>1
  <2>. QED  BY <2>1, <2>2
<1>5. PICK k \in T : \A i \in T : k <= i
  <2>. HIDE DEF T
  <2>. QED  BY <1>4, SmallestNumber
<1>6. k \in 0 .. N - 1 /\ d.lb[k + 1] # d.ub[k + 1]
  BY <1>5
<1>7. \A j \in 1 .. k : d.lb[j] = d.ub[j]
  <2>1. ASSUME NEW j \in 1 .. k PROVE d.lb[j] = d.ub[j]
    <3>1. j - 1 \in 0 .. N - 1 /\ j - 1 + 1 = j /\ ~(k <= j - 1)
      BY <1>1, <1>6
    <3>. QED  BY <1>5, <3>1
  <2>. QED  BY <2>1
<1>8. P(k) /\ Shared(d) = CHOOSE i \in 0 .. N - 1 : P(i)
  BY <1>6, <1>7 DEF Shared
<1>9. Shared(d) \in 0 .. N - 1 /\ P(Shared(d))
  <2>. HIDE DEF P, N
  <2>. QED  BY <1>6, <1>8
<1>. QED  BY <1>9

\* So is that of a range, with the number of bytes that it is of.
LEMMA NetHashType ==
  ASSUME NEW d \in Ranges
  PROVE  NetHash(d) \in Hashes
<1>1. AddrLength \in Nat /\ AddrLength # 0 /\ d.lb \in Addr /\ d.ub \in Addr
  BY BansAssumption DEF Ranges
<1>2. CASE d.lb = d.ub
  <2>1. AddrLength \in 0 .. AddrLength /\ 0 \in 0 .. AddrLength - 1
    BY <1>1
  <2>2. HashOf(d.lb, AddrLength) \in 0 .. HashSize - 1
    BY <1>1, <2>1, HashType
  <2>. QED  BY <1>2, <2>1, <2>2 DEF NetHash, Hashes
<1>3. CASE d.lb # d.ub
  <2>1. Shared(d) \in 0 .. AddrLength - 1
    BY <1>3, SharedBytes
  <2>2. Shared(d) \in 0 .. AddrLength
    BY <1>1, <2>1
  <2>3. HashOf(d.lb, Shared(d)) \in 0 .. HashSize - 1
    BY <1>1, <2>2, HashType
  <2>. QED  BY <1>3, <2>1, <2>3 DEF NetHash, Hashes
<1>. QED  BY <1>2, <1>3

\* Bytes that are the same need not be compared.
LEMMA EqualBytes ==
  ASSUME NEW a \in Addr, NEW b \in Addr, NEW k \in 0 .. AddrLength, \A j \in 1 .. k : a[j] = b[j]
  PROVE  (Upto(a, b, 0) => Upto(a, b, k)) /\ (Upto(a, b, k) => Upto(a, b, 0))
<1>0. \A j \in 1 .. k : a[j] = b[j]
  OBVIOUS
<1>1. AddrLength \in Nat /\ k \in Nat /\ k <= AddrLength /\ \A j \in 1 .. AddrLength : a[j] \in Nat /\ b[j] \in Nat
  <2>1. AddrLength \in Nat /\ Bytes \subseteq Nat
    BY BansAssumption
  <2>2. k \in Nat /\ k <= AddrLength
    BY <2>1
  <2>. QED  BY <2>1, <2>2 DEF Addr
<1>2. ASSUME Upto(a, b, 0) PROVE Upto(a, b, k)
  <2>1. CASE \A j \in 0 + 1 .. AddrLength : a[j] = b[j]
    <3>1. \A j \in k + 1 .. AddrLength : j \in 0 + 1 .. AddrLength
      BY <1>1
    <3>. QED  BY <2>1, <3>1 DEF Upto
  <2>2. CASE \E j \in 0 + 1 .. AddrLength : a[j] < b[j] /\ \A i \in 0 + 1 .. j - 1 : a[i] = b[i]
    <3>1. PICK j \in 0 + 1 .. AddrLength : a[j] < b[j] /\ \A i \in 0 + 1 .. j - 1 : a[i] = b[i]
      BY <2>2
    <3>2. j \notin 1 .. k
      <4>1. j \in 1 .. AddrLength /\ ~(a[j] = b[j])
        BY <1>1, <3>1
      <4>. QED  BY <1>0, <4>1
    <3>3. j \in k + 1 .. AddrLength /\ \A i \in k + 1 .. j - 1 : i \in 0 + 1 .. j - 1
      BY <1>1, <3>2
    <3>. QED  BY <3>1, <3>3 DEF Upto
  <2>. QED  BY <1>2, <2>1, <2>2 DEF Upto
<1>3. ASSUME Upto(a, b, k) PROVE Upto(a, b, 0)
  <2>1. CASE \A j \in k + 1 .. AddrLength : a[j] = b[j]
    <3>1. \A j \in 0 + 1 .. AddrLength : j \in 1 .. k \/ j \in k + 1 .. AddrLength
      BY <1>1
    <3>. QED  BY <1>0, <2>1, <3>1 DEF Upto
  <2>2. CASE \E j \in k + 1 .. AddrLength : a[j] < b[j] /\ \A i \in k + 1 .. j - 1 : a[i] = b[i]
    <3>1. PICK j \in k + 1 .. AddrLength : a[j] < b[j] /\ \A i \in k + 1 .. j - 1 : a[i] = b[i]
      BY <2>2
    <3>2. j \in 0 + 1 .. AddrLength /\ \A i \in 0 + 1 .. j - 1 : i \in 1 .. k \/ i \in k + 1 .. j - 1
      BY <1>1
    <3>. QED  BY <1>0, <3>1, <3>2 DEF Upto
  <2>. QED  BY <1>3, <2>1, <2>2 DEF Upto
<1>. QED  BY <1>2, <1>3

\* What lies between the bounds has the bytes that they share.
LEMMA Between ==
  ASSUME NEW lb \in Addr, NEW ub \in Addr, NEW a \in Addr, NEW k \in 0 .. AddrLength,
         \A j \in 1 .. k : lb[j] = ub[j], Upto(lb, a, 0), Upto(a, ub, 0)
  PROVE  \A j \in 1 .. k : lb[j] = a[j]
<1>0. SUFFICES ASSUME \A j \in 1 .. k : lb[j] = ub[j], Upto(lb, a, 0), Upto(a, ub, 0),
                      NEW j0 \in 1 .. k, lb[j0] # a[j0]
               PROVE  FALSE
  OBVIOUS
<1>1. /\ AddrLength \in Nat /\ k \in Nat /\ k <= AddrLength
      /\ \A j \in 1 .. AddrLength : lb[j] \in Nat /\ ub[j] \in Nat /\ a[j] \in Nat
  <2>1. AddrLength \in Nat /\ Bytes \subseteq Nat
    BY BansAssumption
  <2>2. k \in Nat /\ k <= AddrLength
    BY <2>1
  <2>3. \A x \in Addr : \A j \in 1 .. AddrLength : x[j] \in Nat
    BY <2>1 DEF Addr
  <2>. QED  BY <2>1, <2>2, <2>3
<1>2. j0 \in 1 .. AddrLength /\ j0 \in 0 + 1 .. AddrLength
  BY <1>1
<1>3. PICK i \in 0 + 1 .. AddrLength : lb[i] < a[i] /\ \A j \in 0 + 1 .. i - 1 : lb[j] = a[j]
  BY <1>0, <1>2 DEF Upto
<1>4. i \in 1 .. k /\ i \in 1 .. AddrLength
  <2>1. ~(j0 \in 0 + 1 .. i - 1)
    BY <1>0, <1>3
  <2>. QED  BY <1>1, <1>2, <2>1
<1>5. ub[i] < a[i]
  BY <1>0, <1>3, <1>4
<1>6. ~(a[i] = ub[i]) /\ ~(a[i] < ub[i])
  BY <1>1, <1>4, <1>5
<1>7. PICK n \in 0 + 1 .. AddrLength : a[n] < ub[n] /\ \A j \in 0 + 1 .. n - 1 : a[j] = ub[j]
  BY <1>0, <1>3, <1>6 DEF Upto
<1>8. n \in 1 .. AddrLength /\ n # i /\ ~(i \in 0 + 1 .. n - 1)
  BY <1>6, <1>7
<1>9. n \in 0 + 1 .. i - 1 /\ n \in 1 .. k
  BY <1>1, <1>4, <1>8
<1>10. lb[n] = a[n] /\ lb[n] = ub[n]
  BY <1>0, <1>3, <1>9
<1>. QED  BY <1>1, <1>7, <1>8, <1>10

\* A range is found under the prefix that its bounds share exactly by the addresses
\* that are in it.
LEMMA MatchByPrefix ==
  ASSUME NEW d \in Ranges, d.lb # d.ub, NEW a \in Addr
  PROVE  /\ NetMatch(d, a, 0) <=> NetMatch(d, a, Shared(d))
         /\ NetMatch(d, a, 0) => HashOf(d.lb, Shared(d)) = HashOf(a, Shared(d))
<1>1. PICK k, lb, ub : k = Shared(d) /\ lb = d.lb /\ ub = d.ub
  OBVIOUS
<1>2. lb \in Addr /\ ub \in Addr /\ k \in 0 .. AddrLength - 1 /\ \A j \in 1 .. k : lb[j] = ub[j]
  BY <1>1, SharedBytes DEF Ranges
<1>3. k \in 0 .. AddrLength
  BY <1>2, BansAssumption
<1>4. NetMatch(d, a, 0) <=> Upto(lb, a, 0) /\ Upto(a, ub, 0)
  BY <1>1 DEF NetMatch
<1>5. NetMatch(d, a, k) <=> (\A j \in 1 .. k : lb[j] = a[j]) /\ Upto(lb, a, k) /\ Upto(a, ub, k)
  BY <1>1 DEF NetMatch
<1>6. ASSUME \A j \in 1 .. k : lb[j] = a[j]
      PROVE  /\ (Upto(lb, a, 0) => Upto(lb, a, k)) /\ (Upto(lb, a, k) => Upto(lb, a, 0))
             /\ (Upto(a, ub, 0) => Upto(a, ub, k)) /\ (Upto(a, ub, k) => Upto(a, ub, 0))
             /\ HashOf(lb, k) = HashOf(a, k)
  <2>1. \A j \in 1 .. k : a[j] = ub[j]
    BY <1>2, <1>6
  <2>2. (Upto(lb, a, 0) => Upto(lb, a, k)) /\ (Upto(lb, a, k) => Upto(lb, a, 0))
    BY <1>2, <1>3, <1>6, EqualBytes
  <2>3. (Upto(a, ub, 0) => Upto(a, ub, k)) /\ (Upto(a, ub, k) => Upto(a, ub, 0))
    BY <1>2, <1>3, <2>1, EqualBytes
  <2>4. HashOf(lb, k) = HashOf(a, k)
    BY <1>2, <1>3, <1>6, SameHash
  <2>. QED  BY <2>2, <2>3, <2>4
<1>7. NetMatch(d, a, 0) => \A j \in 1 .. k : lb[j] = a[j]
  BY <1>2, <1>3, <1>4, Between
<1>8. NetMatch(d, a, 0) <=> NetMatch(d, a, k)
  BY <1>4, <1>5, <1>6, <1>7
<1>9. NetMatch(d, a, 0) => HashOf(lb, k) = HashOf(a, k)
  BY <1>6, <1>7
<1>. QED  BY <1>1, <1>8, <1>9

-----------------------------------------------------------------------------
(* The list of a pool: in order of expiry, one entry for what is banned.    *)

Sorted(used) ==
  \A i, j \in DOMAIN used : i < j /\ used[j].expires # Never => used[i].expires \in 0 .. used[j].expires

OneEach(used) == \A i, j \in DOMAIN used : used[i].data = used[j].data => i = j

Bannings(used) == {used[i].data : i \in DOMAIN used}

\* Leaving out entries keeps the order.
LEMMA PartOfList ==
  ASSUME NEW u \in Seq(Ban), NEW v \in Seq(Ban), NEW g \in [1 .. Len(v) -> 1 .. Len(u)],
         \A i, j \in 1 .. Len(v) : i < j => g[i] < g[j],
         \A i \in 1 .. Len(v) : v[i] = u[g[i]]
  PROVE  (Sorted(u) => Sorted(v)) /\ (OneEach(u) => OneEach(v))
<1>1. DOMAIN u = 1 .. Len(u) /\ DOMAIN v = 1 .. Len(v) /\ Len(u) \in Nat /\ Len(v) \in Nat
  OBVIOUS
<1>2. ASSUME Sorted(u) PROVE Sorted(v)
  <2>1. ASSUME NEW i \in 1 .. Len(v), NEW j \in 1 .. Len(v), i < j, v[j].expires # Never
        PROVE  v[i].expires \in 0 .. v[j].expires
    <3>1. g[i] \in 1 .. Len(u) /\ g[j] \in 1 .. Len(u) /\ g[i] < g[j] /\ v[i] = u[g[i]] /\ v[j] = u[g[j]]
      BY <2>1
    <3>. QED  BY <1>1, <1>2, <2>1, <3>1 DEF Sorted
  <2>. QED  BY <1>1, <2>1 DEF Sorted
<1>3. ASSUME OneEach(u) PROVE OneEach(v)
  <2>1. ASSUME NEW i \in 1 .. Len(v), NEW j \in 1 .. Len(v), v[i].data = v[j].data
        PROVE  i = j
    <3>1. g[i] \in 1 .. Len(u) /\ g[j] \in 1 .. Len(u) /\ v[i] = u[g[i]] /\ v[j] = u[g[j]]
      OBVIOUS
    <3>2. g[i] = g[j]
      BY <1>1, <1>3, <2>1, <3>1 DEF OneEach
    <3>3. ~(g[i] < g[j]) /\ ~(g[j] < g[i])
      BY <1>1, <3>1, <3>2
    <3>. QED  BY <1>1, <3>3
  <2>. QED  BY <1>1, <2>1 DEF OneEach
<1>. QED  BY <1>2, <1>3

\* InsertAt, entry by entry.
EntryInserted(S, u, i, b) ==
  /\ InsertAt(u, i, b) \in Seq(S) /\ Len(InsertAt(u, i, b)) = Len(u) + 1
  /\ \A j \in 1 .. Len(u) + 1 :
       InsertAt(u, i, b)[j] = IF j < i THEN u[j] ELSE IF j = i THEN b ELSE u[j - 1]

\* What Insert does to a list at a place.
LEMMA Inserted ==
  ASSUME NEW S, NEW u \in Seq(S), NEW b \in S, NEW i \in 1 .. Len(u) + 1
  PROVE  EntryInserted(S, u, i, b)
<1>. DEFINE n == Len(u)
            x == SubSeq(u, 1, i - 1)
            y == SubSeq(u, i, n)
            xb == x \o <<b>>
            v == xb \o y
<1>1. n \in Nat /\ i \in Int /\ i - 1 \in Int /\ (\A j \in 1 .. i - 1 : j \in 1 .. n) /\ \A j \in i .. n : j \in 1 .. n
  OBVIOUS
<1>2. x \in Seq(S) /\ Len(x) = i - 1 /\ \A j \in 1 .. i - 1 : x[j] = u[j]
  <2>1. PICK k : k = i - 1
    OBVIOUS
  <2>2. \A j \in 1 .. k : u[j] \in S
    BY <1>1, <2>1
  <2>3. /\ SubSeq(u, 1, k) \in Seq(S) /\ Len(SubSeq(u, 1, k)) = (IF 1 <= k THEN k - 1 + 1 ELSE 0)
        /\ \A j \in 1 .. k - 1 + 1 : SubSeq(u, 1, k)[j] = u[1 + j - 1]
    BY <1>1, <2>1, <2>2, SubSeqProperties
  <2>4. (IF 1 <= k THEN k - 1 + 1 ELSE 0) = k /\ k - 1 + 1 = k /\ \A j \in 1 .. k : 1 + j - 1 = j
    BY <1>1, <2>1
  <2>. QED  BY <2>1, <2>3, <2>4
<1>3. y \in Seq(S) /\ Len(y) = n - i + 1 /\ \A j \in 1 .. n - i + 1 : y[j] = u[i + j - 1]
  <2>1. PICK m : m = n
    OBVIOUS
  <2>2. \A j \in i .. m : u[j] \in S
    BY <1>1, <2>1
  <2>3. /\ SubSeq(u, i, m) \in Seq(S) /\ Len(SubSeq(u, i, m)) = (IF i <= m THEN m - i + 1 ELSE 0)
        /\ \A j \in 1 .. m - i + 1 : SubSeq(u, i, m)[j] = u[i + j - 1]
    BY <1>1, <2>1, <2>2, SubSeqProperties
  <2>4. (IF i <= m THEN m - i + 1 ELSE 0) = m - i + 1
    BY <1>1, <2>1
  <2>. QED  BY <2>1, <2>3, <2>4
<1>4. <<b>> \in Seq(S) /\ Len(<<b>>) = 1 /\ <<b>>[1] = b
  OBVIOUS
<1>. HIDE DEF x, y
<1>5. /\ xb \in Seq(S) /\ Len(xb) = Len(x) + Len(<<b>>)
      /\ \A j \in 1 .. Len(x) + Len(<<b>>) : xb[j] = IF j <= Len(x) THEN x[j] ELSE <<b>>[j - Len(x)]
  BY <1>2, <1>4, ConcatProperties
<1>. HIDE DEF xb
<1>6. Len(xb) = i /\ (\A j \in 1 .. i - 1 : xb[j] = u[j]) /\ xb[i] = b
  <2>1. Len(x) + Len(<<b>>) = i /\ i \in 1 .. i /\ ~(i <= i - 1) /\ i - (i - 1) = 1
        /\ \A j \in 1 .. i - 1 : j \in 1 .. i /\ j <= i - 1
    <3>1. PICK l, o : l = Len(x) /\ o = Len(<<b>>)
      OBVIOUS
    <3>2. l = i - 1 /\ o = 1 /\ i \in Nat /\ i # 0
      BY <1>1, <1>2, <1>4, <3>1
    <3>3. l + o = i /\ i \in 1 .. i /\ ~(i <= i - 1) /\ i - (i - 1) = 1
          /\ \A j \in 1 .. i - 1 : j \in 1 .. i /\ j <= i - 1
      BY <3>2
    <3>. QED  BY <3>1, <3>3
  <2>2. xb[i] = <<b>>[1]
    BY <1>2, <1>5, <2>1
  <2>. QED  BY <1>2, <1>4, <1>5, <2>1, <2>2
<1>7. /\ v \in Seq(S) /\ Len(v) = Len(xb) + Len(y)
      /\ \A j \in 1 .. Len(xb) + Len(y) : v[j] = IF j <= Len(xb) THEN xb[j] ELSE y[j - Len(xb)]
  <2>1. xb \in Seq(S) /\ y \in Seq(S)
    BY <1>3, <1>5
  <2>. QED  BY <2>1, ConcatProperties
<1>. HIDE DEF v
<1>8. Len(xb) + Len(y) = n + 1
  BY <1>1, <1>3, <1>6
<1>9. ASSUME NEW j \in 1 .. n + 1
      PROVE  v[j] = IF j < i THEN u[j] ELSE IF j = i THEN b ELSE u[j - 1]
  <2>1. v[j] = IF j <= i THEN xb[j] ELSE y[j - i]
    BY <1>6, <1>7, <1>8
  <2>2. CASE j < i
    <3>1. j \in 1 .. i - 1 /\ j <= i
      BY <1>1, <2>2
    <3>. QED  BY <1>6, <2>1, <2>2, <3>1
  <2>3. CASE j = i
    <3>1. j <= i /\ ~(j < i)
      BY <1>1, <2>3
    <3>. QED  BY <1>6, <2>1, <2>3, <3>1
  <2>4. CASE j > i
    <3>1. ~(j <= i) /\ ~(j < i) /\ j # i /\ j - i \in 1 .. n - i + 1 /\ i + (j - i) - 1 = j - 1
      BY <1>1, <2>4
    <3>2. y[j - i] = u[j - 1]
      BY <1>3, <3>1
    <3>. QED  BY <2>1, <3>1, <3>2
  <2>5. j < i \/ j = i \/ j > i
    BY <1>1
  <2>. QED  BY <2>2, <2>3, <2>4, <2>5
<1>10. InsertAt(u, i, b) = v
  BY DEF InsertAt, v, xb, x, y
<1>. QED  BY <1>7, <1>8, <1>9, <1>10 DEF EntryInserted

\* RemoveAt, entry by entry.
LEMMA Removed ==
  ASSUME NEW S, NEW u \in Seq(S), NEW i \in 1 .. Len(u)
  PROVE  /\ RemoveAt(u, i) \in Seq(S) /\ Len(RemoveAt(u, i)) = Len(u) - 1
         /\ \A j \in 1 .. Len(u) - 1 : RemoveAt(u, i)[j] = IF j < i THEN u[j] ELSE u[j + 1]
<1>. DEFINE n == Len(u)
            x == SubSeq(u, 1, i - 1)
            y == SubSeq(u, i + 1, n)
            v == x \o y
<1>1. n \in Nat /\ i \in Int /\ i - 1 \in Int /\ i + 1 \in Int
      /\ (\A j \in 1 .. i - 1 : j \in 1 .. n) /\ \A j \in i + 1 .. n : j \in 1 .. n
  OBVIOUS
<1>2. x \in Seq(S) /\ Len(x) = i - 1 /\ \A j \in 1 .. i - 1 : x[j] = u[j]
  <2>1. PICK k : k = i - 1
    OBVIOUS
  <2>2. \A j \in 1 .. k : u[j] \in S
    BY <1>1, <2>1
  <2>3. /\ SubSeq(u, 1, k) \in Seq(S) /\ Len(SubSeq(u, 1, k)) = (IF 1 <= k THEN k - 1 + 1 ELSE 0)
        /\ \A j \in 1 .. k - 1 + 1 : SubSeq(u, 1, k)[j] = u[1 + j - 1]
    BY <1>1, <2>1, <2>2, SubSeqProperties
  <2>4. (IF 1 <= k THEN k - 1 + 1 ELSE 0) = k /\ k - 1 + 1 = k /\ \A j \in 1 .. k : 1 + j - 1 = j
    BY <1>1, <2>1
  <2>. QED  BY <2>1, <2>3, <2>4
<1>3. y \in Seq(S) /\ Len(y) = n - i /\ \A j \in 1 .. n - i : y[j] = u[i + j]
  <2>1. PICK m, k : m = n /\ k = i + 1
    OBVIOUS
  <2>2. \A j \in k .. m : u[j] \in S
    BY <1>1, <2>1
  <2>3. /\ SubSeq(u, k, m) \in Seq(S) /\ Len(SubSeq(u, k, m)) = (IF k <= m THEN m - k + 1 ELSE 0)
        /\ \A j \in 1 .. m - k + 1 : SubSeq(u, k, m)[j] = u[k + j - 1]
    BY <1>1, <2>1, <2>2, SubSeqProperties
  <2>4. (IF k <= m THEN m - k + 1 ELSE 0) = m - i /\ m - k + 1 = m - i /\ \A j \in 1 .. m - i : k + j - 1 = i + j
    BY <1>1, <2>1
  <2>. QED  BY <2>1, <2>3, <2>4
<1>. HIDE DEF x, y
<1>4. /\ v \in Seq(S) /\ Len(v) = Len(x) + Len(y)
      /\ \A j \in 1 .. Len(x) + Len(y) : v[j] = IF j <= Len(x) THEN x[j] ELSE y[j - Len(x)]
  BY <1>2, <1>3, ConcatProperties
<1>. HIDE DEF v
<1>5. Len(x) + Len(y) = n - 1
  BY <1>1, <1>2, <1>3
<1>6. ASSUME NEW j \in 1 .. n - 1 PROVE v[j] = IF j < i THEN u[j] ELSE u[j + 1]
  <2>1. v[j] = IF j <= i - 1 THEN x[j] ELSE y[j - (i - 1)]
    BY <1>2, <1>4, <1>5
  <2>2. CASE j < i
    <3>1. j \in 1 .. i - 1 /\ j <= i - 1
      BY <1>1, <2>2
    <3>. QED  BY <1>2, <2>1, <2>2, <3>1
  <2>3. CASE ~(j < i)
    <3>1. ~(j <= i - 1) /\ j - (i - 1) \in 1 .. n - i /\ i + (j - (i - 1)) = j + 1
      BY <1>1, <2>3
    <3>2. y[j - (i - 1)] = u[j + 1]
      BY <1>3, <3>1
    <3>. QED  BY <2>1, <2>3, <3>1, <3>2
  <2>. QED  BY <2>2, <2>3
<1>7. RemoveAt(u, i) = v
  BY DEF RemoveAt, v, x, y
<1>. QED  BY <1>4, <1>5, <1>6, <1>7

\* What Insert does to the list.
LEMMA InsertKeeps ==
  ASSUME NEW u \in Seq(Ban), Sorted(u), OneEach(u), NEW b \in Ban, b.data \notin Bannings(u)
  PROVE  LET v == Insert(u, b)
         IN  v \in Seq(Ban) /\ Sorted(v) /\ OneEach(v) /\ Bannings(v) = Bannings(u) \union {b.data}
<1>. DEFINE n == Len(u)
            at == {j \in DOMAIN u : Before(b, u[j])}
            First(k) == \A j \in at : k <= j
<1>0. Sorted(u) /\ OneEach(u) /\ b.data \notin Bannings(u)
  OBVIOUS
<1>1. n \in Nat /\ DOMAIN u = 1 .. n /\ at \in SUBSET Nat
  OBVIOUS
<1>2. PICK i \in 1 .. n + 1 : /\ Insert(u, b) = InsertAt(u, i, b)
                              /\ \A j \in 1 .. i - 1 : ~Before(b, u[j])
                              /\ i <= n => Before(b, u[i])
  <2>1. CASE at = {}
    <3>1. Insert(u, b) = InsertAt(u, n + 1, b)
      BY <2>1 DEF Insert
    <3>2. n + 1 \in 1 .. n + 1 /\ ~(n + 1 <= n) /\ \A j \in 1 .. n + 1 - 1 : j \in DOMAIN u
      BY <1>1
    <3>3. \A j \in 1 .. n + 1 - 1 : ~Before(b, u[j])
      BY <2>1, <3>2
    <3>. QED  BY <3>1, <3>2, <3>3
  <2>2. CASE at # {}
    <3>1. \E k \in at : First(k)
      <4>. HIDE DEF at
      <4>. QED  BY <1>1, <2>2, SmallestNumber
    <3>2. PICK k : k = CHOOSE j \in at : First(j)
      OBVIOUS
    <3>3. k \in at /\ First(k)
      <4>. HIDE DEF First, at
      <4>. QED  BY <3>1, <3>2
    <3>4. Insert(u, b) = InsertAt(u, k, b)
      BY <2>2, <3>2 DEF Insert
    <3>5. k \in 1 .. n /\ k \in 1 .. n + 1 /\ Before(b, u[k])
      BY <1>1, <3>3
    <3>6. \A j \in 1 .. k - 1 : ~Before(b, u[j])
      <4>1. \A j \in 1 .. k - 1 : j \in DOMAIN u /\ ~(k <= j)
        BY <1>1, <3>5
      <4>. QED  BY <3>3, <4>1
    <3>. QED  BY <3>4, <3>5, <3>6
  <2>. QED  BY <2>1, <2>2
<1>3. PICK v : v = Insert(u, b)
  OBVIOUS
<1>4. /\ v \in Seq(Ban) /\ Len(v) = n + 1
      /\ \A j \in 1 .. n + 1 : v[j] = IF j < i THEN u[j] ELSE IF j = i THEN b ELSE u[j - 1]
  <2>1. PICK R : R = Ban
    OBVIOUS
  <2>2. /\ InsertAt(u, i, b) \in Seq(R) /\ Len(InsertAt(u, i, b)) = Len(u) + 1
        /\ \A j \in 1 .. Len(u) + 1 :
             InsertAt(u, i, b)[j] = IF j < i THEN u[j] ELSE IF j = i THEN b ELSE u[j - 1]
    <3>1. u \in Seq(R) /\ b \in R /\ i \in 1 .. Len(u) + 1
      BY <2>1
    <3>2. EntryInserted(R, u, i, b)
      BY <3>1, Inserted
    <3>. QED  BY <3>2 DEF EntryInserted
  <2>3. v = InsertAt(u, i, b)
    BY <1>2, <1>3
  <2>. QED  BY <2>2, <2>3
<1>5. DOMAIN v = 1 .. n + 1
  BY <1>1, <1>4
<1>6. /\ \A j \in 1 .. n : u[j] \in Ban /\ u[j].expires \in {Never} \union Nat
      /\ b.expires \in {Never} \union Nat
  <2>1. \A j \in 1 .. n : u[j] \in Ban
    BY <1>1
  <2>2. \A x \in Ban : x.expires \in {Never} \union Nat
    BY DEF Ban
  <2>. QED  BY <2>1, <2>2
<1>. HIDE DEF at, First
<1>7. \A j \in 1 .. n + 1 : \/ j \in 1 .. n /\ j < i /\ v[j] = u[j]
                            \/ j = i /\ v[j] = b
                            \/ j - 1 \in 1 .. n /\ j > i /\ j - 1 >= i /\ v[j] = u[j - 1]
  <2>1. \A j \in 1 .. n + 1 : \/ j \in 1 .. n /\ j < i
                              \/ j = i /\ ~(j < i)
                              \/ j - 1 \in 1 .. n /\ j > i /\ j - 1 >= i /\ ~(j < i) /\ j # i
    BY <1>1
  <2>. QED  BY <1>4, <2>1
<1>8. \A j \in 1 .. n : j < i => \/ b.expires = Never /\ u[j].expires # Never
                                 \/ u[j].expires \in Nat /\ b.expires \in Nat /\ u[j].expires < b.expires
  <2>1. ASSUME NEW j \in 1 .. n, j < i
        PROVE  \/ b.expires = Never /\ u[j].expires # Never
               \/ u[j].expires \in Nat /\ b.expires \in Nat /\ u[j].expires < b.expires
    <3>1. j \in 1 .. i - 1
      BY <1>1, <2>1
    <3>2. ~(u[j].expires = Never \/ (b.expires # Never /\ b.expires <= u[j].expires))
      BY <1>2, <3>1 DEF Before
    <3>3. PICK x, y : x = u[j].expires /\ y = b.expires
      OBVIOUS
    <3>4. x \in Nat /\ y \in {Never} \union Nat
      BY <1>6, <3>2, <3>3
    <3>5. y = Never \/ (y \in Nat /\ x < y)
      BY <3>2, <3>3, <3>4
    <3>6. CASE y = Never
      BY <3>2, <3>3, <3>6
    <3>7. CASE y \in Nat /\ x < y
      BY <3>3, <3>4, <3>7
    <3>. QED  BY <3>5, <3>6, <3>7
  <2>. QED  BY <2>1
<1>9. \A j \in 1 .. n : j >= i => \/ u[j].expires = Never
                                  \/ u[j].expires \in Nat /\ b.expires \in Nat /\ b.expires <= u[j].expires
  <2>1. ASSUME NEW j \in 1 .. n, j >= i
        PROVE  \/ u[j].expires = Never
               \/ u[j].expires \in Nat /\ b.expires \in Nat /\ b.expires <= u[j].expires
    <3>1. i \in 1 .. n /\ i <= n /\ (i = j \/ i < j)
      BY <1>1, <2>1
    <3>2. Before(b, u[i])
      BY <1>2, <3>1
    <3>3. u[j].expires # Never => u[i].expires \in 0 .. u[j].expires
      <4>1. CASE i = j
        BY <1>6, <4>1 DEF Never
      <4>2. CASE i < j
        BY <1>0, <1>1, <3>1, <4>2 DEF Sorted
      <4>. QED  BY <3>1, <4>1, <4>2
    <3>4. PICK x, y, z : x = u[j].expires /\ y = b.expires /\ z = u[i].expires
      OBVIOUS
    <3>5. x \in {Never} \union Nat /\ y \in {Never} \union Nat /\ z \in {Never} \union Nat
      BY <1>6, <3>1, <3>4
    <3>6. z = Never \/ (y # Never /\ y <= z)
      BY <3>2, <3>4 DEF Before
    <3>7. x = Never \/ (x \in Nat /\ z \in 0 .. x)
      BY <3>3, <3>4, <3>5
    <3>8. x = Never \/ (x \in Nat /\ y \in Nat /\ y <= x)
      <4>1. CASE x \in Nat /\ z \in 0 .. x
        <5>1. z \in Nat /\ z # Never /\ z <= x
          BY <4>1 DEF Never
        <5>2. y \in Nat /\ y <= z
          BY <3>5, <3>6, <5>1
        <5>. QED  BY <4>1, <5>1, <5>2
      <4>. QED  BY <3>7, <4>1
    <3>9. CASE x = Never
      BY <3>4, <3>9
    <3>10. CASE x \in Nat /\ y \in Nat /\ y <= x
      BY <3>4, <3>10
    <3>. QED  BY <3>8, <3>9, <3>10
  <2>. QED  BY <2>1
<1>10. Sorted(v)
  <2>1. ASSUME NEW k \in 1 .. n + 1, NEW j \in 1 .. n + 1, k < j, v[j].expires # Never
        PROVE  v[k].expires \in 0 .. v[j].expires
    <3>1. CASE j \in 1 .. n /\ j < i /\ v[j] = u[j]
      <4>1. k \in 1 .. n /\ v[k] = u[k]
        <5>1. k < i
          BY <1>1, <2>1, <3>1
        <5>. QED  BY <1>1, <1>7, <2>1, <5>1
      <4>. QED  BY <1>0, <1>1, <2>1, <3>1, <4>1 DEF Sorted
    <3>2. CASE j = i /\ v[j] = b
      <4>1. k \in 1 .. n /\ k < i /\ v[k] = u[k]
        <5>1. k < i
          BY <2>1, <3>2
        <5>. QED  BY <1>1, <1>7, <2>1, <5>1
      <4>2. u[k].expires \in Nat /\ b.expires \in Nat /\ u[k].expires < b.expires
        BY <1>8, <2>1, <3>2, <4>1
      <4>. QED  BY <3>2, <4>1, <4>2
    <3>3. CASE j - 1 \in 1 .. n /\ j > i /\ j - 1 >= i /\ v[j] = u[j - 1]
      <4>1. CASE k \in 1 .. n /\ k < i /\ v[k] = u[k]
        <5>1. k < j - 1
          BY <1>1, <3>3, <4>1
        <5>. QED  BY <1>0, <1>1, <2>1, <3>3, <4>1, <5>1 DEF Sorted
      <4>2. CASE k = i /\ v[k] = b
        <5>1. u[j - 1].expires \in Nat /\ b.expires \in Nat /\ b.expires <= u[j - 1].expires
          BY <1>9, <2>1, <3>3
        <5>. QED  BY <3>3, <4>2, <5>1
      <4>3. CASE k - 1 \in 1 .. n /\ k > i /\ k - 1 >= i /\ v[k] = u[k - 1]
        <5>1. k - 1 < j - 1
          BY <1>1, <2>1
        <5>. QED  BY <1>0, <1>1, <2>1, <3>3, <4>3, <5>1 DEF Sorted
      <4>. QED  BY <1>7, <4>1, <4>2, <4>3
    <3>. QED  BY <1>7, <3>1, <3>2, <3>3
  <2>. QED  BY <1>5, <2>1 DEF Sorted
<1>11. OneEach(v)
  <2>0. \A j \in 1 .. n : u[j].data # b.data
    BY <1>0, <1>1 DEF Bannings
  <2>1. ASSUME NEW k \in 1 .. n + 1, NEW j \in 1 .. n + 1, v[k].data = v[j].data
        PROVE  k = j
    <3>0. \A l \in 1 .. n + 1 : v[l].data = b.data => l = i
      BY <1>7, <2>0
    <3>1. CASE k = i \/ j = i
      <4>1. i \in 1 .. n + 1 /\ ~(i < i)
        BY <1>1
      <4>2. v[i] = b
        BY <1>4, <4>1
      <4>. QED  BY <2>1, <3>0, <3>1, <4>2
    <3>2. CASE k # i /\ j # i
      <4>1. \/ k \in 1 .. n /\ k < i /\ v[k] = u[k]
            \/ k - 1 \in 1 .. n /\ k - 1 >= i /\ v[k] = u[k - 1]
        BY <1>7, <3>2
      <4>2. \/ j \in 1 .. n /\ j < i /\ v[j] = u[j]
            \/ j - 1 \in 1 .. n /\ j - 1 >= i /\ v[j] = u[j - 1]
        BY <1>7, <3>2
      <4>3. \A p, q \in 1 .. n : u[p].data = u[q].data => p = q
        BY <1>0, <1>1 DEF OneEach
      <4>4. CASE k < i /\ k \in 1 .. n /\ v[k] = u[k]
        <5>1. CASE j < i /\ j \in 1 .. n /\ v[j] = u[j]
          BY <2>1, <4>3, <4>4, <5>1
        <5>2. CASE j - 1 \in 1 .. n /\ j - 1 >= i /\ v[j] = u[j - 1]
          <6>1. k = j - 1
            BY <2>1, <4>3, <4>4, <5>2
          <6>. QED  BY <1>1, <4>4, <5>2, <6>1
        <5>. QED  BY <4>2, <5>1, <5>2
      <4>5. CASE k - 1 \in 1 .. n /\ k - 1 >= i /\ v[k] = u[k - 1]
        <5>1. CASE j < i /\ j \in 1 .. n /\ v[j] = u[j]
          <6>1. k - 1 = j
            BY <2>1, <4>3, <4>5, <5>1
          <6>. QED  BY <1>1, <4>5, <5>1, <6>1
        <5>2. CASE j - 1 \in 1 .. n /\ j - 1 >= i /\ v[j] = u[j - 1]
          <6>1. k - 1 = j - 1
            BY <2>1, <4>3, <4>5, <5>2
          <6>. QED  BY <6>1
        <5>. QED  BY <4>2, <5>1, <5>2
      <4>. QED  BY <4>1, <4>4, <4>5
    <3>. QED  BY <3>1, <3>2
  <2>. QED  BY <1>5, <2>1 DEF OneEach
<1>12. Bannings(v) = Bannings(u) \union {b.data}
  <2>1. ASSUME NEW d \in Bannings(v) PROVE d \in Bannings(u) \union {b.data}
    <3>1. PICK j \in 1 .. n + 1 : d = v[j].data
      BY <1>5, <2>1 DEF Bannings
    <3>. QED  BY <1>1, <1>7, <3>1 DEF Bannings
  <2>2. ASSUME NEW d \in Bannings(u) PROVE d \in Bannings(v)
    <3>1. PICK j \in 1 .. n : d = u[j].data
      BY <1>1, <2>2 DEF Bannings
    <3>2. CASE j < i
      <4>1. j \in 1 .. n + 1 /\ v[j] = u[j]
        BY <1>1, <1>4, <3>2
      <4>. QED  BY <1>5, <3>1, <4>1 DEF Bannings
    <3>3. CASE ~(j < i)
      <4>1. j + 1 \in 1 .. n + 1 /\ ~(j + 1 < i) /\ j + 1 # i /\ j + 1 - 1 = j
        BY <1>1, <3>3
      <4>2. v[j + 1] = u[j]
        BY <1>4, <4>1
      <4>. QED  BY <1>5, <3>1, <4>1, <4>2 DEF Bannings
    <3>. QED  BY <3>2, <3>3
  <2>3. b.data \in Bannings(v)
    <3>1. i \in 1 .. n + 1 /\ ~(i < i)
      BY <1>1
    <3>2. v[i] = b
      BY <1>4, <3>1
    <3>. QED  BY <1>5, <3>1, <3>2 DEF Bannings
  <2>. QED  BY <2>1, <2>2, <2>3
<1>. QED  BY <1>3, <1>4, <1>10, <1>11, <1>12

\* What Without does to the list.
LEMMA WithoutKeeps ==
  ASSUME NEW u \in Seq(Ban), Sorted(u), OneEach(u), NEW d \in Bannings(u)
  PROVE  LET v == Without(u, d)
         IN  v \in Seq(Ban) /\ Sorted(v) /\ OneEach(v) /\ Bannings(v) = Bannings(u) \ {d}
<1>. DEFINE n == Len(u)
<1>0. Sorted(u) /\ OneEach(u)
  OBVIOUS
<1>1. n \in Nat /\ DOMAIN u = 1 .. n
  OBVIOUS
<1>2. PICK i \in 1 .. n : u[i].data = d /\ Without(u, d) = RemoveAt(u, i)
  <2>1. \E i \in DOMAIN u : u[i].data = d
    BY DEF Bannings
  <2>2. Place(u, d) \in DOMAIN u /\ u[Place(u, d)].data = d
    BY <2>1 DEF Place
  <2>. QED  BY <1>1, <2>2 DEF Without
<1>3. PICK v : v = Without(u, d)
  OBVIOUS
<1>4. /\ v \in Seq(Ban) /\ Len(v) = n - 1
      /\ \A j \in 1 .. n - 1 : v[j] = IF j < i THEN u[j] ELSE u[j + 1]
  <2>1. /\ RemoveAt(u, i) \in Seq(Ban) /\ Len(RemoveAt(u, i)) = Len(u) - 1
        /\ \A j \in 1 .. Len(u) - 1 : RemoveAt(u, i)[j] = IF j < i THEN u[j] ELSE u[j + 1]
    BY Removed
  <2>2. v = RemoveAt(u, i)
    BY <1>2, <1>3
  <2>. QED  BY <2>1, <2>2
<1>5. PICK g : g = [j \in 1 .. n - 1 |-> IF j < i THEN j ELSE j + 1]
  OBVIOUS
<1>6. /\ g \in [1 .. n - 1 -> 1 .. n]
      /\ \A j \in 1 .. n - 1 : g[j] = IF j < i THEN j ELSE j + 1
  BY <1>1, <1>5
<1>7. \A j, k \in 1 .. n - 1 : j < k => g[j] < g[k]
  <2>1. ASSUME NEW j \in 1 .. n - 1, NEW k \in 1 .. n - 1, j < k PROVE g[j] < g[k]
    <3>1. (IF j < i THEN j ELSE j + 1) < (IF k < i THEN k ELSE k + 1)
      BY <1>1, <2>1
    <3>. QED  BY <1>6, <3>1
  <2>. QED  BY <2>1
<1>8. \A j \in 1 .. n - 1 : v[j] = u[g[j]]
  BY <1>4, <1>6
<1>9. Sorted(v) /\ OneEach(v)
  BY <1>0, <1>4, <1>6, <1>7, <1>8, PartOfList
<1>10. DOMAIN v = 1 .. n - 1
  BY <1>1, <1>4
<1>11. ASSUME NEW e \in Bannings(v) PROVE e \in Bannings(u) \ {d}
  <2>1. PICK j \in 1 .. n - 1 : e = v[j].data
    BY <1>10, <1>11 DEF Bannings
  <2>2. PICK k \in 1 .. n : k = g[j]
    BY <1>6
  <2>3. e = u[k].data /\ k # i
    <3>1. k = IF j < i THEN j ELSE j + 1
      BY <1>6, <2>2
    <3>2. k # i
      BY <1>1, <3>1
    <3>. QED  BY <1>8, <2>1, <2>2, <3>2
  <2>4. e # d
    BY <1>0, <1>1, <1>2, <2>3 DEF OneEach
  <2>. QED  BY <1>1, <2>3, <2>4 DEF Bannings
<1>12. ASSUME NEW e \in Bannings(u) \ {d} PROVE e \in Bannings(v)
  <2>1. PICK k \in 1 .. n : e = u[k].data
    BY <1>1 DEF Bannings
  <2>2. k # i
    BY <1>2, <2>1
  <2>3. CASE k < i
    <3>1. k \in 1 .. n - 1
      BY <1>1, <2>3
    <3>. QED  BY <1>4, <1>10, <2>1, <2>3, <3>1 DEF Bannings
  <2>4. CASE k > i
    <3>1. k - 1 \in 1 .. n - 1 /\ ~(k - 1 < i) /\ k - 1 + 1 = k
      BY <1>1, <2>4
    <3>2. v[k - 1] = u[k]
      BY <1>4, <3>1
    <3>. QED  BY <1>10, <2>1, <3>1, <3>2 DEF Bannings
  <2>. QED  BY <1>1, <2>2, <2>3, <2>4
<1>. QED  BY <1>3, <1>4, <1>9, <1>11, <1>12

\* What Update leaves of the list.
LEMMA BehindKeeps ==
  ASSUME NEW u \in Seq(Ban), Sorted(u), OneEach(u), NEW m \in 0 .. Len(u)
  PROVE  LET v == SubSeq(u, m + 1, Len(u))
         IN  /\ v \in Seq(Ban) /\ Sorted(v) /\ OneEach(v)
             /\ Bannings(v) = Bannings(u) \ {u[i].data : i \in 1 .. m}
<1>0. Sorted(u) /\ OneEach(u)
  OBVIOUS
<1>1. PICK n, k : n = Len(u) /\ k = m + 1
  OBVIOUS
<1>2. /\ n \in Nat /\ DOMAIN u = 1 .. n /\ m \in Nat /\ m <= n /\ k \in Int
      /\ \A i \in k .. n : i \in 1 .. n
  BY <1>1
<1>3. PICK v : v = SubSeq(u, k, n)
  OBVIOUS
<1>4. v \in Seq(Ban) /\ Len(v) = n - m /\ \A i \in 1 .. n - m : v[i] = u[m + i]
  <2>1. \A i \in k .. n : u[i] \in Ban
    BY <1>2
  <2>2. /\ SubSeq(u, k, n) \in Seq(Ban) /\ Len(SubSeq(u, k, n)) = (IF k <= n THEN n - k + 1 ELSE 0)
        /\ \A i \in 1 .. n - k + 1 : SubSeq(u, k, n)[i] = u[k + i - 1]
    BY <1>2, <2>1, SubSeqProperties
  <2>3. (IF k <= n THEN n - k + 1 ELSE 0) = n - m /\ n - k + 1 = n - m /\ \A i \in 1 .. n - m : k + i - 1 = m + i
    BY <1>1, <1>2
  <2>. QED  BY <1>3, <2>2, <2>3
<1>5. PICK g : g = [i \in 1 .. n - m |-> m + i]
  OBVIOUS
<1>6. g \in [1 .. n - m -> 1 .. n] /\ \A i \in 1 .. n - m : g[i] = m + i
  BY <1>2, <1>5
<1>7. \A i, j \in 1 .. n - m : i < j => g[i] < g[j]
  BY <1>2, <1>6
<1>8. \A i \in 1 .. n - m : v[i] = u[g[i]]
  BY <1>4, <1>6
<1>9. Sorted(v) /\ OneEach(v)
  BY <1>0, <1>1, <1>4, <1>6, <1>7, <1>8, PartOfList
<1>10. DOMAIN v = 1 .. n - m
  BY <1>2, <1>4
<1>11. ASSUME NEW e \in Bannings(v) PROVE e \in Bannings(u) /\ e \notin {u[i].data : i \in 1 .. m}
  <2>1. PICK j \in 1 .. n - m : e = v[j].data
    BY <1>10, <1>11 DEF Bannings
  <2>2. m + j \in 1 .. n /\ e = u[m + j].data /\ m + j \notin 1 .. m
    BY <1>2, <1>4, <2>1
  <2>3. \A i \in 1 .. m : i \in 1 .. n /\ i # m + j
    BY <1>2
  <2>4. \A i \in 1 .. m : u[i].data # e
    BY <1>0, <1>2, <2>2, <2>3 DEF OneEach
  <2>. QED  BY <1>2, <2>2, <2>4 DEF Bannings
<1>12. ASSUME NEW e \in Bannings(u), e \notin {u[i].data : i \in 1 .. m} PROVE e \in Bannings(v)
  <2>1. PICK j \in 1 .. n : e = u[j].data
    BY <1>2 DEF Bannings
  <2>2. j \notin 1 .. m
    BY <1>12, <2>1
  <2>3. j - m \in 1 .. n - m /\ m + (j - m) = j
    BY <1>2, <2>2
  <2>4. v[j - m] = u[j]
    BY <1>4, <2>3
  <2>. QED  BY <1>10, <2>1, <2>3, <2>4 DEF Bannings
<1>13. Bannings(v) = Bannings(u) \ {u[i].data : i \in 1 .. m}
  BY <1>11, <1>12
<1>. QED  BY <1>1, <1>3, <1>4, <1>9, <1>13

-----------------------------------------------------------------------------
(* Pools: what the hash lists hold is what the list shows.                  *)

PoolTypes == [used : Seq(Ban), hashed : [Hashes -> SUBSET Targets]]

PoolOK(p, K) ==
  /\ p \in PoolTypes /\ Sorted(p.used) /\ OneEach(p.used) /\ Bannings(p.used) \subseteq K
  /\ \A h \in Hashes : \A d \in Targets : d \in p.hashed[h] <=> h = NetHash(d) /\ d \in Bannings(p.used)

Singles == {d \in Targets : d.lb = d.ub}
Spans == {d \in Targets : d.lb # d.ub}

\* A pool without bans, as UnbanAll and a new server have it.
LEMMA EmptyOK == ASSUME NEW K PROVE PoolOK(EmptyPool, K) /\ Bannings(EmptyPool.used) = {}
<1>1. EmptyPool.used = <<>> /\ EmptyPool.hashed = [h \in Hashes |-> {}] /\ EmptyPool \in PoolTypes
  BY DEF EmptyPool, PoolTypes
<1>2. DOMAIN <<>> = {}
  OBVIOUS
<1>3. Bannings(<<>>) = {} /\ Sorted(<<>>) /\ OneEach(<<>>)
  BY <1>2 DEF Bannings, Sorted, OneEach
<1>. QED  BY <1>1, <1>3 DEF PoolOK

\* Whatever may be banned has a hash list.
LEMMA HashOfTarget == ASSUME NEW d \in Targets PROVE NetHash(d) \in Hashes
<1>1. d \in Ranges
  BY BansAssumption DEF Ranges
<1>. QED  BY <1>1, NetHashType

\* Find sees what the list shows.
LEMMA FoundInPool ==
  ASSUME NEW K, NEW p, PoolOK(p, K), NEW d \in Targets
  PROVE  Find(p, d) <=> d \in Bannings(p.used)
BY HashOfTarget DEF Find, PoolOK

\* CBanPool::Add.
LEMMA AddOK ==
  ASSUME NEW K, NEW p, PoolOK(p, K), NEW b \in Ban, b.data \in K, b.data \notin Bannings(p.used)
  PROVE  PoolOK(AddBan(p, b), K) /\ Bannings(AddBan(p, b).used) = Bannings(p.used) \union {b.data}
<1>0. p \in PoolTypes /\ PoolOK(p, K) /\ b.data \in K /\ b.data \notin Bannings(p.used)
  BY DEF PoolOK
<1>1. PICK u, f, d : u = p.used /\ f = p.hashed /\ d = b.data
  OBVIOUS
<1>2. u \in Seq(Ban) /\ f \in [Hashes -> SUBSET Targets] /\ d \in Targets /\ NetHash(d) \in Hashes
  <2>1. u \in Seq(Ban) /\ f \in [Hashes -> SUBSET Targets]
    BY <1>0, <1>1 DEF PoolTypes
  <2>2. d \in Targets
    BY <1>1 DEF Ban
  <2>. QED  BY <2>1, <2>2, HashOfTarget
<1>3. PICK v, g : v = Insert(u, b) /\ g = [f EXCEPT ![NetHash(d)] = @ \union {d}]
  OBVIOUS
<1>4. v \in Seq(Ban) /\ Sorted(v) /\ OneEach(v) /\ Bannings(v) = Bannings(u) \union {d}
  <2>1. Sorted(u) /\ OneEach(u) /\ b.data \notin Bannings(u)
    BY <1>0, <1>1 DEF PoolOK
  <2>. QED  BY <1>1, <1>2, <1>3, <2>1, InsertKeeps
<1>5. /\ g \in [Hashes -> SUBSET Targets]
      /\ \A h \in Hashes : g[h] = IF h = NetHash(d) THEN f[h] \union {d} ELSE f[h]
  BY <1>2, <1>3
<1>6. \A h \in Hashes : \A e \in Targets : e \in g[h] <=> h = NetHash(e) /\ e \in Bannings(v)
  <2>1. \A h \in Hashes : \A e \in Targets : e \in f[h] <=> h = NetHash(e) /\ e \in Bannings(u)
    BY <1>0, <1>1 DEF PoolOK
  <2>2. ASSUME NEW h \in Hashes, NEW e \in Targets
        PROVE  e \in g[h] <=> h = NetHash(e) /\ e \in Bannings(v)
    <3>1. e \in g[h] <=> e \in f[h] \/ (h = NetHash(d) /\ e = d)
      BY <1>5
    <3>. QED  BY <1>4, <2>1, <3>1
  <2>. QED  BY <2>2
<1>7. AddBan(p, b) = [used |-> v, hashed |-> g]
  BY <1>1, <1>3 DEF AddBan
<1>8. Bannings(v) \subseteq K
  BY <1>0, <1>1, <1>4 DEF PoolOK
<1>9. AddBan(p, b) \in PoolTypes /\ AddBan(p, b).used = v /\ AddBan(p, b).hashed = g
  BY <1>4, <1>5, <1>7 DEF PoolTypes
<1>10. PoolOK(AddBan(p, b), K)
  BY <1>4, <1>6, <1>8, <1>9 DEF PoolOK
<1>. QED  BY <1>1, <1>4, <1>9, <1>10

\* CBanPool::Remove.
LEMMA RemoveOK ==
  ASSUME NEW K, NEW p, PoolOK(p, K), NEW d \in Bannings(p.used), d \in Targets
  PROVE  PoolOK(RemoveBan(p, d), K) /\ Bannings(RemoveBan(p, d).used) = Bannings(p.used) \ {d}
<1>0. p \in PoolTypes /\ PoolOK(p, K) /\ d \in Bannings(p.used) /\ NetHash(d) \in Hashes
  BY HashOfTarget DEF PoolOK
<1>1. PICK u, f : u = p.used /\ f = p.hashed
  OBVIOUS
<1>2. u \in Seq(Ban) /\ f \in [Hashes -> SUBSET Targets]
  BY <1>0, <1>1 DEF PoolTypes
<1>3. PICK v, g : v = Without(u, d) /\ g = [f EXCEPT ![NetHash(d)] = @ \ {d}]
  OBVIOUS
<1>4. v \in Seq(Ban) /\ Sorted(v) /\ OneEach(v) /\ Bannings(v) = Bannings(u) \ {d}
  <2>1. Sorted(u) /\ OneEach(u) /\ d \in Bannings(u)
    BY <1>0, <1>1 DEF PoolOK
  <2>. QED  BY <1>2, <1>3, <2>1, WithoutKeeps
<1>5. /\ g \in [Hashes -> SUBSET Targets]
      /\ \A h \in Hashes : g[h] = IF h = NetHash(d) THEN f[h] \ {d} ELSE f[h]
  BY <1>2, <1>3
<1>6. \A h \in Hashes : \A e \in Targets : e \in g[h] <=> h = NetHash(e) /\ e \in Bannings(v)
  <2>1. \A h \in Hashes : \A e \in Targets : e \in f[h] <=> h = NetHash(e) /\ e \in Bannings(u)
    BY <1>0, <1>1 DEF PoolOK
  <2>2. ASSUME NEW h \in Hashes, NEW e \in Targets
        PROVE  e \in g[h] <=> h = NetHash(e) /\ e \in Bannings(v)
    <3>1. e \in g[h] <=> e \in f[h] /\ ~(h = NetHash(d) /\ e = d)
      BY <1>5
    <3>. QED  BY <1>4, <2>1, <3>1
  <2>. QED  BY <2>2
<1>7. RemoveBan(p, d) = [used |-> v, hashed |-> g]
  BY <1>1, <1>3 DEF RemoveBan
<1>8. Bannings(v) \subseteq K
  BY <1>0, <1>1, <1>4 DEF PoolOK
<1>9. RemoveBan(p, d) \in PoolTypes /\ RemoveBan(p, d).used = v /\ RemoveBan(p, d).hashed = g
  BY <1>4, <1>5, <1>7 DEF PoolTypes
<1>10. PoolOK(RemoveBan(p, d), K)
  BY <1>4, <1>6, <1>8, <1>9 DEF PoolOK
<1>. QED  BY <1>1, <1>4, <1>9, <1>10

\* CBanPool::Update: the entry is moved to its new place in the list.
LEMMA UpdateOK ==
  ASSUME NEW K, NEW p, PoolOK(p, K), NEW b \in Ban, b.data \in Bannings(p.used)
  PROVE  PoolOK(UpdateBan(p, b), K) /\ Bannings(UpdateBan(p, b).used) = Bannings(p.used)
<1>0. p \in PoolTypes /\ PoolOK(p, K) /\ b.data \in Bannings(p.used)
  BY DEF PoolOK
<1>1. PICK u, f, d : u = p.used /\ f = p.hashed /\ d = b.data
  OBVIOUS
<1>2. u \in Seq(Ban) /\ f \in [Hashes -> SUBSET Targets]
  BY <1>0, <1>1 DEF PoolTypes
<1>3. PICK v, w : v = Without(u, d) /\ w = Insert(v, b)
  OBVIOUS
<1>4. v \in Seq(Ban) /\ Sorted(v) /\ OneEach(v) /\ Bannings(v) = Bannings(u) \ {d}
  <2>1. Sorted(u) /\ OneEach(u) /\ d \in Bannings(u)
    BY <1>0, <1>1 DEF PoolOK
  <2>. QED  BY <1>2, <1>3, <2>1, WithoutKeeps
<1>5. w \in Seq(Ban) /\ Sorted(w) /\ OneEach(w) /\ Bannings(w) = Bannings(v) \union {d}
  BY <1>1, <1>3, <1>4, InsertKeeps
<1>6. Bannings(w) = Bannings(u)
  BY <1>0, <1>1, <1>4, <1>5
<1>7. UpdateBan(p, b) = [p EXCEPT !.used = w]
  BY <1>1, <1>3 DEF UpdateBan
<1>8. UpdateBan(p, b) \in PoolTypes /\ UpdateBan(p, b).used = w /\ UpdateBan(p, b).hashed = f
  BY <1>0, <1>1, <1>5, <1>7 DEF PoolTypes
<1>9. PoolOK(UpdateBan(p, b), K)
  BY <1>0, <1>1, <1>5, <1>6, <1>8 DEF PoolOK
<1>. QED  BY <1>1, <1>6, <1>8, <1>9

\* CNetBan::Ban on a pool.
LEMMA BanningOK ==
  ASSUME NEW K, NEW p, PoolOK(p, K), NEW d \in Targets, d \in K, NEW seconds \in Int, banNow \in Nat
  PROVE  /\ PoolOK(Banning(p, d, seconds), K)
         /\ Bannings(Banning(p, d, seconds).used) =
              IF BanResult(p, d) = 0 THEN Bannings(p.used) \union {d} ELSE Bannings(p.used)
<1>0. PoolOK(p, K) /\ d \in K /\ banNow \in Nat
  OBVIOUS
<1>1. PICK b : b = [data |-> d, expires |-> IF seconds > 0 THEN banNow + seconds ELSE Never]
  OBVIOUS
<1>2. b \in Ban /\ b.data = d
  <2>1. (IF seconds > 0 THEN banNow + seconds ELSE Never) \in {Never} \union Nat
    BY <1>0
  <2>. QED  BY <1>1, <2>1 DEF Ban
<1>3. Find(p, d) <=> d \in Bannings(p.used)
  BY <1>0, FoundInPool
<1>4. CASE BanResult(p, d) = -1
  <2>1. Banning(p, d, seconds) = p
    BY <1>4 DEF Banning
  <2>. QED  BY <1>0, <1>4, <2>1
<1>5. CASE BanResult(p, d) = 1
  <2>1. Banning(p, d, seconds) = UpdateBan(p, b)
    BY <1>1, <1>5 DEF Banning
  <2>2. b.data \in Bannings(p.used)
    BY <1>2, <1>3, <1>5 DEF BanResult
  <2>. QED  BY <1>0, <1>2, <1>5, <2>1, <2>2, UpdateOK
<1>6. CASE BanResult(p, d) = 0
  <2>1. Banning(p, d, seconds) = AddBan(p, b)
    BY <1>1, <1>6 DEF Banning
  <2>2. b.data \notin Bannings(p.used) /\ b.data \in K
    BY <1>0, <1>2, <1>3, <1>6 DEF BanResult
  <2>3. PoolOK(AddBan(p, b), K) /\ Bannings(AddBan(p, b).used) = Bannings(p.used) \union {b.data}
    BY <1>0, <1>2, <2>2, AddOK
  <2>. QED  BY <1>2, <1>6, <2>1, <2>3
<1>7. BanResult(p, d) \in {-1, 0, 1}
  BY DEF BanResult
<1>. QED  BY <1>4, <1>5, <1>6, <1>7

\* CNetBan::Update on a pool.
LEMMA ExpireOK ==
  ASSUME NEW K, NEW p, PoolOK(p, K)
  PROVE  PoolOK(Expire(p), K) /\ Bannings(Expire(p).used) \subseteq Bannings(p.used)
<1>0. p \in PoolTypes /\ PoolOK(p, K)
  BY DEF PoolOK
<1>1. PICK u, f, n : u = p.used /\ f = p.hashed /\ n = BanExpired(u)
  OBVIOUS
<1>2. u \in Seq(Ban) /\ f \in [Hashes -> SUBSET Targets] /\ Len(u) \in Nat
  BY <1>0, <1>1 DEF PoolTypes
<1>3. n \in 0 .. Len(u)
  <2>. DEFINE Over(b) == b.expires # Never /\ b.expires < banNow
              P(k) == (\A i \in 1 .. k : Over(u[i])) /\ (k < Len(u) => ~Over(u[k + 1]))
              T == {k \in 0 .. Len(u) : k = Len(u) \/ ~Over(u[k + 1])}
  <2>. HIDE DEF Over
  <2>1. Len(u) \in T /\ T \in SUBSET Nat
    BY <1>2
  <2>2. PICK k \in T : \A i \in T : k <= i
    <3>. HIDE DEF T
    <3>. QED  BY <2>1, SmallestNumber
  <2>3. k \in 0 .. Len(u) /\ (k < Len(u) => ~Over(u[k + 1]))
    BY <1>2, <2>2
  <2>4. \A i \in 1 .. k : Over(u[i])
    <3>1. ASSUME NEW i \in 1 .. k PROVE Over(u[i])
      <4>1. i - 1 \in 0 .. Len(u) /\ ~(k <= i - 1) /\ i - 1 + 1 = i
        BY <1>2, <2>3
      <4>2. i - 1 \notin T
        BY <2>2, <4>1
      <4>. QED  BY <4>1, <4>2
    <3>. QED  BY <3>1
  <2>5. P(k)
    BY <2>3, <2>4
  <2>6. n = CHOOSE m \in 0 .. Len(u) : P(m)
    BY <1>1 DEF BanExpired, Over
  <2>7. n \in 0 .. Len(u)
    <3>. HIDE DEF P
    <3>. QED  BY <2>3, <2>5, <2>6
  <2>. QED  BY <2>7
<1>4. PICK v, gone, g : /\ v = SubSeq(u, n + 1, Len(u)) /\ gone = {u[i].data : i \in 1 .. n}
                        /\ g = [h \in Hashes |-> f[h] \ gone]
  OBVIOUS
<1>5. v \in Seq(Ban) /\ Sorted(v) /\ OneEach(v) /\ Bannings(v) = Bannings(u) \ gone
  <2>1. Sorted(u) /\ OneEach(u)
    BY <1>0, <1>1 DEF PoolOK
  <2>. QED  BY <1>2, <1>3, <1>4, <2>1, BehindKeeps
<1>6. g \in [Hashes -> SUBSET Targets] /\ \A h \in Hashes : g[h] = f[h] \ gone
  BY <1>2, <1>4
<1>7. \A h \in Hashes : \A e \in Targets : e \in g[h] <=> h = NetHash(e) /\ e \in Bannings(v)
  <2>1. \A h \in Hashes : \A e \in Targets : e \in f[h] <=> h = NetHash(e) /\ e \in Bannings(u)
    BY <1>0, <1>1 DEF PoolOK
  <2>. QED  BY <1>5, <1>6, <2>1
<1>8. Expire(p) = [used |-> v, hashed |-> g]
  BY <1>1, <1>4 DEF Expire
<1>9. Expire(p) \in PoolTypes /\ Expire(p).used = v /\ Expire(p).hashed = g
  BY <1>5, <1>6, <1>8 DEF PoolTypes
<1>10. Bannings(v) \subseteq K /\ Bannings(v) \subseteq Bannings(u)
  BY <1>0, <1>1, <1>5 DEF PoolOK
<1>11. PoolOK(Expire(p), K)
  BY <1>5, <1>7, <1>9, <1>10 DEF PoolOK
<1>. QED  BY <1>1, <1>9, <1>10, <1>11

\* The file of bans, executed by a new server, gives a pool as good as any.
LEMMA ExecuteOK ==
  ASSUME NEW K, NEW cmds \in Seq([data : Targets, minutes : Int]),
         \A i \in DOMAIN cmds : cmds[i].data \in K, banNow \in Nat
  PROVE  PoolOK(Execute(cmds), K)
<1>. DEFINE N == Len(cmds)
            S == {p \in PoolTypes : PoolOK(p, K)}
            Loop(f) == f = [n \in 0 .. N |->
                              IF n = 0 THEN EmptyPool
                              ELSE Banning(f[n - 1], cmds[n].data, SecondsOf(cmds[n]))]
<1>0. /\ banNow \in Nat /\ N \in Nat
      /\ \A n \in 1 .. N : /\ cmds[n].data \in K /\ cmds[n].data \in Targets
                           /\ cmds[n].minutes \in Int
  <2>1. N \in Nat /\ DOMAIN cmds = 1 .. N /\ \A n \in 1 .. N : cmds[n] \in [data : Targets, minutes : Int]
    <3>1. PICK R : R = [data : Targets, minutes : Int]
      OBVIOUS
    <3>2. cmds \in Seq(R)
      BY <3>1
    <3>3. N \in Nat /\ DOMAIN cmds = 1 .. N /\ \A n \in 1 .. N : cmds[n] \in R
      BY <3>2
    <3>. QED  BY <3>1, <3>3
  <2>2. \A n \in 1 .. N : cmds[n].data \in K
    BY <2>1
  <2>. QED  BY <2>1, <2>2
<1>1. \A n \in 1 .. N : SecondsOf(cmds[n]) \in Int
  <2>1. ASSUME NEW n \in 1 .. N PROVE SecondsOf(cmds[n]) \in Int
    <3>1. PICK x \in Int, y \in Nat : x = cmds[n].minutes /\ y = Minute
      BY <1>0, BansAssumption
    <3>2. (IF x < 0 THEN 0 ELSE x) * y \in Int
      OBVIOUS
    <3>. QED  BY <3>1, <3>2 DEF SecondsOf
  <2>. QED  BY <2>1
<1>2. EmptyPool \in S
  <2>1. PoolOK(EmptyPool, K)
    BY EmptyOK
  <2>. QED  BY <2>1 DEF PoolOK
<1>3. \A n \in 1 .. N : \A p \in S : Banning(p, cmds[n].data, SecondsOf(cmds[n])) \in S
  <2>1. ASSUME NEW n \in 1 .. N, NEW p \in S
        PROVE  Banning(p, cmds[n].data, SecondsOf(cmds[n])) \in S
    <3>1. PICK d, x : d = cmds[n].data /\ x = SecondsOf(cmds[n])
      OBVIOUS
    <3>2. d \in K /\ d \in Targets /\ x \in Int /\ PoolOK(p, K)
      BY <1>0, <1>1, <3>1
    <3>3. PoolOK(Banning(p, d, x), K)
      BY <1>0, <3>2, BanningOK
    <3>4. Banning(p, d, x) \in S
      BY <3>3 DEF PoolOK
    <3>. QED  BY <3>1, <3>4
  <2>. QED  BY <2>1
<1>. HIDE DEF S, N
<1>4. PICK step : step = [n \in 1 .. N |-> [p \in S |-> Banning(p, cmds[n].data, SecondsOf(cmds[n]))]]
  OBVIOUS
<1>5. step \in Turns(N, S)
  BY <1>3, <1>4 DEF Turns
<1>6. PICK g \in [0 .. N -> S] : Runs(g, EmptyPool, step, N)
  BY <1>0, <1>2, <1>5, RunExists
<1>7. \A n \in 1 .. N : n - 1 \in 0 .. N /\ n \in 0 .. N /\ n # 0
  BY <1>0
<1>8. g[0] = EmptyPool
      /\ \A n \in 1 .. N : g[n] = Banning(g[n - 1], cmds[n].data, SecondsOf(cmds[n]))
  BY <1>4, <1>6, <1>7 DEF Runs
<1>9. Loop(g)
  <2>1. \A n \in 0 .. N : n = 0 \/ n \in 1 .. N
    BY <1>0
  <2>2. \A n \in 0 .. N : g[n] = IF n = 0 THEN EmptyPool
                                 ELSE Banning(g[n - 1], cmds[n].data, SecondsOf(cmds[n]))
    BY <1>8, <2>1
  <2>. QED  BY <2>2
<1>10. PICK f : f = (CHOOSE l : Loop(l)) /\ Loop(f)
  <2>. HIDE DEF Loop
  <2>. QED  BY <1>9
<1>11. /\ f[0] = EmptyPool
       /\ \A n \in 1 .. N : f[n] = Banning(f[n - 1], cmds[n].data, SecondsOf(cmds[n]))
  <2>1. 0 \in 0 .. N
    BY <1>0
  <2>. QED  BY <1>7, <1>10, <2>1
<1>12. \A n \in 0 .. N : f[n] \in S
  <2>. DEFINE T == {n \in 0 .. N : f[n] \in S}
  <2>1. 0 \in T
    BY <1>0, <1>2, <1>11
  <2>2. \A n \in 1 .. N : n - 1 \in T => n \in T
    BY <1>3, <1>7, <1>11
  <2>3. \A n \in 0 .. N : n \in T
    <3>. HIDE DEF T
    <3>. QED  BY <1>0, <2>1, <2>2, NumbersUpTo
  <2>. QED  BY <2>3
<1>13. Execute(cmds) = f[N]
  BY <1>10 DEF Execute, N
<1>14. f[N] \in S
  BY <1>0, <1>12
<1>. QED  BY <1>13, <1>14 DEF S

\* What bans_save writes of a pool is executed as bans of what was banned in it.
LEMMA RestartOK ==
  ASSUME NEW K, NEW p, PoolOK(p, K), banNow \in Nat
  PROVE  PoolOK(Execute(Commands(p.used)), K)
<1>0. p \in PoolTypes /\ Bannings(p.used) \subseteq K /\ banNow \in Nat
  BY DEF PoolOK
<1>1. PICK u, c : u = p.used /\ c = Commands(u)
  OBVIOUS
<1>2. u \in Seq(Ban) /\ Len(u) \in Nat /\ DOMAIN u = 1 .. Len(u)
  BY <1>0, <1>1 DEF PoolTypes
<1>3. \A i \in 1 .. Len(u) : MinutesLeft(u[i]) \in Int
  <2>1. ASSUME NEW i \in 1 .. Len(u) PROVE MinutesLeft(u[i]) \in Int
    <3>1. PICK e \in {Never} \union Nat, m \in Nat, t \in Nat :
            e = u[i].expires /\ m = Minute /\ m # 0 /\ t = banNow
      <4>1. u[i] \in Ban
        BY <1>2
      <4>2. u[i].expires \in {Never} \union Nat
        BY <4>1 DEF Ban
      <4>3. Minute \in Nat /\ Minute # 0
        BY BansAssumption
      <4>. QED  BY <1>0, <4>2, <4>3
    <3>2. (IF e # Never THEN (e - t + m - 1) \div m ELSE -1) \in Int
      <4>1. e \in Int
        BY <3>1 DEF Never
      <4>. QED  BY <3>1, <4>1
    <3>. QED  BY <3>1, <3>2 DEF MinutesLeft
  <2>. QED  BY <2>1
<1>4. c = [i \in 1 .. Len(u) |-> [data |-> u[i].data, minutes |-> MinutesLeft(u[i])]]
  BY <1>1, <1>2 DEF Commands
<1>5. \A i \in 1 .. Len(u) : u[i].data \in Targets /\ u[i].data \in K
  <2>1. \A i \in 1 .. Len(u) : u[i] \in Ban
    BY <1>2
  <2>2. \A i \in 1 .. Len(u) : u[i].data \in Targets
    BY <2>1 DEF Ban
  <2>3. \A i \in 1 .. Len(u) : u[i].data \in K
    BY <1>0, <1>1, <1>2 DEF Bannings
  <2>. QED  BY <2>2, <2>3
<1>6. c \in Seq([data : Targets, minutes : Int]) /\ \A i \in DOMAIN c : c[i].data \in K
  <2>1. c \in [1 .. Len(u) -> [data : Targets, minutes : Int]]
    BY <1>3, <1>4, <1>5
  <2>2. c \in Seq([data : Targets, minutes : Int])
    <3>1. PICK n, R : n = Len(u) /\ R = [data : Targets, minutes : Int]
      OBVIOUS
    <3>2. n \in Nat /\ c \in [1 .. n -> R]
      BY <1>2, <2>1, <3>1
    <3>3. c \in Seq(R)
      BY <3>2
    <3>. QED  BY <3>1, <3>3
  <2>. QED  BY <1>4, <1>5, <2>2
<1>7. PoolOK(Execute(c), K)
  BY <1>0, <1>6, ExecuteOK
<1>. QED  BY <1>1, <1>7

-----------------------------------------------------------------------------
(* What is found is what is listed; no client has a listed address.         *)

\* With these addresses and ranges on the lists.
Banned(a, singles, spans) == Single(a) \in singles \/ \E d \in spans : NetMatch(d, a, 0)

\* The ban of one address is one of a range with that address alone.
LEMMA OneMatchesItself == ASSUME NEW a PROVE NetMatch(Single(a), a, 0)
<1>1. Upto(a, a, 0)
  BY DEF Upto
<1>2. \A j \in 1 .. 0 : Single(a).lb[j] = a[j]
  BY DEF Single
<1>. QED  BY <1>1, <1>2 DEF NetMatch, Single

\* The hash lists answer for the lists.
LEMMA FoundAsListed ==
  ASSUME PoolOK(addrs, Singles), PoolOK(ranges, Spans), NEW a \in Addr
  PROVE  /\ IsBanned(a) => Banned(a, Bannings(addrs.used), Bannings(ranges.used))
         /\ Banned(a, Bannings(addrs.used), Bannings(ranges.used)) => IsBanned(a)
<1>0. PoolOK(addrs, Singles) /\ PoolOK(ranges, Spans)
  OBVIOUS
<1>1. AddrLength \in Nat /\ AddrLength # 0 /\ HashSize \in Nat /\ Targets \subseteq Ranges
  BY BansAssumption DEF Ranges
<1>. DEFINE hash == MakeHashArray(a)
<1>2. hash[AddrLength] = <<0, HashOf(a, AddrLength)>> /\ hash[AddrLength] \in Hashes
  <2>1. AddrLength % AddrLength = 0 /\ AddrLength \in 0 .. AddrLength /\ 0 \in 0 .. AddrLength - 1
    BY <1>1
  <2>2. HashOf(a, AddrLength) \in 0 .. HashSize - 1
    BY <2>1, HashType
  <2>. QED  BY <2>1, <2>2 DEF MakeHashArray, Hashes
<1>3. \A i \in 0 .. AddrLength - 1 : hash[i] = <<i, HashOf(a, i)>> /\ hash[i] \in Hashes
  <2>1. ASSUME NEW i \in 0 .. AddrLength - 1
        PROVE  hash[i] = <<i, HashOf(a, i)>> /\ hash[i] \in Hashes
    <3>1. i % AddrLength = i /\ i \in 0 .. AddrLength
      BY <1>1
    <3>2. HashOf(a, i) \in 0 .. HashSize - 1
      BY <3>1, HashType
    <3>. QED  BY <3>1, <3>2 DEF MakeHashArray, Hashes
  <2>. QED  BY <2>1
<1>4. addrs.hashed \in [Hashes -> SUBSET Targets] /\ ranges.hashed \in [Hashes -> SUBSET Targets]
  BY <1>0 DEF PoolOK, PoolTypes
<1>5. NetHash(Single(a)) = hash[AddrLength]
  BY <1>2 DEF NetHash, Single
<1>. HIDE DEF hash
<1>6. ASSUME NEW f, f = addrs.hashed
      PROVE  Single(a) \in f[hash[AddrLength]] <=> Single(a) \in Bannings(addrs.used)
  <2>1. f[hash[AddrLength]] \subseteq Targets /\ Bannings(addrs.used) \subseteq Targets
    BY <1>0, <1>2, <1>4, <1>6 DEF PoolOK, Singles
  <2>2. Single(a) \in Targets => (Single(a) \in f[hash[AddrLength]] <=> Single(a) \in Bannings(addrs.used))
    BY <1>0, <1>2, <1>5, <1>6 DEF PoolOK
  <2>. QED  BY <2>1, <2>2
<1>7. ASSUME NEW i \in 0 .. AddrLength - 1, NEW d \in ranges.hashed[hash[i]], NetMatch(d, a, i)
      PROVE  d \in Bannings(ranges.used) /\ NetMatch(d, a, 0)
  <2>1. d \in Targets
    BY <1>3, <1>4, <1>7
  <2>2. hash[i] = NetHash(d) /\ d \in Bannings(ranges.used)
    BY <1>0, <1>3, <1>7, <2>1 DEF PoolOK
  <2>3. d \in Ranges /\ d.lb # d.ub
    BY <1>0, <1>1, <2>1, <2>2 DEF PoolOK, Spans
  <2>4. i = Shared(d)
    BY <1>3, <2>2, <2>3 DEF NetHash
  <2>5. NetMatch(d, a, 0) <=> NetMatch(d, a, Shared(d))
    BY <2>3, MatchByPrefix
  <2>. QED  BY <1>7, <2>2, <2>4, <2>5
<1>8. ASSUME NEW d \in Bannings(ranges.used), NetMatch(d, a, 0)
      PROVE  \E i \in 0 .. AddrLength - 1 : d \in ranges.hashed[hash[i]] /\ NetMatch(d, a, i)
  <2>1. d \in Targets /\ d \in Ranges /\ d.lb # d.ub
    BY <1>0, <1>1 DEF PoolOK, Spans
  <2>2. PICK i : i = Shared(d)
    OBVIOUS
  <2>3. i \in 0 .. AddrLength - 1
    BY <2>1, <2>2, SharedBytes
  <2>4. (NetMatch(d, a, 0) <=> NetMatch(d, a, i)) /\ HashOf(d.lb, i) = HashOf(a, i)
    BY <1>8, <2>1, <2>2, MatchByPrefix
  <2>5. NetHash(d) = hash[i]
    BY <1>3, <2>1, <2>2, <2>3, <2>4 DEF NetHash
  <2>6. d \in ranges.hashed[hash[i]]
    BY <1>0, <1>3, <2>1, <2>3, <2>5 DEF PoolOK
  <2>. QED  BY <1>8, <2>3, <2>4, <2>6
<1>9. IsBanned(a) <=> \/ Single(a) \in addrs.hashed[hash[AddrLength]]
                      \/ \E i \in 0 .. AddrLength - 1 : \E d \in ranges.hashed[hash[i]] : NetMatch(d, a, i)
  BY <1>2, <1>4 DEF IsBanned, hash
<1>. QED  BY <1>6, <1>7, <1>8, <1>9 DEF Banned

\* The inductive invariant: pools whose hash lists hold what their lists show, each
\* with its kind of ban, and no client with an address that they show.
Tenants == [addr : Addr, authed : 0 .. 2]
BansInv ==
  /\ banNow \in Nat /\ PoolOK(addrs, Singles) /\ PoolOK(ranges, Spans)
  /\ client \in [BanSlots -> {NoClient} \union Tenants]
  /\ \A s \in BanSlots : Present(s) =>
       ~Banned(client[s].addr, Bannings(addrs.used), Bannings(ranges.used))

\* A command that adds the ban of d, or adjusts it, leaves nobody whom it hits.
LEMMA HitIsDropped ==
  ASSUME BansInv, NEW p, NEW d, DropBanned(p, d), NEW singles, NEW spans,
         IF BanResult(p, d) = 0
           THEN \/ singles = Bannings(addrs.used) \union {d} /\ spans = Bannings(ranges.used)
                \/ singles = Bannings(addrs.used) /\ spans = Bannings(ranges.used) \union {d}
           ELSE singles = Bannings(addrs.used) /\ spans = Bannings(ranges.used)
  PROVE  /\ client' \in [BanSlots -> {NoClient} \union Tenants]
         /\ \A s \in BanSlots : client'[s] # NoClient => ~Banned(client'[s].addr, singles, spans)
<1>0. /\ BansInv /\ DropBanned(p, d)
      /\ IF BanResult(p, d) = 0
           THEN \/ singles = Bannings(addrs.used) \union {d} /\ spans = Bannings(ranges.used)
                \/ singles = Bannings(addrs.used) /\ spans = Bannings(ranges.used) \union {d}
           ELSE singles = Bannings(addrs.used) /\ spans = Bannings(ranges.used)
  OBVIOUS
<1>1. client' = [s \in BanSlots |->
                   IF BanResult(p, d) = 0 /\ s \in Dropped(d) THEN NoClient ELSE client[s]]
  BY <1>0 DEF DropBanned
<1>2. client \in [BanSlots -> {NoClient} \union Tenants]
  BY <1>0 DEF BansInv
<1>3. client' \in [BanSlots -> {NoClient} \union Tenants]
  BY <1>1, <1>2
<1>4. ASSUME NEW s \in BanSlots, client'[s] # NoClient, Banned(client'[s].addr, singles, spans)
      PROVE  FALSE
  <2>1. client'[s] = client[s] /\ ~(BanResult(p, d) = 0 /\ s \in Dropped(d))
    BY <1>1, <1>4
  <2>2. PICK a : a = client[s].addr
    OBVIOUS
  <2>3. Present(s) /\ ~Banned(a, Bannings(addrs.used), Bannings(ranges.used)) /\ Banned(a, singles, spans)
    BY <1>0, <1>4, <2>1, <2>2 DEF Present, BansInv
  <2>4. BanResult(p, d) = 0 /\ (Single(a) = d \/ NetMatch(d, a, 0))
    BY <1>0, <2>3 DEF Banned
  <2>5. NetMatch(d, a, 0)
    BY <2>4, OneMatchesItself
  <2>. QED  BY <2>1, <2>2, <2>3, <2>4, <2>5 DEF Dropped
<1>. QED  BY <1>3, <1>4

\* ban, ban_range
LEMMA BanStep ==
  ASSUME BansInv, NEW d \in Targets, NEW minutes \in {0, 1}, BanCommand(d, minutes)
  PROVE  BansInv'
<1>0. BansInv /\ BanCommand(d, minutes)
  OBVIOUS
<1>1. PICK seconds : seconds = minutes * Minute
  OBVIOUS
<1>2. seconds \in Int /\ banNow \in Nat /\ banNow' = banNow
  <2>1. minutes * Minute \in Int
    BY BansAssumption
  <2>. QED  BY <1>0, <1>1, <2>1 DEF BansInv, BanCommand
<1>3. PoolOK(addrs, Singles) /\ PoolOK(ranges, Spans)
  BY <1>0 DEF BansInv
<1>4. PICK a, r : a = addrs /\ r = ranges
  OBVIOUS
<1>5. CASE d.lb = d.ub
  <2>1. addrs' = Banning(a, d, seconds) /\ DropBanned(a, d) /\ ranges' = r
    BY <1>0, <1>1, <1>4, <1>5 DEF BanCommand
  <2>2. /\ PoolOK(addrs', Singles) /\ PoolOK(ranges', Spans)
        /\ Bannings(addrs'.used) =
             IF BanResult(a, d) = 0 THEN Bannings(a.used) \union {d} ELSE Bannings(a.used)
    <3>1. d \in Singles /\ PoolOK(a, Singles)
      BY <1>3, <1>4, <1>5 DEF Singles
    <3>2. /\ PoolOK(Banning(a, d, seconds), Singles)
          /\ Bannings(Banning(a, d, seconds).used) =
               IF BanResult(a, d) = 0 THEN Bannings(a.used) \union {d} ELSE Bannings(a.used)
      BY <1>2, <3>1, BanningOK
    <3>. QED  BY <1>3, <1>4, <2>1, <3>2
  <2>3. PICK x, y : x = Bannings(addrs'.used) /\ y = Bannings(ranges'.used)
    OBVIOUS
  <2>4. IF BanResult(a, d) = 0
          THEN \/ x = Bannings(addrs.used) \union {d} /\ y = Bannings(ranges.used)
               \/ x = Bannings(addrs.used) /\ y = Bannings(ranges.used) \union {d}
          ELSE x = Bannings(addrs.used) /\ y = Bannings(ranges.used)
    BY <1>4, <2>1, <2>2, <2>3
  <2>5. /\ client' \in [BanSlots -> {NoClient} \union Tenants]
        /\ \A s \in BanSlots : client'[s] # NoClient => ~Banned(client'[s].addr, x, y)
    BY <1>0, <2>1, <2>4, HitIsDropped
  <2>. QED  BY <1>2, <2>2, <2>3, <2>5 DEF BansInv, Present
<1>6. CASE d.lb # d.ub
  <2>1. ranges' = Banning(r, d, seconds) /\ DropBanned(r, d) /\ addrs' = a
    BY <1>0, <1>1, <1>4, <1>6 DEF BanCommand
  <2>2. /\ PoolOK(addrs', Singles) /\ PoolOK(ranges', Spans)
        /\ Bannings(ranges'.used) =
             IF BanResult(r, d) = 0 THEN Bannings(r.used) \union {d} ELSE Bannings(r.used)
    <3>1. d \in Spans /\ PoolOK(r, Spans)
      BY <1>3, <1>4, <1>6 DEF Spans
    <3>2. /\ PoolOK(Banning(r, d, seconds), Spans)
          /\ Bannings(Banning(r, d, seconds).used) =
               IF BanResult(r, d) = 0 THEN Bannings(r.used) \union {d} ELSE Bannings(r.used)
      BY <1>2, <3>1, BanningOK
    <3>. QED  BY <1>3, <1>4, <2>1, <3>2
  <2>3. PICK x, y : x = Bannings(addrs'.used) /\ y = Bannings(ranges'.used)
    OBVIOUS
  <2>4. IF BanResult(r, d) = 0
          THEN \/ x = Bannings(addrs.used) \union {d} /\ y = Bannings(ranges.used)
               \/ x = Bannings(addrs.used) /\ y = Bannings(ranges.used) \union {d}
          ELSE x = Bannings(addrs.used) /\ y = Bannings(ranges.used)
    BY <1>4, <2>1, <2>2, <2>3
  <2>5. /\ client' \in [BanSlots -> {NoClient} \union Tenants]
        /\ \A s \in BanSlots : client'[s] # NoClient => ~Banned(client'[s].addr, x, y)
    BY <1>0, <2>1, <2>4, HitIsDropped
  <2>. QED  BY <1>2, <2>2, <2>3, <2>5 DEF BansInv, Present
<1>. QED  BY <1>5, <1>6

\* Whatever only takes bans off the lists disturbs nobody.
LEMMA FewerBans ==
  ASSUME BansInv, PoolOK(addrs', Singles), PoolOK(ranges', Spans),
         Bannings(addrs'.used) \subseteq Bannings(addrs.used),
         Bannings(ranges'.used) \subseteq Bannings(ranges.used),
         UNCHANGED <<banNow, client>>
  PROVE  BansInv'
<1>1. \A a : Banned(a, Bannings(addrs'.used), Bannings(ranges'.used)) =>
               Banned(a, Bannings(addrs.used), Bannings(ranges.used))
  BY DEF Banned
<1>. QED  BY <1>1 DEF BansInv, Present

\* unban with one ban of the addresses or of the ranges
LEMMA UnbanStep ==
  ASSUME BansInv, NEW d, UNCHANGED <<banNow, client>>,
         \/ d \in Bannings(addrs.used) /\ addrs' = RemoveBan(addrs, d) /\ UNCHANGED ranges
         \/ d \in Bannings(ranges.used) /\ ranges' = RemoveBan(ranges, d) /\ UNCHANGED addrs
  PROVE  BansInv'
<1>0. PoolOK(addrs, Singles) /\ PoolOK(ranges, Spans)
  BY DEF BansInv
<1>1. CASE d \in Bannings(addrs.used) /\ addrs' = RemoveBan(addrs, d) /\ UNCHANGED ranges
  <2>1. PICK a : a = addrs
    OBVIOUS
  <2>2. PoolOK(a, Singles) /\ d \in Bannings(a.used) /\ d \in Targets
    BY <1>0, <1>1, <2>1 DEF PoolOK, Singles
  <2>3. PoolOK(RemoveBan(a, d), Singles) /\ Bannings(RemoveBan(a, d).used) = Bannings(a.used) \ {d}
    BY <2>2, RemoveOK
  <2>. QED  BY <1>0, <1>1, <2>1, <2>3, FewerBans
<1>2. CASE d \in Bannings(ranges.used) /\ ranges' = RemoveBan(ranges, d) /\ UNCHANGED addrs
  <2>1. PICK r : r = ranges
    OBVIOUS
  <2>2. PoolOK(r, Spans) /\ d \in Bannings(r.used) /\ d \in Targets
    BY <1>0, <1>2, <2>1 DEF PoolOK, Spans
  <2>3. PoolOK(RemoveBan(r, d), Spans) /\ Bannings(RemoveBan(r, d).used) = Bannings(r.used) \ {d}
    BY <2>2, RemoveOK
  <2>. QED  BY <1>0, <1>2, <2>1, <2>3, FewerBans
<1>. QED  BY <1>1, <1>2

\* The hash lists find what the lists show, in the order of their expiry, and no
\* client has an address that is found: CNetBan and CServerBan, for any addresses,
\* hash size, limit and commands.
THEOREM BansAlwaysHold == BansSpec => []BansHold
<1>1. BansInit => BansInv
  <2>1. SUFFICES ASSUME BansInit PROVE BansInv
    OBVIOUS
  <2>2. PoolOK(addrs, Singles) /\ PoolOK(ranges, Spans)
    BY <2>1, EmptyOK DEF BansInit
  <2>3. client \in [BanSlots -> {NoClient} \union Tenants] /\ \A s \in BanSlots : ~Present(s)
    BY <2>1 DEF BansInit, Present
  <2>. QED  BY <2>1, <2>2, <2>3 DEF BansInit, BansInv
<1>2. ASSUME BansInv, [BansNext]_banVars PROVE BansInv'
  <2>0. BansInv /\ [BansNext]_banVars
    BY <1>2
  <2>1. /\ banNow \in Nat /\ PoolOK(addrs, Singles) /\ PoolOK(ranges, Spans)
        /\ client \in [BanSlots -> {NoClient} \union Tenants]
    BY <2>0 DEF BansInv
  <2>2. CASE \E d \in Targets, minutes \in {0, 1} : BanCommand(d, minutes)
    BY <2>0, <2>2, BanStep
  <2>3. CASE \E d \in Targets : UnbanCommand(d)
    <3>1. PICK d \in Targets : UnbanCommand(d)
      BY <2>3
    <3>2. PICK a, r : a = addrs /\ r = ranges
      OBVIOUS
    <3>3. (Find(a, d) <=> d \in Bannings(a.used)) /\ (Find(r, d) <=> d \in Bannings(r.used))
      <4>1. PoolOK(a, Singles) /\ PoolOK(r, Spans)
        BY <2>1, <3>2
      <4>. QED  BY <4>1, FoundInPool
    <3>. QED  BY <2>0, <3>1, <3>2, <3>3, UnbanStep DEF UnbanCommand
  <2>4. CASE \E i \in 0 .. 2 * MaxBans - 1 : UnbanByIndex(i)
    <3>1. PICK i \in 0 .. 2 * MaxBans - 1 : UnbanByIndex(i)
      BY <2>4
    <3>2. PICK n, m : n = Len(addrs.used) /\ m = Len(ranges.used)
      OBVIOUS
    <3>3. n \in Nat /\ m \in Nat /\ DOMAIN addrs.used = 1 .. n /\ DOMAIN ranges.used = 1 .. m /\ i \in Nat
      <4>1. addrs.used \in Seq(Ban) /\ ranges.used \in Seq(Ban)
        BY <2>1 DEF PoolOK, PoolTypes
      <4>2. i \in Nat
        BY BansAssumption
      <4>. QED  BY <3>2, <4>1, <4>2
    <3>4. CASE i < n
      <4>1. PICK d : d = addrs.used[i + 1].data
        OBVIOUS
      <4>2. d \in Bannings(addrs.used)
        <5>1. i + 1 \in 1 .. n
          BY <3>3, <3>4
        <5>. QED  BY <3>3, <4>1, <5>1 DEF Bannings
      <4>3. addrs' = RemoveBan(addrs, d) /\ UNCHANGED <<ranges, banNow, client>>
        BY <3>1, <3>2, <3>4, <4>1 DEF UnbanByIndex
      <4>. QED  BY <2>0, <4>2, <4>3, UnbanStep
    <3>5. CASE ~(i < n)
      <4>1. PICK d : d = ranges.used[i - n + 1].data
        OBVIOUS
      <4>2. i - n < m /\ ranges' = RemoveBan(ranges, d) /\ UNCHANGED <<addrs, banNow, client>>
        BY <3>1, <3>2, <3>5, <4>1 DEF UnbanByIndex
      <4>3. d \in Bannings(ranges.used)
        <5>1. i - n + 1 \in 1 .. m
          BY <3>3, <3>5, <4>2
        <5>. QED  BY <3>3, <4>1, <5>1 DEF Bannings
      <4>. QED  BY <2>0, <4>2, <4>3, UnbanStep
    <3>. QED  BY <3>4, <3>5
  <2>5. CASE UnbanAll
    <3>1. addrs' = EmptyPool /\ ranges' = EmptyPool /\ UNCHANGED <<banNow, client>>
      BY <2>5 DEF UnbanAll
    <3>2. /\ PoolOK(EmptyPool, Singles) /\ PoolOK(EmptyPool, Spans)
          /\ Bannings(EmptyPool.used) = {}
      BY EmptyOK
    <3>. QED  BY <2>0, <3>1, <3>2, FewerBans
  <2>6. CASE ExpireBans
    <3>1. PICK a, r : a = addrs /\ r = ranges
      OBVIOUS
    <3>2. addrs' = Expire(a) /\ ranges' = Expire(r) /\ UNCHANGED <<banNow, client>>
      BY <2>6, <3>1 DEF ExpireBans
    <3>3. /\ PoolOK(Expire(a), Singles) /\ Bannings(Expire(a).used) \subseteq Bannings(a.used)
          /\ PoolOK(Expire(r), Spans) /\ Bannings(Expire(r).used) \subseteq Bannings(r.used)
      <4>1. PoolOK(a, Singles) /\ PoolOK(r, Spans)
        BY <2>1, <3>1
      <4>. QED  BY <4>1, ExpireOK
    <3>. QED  BY <2>0, <3>1, <3>2, <3>3, FewerBans
  <2>7. CASE SaveAndRestart
    <3>1. PICK a, r : a = addrs /\ r = ranges
      OBVIOUS
    <3>2. /\ addrs' = Execute(Commands(a.used)) /\ ranges' = Execute(Commands(r.used))
          /\ client' = [s \in BanSlots |-> NoClient] /\ banNow' = banNow
      BY <2>7, <3>1 DEF SaveAndRestart
    <3>3. PoolOK(Execute(Commands(a.used)), Singles) /\ PoolOK(Execute(Commands(r.used)), Spans)
      <4>1. PoolOK(a, Singles) /\ PoolOK(r, Spans) /\ banNow \in Nat
        BY <2>1, <3>1
      <4>. QED  BY <4>1, RestartOK
    <3>4. client' \in [BanSlots -> {NoClient} \union Tenants] /\ \A s \in BanSlots : client'[s] = NoClient
      BY <3>2
    <3>. QED  BY <2>1, <3>2, <3>3, <3>4 DEF BansInv, Present
  <2>8. CASE BanTimePasses
    <3>1. banNow' \in Nat /\ UNCHANGED <<addrs, ranges, client>>
      BY <2>1, <2>8 DEF BanTimePasses
    <3>. QED  BY <2>0, <3>1 DEF BansInv, Present
  <2>9. CASE \E s \in BanSlots : \/ Disconnect(s)
                                 \/ \E a \in Addr : Connect(s, a)
                                 \/ \E level \in {1, 2} : Authenticate(s, level)
    <3>1. PICK s \in BanSlots : \/ Disconnect(s)
                                \/ \E a \in Addr : Connect(s, a)
                                \/ \E level \in {1, 2} : Authenticate(s, level)
      BY <2>9
    <3>2. UNCHANGED <<banNow, addrs, ranges>>
      BY <3>1 DEF Disconnect, Connect, Authenticate
    <3>3. PICK c : /\ client' = [client EXCEPT ![s] = c] /\ c \in {NoClient} \union Tenants
                   /\ c # NoClient =>
                        ~Banned(c.addr, Bannings(addrs.used), Bannings(ranges.used))
      <4>1. CASE Disconnect(s)
        BY <4>1 DEF Disconnect
      <4>2. CASE \E a \in Addr : Connect(s, a)
        <5>1. PICK a \in Addr : Connect(s, a)
          BY <4>2
        <5>2. PICK c : c = [addr |-> a, authed |-> 0]
          OBVIOUS
        <5>3. c \in Tenants /\ c.addr = a
          BY <5>2 DEF Tenants
        <5>4. ~IsBanned(a) /\ client' = [client EXCEPT ![s] = c]
          BY <5>1, <5>2 DEF Connect
        <5>5. ~Banned(a, Bannings(addrs.used), Bannings(ranges.used))
          BY <2>1, <5>4, FoundAsListed
        <5>. QED  BY <5>3, <5>4, <5>5
      <4>3. CASE \E level \in {1, 2} : Authenticate(s, level)
        <5>1. PICK level \in {1, 2} : Authenticate(s, level)
          BY <4>3
        <5>2. client[s] \in Tenants /\ Present(s) /\ client' = [client EXCEPT ![s].authed = level]
          BY <2>1, <5>1 DEF Authenticate, Present
        <5>3. PICK c : c = [client[s] EXCEPT !.authed = level]
          OBVIOUS
        <5>4. client' = [client EXCEPT ![s] = c] /\ c \in Tenants /\ c.addr = client[s].addr
          BY <2>1, <5>2, <5>3 DEF Tenants
        <5>. QED  BY <2>0, <5>2, <5>4 DEF BansInv
      <4>. QED  BY <3>1, <4>1, <4>2, <4>3
    <3>4. client' \in [BanSlots -> {NoClient} \union Tenants]
      BY <2>1, <3>3
    <3>5. ASSUME NEW t \in BanSlots, client'[t] # NoClient
          PROVE  ~Banned(client'[t].addr, Bannings(addrs.used), Bannings(ranges.used))
      <4>1. CASE t = s
        BY <2>1, <3>3, <3>5, <4>1
      <4>2. CASE t # s
        <5>1. client'[t] = client[t]
          BY <2>1, <3>3, <4>2
        <5>. QED  BY <2>0, <3>5, <5>1 DEF BansInv, Present
      <4>. QED  BY <4>1, <4>2
    <3>. QED  BY <2>1, <3>2, <3>4, <3>5 DEF BansInv, Present
  <2>10. CASE UNCHANGED banVars
    BY <2>0, <2>10 DEF banVars, BansInv, Present
  <2>. QED  BY <2>0, <2>2, <2>3, <2>4, <2>5, <2>6, <2>7, <2>8, <2>9, <2>10 DEF BansNext
<1>3. BansInv => FoundIffListed /\ NoBannedClient /\ SoonestFirst
  <2>1. SUFFICES ASSUME BansInv PROVE FoundIffListed /\ NoBannedClient /\ SoonestFirst
    OBVIOUS
  <2>2. /\ PoolOK(addrs, Singles) /\ PoolOK(ranges, Spans)
        /\ client \in [BanSlots -> {NoClient} \union Tenants]
        /\ \A s \in BanSlots : Present(s) =>
             ~Banned(client[s].addr, Bannings(addrs.used), Bannings(ranges.used))
    BY <2>1 DEF BansInv
  <2>3. \A a \in Addr : IsBanned(a) <=> Banned(a, Bannings(addrs.used), Bannings(ranges.used))
    BY <2>2, FoundAsListed DEF IsBanned, Banned
  <2>4. FoundIffListed
    BY <2>3 DEF FoundIffListed, Banned, Bannings
  <2>5. NoBannedClient
    <3>1. \A s \in BanSlots : Present(s) => client[s].addr \in Addr
      BY <2>2 DEF Present, Tenants
    <3>. QED  BY <2>2, <2>3, <3>1 DEF NoBannedClient
  <2>6. SoonestFirst
    BY <2>2 DEF SoonestFirst, PoolOK, Sorted
  <2>. QED  BY <2>4, <2>5, <2>6
<1>4. BansSpec => []BansInv
  BY <1>1, <1>2, PTL DEF BansSpec
<1>5. BansInv => BansHold
  BY <1>3 DEF BansHold
<1>. QED  BY <1>4, <1>5, PTL

-----------------------------------------------------------------------------
(* The master server.                                                      *)

\* The last entry of a list in the place of another.
LEMMA LastMoved ==
  ASSUME NEW S, NEW q \in Seq(S), NEW n \in 1 .. Len(q)
  PROVE  /\ MoveLastTo(q, n) \in Seq(S)
         /\ Len(MoveLastTo(q, n)) = Len(q) - 1
         /\ \A j \in 1 .. Len(q) - 1 :
              MoveLastTo(q, n)[j] = IF j = n THEN q[Len(q)] ELSE q[j]
<1>. DEFINE L == Len(q)
            e == [q EXCEPT ![n] = q[Len(q)]]
<1>1. L \in Nat /\ L # 0 /\ L - 1 \in Nat /\ q[L] \in S
  OBVIOUS
<1>2. e \in Seq(S) /\ Len(e) = L /\ \A j \in 1 .. L : e[j] = IF j = n THEN q[L] ELSE q[j]
  BY <1>1
<1>. HIDE DEF e
<1>3. /\ SubSeq(e, 1, L - 1) \in Seq(S) /\ Len(SubSeq(e, 1, L - 1)) = L - 1
      /\ \A j \in 1 .. L - 1 : SubSeq(e, 1, L - 1)[j] = e[j]
  BY <1>1, <1>2
<1>4. MoveLastTo(q, n) = SubSeq(e, 1, L - 1)
  BY <1>2 DEF MoveLastTo, Front, e
<1>. HIDE DEF L
<1>5. \A j \in 1 .. L - 1 : j \in 1 .. L
  BY <1>1
<1>. QED  BY <1>2, <1>3, <1>4, <1>5 DEF L

\* f tells where in s the entries of the list t were that a loop has got from it,
\* which is at i of it.
From(f, s, i, t, gone, kept) ==
  /\ f \in [1 .. Len(t) -> 1 .. Len(s)]
  /\ \A m, n \in 1 .. Len(t) : f[m] = f[n] => m = n
  /\ \A n \in 1 .. Len(t) :
       IF n < i THEN s[f[n]] \notin gone /\ t[n] = kept[s[f[n]]] ELSE t[n] = s[f[n]]

Looked(st, k, s, gone, kept) ==
  /\ st.i \in 1 .. Len(st.s) + 1
  /\ Len(st.s) + 1 - st.i = Len(s) - k
  /\ \E f : From(f, s, st.i, st.s, gone, kept)

LEMMA LookAtNext ==
  ASSUME NEW S, NEW T, NEW s \in Seq(S), NEW gone, NEW kept \in [Range(s) -> T],
         NEW st \in [i : Nat, s : Seq(S \union T)], NEW k \in 1 .. Len(s),
         Looked(st, k - 1, s, gone, kept)
  PROVE  /\ LookAt(st, gone, kept) \in [i : Nat, s : Seq(S \union T)]
         /\ Looked(LookAt(st, gone, kept), k, s, gone, kept)
<1>. DEFINE i == st.i
            t == st.s
            L == Len(t)
            U == S \union T
<1>1. PICK f : From(f, s, i, t, gone, kept)
  BY DEF Looked
<1>2. i \in Nat /\ t \in Seq(U) /\ L \in Nat /\ Len(s) \in Nat
  OBVIOUS
<1>3. i \in 1 .. L + 1 /\ L + 1 - i = Len(s) - (k - 1)
  BY DEF Looked
<1>4. i \in 1 .. L /\ L \in 1 .. L /\ ~(L < i) /\ ~(i < i)
  BY <1>2, <1>3
<1>5. t[i] = s[f[i]] /\ f[i] \in 1 .. Len(s) /\ t[L] = s[f[L]] /\ f[L] \in 1 .. Len(s)
  <2>1. f \in [1 .. L -> 1 .. Len(s)] /\ \A n \in 1 .. L : ~(n < i) => t[n] = s[f[n]]
    BY <1>1 DEF From
  <2>. HIDE DEF i, L, t
  <2>. QED  BY <1>4, <2>1
<1>6. CASE t[i] \in gone
  <2>. DEFINE q == MoveLastTo(t, i)
              g == [n \in 1 .. L - 1 |-> IF n = i THEN f[L] ELSE f[n]]
  <2>1. LookAt(st, gone, kept) = [i |-> i, s |-> q]
    BY <1>6 DEF LookAt
  <2>2. q \in Seq(U) /\ Len(q) = L - 1
        /\ \A j \in 1 .. L - 1 : q[j] = IF j = i THEN t[L] ELSE t[j]
    <3>. HIDE DEF i, t
    <3>. QED  BY <1>2, <1>4, LastMoved
  <2>3. f \in [1 .. L -> 1 .. Len(s)] /\ (\A m, n \in 1 .. L : f[m] = f[n] => m = n)
        /\ \A n \in 1 .. L :
             IF n < i THEN s[f[n]] \notin gone /\ t[n] = kept[s[f[n]]] ELSE t[n] = s[f[n]]
    BY <1>1 DEF From
  <2>. HIDE DEF q, i, t, L
  <2>4. \A n \in 1 .. L - 1 : n \in 1 .. L /\ n # L
    BY <1>2
  <2>5. g \in [1 .. L - 1 -> 1 .. Len(s)]
    BY <1>4, <2>3, <2>4
  <2>6. \A m, n \in 1 .. L - 1 : g[m] = g[n] => m = n
    BY <1>4, <2>3, <2>4
  <2>7. \A n \in 1 .. L - 1 :
          IF n < i THEN s[g[n]] \notin gone /\ q[n] = kept[s[g[n]]] ELSE q[n] = s[g[n]]
    <3>. SUFFICES ASSUME NEW n \in 1 .. L - 1
                  PROVE  IF n < i THEN s[g[n]] \notin gone /\ q[n] = kept[s[g[n]]]
                         ELSE q[n] = s[g[n]]
      OBVIOUS
    <3>1. CASE n = i
      BY <1>4, <1>5, <2>2, <3>1
    <3>2. CASE n # i
      <4>1. g[n] = f[n] /\ q[n] = t[n] /\ n \in 1 .. L
        BY <2>2, <2>4, <3>2
      <4>. HIDE DEF g
      <4>. QED  BY <2>3, <4>1
    <3>. QED  BY <3>1, <3>2
  <2>. HIDE DEF g
  <2>8. From(g, s, i, q, gone, kept)
    BY <2>2, <2>5, <2>6, <2>7 DEF From
  <2>9. i \in 1 .. Len(q) + 1 /\ Len(q) + 1 - i = Len(s) - k
    <3>1. L \in Nat /\ Len(s) \in Nat /\ k \in Nat /\ i \in 1 .. L /\ Len(q) = L - 1
      BY <1>2, <1>4, <2>2 DEF L
    <3>2. L + 1 - i = Len(s) - (k - 1)
      BY <1>3 DEF L
    <3>. QED  BY <3>1, <3>2
  <2>. QED  BY <1>2, <2>1, <2>2, <2>8, <2>9 DEF Looked, i
<1>7. CASE t[i] \notin gone
  <2>. DEFINE q == [t EXCEPT ![i] = kept[t[i]]]
  <2>1. LookAt(st, gone, kept) = [i |-> i + 1, s |-> q]
    BY <1>7 DEF LookAt
  <2>2. t[i] \in Range(s)
    <3>1. f[i] \in DOMAIN s
      BY <1>2, <1>5
    <3>. QED  BY <1>5, <3>1 DEF Range
  <2>3. kept[t[i]] \in U
    BY <2>2
  <2>4. q \in Seq(U) /\ Len(q) = L /\ \A j \in 1 .. L : q[j] = IF j = i THEN kept[t[i]] ELSE t[j]
    <3>. HIDE DEF i, t
    <3>. QED  BY <1>2, <1>4, <2>3
  <2>5. f \in [1 .. L -> 1 .. Len(s)] /\ (\A m, n \in 1 .. L : f[m] = f[n] => m = n)
        /\ \A n \in 1 .. L :
             IF n < i THEN s[f[n]] \notin gone /\ t[n] = kept[s[f[n]]] ELSE t[n] = s[f[n]]
    BY <1>1 DEF From
  <2>. HIDE DEF q, i, t, L
  <2>6. \A n \in 1 .. L :
          IF n < i + 1 THEN s[f[n]] \notin gone /\ q[n] = kept[s[f[n]]] ELSE q[n] = s[f[n]]
    <3>. SUFFICES ASSUME NEW n \in 1 .. L
                  PROVE  IF n < i + 1 THEN s[f[n]] \notin gone /\ q[n] = kept[s[f[n]]]
                         ELSE q[n] = s[f[n]]
      OBVIOUS
    <3>1. CASE n = i
      <4>1. n < i + 1
        BY <1>2, <3>1
      <4>. QED  BY <1>5, <1>7, <2>4, <3>1, <4>1
    <3>2. CASE n # i
      <4>1. n < i + 1 <=> n < i
        BY <1>2, <3>2
      <4>2. q[n] = t[n]
        BY <2>4, <3>2
      <4>. QED  BY <2>5, <4>1, <4>2
    <3>. QED  BY <3>1, <3>2
  <2>7. From(f, s, i + 1, q, gone, kept)
    BY <2>4, <2>5, <2>6 DEF From
  <2>8. i + 1 \in 1 .. Len(q) + 1 /\ Len(q) + 1 - (i + 1) = Len(s) - k /\ i + 1 \in Nat
    <3>1. L \in Nat /\ Len(s) \in Nat /\ k \in Nat /\ i \in 1 .. L /\ Len(q) = L
      BY <1>2, <1>4, <2>4 DEF L
    <3>2. L + 1 - i = Len(s) - (k - 1)
      BY <1>3 DEF L
    <3>. QED  BY <3>1, <3>2
  <2>. QED  BY <2>1, <2>4, <2>7, <2>8 DEF Looked
<1>. QED  BY <1>6, <1>7

\* A loop that removes what is gone leaves of the rest what kept makes of it, each
\* entry once.
LEMMA SweepKeeps ==
  ASSUME NEW S, NEW T, NEW s \in Seq(S), NEW gone, NEW kept \in [Range(s) -> T]
  PROVE  LET r == Sweep(s, gone, kept)
         IN  /\ r \in Seq(T) /\ Len(r) <= Len(s)
             /\ \E f \in [1 .. Len(r) -> 1 .. Len(s)] :
                  /\ \A m, n \in 1 .. Len(r) : f[m] = f[n] => m = n
                  /\ \A n \in 1 .. Len(r) : s[f[n]] \notin gone /\ r[n] = kept[s[f[n]]]
<1>. DEFINE N == Len(s)
            D == [i : Nat, s : Seq(S \union T)]
            a == [i |-> 1, s |-> s]
            G(k) == {st \in D : Looked(st, k, s, gone, kept)}
            Loop(f) == f = [k \in 0 .. N |-> IF k = 0 THEN a ELSE LookAt(f[k - 1], gone, kept)]
<1>0. N \in Nat /\ \A k \in 1 .. N : k \in 0 .. N /\ k # 0 /\ k - 1 \in 0 .. N
  OBVIOUS
<1>1. a \in G(0)
  <2>1. s \in Seq(S \union T)
    OBVIOUS
  <2>2. From([n \in 1 .. N |-> n], s, 1, s, gone, kept)
    <3>1. \A n \in 1 .. N : ~(n < 1)
      OBVIOUS
    <3>. QED  BY <3>1 DEF From
  <2>3. 1 \in 1 .. N + 1 /\ N + 1 - 1 = N - 0
    BY <1>0
  <2>4. a \in D /\ a.i = 1 /\ a.s = s
    BY <2>1
  <2>5. Looked(a, 0, s, gone, kept)
    BY <2>2, <2>3, <2>4 DEF Looked
  <2>. QED  BY <2>4, <2>5
<1>2. ASSUME NEW k \in 1 .. N, NEW st \in G(k - 1) PROVE LookAt(st, gone, kept) \in G(k)
  <2>1. st \in D /\ Looked(st, k - 1, s, gone, kept)
    OBVIOUS
  <2>. QED  BY <2>1, LookAtNext
<1>. HIDE DEF G
<1>3. \E f : Loop(f)
  <2>. DEFINE F == [k \in 1 .. N |-> [st \in D |-> LookAt(st, gone, kept)]]
              H == [k \in 0 .. N |-> G(k)]
  <2>1. (\A k \in 0 .. N : H[k] \subseteq D) /\ a \in H[0]
    BY <1>0, <1>1 DEF G
  <2>2. \A k \in 1 .. N : \A st \in H[k - 1] :
          F[k][st] = LookAt(st, gone, kept) /\ F[k][st] \in H[k]
    <3>. SUFFICES ASSUME NEW k \in 1 .. N, NEW st \in H[k - 1]
                  PROVE  F[k][st] = LookAt(st, gone, kept) /\ F[k][st] \in H[k]
      OBVIOUS
    <3>1. st \in D /\ st \in G(k - 1)
      BY <1>0 DEF G
    <3>. HIDE DEF D, N
    <3>2. F[k][st] = LookAt(st, gone, kept)
      BY <3>1
    <3>. QED  BY <1>0, <1>2, <3>1, <3>2
  <2>. HIDE DEF D, F, H, N, a
  <2>3. PICK f \in [0 .. N -> D] : Runs(f, a, F, N) /\ \A k \in 0 .. N : f[k] \in H[k]
    <3>1. \A k \in 1 .. N : \A st \in H[k - 1] : F[k][st] \in H[k]
      BY <2>2
    <3>2. \A k \in 0 .. N : H[k] \subseteq D
      BY <2>1
    <3>3. a \in H[0]
      BY <2>1
    <3>. QED  BY <1>0, <3>1, <3>2, <3>3, LoopRuns
  <2>4. \A k \in 0 .. N : f[k] = IF k = 0 THEN a ELSE LookAt(f[k - 1], gone, kept)
    <3>. SUFFICES ASSUME NEW k \in 0 .. N
                  PROVE  f[k] = IF k = 0 THEN a ELSE LookAt(f[k - 1], gone, kept)
      OBVIOUS
    <3>1. k # 0 => k \in 1 .. N
      BY <1>0
    <3>. QED  BY <1>0, <2>2, <2>3, <3>1 DEF Runs
  <2>5. Loop(f)
    BY <2>3, <2>4
  <2>. QED  BY <2>5
<1>4. PICK f : f = (CHOOSE g : Loop(g)) /\ Loop(f)
  <2>. HIDE DEF Loop
  <2>. QED  BY <1>3
<1>5. Sweep(s, gone, kept) = f[N].s
  BY <1>4 DEF Sweep
<1>6. f = [k \in 0 .. N |-> IF k = 0 THEN a ELSE LookAt(f[k - 1], gone, kept)]
  BY <1>4
<1>. HIDE DEF Loop, N, a
<1>7. f[N] \in G(N)
  <2>. DEFINE B == {k \in 0 .. N : f[k] \in G(k)}
  <2>1. 0 \in B
    <3>1. 0 \in 0 .. N
      BY <1>0
    <3>. QED  BY <1>1, <1>6, <3>1
  <2>2. ASSUME NEW k \in 1 .. N, k - 1 \in B PROVE k \in B
    <3>1. f[k - 1] \in G(k - 1) /\ f[k] = LookAt(f[k - 1], gone, kept)
      BY <1>0, <1>6, <2>2
    <3>. QED  BY <1>0, <1>2, <3>1
  <2>. HIDE DEF B
  <2>3. \A k \in 0 .. N : k \in B
    BY <1>0, <2>1, <2>2, NumbersUpTo
  <2>4. N \in 0 .. N
    BY <1>0
  <2>. QED  BY <2>3, <2>4 DEF B
<1>8. PICK r : r = f[N].s
  OBVIOUS
<1>9. PICK i : i = f[N].i
  OBVIOUS
<1>10. /\ r \in Seq(S \union T) /\ i \in Nat /\ i \in 1 .. Len(r) + 1
       /\ Len(r) + 1 - i = N - N /\ \E g : From(g, s, i, r, gone, kept)
  BY <1>7, <1>8, <1>9 DEF G, Looked, N
<1>11. PICK g : From(g, s, i, r, gone, kept)
  BY <1>10
<1>12. Len(r) \in Nat /\ Len(s) \in Nat /\ i = Len(r) + 1
  <2>1. Len(r) \in Nat /\ N - N = 0
    BY <1>0, <1>10
  <2>. QED  BY <1>0, <1>10, <2>1 DEF N
<1>13. \A n \in 1 .. Len(r) : n < i
  BY <1>12
<1>14. /\ g \in [1 .. Len(r) -> 1 .. Len(s)]
       /\ \A m, n \in 1 .. Len(r) : g[m] = g[n] => m = n
       /\ \A n \in 1 .. Len(r) : s[g[n]] \notin gone /\ r[n] = kept[s[g[n]]]
  BY <1>11, <1>13 DEF From
<1>15. \A n \in 1 .. Len(r) : r[n] \in T
  <2>1. \A n \in 1 .. Len(r) : s[g[n]] \in Range(s)
    BY <1>14 DEF Range
  <2>. QED  BY <1>14, <2>1
<1>16. r \in Seq(T)
  <2>1. r = [n \in 1 .. Len(r) |-> r[n]]
    BY <1>10
  <2>. QED  BY <1>12, <1>15, <2>1
<1>17. Len(r) <= Len(s)
  <2>1. /\ IsFiniteSet(1 .. Len(r)) /\ Cardinality(1 .. Len(r)) = Len(r)
        /\ IsFiniteSet(1 .. Len(s)) /\ Cardinality(1 .. Len(s)) = Len(s)
    BY <1>12, OneToN
  <2>2. IsInjective(g)
    BY <1>14 DEF IsInjective
  <2>3. Cardinality(1 .. Len(r)) <= Cardinality(1 .. Len(s))
    BY <1>14, <2>1, <2>2, FS_Injection DEF Injection
  <2>. QED  BY <2>1, <2>3
<1>. QED  BY <1>5, <1>8, <1>14, <1>16, <1>17

Server == [address : Addrs, type : Types, expire : Nat]
PacketLists == [Types -> Seq(Seq(Addrs))]

\* No two places in the packets p have the same address.
ListedOnce(p) ==
  \A t, u \in Types : \A i \in DOMAIN p[t], j \in DOMAIN p[u] :
    \A m \in DOMAIN p[t][i], n \in DOMAIN p[u][j] :
      p[u][j][n] = p[t][i][m] => u = t /\ j = i /\ n = m

\* What is in the packets p is among the first k of s.
ListedOf(p, k, s) ==
  \A t \in Types : \A i \in DOMAIN p[t] : \A m \in DOMAIN p[t][i] :
    \E j \in 1 .. k : p[t][i][m] = s[j].address

AddressesOnce(s) == \A i, j \in 1 .. Len(s) : s[i].address = s[j].address => i = j

\* A server gets one new place, and nothing else is moved.
LEMMA PutInOnePlace ==
  ASSUME NEW p \in PacketLists, NEW e \in Server
  PROVE  /\ Put(p, e) \in PacketLists
         /\ \E x, y : \A t \in Types : \A i \in DOMAIN Put(p, e)[t] :
              \A m \in DOMAIN Put(p, e)[t][i] :
                \/ t = e.type /\ i = x /\ m = y /\ Put(p, e)[t][i][m] = e.address
                \/ i \in DOMAIN p[t] /\ m \in DOMAIN p[t][i] /\ Put(p, e)[t][i][m] = p[t][i][m]
<1>. DEFINE mine == p[e.type]
            q == Put(p, e)
            NewAt(x, y) == \A t \in Types : \A i \in DOMAIN q[t] : \A m \in DOMAIN q[t][i] :
                             \/ t = e.type /\ i = x /\ m = y /\ q[t][i][m] = e.address
                             \/ /\ i \in DOMAIN p[t] /\ m \in DOMAIN p[t][i]
                                /\ q[t][i][m] = p[t][i][m]
<1>. SUFFICES q \in PacketLists /\ \E x, y : NewAt(x, y)
  OBVIOUS
<1>1. e.type \in Types /\ e.address \in Addrs
  BY DEF Server
<1>2. mine \in Seq(Seq(Addrs)) /\ Len(mine) \in Nat
  BY <1>1 DEF PacketLists
<1>3. \A t \in Types : t # e.type =>
        \A l \in Seq(Seq(Addrs)) : [p EXCEPT ![e.type] = l][t] = p[t]
  BY DEF PacketLists
<1>4. \A l \in Seq(Seq(Addrs)) : /\ [p EXCEPT ![e.type] = l] \in PacketLists
                                 /\ [p EXCEPT ![e.type] = l][e.type] = l
  BY <1>1 DEF PacketLists
<1>5. CASE q = p
  BY <1>5
<1>6. CASE q = [p EXCEPT ![e.type] = Append(mine, <<e.address>>)]
  <2>. DEFINE l == Append(mine, <<e.address>>)
              n == Len(mine) + 1
  <2>1. l \in Seq(Seq(Addrs)) /\ DOMAIN l = 1 .. n /\ l[n] = <<e.address>>
        /\ \A i \in 1 .. Len(mine) : l[i] = mine[i]
    BY <1>1, <1>2
  <2>2. q \in PacketLists /\ q[e.type] = l /\ \A t \in Types : t # e.type => q[t] = p[t]
    <3>. HIDE DEF l, q, mine
    <3>. QED  BY <1>3, <1>4, <1>6, <2>1 DEF l
  <2>3. \A i \in 1 .. n : i # n => i \in 1 .. Len(mine)
    BY <1>2
  <2>4. DOMAIN mine = 1 .. Len(mine)
    BY <1>2
  <2>5. DOMAIN <<e.address>> = {1} /\ <<e.address>>[1] = e.address
    OBVIOUS
  <2>. HIDE DEF l, q, n
  <2>6. NewAt(n, 1)
    <3>. SUFFICES ASSUME NEW t \in Types, NEW i \in DOMAIN q[t], NEW m \in DOMAIN q[t][i]
                  PROVE  \/ t = e.type /\ i = n /\ m = 1 /\ q[t][i][m] = e.address
                         \/ /\ i \in DOMAIN p[t] /\ m \in DOMAIN p[t][i]
                            /\ q[t][i][m] = p[t][i][m]
      OBVIOUS
    <3>1. CASE t # e.type
      BY <2>2, <3>1
    <3>2. CASE t = e.type /\ i = n
      BY <2>1, <2>2, <2>5, <3>2
    <3>3. CASE t = e.type /\ i # n
      BY <2>1, <2>2, <2>3, <2>4, <3>3
    <3>. QED  BY <3>1, <3>2, <3>3
  <2>. HIDE DEF NewAt
  <2>. QED  BY <2>2, <2>6
<1>7. CASE mine # <<>>
           /\ q = [p EXCEPT ![e.type] =
                     [mine EXCEPT ![Len(mine)] = Append(mine[Len(mine)], e.address)]]
  <2>. DEFINE n == Len(mine)
              a == Append(mine[n], e.address)
              l == [mine EXCEPT ![n] = a]
              y == Len(mine[n]) + 1
  <2>1. n \in 1 .. n /\ mine[n] \in Seq(Addrs) /\ DOMAIN mine = 1 .. n
    BY <1>2, <1>7
  <2>2. a \in Seq(Addrs) /\ DOMAIN a = 1 .. y /\ a[y] = e.address
        /\ DOMAIN mine[n] = 1 .. Len(mine[n]) /\ Len(mine[n]) \in Nat
        /\ \A i \in 1 .. Len(mine[n]) : a[i] = mine[n][i]
    BY <1>1, <2>1
  <2>. HIDE DEF a
  <2>3. l \in Seq(Seq(Addrs)) /\ DOMAIN l = 1 .. n /\ l[n] = a
        /\ \A i \in 1 .. n : i # n => l[i] = mine[i]
    BY <1>2, <2>1, <2>2
  <2>4. q \in PacketLists /\ q[e.type] = l /\ \A t \in Types : t # e.type => q[t] = p[t]
    <3>. HIDE DEF l, q
    <3>1. q = [p EXCEPT ![e.type] = l]
      BY <1>7 DEF l, a
    <3>. HIDE DEF mine
    <3>. QED  BY <1>3, <1>4, <2>3, <3>1
  <2>5. \A m \in 1 .. y : m # y => m \in 1 .. Len(mine[n])
    BY <2>2
  <2>. HIDE DEF l, q, y
  <2>6. NewAt(n, y)
    <3>. SUFFICES ASSUME NEW t \in Types, NEW i \in DOMAIN q[t], NEW m \in DOMAIN q[t][i]
                  PROVE  \/ t = e.type /\ i = n /\ m = y /\ q[t][i][m] = e.address
                         \/ /\ i \in DOMAIN p[t] /\ m \in DOMAIN p[t][i]
                            /\ q[t][i][m] = p[t][i][m]
      OBVIOUS
    <3>1. CASE t # e.type
      BY <2>4, <3>1
    <3>2. CASE t = e.type /\ i = n /\ m = y
      BY <2>2, <2>3, <2>4, <3>2
    <3>3. CASE t = e.type /\ i = n /\ m # y
      BY <2>1, <2>2, <2>3, <2>4, <2>5, <3>3
    <3>4. CASE t = e.type /\ i # n
      BY <2>1, <2>3, <2>4, <3>4
    <3>. QED  BY <3>1, <3>2, <3>3, <3>4
  <2>. HIDE DEF NewAt
  <2>. QED  BY <2>4, <2>6
<1>. QED  BY <1>5, <1>6, <1>7 DEF Put

LEMMA PutKeeps ==
  ASSUME NEW p \in PacketLists, NEW s \in Seq(Server), AddressesOnce(s),
         NEW k \in 1 .. Len(s), ListedOnce(p), ListedOf(p, k - 1, s)
  PROVE  /\ Put(p, s[k]) \in PacketLists
         /\ ListedOnce(Put(p, s[k])) /\ ListedOf(Put(p, s[k]), k, s)
<1>. DEFINE q == Put(p, s[k])
<1>1. s[k] \in Server /\ k \in 1 .. k /\ k \in Nat
  OBVIOUS
<1>2. PICK x, y : \A t \in Types : \A i \in DOMAIN q[t] : \A m \in DOMAIN q[t][i] :
        \/ t = s[k].type /\ i = x /\ m = y /\ q[t][i][m] = s[k].address
        \/ i \in DOMAIN p[t] /\ m \in DOMAIN p[t][i] /\ q[t][i][m] = p[t][i][m]
  BY <1>1, PutInOnePlace
<1>3. q \in PacketLists
  BY <1>1, PutInOnePlace
<1>. HIDE DEF q
<1>4. \A j \in 1 .. k - 1 : j \in 1 .. k /\ j \in 1 .. Len(s) /\ j # k
  OBVIOUS
<1>5. ListedOf(q, k, s)
  <2>. SUFFICES ASSUME NEW t \in Types, NEW i \in DOMAIN q[t], NEW m \in DOMAIN q[t][i]
                PROVE  \E j \in 1 .. k : q[t][i][m] = s[j].address
    BY DEF ListedOf
  <2>. QED  BY <1>1, <1>2, <1>4 DEF ListedOf
<1>6. \A t \in Types : \A i \in DOMAIN p[t] : \A m \in DOMAIN p[t][i] :
        p[t][i][m] # s[k].address
  BY <1>4 DEF ListedOf, AddressesOnce
<1>7. ListedOnce(q)
  <2>. SUFFICES ASSUME NEW t \in Types, NEW u \in Types,
                       NEW i \in DOMAIN q[t], NEW j \in DOMAIN q[u],
                       NEW m \in DOMAIN q[t][i], NEW n \in DOMAIN q[u][j],
                       q[u][j][n] = q[t][i][m]
                PROVE  u = t /\ j = i /\ n = m
    BY DEF ListedOnce
  <2>1. \/ t = s[k].type /\ i = x /\ m = y /\ q[t][i][m] = s[k].address
        \/ i \in DOMAIN p[t] /\ m \in DOMAIN p[t][i] /\ q[t][i][m] = p[t][i][m]
    BY <1>2
  <2>2. \/ u = s[k].type /\ j = x /\ n = y /\ q[u][j][n] = s[k].address
        \/ j \in DOMAIN p[u] /\ n \in DOMAIN p[u][j] /\ q[u][j][n] = p[u][j][n]
    BY <1>2
  <2>. QED  BY <1>6, <2>1, <2>2 DEF ListedOnce
<1>. QED  BY <1>3, <1>5, <1>7 DEF q

\* What is built lists servers, and none twice.
LEMMA BuildLists ==
  ASSUME NEW s \in Seq(Server), AddressesOnce(s)
  PROVE  /\ BuildPackets(s) \in PacketLists
         /\ ListedOnce(BuildPackets(s)) /\ ListedOf(BuildPackets(s), Len(s), s)
<1>. DEFINE N == Len(s)
            a == [t \in Types |-> <<>>]
            H == [k \in 0 .. N |-> {p \in PacketLists : ListedOnce(p) /\ ListedOf(p, k, s)}]
            F == [k \in 1 .. N |-> [p \in PacketLists |-> Put(p, s[k])]]
            Loop(f) == f = [k \in 0 .. N |-> IF k = 0 THEN a ELSE Put(f[k - 1], s[k])]
<1>1. N \in Nat /\ 0 \in 0 .. N /\ N \in 0 .. N
      /\ \A k \in 1 .. N : k \in 0 .. N /\ k # 0 /\ k - 1 \in 0 .. N
  OBVIOUS
<1>2. a \in H[0]
  <2>1. a \in PacketLists
    BY DEF PacketLists
  <2>2. \A t \in Types : DOMAIN a[t] = {}
    OBVIOUS
  <2>3. ListedOnce(a) /\ ListedOf(a, 0, s)
    BY <2>2 DEF ListedOnce, ListedOf
  <2>. QED  BY <1>1, <2>1, <2>3
<1>3. \A k \in 1 .. N : \A p \in H[k - 1] : F[k][p] = Put(p, s[k]) /\ F[k][p] \in H[k]
  <2>. SUFFICES ASSUME NEW k \in 1 .. N, NEW p \in H[k - 1]
                PROVE  F[k][p] = Put(p, s[k]) /\ F[k][p] \in H[k]
    OBVIOUS
  <2>1. p \in PacketLists /\ ListedOnce(p) /\ ListedOf(p, k - 1, s)
    BY <1>1
  <2>2. F[k][p] = Put(p, s[k])
    BY <2>1
  <2>3. Put(p, s[k]) \in PacketLists /\ ListedOnce(Put(p, s[k])) /\ ListedOf(Put(p, s[k]), k, s)
    BY <2>1, PutKeeps
  <2>4. Put(p, s[k]) \in H[k]
    BY <1>1, <2>3
  <2>. QED  BY <2>2, <2>4
<1>4. \A k \in 0 .. N : H[k] \subseteq PacketLists
  OBVIOUS
<1>5. \E f : Loop(f)
  <2>. HIDE DEF H, F, N, a
  <2>1. \A k \in 1 .. N : \A st \in H[k - 1] : F[k][st] \in H[k]
    BY <1>3
  <2>2. PICK f \in [0 .. N -> PacketLists] :
          Runs(f, a, F, N) /\ \A k \in 0 .. N : f[k] \in H[k]
    BY <1>1, <1>2, <1>4, <2>1, LoopRuns
  <2>3. \A k \in 0 .. N : f[k] = IF k = 0 THEN a ELSE Put(f[k - 1], s[k])
    <3>. SUFFICES ASSUME NEW k \in 0 .. N
                  PROVE  f[k] = IF k = 0 THEN a ELSE Put(f[k - 1], s[k])
      OBVIOUS
    <3>1. k # 0 => k \in 1 .. N
      BY <1>1
    <3>. QED  BY <1>1, <1>3, <2>2, <3>1 DEF Runs
  <2>4. Loop(f)
    BY <2>2, <2>3
  <2>. QED  BY <2>4
<1>6. PICK f : f = (CHOOSE g : Loop(g)) /\ Loop(f)
  <2>. HIDE DEF Loop
  <2>. QED  BY <1>5
<1>7. BuildPackets(s) = f[N]
  BY <1>6 DEF BuildPackets
<1>8. f = [k \in 0 .. N |-> IF k = 0 THEN a ELSE Put(f[k - 1], s[k])]
  BY <1>6
<1>9. f[N] \in H[N]
  <2>. DEFINE B == {k \in 0 .. N : f[k] \in H[k]}
  <2>. HIDE DEF H, F, N, a, Loop
  <2>1. 0 \in B
    BY <1>1, <1>2, <1>8
  <2>2. ASSUME NEW k \in 1 .. N, k - 1 \in B PROVE k \in B
    <3>1. f[k - 1] \in H[k - 1] /\ f[k] = Put(f[k - 1], s[k])
      BY <1>1, <1>8, <2>2
    <3>. QED  BY <1>1, <1>3, <3>1
  <2>. HIDE DEF B
  <2>3. \A k \in 0 .. N : k \in B
    BY <1>1, <2>1, <2>2, NumbersUpTo
  <2>. QED  BY <1>1, <2>3 DEF B
<1>. HIDE DEF Loop
<1>. QED  BY <1>1, <1>7, <1>9

Check == [address : Addrs, alt : Addrs, type : Types, tries : 0 .. MaxTries,
          time : -1 .. MasterEnd]

\* A server stays listed for ExpireTime after its last answer, and what the packets list
\* had answered in the ExpireTime before they were built.
MasterInv ==
  /\ masterNow \in 0 .. MasterEnd /\ lastBuild \in -1 - BuildEvery .. MasterEnd
  /\ checks \in Seq(Check)
  /\ servers \in Seq(Server) /\ Len(servers) <= MaxServers
  /\ answered \in [Addrs -> -1 .. MasterEnd]
  /\ \A a \in Addrs : answered[a] <= masterNow
  /\ packets \in PacketLists
  /\ AddressesOnce(servers)
  /\ \A n \in 1 .. Len(servers) :
       /\ answered[servers[n].address] # -1
       /\ servers[n].expire <= answered[servers[n].address] + ExpireTime
  /\ ListedOnce(packets)
  /\ \A t \in Types : \A i \in DOMAIN packets[t] : \A m \in DOMAIN packets[t][i] :
       /\ answered[packets[t][i][m]] # -1
       /\ lastBuild <= answered[packets[t][i][m]] + ExpireTime
  /\ masterNow <= lastBuild + BuildEvery + 1

\* What an entry of the checks is after UpdateServers.
LEMMA ChecksStay ==
  ASSUME checks \in Seq(Check), masterNow \in 0 .. MasterEnd
  PROVE  UpdateServers \in Seq(Check)
<1>. DEFINE due == {c \in Range(checks) : masterNow > c.time + 1 \/ c.time = -1}
            gone == {c \in due : c.tries = MaxTries}
            kept == [c \in Range(checks) |->
                       IF c \in due THEN [c EXCEPT !.tries = @ + 1, !.time = masterNow] ELSE c]
            T == [address : Addrs, alt : Addrs, type : Types, tries : 0 .. MaxTries + 1,
                  time : -1 .. MasterEnd]
            r == Sweep(checks, gone, kept)
<1>1. UpdateServers = r
  BY DEF UpdateServers
<1>2. MaxTries \in Nat /\ MasterEnd \in Nat
  BY MasterServerAssumption
<1>3. Range(checks) \subseteq Check
  BY DEF Range
<1>4. ASSUME NEW c \in Range(checks)
      PROVE  /\ kept[c] \in T
             /\ c \notin gone => kept[c] \in Check
  <2>1. c \in Check
    BY <1>3
  <2>2. c.tries \in 0 .. MaxTries /\ c.tries + 1 \in 0 .. MaxTries + 1
        /\ (c.tries # MaxTries => c.tries + 1 \in 0 .. MaxTries)
        /\ c.tries \in 0 .. MaxTries + 1 /\ masterNow \in -1 .. MasterEnd
    BY <1>2, <2>1 DEF Check
  <2>3. CASE c \in due
    <3>. DEFINE d == [c EXCEPT !.tries = @ + 1, !.time = masterNow]
    <3>1. kept[c] = d /\ (c \notin gone => c.tries # MaxTries)
      BY <2>3
    <3>2. d \in T /\ (c.tries # MaxTries => d \in Check)
      BY <2>1, <2>2 DEF Check
    <3>. HIDE DEF d, kept, T, gone
    <3>. QED  BY <3>1, <3>2
  <2>4. CASE c \notin due
    <3>1. kept[c] = c
      BY <2>4
    <3>2. c \in T
      BY <2>1, <2>2 DEF Check
    <3>. QED  BY <2>1, <3>1, <3>2
  <2>. QED  BY <2>3, <2>4
<1>5. kept \in [Range(checks) -> T]
  <2>1. kept = [c \in Range(checks) |-> kept[c]]
    OBVIOUS
  <2>. HIDE DEF kept, T
  <2>. QED  BY <1>4, <2>1
<1>. HIDE DEF kept, gone, T, due
<1>6. /\ r \in Seq(T)
      /\ \E f \in [1 .. Len(r) -> 1 .. Len(checks)] :
           \A n \in 1 .. Len(r) : checks[f[n]] \notin gone /\ r[n] = kept[checks[f[n]]]
  BY <1>5, SweepKeeps
<1>7. PICK f \in [1 .. Len(r) -> 1 .. Len(checks)] :
        \A n \in 1 .. Len(r) : checks[f[n]] \notin gone /\ r[n] = kept[checks[f[n]]]
  BY <1>6
<1>. HIDE DEF r
<1>8. \A n \in 1 .. Len(r) : r[n] \in Check
  <2>1. \A n \in 1 .. Len(r) : checks[f[n]] \in Range(checks)
    BY <1>7 DEF Range
  <2>. QED  BY <1>4, <1>7, <2>1
<1>9. Len(r) \in Nat /\ r = [n \in 1 .. Len(r) |-> r[n]]
  BY <1>6
<1>10. r \in Seq(Check)
  BY <1>8, <1>9
<1>. QED  BY <1>1, <1>10

\* What PurgeServers leaves: servers that were listed and have not expired.
LEMMA PurgeLeaves ==
  ASSUME NEW s \in Seq(Server), AddressesOnce(s)
  PROVE  LET r == PurgeServers(s)
         IN  /\ r \in Seq(Server) /\ Len(r) <= Len(s) /\ AddressesOnce(r)
             /\ \A n \in 1 .. Len(r) :
                  \E m \in 1 .. Len(s) : r[n] = s[m] /\ ~(r[n].expire < masterNow)
<1>. DEFINE kept == [e \in Range(s) |-> e]
            gone == Expired(s)
            r == Sweep(s, gone, kept)
<1>1. kept \in [Range(s) -> Server] /\ \A e \in Range(s) : kept[e] = e
  BY DEF Range
<1>2. \A m \in 1 .. Len(s) : s[m] \in Range(s)
  BY DEF Range
<1>. HIDE DEF kept
<1>3. /\ r \in Seq(Server) /\ Len(r) <= Len(s)
      /\ \E f \in [1 .. Len(r) -> 1 .. Len(s)] :
           /\ \A m, n \in 1 .. Len(r) : f[m] = f[n] => m = n
           /\ \A n \in 1 .. Len(r) : s[f[n]] \notin gone /\ r[n] = kept[s[f[n]]]
  BY <1>1, SweepKeeps
<1>4. PICK f \in [1 .. Len(r) -> 1 .. Len(s)] :
        /\ \A m, n \in 1 .. Len(r) : f[m] = f[n] => m = n
        /\ \A n \in 1 .. Len(r) : s[f[n]] \notin gone /\ r[n] = kept[s[f[n]]]
  BY <1>3
<1>5. PurgeServers(s) = r
  BY DEF PurgeServers, kept
<1>. HIDE DEF r
<1>6. \A n \in 1 .. Len(r) : f[n] \in 1 .. Len(s) /\ r[n] = s[f[n]] /\ s[f[n]] \notin gone
  BY <1>1, <1>2, <1>4
<1>7. AddressesOnce(r)
  BY <1>4, <1>6 DEF AddressesOnce
<1>8. \A n \in 1 .. Len(r) : ~(r[n].expire < masterNow)
  BY <1>2, <1>6 DEF Expired
<1>. QED  BY <1>3, <1>5, <1>6, <1>7, <1>8

LEMMA MasterBegins == MasterInit => MasterInv
<1>. SUFFICES ASSUME MasterInit PROVE MasterInv
  OBVIOUS
<1>1. /\ MaxTries \in Nat /\ MasterEnd \in Nat /\ BuildEvery \in Nat
      /\ PerPacket \in Nat /\ MaxPackets \in Nat
  BY MasterServerAssumption
<1>2. /\ masterNow \in 0 .. MasterEnd /\ lastBuild \in -1 - BuildEvery .. MasterEnd
      /\ masterNow <= lastBuild + BuildEvery + 1
  BY <1>1 DEF MasterInit
<1>3. answered \in [Addrs -> -1 .. MasterEnd] /\ \A a \in Addrs : answered[a] <= masterNow
  BY <1>1 DEF MasterInit
<1>4. /\ checks \in Seq(Check) /\ servers \in Seq(Server) /\ Len(servers) = 0
      /\ 1 .. Len(servers) = {}
  BY DEF MasterInit
<1>5. packets \in PacketLists /\ \A t \in Types : DOMAIN packets[t] = {}
  BY DEF MasterInit, PacketLists
<1>6. 0 <= MaxServers
  BY <1>1 DEF MaxServers
<1>. QED  BY <1>2, <1>3, <1>4, <1>5, <1>6 DEF MasterInv, AddressesOnce, ListedOnce

LEMMA HeartbeatKeeps ==
  ASSUME MasterInv, NEW a \in Addrs, NEW alt \in Addrs, NEW type \in Types,
         Heartbeat(a, alt, type)
  PROVE  MasterInv'
<1>1. [address |-> a, alt |-> alt, type |-> type, tries |-> 0, time |-> -1] \in Check
  BY MasterServerAssumption DEF Check
<1>2. checks' \in Seq(Check)
  BY <1>1 DEF Heartbeat, MasterInv
<1>. QED  BY <1>2 DEF Heartbeat, MasterInv, AddressesOnce, ListedOnce, Check, Server,
                      PacketLists, Types, MaxServers

\* Where the address was listed, or at the end when there is room.
LEMMA AddServerKeeps ==
  ASSUME MasterInv, NEW a \in Addrs, NEW type \in Types, AddServer(a, type)
  PROVE  /\ servers' \in Seq(Server) /\ Len(servers') <= MaxServers /\ AddressesOnce(servers')
         /\ \A n \in 1 .. Len(servers') :
              \/ servers'[n].address = a /\ servers'[n].expire = masterNow + ExpireTime
              \/ \E m \in 1 .. Len(servers) : servers'[n] = servers[m]
<1>. DEFINE known == {n \in DOMAIN servers : servers[n].address = a}
            until == masterNow + ExpireTime
            N == Len(servers)
<1>1. /\ servers \in Seq(Server) /\ N \in Nat /\ N <= MaxServers /\ DOMAIN servers = 1 .. N
      /\ AddressesOnce(servers) /\ masterNow \in Nat
  BY DEF MasterInv
<1>2. until \in Nat /\ ExpireTime \in Nat
  BY <1>1, MasterServerAssumption
<1>3. MaxServers \in Nat
  BY MasterServerAssumption DEF MaxServers
<1>4. CASE known # {}
  <2>. DEFINE k == CHOOSE n \in known : TRUE
              e == [servers[k] EXCEPT !.expire = until]
  <2>1. k \in known
    BY <1>4
  <2>. HIDE DEF k
  <2>2. k \in 1 .. N /\ servers[k].address = a
    BY <1>1, <2>1
  <2>3. servers' = [servers EXCEPT ![k] = e]
    <3>. HIDE DEF known, until, N
    <3>1. servers' = [servers EXCEPT ![k].expire = until]
      BY <1>4 DEF AddServer, known, until, k
    <3>. QED  BY <3>1
  <2>4. servers[k] \in Server
    BY <1>1, <2>2
  <2>5. e \in Server /\ e.address = a /\ e.expire = until
    BY <1>2, <2>2, <2>4 DEF Server
  <2>. HIDE DEF e, until
  <2>6. /\ servers' \in Seq(Server) /\ Len(servers') = N
        /\ \A n \in 1 .. N : servers'[n] = IF n = k THEN e ELSE servers[n]
    BY <1>1, <2>2, <2>3, <2>5
  <2>7. \A n \in 1 .. N : servers'[n].address = servers[n].address
    BY <2>2, <2>5, <2>6
  <2>8. AddressesOnce(servers')
    BY <1>1, <2>6, <2>7 DEF AddressesOnce
  <2>9. ASSUME NEW n \in 1 .. N
        PROVE  \/ servers'[n].address = a /\ servers'[n].expire = until
               \/ \E m \in 1 .. N : servers'[n] = servers[m]
    BY <2>5, <2>6
  <2>. QED  BY <1>1, <2>6, <2>8, <2>9 DEF until
<1>5. CASE known = {} /\ N = MaxServers
  <2>1. servers' = servers
    BY <1>5 DEF AddServer
  <2>. QED  BY <1>1, <2>1
<1>6. CASE known = {} /\ N # MaxServers
  <2>. DEFINE e == [address |-> a, type |-> type, expire |-> until]
  <2>1. servers' = Append(servers, e)
    BY <1>6 DEF AddServer
  <2>2. e \in Server
    BY <1>2 DEF Server
  <2>3. e.address = a /\ e.expire = until
    OBVIOUS
  <2>4. \A n \in 1 .. N : servers[n].address # a
    BY <1>1, <1>6
  <2>. HIDE DEF e, until
  <2>5. /\ servers' \in Seq(Server) /\ Len(servers') = N + 1 /\ servers'[N + 1] = e
        /\ \A n \in 1 .. N : servers'[n] = servers[n]
    BY <1>1, <2>1, <2>2
  <2>6. \A n \in 1 .. N + 1 : n \in 1 .. N \/ n = N + 1
    BY <1>1
  <2>7. N + 1 <= MaxServers
    <3>. HIDE DEF N
    <3>1. N \in Nat /\ N <= MaxServers /\ N # MaxServers
      BY <1>1, <1>6
    <3>. QED  BY <1>3, <3>1
  <2>8. AddressesOnce(servers')
    <3>. HIDE DEF N
    <3>1. \A i, j \in 1 .. N : servers[i].address = servers[j].address => i = j
      BY <1>1 DEF AddressesOnce, N
    <3>. SUFFICES ASSUME NEW i \in 1 .. N + 1, NEW j \in 1 .. N + 1,
                         servers'[i].address = servers'[j].address
                  PROVE  i = j
      BY <2>5 DEF AddressesOnce
    <3>2. CASE i = N + 1 /\ j = N + 1
      BY <3>2
    <3>3. CASE i = N + 1 /\ j \in 1 .. N
      BY <2>3, <2>4, <2>5, <3>3
    <3>4. CASE i \in 1 .. N /\ j = N + 1
      BY <2>3, <2>4, <2>5, <3>4
    <3>5. CASE i \in 1 .. N /\ j \in 1 .. N
      BY <2>5, <3>1, <3>5
    <3>. QED  BY <2>6, <3>2, <3>3, <3>4, <3>5
  <2>. QED  BY <2>3, <2>5, <2>6, <2>7, <2>8 DEF until
<1>. QED  BY <1>4, <1>5, <1>6

LEMMA ResponseKeeps ==
  ASSUME MasterInv, NEW a \in Addrs, FwResponse(a)
  PROVE  MasterInv'
<1>. DEFINE fits == {n \in DOMAIN checks : a \in {checks[n].address, checks[n].alt}}
            n == CHOOSE m \in fits : \A k \in fits : m <= k
<1>1. fits # {} /\ checks' = MoveLastTo(checks, n) /\ AddServer(a, checks[n].type)
      /\ answered' = [answered EXCEPT ![a] = masterNow]
      /\ UNCHANGED <<masterNow, lastBuild, packets>>
  BY DEF FwResponse
<1>2. checks \in Seq(Check) /\ answered \in [Addrs -> -1 .. MasterEnd]
      /\ masterNow \in 0 .. MasterEnd /\ MasterEnd \in Nat /\ ExpireTime \in Nat
  BY MasterServerAssumption DEF MasterInv
<1>3. n \in 1 .. Len(checks)
  <2>1. fits \in SUBSET Nat /\ fits \subseteq 1 .. Len(checks)
    BY <1>2
  <2>. HIDE DEF fits
  <2>2. \E m \in fits : \A k \in fits : m <= k
    BY <1>1, <2>1, SmallestNumber
  <2>3. n \in fits
    BY <2>2
  <2>. QED  BY <2>1, <2>3
<1>. HIDE DEF n
<1>4. checks' \in Seq(Check) /\ checks[n].type \in Types
  <2>1. MoveLastTo(checks, n) \in Seq(Check)
    BY <1>2, <1>3, LastMoved
  <2>2. checks[n] \in Check
    BY <1>2, <1>3
  <2>. QED  BY <1>1, <2>1, <2>2 DEF Check
<1>5. /\ servers' \in Seq(Server) /\ Len(servers') <= MaxServers /\ AddressesOnce(servers')
      /\ \A k \in 1 .. Len(servers') :
           \/ servers'[k].address = a /\ servers'[k].expire = masterNow + ExpireTime
           \/ \E m \in 1 .. Len(servers) : servers'[k] = servers[m]
  BY <1>1, <1>4, AddServerKeeps
<1>6. /\ answered' \in [Addrs -> -1 .. MasterEnd] /\ answered'[a] = masterNow
      /\ masterNow # -1
      /\ \A b \in Addrs : answered[b] \in Int /\ answered'[b] \in Int
                          /\ answered[b] <= answered'[b]
                          /\ (answered[b] # -1 => answered'[b] # -1)
  <2>1. \A b \in Addrs : answered[b] <= masterNow
    BY DEF MasterInv
  <2>. QED  BY <1>1, <1>2, <2>1
<1>7. ASSUME NEW k \in 1 .. Len(servers')
      PROVE  /\ answered'[servers'[k].address] # -1
             /\ servers'[k].expire <= answered'[servers'[k].address] + ExpireTime
  <2>1. CASE servers'[k].address = a /\ servers'[k].expire = masterNow + ExpireTime
    BY <1>2, <1>6, <2>1
  <2>2. CASE \E m \in 1 .. Len(servers) : servers'[k] = servers[m]
    <3>1. PICK m \in 1 .. Len(servers) : servers'[k] = servers[m]
      BY <2>2
    <3>2. servers[m] \in Server /\ answered[servers[m].address] # -1
          /\ servers[m].expire <= answered[servers[m].address] + ExpireTime
      BY DEF MasterInv
    <3>3. servers[m].address \in Addrs /\ servers[m].expire \in Nat
      BY <3>2 DEF Server
    <3>4. PICK b \in Addrs, e \in Nat : b = servers[m].address /\ e = servers[m].expire
      BY <3>3
    <3>5. answered'[b] # -1 /\ e <= answered'[b] + ExpireTime
      <4>1. /\ answered[b] \in Int /\ answered'[b] \in Int /\ answered[b] <= answered'[b]
            /\ answered'[b] # -1
        BY <1>6, <3>2, <3>4
      <4>2. e <= answered[b] + ExpireTime
        BY <3>2, <3>4
      <4>. QED  BY <1>2, <4>1, <4>2
    <3>. QED  BY <3>1, <3>4, <3>5
  <2>. QED  BY <1>5, <2>1, <2>2
<1>8. ASSUME NEW t \in Types, NEW i \in DOMAIN packets[t], NEW m \in DOMAIN packets[t][i]
      PROVE  /\ answered'[packets[t][i][m]] # -1
             /\ lastBuild <= answered'[packets[t][i][m]] + ExpireTime
  <2>1. packets[t][i][m] \in Addrs /\ answered[packets[t][i][m]] # -1
        /\ lastBuild <= answered[packets[t][i][m]] + ExpireTime /\ lastBuild \in Int
    BY DEF MasterInv, PacketLists
  <2>. QED  BY <1>2, <1>6, <2>1
<1>9. \A b \in Addrs : answered'[b] <= masterNow
  BY <1>1, <1>2 DEF MasterInv
<1>10. /\ masterNow' \in 0 .. MasterEnd /\ lastBuild' \in -1 - BuildEvery .. MasterEnd
       /\ packets' \in PacketLists /\ ListedOnce(packets')
       /\ masterNow' <= lastBuild' + BuildEvery + 1
  BY <1>1 DEF MasterInv, PacketLists, ListedOnce, Types
<1>. QED  BY <1>1, <1>4, <1>5, <1>6, <1>7, <1>8, <1>9, <1>10 DEF MasterInv

LEMMA BuildKeeps == MasterInv /\ Build => MasterInv'
<1>. SUFFICES ASSUME MasterInv, Build PROVE MasterInv'
  OBVIOUS
<1>1. /\ lastBuild' = masterNow /\ servers' = PurgeServers(servers)
      /\ checks' = UpdateServers /\ packets' = BuildPackets(servers')
      /\ masterNow' = masterNow /\ answered' = answered
  BY DEF Build
<1>2. /\ checks \in Seq(Check) /\ masterNow \in 0 .. MasterEnd
      /\ servers \in Seq(Server) /\ AddressesOnce(servers) /\ Len(servers) <= MaxServers
      /\ answered \in [Addrs -> -1 .. MasterEnd]
      /\ MasterEnd \in Nat /\ BuildEvery \in Nat /\ ExpireTime \in Nat /\ MaxServers \in Nat
  BY MasterServerAssumption DEF MasterInv, MaxServers
<1>3. checks' \in Seq(Check)
  BY <1>1, <1>2, ChecksStay
<1>4. /\ servers' \in Seq(Server) /\ Len(servers') <= Len(servers) /\ AddressesOnce(servers')
      /\ \A n \in 1 .. Len(servers') :
           \E m \in 1 .. Len(servers) :
             servers'[n] = servers[m] /\ ~(servers'[n].expire < masterNow)
  BY <1>1, <1>2, PurgeLeaves
<1>5. /\ packets' \in PacketLists /\ ListedOnce(packets')
      /\ ListedOf(packets', Len(servers'), servers')
  <2>1. PICK s \in Seq(Server) : s = servers' /\ AddressesOnce(s)
    BY <1>4
  <2>2. /\ BuildPackets(s) \in PacketLists /\ ListedOnce(BuildPackets(s))
        /\ ListedOf(BuildPackets(s), Len(s), s)
    BY <2>1, BuildLists
  <2>3. packets' = BuildPackets(s)
    BY <1>1, <2>1
  <2>. QED  BY <2>1, <2>2, <2>3
<1>6. Len(servers') <= MaxServers
  <2>1. Len(servers') \in Nat /\ Len(servers) \in Nat
    BY <1>2, <1>4
  <2>. QED  BY <1>2, <1>4, <2>1
<1>7. ASSUME NEW n \in 1 .. Len(servers')
      PROVE  /\ answered[servers'[n].address] # -1
             /\ servers'[n].expire <= answered[servers'[n].address] + ExpireTime
             /\ masterNow <= answered[servers'[n].address] + ExpireTime
  <2>1. PICK m \in 1 .. Len(servers) :
          servers'[n] = servers[m] /\ ~(servers'[n].expire < masterNow)
    BY <1>4
  <2>2. servers[m] \in Server /\ answered[servers[m].address] # -1
        /\ servers[m].expire <= answered[servers[m].address] + ExpireTime
    BY DEF MasterInv
  <2>3. PICK b \in Addrs, e \in Nat : b = servers[m].address /\ e = servers[m].expire
    BY <2>2 DEF Server
  <2>4. answered[b] \in Int /\ ~(e < masterNow) /\ e <= answered[b] + ExpireTime
    BY <1>2, <2>1, <2>2, <2>3
  <2>5. masterNow <= answered[b] + ExpireTime
    BY <1>2, <2>4
  <2>. QED  BY <2>1, <2>2, <2>3, <2>4, <2>5
<1>8. ASSUME NEW t \in Types, NEW i \in DOMAIN packets'[t], NEW m \in DOMAIN packets'[t][i]
      PROVE  /\ answered[packets'[t][i][m]] # -1
             /\ masterNow <= answered[packets'[t][i][m]] + ExpireTime
  <2>1. PICK j \in 1 .. Len(servers') : packets'[t][i][m] = servers'[j].address
    BY <1>5 DEF ListedOf
  <2>. QED  BY <1>7, <2>1
<1>9. /\ masterNow' \in 0 .. MasterEnd /\ lastBuild' \in -1 - BuildEvery .. MasterEnd
      /\ masterNow' <= lastBuild' + BuildEvery + 1
      /\ answered' \in [Addrs -> -1 .. MasterEnd] /\ \A a \in Addrs : answered'[a] <= masterNow'
  BY <1>1, <1>2 DEF MasterInv
<1>. QED  BY <1>1, <1>3, <1>4, <1>5, <1>6, <1>7, <1>8, <1>9 DEF MasterInv

LEMMA PassKeeps == MasterInv /\ Pass => MasterInv'
<1>. SUFFICES ASSUME MasterInv, Pass PROVE MasterInv'
  OBVIOUS
<1>1. /\ masterNow < MasterEnd /\ masterNow - lastBuild <= BuildEvery
      /\ masterNow' = masterNow + 1
      /\ UNCHANGED <<lastBuild, checks, servers, packets, answered>>
  BY DEF Pass
<1>2. /\ masterNow \in 0 .. MasterEnd /\ lastBuild \in -1 - BuildEvery .. MasterEnd
      /\ MasterEnd \in Nat /\ BuildEvery \in Nat
      /\ answered \in [Addrs -> -1 .. MasterEnd] /\ \A a \in Addrs : answered[a] <= masterNow
  BY MasterServerAssumption DEF MasterInv
<1>3. /\ masterNow' \in 0 .. MasterEnd /\ masterNow' <= lastBuild + BuildEvery + 1
      /\ \A a \in Addrs : answered[a] <= masterNow'
  BY <1>1, <1>2
<1>. QED  BY <1>1, <1>3
          DEF MasterInv, AddressesOnce, ListedOnce, Check, Server, PacketLists, Types, MaxServers

LEMMA MasterStep == MasterInv /\ [MasterNext]_masterVars => MasterInv'
<1>. SUFFICES ASSUME MasterInv, [MasterNext]_masterVars PROVE MasterInv'
  OBVIOUS
<1>1. ASSUME NEW a \in Addrs, NEW alt \in Addrs, NEW t \in Types, Heartbeat(a, alt, t)
      PROVE  MasterInv'
  BY <1>1, HeartbeatKeeps
<1>2. ASSUME NEW a \in Addrs, FwResponse(a) PROVE MasterInv'
  BY <1>2, ResponseKeeps
<1>3. CASE Build
  BY <1>3, BuildKeeps
<1>4. CASE Pass
  BY <1>4, PassKeeps
<1>5. CASE UNCHANGED masterVars
  BY <1>5 DEF masterVars, MasterInv, AddressesOnce, ListedOnce, Check, Server, PacketLists,
              Types, MaxServers
<1>. QED  BY <1>1, <1>2, <1>3, <1>4, <1>5 DEF MasterNext

LEMMA MasterInvGives == MasterInv => ListIsAlive
<1>. SUFFICES ASSUME MasterInv,
                     NEW t \in Types, NEW i \in DOMAIN packets[t], NEW m \in DOMAIN packets[t][i]
              PROVE  /\ \A u \in Types : \A j \in DOMAIN packets[u] :
                          \A n \in DOMAIN packets[u][j] :
                            packets[u][j][n] = packets[t][i][m] => u = t /\ j = i /\ n = m
                     /\ answered[packets[t][i][m]] # -1
                     /\ masterNow <= answered[packets[t][i][m]] + ExpireTime + BuildEvery + 1
  BY DEF ListIsAlive
<1>1. PICK a \in Addrs : a = packets[t][i][m]
  BY DEF MasterInv, PacketLists
<1>2. /\ answered[a] # -1 /\ lastBuild <= answered[a] + ExpireTime
      /\ masterNow <= lastBuild + BuildEvery + 1
      /\ answered[a] \in Int /\ lastBuild \in Int /\ masterNow \in Int
      /\ ExpireTime \in Nat /\ BuildEvery \in Nat
  BY <1>1, MasterServerAssumption DEF MasterInv
<1>3. masterNow <= answered[a] + ExpireTime + BuildEvery + 1
  BY <1>2
<1>4. \A u \in Types : \A j \in DOMAIN packets[u] : \A n \in DOMAIN packets[u][j] :
        packets[u][j][n] = packets[t][i][m] => u = t /\ j = i /\ n = m
  BY DEF MasterInv, ListedOnce
<1>. QED  BY <1>1, <1>2, <1>3, <1>4

\* The list that the master server sends names only servers that answered a check lately,
\* and each once: for every number of servers and packets, though the loops that purge
\* move entries within the lists they walk (mastersrv.cpp:233-319).
THEOREM ListIsAlwaysAlive == MasterSpec => []ListIsAlive
<1>1. MasterInv => ListIsAlive
  BY MasterInvGives
<1>. QED  BY MasterBegins, MasterStep, <1>1, PTL DEF MasterSpec

-----------------------------------------------------------------------------
(* The information for browsers.                                            *)

\* A chunk.
Piece == [number : Nat, prefix : BOOLEAN, clients : Seq(Names), size : Nat]

\* f holds the clients of the first k chunks, for each k.
ClientsUpTo(cs, f) ==
  f = [k \in 0 .. Len(cs) |-> IF k = 0 THEN <<>> ELSE f[k - 1] \o cs[k].clients]

\* The chunks' clients, chunk after chunk.
LEMMA ClientsFound ==
  ASSUME NEW cs \in Seq(Piece)
  PROVE  \E f : /\ ClientsUpTo(cs, f) /\ ClientsOf(cs) = f[Len(cs)]
                /\ \A k \in 0 .. Len(cs) : f[k] \in Seq(Names)
<1>. DEFINE N == Len(cs)
            S == Seq(Names)
            H == [k \in 0 .. N |-> S]
            F == [k \in 1 .. N |-> [s \in S |-> s \o cs[k].clients]]
<1>1. N \in Nat /\ 0 \in 0 .. N /\ \A k \in 1 .. N : k \in 0 .. N /\ k # 0 /\ k - 1 \in 0 .. N
  OBVIOUS
<1>2. \A k \in 1 .. N : cs[k].clients \in S
  <2>1. \A k \in 1 .. N : cs[k] \in Piece
    OBVIOUS
  <2>2. \A c \in Piece : c.clients \in S
    BY DEF Piece
  <2>. HIDE DEF S, N
  <2>. QED  BY <2>1, <2>2
<1>10. \A s, t \in S : s \o t \in S
  OBVIOUS
<1>3. <<>> \in H[0] /\ <<>> \in S
  BY <1>1
<1>4. \A k \in 1 .. N : \A s \in H[k - 1] : F[k][s] = s \o cs[k].clients /\ F[k][s] \in H[k]
  <2>. SUFFICES ASSUME NEW k \in 1 .. N, NEW s \in H[k - 1]
                PROVE  F[k][s] = s \o cs[k].clients /\ F[k][s] \in H[k]
    OBVIOUS
  <2>. HIDE DEF S, N
  <2>1. s \in S
    BY <1>1
  <2>2. F[k][s] = s \o cs[k].clients
    BY <2>1
  <2>3. s \o cs[k].clients \in S
    BY <1>2, <1>10, <2>1
  <2>. HIDE DEF F
  <2>. QED  BY <1>1, <2>2, <2>3
<1>5. \A k \in 0 .. N : H[k] \subseteq S /\ H[k] = S
  OBVIOUS
<1>6. \E f : ClientsUpTo(cs, f)
  <2>. HIDE DEF H, F, S
  <2>1. \A k \in 1 .. N : \A s \in H[k - 1] : F[k][s] \in H[k]
    BY <1>4
  <2>2. PICK f \in [0 .. N -> S] :
          Runs(f, <<>>, F, N) /\ \A k \in 0 .. N : f[k] \in H[k]
    <3>. HIDE DEF N
    <3>1. \A k \in 0 .. N : H[k] \subseteq S
      BY <1>5
    <3>2. N \in Nat /\ <<>> \in H[0]
      BY <1>1, <1>3
    <3>. QED  BY <2>1, <3>1, <3>2, LoopRuns
  <2>3. \A k \in 0 .. N : f[k] = IF k = 0 THEN <<>> ELSE f[k - 1] \o cs[k].clients
    <3>. SUFFICES ASSUME NEW k \in 0 .. N
                  PROVE  f[k] = IF k = 0 THEN <<>> ELSE f[k - 1] \o cs[k].clients
      OBVIOUS
    <3>1. k # 0 => k \in 1 .. N
      BY <1>1
    <3>. QED  BY <1>1, <1>4, <2>2, <3>1 DEF Runs
  <2>4. ClientsUpTo(cs, f)
    BY <2>2, <2>3 DEF ClientsUpTo
  <2>. QED  BY <2>4
<1>7. PICK f : f = (CHOOSE g : ClientsUpTo(cs, g)) /\ ClientsUpTo(cs, f)
  BY <1>6
<1>8. ClientsOf(cs) = f[N]
  BY <1>7 DEF ClientsOf, ClientsUpTo
<1>9. \A k \in 0 .. N : f[k] \in S
  <2>. DEFINE B == {k \in 0 .. N : f[k] \in S}
  <2>1. f = [k \in 0 .. N |-> IF k = 0 THEN <<>> ELSE f[k - 1] \o cs[k].clients]
    BY <1>7 DEF ClientsUpTo
  <2>2. 0 \in B
    BY <1>1, <1>3, <2>1
  <2>3. ASSUME NEW k \in 1 .. N, k - 1 \in B PROVE k \in B
    <3>1. f[k - 1] \in S /\ f[k] = f[k - 1] \o cs[k].clients
      BY <1>1, <2>1, <2>3
    <3>. HIDE DEF S
    <3>. QED  BY <1>1, <1>2, <1>10, <3>1
  <2>. HIDE DEF B, N
  <2>4. \A k \in 0 .. N : k \in B
    BY <1>1, <2>2, <2>3, NumbersUpTo
  <2>. QED  BY <2>4 DEF B
<1>. QED  BY <1>7, <1>8, <1>9

LEMMA ClientsOfNone == ClientsOf(<<>>) = <<>>
<1>1. PICK f : ClientsUpTo(<<>>, f) /\ ClientsOf(<<>>) = f[Len(<<>>)]
  BY <<>> \in Seq(Piece), ClientsFound
<1>2. f = [k \in 0 .. Len(<<>>) |-> IF k = 0 THEN <<>> ELSE f[k - 1] \o <<>>[k].clients]
  BY <1>1 DEF ClientsUpTo
<1>3. Len(<<>>) = 0 /\ 0 \in 0 .. Len(<<>>)
  OBVIOUS
<1>. QED  BY <1>1, <1>2, <1>3

LEMMA ClientsOfOneMore ==
  ASSUME NEW cs \in Seq(Piece), NEW c \in Piece
  PROVE  /\ ClientsOf(cs) \in Seq(Names)
         /\ ClientsOf(Append(cs, c)) = ClientsOf(cs) \o c.clients
<1>. DEFINE ds == Append(cs, c)
            N == Len(cs)
<1>1. /\ ds \in Seq(Piece) /\ Len(ds) = N + 1 /\ ds[N + 1] = c /\ N \in Nat
      /\ \A k \in 1 .. N : ds[k] = cs[k]
  OBVIOUS
<1>2. PICK f : /\ ClientsUpTo(cs, f) /\ ClientsOf(cs) = f[N]
               /\ \A k \in 0 .. N : f[k] \in Seq(Names)
  BY ClientsFound
<1>. HIDE DEF ds, N
<1>3. PICK g : ClientsUpTo(ds, g) /\ ClientsOf(ds) = g[N + 1]
  BY <1>1, ClientsFound
<1>. DEFINE P(k) == f[k - 1] \o cs[k].clients
            Q(k) == g[k - 1] \o ds[k].clients
            F(k) == IF k = 0 THEN <<>> ELSE P(k)
            G(k) == IF k = 0 THEN <<>> ELSE Q(k)
<1>4. /\ \A k \in 0 .. N : f[k] = F(k)
      /\ \A k \in 0 .. N + 1 : g[k] = G(k)
  <2>1. f = [k \in 0 .. N |-> F(k)] /\ g = [k \in 0 .. N + 1 |-> G(k)]
    BY <1>1, <1>2, <1>3 DEF ClientsUpTo, N
  <2>. HIDE DEF F, G, P, Q
  <2>. QED  BY <2>1
<1>5. N \in 0 .. N /\ N + 1 \in 0 .. N + 1 /\ N + 1 # 0 /\ N + 1 - 1 = N
      /\ 0 \in 0 .. N /\ 0 \in 0 .. N + 1
      /\ \A k \in 1 .. N : k \in 0 .. N /\ k # 0 /\ k \in 0 .. N + 1
  BY <1>1
<1>. HIDE DEF F, G, P, Q
<1>6. \A k \in 0 .. N : g[k] = f[k]
  <2>. DEFINE B == {k \in 0 .. N : g[k] = f[k]}
  <2>1. 0 \in B
    <3>1. f[0] = F(0) /\ g[0] = G(0)
      BY <1>4, <1>5
    <3>2. F(0) = <<>> /\ G(0) = <<>>
      BY DEF F, G
    <3>. QED  BY <1>5, <3>1, <3>2
  <2>2. ASSUME NEW k \in 1 .. N, k - 1 \in B PROVE k \in B
    <3>1. f[k] = F(k) /\ g[k] = G(k)
      BY <1>4, <1>5
    <3>2. F(k) = P(k) /\ G(k) = Q(k)
      BY <1>5 DEF F, G
    <3>3. g[k - 1] = f[k - 1] /\ ds[k] = cs[k]
      BY <1>1, <2>2
    <3>4. P(k) = Q(k)
      BY <3>3 DEF P, Q
    <3>. QED  BY <1>5, <3>1, <3>2, <3>4
  <2>. HIDE DEF B
  <2>3. \A k \in 0 .. N : k \in B
    BY <1>1, <2>1, <2>2, NumbersUpTo
  <2>. QED  BY <2>3 DEF B
<1>7. g[N + 1] = g[N] \o c.clients
  <2>. DEFINE m == N + 1
  <2>1. m \in 0 .. N + 1 /\ m # 0 /\ m - 1 = N /\ ds[m] = c
    BY <1>1, <1>5
  <2>. HIDE DEF m
  <2>2. g[m] = G(m)
    BY <1>4, <2>1
  <2>3. G(m) = Q(m)
    BY <2>1 DEF G
  <2>4. Q(m) = g[N] \o c.clients
    BY <2>1 DEF Q
  <2>. QED  BY <2>2, <2>3, <2>4 DEF m
<1>. QED  BY <1>2, <1>3, <1>5, <1>6, <1>7 DEF ds

LEMMA ClientAdded ==
  ASSUME NEW c \in Piece, NEW n \in Names
  PROVE  /\ WithClient(c, n) \in Piece
         /\ WithClient(c, n).clients = Append(c.clients, n)
         /\ WithClient(c, n).number = c.number
         /\ WithClient(c, n).size = c.size + SizeOf(n)
<1>1. SizeOf(n) \in Nat
  BY ServerInfoAssumption
<1>2. c.clients \in Seq(Names) /\ c.size \in Nat
  BY DEF Piece
<1>3. Append(c.clients, n) \in Seq(Names) /\ c.size + SizeOf(n) \in Nat
  BY <1>1, <1>2
<1>. QED  BY <1>3 DEF WithClient, Piece

LEMMA ConcatAppend ==
  ASSUME NEW S, NEW s \in Seq(S), NEW t \in Seq(S), NEW e \in S
  PROVE  s \o Append(t, e) = Append(s \o t, e)
OBVIOUS

\* A client in the last chunk ...
LEMMA ClientInLast ==
  ASSUME NEW cs \in Seq(Piece), cs # <<>>, NEW n \in Names
  PROVE  LET ds == Front(cs) \o <<WithClient(Last(cs), n)>>
         IN  /\ ds \in Seq(Piece) /\ Len(ds) = Len(cs)
             /\ \A j \in 1 .. Len(cs) :
                  /\ ds[j] = IF j = Len(cs) THEN WithClient(cs[j], n) ELSE cs[j]
                  /\ SubSeq(ds, 1, j - 1) = SubSeq(cs, 1, j - 1)
             /\ ClientsOf(ds) = Append(ClientsOf(cs), n)
<1>. DEFINE N == Len(cs)
            fs == SubSeq(cs, 1, N - 1)
            l == cs[N]
            m == WithClient(l, n)
            ds == Append(fs, m)
<1>1. N \in Nat /\ N # 0 /\ N - 1 \in Nat /\ N \in 1 .. N /\ l \in Piece
  OBVIOUS
<1>2. fs \in Seq(Piece) /\ Len(fs) = N - 1 /\ \A j \in 1 .. N - 1 : fs[j] = cs[j]
  <2>1. PICK k \in Nat : k = N - 1 /\ k <= N
    <3>. HIDE DEF N
    <3>. QED  BY <1>1
  <2>2. /\ SubSeq(cs, 1, k) \in Seq(Piece) /\ Len(SubSeq(cs, 1, k)) = k
        /\ \A j \in 1 .. k : SubSeq(cs, 1, k)[j] = cs[j]
    BY <2>1
  <2>. QED  BY <2>1, <2>2
<1>3. m \in Piece /\ m.clients = Append(l.clients, n)
  BY <1>1, ClientAdded
<1>4. /\ ds \in Seq(Piece) /\ Len(ds) = N /\ ds[N] = m
      /\ \A j \in 1 .. N - 1 : ds[j] = cs[j]
  <2>. HIDE DEF fs, m
  <2>. QED  BY <1>1, <1>2, <1>3
<1>5. Front(cs) \o <<WithClient(Last(cs), n)>> = ds
  <2>1. Front(cs) = fs /\ Last(cs) = l
    BY DEF Front, Last
  <2>2. fs \o <<m>> = Append(fs, m)
    <3>. HIDE DEF fs, m
    <3>. QED  BY <1>2, <1>3
  <2>. QED  BY <2>1, <2>2
<1>6. cs = Append(fs, l)
  <2>. HIDE DEF N
  <2>1. \A j \in 1 .. N : j = N \/ j \in 1 .. N - 1
    BY <1>1
  <2>. HIDE DEF fs, l
  <2>2. /\ Append(fs, l) \in Seq(Piece) /\ Len(Append(fs, l)) = N
        /\ \A j \in 1 .. N - 1 : Append(fs, l)[j] = fs[j]
        /\ Append(fs, l)[N] = l
    BY <1>1, <1>2
  <2>3. \A j \in 1 .. N : Append(fs, l)[j] = cs[j]
    BY <1>2, <2>1, <2>2 DEF l
  <2>. QED  BY <1>1, <2>2, <2>3 DEF N
<1>7. /\ ClientsOf(cs) = ClientsOf(fs) \o l.clients /\ ClientsOf(fs) \in Seq(Names)
      /\ ClientsOf(ds) = ClientsOf(fs) \o m.clients
  <2>. HIDE DEF fs, l, m
  <2>. QED  BY <1>1, <1>2, <1>3, <1>6, ClientsOfOneMore
<1>8. l.clients \in Seq(Names)
  BY <1>1 DEF Piece
<1>. HIDE DEF fs, l, m
<1>9. ClientsOf(ds) = Append(ClientsOf(cs), n)
  <2>1. ClientsOf(fs) \o Append(l.clients, n) = Append(ClientsOf(fs) \o l.clients, n)
    BY <1>7, <1>8, ConcatAppend
  <2>. QED  BY <1>3, <1>7, <2>1
<1>. HIDE DEF ds
<1>10. ASSUME NEW j \in 1 .. N
       PROVE  /\ ds[j] = IF j = N THEN WithClient(cs[j], n) ELSE cs[j]
              /\ SubSeq(ds, 1, j - 1) = SubSeq(cs, 1, j - 1)
  <2>1. ds[j] = IF j = N THEN WithClient(cs[j], n) ELSE cs[j]
    <3>1. j # N => j \in 1 .. N - 1
      BY <1>1
    <3>. QED  BY <1>4, <3>1 DEF m, l
  <2>2. SubSeq(ds, 1, j - 1) = SubSeq(cs, 1, j - 1)
    <3>. HIDE DEF N
    <3>1. j - 1 \in Nat /\ \A i \in 1 .. j - 1 : i \in 1 .. N - 1
      BY <1>1
    <3>2. \A i \in 1 .. j - 1 : ds[i] = cs[i]
      BY <1>4, <3>1
    <3>3. SubSeq(ds, 1, j - 1) = [i \in 1 .. j - 1 |-> ds[i]]
          /\ SubSeq(cs, 1, j - 1) = [i \in 1 .. j - 1 |-> cs[i]]
      BY <1>1, <1>4, <3>1 DEF N
    <3>. QED  BY <3>2, <3>3
  <2>. QED  BY <2>1, <2>2
<1>. QED  BY <1>4, <1>5, <1>9, <1>10

\* ... or in a new one.
LEMMA ClientInNew ==
  ASSUME NEW cs \in Seq(Piece), NEW c \in Piece, c.clients = <<>>, NEW n \in Names
  PROVE  LET ds == Append(cs, WithClient(c, n))
         IN  /\ ds \in Seq(Piece) /\ Len(ds) = Len(cs) + 1
             /\ \A j \in 1 .. Len(cs) : ds[j] = cs[j]
             /\ ds[Len(cs) + 1] = WithClient(c, n)
             /\ \A j \in 1 .. Len(cs) + 1 : SubSeq(ds, 1, j - 1) = SubSeq(cs, 1, j - 1)
             /\ ClientsOf(ds) = Append(ClientsOf(cs), n)
<1>. DEFINE N == Len(cs)
            m == WithClient(c, n)
            ds == Append(cs, m)
<1>1. N \in Nat
  OBVIOUS
<1>2. m \in Piece /\ m.clients = Append(<<>>, n)
  BY ClientAdded
<1>. HIDE DEF m
<1>3. /\ ds \in Seq(Piece) /\ Len(ds) = N + 1 /\ ds[N + 1] = m
      /\ \A j \in 1 .. N : ds[j] = cs[j]
  BY <1>1, <1>2
<1>4. ClientsOf(cs) \in Seq(Names) /\ ClientsOf(ds) = ClientsOf(cs) \o m.clients
  BY <1>2, ClientsOfOneMore
<1>5. ClientsOf(ds) = Append(ClientsOf(cs), n)
  <2>1. \A s \in Seq(Names) : s \o Append(<<>>, n) = Append(s, n)
    OBVIOUS
  <2>. QED  BY <1>2, <1>4, <2>1
<1>. HIDE DEF ds
<1>6. ASSUME NEW j \in 1 .. N + 1 PROVE SubSeq(ds, 1, j - 1) = SubSeq(cs, 1, j - 1)
  <2>. HIDE DEF N
  <2>1. j - 1 \in Nat /\ \A i \in 1 .. j - 1 : i \in 1 .. N
    BY <1>1
  <2>2. \A i \in 1 .. j - 1 : ds[i] = cs[i]
    BY <1>3, <2>1
  <2>3. SubSeq(ds, 1, j - 1) = [i \in 1 .. j - 1 |-> ds[i]]
        /\ SubSeq(cs, 1, j - 1) = [i \in 1 .. j - 1 |-> cs[i]]
    BY <1>1, <1>3, <2>1 DEF N
  <2>. QED  BY <2>2, <2>3
<1>. QED  BY <1>3, <1>5, <1>6 DEF ds, m

\* How many of k clients the protocol knows.
Carried(type, k) == IF type = "vanilla" /\ k > VanillaMax THEN VanillaMax ELSE k

\* The chunks cs hold the first k clients of the list L.
Built(type, L, k, cs) ==
  /\ cs \in Seq(Piece) /\ cs # <<>>
  /\ ClientsOf(cs) = SubSeq(L, 1, Carried(type, k))
  /\ type = "vanilla" => Len(cs) = 1
  /\ type = "legacy64" =>
       \A j \in 1 .. Len(cs) : cs[j].number = Len(ClientsOf(SubSeq(cs, 1, j - 1)))
  /\ type = "extended" =>
       \A j \in 1 .. Len(cs) : cs[j].number = j - 1 /\ cs[j].size < Room

LEMMA OneMoreOf ==
  ASSUME NEW S, NEW L \in Seq(S), NEW k \in 1 .. Len(L)
  PROVE  /\ SubSeq(L, 1, k - 1) \in Seq(S) /\ Len(SubSeq(L, 1, k - 1)) = k - 1
         /\ Append(SubSeq(L, 1, k - 1), L[k]) = SubSeq(L, 1, k)
<1>1. k \in Nat /\ k - 1 \in Nat /\ k - 1 <= Len(L) /\ k <= Len(L) /\ k - 1 + 1 = k
  OBVIOUS
<1>2. PICK m \in Nat : m = k - 1
  BY <1>1
<1>3. /\ SubSeq(L, 1, m) \in Seq(S) /\ Len(SubSeq(L, 1, m)) = m
      /\ \A j \in 1 .. m : SubSeq(L, 1, m)[j] = L[j]
      /\ SubSeq(L, 1, k) \in Seq(S) /\ Len(SubSeq(L, 1, k)) = k
      /\ \A j \in 1 .. k : SubSeq(L, 1, k)[j] = L[j]
  BY <1>1, <1>2
<1>4. PICK s \in Seq(S) : s = SubSeq(L, 1, m)
  BY <1>3
<1>5. L[k] \in S
  OBVIOUS
<1>6. /\ Append(s, L[k]) \in Seq(S) /\ Len(Append(s, L[k])) = k
      /\ Append(s, L[k])[k] = L[k] /\ \A j \in 1 .. m : Append(s, L[k])[j] = s[j]
  BY <1>1, <1>2, <1>3, <1>4, <1>5
<1>7. \A j \in 1 .. k : j = k \/ j \in 1 .. m
  BY <1>1, <1>2
<1>8. Append(s, L[k]) = SubSeq(L, 1, k)
  BY <1>1, <1>3, <1>4, <1>6, <1>7
<1>. QED  BY <1>2, <1>3, <1>4, <1>8

LEMMA BuiltFirst ==
  ASSUME NEW type \in InfoTypes, NEW L \in Seq(Names)
  PROVE  Built(type, L, 0, <<InfoChunk(0, TRUE, PrefixSize)>>)
<1>. DEFINE c == InfoChunk(0, TRUE, PrefixSize)
<1>1. /\ PrefixSize \in Nat /\ VanillaMax \in Nat /\ PrefixSize < Room
  BY ServerInfoAssumption
<1>2. c \in Piece /\ c.clients = <<>> /\ c.number = 0 /\ c.size = PrefixSize
  BY <1>1 DEF InfoChunk, Piece
<1>. HIDE DEF c
<1>3. /\ <<c>> \in Seq(Piece) /\ <<c>> # <<>> /\ Len(<<c>>) = 1 /\ <<c>>[1] = c
      /\ <<c>> = Append(<<>>, c) /\ SubSeq(<<c>>, 1, 1 - 1) = <<>>
  BY <1>2
<1>4. ClientsOf(<<c>>) = <<>>
  <2>1. ClientsOf(Append(<<>>, c)) = ClientsOf(<<>>) \o c.clients
    BY <1>2, <<>> \in Seq(Piece), ClientsOfOneMore
  <2>2. <<>> \o <<>> = <<>>
    OBVIOUS
  <2>. QED  BY <1>2, <1>3, <2>1, <2>2, ClientsOfNone
<1>5. Carried(type, 0) = 0
  BY <1>1 DEF Carried
<1>6. SubSeq(L, 1, 0) = <<>>
  OBVIOUS
<1>7. ASSUME NEW j \in 1 .. Len(<<c>>)
      PROVE  /\ <<c>>[j].number = j - 1 /\ <<c>>[j].size < Room
             /\ Len(ClientsOf(SubSeq(<<c>>, 1, j - 1))) = 0
  <2>1. j = 1 /\ j - 1 = 0
    BY <1>3
  <2>2. SubSeq(<<c>>, 1, 0) = <<>> /\ Len(<<>>) = 0
    BY <1>2
  <2>. QED  BY <1>1, <1>2, <1>3, <2>1, <2>2, ClientsOfNone
<1>8. \A j \in 1 .. Len(<<c>>) : <<c>>[j].number = 0
  BY <1>2, <1>3
<1>9. ClientsOf(<<c>>) = SubSeq(L, 1, Carried(type, 0))
  BY <1>4, <1>5, <1>6
<1>. QED  BY <1>3, <1>7, <1>8, <1>9 DEF Built, c

LEMMA BuiltNext ==
  ASSUME NEW type \in InfoTypes, NEW L \in Seq(Names), NEW k \in 1 .. Len(L),
         NEW cs, Built(type, L, k - 1, cs)
  PROVE  Built(type, L, k, AddClient(type, cs, L[k], k - 1))
<1>. DEFINE n == L[k]
            N == Len(cs)
            inLast == Front(cs) \o <<WithClient(Last(cs), n)>>
<1>1. /\ cs \in Seq(Piece) /\ cs # <<>> /\ N \in Nat /\ N # 0 /\ N \in 1 .. N /\ n \in Names
      /\ k \in Nat /\ k - 1 \in Nat /\ k <= Len(L) /\ Len(L) \in Nat
  BY DEF Built
<1>2. VanillaMax \in Nat /\ PrefixSize \in Nat /\ Room \in Nat
      /\ SizeOf(n) \in Nat /\ SizeOf(n) + 1 < Room
  BY <1>1, ServerInfoAssumption
<1>3. /\ SubSeq(L, 1, k - 1) \in Seq(Names) /\ Len(SubSeq(L, 1, k - 1)) = k - 1
      /\ Append(SubSeq(L, 1, k - 1), n) = SubSeq(L, 1, k)
  BY OneMoreOf
<1>4. /\ inLast \in Seq(Piece) /\ Len(inLast) = N
      /\ \A j \in 1 .. N :
           /\ inLast[j] = IF j = N THEN WithClient(cs[j], n) ELSE cs[j]
           /\ SubSeq(inLast, 1, j - 1) = SubSeq(cs, 1, j - 1)
      /\ ClientsOf(inLast) = Append(ClientsOf(cs), n)
  BY <1>1, ClientInLast
<1>5. cs[N] \in Piece /\ Last(cs) = cs[N]
  BY <1>1 DEF Last
<1>6. inLast # <<>>
  BY <1>1, <1>4
<1>. HIDE DEF inLast, n, N
<1>7. CASE type = "vanilla"
  <2>1. N = 1 /\ ClientsOf(cs) = SubSeq(L, 1, Carried(type, k - 1))
    BY <1>7 DEF Built, N
  <2>2. ClientsOf(cs) = cs[1].clients
    <3>1. cs = Append(<<>>, cs[1]) /\ cs[1] \in Piece
      BY <1>1, <2>1 DEF N
    <3>2. ClientsOf(Append(<<>>, cs[1])) = ClientsOf(<<>>) \o cs[1].clients
      BY <3>1, <<>> \in Seq(Piece), ClientsOfOneMore
    <3>3. cs[1].clients \in Seq(Names)
      BY <3>1 DEF Piece
    <3>4. <<>> \o cs[1].clients = cs[1].clients
      BY <3>3
    <3>. QED  BY <3>1, <3>2, <3>4, ClientsOfNone
  <2>3. PICK a \in Nat : a = Carried(type, k - 1) /\ a <= k - 1
    BY <1>1, <1>2 DEF Carried
  <2>4. Len(SubSeq(L, 1, a)) = a
    BY <1>1, <2>3
  <2>5. AddClient(type, cs, n, k - 1)
          = IF Len(cs[1].clients) = VanillaMax THEN cs ELSE inLast
    BY <1>5, <1>7, <2>1 DEF AddClient, AddVanilla, inLast
  <2>6. CASE a = VanillaMax
    <3>1. Carried(type, k) = a
      BY <1>1, <1>2, <1>7, <2>3, <2>6 DEF Carried
    <3>. QED  BY <1>1, <1>7, <2>1, <2>2, <2>3, <2>4, <2>5, <2>6, <3>1 DEF Built, N, n
  <2>7. CASE a # VanillaMax
    <3>1. a = k - 1 /\ Carried(type, k) = k
      BY <1>1, <1>2, <1>7, <2>3, <2>7 DEF Carried
    <3>2. AddClient(type, cs, n, k - 1) = inLast
      BY <2>1, <2>2, <2>3, <2>4, <2>5, <2>7
    <3>3. ClientsOf(inLast) = SubSeq(L, 1, Carried(type, k))
      BY <1>3, <1>4, <2>1, <2>3, <3>1
    <3>. QED  BY <1>4, <1>6, <1>7, <2>1, <3>2, <3>3 DEF Built, N, n
  <2>. QED  BY <2>6, <2>7
<1>8. CASE type # "vanilla"
  <2>1. Carried(type, k - 1) = k - 1 /\ Carried(type, k) = k
    BY <1>8 DEF Carried
  <2>2. ClientsOf(cs) = SubSeq(L, 1, k - 1)
    BY <2>1 DEF Built
  <2>3. ClientsOf(inLast) = SubSeq(L, 1, k) /\ Len(ClientsOf(cs)) = k - 1
    BY <1>3, <1>4, <2>2
  <2>4. cs = SubSeq(cs, 1, N)
    BY <1>1 DEF N
  <2>5. \A j \in 1 .. N + 1 : j # N + 1 => j \in 1 .. N
    BY <1>1
  <2>6. N + 1 - 1 = N /\ N + 1 \in Nat
    BY <1>1
  <2>7. WithClient(cs[N], n).number = cs[N].number
        /\ WithClient(cs[N], n).size = cs[N].size + SizeOf(n)
    BY <1>1, <1>5, ClientAdded
  <2>8. CASE type = "legacy64"
    <3>. DEFINE c == InfoChunk(k - 1, TRUE, PrefixSize)
                ds == Append(cs, WithClient(c, n))
    <3>0. \A j \in 1 .. N : cs[j].number = Len(ClientsOf(SubSeq(cs, 1, j - 1)))
      BY <2>8 DEF Built, N
    <3>1. AddClient(type, cs, n, k - 1)
            = IF Len(Last(cs).clients) = LegacyChunk THEN ds ELSE inLast
      BY <2>8 DEF AddClient, AddLegacy, inLast
    <3>2. CASE AddClient(type, cs, n, k - 1) = inLast
      <4>1. \A j \in 1 .. N : inLast[j].number = Len(ClientsOf(SubSeq(inLast, 1, j - 1)))
        BY <1>4, <2>7, <3>0
      <4>. QED  BY <1>4, <1>6, <2>1, <2>3, <2>8, <3>2, <4>1 DEF Built, n
    <3>3. CASE AddClient(type, cs, n, k - 1) = ds
      <4>1. c \in Piece /\ c.clients = <<>> /\ c.number = k - 1
        BY <1>1, <1>2 DEF InfoChunk, Piece
      <4>. HIDE DEF c
      <4>2. /\ ds \in Seq(Piece) /\ Len(ds) = N + 1 /\ \A j \in 1 .. N : ds[j] = cs[j]
            /\ ds[N + 1] = WithClient(c, n)
            /\ \A j \in 1 .. N + 1 : SubSeq(ds, 1, j - 1) = SubSeq(cs, 1, j - 1)
            /\ ClientsOf(ds) = Append(ClientsOf(cs), n)
        BY <1>1, <4>1, ClientInNew DEF N
      <4>3. WithClient(c, n).number = k - 1
        BY <1>1, <4>1, ClientAdded
      <4>. HIDE DEF ds
      <4>4. ASSUME NEW j \in 1 .. N + 1
            PROVE  ds[j].number = Len(ClientsOf(SubSeq(ds, 1, j - 1)))
        <5>1. CASE j = N + 1
          <6>1. SubSeq(ds, 1, j - 1) = SubSeq(cs, 1, N)
            BY <1>1, <2>6, <4>2, <5>1
          <6>2. ds[j].number = k - 1
            BY <4>2, <4>3, <5>1
          <6>. QED  BY <2>3, <2>4, <6>1, <6>2
        <5>2. CASE j \in 1 .. N
          BY <3>0, <4>2, <5>2
        <5>. QED  BY <2>5, <5>1, <5>2
      <4>5. ds # <<>> /\ ClientsOf(ds) = SubSeq(L, 1, k)
        <5>1. ds # <<>>
          BY <1>1, <4>2
        <5>. QED  BY <1>3, <2>2, <4>2, <5>1
      <4>. QED  BY <2>1, <2>8, <3>3, <4>2, <4>4, <4>5 DEF Built, n
    <3>. HIDE DEF ds
    <3>. QED  BY <3>1, <3>2, <3>3
  <2>9. CASE type = "extended"
    <3>. DEFINE c == InfoChunk(N, FALSE, 1)
                ds == Append(cs, WithClient(c, n))
    <3>0. \A j \in 1 .. N : cs[j].number = j - 1 /\ cs[j].size < Room
      BY <2>9 DEF Built, N
    <3>1. AddClient(type, cs, n, k - 1)
            = IF WithClient(cs[N], n).size >= Room THEN ds ELSE inLast
      BY <1>5, <2>9 DEF AddClient, AddExtended, inLast, N
    <3>2. CASE WithClient(cs[N], n).size < Room /\ AddClient(type, cs, n, k - 1) = inLast
      <4>1. \A j \in 1 .. N : inLast[j].number = j - 1 /\ inLast[j].size < Room
        BY <1>4, <2>7, <3>0, <3>2
      <4>. QED  BY <1>4, <1>6, <2>1, <2>3, <2>9, <3>2, <4>1 DEF Built, n
    <3>3. CASE AddClient(type, cs, n, k - 1) = ds
      <4>1. c \in Piece /\ c.clients = <<>> /\ c.number = N /\ c.size = 1
        BY <1>1, <1>2 DEF InfoChunk, Piece
      <4>. HIDE DEF c
      <4>2. /\ ds \in Seq(Piece) /\ Len(ds) = N + 1 /\ \A j \in 1 .. N : ds[j] = cs[j]
            /\ ds[N + 1] = WithClient(c, n)
            /\ ClientsOf(ds) = Append(ClientsOf(cs), n)
        BY <1>1, <4>1, ClientInNew DEF N
      <4>3. WithClient(c, n).number = N /\ WithClient(c, n).size = 1 + SizeOf(n)
        BY <1>1, <4>1, ClientAdded
      <4>4. 1 + SizeOf(n) < Room
        BY <1>2
      <4>. HIDE DEF ds
      <4>5. ASSUME NEW j \in 1 .. N + 1
            PROVE  ds[j].number = j - 1 /\ ds[j].size < Room
        <5>1. CASE j = N + 1
          <6>1. ds[j].number = N /\ ds[j].size = 1 + SizeOf(n)
            BY <4>2, <4>3, <5>1
          <6>2. j - 1 = N
            BY <1>1, <5>1
          <6>. QED  BY <4>4, <6>1, <6>2
        <5>2. CASE j \in 1 .. N
          BY <3>0, <4>2, <5>2
        <5>. QED  BY <2>5, <5>1, <5>2
      <4>6. ds # <<>> /\ ClientsOf(ds) = SubSeq(L, 1, k)
        <5>1. ds # <<>>
          BY <1>1, <4>2
        <5>. QED  BY <1>3, <2>2, <4>2, <5>1
      <4>. QED  BY <2>1, <2>9, <3>3, <4>2, <4>5, <4>6 DEF Built, n
    <3>4. WithClient(cs[N], n).size \in Nat
      <4>1. cs[N].size \in Nat
        BY <1>5 DEF Piece
      <4>. QED  BY <1>2, <2>7, <4>1
    <3>. HIDE DEF ds
    <3>. QED  BY <1>2, <3>1, <3>2, <3>3, <3>4
  <2>. QED  BY <1>8, <2>8, <2>9 DEF InfoTypes
<1>. QED  BY <1>7, <1>8

\* The chunks carry the list of the clients, or none.
LEMMA CacheBuilt ==
  ASSUME NEW type \in InfoTypes, NEW b \in BOOLEAN, NEW L \in Seq(Names),
         L = IF b THEN ClientList ELSE <<>>
  PROVE  Built(type, L, Len(L), CacheServerInfo(type, b))
<1>. DEFINE N == Len(L)
            S == Seq(Piece)
            a == <<InfoChunk(0, TRUE, PrefixSize)>>
            H == [k \in 0 .. N |-> {cs \in S : Built(type, L, k, cs)}]
            F == [k \in 1 .. N |-> [cs \in S |-> AddClient(type, cs, L[k], k - 1)]]
            Loop(f) == f = [k \in 0 .. N |->
                              IF k = 0 THEN a ELSE AddClient(type, f[k - 1], L[k], k - 1)]
<1>1. N \in Nat /\ 0 \in 0 .. N /\ N \in 0 .. N
      /\ \A k \in 1 .. N : k \in 0 .. N /\ k # 0 /\ k - 1 \in 0 .. N
  OBVIOUS
<1>2. a \in H[0]
  <2>1. Built(type, L, 0, a)
    BY BuiltFirst
  <2>2. a \in S
    BY <2>1 DEF Built
  <2>. HIDE DEF a, S
  <2>. QED  BY <1>1, <2>1, <2>2
<1>3. \A k \in 1 .. N : \A cs \in H[k - 1] :
        F[k][cs] = AddClient(type, cs, L[k], k - 1) /\ F[k][cs] \in H[k]
  <2>. SUFFICES ASSUME NEW k \in 1 .. N, NEW cs \in H[k - 1]
                PROVE  F[k][cs] = AddClient(type, cs, L[k], k - 1) /\ F[k][cs] \in H[k]
    OBVIOUS
  <2>1. cs \in S /\ Built(type, L, k - 1, cs)
    BY <1>1
  <2>2. F[k][cs] = AddClient(type, cs, L[k], k - 1)
    BY <2>1
  <2>3. Built(type, L, k, AddClient(type, cs, L[k], k - 1))
    BY <2>1, BuiltNext
  <2>4. AddClient(type, cs, L[k], k - 1) \in S
    BY <2>3 DEF Built
  <2>. HIDE DEF F, S, N
  <2>5. AddClient(type, cs, L[k], k - 1) \in H[k]
    BY <1>1, <2>3, <2>4
  <2>. QED  BY <2>2, <2>5
<1>4. \A k \in 0 .. N : H[k] \subseteq S
  OBVIOUS
<1>5. \E f : Loop(f)
  <2>. HIDE DEF H, F, N, S, a
  <2>1. \A k \in 1 .. N : \A st \in H[k - 1] : F[k][st] \in H[k]
    BY <1>3
  <2>2. PICK f \in [0 .. N -> S] : Runs(f, a, F, N) /\ \A k \in 0 .. N : f[k] \in H[k]
    BY <1>1, <1>2, <1>4, <2>1, LoopRuns
  <2>3. \A k \in 0 .. N : f[k] = IF k = 0 THEN a ELSE AddClient(type, f[k - 1], L[k], k - 1)
    <3>. SUFFICES ASSUME NEW k \in 0 .. N
                  PROVE  f[k] = IF k = 0 THEN a ELSE AddClient(type, f[k - 1], L[k], k - 1)
      OBVIOUS
    <3>1. k # 0 => k \in 1 .. N
      BY <1>1
    <3>. QED  BY <1>1, <1>3, <2>2, <3>1 DEF Runs
  <2>4. Loop(f)
    BY <2>2, <2>3
  <2>. QED  BY <2>4
<1>6. PICK f : f = (CHOOSE g : Loop(g)) /\ Loop(f)
  <2>. HIDE DEF Loop
  <2>. QED  BY <1>5
<1>7. CacheServerInfo(type, b) = f[N]
  BY <1>6 DEF CacheServerInfo
<1>8. f = [k \in 0 .. N |-> IF k = 0 THEN a ELSE AddClient(type, f[k - 1], L[k], k - 1)]
  BY <1>6
<1>9. f[N] \in H[N]
  <2>. DEFINE B == {k \in 0 .. N : f[k] \in H[k]}
  <2>. HIDE DEF H, F, N, a, Loop
  <2>1. 0 \in B
    BY <1>1, <1>2, <1>8
  <2>2. ASSUME NEW k \in 1 .. N, k - 1 \in B PROVE k \in B
    <3>1. f[k - 1] \in H[k - 1] /\ f[k] = AddClient(type, f[k - 1], L[k], k - 1)
      BY <1>1, <1>8, <2>2
    <3>. QED  BY <1>1, <1>3, <3>1
  <2>. HIDE DEF B
  <2>3. \A k \in 0 .. N : k \in B
    BY <1>1, <2>1, <2>2, NumbersUpTo
  <2>. QED  BY <1>1, <2>3 DEF B
<1>. HIDE DEF Loop
<1>. QED  BY <1>1, <1>7, <1>9

\* The entries of L are the clients among the first n slots, in the slots g.
OfSlots(L, g, n) ==
  /\ g \in [1 .. Len(L) -> 0 .. n - 1]
  /\ \A j, k \in 1 .. Len(L) : g[j] = g[k] => j = k
  /\ \A k \in 1 .. Len(L) : clientState[g[k]] # "empty" /\ L[k] = ShownName(g[k])
  /\ \A i \in 0 .. n - 1 : clientState[i] # "empty" => \E k \in 1 .. Len(L) : g[k] = i

\* The types of the slots.
SlotTypes ==
  /\ clientState \in [Slots -> {"empty", "joining", "ready", "ingame"}]
  /\ clientName \in [Slots -> Names]

\* One slot more.
LEMMA OneMoreSlot ==
  ASSUME NEW L \in Seq(Names), NEW g, NEW n \in Nat \ {0}, OfSlots(L, g, n - 1),
         ShownName(n - 1) \in Names
  PROVE  LET M == IF clientState[n - 1] = "empty" THEN L ELSE Append(L, ShownName(n - 1))
         IN  M \in Seq(Names) /\ \E h : OfSlots(M, h, n)
<1>. DEFINE K == Len(L)
            s == ShownName(n - 1)
<1>1. /\ g \in [1 .. K -> 0 .. n - 1 - 1]
      /\ \A j, k \in 1 .. K : g[j] = g[k] => j = k
      /\ \A k \in 1 .. K : clientState[g[k]] # "empty" /\ L[k] = ShownName(g[k])
      /\ \A i \in 0 .. n - 1 - 1 : clientState[i] # "empty" => \E k \in 1 .. K : g[k] = i
  BY DEF OfSlots
<1>2. /\ n - 1 \in 0 .. n - 1 /\ \A i \in 0 .. n - 1 - 1 : i \in 0 .. n - 1 /\ i # n - 1
      /\ \A i \in 0 .. n - 1 : i = n - 1 \/ i \in 0 .. n - 1 - 1
      /\ K \in Nat /\ K + 1 \in 1 .. K + 1
      /\ \A k \in 1 .. K : k \in 1 .. K + 1 /\ k # K + 1
      /\ \A k \in 1 .. K + 1 : k = K + 1 \/ k \in 1 .. K
  OBVIOUS
<1>3. CASE clientState[n - 1] = "empty"
  <2>. HIDE DEF K
  <2>1. g \in [1 .. K -> 0 .. n - 1]
    BY <1>1, <1>2
  <2>2. OfSlots(L, g, n)
    BY <1>1, <1>2, <1>3, <2>1 DEF OfSlots, K
  <2>. QED  BY <1>3, <2>2
<1>4. CASE clientState[n - 1] # "empty"
  <2>. DEFINE M == Append(L, s)
              h == [k \in 1 .. K + 1 |-> IF k = K + 1 THEN n - 1 ELSE g[k]]
  <2>1. /\ M \in Seq(Names) /\ Len(M) = K + 1 /\ M[K + 1] = s
        /\ \A k \in 1 .. K : M[k] = L[k]
    OBVIOUS
  <2>. HIDE DEF K, M, s
  <2>2. h \in [1 .. K + 1 -> 0 .. n - 1]
    BY <1>1, <1>2
  <2>3. /\ h[K + 1] = n - 1
        /\ \A k \in 1 .. K : h[k] = g[k] /\ g[k] \in 0 .. n - 1 - 1 /\ g[k] # n - 1
    BY <1>1, <1>2
  <2>. HIDE DEF h
  <2>4. \A j, k \in 1 .. K + 1 : h[j] = h[k] => j = k
    BY <1>1, <1>2, <2>3
  <2>5. \A k \in 1 .. K + 1 : clientState[h[k]] # "empty" /\ M[k] = ShownName(h[k])
    BY <1>1, <1>2, <1>4, <2>1, <2>3 DEF s
  <2>6. \A i \in 0 .. n - 1 : clientState[i] # "empty" => \E k \in 1 .. K + 1 : h[k] = i
    BY <1>1, <1>2, <2>3
  <2>7. OfSlots(M, h, n)
    BY <2>1, <2>2, <2>4, <2>5, <2>6 DEF OfSlots
  <2>. QED  BY <1>4, <2>1, <2>7 DEF M, s
<1>. QED  BY <1>3, <1>4

\* The list has each client that is there, once.
LEMMA ListOfClients ==
  ASSUME SlotTypes
  PROVE  ClientList \in Seq(Names) /\ \E g : OfSlots(ClientList, g, Cardinality(Slots))
<1>. DEFINE N == Cardinality(Slots)
            S == Seq(Names)
            More(l, n) == IF clientState[n - 1] = "empty" THEN l
                          ELSE Append(l, ShownName(n - 1))
            H == [n \in 0 .. N |-> {l \in S : \E g : OfSlots(l, g, n)}]
            F == [n \in 1 .. N |-> [l \in S |-> More(l, n)]]
            Loop(f) == f = [n \in 0 .. N |-> IF n = 0 THEN <<>>
                                             ELSE IF clientState[n - 1] = "empty" THEN f[n - 1]
                                             ELSE Append(f[n - 1], ShownName(n - 1))]
<1>1. Slots = 0 .. N - 1 /\ N \in Nat
  BY ServerInfoAssumption, FS_CardinalityType
<1>2. 0 \in 0 .. N /\ N \in 0 .. N
      /\ \A k \in 1 .. N : k \in 0 .. N /\ k # 0 /\ k - 1 \in 0 .. N /\ k \in Nat \ {0}
  <2>. HIDE DEF N
  <2>. QED  BY <1>1
<1>3. ASSUME NEW n \in 1 .. N PROVE ShownName(n - 1) \in Names
  <2>. HIDE DEF N
  <2>1. n - 1 \in Slots
    BY <1>1
  <2>. QED  BY <2>1 DEF ShownName, SlotTypes, Names
<1>4. <<>> \in H[0]
  <2>1. OfSlots(<<>>, [k \in 1 .. 0 |-> 0], 0)
    BY DEF OfSlots
  <2>. HIDE DEF N
  <2>2. <<>> \in S
    OBVIOUS
  <2>. QED  BY <1>2, <2>1, <2>2
<1>. HIDE DEF N
<1>5. \A n \in 1 .. N : \A l \in H[n - 1] : F[n][l] = More(l, n) /\ F[n][l] \in H[n]
  <2>. SUFFICES ASSUME NEW n \in 1 .. N, NEW l \in H[n - 1]
                PROVE  F[n][l] = More(l, n) /\ F[n][l] \in H[n]
    OBVIOUS
  <2>1. l \in S /\ \E g : OfSlots(l, g, n - 1)
    BY <1>2
  <2>2. F[n][l] = More(l, n)
    BY <2>1
  <2>3. More(l, n) \in S /\ \E h : OfSlots(More(l, n), h, n)
    BY <1>2, <1>3, <2>1, OneMoreSlot
  <2>. HIDE DEF More, F, S
  <2>4. More(l, n) \in H[n]
    BY <1>2, <2>3
  <2>. QED  BY <2>2, <2>4
<1>6. \A n \in 0 .. N : H[n] \subseteq S
  OBVIOUS
<1>7. \E f : Loop(f)
  <2>. HIDE DEF H, F, S
  <2>1. \A n \in 1 .. N : \A l \in H[n - 1] : F[n][l] \in H[n]
    BY <1>5
  <2>2. PICK f \in [0 .. N -> S] : Runs(f, <<>>, F, N) /\ \A n \in 0 .. N : f[n] \in H[n]
    BY <1>1, <1>4, <1>6, <2>1, LoopRuns
  <2>3. \A n \in 0 .. N : f[n] = IF n = 0 THEN <<>>
                                 ELSE IF clientState[n - 1] = "empty" THEN f[n - 1]
                                 ELSE Append(f[n - 1], ShownName(n - 1))
    <3>. SUFFICES ASSUME NEW n \in 0 .. N
                  PROVE  f[n] = IF n = 0 THEN <<>>
                                ELSE IF clientState[n - 1] = "empty" THEN f[n - 1]
                                ELSE Append(f[n - 1], ShownName(n - 1))
      OBVIOUS
    <3>1. n # 0 => n \in 1 .. N
      BY <1>1
    <3>. QED  BY <1>2, <1>5, <2>2, <3>1 DEF Runs
  <2>4. Loop(f)
    BY <2>2, <2>3
  <2>. QED  BY <2>4
<1>8. PICK f : f = (CHOOSE g : Loop(g)) /\ Loop(f)
  <2>. HIDE DEF Loop
  <2>. QED  BY <1>7
<1>9. ClientList = f[N]
  BY <1>8 DEF ClientList, N
<1>10. f = [n \in 0 .. N |-> IF n = 0 THEN <<>> ELSE More(f[n - 1], n)]
  BY <1>8
<1>11. f[N] \in H[N]
  <2>. DEFINE B == {n \in 0 .. N : f[n] \in H[n]}
  <2>. HIDE DEF H, F, Loop, More
  <2>1. 0 \in B
    BY <1>2, <1>4, <1>10
  <2>2. ASSUME NEW n \in 1 .. N, n - 1 \in B PROVE n \in B
    <3>1. f[n - 1] \in H[n - 1] /\ f[n] = More(f[n - 1], n)
      BY <1>2, <1>10, <2>2
    <3>. QED  BY <1>2, <1>5, <3>1
  <2>. HIDE DEF B
  <2>3. \A n \in 0 .. N : n \in B
    BY <1>1, <2>1, <2>2, NumbersUpTo
  <2>. QED  BY <1>2, <2>3 DEF B
<1>. HIDE DEF Loop
<1>. QED  BY <1>2, <1>9, <1>11 DEF N

\* ChunksAreWhole, of any cache.
Whole(c) ==
  /\ LET all == ClientsOf(c["extended"][TRUE])
     IN /\ ClientsOf(c["legacy64"][TRUE]) = all
        /\ ClientsOf(c["vanilla"][TRUE])
             = SubSeq(all, 1, IF Len(all) < VanillaMax THEN Len(all) ELSE VanillaMax)
  /\ \A k \in DOMAIN c["legacy64"][TRUE] :
       c["legacy64"][TRUE][k].number = Len(ClientsOf(SubSeq(c["legacy64"][TRUE], 1, k - 1)))
  /\ \A k \in DOMAIN c["extended"][TRUE] :
       c["extended"][TRUE][k].number = k - 1 /\ c["extended"][TRUE][k].size < Room
  /\ \A t \in InfoTypes : ClientsOf(c[t][FALSE]) = <<>>

\* The places at which a name is shown.
Named(shown) == {k \in 1 .. Len(shown) : shown[k] # NoName}

\* The names that are shown are those of the clients in the game, in the slots g.
Shows(shown, g) ==
  /\ g \in [Named(shown) -> Slots]
  /\ \A j, k \in Named(shown) : g[j] = g[k] => j = k
  /\ \A k \in Named(shown) : clientState[g[k]] = "ingame" /\ shown[k] = clientName[g[k]]
  /\ \A i \in Slots : clientState[i] = "ingame" /\ clientName[i] # NoName
                        => \E k \in Named(shown) : g[k] = i

\* The types of the cache.
InfoCaches == [InfoTypes -> [BOOLEAN -> Seq(Piece)]]

\* The state of UpdateServerInfo, when it has put all together.
LEMMA CacheIsWhole ==
  ASSUME SlotTypes,
         NEW c, c = [t \in InfoTypes |-> [b \in BOOLEAN |-> CacheServerInfo(t, b)]]
  PROVE  c \in InfoCaches /\ Whole(c) /\ \E g : Shows(ClientsOf(c["extended"][TRUE]), g)
<1>. DEFINE C == ClientList
            K == Len(C)
<1>1. PICK g : C \in Seq(Names) /\ OfSlots(C, g, Cardinality(Slots))
  BY ListOfClients
<1>. HIDE DEF C
<1>2. K \in Nat /\ C = SubSeq(C, 1, K) /\ <<>> \in Seq(Names) /\ Len(<<>>) = 0
      /\ SubSeq(<<>>, 1, 0) = <<>> /\ VanillaMax \in Nat
  BY <1>1, ServerInfoAssumption
<1>3. \A t \in InfoTypes : c[t][TRUE] = CacheServerInfo(t, TRUE)
                           /\ c[t][FALSE] = CacheServerInfo(t, FALSE)
  OBVIOUS
<1>4. ASSUME NEW t \in InfoTypes
      PROVE  Built(t, C, K, c[t][TRUE]) /\ Built(t, <<>>, 0, c[t][FALSE])
  <2>1. Built(t, C, K, CacheServerInfo(t, TRUE))
    <3>1. C = IF TRUE THEN ClientList ELSE <<>>
      BY DEF C
    <3>. QED  BY <1>1, <3>1, CacheBuilt
  <2>2. Built(t, <<>>, Len(<<>>), CacheServerInfo(t, FALSE))
    <3>1. <<>> = IF FALSE THEN ClientList ELSE <<>>
      OBVIOUS
    <3>. QED  BY <1>2, <3>1, CacheBuilt
  <2>. QED  BY <1>2, <1>3, <2>1, <2>2
<1>5. c \in InfoCaches
  <2>1. \A t \in InfoTypes : \A b \in BOOLEAN : CacheServerInfo(t, b) \in Seq(Piece)
    <3>. SUFFICES ASSUME NEW t \in InfoTypes, NEW b \in BOOLEAN
                  PROVE  CacheServerInfo(t, b) \in Seq(Piece)
      OBVIOUS
    <3>1. c[t][TRUE] \in Seq(Piece) /\ c[t][FALSE] \in Seq(Piece)
      BY <1>4 DEF Built
    <3>. QED  BY <1>3, <3>1
  <2>. QED  BY <2>1 DEF InfoCaches
<1>6. \A t \in InfoTypes : ClientsOf(c[t][FALSE]) = <<>>
  <2>. SUFFICES ASSUME NEW t \in InfoTypes PROVE ClientsOf(c[t][FALSE]) = <<>>
    OBVIOUS
  <2>1. Carried(t, 0) = 0
    BY <1>2 DEF Carried
  <2>. QED  BY <1>2, <1>4, <2>1 DEF Built
<1>7. {"extended", "legacy64", "vanilla"} \subseteq InfoTypes
  BY DEF InfoTypes
<1>8. ClientsOf(c["extended"][TRUE]) = C /\ ClientsOf(c["legacy64"][TRUE]) = C
  <2>1. Carried("extended", K) = K /\ Carried("legacy64", K) = K
    BY DEF Carried
  <2>2. Built("extended", C, K, c["extended"][TRUE]) /\ Built("legacy64", C, K, c["legacy64"][TRUE])
    BY <1>4, <1>7
  <2>. QED  BY <1>2, <2>1, <2>2 DEF Built
<1>9. ClientsOf(c["vanilla"][TRUE]) = SubSeq(C, 1, IF K < VanillaMax THEN K ELSE VanillaMax)
  <2>1. Carried("vanilla", K) = IF K < VanillaMax THEN K ELSE VanillaMax
    BY <1>2 DEF Carried
  <2>2. Built("vanilla", C, K, c["vanilla"][TRUE])
    BY <1>4, <1>7
  <2>. QED  BY <2>1, <2>2 DEF Built
<1>10. \A k \in DOMAIN c["legacy64"][TRUE] :
         c["legacy64"][TRUE][k].number = Len(ClientsOf(SubSeq(c["legacy64"][TRUE], 1, k - 1)))
  <2>1. PICK l \in Seq(Piece) : l = c["legacy64"][TRUE] /\ Built("legacy64", C, K, l)
    <3>1. Built("legacy64", C, K, c["legacy64"][TRUE])
      BY <1>4, <1>7
    <3>2. c["legacy64"][TRUE] \in Seq(Piece)
      BY <3>1 DEF Built
    <3>. QED  BY <3>1, <3>2
  <2>2. DOMAIN l = 1 .. Len(l)
    OBVIOUS
  <2>. QED  BY <2>1, <2>2 DEF Built
<1>11. \A k \in DOMAIN c["extended"][TRUE] :
         c["extended"][TRUE][k].number = k - 1 /\ c["extended"][TRUE][k].size < Room
  <2>1. PICK l \in Seq(Piece) : l = c["extended"][TRUE] /\ Built("extended", C, K, l)
    <3>1. Built("extended", C, K, c["extended"][TRUE])
      BY <1>4, <1>7
    <3>2. c["extended"][TRUE] \in Seq(Piece)
      BY <3>1 DEF Built
    <3>. QED  BY <3>1, <3>2
  <2>2. DOMAIN l = 1 .. Len(l)
    OBVIOUS
  <2>. QED  BY <2>1, <2>2 DEF Built
<1>12. Whole(c)
  BY <1>6, <1>8, <1>9, <1>10, <1>11 DEF Whole
<1>13. \E h : Shows(C, h)
  <2>. DEFINE h == [k \in Named(C) |-> g[k]]
  <2>1. Slots = 0 .. Cardinality(Slots) - 1
    BY ServerInfoAssumption
  <2>2. /\ \A k \in 1 .. K : g[k] \in Slots /\ clientState[g[k]] # "empty"
                              /\ C[k] = ShownName(g[k])
        /\ \A j, k \in 1 .. K : g[j] = g[k] => j = k
        /\ \A i \in Slots : clientState[i] # "empty" => \E k \in 1 .. K : g[k] = i
    BY <1>1, <2>1 DEF OfSlots
  <2>3. Named(C) \subseteq 1 .. K /\ \A k \in 1 .. K : k \in Named(C) <=> C[k] # NoName
    BY DEF Named
  <2>. HIDE DEF K
  <2>4. h \in [Named(C) -> Slots] /\ \A k \in Named(C) : h[k] = g[k]
    BY <2>2, <2>3
  <2>. HIDE DEF h
  <2>5. \A j, k \in Named(C) : h[j] = h[k] => j = k
    BY <2>2, <2>3, <2>4
  <2>6. \A k \in Named(C) : clientState[h[k]] = "ingame" /\ C[k] = clientName[h[k]]
    BY <2>2, <2>3, <2>4 DEF ShownName
  <2>7. \A i \in Slots : clientState[i] = "ingame" /\ clientName[i] # NoName
                           => \E k \in Named(C) : h[k] = i
    BY <2>2, <2>3, <2>4 DEF ShownName
  <2>. QED  BY <2>4, <2>5, <2>6, <2>7 DEF Shows
<1>. QED  BY <1>5, <1>8, <1>12, <1>13

\* A name is found for as many clients as there are slots: SetClientName ends.
LEMMA NameIsFound ==
  ASSUME SlotTypes, NEW i \in Slots, NEW n \in ClientNames
  PROVE  SetClientName(i, n) \in Names
<1>. DEFINE C == Cardinality(Slots)
            Free == {k \in 0 .. C : TrySetClientName(i, <<k, n>>)}
<1>1. C \in Nat /\ IsFiniteSet(Slots)
  BY ServerInfoAssumption, FS_CardinalityType
<1>2. Free # {}
  <2>. SUFFICES ASSUME Free = {} PROVE FALSE
    OBVIOUS
  <2>. DEFINE T == Slots \ {i}
              f == [k \in 1 .. C |-> CHOOSE j \in T : clientName[j] = <<k, n>>]
  <2>1. \A k \in 1 .. C : \E j \in T : clientName[j] = <<k, n>>
    <3>1. \A k \in 1 .. C : ~TrySetClientName(i, <<k, n>>)
      <4>1. 1 .. C \subseteq 0 .. C
        <5>. HIDE DEF C
        <5>. QED  BY <1>1
      <4>. QED  BY <4>1
    <3>. QED  BY <3>1 DEF TrySetClientName, Known
  <2>2. \A k \in 1 .. C : f[k] \in T /\ clientName[f[k]] = <<k, n>>
    BY <2>1
  <2>3. f = [k \in 1 .. C |-> f[k]]
    OBVIOUS
  <2>. HIDE DEF f, C, T
  <2>4. f \in [1 .. C -> T]
    BY <2>2, <2>3
  <2>5. IsFiniteSet(T) /\ Cardinality(T) = C - 1
    BY <1>1, FS_RemoveElement DEF T, C
  <2>6. IsFiniteSet(1 .. C) /\ Cardinality(1 .. C) = C
    BY <1>1, OneToN
  <2>7. Cardinality(T) < Cardinality(1 .. C)
    BY <1>1, <2>5, <2>6
  <2>8. PICK x, y \in 1 .. C : x # y /\ f[x] = f[y]
    <3>1. PICK S : S = 1 .. C
      OBVIOUS
    <3>2. f \in [S -> T] /\ IsFiniteSet(S) /\ Cardinality(T) < Cardinality(S)
      BY <2>4, <2>6, <2>7, <3>1
    <3>3. \E x, y \in S : x # y /\ f[x] = f[y]
      BY <2>5, <3>2, FS_PigeonHole
    <3>. QED  BY <3>1, <3>3
  <2>. QED  BY <2>2, <2>8
<1>3. Free \in SUBSET Nat /\ Free \subseteq 0 .. C
  <2>. HIDE DEF C
  <2>. QED  BY <1>1
<1>4. PICK m \in Free : \A k \in Free : m <= k
  <2>. HIDE DEF Free
  <2>. QED  BY <1>2, <1>3, SmallestNumber
<1>5. /\ m \in 0 .. C /\ TrySetClientName(i, <<m, n>>)
      /\ \A j \in 0 .. m - 1 : ~TrySetClientName(i, <<j, n>>)
  <2>1. m \in 0 .. C /\ TrySetClientName(i, <<m, n>>)
    OBVIOUS
  <2>. HIDE DEF C
  <2>2. ASSUME NEW j \in 0 .. m - 1, TrySetClientName(i, <<j, n>>) PROVE FALSE
    <3>1. j \in 0 .. C /\ ~(m <= j)
      BY <1>1, <2>1
    <3>. QED  BY <1>4, <2>2, <3>1
  <2>. QED  BY <2>1, <2>2
<1>. HIDE DEF Free
<1>6. PICK k \in 0 .. C : SetClientName(i, n) = <<k, n>>
  <2>. DEFINE P(l) == /\ TrySetClientName(i, <<l, n>>)
                      /\ \A j \in 0 .. l - 1 : ~TrySetClientName(i, <<j, n>>)
              l0 == CHOOSE l \in 0 .. C : P(l)
  <2>1. \E l \in 0 .. C : P(l)
    BY <1>5
  <2>2. l0 \in 0 .. C
    <3>. HIDE DEF P
    <3>. QED  BY <2>1
  <2>3. SetClientName(i, n) = <<l0, n>>
    BY DEF SetClientName
  <2>. HIDE DEF l0
  <2>. QED  BY <2>2, <2>3
<1>. QED  BY <1>6 DEF Names

\* CacheIsWhole of the cache that UpdateServerInfo would put together in this state.
CacheHolds ==
  SlotTypes =>
    LET c == [t \in InfoTypes |-> [b \in BOOLEAN |-> CacheServerInfo(t, b)]]
    IN  c \in InfoCaches /\ Whole(c) /\ \E g : Shows(ClientsOf(c["extended"][TRUE]), g)

LEMMA CacheAlwaysHolds == CacheHolds
  BY CacheIsWhole DEF CacheHolds

\* The cache is whole whatever the clients do in the meantime, and while no update is due
\* it still shows every client in the game at a place of its own.
InfoInv ==
  /\ SlotTypes /\ needsUpdate \in BOOLEAN
  /\ cache \in InfoCaches /\ Whole(cache)
  /\ ~needsUpdate => \E g : Shows(ClientsOf(cache["extended"][TRUE]), g)

LEMMA InfoBegins == ServerInfoInit => InfoInv
<1>. SUFFICES ASSUME ServerInfoInit PROVE InfoInv
  OBVIOUS
<1>1. clientState = [i \in Slots |-> "empty"] /\ clientName = [i \in Slots |-> NoName]
      /\ needsUpdate = FALSE
      /\ cache = [t \in InfoTypes |-> [b \in BOOLEAN |-> CacheServerInfo(t, b)]]
  BY DEF ServerInfoInit
<1>2. SlotTypes
  BY <1>1 DEF SlotTypes, Names
<1>3. cache \in InfoCaches /\ Whole(cache) /\ \E g : Shows(ClientsOf(cache["extended"][TRUE]), g)
  BY <1>1, <1>2, CacheIsWhole
<1>. QED  BY <1>1, <1>2, <1>3 DEF InfoInv

\* The cache stays, and so do the names that are shown, while no client that is in the
\* game comes, goes or is renamed without an update being due.
LEMMA StillShown ==
  ASSUME InfoInv, SlotTypes', UNCHANGED cache, needsUpdate' \in BOOLEAN,
         ~needsUpdate' => /\ ~needsUpdate
                          /\ \A i \in Slots : /\ clientState[i] = "ingame" <=> clientState'[i] = "ingame"
                                              /\ clientState[i] = "ingame" => clientName'[i] = clientName[i]
  PROVE  InfoInv'
<1>1. cache' \in InfoCaches /\ Whole(cache')
  BY DEF InfoInv, InfoCaches, InfoTypes, Piece, Names
<1>2. ASSUME ~needsUpdate' PROVE (\E g : Shows(ClientsOf(cache["extended"][TRUE]), g))'
  <2>. DEFINE shown == ClientsOf(cache["extended"][TRUE])
  <2>1. PICK g : Shows(shown, g)
    BY <1>2 DEF InfoInv
  <2>2. shown' = shown /\ Named(shown)' = Named(shown)
    BY DEF Named, ClientsOf
  <2>. HIDE DEF shown
  <2>3. Shows(shown, g)'
    BY <1>2, <2>1, <2>2 DEF Shows
  <2>. QED  BY <2>3 DEF shown
<1>. QED  BY <1>1, <1>2 DEF InfoInv

LEMMA InfoStep == InfoInv /\ [ServerInfoNext]_serverInfoVars => InfoInv'
<1>. SUFFICES ASSUME InfoInv, [ServerInfoNext]_serverInfoVars PROVE InfoInv'
  OBVIOUS
<1>0. /\ clientState \in [Slots -> {"empty", "joining", "ready", "ingame"}]
      /\ clientName \in [Slots -> Names] /\ NoName \in Names
      /\ \A i \in Slots : i \in Known <=> clientState[i] \in {"ready", "ingame"}
      /\ needsUpdate \in BOOLEAN
  BY DEF InfoInv, SlotTypes, Names, Known
<1>1. ASSUME NEW i \in Slots, Joins(i) PROVE InfoInv'
  <2>1. /\ clientState[i] = "empty" /\ clientState' = [clientState EXCEPT ![i] = "joining"]
        /\ UNCHANGED <<clientName, needsUpdate, cache>>
    BY <1>1 DEF Joins
  <2>2. SlotTypes'
    BY <1>0, <2>1 DEF SlotTypes, Names
  <2>3. \A k \in Slots : clientState[k] = "ingame" <=> clientState'[k] = "ingame"
    BY <1>0, <2>1
  <2>. QED  BY <1>0, <2>1, <2>2, <2>3, StillShown
<1>2. ASSUME NEW i \in Slots, Ready(i) PROVE InfoInv'
  <2>1. clientState' = [clientState EXCEPT ![i] = "ready"] /\ UNCHANGED <<clientName, cache>> /\ needsUpdate'
    BY <1>2 DEF Ready
  <2>2. SlotTypes'
    BY <1>0, <2>1 DEF SlotTypes, Names
  <2>. QED  BY <1>2, <2>1, <2>2, StillShown DEF Ready
<1>3. ASSUME NEW i \in Slots, EntersGame(i) PROVE InfoInv'
  <2>1. clientState' = [clientState EXCEPT ![i] = "ingame"] /\ UNCHANGED <<clientName, cache>>
        /\ needsUpdate' = TRUE
    BY <1>3 DEF EntersGame, EnterExpires
  <2>2. SlotTypes'
    BY <1>0, <2>1 DEF SlotTypes, Names
  <2>. QED  BY <2>1, <2>2, StillShown
<1>4. ASSUME NEW i \in Slots, ChangesName(i) PROVE InfoInv'
  <2>1. PICK n \in ClientNames : clientName' = [clientName EXCEPT ![i] = SetClientName(i, n)]
    BY <1>4 DEF ChangesName
  <2>2. needsUpdate' = TRUE /\ UNCHANGED <<clientState, cache>>
    BY <1>4 DEF ChangesName
  <2>3. SetClientName(i, n) \in Names
    BY NameIsFound DEF InfoInv
  <2>4. SlotTypes'
    BY <1>0, <2>1, <2>2, <2>3 DEF SlotTypes, Names
  <2>. QED  BY <2>2, <2>4, StillShown
<1>5. ASSUME NEW i \in Slots, Leaves(i) PROVE InfoInv'
  <2>1. /\ clientState' = [clientState EXCEPT ![i] = "empty"]
        /\ clientName' = [clientName EXCEPT ![i] = NoName]
        /\ needsUpdate' = (needsUpdate \/ i \in Known) /\ UNCHANGED cache
    BY <1>5 DEF Leaves, LeaveExpires
  <2>2. SlotTypes'
    BY <1>0, <2>1 DEF SlotTypes, Names
  <2>3. \A k \in Slots : clientName'[k] = IF k = i THEN NoName ELSE clientName[k]
    BY <1>0, <2>1
  <2>4. needsUpdate' \in BOOLEAN
    BY <2>1
  <2>5. ASSUME ~needsUpdate'
        PROVE  /\ ~needsUpdate
               /\ \A k \in Slots : /\ clientState[k] = "ingame" <=> clientState'[k] = "ingame"
                                   /\ clientState[k] = "ingame" => clientName'[k] = clientName[k]
    <3>1. ~needsUpdate /\ i \notin Known
      BY <2>1, <2>5
    <3>. QED  BY <1>0, <2>1, <2>3, <3>1
  <2>. QED  BY <2>1, <2>2, <2>4, <2>5, StillShown
<1>6. CASE UpdateServerInfo
  <2>1. /\ ~needsUpdate' /\ needsUpdate' \in BOOLEAN
        /\ cache' = [t \in InfoTypes |-> [b \in BOOLEAN |-> CacheServerInfo(t, b)]]
        /\ UNCHANGED <<clientState, clientName>>
    BY <1>6 DEF UpdateServerInfo
  <2>2. /\ cache' \in InfoCaches /\ Whole(cache')
        /\ \E g : Shows(ClientsOf(cache'["extended"][TRUE]), g)
    BY <2>1, CacheIsWhole DEF InfoInv
  <2>3. PICK g : Shows(ClientsOf(cache'["extended"][TRUE]), g)
    BY <2>2
  <2>4. Shows(ClientsOf(cache["extended"][TRUE]), g)'
    <3>. DEFINE shown == ClientsOf(cache["extended"][TRUE])
    <3>1. PICK now : now = ClientsOf(cache'["extended"][TRUE])
      OBVIOUS
    <3>2. shown' = now
      BY <3>1 DEF ClientsOf
    <3>. HIDE DEF shown
    <3>3. Named(shown)' = Named(now)
      BY <3>2 DEF Named
    <3>4. Shows(now, g)
      BY <2>3, <3>1
    <3>5. Shows(shown, g)'
      BY <2>1, <3>2, <3>3, <3>4 DEF Shows
    <3>. QED  BY <3>5 DEF shown
  <2>5. SlotTypes'
    BY <1>0, <2>1 DEF SlotTypes, Names
  <2>. QED  BY <2>1, <2>2, <2>4, <2>5 DEF InfoInv
<1>7. CASE Reloads
  <2>1. /\ clientState' = NowJoining /\ UNCHANGED clientName /\ needsUpdate' = FALSE
        /\ cache' = [t \in InfoTypes |-> [b \in BOOLEAN |-> CacheServerInfo(t, b)']]
    BY <1>7 DEF Reloads
  <2>2. SlotTypes'
    BY <1>0, <2>1 DEF SlotTypes, Names, NowJoining
  <2>3. CacheHolds'
    BY CacheAlwaysHolds, PTL
  <2>4. (cache = [t \in InfoTypes |-> [b \in BOOLEAN |-> CacheServerInfo(t, b)]])'
    BY <2>1
  <2>5. /\ (cache \in InfoCaches)' /\ Whole(cache)'
        /\ (\E g : Shows(ClientsOf(cache["extended"][TRUE]), g))'
    BY <2>2, <2>3, <2>4 DEF CacheHolds
  <2>. QED  BY <2>1, <2>2, <2>5 DEF InfoInv
<1>8. CASE UNCHANGED <<clientState, clientName, needsUpdate, cache>>
  <2>1. SlotTypes'
    BY <1>0, <1>8 DEF SlotTypes, Names
  <2>. QED  BY <1>0, <1>8, <2>1, StillShown
<1>9. Request => UNCHANGED <<clientState, clientName, needsUpdate, cache>>
  BY DEF Request
<1>10. ClockTicks => UNCHANGED <<clientState, clientName, needsUpdate, cache>>
  BY DEF ClockTicks
<1>. QED  BY <1>1, <1>2, <1>3, <1>4, <1>5, <1>6, <1>7, <1>8, <1>9, <1>10
          DEF ServerInfoNext, serverInfoVars

LEMMA InfoInvGives == InfoInv => ServerInfoIsWhole
<1>. SUFFICES ASSUME InfoInv PROVE ServerInfoIsWhole
  OBVIOUS
<1>1. ChunksAreWhole
  BY DEF InfoInv, Whole, ChunksAreWhole
<1>2. InfoIsCurrent
  <2>. DEFINE shown == ClientsOf(cache["extended"][TRUE])
              S(n) == {k \in DOMAIN shown : shown[k] = n}
              T(n) == {i \in Slots : clientState[i] = "ingame" /\ clientName[i] = n}
  <2>1. SUFFICES ASSUME ~needsUpdate, NEW n \in Names \ {NoName}
                 PROVE  Cardinality(S(n)) = Cardinality(T(n))
    BY DEF InfoIsCurrent
  <2>2. PICK g : Shows(shown, g)
    BY <2>1 DEF InfoInv
  <2>3. shown \in Seq(Names)
    <3>1. cache["extended"][TRUE] \in Seq(Piece)
      BY DEF InfoInv, InfoCaches, InfoTypes
    <3>2. [number |-> 0, prefix |-> TRUE, clients |-> <<>>, size |-> 0] \in Piece
      BY DEF Piece
    <3>. QED  BY <3>1, <3>2, ClientsOfOneMore
  <2>4. /\ g \in [Named(shown) -> Slots]
        /\ \A j, k \in Named(shown) : g[j] = g[k] => j = k
        /\ \A k \in Named(shown) : clientState[g[k]] = "ingame" /\ shown[k] = clientName[g[k]]
        /\ \A i \in Slots : clientState[i] = "ingame" /\ clientName[i] # NoName
                              => \E k \in Named(shown) : g[k] = i
    BY <2>2 DEF Shows
  <2>. DEFINE S0 == S(n)
              T0 == T(n)
              h == [k \in S0 |-> g[k]]
  <2>. HIDE DEF shown
  <2>5. DOMAIN shown = 1 .. Len(shown) /\ Len(shown) \in Nat
    BY <2>3
  <2>6. \A k : k \in S0 <=> k \in Named(shown) /\ shown[k] = n
    BY <2>5 DEF Named
  <2>7. \A i : i \in T0 <=> i \in Slots /\ clientState[i] = "ingame" /\ clientName[i] = n
    OBVIOUS
  <2>8. S0 \subseteq 1 .. Len(shown)
    BY <2>5
  <2>9. h = [k \in S0 |-> h[k]] /\ \A k \in S0 : h[k] = g[k]
    OBVIOUS
  <2>. HIDE DEF S0, T0, h
  <2>10. \A k \in S0 : h[k] \in T0
    BY <2>4, <2>6, <2>7, <2>9
  <2>11. h \in [S0 -> T0]
    BY <2>9, <2>10
  <2>12. h \in Bijection(S0, T0)
    <3>1. IsInjective(h)
      BY <2>4, <2>6, <2>9, <2>11 DEF IsInjective
    <3>2. \A i \in T0 : \E k \in S0 : h[k] = i
      BY <2>1, <2>4, <2>6, <2>7, <2>9
    <3>. QED  BY <2>11, <3>1, <3>2 DEF Bijection, Injection, Surjection
  <2>13. IsFiniteSet(S0)
    <3>1. IsFiniteSet(1 .. Len(shown))
      BY <2>5, OneToN
    <3>. QED  BY <2>8, <3>1, FS_Subset
  <2>14. ExistsBijection(S0, T0)
    BY <2>12 DEF ExistsBijection
  <2>15. Cardinality(S0) = Cardinality(T0)
    BY <2>13, <2>14, FS_Bijection
  <2>. QED  BY <2>15 DEF S0, T0
<1>. QED  BY <1>1, <1>2 DEF ServerInfoIsWhole

\* The information that a browser gets is cut into whole chunks and shows, while no update
\* is due, each name as often as a client in the game has it, over joining, leaving,
\* renaming and new maps, for every number of slots and of clients that a chunk has room
\* for (CacheServerInfo, ExpireServerInfo, the reload in the main loop).
THEOREM InfoIsAlwaysWhole == ServerInfoSpec => []InfoIsWhole
<1>1. InfoInv => InfoIsWhole
  BY InfoInvGives DEF InfoIsWhole
<1>. QED  BY InfoBegins, InfoStep, <1>1, PTL DEF ServerInfoSpec
===============================================================================
