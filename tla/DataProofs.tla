------------------------------ MODULE DataProofs ------------------------------
(***************************************************************************)
(* Theorems about what is stored or packed and read again.                 *)
(*                                                                         *)
(* The resend buffer (RingBuffer), for every size of the memory, of the    *)
(* items and set of values: its blocks fill the memory and no item is lost *)
(* or out of reach, and what the owner sees is the FIFO queue of module    *)
(* Fifo, step by step.  First what MergeBack, Split, Take and Advance do   *)
(* to the blocks, then to the queue of items; then that First and Next     *)
(* find this queue; and last the invariant and the theorems.               *)
(*                                                                         *)
(* Then the differences of snapshots (SnapshotDelta) and the responses to  *)
(* HTTP requests (HttpRequest): they give back what went into them.        *)
(*                                                                         *)
(* Last the map that is generated and stored (MapGen), for any size, any   *)
(* noise and any rules: it has one area of air, and its layers agree.      *)
(***************************************************************************)
EXTENDS RingBuffer, SnapshotDelta, HttpRequest, MapGen, Lemmas

-----------------------------------------------------------------------------
(* The resend buffer.                                                       *)

\* A record of the four fields, with a function in the first.
IsRing(r) ==
  /\ r = [mem |-> r.mem, produce |-> r.produce, consume |-> r.consume, last |-> r.last]
  /\ r.mem = [o \in DOMAIN r.mem |-> r.mem[o]]

\* Block o ends where the next one begins, or the memory does; next and prev
\* agree; what is free holds nothing.
Fits(r, o) ==
  LET b == r.mem[o]
  IN  /\ o + b.size <= Size
      /\ b.next = Null <=> o + b.size = Size
      /\ b.next # Null => /\ b.next \in DOMAIN r.mem
                          /\ b.next = o + b.size
                          /\ r.mem[b.next].prev = o
      /\ b.prev = Null <=> o = First
      /\ b.prev # Null => b.prev \in DOMAIN r.mem /\ r.mem[b.prev].next = o
      /\ IF b.free THEN b.value = Null ELSE b.value \in Values

\* The blocks fill the memory.
Tiled(r) ==
  /\ IsRing(r)
  /\ DOMAIN r.mem \subseteq Offset
  /\ {First, r.produce, r.consume, r.last} \subseteq DOMAIN r.mem
  /\ \A o \in DOMAIN r.mem : r.mem[o] \in Block /\ Fits(r, o)
  /\ \A o, x \in DOMAIN r.mem : o < x => o + r.mem[o].size <= x
  /\ \A o \in DOMAIN r.mem : o = r.last <=> r.mem[o].next = Null

\* The item behind that in x: in the next block or, when the last block was too
\* small for it, in the first one.
Follows(r, x, y) ==
  \/ y = NextBlock(r, x)
  \/ NextBlock(r, x) = r.last /\ r.mem[r.last].free /\ r.last # r.produce /\ y = First

(***************************************************************************)
(* s is the queue of items, the oldest first: consume is the first of      *)
(* them and produce the block behind the last.  No two blocks that are     *)
(* free lie side by side, and only three can be free: produce, the last    *)
(* one, and the first one when produce is the last.                        *)
(***************************************************************************)
Queued(r, s) ==
  /\ s \in Seq(DOMAIN r.mem) /\ s # <<>>
  /\ \A i, j \in 1 .. Len(s) : s[i] = s[j] => i = j
  /\ \A o \in DOMAIN r.mem : ~r.mem[o].free <=> \E i \in 1 .. Len(s) : s[i] = o
  /\ s[1] = r.consume
  /\ r.produce = NextBlock(r, s[Len(s)])
  /\ \A i \in 1 .. Len(s) - 1 : Follows(r, s[i], s[i + 1])
  /\ \A o \in DOMAIN r.mem :
       r.mem[o].free /\ r.mem[o].next # Null => ~r.mem[r.mem[o].next].free
  /\ \/ r.produce = r.consume
     \/ /\ r.mem[r.produce].free
        /\ \/ NextBlock(r, r.produce) = r.consume
           \/ /\ r.produce = r.last
              /\ r.mem[First].free
              /\ NextBlock(r, First) = r.consume
  /\ \A o \in DOMAIN r.mem : r.mem[o].free =>
       \/ o = r.produce
       \/ o = r.last
       \/ o = First /\ r.produce = r.last /\ r.mem[r.produce].free

\* What MergeBack(o) does when it merges: the block p before o takes its place.
Joined(r, q, o, p) ==
  /\ DOMAIN q.mem = DOMAIN r.mem \ {o}
  /\ q.mem[p].next = r.mem[o].next /\ q.mem[p].free
  /\ \A x \in DOMAIN r.mem \ {o, p} : /\ q.mem[x].next = r.mem[x].next
                                      /\ q.mem[x].free = r.mem[x].free
                                      /\ q.mem[x].value = r.mem[x].value
  /\ q.produce = MovedTo(r.produce, o, p)
  /\ q.consume = MovedTo(r.consume, o, p)
  /\ q.last = IF r.mem[o].next = Null THEN p ELSE r.last

\* The types of what a block holds.
LEMMA BlockFacts ==
  ASSUME NEW r, Tiled(r), NEW o \in DOMAIN r.mem
  PROVE  /\ o \in Offset /\ o \in Int /\ 0 <= o /\ o < Size
         /\ r.mem[o].size \in Int /\ 1 <= r.mem[o].size
         /\ r.mem[o].free \in BOOLEAN
         /\ r.mem[o].prev \in Offset \union {Null}
         /\ r.mem[o].next \in Offset \union {Null}
         /\ Null \notin DOMAIN r.mem
         /\ Size \in Nat
BY RingAssumption DEF Tiled, Block, Offset

\* MergeBack keeps the tiling.
LEMMA Joining ==
  ASSUME NEW r, Tiled(r), NEW o \in DOMAIN r.mem, MergesBack(r, o)
  PROVE  /\ Tiled(MergeBack(r, o))
         /\ Joined(r, MergeBack(r, o), o, r.mem[o].prev)
         /\ r.mem[o].prev \in DOMAIN r.mem \ {o}
         /\ r.mem[r.mem[o].prev].next = o
         /\ r.mem[r.mem[o].prev].free
<1>. DEFINE p == r.mem[o].prev
            n == r.mem[o].next
            q == MergeBack(r, o)
            D == DOMAIN r.mem
<1>1. /\ p # Null /\ p \in D /\ r.mem[p].next = o /\ r.mem[p].free /\ r.mem[o].free
      /\ o = p + r.mem[p].size /\ o # First /\ r.mem[o].value = Null /\ r.mem[p].value = Null
      /\ o \in Int /\ p \in Int /\ r.mem[p].size \in Int /\ 1 <= r.mem[p].size
  <2>1. p # Null /\ r.mem[p].free /\ r.mem[o].free
    BY DEF MergesBack
  <2>2. Fits(r, o)
    BY DEF Tiled
  <2>3. p \in D /\ r.mem[p].next = o
    BY <2>1, <2>2 DEF Fits
  <2>4. Fits(r, p)
    BY <2>3 DEF Tiled
  <2>5. r.mem[p].next # Null
    BY <2>3, BlockFacts
  <2>. QED  BY <2>1, <2>2, <2>3, <2>4, <2>5, BlockFacts DEF Fits
<1>2. o # p
  BY <1>1
<1>3. n # Null => n \in D /\ n = o + r.mem[o].size /\ r.mem[n].prev = o /\ n # p /\ n # o
  <2>1. Fits(r, o)
    BY DEF Tiled
  <2>2. ASSUME n # Null PROVE n \in D /\ n = o + r.mem[o].size /\ r.mem[n].prev = o
    BY <2>1, <2>2 DEF Fits
  <2>. HIDE DEF n, p
  <2>3. r.mem[o].size \in Int /\ 1 <= r.mem[o].size
    BY BlockFacts
  <2>. QED  BY <1>1, <2>2, <2>3
<1>4. q = [mem |-> [x \in D \ {o} |->
                       CASE x = p -> [r.mem[p] EXCEPT !.size = @ + r.mem[o].size,
                                                      !.next = n]
                         [] x = n -> [r.mem[n] EXCEPT !.prev = p]
                         [] OTHER -> r.mem[x]],
            produce |-> MovedTo(r.produce, o, p),
            consume |-> MovedTo(r.consume, o, p),
            last |-> IF n = Null THEN p ELSE r.last]
  BY DEF MergeBack
<1>5. /\ IsRing(q)
      /\ DOMAIN q.mem = D \ {o}
      /\ q.produce = MovedTo(r.produce, o, p)
      /\ q.consume = MovedTo(r.consume, o, p)
      /\ q.last = IF n = Null THEN p ELSE r.last
  <2>. HIDE DEF q, p, n, D
  <2>. QED  BY <1>4 DEF IsRing
<1>6. q.mem[p] = [r.mem[p] EXCEPT !.size = @ + r.mem[o].size, !.next = n]
  <2>1. p # n /\ p \in D \ {o}
    BY <1>1, <1>2, <1>3
  <2>. HIDE DEF q, p, n, D
  <2>. QED  BY <1>4, <2>1
<1>7. n # Null => q.mem[n] = [r.mem[n] EXCEPT !.prev = p]
  <2>. HIDE DEF q, p, n, D
  <2>. QED  BY <1>1, <1>3, <1>4
<1>8. \A x \in D \ {o} : x # p /\ x # n => q.mem[x] = r.mem[x]
  <2>. HIDE DEF q, p, n, D
  <2>. QED  BY <1>4
<1>9. \A x \in D : r.mem[x] \in Block
  BY DEF Tiled
<1>10. /\ q.mem[p].prev = r.mem[p].prev /\ q.mem[p].next = n /\ q.mem[p].free
       /\ q.mem[p].size = r.mem[p].size + r.mem[o].size /\ q.mem[p].value = Null
  <2>1. r.mem[p] \in Block
    BY <1>1, <1>9
  <2>. HIDE DEF q, p, n, D
  <2>. QED  BY <1>1, <1>6, <2>1 DEF Block
<1>11. n # Null => /\ q.mem[n].prev = p /\ q.mem[n].next = r.mem[n].next
                   /\ q.mem[n].free = r.mem[n].free /\ q.mem[n].size = r.mem[n].size
                   /\ q.mem[n].value = r.mem[n].value
  <2>1. n # Null => r.mem[n] \in Block
    BY <1>3, <1>9
  <2>. HIDE DEF q, p, n, D
  <2>. QED  BY <1>3, <1>7, <2>1 DEF Block
<1>12. Joined(r, q, o, p)
  <2>1. \A x \in D \ {o, p} : /\ q.mem[x].next = r.mem[x].next
                              /\ q.mem[x].free = r.mem[x].free
                              /\ q.mem[x].value = r.mem[x].value
    <3>. SUFFICES ASSUME NEW x \in D \ {o, p}
                  PROVE  /\ q.mem[x].next = r.mem[x].next
                         /\ q.mem[x].free = r.mem[x].free
                         /\ q.mem[x].value = r.mem[x].value
      OBVIOUS
    <3>1. x # Null
      BY BlockFacts
    <3>. HIDE DEF q, p, n, D
    <3>2. CASE x = n
      BY <1>11, <3>1, <3>2
    <3>3. CASE x # n
      BY <1>8, <3>3
    <3>. QED  BY <3>2, <3>3
  <2>. QED  BY <1>5, <1>10, <2>1 DEF Joined
<1>13. /\ \A x \in D : /\ x \in Offset /\ x \in Int /\ 0 <= x /\ x < Size
                       /\ r.mem[x].size \in Int /\ 1 <= r.mem[x].size
                       /\ r.mem[x].prev \in Offset \union {Null}
                       /\ r.mem[x].next \in Offset \union {Null}
       /\ Null \notin D /\ Size \in Int
  BY BlockFacts
<1>14. \A x \in D : Fits(r, x)
  BY DEF Tiled
<1>15. o + r.mem[o].size <= Size /\ (n = Null <=> o + r.mem[o].size = Size)
  BY <1>14 DEF Fits
<1>16. p + r.mem[p].size + r.mem[o].size = o + r.mem[o].size
  <2>. HIDE DEF p
  <2>. QED  BY <1>1, <1>13
<1>17. q.mem[p] \in Block
  <2>1. r.mem[p].size + r.mem[o].size \in 1 .. Size
    <3>1. r.mem[p].size \in Int /\ r.mem[o].size \in Int /\ 1 <= r.mem[p].size /\ 1 <= r.mem[o].size
          /\ p \in Int /\ 0 <= p /\ o \in Int /\ Size \in Int
      BY <1>1, <1>13
    <3>. HIDE DEF p
    <3>. QED  BY <1>15, <1>16, <3>1
  <2>2. r.mem[p] \in Block /\ n \in Offset \union {Null}
    BY <1>1, <1>9, <1>13
  <2>. HIDE DEF q, p, n, D
  <2>. QED  BY <1>6, <2>1, <2>2 DEF Block
<1>18. ASSUME NEW x \in D \ {o} PROVE q.mem[x] \in Block
  <2>1. n # Null => q.mem[n] \in Block
    <3>1. n # Null => r.mem[n] \in Block
      BY <1>3, <1>9
    <3>2. p \in Offset
      BY <1>1, <1>13
    <3>. HIDE DEF q, p, n, D
    <3>. QED  BY <1>7, <3>1, <3>2 DEF Block
  <2>2. x # Null
    BY <1>13
  <2>. HIDE DEF q, p, n, D
  <2>. QED  BY <1>8, <1>9, <1>17, <2>1, <2>2
<1>19. n # Null => r.mem[n].size = q.mem[n].size
  BY <1>11
<1>20. \A x \in D \ {o} : x # p => q.mem[x].size = r.mem[x].size
  <2>1. Null \notin D
    BY <1>13
  <2>. HIDE DEF q, p, n, D
  <2>. QED  BY <1>8, <1>11, <2>1
<1>21. ASSUME NEW x \in D \ {o} PROVE Fits(q, x)
  <2>. DEFINE b == q.mem[x]
  <2>1. CASE x = p
    <3>1. r.mem[p].prev = Null <=> p = First
      BY <1>1, <1>14 DEF Fits
    <3>2. r.mem[p].prev # Null => /\ r.mem[p].prev \in D /\ r.mem[r.mem[p].prev].next = p
      BY <1>1, <1>14 DEF Fits
    <3>3. r.mem[p].prev # Null => r.mem[p].prev \in D \ {o, p}
      <4>1. ASSUME r.mem[p].prev # Null PROVE r.mem[p].prev # o /\ r.mem[p].prev # p
        <5>. DEFINE w == r.mem[p].prev
        <5>1. w \in D /\ r.mem[w].next = p
          BY <3>2, <4>1
        <5>2. r.mem[w].next # Null
          BY <1>1, <5>1
        <5>3. r.mem[w].next = w + r.mem[w].size
          BY <1>14, <5>1, <5>2 DEF Fits
        <5>4. w \in Int /\ r.mem[w].size \in Int /\ 1 <= r.mem[w].size
          BY <1>13, <5>1
        <5>. HIDE DEF w, p
        <5>5. p = w + r.mem[w].size /\ o = p + r.mem[p].size /\ p \in Int /\ r.mem[p].size \in Int
              /\ 1 <= r.mem[p].size
          BY <1>1, <5>1, <5>3
        <5>6. w # o /\ w # p
          BY <5>4, <5>5
        <5>. QED  BY <5>6 DEF w
      <4>. QED  BY <3>2, <4>1
    <3>4. r.mem[p].prev # Null => q.mem[r.mem[p].prev].next = p
      <4>1. \A y \in D \ {o, p} : q.mem[y].next = r.mem[y].next
        BY <1>12 DEF Joined
      <4>. HIDE DEF q, p, D
      <4>. QED  BY <3>2, <3>3, <4>1
    <3>5. /\ p + q.mem[p].size <= Size
          /\ n = Null <=> p + q.mem[p].size = Size
          /\ n # Null => n = p + q.mem[p].size
      <4>1. r.mem[p].size \in Int /\ r.mem[o].size \in Int /\ o \in Int /\ p \in Int
        BY <1>1, <1>13
      <4>2. n # Null => n = o + r.mem[o].size
        BY <1>3
      <4>. HIDE DEF q, p, n
      <4>3. p + q.mem[p].size = o + r.mem[o].size
        BY <1>10, <1>16, <4>1
      <4>. QED  BY <1>15, <4>2, <4>3
    <3>6. n # Null => n \in D \ {o} /\ q.mem[n].prev = p
      BY <1>3, <1>11
    <3>7. DOMAIN q.mem = D \ {o}
      BY <1>5
    <3>. HIDE DEF q, p, n, D
    <3>. QED  BY <1>10, <2>1, <3>1, <3>2, <3>3, <3>4, <3>5, <3>6, <3>7 DEF Fits
  <2>2. CASE x # p
    <3>1. /\ b.next = r.mem[x].next /\ b.free = r.mem[x].free /\ b.value = r.mem[x].value
          /\ b.size = r.mem[x].size
      BY <1>12, <1>20, <2>2 DEF Joined
    <3>2. Fits(r, x)
      BY <1>14
    <3>3. r.mem[x].next # Null => r.mem[x].next \in D \ {o} /\ q.mem[r.mem[x].next].prev = x
      <4>. SUFFICES ASSUME r.mem[x].next # Null
                    PROVE  r.mem[x].next \in D \ {o} /\ q.mem[r.mem[x].next].prev = x
        OBVIOUS
      <4>. DEFINE y == r.mem[x].next
      <4>1. y \in D /\ r.mem[y].prev = x
        BY <3>2 DEF Fits
      <4>2. y # o
        BY <2>2, <4>1
      <4>3. y # n
        <5>1. n # Null => r.mem[n].prev = o
          BY <1>3
        <5>2. y # Null
          BY <1>13, <4>1
        <5>. HIDE DEF q, p, n, D, y
        <5>. QED  BY <4>1, <5>1, <5>2
      <4>4. CASE y = p
        BY <1>10, <4>1, <4>2, <4>4
      <4>5. CASE y # p
        <5>1. q.mem[y] = r.mem[y]
          BY <1>8, <4>1, <4>2, <4>3, <4>5
        <5>. QED  BY <4>1, <4>2, <5>1
      <4>. QED  BY <4>4, <4>5
    <3>4. /\ b.prev = Null <=> x = First
          /\ b.prev # Null => b.prev \in D \ {o} /\ q.mem[b.prev].next = x
      <4>1. CASE x = n
        <5>1. n # Null /\ n \in D
          BY <1>13, <4>1
        <5>2. b.prev = p
          BY <1>11, <4>1, <5>1
        <5>3. r.mem[n].prev # Null
          BY <1>1, <1>3, <1>13, <5>1
        <5>4. x # First
          BY <3>2, <4>1, <5>3 DEF Fits
        <5>5. p # Null /\ p \in D \ {o} /\ q.mem[p].next = n
          BY <1>1, <1>2, <1>10
        <5>. HIDE DEF q, p, n, D, b
        <5>. QED  BY <4>1, <5>2, <5>4, <5>5
      <4>2. CASE x # n
        <5>1. b.prev = r.mem[x].prev
          BY <1>8, <2>2, <4>2
        <5>2. /\ r.mem[x].prev = Null <=> x = First
              /\ r.mem[x].prev # Null => r.mem[x].prev \in D /\ r.mem[r.mem[x].prev].next = x
          BY <3>2 DEF Fits
        <5>3. r.mem[x].prev # Null => r.mem[x].prev # o /\ r.mem[x].prev # p
          BY <1>1, <4>2, <5>2
        <5>4. \A y \in D \ {o, p} : q.mem[y].next = r.mem[y].next
          BY <1>12 DEF Joined
        <5>. HIDE DEF q, p, n, D, b
        <5>. QED  BY <5>1, <5>2, <5>3, <5>4
      <4>. QED  BY <4>1, <4>2
    <3>5. DOMAIN q.mem = D \ {o}
      BY <1>5
    <3>6. /\ x + r.mem[x].size <= Size
          /\ r.mem[x].next = Null <=> x + r.mem[x].size = Size
          /\ r.mem[x].next # Null => r.mem[x].next = x + r.mem[x].size
          /\ IF r.mem[x].free THEN r.mem[x].value = Null ELSE r.mem[x].value \in Values
      BY <3>2 DEF Fits
    <3>. HIDE DEF q, p, n, D
    <3>. QED  BY <3>1, <3>3, <3>4, <3>5, <3>6 DEF Fits
  <2>. QED  BY <2>1, <2>2
<1>22. ASSUME NEW x \in D \ {o}, NEW y \in D \ {o}, x < y PROVE x + q.mem[x].size <= y
  <2>1. \A a, c \in D : a < c => a + r.mem[a].size <= c
    BY DEF Tiled
  <2>2. x \in Int /\ y \in Int /\ o \in Int /\ p \in Int /\ p \in D
    BY <1>1, <1>13
  <2>3. CASE x = p
    <3>1. p + r.mem[p].size <= y
      BY <2>1, <2>3, <1>22, <1>1
    <3>2. o < y
      <4>. HIDE DEF p
      <4>. QED  BY <1>1, <2>2, <3>1
    <3>3. o + r.mem[o].size <= y
      BY <2>1, <3>2
    <3>4. q.mem[p].size = r.mem[p].size + r.mem[o].size
      BY <1>10
    <3>5. r.mem[p].size \in Int /\ r.mem[o].size \in Int
      BY <1>1, <1>13
    <3>. HIDE DEF q, p, n, D
    <3>. QED  BY <1>16, <2>2, <2>3, <3>3, <3>4, <3>5
  <2>4. CASE x # p
    BY <1>20, <1>22, <2>1, <2>4
  <2>. QED  BY <2>3, <2>4
<1>23. {First, q.produce, q.consume, q.last} \subseteq D \ {o}
  <2>1. {First, r.produce, r.consume, r.last} \subseteq D
    BY DEF Tiled
  <2>2. p \in D \ {o}
    BY <1>1, <1>2
  <2>3. r.mem[o].next # Null => r.last # o
    BY DEF Tiled
  <2>. HIDE DEF q, p, D
  <2>. QED  BY <1>1, <1>5, <2>1, <2>2, <2>3 DEF MovedTo
<1>24. ASSUME NEW x \in D \ {o} PROVE x = q.last <=> q.mem[x].next = Null
  <2>1. \A y \in D : y = r.last <=> r.mem[y].next = Null
    BY DEF Tiled
  <2>2. CASE x = p
    <3>1. r.mem[p].next # Null
      BY <1>1, <1>13
    <3>. HIDE DEF q, p, D
    <3>. QED  BY <1>1, <1>5, <1>10, <2>1, <2>2, <3>1
  <2>3. CASE x # p
    <3>1. q.mem[x].next = r.mem[x].next
      BY <1>12, <2>3 DEF Joined
    <3>2. n = Null => r.last = o
      BY <2>1
    <3>. HIDE DEF q, p, D
    <3>. QED  BY <1>5, <2>1, <2>3, <3>1, <3>2
  <2>. QED  BY <2>2, <2>3
<1>25. Tiled(q)
  <2>1. DOMAIN q.mem = D \ {o} /\ D \subseteq Offset
    BY <1>5 DEF Tiled
  <2>2. IsRing(q)
    BY <1>5
  <2>. HIDE DEF q, p, n, D
  <2>. QED  BY <1>18, <1>21, <1>22, <1>23, <1>24, <2>1, <2>2 DEF Tiled
<1>. QED  BY <1>1, <1>2, <1>12, <1>25

\* Pointers that move and blocks that are taken or freed leave the tiling as it is.
LEMMA Marking ==
  ASSUME NEW r, Tiled(r), NEW q,
         IsRing(q),
         DOMAIN q.mem = DOMAIN r.mem,
         \A x \in DOMAIN r.mem : /\ q.mem[x] \in Block
                                 /\ q.mem[x].prev = r.mem[x].prev
                                 /\ q.mem[x].next = r.mem[x].next
                                 /\ q.mem[x].size = r.mem[x].size
                                 /\ IF q.mem[x].free THEN q.mem[x].value = Null
                                                     ELSE q.mem[x].value \in Values,
         q.produce \in DOMAIN r.mem, q.consume \in DOMAIN r.mem, q.last = r.last
  PROVE  Tiled(q)
<1>. DEFINE D == DOMAIN r.mem
<1>1. /\ IsRing(q)
      /\ DOMAIN q.mem = D
      /\ q.produce \in D /\ q.consume \in D /\ q.last = r.last
  OBVIOUS
<1>2. \A x \in D : /\ q.mem[x] \in Block
                   /\ q.mem[x].prev = r.mem[x].prev
                   /\ q.mem[x].next = r.mem[x].next
                   /\ q.mem[x].size = r.mem[x].size
                   /\ IF q.mem[x].free THEN q.mem[x].value = Null
                                       ELSE q.mem[x].value \in Values
  OBVIOUS
<1>3. /\ D \subseteq Offset /\ {First, r.last} \subseteq D
      /\ \A o \in D : Fits(r, o)
      /\ \A o, x \in D : o < x => o + r.mem[o].size <= x
      /\ \A o \in D : o = r.last <=> r.mem[o].next = Null
  BY DEF Tiled
<1>4. ASSUME NEW o \in D PROVE Fits(q, o)
  <2>1. /\ r.mem[o].next # Null => r.mem[o].next \in D
        /\ r.mem[o].prev # Null => r.mem[o].prev \in D
    BY <1>3 DEF Fits
  <2>2. /\ r.mem[o].next # Null => q.mem[r.mem[o].next].prev = r.mem[r.mem[o].next].prev
        /\ r.mem[o].prev # Null => q.mem[r.mem[o].prev].next = r.mem[r.mem[o].prev].next
    BY <1>2, <2>1
  <2>3. Fits(r, o)
    BY <1>3
  <2>4. /\ q.mem[o].prev = r.mem[o].prev
        /\ q.mem[o].next = r.mem[o].next
        /\ q.mem[o].size = r.mem[o].size
        /\ IF q.mem[o].free THEN q.mem[o].value = Null ELSE q.mem[o].value \in Values
    BY <1>2
  <2>. QED  BY <1>1, <2>1, <2>2, <2>3, <2>4 DEF Fits
<1>5. \A o, x \in D : o < x => o + q.mem[o].size <= x
  BY <1>2, <1>3
<1>6. \A o \in D : o = q.last <=> q.mem[o].next = Null
  BY <1>1, <1>2, <1>3
<1>. HIDE DEF D
<1>. QED  BY <1>1, <1>2, <1>3, <1>4, <1>5, <1>6 DEF Tiled

\* What Split(o) does when it cuts: the block new behind o is free.
Cut(r, q, o, new) ==
  /\ DOMAIN q.mem = DOMAIN r.mem \union {new}
  /\ q.mem[o].next = new /\ q.mem[o].free
  /\ q.mem[new].next = r.mem[o].next /\ q.mem[new].free
  /\ \A x \in DOMAIN r.mem \ {o} : /\ q.mem[x].next = r.mem[x].next
                                   /\ q.mem[x].free = r.mem[x].free
                                   /\ q.mem[x].value = r.mem[x].value
  /\ q.produce = r.produce /\ q.consume = r.consume
  /\ q.last = IF r.mem[o].next = Null THEN new ELSE r.last

\* Split keeps the tiling.
LEMMA Cutting ==
  ASSUME NEW r, Tiled(r), NEW o \in DOMAIN r.mem, r.mem[o].free,
         NEW wanted \in Nat \ {0}, ~(r.mem[o].size <= wanted + 1)
  PROVE  /\ Tiled(Split(r, o, wanted))
         /\ Cut(r, Split(r, o, wanted), o, o + wanted)
         /\ o + wanted \notin DOMAIN r.mem
<1>. DEFINE new == o + wanted
            n == r.mem[o].next
            q == Split(r, o, wanted)
            D == DOMAIN r.mem
<1>1. /\ \A x \in D : /\ x \in Offset /\ x \in Int /\ 0 <= x /\ x < Size
                      /\ r.mem[x].size \in Int /\ 1 <= r.mem[x].size
                      /\ r.mem[x].prev \in Offset \union {Null}
                      /\ r.mem[x].next \in Offset \union {Null}
      /\ Null \notin D /\ Size \in Int
  BY BlockFacts
<1>2. \A x \in D : Fits(r, x)
  BY DEF Tiled
<1>3. \A a, c \in D : a < c => a + r.mem[a].size <= c
  BY DEF Tiled
<1>4. \A x \in D : r.mem[x] \in Block
  BY DEF Tiled
<1>5. /\ o + r.mem[o].size <= Size /\ (n = Null <=> o + r.mem[o].size = Size)
      /\ n # Null => n \in D /\ n = o + r.mem[o].size /\ r.mem[n].prev = o
  BY <1>2 DEF Fits
<1>6. /\ o < new /\ new < o + r.mem[o].size /\ new \in Int /\ o \in Int
      /\ r.mem[o].size - wanted \in 1 .. Size /\ wanted \in 1 .. Size
      /\ r.mem[o].size \in Int
      /\ new + (r.mem[o].size - wanted) = o + r.mem[o].size
      /\ new \in Offset /\ new # Null
  <2>1. r.mem[o].size \in Int /\ o \in Int /\ 0 <= o /\ wanted \in Int /\ 1 <= wanted /\ Size \in Int
    BY <1>1
  <2>2. /\ o < new /\ new < o + r.mem[o].size /\ new \in Int
        /\ r.mem[o].size - wanted \in 1 .. Size /\ wanted \in 1 .. Size
        /\ new + (r.mem[o].size - wanted) = o + r.mem[o].size
        /\ new \in Offset
    BY <1>5, <2>1 DEF Offset
  <2>3. \A x \in Offset : x # Null
    BY RingAssumption DEF Offset
  <2>. QED  BY <2>1, <2>2, <2>3
<1>7. new \notin D
  <2>. SUFFICES ASSUME new \in D PROVE FALSE
    OBVIOUS
  <2>1. o + r.mem[o].size <= new
    BY <1>3, <1>6
  <2>. QED  BY <1>1, <1>6, <2>1
<1>8. n # o /\ n # new
  <2>1. n # Null => n # o
    BY <1>1, <1>5
  <2>. HIDE DEF new
  <2>. QED  BY <1>1, <1>5, <1>6, <1>7, <2>1
<1>9. q = [r EXCEPT
              !.mem = [x \in D \union {new} |->
                 CASE x = o -> [r.mem[o] EXCEPT !.size = wanted, !.next = new]
                   [] x = new -> [prev |-> o, next |-> n, free |-> TRUE,
                                  size |-> r.mem[o].size - wanted, value |-> Null]
                   [] x = n -> [r.mem[n] EXCEPT !.prev = new]
                   [] OTHER -> r.mem[x]],
              !.last = IF n = Null THEN new ELSE @]
  BY DEF Split
<1>10. IsRing(r)
  BY DEF Tiled
<1>11. PICK m : m = [x \in D \union {new} |->
                 CASE x = o -> [r.mem[o] EXCEPT !.size = wanted, !.next = new]
                   [] x = new -> [prev |-> o, next |-> n, free |-> TRUE,
                                  size |-> r.mem[o].size - wanted, value |-> Null]
                   [] x = n -> [r.mem[n] EXCEPT !.prev = new]
                   [] OTHER -> r.mem[x]]
  OBVIOUS
<1>12. /\ IsRing(q)
       /\ DOMAIN q.mem = D \union {new} /\ q.mem = m
       /\ q.produce = r.produce /\ q.consume = r.consume
       /\ q.last = IF n = Null THEN new ELSE r.last
  <2>1. q = [r EXCEPT !.mem = m, !.last = IF n = Null THEN new ELSE @]
    BY <1>9, <1>11
  <2>. HIDE DEF q, new, n, D
  <2>2. m = [x \in D \union {new} |-> m[x]]
    BY <1>11
  <2>. QED  BY <1>10, <2>1, <2>2 DEF IsRing
<1>13. /\ q.mem[o] = [r.mem[o] EXCEPT !.size = wanted, !.next = new]
       /\ q.mem[new] = [prev |-> o, next |-> n, free |-> TRUE,
                        size |-> r.mem[o].size - wanted, value |-> Null]
       /\ n # Null => q.mem[n] = [r.mem[n] EXCEPT !.prev = new]
       /\ \A x \in D : x # o /\ x # n => q.mem[x] = r.mem[x]
  <2>1. o \in D /\ o # new
    BY <1>7
  <2>2. n # Null => n \in D
    BY <1>5
  <2>. HIDE DEF q, new, n, D
  <2>. QED  BY <1>7, <1>8, <1>11, <1>12, <2>1, <2>2
<1>14. /\ q.mem[o].prev = r.mem[o].prev /\ q.mem[o].next = new /\ q.mem[o].free
       /\ q.mem[o].size = wanted /\ q.mem[o].value = r.mem[o].value
       /\ q.mem[new].prev = o /\ q.mem[new].next = n /\ q.mem[new].free
       /\ q.mem[new].size = r.mem[o].size - wanted /\ q.mem[new].value = Null
  <2>1. r.mem[o] \in Block /\ r.mem[o].free
    BY <1>4
  <2>. HIDE DEF q, new, n, D
  <2>. QED  BY <1>13, <2>1 DEF Block
<1>15. n # Null => /\ q.mem[n].prev = new /\ q.mem[n].next = r.mem[n].next
                   /\ q.mem[n].free = r.mem[n].free /\ q.mem[n].size = r.mem[n].size
                   /\ q.mem[n].value = r.mem[n].value
  <2>1. n # Null => r.mem[n] \in Block
    BY <1>4, <1>5
  <2>. HIDE DEF q, new, n, D
  <2>. QED  BY <1>13, <2>1 DEF Block
<1>16. ASSUME NEW x \in D \union {new} PROVE q.mem[x] \in Block
  <2>1. r.mem[o] \in Block /\ o \in Offset /\ n \in Offset \union {Null}
    BY <1>1, <1>4
  <2>2. q.mem[o] \in Block
    <3>1. new \in Offset /\ wanted \in 1 .. Size
      BY <1>6
    <3>2. q.mem[o] = [r.mem[o] EXCEPT !.size = wanted, !.next = new]
      BY <1>13
    <3>. HIDE DEF q, new, n, D
    <3>. QED  BY <2>1, <3>1, <3>2 DEF Block
  <2>3. q.mem[new] \in Block
    <3>1. PICK rest : rest = r.mem[o].size - wanted
      OBVIOUS
    <3>2. rest \in 1 .. Size /\ o \in Offset
      BY <1>6, <2>1, <3>1
    <3>3. q.mem[new] = [prev |-> o, next |-> n, free |-> TRUE, size |-> rest, value |-> Null]
      BY <1>13, <3>1
    <3>. HIDE DEF q, new, n, D
    <3>. QED  BY <2>1, <3>2, <3>3 DEF Block
  <2>4. n # Null => q.mem[n] \in Block
    <3>1. n # Null => r.mem[n] \in Block
      BY <1>4, <1>5
    <3>2. new \in Offset
      BY <1>6
    <3>3. n # Null => q.mem[n] = [r.mem[n] EXCEPT !.prev = new]
      BY <1>13
    <3>. HIDE DEF q, new, n, D
    <3>. QED  BY <3>1, <3>2, <3>3 DEF Block
  <2>5. x # Null
    BY <1>1, <1>6
  <2>. HIDE DEF q, new, n, D
  <2>. QED  BY <1>4, <1>13, <2>2, <2>3, <2>4, <2>5
<1>17. \A x \in D \ {o} : /\ q.mem[x].next = r.mem[x].next
                          /\ q.mem[x].free = r.mem[x].free
                          /\ q.mem[x].value = r.mem[x].value
                          /\ q.mem[x].size = r.mem[x].size
  <2>1. Null \notin D
    BY <1>1
  <2>. HIDE DEF q, new, n, D
  <2>. QED  BY <1>13, <1>15, <2>1
<1>18. Cut(r, q, o, new)
  BY <1>12, <1>14, <1>17 DEF Cut
<1>19. ASSUME NEW x \in D \union {new} PROVE Fits(q, x)
  <2>1. DOMAIN q.mem = D \union {new}
    BY <1>12
  <2>2. CASE x = o
    <3>1. /\ r.mem[o].prev = Null <=> o = First
          /\ r.mem[o].prev # Null => r.mem[o].prev \in D /\ r.mem[r.mem[o].prev].next = o
      BY <1>2 DEF Fits
    <3>2. r.mem[o].prev # Null => q.mem[r.mem[o].prev].next = o
      <4>1. r.mem[o].prev # Null => r.mem[o].prev # o
        BY <1>8, <3>1
      <4>. QED  BY <1>17, <3>1, <4>1
    <3>3. r.mem[o].value = Null
      BY <1>2 DEF Fits
    <3>4. o + wanted <= Size /\ o + wanted # Size
      BY <1>1, <1>5, <1>6
    <3>. HIDE DEF q, n, D
    <3>. QED  BY <1>6, <1>14, <2>1, <2>2, <3>1, <3>2, <3>3, <3>4 DEF Fits
  <2>3. CASE x = new
    <3>1. n # Null => n \in D /\ q.mem[n].prev = new
      BY <1>5, <1>15
    <3>2. new # First /\ o # Null
      BY <1>1, <1>6 DEF First
    <3>3. PICK rest : rest = r.mem[o].size - wanted
      OBVIOUS
    <3>4. q.mem[new].size = rest /\ rest \in Int /\ new + rest = o + r.mem[o].size
      BY <1>6, <1>14, <3>3
    <3>5. /\ new + rest <= Size
          /\ n = Null <=> new + rest = Size
          /\ n # Null => n = new + rest
      BY <1>5, <3>4
    <3>6. /\ q.mem[new].prev = o /\ q.mem[new].next = n /\ q.mem[new].free
          /\ q.mem[new].value = Null /\ q.mem[o].next = new /\ o \in D \union {new}
      BY <1>14
    <3>. HIDE DEF q, n, D, new
    <3>. QED  BY <2>1, <2>3, <3>1, <3>2, <3>4, <3>5, <3>6 DEF Fits
  <2>4. CASE x \in D /\ x # o
    <3>1. Fits(r, x)
      BY <1>2, <2>4
    <3>2. /\ q.mem[x].next = r.mem[x].next /\ q.mem[x].free = r.mem[x].free
          /\ q.mem[x].value = r.mem[x].value /\ q.mem[x].size = r.mem[x].size
      BY <1>17, <2>4
    <3>3. r.mem[x].next # Null => r.mem[x].next \in D /\ q.mem[r.mem[x].next].prev = x
      <4>. SUFFICES ASSUME r.mem[x].next # Null
                    PROVE  r.mem[x].next \in D /\ q.mem[r.mem[x].next].prev = x
        OBVIOUS
      <4>. DEFINE y == r.mem[x].next
      <4>1. y \in D /\ r.mem[y].prev = x
        BY <3>1 DEF Fits
      <4>2. y # n
        <5>. HIDE DEF y, n, D
        <5>. QED  BY <1>1, <1>5, <2>4, <4>1
      <4>3. CASE y = o
        BY <1>14, <4>1, <4>3
      <4>4. CASE y # o
        BY <1>13, <4>1, <4>2, <4>4
      <4>. QED  BY <4>1, <4>3, <4>4
    <3>4. /\ q.mem[x].prev = Null <=> x = First
          /\ q.mem[x].prev # Null => q.mem[x].prev \in D \union {new} /\ q.mem[q.mem[x].prev].next = x
      <4>1. CASE x = n
        <5>1. n # Null /\ n \in D
          BY <1>1, <2>4, <4>1
        <5>2. q.mem[x].prev = new
          BY <1>15, <4>1, <5>1
        <5>3. r.mem[x].prev # Null
          BY <1>1, <1>5, <4>1, <5>1
        <5>4. x # First
          BY <3>1, <5>3 DEF Fits
        <5>. HIDE DEF q, new, n, D
        <5>. QED  BY <1>6, <1>14, <4>1, <5>2, <5>4
      <4>2. CASE x # n
        <5>1. q.mem[x].prev = r.mem[x].prev
          BY <1>13, <2>4, <4>2
        <5>2. /\ r.mem[x].prev = Null <=> x = First
              /\ r.mem[x].prev # Null => r.mem[x].prev \in D /\ r.mem[r.mem[x].prev].next = x
          BY <3>1 DEF Fits
        <5>3. r.mem[x].prev # o
          BY <1>1, <4>2, <5>2
        <5>. HIDE DEF q, new, n, D
        <5>. QED  BY <1>17, <5>1, <5>2, <5>3
      <4>. QED  BY <4>1, <4>2
    <3>5. /\ x + r.mem[x].size <= Size
          /\ r.mem[x].next = Null <=> x + r.mem[x].size = Size
          /\ r.mem[x].next # Null => r.mem[x].next = x + r.mem[x].size
          /\ IF r.mem[x].free THEN r.mem[x].value = Null ELSE r.mem[x].value \in Values
      BY <3>1 DEF Fits
    <3>. HIDE DEF q, n, D, new
    <3>. QED  BY <2>1, <3>2, <3>3, <3>4, <3>5 DEF Fits
  <2>. QED  BY <2>2, <2>3, <2>4
<1>20. ASSUME NEW x \in D \union {new}, NEW y \in D \union {new}, x < y
       PROVE  x + q.mem[x].size <= y
  <2>1. \A a \in D : a \in Int /\ r.mem[a].size \in Int /\ 1 <= r.mem[a].size
    BY <1>1
  <2>2. o \in D /\ wanted \in Int /\ 1 <= wanted
    OBVIOUS
  <2>3. CASE x \in D /\ x # o /\ y \in D
    BY <1>3, <1>17, <1>20, <2>3
  <2>4. CASE x \in D /\ x # o /\ y = new
    <3>1. x < o
      <4>. SUFFICES ASSUME ~(x < o) PROVE FALSE
        OBVIOUS
      <4>1. o < x
        BY <2>1, <2>4
      <4>2. o + r.mem[o].size <= x
        BY <1>3, <2>4, <4>1
      <4>. HIDE DEF new
      <4>. QED  BY <1>6, <1>20, <2>1, <2>2, <2>4, <4>2
    <3>2. x + r.mem[x].size <= o
      BY <1>3, <2>4, <3>1
    <3>3. q.mem[x].size = r.mem[x].size
      BY <1>17, <2>4
    <3>4. x \in Int /\ r.mem[x].size \in Int
      BY <2>1, <2>4
    <3>. HIDE DEF new, q
    <3>. QED  BY <1>6, <2>2, <2>4, <3>2, <3>3, <3>4
  <2>5. CASE x = o /\ y \in D
    <3>1. o + r.mem[o].size <= y
      BY <1>3, <1>20, <2>5
    <3>2. q.mem[x].size = wanted
      BY <1>14, <2>5
    <3>. HIDE DEF q
    <3>. QED  BY <1>6, <2>1, <2>2, <2>5, <3>1, <3>2
  <2>6. CASE x = o /\ y = new
    BY <1>14, <2>6, <1>6
  <2>7. CASE x = new /\ y \in D
    <3>1. o < y
      <4>. HIDE DEF new
      <4>. QED  BY <1>6, <1>20, <2>1, <2>2, <2>7
    <3>2. o + r.mem[o].size <= y
      BY <1>3, <2>7, <3>1
    <3>3. q.mem[x].size = r.mem[o].size - wanted
      BY <1>14, <2>7
    <3>. HIDE DEF new, q
    <3>. QED  BY <1>6, <2>1, <2>2, <2>7, <3>2, <3>3
  <2>8. ~(x = new /\ y = new)
    <3>. HIDE DEF new
    <3>. QED  BY <1>6, <1>20
  <2>. QED  BY <2>3, <2>4, <2>5, <2>6, <2>7, <2>8
<1>21. {First, q.produce, q.consume, q.last} \subseteq D \union {new}
  <2>1. {First, r.produce, r.consume, r.last} \subseteq D
    BY DEF Tiled
  <2>. HIDE DEF q, new, n, D
  <2>. QED  BY <1>12, <2>1
<1>22. ASSUME NEW x \in D \union {new} PROVE x = q.last <=> q.mem[x].next = Null
  <2>1. \A y \in D : y = r.last <=> r.mem[y].next = Null
    BY DEF Tiled
  <2>2. r.last \in D /\ o \in D
    BY DEF Tiled
  <2>. HIDE DEF q, new, D
  <2>. QED  BY <1>6, <1>7, <1>12, <1>14, <1>17, <2>1, <2>2
<1>23. Tiled(q)
  <2>1. D \subseteq Offset
    BY DEF Tiled
  <2>. HIDE DEF q, new, n, D
  <2>. QED  BY <1>6, <1>12, <1>16, <1>19, <1>20, <1>21, <1>22, <2>1 DEF Tiled
<1>. QED  BY <1>7, <1>18, <1>23

\* How the blocks of a tiling lie to each other, the last followed by the first.
Ordered(r) ==
  /\ \A x \in DOMAIN r.mem : NextBlock(r, x) \in DOMAIN r.mem
  /\ \A x, y \in DOMAIN r.mem : NextBlock(r, x) = NextBlock(r, y) => x = y
  /\ \A x \in DOMAIN r.mem : NextBlock(r, x) = IF x = r.last THEN First ELSE r.mem[x].next
  /\ \A x \in DOMAIN r.mem :
       r.mem[x].next # Null => /\ r.mem[x].next \in DOMAIN r.mem
                               /\ r.mem[x].next # First /\ r.mem[x].next # x
                               /\ r.mem[r.mem[x].next].prev = x
  /\ \A x \in DOMAIN r.mem :
       r.mem[x].prev # Null => /\ r.mem[x].prev \in DOMAIN r.mem
                               /\ r.mem[r.mem[x].prev].next = x
  /\ \A x \in DOMAIN r.mem : r.mem[x].prev = Null <=> x = First
  /\ \A x \in DOMAIN r.mem : x = r.last <=> r.mem[x].next = Null
  /\ \A x \in DOMAIN r.mem : r.mem[x].free \in BOOLEAN
  /\ {First, r.produce, r.consume, r.last} \subseteq DOMAIN r.mem
  /\ r.last = First => DOMAIN r.mem = {First}
  /\ Null \notin DOMAIN r.mem

\* Every tiling is ordered so: the arithmetic of offsets is used here once.
LEMMA Ordering ==
  ASSUME NEW r, Tiled(r)
  PROVE  Ordered(r)
<1>. DEFINE D == DOMAIN r.mem
<1>1. /\ {First, r.produce, r.consume, r.last} \subseteq D
      /\ \A x \in D : x = r.last <=> r.mem[x].next = Null
      /\ \A x, y \in D : x < y => x + r.mem[x].size <= y
      /\ \A x \in D : Fits(r, x)
  BY DEF Tiled
<1>2. /\ \A x \in D : /\ x \in Offset /\ x \in Int /\ 0 <= x /\ x < Size
                      /\ r.mem[x].size \in Int /\ 1 <= r.mem[x].size
                      /\ r.mem[x].prev \in Offset \union {Null}
                      /\ r.mem[x].next \in Offset \union {Null}
      /\ Null \notin D /\ Size \in Int
  <2>1. \A x \in D : /\ x \in Offset /\ x \in Int /\ 0 <= x /\ x < Size
                      /\ r.mem[x].size \in Int /\ 1 <= r.mem[x].size
                      /\ r.mem[x].prev \in Offset \union {Null}
                      /\ r.mem[x].next \in Offset \union {Null}
    BY BlockFacts
  <2>2. Null \notin D /\ Size \in Int
    BY RingAssumption DEF Tiled, Offset
  <2>. QED  BY <2>1, <2>2
<1>9. \A x \in D : r.mem[x].free \in BOOLEAN
  BY BlockFacts
<1>3. \A x \in D : /\ r.mem[x].prev # Null => /\ r.mem[x].prev \in D
                                             /\ r.mem[r.mem[x].prev].next = x
                   /\ r.mem[x].prev = Null <=> x = First
                   /\ x + r.mem[x].size <= Size
  BY <1>1 DEF Fits
<1>4. ASSUME NEW x \in D, r.mem[x].next # Null
      PROVE  /\ r.mem[x].next \in D
             /\ r.mem[x].next # First /\ r.mem[x].next # x
             /\ r.mem[r.mem[x].next].prev = x
  <2>1. r.mem[x].next \in D /\ r.mem[x].next = x + r.mem[x].size /\ r.mem[r.mem[x].next].prev = x
    BY <1>1, <1>4 DEF Fits
  <2>. QED  BY <1>2, <2>1 DEF First
<1>5. ASSUME NEW x \in D PROVE NextBlock(r, x) = IF x = r.last THEN First ELSE r.mem[x].next
  BY <1>1 DEF NextBlock
<1>6. ASSUME NEW x \in D PROVE NextBlock(r, x) \in D
  BY <1>1, <1>4 DEF NextBlock
<1>7. ASSUME NEW x \in D, NEW y \in D, NextBlock(r, x) = NextBlock(r, y) PROVE x = y
  <2>1. CASE r.mem[x].next = Null /\ r.mem[y].next = Null
    BY <1>1, <2>1
  <2>2. CASE r.mem[x].next # Null /\ r.mem[y].next # Null
    BY <1>4, <1>7, <2>2 DEF NextBlock
  <2>3. ~(r.mem[x].next = Null /\ r.mem[y].next # Null)
    BY <1>4, <1>7 DEF NextBlock
  <2>4. ~(r.mem[x].next # Null /\ r.mem[y].next = Null)
    BY <1>4, <1>7 DEF NextBlock
  <2>. QED  BY <2>1, <2>2, <2>3, <2>4
<1>8. r.last = First => D = {First}
  <2>. SUFFICES ASSUME r.last = First, NEW x \in D, x # First PROVE FALSE
    BY <1>1
  <2>1. First < x /\ First \in D
    BY <1>1, <1>2 DEF First
  <2>2. First + r.mem[First].size <= x /\ x < Size
    BY <1>1, <1>2, <2>1
  <2>3. r.mem[First].next = Null
    BY <1>1
  <2>4. First + r.mem[First].size = Size
    BY <1>1, <2>1, <2>3 DEF Fits
  <2>. QED  BY <1>2, <2>2, <2>4
<1>. QED  BY <1>1, <1>2, <1>3, <1>4, <1>5, <1>6, <1>7, <1>8, <1>9 DEF Ordered

-----------------------------------------------------------------------------
(***************************************************************************)
(* Allocate: the items and the block it takes.                             *)
(***************************************************************************)
Taken(r, q, o, v) ==
  /\ ~q.mem[o].free /\ q.mem[o].value = v
  /\ \A x \in DOMAIN r.mem \ {o} : /\ q.mem[x].next = r.mem[x].next
                                   /\ q.mem[x].free = r.mem[x].free
                                   /\ q.mem[x].value = r.mem[x].value
  /\ q.consume = r.consume /\ q.produce = NextBlock(q, o)
  /\ \/ /\ DOMAIN q.mem = DOMAIN r.mem
        /\ q.mem[o].next = r.mem[o].next
        /\ q.last = r.last
     \/ \E new : /\ new \notin DOMAIN r.mem
                 /\ DOMAIN q.mem = DOMAIN r.mem \union {new}
                 /\ q.mem[o].next = new
                 /\ q.mem[new].next = r.mem[o].next /\ q.mem[new].free
                 /\ q.last = IF r.mem[o].next = Null THEN new ELSE r.last

\* Split and Take, whether or not there is something to cut off.
LEMMA Taking ==
  ASSUME NEW r, Tiled(r), NEW o \in DOMAIN r.mem, r.mem[o].free,
         NEW wanted \in Nat \ {0}, NEW v \in Values
  PROVE  /\ Tiled(Take(Split(r, o, wanted), o, v))
         /\ Taken(r, Take(Split(r, o, wanted), o, v), o, v)
<1>1. PICK c : c = Split(r, o, wanted)
  OBVIOUS
<1>2. /\ Tiled(c) /\ o \in DOMAIN c.mem
      /\ c.consume = r.consume
      /\ \A x \in DOMAIN r.mem \ {o} : /\ c.mem[x].next = r.mem[x].next
                                       /\ c.mem[x].free = r.mem[x].free
                                       /\ c.mem[x].value = r.mem[x].value
      /\ \/ /\ DOMAIN c.mem = DOMAIN r.mem
            /\ c.mem[o].next = r.mem[o].next
            /\ c.last = r.last
         \/ \E new : /\ new \notin DOMAIN r.mem
                     /\ DOMAIN c.mem = DOMAIN r.mem \union {new}
                     /\ c.mem[o].next = new
                     /\ c.mem[new].next = r.mem[o].next /\ c.mem[new].free
                     /\ c.last = IF r.mem[o].next = Null THEN new ELSE r.last
  <2>1. CASE r.mem[o].size <= wanted + 1
    <3>1. c = r
      BY <1>1, <2>1 DEF Split
    <3>. QED  BY <3>1
  <2>2. CASE ~(r.mem[o].size <= wanted + 1)
    <3>1. Tiled(c) /\ Cut(r, c, o, o + wanted) /\ o + wanted \notin DOMAIN r.mem
      BY <1>1, <2>2, Cutting
    <3>2. PICK new : new = o + wanted
      OBVIOUS
    <3>3. Cut(r, c, o, new) /\ new \notin DOMAIN r.mem
      BY <3>1, <3>2
    <3>. QED  BY <3>1, <3>3 DEF Cut
  <2>. QED  BY <2>1, <2>2
<1>3. PICK q : q = Take(c, o, v)
  OBVIOUS
<1>4. /\ IsRing(c) /\ c.mem[o] \in Block
      /\ {c.produce, c.consume, c.last} \subseteq DOMAIN c.mem
      /\ \A x \in DOMAIN c.mem : c.mem[x] \in Block /\ Fits(c, x)
  BY <1>2 DEF Tiled
<1>5. q = [c EXCEPT !.produce = NextBlock(c, o), !.mem[o].free = FALSE, !.mem[o].value = v]
  BY <1>3 DEF Take
<1>6. /\ IsRing(q)
      /\ q.produce = NextBlock(c, o) /\ q.consume = c.consume /\ q.last = c.last
      /\ DOMAIN q.mem = DOMAIN c.mem
      /\ q.mem[o] = [c.mem[o] EXCEPT !.free = FALSE, !.value = v]
      /\ \A x \in DOMAIN c.mem \ {o} : q.mem[x] = c.mem[x]
  BY <1>2, <1>4, <1>5 DEF IsRing
<1>7. /\ q.mem[o].prev = c.mem[o].prev /\ q.mem[o].next = c.mem[o].next
      /\ q.mem[o].size = c.mem[o].size /\ ~q.mem[o].free /\ q.mem[o].value = v
      /\ q.mem[o] \in Block
  BY <1>4, <1>6 DEF Block
<1>8. \A x \in DOMAIN c.mem : /\ q.mem[x] \in Block
                              /\ q.mem[x].prev = c.mem[x].prev
                              /\ q.mem[x].next = c.mem[x].next
                              /\ q.mem[x].size = c.mem[x].size
                              /\ IF q.mem[x].free THEN q.mem[x].value = Null
                                                  ELSE q.mem[x].value \in Values
  <2>. SUFFICES ASSUME NEW x \in DOMAIN c.mem
                PROVE  /\ q.mem[x] \in Block
                       /\ q.mem[x].prev = c.mem[x].prev
                       /\ q.mem[x].next = c.mem[x].next
                       /\ q.mem[x].size = c.mem[x].size
                       /\ IF q.mem[x].free THEN q.mem[x].value = Null
                                           ELSE q.mem[x].value \in Values
    OBVIOUS
  <2>1. CASE x = o
    BY <1>7, <2>1
  <2>2. CASE x # o
    <3>1. q.mem[x] = c.mem[x] /\ Fits(c, x) /\ c.mem[x] \in Block
      BY <1>4, <1>6, <2>2
    <3>. QED  BY <3>1 DEF Fits
  <2>. QED  BY <2>1, <2>2
<1>9. NextBlock(c, o) \in DOMAIN c.mem
  BY <1>2, Ordering DEF Ordered
<1>10. Tiled(q)
  BY <1>2, <1>4, <1>6, <1>8, <1>9, Marking
<1>11. q.produce = NextBlock(q, o)
  BY <1>6, <1>7 DEF NextBlock
<1>12. \A x \in DOMAIN r.mem \ {o} : /\ q.mem[x].next = r.mem[x].next
                                     /\ q.mem[x].free = r.mem[x].free
                                     /\ q.mem[x].value = r.mem[x].value
  BY <1>2, <1>6
<1>13. \/ /\ DOMAIN q.mem = DOMAIN r.mem
          /\ q.mem[o].next = r.mem[o].next
          /\ q.last = r.last
       \/ \E new : /\ new \notin DOMAIN r.mem
                   /\ DOMAIN q.mem = DOMAIN r.mem \union {new}
                   /\ q.mem[o].next = new
                   /\ q.mem[new].next = r.mem[o].next /\ q.mem[new].free
                   /\ q.last = IF r.mem[o].next = Null THEN new ELSE r.last
  BY <1>2, <1>6, <1>7
<1>14. Taken(r, q, o, v)
  BY <1>2, <1>6, <1>7, <1>11, <1>12, <1>13 DEF Taken
<1>. QED  BY <1>1, <1>3, <1>10, <1>14

\* Allocate takes produce or, where produce is the last block, the first one:
\* behind the items there are, either way, is the item that is new.
LEMMA QueueGrows ==
  ASSUME NEW r, Tiled(r), NEW s, Queued(r, s), r.mem[r.produce].free,
         NEW o \in DOMAIN r.mem, r.mem[o].free, o = r.produce \/ o = First,
         NEW q, NEW v, Tiled(q), Taken(r, q, o, v)
  PROVE  Queued(q, Append(s, o))
<1>. DEFINE D == DOMAIN r.mem
            E == DOMAIN q.mem
<1>1. Ordered(r) /\ Ordered(q)
  BY Ordering
<1>2. PICK n \in Nat : n = Len(s)
  BY DEF Queued
<1>3. s \in Seq(D) /\ n >= 1 /\ DOMAIN s = 1 .. n
  BY <1>2 DEF Queued
<1>4. PICK t : t = Append(s, o)
  OBVIOUS
<1>5. /\ D \subseteq E
      /\ Len(t) = n + 1 /\ t[n + 1] = o /\ \A i \in 1 .. n : t[i] = s[i] /\ s[i] \in D
      /\ t \in Seq(E) /\ t # <<>>
  <2>1. D \subseteq E
    BY DEF Taken
  <2>. HIDE DEF D, E
  <2>2. o \in E
    BY <2>1 DEF D
  <2>3. s \in Seq(E)
    BY <1>3, <2>1
  <2>. QED  BY <1>2, <1>3, <1>4, <2>1, <2>2, <2>3
<1>6. /\ \A i, j \in 1 .. n : s[i] = s[j] => i = j
      /\ \A x \in D : ~r.mem[x].free <=> \E i \in 1 .. n : s[i] = x
      /\ s[1] = r.consume
      /\ r.produce = NextBlock(r, s[n])
      /\ \A i \in 1 .. n - 1 : Follows(r, s[i], s[i + 1])
      /\ \A x \in D : r.mem[x].free /\ r.mem[x].next # Null => ~r.mem[r.mem[x].next].free
      /\ \A x \in D : r.mem[x].free =>
           \/ x = r.produce
           \/ x = r.last
           \/ x = First /\ r.produce = r.last /\ r.mem[r.produce].free
  BY <1>2 DEF Queued
<1>7. /\ r.consume \in D /\ ~r.mem[r.consume].free /\ r.last # First
      /\ \/ NextBlock(r, r.produce) = r.consume
         \/ r.produce = r.last /\ r.mem[First].free /\ NextBlock(r, First) = r.consume
  <2>1. 1 \in 1 .. n
    BY <1>3
  <2>2. r.consume \in D /\ ~r.mem[r.consume].free
    BY <1>5, <1>6, <2>1
  <2>3. r.last # First
    BY <1>1, <2>2 DEF Ordered
  <2>. QED  BY <2>2, <2>3 DEF Queued
<1>8. o = r.produce \/ (o = First /\ r.produce = r.last /\ First # r.produce)
  BY <1>6, <1>7
<1>9. \A i \in 1 .. n : s[i] # o /\ ~r.mem[s[i]].free
  BY <1>5, <1>6
<1>10. ~q.mem[o].free /\ q.consume = r.consume /\ q.produce = NextBlock(q, o)
       /\ \A x \in D \ {o} : /\ q.mem[x].next = r.mem[x].next
                             /\ q.mem[x].free = r.mem[x].free
  BY DEF Taken
<1>11. \A x \in D \ {o} : NextBlock(q, x) = NextBlock(r, x)
  BY <1>10 DEF NextBlock
<1>12. PICK new : IF new \in D
                  THEN E = D /\ q.mem[o].next = r.mem[o].next /\ q.last = r.last
                  ELSE /\ E = D \union {new} /\ q.mem[o].next = new
                       /\ q.mem[new].next = r.mem[o].next /\ q.mem[new].free
                       /\ q.last = IF r.mem[o].next = Null THEN new ELSE r.last
  BY DEF Taken
<1>13. new \in D => q.produce = NextBlock(r, o)
  BY <1>10, <1>12 DEF NextBlock
<1>14. new \notin D => q.produce = new /\ NextBlock(q, new) = NextBlock(r, o) /\ new \in E
  <2>1. new \notin D => new \in E /\ Null \notin E
    BY <1>1, <1>12 DEF Ordered
  <2>. HIDE DEF D, E
  <2>. QED  BY <1>10, <1>12, <2>1 DEF NextBlock
<1>15. r.last # o => q.last = r.last
  BY <1>1, <1>12 DEF Ordered
<1>16. r.mem[o].next # Null => ~r.mem[r.mem[o].next].free /\ r.mem[o].next \in D /\ r.mem[o].next # o
  BY <1>1, <1>6 DEF Ordered
<1>17. \A i, j \in 1 .. n + 1 : t[i] = t[j] => i = j
  <2>1. \A i \in 1 .. n + 1 : i \in 1 .. n \/ i = n + 1
    OBVIOUS
  <2>. QED  BY <1>5, <1>6, <1>9, <2>1
<1>18. \A x \in E : ~q.mem[x].free <=> \E i \in 1 .. n + 1 : t[i] = x
  <2>1. \A i \in 1 .. n + 1 : i \in 1 .. n \/ i = n + 1
    OBVIOUS
  <2>2. \A i \in 1 .. n : i \in 1 .. n + 1
    OBVIOUS
  <2>3. n + 1 \in 1 .. n + 1
    OBVIOUS
  <2>4. ASSUME NEW x \in E PROVE ~q.mem[x].free <=> \E i \in 1 .. n + 1 : t[i] = x
    <3>1. CASE x = o
      BY <1>5, <1>10, <2>3, <3>1
    <3>2. CASE x \in D /\ x # o
      <4>1. (\E i \in 1 .. n + 1 : t[i] = x) <=> \E i \in 1 .. n : s[i] = x
        BY <1>5, <2>1, <2>2, <3>2
      <4>. QED  BY <1>6, <1>10, <3>2, <4>1
    <3>3. CASE x \notin D
      <4>1. x = new /\ new \notin D
        BY <1>12, <3>3
      <4>2. ~\E i \in 1 .. n + 1 : t[i] = x
        BY <1>5, <2>1, <3>3
      <4>. QED  BY <1>12, <4>1, <4>2
    <3>. QED  BY <3>1, <3>2, <3>3
  <2>. QED  BY <2>4
<1>19. t[1] = q.consume
  <2>1. 1 \in 1 .. n
    BY <1>3
  <2>. QED  BY <1>5, <1>6, <1>10, <2>1
<1>20. q.produce = NextBlock(q, t[n + 1])
  BY <1>5, <1>10
<1>21. o = r.produce /\ o # r.last /\ r.mem[r.last].free => q.produce # r.last
  <2>1. SUFFICES ASSUME o # r.last, o = r.produce, r.mem[r.last].free PROVE q.produce # r.last
    OBVIOUS
  <2>2. r.last \in D /\ r.mem[o].next # Null
    BY <1>1, <2>1 DEF Ordered
  <2>3. CASE new \in D
    <3>1. q.produce = r.mem[o].next /\ ~r.mem[r.mem[o].next].free
      BY <1>13, <1>16, <2>2, <2>3 DEF NextBlock
    <3>. QED  BY <2>1, <3>1
  <2>4. CASE new \notin D
    BY <1>14, <2>2, <2>4
  <2>. QED  BY <2>3, <2>4
<1>22. o # r.produce => q.produce # r.last /\ r.last # o /\ q.mem[r.last].free
  <2>1. SUFFICES ASSUME o # r.produce PROVE q.produce # r.last /\ r.last # o /\ q.mem[r.last].free
    OBVIOUS
  <2>2. o = First /\ r.produce = r.last /\ r.last \in D /\ r.last # o
    BY <1>1, <1>8, <2>1 DEF Ordered
  <2>3. q.mem[r.last].free
    BY <1>10, <2>2
  <2>4. NextBlock(r, r.last) = First
    BY <1>1, <2>2 DEF Ordered
  <2>5. NextBlock(r, First) = r.consume
    BY <1>7, <2>2, <2>4
  <2>6. q.produce # r.last
    BY <1>7, <1>13, <1>14, <2>2, <2>5
  <2>. QED  BY <2>2, <2>3, <2>6
<1>23. \A i \in 1 .. n : Follows(q, t[i], t[i + 1])
  <2>. SUFFICES ASSUME NEW i \in 1 .. n PROVE Follows(q, t[i], t[i + 1])
    OBVIOUS
  <2>1. CASE i # n
    <3>1. i \in 1 .. n - 1 /\ i + 1 \in 1 .. n
      BY <2>1
    <3>2. Follows(r, s[i], s[i + 1]) /\ t[i] = s[i] /\ t[i + 1] = s[i + 1] /\ s[i] \in D \ {o}
          /\ s[i + 1] # o
      BY <1>5, <1>6, <1>9, <3>1
    <3>3. CASE s[i + 1] = NextBlock(r, s[i])
      BY <1>11, <3>2, <3>3 DEF Follows
    <3>4. CASE /\ NextBlock(r, s[i]) = r.last /\ r.mem[r.last].free
               /\ r.last # r.produce /\ s[i + 1] = First
      <4>1. o = r.produce
        BY <1>8, <3>2, <3>4
      <4>2. r.last \in D \ {o}
        BY <1>1, <3>4, <4>1 DEF Ordered
      <4>3. q.last = r.last /\ q.mem[r.last].free /\ q.produce # r.last
        BY <1>10, <1>15, <1>21, <3>4, <4>1, <4>2
      <4>. QED  BY <1>11, <3>2, <3>4, <4>3 DEF Follows
    <3>. QED  BY <3>2, <3>3, <3>4 DEF Follows
  <2>2. CASE i = n
    <3>1. n \in 1 .. n
      BY <1>3
    <3>2. t[i] = s[n] /\ t[i + 1] = o /\ s[n] \in D \ {o} /\ NextBlock(q, s[n]) = r.produce
      BY <1>5, <1>6, <1>9, <1>11, <2>2, <3>1
    <3>3. CASE o = r.produce
      BY <3>2, <3>3 DEF Follows
    <3>4. CASE o # r.produce
      <4>1. o = First /\ r.produce = r.last /\ q.last = r.last
        BY <1>8, <1>15, <1>22, <3>4
      <4>. QED  BY <1>22, <3>2, <3>4, <4>1 DEF Follows
    <3>. QED  BY <3>3, <3>4
  <2>. QED  BY <2>1, <2>2
<1>24. ASSUME NEW x \in E, q.mem[x].free, q.mem[x].next # Null PROVE ~q.mem[q.mem[x].next].free
  <2>1. CASE x \in D
    <3>1. x # o /\ q.mem[x].next = r.mem[x].next /\ r.mem[x].free
      BY <1>10, <1>24, <2>1
    <3>2. r.mem[x].next \in D /\ ~r.mem[r.mem[x].next].free
      BY <1>1, <1>6, <1>24, <2>1, <3>1 DEF Ordered
    <3>3. r.mem[x].next # o
      BY <3>2
    <3>. QED  BY <1>10, <3>1, <3>2, <3>3
  <2>2. CASE x \notin D
    <3>1. x = new /\ q.mem[x].next = r.mem[o].next
      BY <1>12, <2>2
    <3>. QED  BY <1>10, <1>16, <1>24, <3>1
  <2>. QED  BY <2>1, <2>2
<1>25. r.produce = r.last /\ r.mem[First].free /\ o # First =>
         /\ o = r.last /\ q.mem[First].free /\ NextBlock(q, First) = NextBlock(r, First)
         /\ NextBlock(r, o) = First
  <2>1. First \in D
    BY <1>1 DEF Ordered
  <2>. QED  BY <1>1, <1>8, <1>10, <1>11, <2>1 DEF Ordered
<1>26. \/ q.produce = q.consume
       \/ /\ q.mem[q.produce].free
          /\ \/ NextBlock(q, q.produce) = q.consume
             \/ /\ q.produce = q.last
                /\ q.mem[First].free
                /\ NextBlock(q, First) = q.consume
  <2>1. CASE NextBlock(r, o) = r.consume
    <3>1. CASE new \in D
      BY <1>10, <1>13, <2>1, <3>1
    <3>2. CASE new \notin D
      BY <1>10, <1>12, <1>14, <2>1, <3>2
    <3>. QED  BY <3>1, <3>2
  <2>2. CASE NextBlock(r, o) # r.consume
    <3>1. r.produce = r.last /\ r.mem[First].free /\ NextBlock(r, First) = r.consume /\ o # First
      BY <1>1, <1>7, <1>8, <2>2 DEF Ordered
    <3>2. /\ o = r.last /\ q.mem[First].free /\ NextBlock(q, First) = r.consume
          /\ NextBlock(r, o) = First
      BY <1>25, <3>1
    <3>3. CASE new \in D
      <4>1. q.produce = First
        BY <1>13, <3>2, <3>3
      <4>. QED  BY <1>10, <3>2, <4>1
    <3>4. CASE new \notin D
      <4>1. q.last = new
        BY <1>1, <1>12, <3>2, <3>4 DEF Ordered
      <4>. QED  BY <1>10, <1>12, <1>14, <3>2, <3>4, <4>1
    <3>. QED  BY <3>3, <3>4
  <2>. QED  BY <2>1, <2>2
<1>27. ASSUME NEW x \in E, q.mem[x].free
       PROVE  \/ x = q.produce
              \/ x = q.last
              \/ x = First /\ q.produce = q.last /\ q.mem[q.produce].free
  <2>1. CASE x \notin D
    BY <1>12, <1>14, <2>1
  <2>2. CASE x \in D
    <3>1. x # o /\ r.mem[x].free
      BY <1>10, <1>27, <2>2
    <3>2. CASE x = r.last
      BY <1>15, <3>1, <3>2
    <3>3. CASE x = r.produce /\ x # r.last
      BY <1>8, <3>1, <3>3
    <3>4. CASE x = First /\ r.produce = r.last
      <4>1. /\ o = r.last /\ NextBlock(r, o) = First
        BY <1>25, <3>1, <3>4
      <4>2. CASE new \in D
        BY <1>13, <3>4, <4>1, <4>2
      <4>3. CASE new \notin D
        BY <1>1, <1>12, <1>14, <3>4, <4>1, <4>3 DEF Ordered
      <4>. QED  BY <4>2, <4>3
    <3>. QED  BY <1>6, <2>2, <3>1, <3>2, <3>3, <3>4
  <2>. QED  BY <2>1, <2>2
<1>28. Queued(q, t)
  <2>1. Len(t) - 1 = n
    BY <1>5
  <2>. HIDE DEF D
  <2>. QED  BY <1>5, <1>17, <1>18, <1>19, <1>20, <1>23, <1>24, <1>26, <1>27, <2>1 DEF Queued
<1>. QED  BY <1>4, <1>28

\* The first item: the buffer is one free block, or two with the item in front.
LEMMA QueueStarts ==
  /\ Tiled(Empty)
  /\ \A q, v : Tiled(q) /\ Taken(Empty, q, First, v) => Queued(q, <<First>>)
<1>1. /\ IsRing(Empty)
      /\ DOMAIN Empty.mem = {First}
      /\ Empty.mem[First] = [prev |-> Null, next |-> Null, free |-> TRUE, size |-> Size,
                             value |-> Null]
      /\ Empty.produce = First /\ Empty.consume = First /\ Empty.last = First
  BY DEF Empty, IsRing
<1>2. Tiled(Empty)
  <2>1. Size \in 1 .. Size /\ First \in Offset /\ First = 0 /\ Size \in Int
    BY RingAssumption DEF Offset, First
  <2>2. Empty.mem[First] \in Block
    BY <1>1, <2>1 DEF Block
  <2>3. Fits(Empty, First)
    BY <1>1, <2>1 DEF Fits
  <2>4. ~(First < First)
    BY <2>1
  <2>5. DOMAIN Empty.mem \subseteq Offset
    BY <1>1, <2>1
  <2>6. \A o \in DOMAIN Empty.mem : o = First
    BY <1>1
  <2>7. Empty.mem[First].next = Null
    BY <1>1
  <2>. QED  BY <1>1, <2>2, <2>3, <2>4, <2>5, <2>6, <2>7 DEF Tiled
<1>3. ASSUME NEW q, NEW v, Tiled(q), Taken(Empty, q, First, v) PROVE Queued(q, <<First>>)
  <2>1. Ordered(q)
    BY <1>3, Ordering
  <2>2. PICK s : s = <<First>>
    OBVIOUS
  <2>3. s \in Seq({First}) /\ Len(s) = 1 /\ s[1] = First /\ s # <<>>
    BY <2>2
  <2>4. First \in DOMAIN q.mem
    BY <2>1 DEF Ordered
  <2>5. s \in Seq(DOMAIN q.mem)
    BY <2>3, <2>4
  <2>6. ~q.mem[First].free /\ q.consume = First /\ q.produce = NextBlock(q, First)
    BY <1>1, <1>3 DEF Taken
  <2>7. PICK new : IF new = First
                   THEN DOMAIN q.mem = {First} /\ q.mem[First].next = Null
                   ELSE /\ DOMAIN q.mem = {First, new} /\ q.mem[First].next = new
                        /\ q.mem[new].next = Null /\ q.mem[new].free /\ q.last = new
    <3>1. Empty.mem[First].next = Null
      BY <1>1
    <3>. QED  BY <1>1, <1>3, <3>1 DEF Taken
  <2>10. \A i \in 1 .. 1 : i = 1
    OBVIOUS
  <2>11. /\ \A i, j \in 1 .. Len(s) : s[i] = s[j] => i = j
         /\ \A i \in 1 .. Len(s) - 1 : Follows(q, s[i], s[i + 1])
         /\ s[1] = q.consume /\ q.produce = NextBlock(q, s[Len(s)])
         /\ \A x \in DOMAIN q.mem : (\E i \in 1 .. Len(s) : s[i] = x) <=> x = First
    BY <2>3, <2>6, <2>10
  <2>8. CASE new = First
    <3>1. q.produce = First /\ \A x \in DOMAIN q.mem : ~q.mem[x].free
      BY <2>6, <2>7, <2>8 DEF NextBlock
    <3>. QED  BY <2>2, <2>3, <2>5, <2>6, <2>7, <2>8, <2>11, <3>1 DEF Queued
  <2>9. CASE new # First
    <3>1. new # Null
      BY <2>1, <2>7, <2>9 DEF Ordered
    <3>2. q.produce = new /\ NextBlock(q, new) = First
      BY <2>6, <2>7, <2>9, <3>1 DEF NextBlock
    <3>3. \A x \in DOMAIN q.mem : x = First \/ x = new
      BY <2>7, <2>9
    <3>4. \A x \in DOMAIN q.mem : ~q.mem[x].free <=> x = First
      BY <2>6, <2>7, <2>9, <3>3
    <3>5. \A x \in DOMAIN q.mem :
            q.mem[x].free /\ q.mem[x].next # Null => ~q.mem[q.mem[x].next].free
      BY <2>6, <2>7, <2>9, <3>3
    <3>. QED  BY <2>2, <2>3, <2>5, <2>6, <2>7, <2>9, <2>11, <3>2, <3>3, <3>4, <3>5 DEF Queued
  <2>. QED  BY <2>8, <2>9
<1>. QED  BY <1>2, <1>3

-----------------------------------------------------------------------------
(***************************************************************************)
(* PopFirst: consume moves on from the block that is freed, and from a     *)
(* last block that was too small for an item.                              *)
(***************************************************************************)
Advanced(r, q, o, p) ==
  /\ DOMAIN q.mem = IF p = o THEN DOMAIN r.mem ELSE DOMAIN r.mem \ {o}
  /\ p \in DOMAIN r.mem /\ q.mem[p].free /\ q.mem[p].next = r.mem[o].next
  /\ \A x \in DOMAIN r.mem \ {o, p} : /\ q.mem[x].next = r.mem[x].next
                                      /\ q.mem[x].free = r.mem[x].free
                                      /\ q.mem[x].value = r.mem[x].value
  /\ IF p = o THEN r.mem[o].prev = Null \/ ~r.mem[r.mem[o].prev].free
              ELSE r.mem[p].next = o /\ r.mem[p].free
  /\ q.produce = MovedTo(r.produce, o, p)
  /\ q.consume = NextBlock(r, o)
  /\ q.last = MovedTo(r.last, o, p)

\* One turn of the loop of PopFirst.
LEMMA Advancing ==
  ASSUME NEW r, Tiled(r), NEW o \in DOMAIN r.mem, r.mem[o].free
  PROVE  Tiled(Advance(r, o)) /\ Advanced(r, Advance(r, o), o, Merged(r, o))
<1>1. PICK m : m = MergeBack(r, o)
  OBVIOUS
<1>2. PICK p : p = Merged(r, o)
  OBVIOUS
<1>3. PICK q : q = [m EXCEPT !.consume = NextBlock(m, p)]
  OBVIOUS
<1>4. q = Advance(r, o)
  BY <1>1, <1>2, <1>3 DEF Advance
<1>5. Ordered(r)
  BY Ordering
<1>6. /\ Tiled(m)
      /\ DOMAIN m.mem = IF p = o THEN DOMAIN r.mem ELSE DOMAIN r.mem \ {o}
      /\ p \in DOMAIN r.mem /\ p \in DOMAIN m.mem /\ m.mem[p].free /\ m.mem[p].next = r.mem[o].next
      /\ \A x \in DOMAIN r.mem \ {o, p} : /\ m.mem[x].next = r.mem[x].next
                                          /\ m.mem[x].free = r.mem[x].free
                                          /\ m.mem[x].value = r.mem[x].value
      /\ IF p = o THEN r.mem[o].prev = Null \/ ~r.mem[r.mem[o].prev].free
                  ELSE r.mem[p].next = o /\ r.mem[p].free
      /\ m.produce = MovedTo(r.produce, o, p)
      /\ m.last = MovedTo(r.last, o, p)
  <2>1. CASE MergesBack(r, o)
    <3>1. p = r.mem[o].prev
      BY <1>2, <2>1 DEF Merged
    <3>2. Tiled(m) /\ Joined(r, m, o, p) /\ p \in DOMAIN r.mem \ {o} /\ r.mem[p].next = o /\ r.mem[p].free
      BY <1>1, <2>1, <3>1, Joining
    <3>3. r.last = o <=> r.mem[o].next = Null
      BY <1>5 DEF Ordered
    <3>4. m.last = MovedTo(r.last, o, p)
      BY <3>2, <3>3 DEF Joined, MovedTo
    <3>. QED  BY <3>2, <3>4 DEF Joined
  <2>2. CASE ~MergesBack(r, o)
    <3>1. p = o /\ m = r
      BY <1>1, <1>2, <2>2 DEF Merged, MergeBack
    <3>. QED  BY <2>2, <3>1 DEF MergesBack, MovedTo
  <2>. QED  BY <2>1, <2>2
<1>7. IsRing(m)
  BY <1>6 DEF Tiled
<1>8. /\ IsRing(q)
      /\ q.mem = m.mem /\ q.produce = m.produce /\ q.last = m.last /\ q.consume = NextBlock(m, p)
  BY <1>3, <1>7 DEF IsRing
<1>9. q.consume = NextBlock(r, o)
  BY <1>6, <1>8 DEF NextBlock
<1>10. Tiled(q)
  <2>1. NextBlock(m, p) \in DOMAIN m.mem
    BY <1>6, Ordering DEF Ordered
  <2>2. \A x \in DOMAIN m.mem : m.mem[x] \in Block /\ Fits(m, x)
    BY <1>6 DEF Tiled
  <2>3. \A x \in DOMAIN m.mem : IF m.mem[x].free THEN m.mem[x].value = Null
                                                 ELSE m.mem[x].value \in Values
    BY <2>2 DEF Fits
  <2>4. m.produce \in DOMAIN m.mem
    BY <1>6 DEF Tiled
  <2>. QED  BY <1>6, <1>8, <2>1, <2>2, <2>3, <2>4, Marking
<1>11. Advanced(r, q, o, p)
  BY <1>6, <1>8, <1>9 DEF Advanced
<1>. QED  BY <1>2, <1>4, <1>10, <1>11

\* The first half of PopFirst: the oldest item is freed and joins what is free
\* before it, at p.
Popped(r, q, p) ==
  LET o == r.consume
  IN  /\ DOMAIN q.mem = IF p = o THEN DOMAIN r.mem ELSE DOMAIN r.mem \ {o}
      /\ p \in DOMAIN r.mem /\ q.mem[p].free /\ q.mem[p].next = r.mem[o].next
      /\ \A x \in DOMAIN r.mem \ {o, p} : /\ q.mem[x].next = r.mem[x].next
                                          /\ q.mem[x].free = r.mem[x].free
                                          /\ q.mem[x].value = r.mem[x].value
      /\ IF p = o THEN r.mem[o].prev = Null \/ ~r.mem[r.mem[o].prev].free
                  ELSE r.mem[p].next = o /\ r.mem[p].free
      /\ q.produce = MovedTo(r.produce, o, p)
      /\ q.consume = NextBlock(r, o)
      /\ q.last = MovedTo(r.last, o, p)

\* PopFirst up to its loop.
LEMMA Popping ==
  ASSUME NEW r, Tiled(r), ~r.mem[r.consume].free
  PROVE  LET freed == [r EXCEPT !.mem[r.consume].free = TRUE, !.mem[r.consume].value = Null]
             q == Advance(freed, freed.consume)
         IN  Tiled(q) /\ \E p : Popped(r, q, p)
<1>1. PICK o : o = r.consume
  OBVIOUS
<1>2. PICK f : f = [r EXCEPT !.mem[r.consume].free = TRUE, !.mem[r.consume].value = Null]
  OBVIOUS
<1>3. IsRing(r) /\ o \in DOMAIN r.mem
      /\ \A x \in DOMAIN r.mem : r.mem[x] \in Block /\ Fits(r, x)
  BY <1>1 DEF Tiled
<1>4. /\ IsRing(f)
      /\ DOMAIN f.mem = DOMAIN r.mem
      /\ f.produce = r.produce /\ f.consume = o /\ f.last = r.last
      /\ f.mem[o] = [r.mem[o] EXCEPT !.free = TRUE, !.value = Null]
      /\ \A x \in DOMAIN r.mem \ {o} : f.mem[x] = r.mem[x]
  BY <1>1, <1>2, <1>3 DEF IsRing
<1>5. f.mem[o].prev = r.mem[o].prev /\ f.mem[o].next = r.mem[o].next
      /\ f.mem[o].size = r.mem[o].size /\ f.mem[o].free /\ f.mem[o].value = Null
      /\ f.mem[o] \in Block
  BY <1>3, <1>4 DEF Block
<1>6. \A x \in DOMAIN r.mem : /\ f.mem[x] \in Block
                              /\ f.mem[x].prev = r.mem[x].prev
                              /\ f.mem[x].next = r.mem[x].next
                              /\ f.mem[x].size = r.mem[x].size
                              /\ IF f.mem[x].free THEN f.mem[x].value = Null
                                                  ELSE f.mem[x].value \in Values
  <2>. SUFFICES ASSUME NEW x \in DOMAIN r.mem
                PROVE  /\ f.mem[x] \in Block
                       /\ f.mem[x].prev = r.mem[x].prev
                       /\ f.mem[x].next = r.mem[x].next
                       /\ f.mem[x].size = r.mem[x].size
                       /\ IF f.mem[x].free THEN f.mem[x].value = Null
                                           ELSE f.mem[x].value \in Values
    OBVIOUS
  <2>1. CASE x = o
    BY <1>5, <2>1
  <2>2. CASE x # o
    <3>1. f.mem[x] = r.mem[x] /\ Fits(r, x) /\ r.mem[x] \in Block
      BY <1>3, <1>4, <2>2
    <3>. QED  BY <3>1 DEF Fits
  <2>. QED  BY <2>1, <2>2
<1>7. Tiled(f)
  <2>1. r.produce \in DOMAIN r.mem /\ r.consume \in DOMAIN r.mem
    BY DEF Tiled
  <2>. QED  BY <1>1, <1>4, <1>6, <2>1, Marking
<1>8. PICK q : q = Advance(f, o)
  OBVIOUS
<1>9. PICK p : p = Merged(f, o)
  OBVIOUS
<1>10. Tiled(q) /\ Advanced(f, q, o, p)
  BY <1>3, <1>4, <1>5, <1>7, <1>8, <1>9, Advancing
<1>11. Ordered(r) /\ Ordered(f)
  BY <1>7, Ordering
<1>12. r.mem[o].prev # Null => r.mem[o].prev \in DOMAIN r.mem /\ r.mem[o].prev # o
  <2>1. r.mem[o].prev # Null => r.mem[o].prev \in DOMAIN r.mem /\ r.mem[r.mem[o].prev].next = o
    BY <1>3, <1>11 DEF Ordered
  <2>2. r.mem[o].next # Null => r.mem[o].next # o
    BY <1>3, <1>11 DEF Ordered
  <2>3. o # Null
    BY <1>3, <1>11 DEF Ordered
  <2>. QED  BY <2>1, <2>2, <2>3
<1>13. NextBlock(f, o) = NextBlock(r, o)
  BY <1>5 DEF NextBlock
<1>14. \A x \in DOMAIN r.mem \ {o, p} : /\ q.mem[x].next = r.mem[x].next
                                        /\ q.mem[x].free = r.mem[x].free
                                        /\ q.mem[x].value = r.mem[x].value
  BY <1>4, <1>10 DEF Advanced
<1>15. IF p = o THEN r.mem[o].prev = Null \/ ~r.mem[r.mem[o].prev].free
                ELSE r.mem[p].next = o /\ r.mem[p].free
  <2>1. CASE p = o
    <3>1. f.mem[o].prev = Null \/ ~f.mem[f.mem[o].prev].free
      BY <1>10, <2>1 DEF Advanced
    <3>. QED  BY <1>4, <1>5, <1>12, <2>1, <3>1
  <2>2. CASE p # o
    BY <1>4, <1>10, <2>2 DEF Advanced
  <2>. QED  BY <2>1, <2>2
<1>16. Popped(r, q, p)
  BY <1>1, <1>4, <1>5, <1>10, <1>13, <1>14, <1>15 DEF Advanced, Popped
<1>17. q = Advance(f, f.consume)
  BY <1>4, <1>8
<1>. QED  BY <1>2, <1>10, <1>16, <1>17

\* The other items are as they were.
Unharmed(r, q) ==
  \A x \in DOMAIN r.mem : ~r.mem[x].free /\ x # r.consume => q.mem[x].value = r.mem[x].value

\* What the two lemmas below need of the items behind the first one.
Behind(r, s, t, n, D) ==
  /\ n \in Nat /\ n = Len(s) /\ n >= 2
  /\ Len(t) = n - 1 /\ t # <<>>
  /\ \A i \in 1 .. n - 1 : t[i] = s[i + 1] /\ i + 1 \in 1 .. n
  /\ \A i \in 1 .. n : s[i] \in D /\ ~r.mem[s[i]].free
  /\ \A i, j \in 1 .. n : s[i] = s[j] => i = j
  /\ \A x \in D : ~r.mem[x].free => \E i \in 1 .. n : s[i] = x
  /\ s[1] = r.consume /\ r.consume \in D /\ ~r.mem[r.consume].free
  /\ \A i \in 1 .. n - 1 : s[i + 1] # r.consume
  /\ r.produce = NextBlock(r, s[n]) /\ s[n] # r.consume /\ s[n] \in D
  /\ \A i \in 1 .. n - 1 : Follows(r, s[i], s[i + 1])
  /\ \A x \in D : r.mem[x].free /\ r.mem[x].next # Null => ~r.mem[r.mem[x].next].free
  /\ \/ r.produce = r.consume
     \/ /\ r.mem[r.produce].free
        /\ \/ NextBlock(r, r.produce) = r.consume
           \/ r.produce = r.last /\ r.mem[First].free /\ NextBlock(r, First) = r.consume
  /\ \A x \in D : r.mem[x].free =>
       \/ x = r.produce
       \/ x = r.last
       \/ x = First /\ r.produce = r.last /\ r.mem[r.produce].free

\* Every queue of two items or more.
LEMMA BehindTheFirst ==
  ASSUME NEW r, Tiled(r), NEW s, Queued(r, s), Len(s) >= 2
  PROVE  Behind(r, s, Tail(s), Len(s), DOMAIN r.mem)
<1>1. PICK n \in Nat : n = Len(s)
  BY DEF Queued
<1>2. s \in Seq(DOMAIN r.mem) /\ n >= 2 /\ DOMAIN s = 1 .. n /\ s # <<>>
  BY <1>1 DEF Queued
<1>3. PICK t : t = Tail(s)
  OBVIOUS
<1>4. Len(t) = n - 1 /\ \A i \in 1 .. n - 1 : t[i] = s[i + 1] /\ i + 1 \in 1 .. n
  BY <1>1, <1>2, <1>3
<1>5. t # <<>>
  BY <1>2, <1>4
<1>6. \A i \in 1 .. n : s[i] \in DOMAIN r.mem
  BY <1>1, <1>2
<1>7. /\ \A i, j \in 1 .. n : s[i] = s[j] => i = j
      /\ \A x \in DOMAIN r.mem : ~r.mem[x].free <=> \E i \in 1 .. n : s[i] = x
      /\ s[1] = r.consume
      /\ r.produce = NextBlock(r, s[n])
      /\ \A i \in 1 .. n - 1 : Follows(r, s[i], s[i + 1])
  BY <1>1 DEF Queued
<1>8. /\ \A x \in DOMAIN r.mem : r.mem[x].free /\ r.mem[x].next # Null => ~r.mem[r.mem[x].next].free
      /\ \/ r.produce = r.consume
         \/ /\ r.mem[r.produce].free
            /\ \/ NextBlock(r, r.produce) = r.consume
               \/ r.produce = r.last /\ r.mem[First].free /\ NextBlock(r, First) = r.consume
      /\ \A x \in DOMAIN r.mem : r.mem[x].free =>
           \/ x = r.produce
           \/ x = r.last
           \/ x = First /\ r.produce = r.last /\ r.mem[r.produce].free
  BY DEF Queued
<1>9. 1 \in 1 .. n /\ n \in 1 .. n /\ n # 1 /\ \A i \in 1 .. n - 1 : i + 1 \in 1 .. n /\ i + 1 # 1
  BY <1>2
<1>10. \A i \in 1 .. n : ~r.mem[s[i]].free
  BY <1>6, <1>7
<1>11. r.consume \in DOMAIN r.mem /\ ~r.mem[r.consume].free
       /\ s[n] # r.consume /\ s[n] \in DOMAIN r.mem
       /\ \A i \in 1 .. n - 1 : s[i + 1] # r.consume
  BY <1>6, <1>7, <1>9, <1>10
<1>12. Behind(r, s, t, n, DOMAIN r.mem)
  BY <1>1, <1>2, <1>4, <1>5, <1>6, <1>7, <1>8, <1>10, <1>11 DEF Behind
<1>. QED  BY <1>1, <1>3, <1>12

\* The item behind the freed one is the next block: it is the first item now.
LEMMA QueueShrinks ==
  ASSUME NEW r, Tiled(r), NEW s, Queued(r, s), Len(s) >= 2,
         NEW q, Tiled(q), NEW p, Popped(r, q, p), NextBlock(r, s[1]) = s[2]
  PROVE  Queued(q, Tail(s))
<1>. DEFINE D == DOMAIN r.mem
            E == DOMAIN q.mem
<1>1. Ordered(r) /\ Ordered(q)
  BY Ordering
<1>2. PICK t : t = Tail(s)
  OBVIOUS
<1>3. PICK n : n = Len(s)
  OBVIOUS
<1>4. PICK o : o = r.consume
  OBVIOUS
<1>5. Behind(r, s, t, n, D)
  BY <1>2, <1>3, BehindTheFirst
<1>6. /\ n \in Nat /\ n >= 2 /\ 1 \in 1 .. n - 1 /\ n - 1 \in 1 .. n - 1
      /\ Len(t) = n - 1 /\ t # <<>>
      /\ \A i \in 1 .. n - 1 : t[i] = s[i + 1] /\ i + 1 \in 1 .. n
      /\ \A i \in 1 .. n : s[i] \in D /\ ~r.mem[s[i]].free
      /\ \A i, j \in 1 .. n : s[i] = s[j] => i = j
      /\ \A x \in D : ~r.mem[x].free => \E i \in 1 .. n : s[i] = x
      /\ s[1] = o /\ o \in D /\ ~r.mem[o].free
      /\ \A i \in 1 .. n - 1 : s[i + 1] # o
      /\ r.produce = NextBlock(r, s[n]) /\ s[n] # o /\ s[n] \in D
  BY <1>4, <1>5 DEF Behind
<1>7. \A i \in 1 .. n - 1 : Follows(r, s[i], s[i + 1])
  BY <1>5 DEF Behind
<1>8. \A x \in D : r.mem[x].free /\ r.mem[x].next # Null => ~r.mem[r.mem[x].next].free
  BY <1>5 DEF Behind
<1>9. \/ r.produce = o
      \/ /\ r.mem[r.produce].free
         /\ \/ NextBlock(r, r.produce) = o
            \/ r.produce = r.last /\ r.mem[First].free /\ NextBlock(r, First) = o
  BY <1>4, <1>5 DEF Behind
<1>10. \A x \in D : r.mem[x].free =>
         \/ x = r.produce
         \/ x = r.last
         \/ x = First /\ r.produce = r.last /\ r.mem[r.produce].free
  BY <1>5 DEF Behind
<1>11. /\ E = IF p = o THEN D ELSE D \ {o}
       /\ p \in D /\ q.mem[p].free /\ q.mem[p].next = r.mem[o].next
       /\ \A x \in D \ {o, p} : /\ q.mem[x].next = r.mem[x].next
                                /\ q.mem[x].free = r.mem[x].free
       /\ IF p = o THEN r.mem[o].prev = Null \/ ~r.mem[r.mem[o].prev].free
                   ELSE r.mem[p].next = o /\ r.mem[p].free
       /\ q.produce = MovedTo(r.produce, o, p)
       /\ q.consume = NextBlock(r, o)
       /\ q.last = MovedTo(r.last, o, p)
  BY <1>4 DEF Popped
<1>12. \A i \in 1 .. n : s[i] # o => s[i] \in D \ {o, p} /\ s[i] \in E
  BY <1>6, <1>11
<1>13. \A x \in D \ {o, p} : NextBlock(q, x) = NextBlock(r, x)
  BY <1>11 DEF NextBlock
<1>14. n \in Nat /\ n >= 2
  BY <1>6
<1>15. NextBlock(q, p) = NextBlock(r, o) /\ NextBlock(r, o) = s[2] /\ s[2] = t[1] /\ s[2] \in D \ {o, p}
  <2>1. NextBlock(q, p) = NextBlock(r, o)
    BY <1>11 DEF NextBlock
  <2>2. t[1] = s[2] /\ s[2] # o /\ 2 \in 1 .. n
    <3>1. 1 \in 1 .. n - 1 /\ 1 + 1 = 2 /\ 2 \in 1 .. n
      BY <1>6
    <3>2. t[1] = s[1 + 1] /\ s[1 + 1] # o
      BY <1>6, <3>1
    <3>. QED  BY <3>1, <3>2
  <2>. QED  BY <1>6, <1>12, <2>1, <2>2
<1>16. r.produce = o => p = o /\ q.produce = o
  <2>. SUFFICES ASSUME r.produce = o, p # o PROVE FALSE
    BY <1>11 DEF MovedTo
  <2>1. r.mem[p].free /\ r.mem[p].next = o /\ p \in D
    BY <1>11
  <2>2. p = r.last
    BY <1>6, <1>10, <2>1
  <2>. QED  BY <1>1, <1>6, <2>1, <2>2 DEF Ordered
<1>17. r.produce # o => q.produce = r.produce
  BY <1>11 DEF MovedTo
<1>18. r.last # o => q.last = r.last
  BY <1>11 DEF MovedTo
<1>19. r.last = o => q.last = p
  BY <1>11 DEF MovedTo
<1>20. t \in Seq(E)
  <2>1. \A i \in 1 .. n - 1 : t[i] \in E
    BY <1>6, <1>12
  <2>2. t \in Seq(D)
    BY <1>2 DEF Queued
  <2>3. DOMAIN t = 1 .. n - 1
    BY <1>6, <2>2
  <2>. HIDE DEF D, E
  <2>. QED  BY <1>6, <2>1, <2>2, <2>3
<1>21. \A i, j \in 1 .. n - 1 : t[i] = t[j] => i = j
  BY <1>6
<1>22. ASSUME NEW x \in E PROVE ~q.mem[x].free <=> \E i \in 1 .. n - 1 : t[i] = x
  <2>1. ASSUME NEW i \in 1 .. n - 1, t[i] = x PROVE ~q.mem[x].free
    <3>1. t[i] = s[i + 1] /\ i + 1 \in 1 .. n /\ s[i + 1] # o
      BY <1>6, <2>1
    <3>2. x \in D \ {o, p} /\ ~r.mem[x].free
      BY <1>6, <1>12, <2>1, <3>1
    <3>. QED  BY <1>11, <3>2
  <2>2. ASSUME ~q.mem[x].free PROVE \E i \in 1 .. n - 1 : t[i] = x
    <3>1. x \in D \ {o, p}
      BY <1>11, <2>2
    <3>2. PICK i \in 1 .. n : s[i] = x
      BY <1>6, <1>11, <2>2, <3>1
    <3>3. i # 1
      BY <1>6, <3>1, <3>2
    <3>4. i - 1 \in 1 .. n - 1 /\ (i - 1) + 1 = i
      BY <1>6, <3>3
    <3>5. t[i - 1] = x
      BY <1>6, <3>2, <3>4
    <3>. QED  BY <3>4, <3>5
  <2>. QED  BY <2>1, <2>2
<1>23. t[1] = q.consume
  BY <1>11, <1>15
<1>24. r.produce \in D /\ (r.produce # o => r.mem[r.produce].free)
  BY <1>1, <1>9 DEF Ordered
<1>25. q.produce = NextBlock(q, t[n - 1])
  <2>1. t[n - 1] = s[n] /\ s[n] \in D \ {o, p}
    <3>1. (n - 1) + 1 = n /\ n \in 1 .. n
      BY <1>6
    <3>. QED  BY <1>6, <1>12, <3>1
  <2>2. q.produce = r.produce
    BY <1>16, <1>17
  <2>. QED  BY <1>6, <1>13, <2>1, <2>2
<1>26. \A i \in 1 .. n - 2 : Follows(q, t[i], t[i + 1])
  <2>. SUFFICES ASSUME NEW i \in 1 .. n - 2 PROVE Follows(q, t[i], t[i + 1])
    OBVIOUS
  <2>1. i \in 1 .. n - 1 /\ i + 1 \in 1 .. n - 1 /\ i + 1 \in 1 .. n
    BY <1>14
  <2>2. t[i] = s[i + 1] /\ t[i + 1] = s[(i + 1) + 1] /\ s[i + 1] \in D \ {o, p}
        /\ Follows(r, s[i + 1], s[(i + 1) + 1])
    BY <1>6, <1>7, <1>12, <2>1
  <2>3. NextBlock(r, s[i + 1]) = r.last /\ r.mem[r.last].free /\ r.last # r.produce =>
          q.last = r.last /\ q.mem[q.last].free /\ q.last # q.produce
    <3>. SUFFICES ASSUME NextBlock(r, s[i + 1]) = r.last, r.mem[r.last].free, r.last # r.produce
                  PROVE  q.last = r.last /\ q.mem[q.last].free /\ q.last # q.produce
      OBVIOUS
    <3>1. r.last # o /\ q.last = r.last /\ r.last \in D
      BY <1>1, <1>6, <1>18 DEF Ordered
    <3>2. q.mem[r.last].free
      BY <1>11, <3>1
    <3>3. q.produce # r.last
      BY <1>16, <1>17, <3>1
    <3>. QED  BY <3>1, <3>2, <3>3
  <2>. QED  BY <1>13, <2>2, <2>3 DEF Follows
<1>27. ASSUME NEW x \in E, q.mem[x].free, q.mem[x].next # Null PROVE ~q.mem[q.mem[x].next].free
  <2>1. ~q.mem[s[2]].free
    BY <1>6, <1>11, <1>15
  <2>2. CASE x = p
    <3>1. q.mem[x].next = NextBlock(q, p)
      BY <1>27, <2>2 DEF NextBlock
    <3>. QED  BY <1>15, <2>1, <3>1
  <2>3. CASE x # p
    <3>1. x \in D \ {o, p} /\ q.mem[x].next = r.mem[x].next /\ r.mem[x].free
      BY <1>11, <1>27, <2>3
    <3>2. r.mem[x].next \in D /\ ~r.mem[r.mem[x].next].free /\ r.mem[r.mem[x].next].prev = x
      BY <1>1, <1>8, <1>27, <3>1 DEF Ordered
    <3>3. r.mem[x].next # p
      <4>1. p # o => r.mem[p].free
        BY <1>11
      <4>2. p = o /\ r.mem[x].next = p => FALSE
        <5>1. p = o => r.mem[o].prev = Null \/ ~r.mem[r.mem[o].prev].free
          BY <1>11
        <5>2. x # Null
          BY <1>1, <3>1 DEF Ordered
        <5>. QED  BY <3>1, <3>2, <5>1, <5>2
      <4>. QED  BY <3>2, <4>1, <4>2
    <3>4. r.mem[x].next # o
      <4>1. r.mem[x].next = o => r.mem[o].prev = x /\ x # Null
        BY <1>1, <3>1, <3>2 DEF Ordered
      <4>2. p # o => r.mem[o].prev = p
        <5>1. p # o => r.mem[p].next = o /\ o # Null
          BY <1>1, <1>6, <1>11 DEF Ordered
        <5>. QED  BY <1>1, <1>11, <5>1 DEF Ordered
      <4>3. CASE p = o
        BY <3>3, <4>3
      <4>4. CASE p # o
        BY <2>3, <4>1, <4>2, <4>4
      <4>. QED  BY <4>3, <4>4
    <3>. QED  BY <1>11, <3>1, <3>2, <3>3, <3>4
  <2>. QED  BY <2>2, <2>3
<1>28. \A x \in D : r.mem[x].free /\ r.mem[x].next = o => p = x
  <2>. SUFFICES ASSUME NEW x \in D, r.mem[x].free, r.mem[x].next = o PROVE p = x
    OBVIOUS
  <2>1. x # Null /\ o # Null
    BY <1>1, <1>6 DEF Ordered
  <2>2. r.mem[o].prev = x
    BY <1>1, <2>1 DEF Ordered
  <2>3. p # o => r.mem[o].prev = p
    BY <1>1, <1>11, <2>1 DEF Ordered
  <2>. QED  BY <1>11, <2>1, <2>2, <2>3
<1>29. q.mem[q.produce].free
  <2>1. r.produce # o => q.produce = r.produce /\ r.mem[r.produce].free /\ r.produce \in D
    BY <1>1, <1>9, <1>17 DEF Ordered
  <2>. QED  BY <1>11, <1>16, <2>1
<1>30. r.produce # o /\ r.produce = r.last => q.produce = q.last
  BY <1>17, <1>18
<1>31. \/ q.produce = q.consume
       \/ /\ q.mem[q.produce].free
          /\ \/ NextBlock(q, q.produce) = q.consume
             \/ /\ q.produce = q.last
                /\ q.mem[First].free
                /\ NextBlock(q, First) = q.consume
  <2>1. CASE r.produce = o
    BY <1>11, <1>15, <1>16, <1>29, <2>1
  <2>2. CASE r.produce # o /\ NextBlock(r, r.produce) = o
    <3>1. CASE r.mem[r.produce].next = o
      <4>1. p = r.produce
        BY <1>1, <1>9, <1>28, <2>2, <3>1 DEF Ordered
      <4>. QED  BY <1>11, <1>15, <1>17, <1>29, <2>2, <4>1
    <3>2. CASE r.mem[r.produce].next # o
      <4>1. r.produce = r.last /\ o = First
        BY <1>1, <2>2, <3>2 DEF Ordered
      <4>2. p = o
        BY <1>1, <1>6, <1>11, <4>1 DEF Ordered
      <4>. QED  BY <1>11, <1>15, <1>29, <1>30, <2>2, <4>1, <4>2
    <3>. QED  BY <3>1, <3>2
  <2>3. CASE r.produce # o /\ r.produce = r.last /\ r.mem[First].free /\ NextBlock(r, First) = o
    <3>1. First \in D /\ r.mem[First].next = o
      BY <1>1, <1>6, <2>3 DEF Ordered
    <3>2. p = First
      BY <1>28, <2>3, <3>1
    <3>. QED  BY <1>11, <1>15, <1>29, <1>30, <2>3, <3>2
  <2>. QED  BY <1>9, <2>1, <2>2, <2>3
<1>32. ASSUME NEW x \in E, q.mem[x].free
       PROVE  \/ x = q.produce
              \/ x = q.last
              \/ x = First /\ q.produce = q.last /\ q.mem[q.produce].free
  <2>1. CASE x = p /\ p = o
    <3>1. CASE r.produce = o
      BY <1>16, <2>1, <3>1
    <3>2. CASE r.produce # o /\ NextBlock(r, r.produce) = o
      <4>1. r.mem[r.produce].next # o
        BY <1>1, <1>9, <1>28, <2>1, <3>2 DEF Ordered
      <4>2. r.produce = r.last /\ o = First
        BY <1>1, <3>2, <4>1 DEF Ordered
      <4>. QED  BY <1>29, <1>30, <2>1, <3>2, <4>2
    <3>3. ~(r.produce # o /\ r.produce = r.last /\ r.mem[First].free /\ NextBlock(r, First) = o)
      <4>. SUFFICES ASSUME r.produce = r.last, r.mem[First].free, NextBlock(r, First) = o PROVE FALSE
        OBVIOUS
      <4>1. First \in D /\ r.mem[First].next = o
        BY <1>1, <1>6 DEF Ordered
      <4>2. p = First
        BY <1>28, <4>1
      <4>. QED  BY <1>6, <2>1, <4>2
    <3>. QED  BY <1>9, <3>1, <3>2, <3>3
  <2>2. CASE x # o
    <3>1. x \in D /\ r.mem[x].free
      BY <1>11, <1>32, <2>2
    <3>2. CASE x = r.produce
      BY <1>17, <2>2, <3>2
    <3>3. CASE x = r.last
      BY <1>18, <2>2, <3>3
    <3>4. CASE x = First /\ r.produce = r.last /\ r.mem[r.produce].free
      <4>1. r.produce # o
        BY <1>6, <3>4
      <4>. QED  BY <1>29, <1>30, <3>4, <4>1
    <3>. QED  BY <1>10, <3>1, <3>2, <3>3, <3>4
  <2>3. x = o => p = o
    BY <1>11
  <2>. QED  BY <2>1, <2>2, <2>3
<1>33. Queued(q, t)
  <2>1. Len(t) = n - 1 /\ Len(t) - 1 = n - 2
    BY <1>6
  <2>. HIDE DEF D
  <2>. QED  BY <1>6, <1>20, <1>21, <1>22, <1>23, <1>25, <1>26, <1>27, <1>31, <1>32, <2>1 DEF Queued
<1>. QED  BY <1>2, <1>33

\* The item behind the freed one has wrapped: the last block, which was too small
\* for it, is free, and consume moves over it.
LEMMA LastIsSkipped ==
  ASSUME NEW r, Tiled(r), NEW s, Queued(r, s), Len(s) >= 2,
         NEW q, Tiled(q), NEW p, Popped(r, q, p), NextBlock(r, s[1]) # s[2]
  PROVE  /\ q.consume \in DOMAIN q.mem /\ q.mem[q.consume].free /\ q.consume # q.produce
         /\ q.consume = r.last /\ s[2] = First /\ q.produce = p
         /\ r.mem[r.last].free /\ r.last # p /\ r.last # r.consume
         /\ q.mem[p].next = r.last /\ q.mem[r.last].next = Null
<1>. DEFINE D == DOMAIN r.mem
<1>1. Ordered(r) /\ Ordered(q)
  BY Ordering
<1>2. PICK o : o = r.consume
  OBVIOUS
<1>3. PICK n : n = Len(s)
  OBVIOUS
<1>4. Behind(r, s, Tail(s), n, D)
  BY <1>3, BehindTheFirst
<1>5. n \in Nat /\ n >= 2
  BY <1>4 DEF Behind
<1>6. 1 \in 1 .. n /\ 2 \in 1 .. n /\ 1 \in 1 .. n - 1 /\ 1 + 1 = 2
  BY <1>5
<1>7. /\ s[1] = o /\ o \in D /\ ~r.mem[o].free
      /\ s[2] \in D /\ ~r.mem[s[2]].free /\ s[2] # o
      /\ Follows(r, s[1], s[2])
  BY <1>2, <1>4, <1>6 DEF Behind
<1>8. /\ NextBlock(r, o) = r.last /\ r.mem[r.last].free /\ r.last # r.produce /\ s[2] = First
      /\ r.last \in D /\ r.last # o
  BY <1>1, <1>7 DEF Follows, Ordered
<1>9. r.mem[o].next = r.last /\ r.mem[r.last].next = Null
  BY <1>1, <1>7, <1>8 DEF Ordered
<1>10. /\ DOMAIN q.mem = IF p = o THEN D ELSE D \ {o}
       /\ p \in D /\ q.mem[p].free /\ q.mem[p].next = r.mem[o].next
       /\ \A x \in D \ {o, p} : /\ q.mem[x].next = r.mem[x].next
                                /\ q.mem[x].free = r.mem[x].free
       /\ IF p = o THEN r.mem[o].prev = Null \/ ~r.mem[r.mem[o].prev].free
                   ELSE r.mem[p].next = o /\ r.mem[p].free
       /\ q.produce = MovedTo(r.produce, o, p)
       /\ q.consume = NextBlock(r, o)
  BY <1>2 DEF Popped
<1>11. r.last # p
  BY <1>1, <1>7, <1>8, <1>10 DEF Ordered
<1>12. q.mem[r.last].free /\ r.last \in DOMAIN q.mem /\ q.mem[r.last].next = Null
  BY <1>8, <1>9, <1>10, <1>11
<1>13. \/ r.produce = o
       \/ /\ r.mem[r.produce].free
          /\ \/ NextBlock(r, r.produce) = o
             \/ r.produce = r.last /\ r.mem[First].free /\ NextBlock(r, First) = o
  BY <1>2, <1>4 DEF Behind
<1>14. q.produce = p
  <2>1. CASE r.produce = o
    BY <1>10, <2>1 DEF MovedTo
  <2>2. CASE r.produce # o
    <3>1. r.mem[r.produce].free /\ r.produce \in D /\ r.mem[r.produce].next = o
      BY <1>1, <1>7, <1>8, <1>13, <2>2 DEF Ordered
    <3>2. r.mem[o].prev = r.produce /\ r.produce # Null /\ o # Null
      BY <1>1, <1>7, <3>1 DEF Ordered
    <3>3. p # o
      BY <1>10, <3>1, <3>2
    <3>4. r.mem[o].prev = p
      BY <1>1, <1>10, <3>2, <3>3 DEF Ordered
    <3>. QED  BY <1>10, <2>2, <3>2, <3>4 DEF MovedTo
  <2>. QED  BY <2>1, <2>2
<1>. QED  BY <1>2, <1>8, <1>9, <1>10, <1>11, <1>12, <1>14

\* The loop of PopFirst joins that last block to what is free before it.
LEMMA QueueSkips ==
  ASSUME NEW r, Tiled(r), NEW s, Queued(r, s), Len(s) >= 2,
         NEW q, Tiled(q), NEW p, Popped(r, q, p), NextBlock(r, s[1]) # s[2],
         NEW b, Tiled(b), NEW w, Advanced(q, b, q.consume, w)
  PROVE  /\ Queued(b, Tail(s))
         /\ Unharmed(r, b)
<1>. DEFINE D == DOMAIN r.mem
            E == DOMAIN b.mem
<1>1. Ordered(r) /\ Ordered(q) /\ Ordered(b)
  BY Ordering
<1>2. PICK t : t = Tail(s)
  OBVIOUS
<1>3. PICK n : n = Len(s)
  OBVIOUS
<1>4. PICK o : o = r.consume
  OBVIOUS
<1>5. PICK l : l = r.last
  OBVIOUS
<1>6. Behind(r, s, t, n, D)
  BY <1>2, <1>3, BehindTheFirst
<1>7. /\ n \in Nat /\ n >= 2 /\ 1 \in 1 .. n - 1 /\ n - 1 \in 1 .. n - 1
      /\ Len(t) = n - 1 /\ t # <<>>
      /\ \A i \in 1 .. n - 1 : t[i] = s[i + 1] /\ i + 1 \in 1 .. n
      /\ \A i \in 1 .. n : s[i] \in D /\ ~r.mem[s[i]].free
      /\ \A i, j \in 1 .. n : s[i] = s[j] => i = j
      /\ \A x \in D : ~r.mem[x].free => \E i \in 1 .. n : s[i] = x
      /\ s[1] = o /\ o \in D /\ ~r.mem[o].free
      /\ \A i \in 1 .. n - 1 : s[i + 1] # o
      /\ r.produce = NextBlock(r, s[n]) /\ s[n] # o /\ s[n] \in D
  BY <1>4, <1>6 DEF Behind
<1>8. \A i \in 1 .. n - 1 : Follows(r, s[i], s[i + 1])
  BY <1>6 DEF Behind
<1>9. \A x \in D : r.mem[x].free =>
         \/ x = r.produce
         \/ x = r.last
         \/ x = First /\ r.produce = r.last /\ r.mem[r.produce].free
  BY <1>6 DEF Behind
<1>10. /\ q.consume = l /\ l \in DOMAIN q.mem /\ q.mem[l].free /\ q.produce = p
       /\ s[2] = First /\ r.mem[l].free /\ l # p /\ l # o
       /\ q.mem[p].next = l /\ q.mem[l].next = Null
  BY <1>4, <1>5, LastIsSkipped
<1>11. /\ DOMAIN q.mem = IF p = o THEN D ELSE D \ {o}
       /\ p \in D /\ p \in DOMAIN q.mem /\ q.mem[p].free
       /\ \A x \in D \ {o, p} : /\ q.mem[x].next = r.mem[x].next
                                /\ q.mem[x].free = r.mem[x].free
                                /\ q.mem[x].value = r.mem[x].value
       /\ p # o => r.mem[p].free
       /\ q.produce = MovedTo(r.produce, o, p)
  BY <1>4 DEF Popped
<1>12. Advanced(q, b, l, w)
  BY <1>10
<1>13. w = p
  <2>1. l # Null /\ p # Null
    BY <1>1, <1>10, <1>11 DEF Ordered
  <2>2. q.mem[l].prev = p
    BY <1>1, <1>10, <1>11, <2>1 DEF Ordered
  <2>3. w # l
    BY <1>11, <1>12, <2>1, <2>2 DEF Advanced
  <2>4. w \in DOMAIN q.mem /\ q.mem[w].next = l
    BY <1>12, <2>3 DEF Advanced
  <2>. QED  BY <1>1, <2>1, <2>2, <2>4 DEF Ordered
<1>14. /\ E = DOMAIN q.mem \ {l}
       /\ b.mem[p].free /\ b.mem[p].next = Null
       /\ \A x \in DOMAIN q.mem \ {l, p} : /\ b.mem[x].next = q.mem[x].next
                                           /\ b.mem[x].free = q.mem[x].free
                                           /\ b.mem[x].value = q.mem[x].value
       /\ b.produce = p /\ b.consume = First
  BY <1>10, <1>12, <1>13 DEF Advanced, MovedTo, NextBlock
<1>15. \A i \in 1 .. n : s[i] # o => s[i] \in D \ {o, p, l} /\ s[i] \in E
  BY <1>7, <1>10, <1>11, <1>14
<1>16. \A x \in D \ {o, p, l} : /\ b.mem[x].next = r.mem[x].next
                                /\ b.mem[x].free = r.mem[x].free
                                /\ b.mem[x].value = r.mem[x].value
                                /\ NextBlock(b, x) = NextBlock(r, x)
  BY <1>11, <1>14 DEF NextBlock
<1>17. r.produce = p
  <2>1. r.produce = o \/ r.produce = p
    BY <1>10, <1>11 DEF MovedTo
  <2>2. r.produce = o => p = o
    <3>. SUFFICES ASSUME r.produce = o, p # o PROVE FALSE
      OBVIOUS
    <3>1. r.mem[p].free
      BY <1>11
    <3>2. p = r.last
      BY <1>7, <1>9, <1>11, <3>1
    <3>. QED  BY <1>5, <1>10, <3>2
  <2>. QED  BY <2>1, <2>2
<1>18. \A x \in E : b.mem[x].free <=> x = p
  <2>. SUFFICES ASSUME NEW x \in E PROVE b.mem[x].free <=> x = p
    OBVIOUS
  <2>1. CASE x = p
    BY <1>14, <2>1
  <2>2. CASE x # p
    <3>1. x \in D \ {o, p, l}
      BY <1>11, <1>14, <2>2
    <3>2. ~r.mem[x].free
      <4>1. ~r.mem[First].free
        <5>1. 2 \in 1 .. n
          BY <1>7
        <5>. QED  BY <1>7, <1>10, <5>1
      <4>. QED  BY <1>5, <1>9, <1>17, <3>1, <4>1
    <3>. QED  BY <1>16, <2>2, <3>1, <3>2
  <2>. QED  BY <2>1, <2>2
<1>19. t \in Seq(E)
  <2>1. \A i \in 1 .. n - 1 : t[i] \in E
    BY <1>7, <1>15
  <2>2. t \in Seq(D)
    BY <1>2 DEF Queued
  <2>3. DOMAIN t = 1 .. n - 1
    BY <1>7, <2>2
  <2>. HIDE DEF D, E
  <2>. QED  BY <1>7, <2>1, <2>2, <2>3
<1>20. \A i, j \in 1 .. n - 1 : t[i] = t[j] => i = j
  BY <1>7
<1>21. ASSUME NEW x \in E PROVE ~b.mem[x].free <=> \E i \in 1 .. n - 1 : t[i] = x
  <2>1. ASSUME NEW i \in 1 .. n - 1, t[i] = x PROVE ~b.mem[x].free
    <3>1. t[i] = s[i + 1] /\ i + 1 \in 1 .. n /\ s[i + 1] # o
      BY <1>7, <2>1
    <3>2. x # p
      BY <1>15, <2>1, <3>1
    <3>. QED  BY <1>18, <3>2
  <2>2. ASSUME ~b.mem[x].free PROVE \E i \in 1 .. n - 1 : t[i] = x
    <3>1. x \in D \ {o, p, l}
      BY <1>11, <1>14, <2>2
    <3>2. PICK i \in 1 .. n : s[i] = x
      BY <1>7, <1>16, <2>2, <3>1
    <3>3. i # 1
      BY <1>7, <3>1, <3>2
    <3>4. i - 1 \in 1 .. n - 1 /\ (i - 1) + 1 = i
      BY <1>7, <3>3
    <3>5. t[i - 1] = x
      BY <1>7, <3>2, <3>4
    <3>. QED  BY <3>4, <3>5
  <2>. QED  BY <2>1, <2>2
<1>22. t[1] = b.consume
  <2>1. t[1] = s[2]
    BY <1>7
  <2>. QED  BY <1>10, <1>14, <2>1
<1>23. b.produce = NextBlock(b, t[n - 1])
  <2>1. t[n - 1] = s[n] /\ s[n] \in D \ {o, p, l}
    <3>1. (n - 1) + 1 = n /\ n \in 1 .. n
      BY <1>7
    <3>. QED  BY <1>7, <1>15, <3>1
  <2>. QED  BY <1>7, <1>14, <1>16, <1>17, <2>1
<1>24. \A i \in 1 .. n - 2 : Follows(b, t[i], t[i + 1])
  <2>. SUFFICES ASSUME NEW i \in 1 .. n - 2 PROVE Follows(b, t[i], t[i + 1])
    OBVIOUS
  <2>0. n \in Nat /\ n >= 2
    BY <1>7
  <2>1. i \in 1 .. n - 1 /\ i + 1 \in 1 .. n - 1 /\ i + 1 \in 1 .. n /\ (i + 1) + 1 \in 1 .. n
        /\ 2 \in 1 .. n /\ (i + 1) + 1 # 2
    BY <2>0
  <2>2. t[i] = s[i + 1] /\ t[i + 1] = s[(i + 1) + 1] /\ s[i + 1] \in D \ {o, p, l}
        /\ Follows(r, s[i + 1], s[(i + 1) + 1])
    BY <1>7, <1>8, <1>15, <2>1
  <2>3. s[(i + 1) + 1] # First
    BY <1>7, <1>10, <2>1
  <2>. QED  BY <1>16, <2>2, <2>3 DEF Follows
<1>25. NextBlock(b, b.produce) = b.consume
  BY <1>14 DEF NextBlock
<1>26. Queued(b, t)
  <2>1. Len(t) = n - 1 /\ Len(t) - 1 = n - 2
    BY <1>7
  <2>2. b.produce \in E
    BY <1>1 DEF Ordered
  <2>. HIDE DEF D
  <2>. QED  BY <1>7, <1>14, <1>18, <1>19, <1>20, <1>21, <1>22, <1>23, <1>24, <1>25, <2>1, <2>2 DEF Queued
<1>27. \A x \in D : ~r.mem[x].free /\ x # o => b.mem[x].value = r.mem[x].value
  BY <1>10, <1>11, <1>16
<1>. QED  BY <1>2, <1>4, <1>26, <1>27 DEF Unharmed

\* One free block is what Init leaves.
LEMMA OneBlock ==
  ASSUME NEW m, Tiled(m), m.last = First, m.mem[First].free
  PROVE  m = Empty
<1>1. Ordered(m) /\ IsRing(m)
  BY Ordering DEF Tiled
<1>2. DOMAIN m.mem = {First} /\ m.produce = First /\ m.consume = First
  BY <1>1 DEF Ordered
<1>3. m.mem[First] \in Block /\ Fits(m, First)
  BY <1>2 DEF Tiled
<1>4. m.mem[First].next = Null /\ m.mem[First].prev = Null
  BY <1>1, <1>2 DEF Ordered
<1>5. m.mem[First].size = Size /\ m.mem[First].value = Null
  <2>1. First + m.mem[First].size = Size /\ m.mem[First].value = Null
    BY <1>3, <1>4 DEF Fits
  <2>2. m.mem[First].size \in Int
    BY <1>2, BlockFacts
  <2>. QED  BY <2>1, <2>2 DEF First
<1>6. m.mem[First] = [prev |-> Null, next |-> Null, free |-> TRUE, size |-> Size, value |-> Null]
  <2>1. m.mem[First].free = TRUE
    BY <1>3 DEF Block
  <2>. QED  BY <1>3, <1>4, <1>5, <2>1 DEF Block
<1>7. m.mem = [x \in {First} |-> [prev |-> Null, next |-> Null, free |-> TRUE, size |-> Size,
                                  value |-> Null]]
  BY <1>1, <1>2, <1>6 DEF IsRing
<1>. QED  BY <1>1, <1>2, <1>7 DEF IsRing, Empty

\* The last item is freed: what is left joins to one free block.
LEMMA QueueEnds ==
  ASSUME NEW r, Tiled(r), NEW s, Queued(r, s), Len(s) = 1,
         NEW q, Tiled(q), NEW p, Popped(r, q, p)
  PROVE  q.consume = q.produce /\ MergeBack(q, q.consume) = Empty
<1>. DEFINE D == DOMAIN r.mem
<1>1. Ordered(r) /\ Ordered(q)
  BY Ordering
<1>2. PICK o : o = r.consume
  OBVIOUS
<1>3. PICK y : y = r.produce
  OBVIOUS
<1>4. /\ s[1] = o /\ o \in D /\ ~r.mem[o].free /\ y = NextBlock(r, o) /\ y \in D
      /\ \A x \in D : ~r.mem[x].free => x = o
  <2>1. 1 \in 1 .. 1 /\ \A i \in 1 .. 1 : i = 1
    OBVIOUS
  <2>2. \A x \in D : ~r.mem[x].free <=> \E i \in 1 .. 1 : s[i] = x
    BY DEF Queued
  <2>3. s[1] = o /\ y = NextBlock(r, o)
    BY <1>2, <1>3 DEF Queued
  <2>4. o \in D /\ y \in D
    BY <1>1, <1>2, <1>3 DEF Ordered
  <2>. QED  BY <2>1, <2>2, <2>3, <2>4
<1>5. /\ \/ y = o
         \/ /\ r.mem[y].free
            /\ \/ NextBlock(r, y) = o
               \/ y = r.last /\ r.mem[First].free /\ NextBlock(r, First) = o
  BY <1>2, <1>3 DEF Queued
<1>6. /\ DOMAIN q.mem = IF p = o THEN D ELSE D \ {o}
      /\ p \in D /\ p \in DOMAIN q.mem /\ q.mem[p].free /\ q.mem[p].next = r.mem[o].next
      /\ \A x \in D \ {o, p} : /\ q.mem[x].next = r.mem[x].next
                               /\ q.mem[x].free = r.mem[x].free
      /\ IF p = o THEN r.mem[o].prev = Null \/ ~r.mem[r.mem[o].prev].free
                  ELSE r.mem[p].next = o /\ r.mem[p].free
      /\ q.produce = MovedTo(y, o, p)
      /\ q.consume = y
      /\ q.last = MovedTo(r.last, o, p)
  BY <1>2, <1>3, <1>4 DEF Popped
<1>7. \A x \in DOMAIN q.mem : q.mem[x].free
  BY <1>4, <1>6
<1>8. \A x \in D : r.mem[x].free /\ r.mem[x].next = o => p = x
  <2>. SUFFICES ASSUME NEW x \in D, r.mem[x].free, r.mem[x].next = o PROVE p = x
    OBVIOUS
  <2>1. x # Null /\ o # Null
    BY <1>1, <1>4 DEF Ordered
  <2>2. r.mem[o].prev = x
    BY <1>1, <2>1 DEF Ordered
  <2>3. p # o => r.mem[o].prev = p
    BY <1>1, <1>6, <2>1 DEF Ordered
  <2>. QED  BY <1>6, <2>1, <2>2, <2>3
<1>9. q.last = First => q.consume = First /\ MergeBack(q, q.consume) = Empty
  <2>. SUFFICES ASSUME q.last = First PROVE q.consume = First /\ MergeBack(q, q.consume) = Empty
    OBVIOUS
  <2>1. DOMAIN q.mem = {First} /\ q.consume = First /\ q.mem[First].prev = Null
    BY <1>1 DEF Ordered
  <2>2. MergeBack(q, q.consume) = q
    BY <2>1 DEF MergeBack, MergesBack
  <2>3. q = Empty
    BY <1>7, <2>1, OneBlock
  <2>. QED  BY <2>1, <2>2, <2>3
<1>10. ASSUME y \in DOMAIN q.mem, q.mem[y].next = Null, q.mem[First].next = y, y # First
       PROVE  MergeBack(q, y) = Empty
  <2>1. First \in DOMAIN q.mem /\ y # Null /\ First # Null
    BY <1>1, <1>10 DEF Ordered
  <2>2. q.mem[y].prev = First
    BY <1>1, <1>10, <2>1 DEF Ordered
  <2>3. MergesBack(q, y)
    BY <1>7, <1>10, <2>1, <2>2 DEF MergesBack
  <2>4. PICK m : m = MergeBack(q, y)
    OBVIOUS
  <2>5. Tiled(m) /\ Joined(q, m, y, First)
    BY <1>10, <2>2, <2>3, <2>4, Joining
  <2>6. m.last = First /\ m.mem[First].free
    BY <1>10, <2>5 DEF Joined
  <2>. QED  BY <2>4, <2>5, <2>6, OneBlock
<1>11. First \in D
  BY <1>1 DEF Ordered
<1>12. CASE y = o
  <2>1. r.last = First /\ o = First
    <3>1. /\ NextBlock(r, o) = IF o = r.last THEN First ELSE r.mem[o].next
          /\ o = r.last <=> r.mem[o].next = Null
          /\ r.mem[o].next # Null => r.mem[o].next # o
      BY <1>1, <1>4 DEF Ordered
    <3>. QED  BY <1>4, <1>12, <3>1
  <2>2. p = o
    BY <1>1, <1>6, <2>1 DEF Ordered
  <2>3. q.last = First /\ q.produce = y
    BY <1>6, <1>12, <2>1, <2>2 DEF MovedTo
  <2>. QED  BY <1>6, <1>9, <2>3
<1>13. CASE y # o /\ r.mem[o].next = Null
  <2>1. o = r.last /\ y = First /\ r.last # First
    BY <1>1, <1>4, <1>13 DEF Ordered
  <2>2. r.mem[First].free /\ NextBlock(r, First) = o
    BY <1>5, <1>13, <2>1
  <2>3. r.mem[First].next = o
    BY <1>1, <1>11, <2>1, <2>2 DEF Ordered
  <2>4. p = First
    BY <1>8, <1>11, <2>2, <2>3
  <2>5. q.last = First /\ q.produce = y
    BY <1>6, <1>13, <2>1, <2>4 DEF MovedTo
  <2>. QED  BY <1>6, <1>9, <2>5
<1>14. CASE y # o /\ r.mem[o].next # Null
  <2>1. r.mem[o].next = y /\ y # First /\ r.mem[y].free
    BY <1>1, <1>4, <1>5, <1>14 DEF Ordered
  <2>2. y = r.last /\ p = First
    <3>1. CASE NextBlock(r, y) = o
      <4>1. r.mem[y].next # o
        <5>. SUFFICES ASSUME r.mem[y].next = o PROVE FALSE
          OBVIOUS
        <5>1. o # Null /\ y # Null
          BY <1>1, <1>4 DEF Ordered
        <5>2. Fits(r, o) /\ Fits(r, y)
          BY <1>4 DEF Tiled
        <5>3. y = o + r.mem[o].size /\ o = y + r.mem[y].size
          BY <2>1, <5>1, <5>2 DEF Fits
        <5>4. /\ o \in Int /\ y \in Int /\ r.mem[o].size \in Int /\ 1 <= r.mem[o].size
              /\ r.mem[y].size \in Int /\ 1 <= r.mem[y].size
          BY <1>4, BlockFacts
        <5>5. PICK a, c : a = r.mem[o].size /\ c = r.mem[y].size
          OBVIOUS
        <5>6. /\ o \in Int /\ y \in Int /\ a \in Int /\ c \in Int /\ 1 <= a /\ 1 <= c
              /\ y = o + a /\ o = y + c
          BY <5>3, <5>4, <5>5
        <5>. QED  BY <5>6
      <4>2. y = r.last /\ o = First
        BY <1>1, <1>4, <3>1, <4>1 DEF Ordered
      <4>3. p = o
        BY <1>1, <1>4, <1>6, <4>2 DEF Ordered
      <4>. QED  BY <4>2, <4>3
    <3>2. CASE y = r.last /\ r.mem[First].free /\ NextBlock(r, First) = o
      <4>1. r.mem[First].next = o
        BY <1>1, <1>11, <2>1, <3>2 DEF Ordered
      <4>. QED  BY <1>8, <1>11, <3>2, <4>1
    <3>. QED  BY <1>5, <1>14, <3>1, <3>2
  <2>3. y \in D \ {o, p} /\ y \in DOMAIN q.mem
    BY <1>4, <1>6, <1>14, <2>1, <2>2
  <2>4. q.mem[y].next = Null
    <3>1. r.mem[y].next = Null
      BY <1>1, <1>4, <2>2 DEF Ordered
    <3>. QED  BY <1>6, <2>3, <3>1
  <2>5. q.mem[First].next = y
    BY <1>6, <2>1, <2>2
  <2>6. q.produce = y
    BY <1>6, <1>14 DEF MovedTo
  <2>. QED  BY <1>6, <1>10, <2>1, <2>3, <2>4, <2>5, <2>6
<1>. QED  BY <1>12, <1>13, <1>14

\* A loop whose first turn leaves nothing to do turns once.
LEMMA SkippedOnce ==
  ASSUME NEW r, SkipOne(SkipOne(r)) = SkipOne(r)
  PROVE  SkipFree(r) = SkipOne(r)
<1>1. Size \in Nat /\ Size # 0
  BY RingAssumption
<1>. DEFINE Loop(f) == f = [n \in 0 .. Size |-> IF n = 0 THEN r ELSE SkipOne(f[n - 1])]
<1>2. PICK e : e = [n \in 0 .. Size |-> IF n = 0 THEN r ELSE SkipOne(r)]
  OBVIOUS
<1>3. Loop(e)
  <2>1. \A n \in 0 .. Size : n # 0 => n - 1 \in 0 .. Size
    BY <1>1
  <2>2. \A n \in 0 .. Size : n # 0 => SkipOne(e[n - 1]) = SkipOne(r)
    <3>. SUFFICES ASSUME NEW n \in 0 .. Size, n # 0 PROVE SkipOne(e[n - 1]) = SkipOne(r)
      OBVIOUS
    <3>1. e[n - 1] = r \/ e[n - 1] = SkipOne(r)
      BY <1>2, <2>1
    <3>. QED  BY <3>1
  <2>3. [n \in 0 .. Size |-> IF n = 0 THEN r ELSE SkipOne(e[n - 1])]
          = [n \in 0 .. Size |-> IF n = 0 THEN r ELSE SkipOne(r)]
    BY <2>2
  <2>. QED  BY <1>2, <2>3
<1>4. PICK f : f = (CHOOSE g : Loop(g)) /\ Loop(f)
  <2>. HIDE DEF Loop
  <2>. QED  BY <1>3
<1>5. SkipFree(r) = f[Size]
  BY <1>4 DEF SkipFree
<1>6. f[0] = r /\ \A n \in 1 .. Size : f[n] = SkipOne(f[n - 1])
  <2>1. 0 \in 0 .. Size /\ \A n \in 1 .. Size : n \in 0 .. Size /\ n # 0
    BY <1>1
  <2>2. f = [n \in 0 .. Size |-> IF n = 0 THEN r ELSE SkipOne(f[n - 1])]
    BY <1>4
  <2>. QED  BY <2>1, <2>2
<1>. HIDE DEF Loop
<1>7. \A n \in 0 .. Size : n \in {k \in 0 .. Size : k = 0 \/ f[k] = SkipOne(r)}
  <2>. DEFINE T == {k \in 0 .. Size : k = 0 \/ f[k] = SkipOne(r)}
  <2>1. 0 \in T
    BY <1>1
  <2>2. ASSUME NEW n \in 1 .. Size, n - 1 \in T PROVE n \in T
    <3>1. f[n - 1] = r \/ f[n - 1] = SkipOne(r)
      BY <1>6, <2>2
    <3>2. f[n] = SkipOne(r)
      BY <1>6, <3>1
    <3>3. n \in 0 .. Size
      BY <1>1
    <3>. QED  BY <3>2, <3>3
  <2>. HIDE DEF T
  <2>3. \A n \in 0 .. Size : n \in T
    BY <1>1, <2>1, <2>2, NumbersUpTo
  <2>. QED  BY <2>3 DEF T
<1>8. Size \in 0 .. Size
  BY <1>1
<1>. QED  BY <1>1, <1>5, <1>7, <1>8

\* The buffer that PopFirst leaves: the queue without its first item.
Shrunk(r) ==
  LET freed == [r EXCEPT !.mem[r.consume].free = TRUE, !.mem[r.consume].value = Null]
      skipped == SkipFree(Advance(freed, freed.consume))
  IN  MergeBack(skipped, skipped.consume)

\* PopFirst: the queue loses its first item, and with the last one the memory is
\* one free block again.
LEMMA PopShrinks ==
  ASSUME NEW r, Tiled(r), NEW s, Queued(r, s), NEW z, z = Shrunk(r)
  PROVE  /\ Tiled(z)
         /\ Len(s) = 1 => z = Empty
         /\ Len(s) >= 2 => Queued(z, Tail(s)) /\ Unharmed(r, z)
<1>1. Len(s) \in Nat /\ Len(s) # 0
  BY DEF Queued
<1>2. ~r.mem[r.consume].free /\ r.consume \in DOMAIN r.mem
  <2>1. 1 \in 1 .. Len(s)
    BY <1>1
  <2>2. r.consume \in DOMAIN r.mem
    BY Ordering DEF Ordered
  <2>. QED  BY <2>1, <2>2 DEF Queued
<1>3. PICK f : f = [r EXCEPT !.mem[r.consume].free = TRUE, !.mem[r.consume].value = Null]
  OBVIOUS
<1>4. PICK q : q = Advance(f, f.consume)
  OBVIOUS
<1>5. Tiled(q) /\ \E p : Popped(r, q, p)
  BY <1>2, <1>3, <1>4, Popping
<1>6. PICK p : Popped(r, q, p)
  BY <1>5
<1>7. z = MergeBack(SkipFree(q), SkipFree(q).consume)
  BY <1>3, <1>4 DEF Shrunk
<1>8. CASE Len(s) = 1
  <2>1. q.consume = q.produce /\ MergeBack(q, q.consume) = Empty
    BY <1>5, <1>6, <1>8, QueueEnds
  <2>2. SkipOne(q) = q
    BY <2>1 DEF SkipOne
  <2>3. SkipFree(q) = q
    BY <2>2, SkippedOnce
  <2>4. z = Empty
    BY <1>7, <2>1, <2>3
  <2>. QED  BY <1>8, <2>4, QueueStarts
<1>9. ASSUME Len(s) >= 2, NEW b, Tiled(b), Queued(b, Tail(s)), SkipFree(q) = b PROVE z = b
  <2>1. Tail(s) # <<>> /\ Len(Tail(s)) \in Nat /\ Len(Tail(s)) # 0
    BY <1>9 DEF Queued
  <2>2. 1 \in 1 .. Len(Tail(s))
    BY <2>1
  <2>3. b.consume \in DOMAIN b.mem
    BY <1>9, Ordering DEF Ordered
  <2>4. ~b.mem[b.consume].free
    BY <1>9, <2>2, <2>3 DEF Queued
  <2>. QED  BY <1>7, <1>9, <2>4 DEF MergeBack, MergesBack
<1>10. ASSUME Len(s) >= 2, NEW b, Tiled(b), Queued(b, Tail(s)) PROVE SkipOne(b) = b
  <2>1. Tail(s) # <<>> /\ Len(Tail(s)) \in Nat /\ Len(Tail(s)) # 0
    BY <1>10 DEF Queued
  <2>2. 1 \in 1 .. Len(Tail(s))
    BY <2>1
  <2>3. b.consume \in DOMAIN b.mem
    BY <1>10, Ordering DEF Ordered
  <2>4. ~b.mem[b.consume].free
    BY <1>10, <2>2, <2>3 DEF Queued
  <2>. QED  BY <2>4 DEF SkipOne
<1>11. CASE Len(s) >= 2 /\ NextBlock(r, s[1]) = s[2]
  <2>1. Queued(q, Tail(s))
    BY <1>5, <1>6, <1>11, QueueShrinks
  <2>2. SkipFree(q) = q
    BY <1>5, <1>10, <1>11, <2>1, SkippedOnce
  <2>3. z = q
    BY <1>5, <1>9, <1>11, <2>1, <2>2
  <2>4. p # r.consume => r.mem[p].free
    BY <1>6 DEF Popped
  <2>5. Unharmed(r, q)
    BY <1>6, <2>4 DEF Popped, Unharmed
  <2>. QED  BY <1>5, <1>11, <2>1, <2>3, <2>5
<1>12. CASE Len(s) >= 2 /\ NextBlock(r, s[1]) # s[2]
  <2>1. q.consume \in DOMAIN q.mem /\ q.mem[q.consume].free /\ q.consume # q.produce
    BY <1>5, <1>6, <1>12, LastIsSkipped
  <2>2. PICK b : b = Advance(q, q.consume)
    OBVIOUS
  <2>3. PICK w : w = Merged(q, q.consume)
    OBVIOUS
  <2>4. Tiled(b) /\ Advanced(q, b, q.consume, w)
    <3>1. PICK y : y = q.consume
      OBVIOUS
    <3>2. b = Advance(q, y) /\ w = Merged(q, y) /\ y \in DOMAIN q.mem /\ q.mem[y].free
      BY <2>1, <2>2, <2>3, <3>1
    <3>3. Tiled(b) /\ Advanced(q, b, y, w)
      BY <1>5, <3>2, Advancing
    <3>. QED  BY <3>1, <3>3
  <2>5. /\ Queued(b, Tail(s))
        /\ Unharmed(r, b)
    BY <1>5, <1>6, <1>12, <2>4, QueueSkips
  <2>6. SkipOne(q) = b
    BY <2>1, <2>2 DEF SkipOne
  <2>7. SkipOne(b) = b
    BY <1>10, <1>12, <2>4, <2>5
  <2>8. SkipFree(q) = b
    BY <2>6, <2>7, SkippedOnce
  <2>9. z = b
    BY <1>9, <1>12, <2>4, <2>5, <2>8
  <2>. QED  BY <1>12, <2>4, <2>5, <2>9
<1>13. Len(s) = 1 \/ Len(s) >= 2
  <2>1. PICK n : n = Len(s)
    OBVIOUS
  <2>2. n \in Nat /\ n # 0
    BY <1>1, <2>1
  <2>3. n = 1 \/ n >= 2
    BY <2>2
  <2>. QED  BY <2>1, <2>3
<1>14. CASE Len(s) >= 2
  BY <1>11, <1>12, <1>14
<1>. QED  BY <1>8, <1>13, <1>14

\* Allocate: the queue gains the item that is taken.
LEMMA AllocateGrows ==
  ASSUME NEW r, Tiled(r), NEW wanted \in Wanted, NEW v \in Values,
         NEW o, o = FindBlock(r, wanted), o # Null,
         NEW z, z = Take(Split(r, o, wanted), o, v)
  PROVE  /\ Tiled(z) /\ o \in DOMAIN r.mem /\ r.mem[o].free /\ z.mem[o].value = v
         /\ \A x \in DOMAIN r.mem \ {o} : z.mem[x].value = r.mem[x].value
         /\ r = Empty => Queued(z, <<o>>)
         /\ \A s : Queued(r, s) => Queued(z, Append(s, o))
<1>1. Ordered(r) /\ wanted \in Nat \ {0}
  BY Ordering, RingAssumption
<1>2. r.mem[r.produce].free /\ r.mem[o].free /\ (o = r.produce \/ o = First)
  BY DEF FindBlock
<1>3. o \in DOMAIN r.mem
  BY <1>1, <1>2 DEF Ordered
<1>4. Tiled(z) /\ Taken(r, z, o, v)
  BY <1>1, <1>2, <1>3, Taking
<1>5. \A s : Queued(r, s) => Queued(z, Append(s, o))
  BY <1>2, <1>3, <1>4, QueueGrows
<1>6. ASSUME r = Empty PROVE Queued(z, <<o>>)
  <2>1. o = First
    BY <1>3, <1>6 DEF Empty
  <2>. QED  BY <1>4, <1>6, <2>1, QueueStarts
<1>. QED  BY <1>2, <1>3, <1>4, <1>5, <1>6 DEF Taken

-----------------------------------------------------------------------------
(***************************************************************************)
(* What the owner finds with First and Next are the items of the queue.    *)
(***************************************************************************)
\* Next(o): the block behind o, or the one behind that when the first is free.
LEMMA NextFinds ==
  ASSUME NEW r, Tiled(r), NEW o \in DOMAIN r.mem, NEW y,
         y = r.produce \/ ~r.mem[y].free,
         \/ y = NextBlock(r, o)
         \/ /\ y = NextBlock(r, NextBlock(r, o))
            /\ NextBlock(r, o) # r.produce /\ r.mem[NextBlock(r, o)].free
            /\ Size >= 2
  PROVE  NextItem(r, o) = IF y = r.produce THEN Null ELSE y
<1>. DEFINE D == DOMAIN r.mem
            F == [x \in D |-> NextBlock(r, x)]
            Loop(f) == f = [n \in 0 .. Size |-> IF n = 0 THEN o ELSE F[f[n - 1]]]
<1>1. Size \in Nat /\ Size >= 1
  BY RingAssumption
<1>2. F \in [D -> D]
  BY Ordering DEF Ordered
<1>3. \E f : Loop(f)
  <2>. DEFINE step == [n \in 1 .. Size |-> F]
  <2>1. step \in Turns(Size, D) /\ \A n \in 1 .. Size : step[n] = F
    <3>. HIDE DEF F, D
    <3>. QED  BY <1>2 DEF Turns
  <2>. HIDE DEF step
  <2>2. o \in D
    OBVIOUS
  <2>. HIDE DEF F, D
  <2>3. PICK f \in [0 .. Size -> D] : Runs(f, o, step, Size)
    BY <1>1, <2>1, <2>2, RunExists
  <2>4. \A n \in 0 .. Size : f[n] = IF n = 0 THEN o ELSE F[f[n - 1]]
    BY <1>1, <2>1, <2>3 DEF Runs
  <2>5. Loop(f)
    BY <2>3, <2>4
  <2>. QED  BY <2>5
<1>4. PICK f : f = (CHOOSE g : Loop(g)) /\ Loop(f)
  <2>. HIDE DEF Loop
  <2>. QED  BY <1>3
<1>. DEFINE Ends(n) == f[n] = r.produce \/ ~r.mem[f[n]].free
            at == CHOOSE n \in 1 .. Size : Ends(n) /\ \A k \in 1 .. n - 1 : ~Ends(k)
<1>5. NextItem(r, o) = IF f[at] = r.produce THEN Null ELSE f[at]
  BY <1>4 DEF NextItem
<1>6. f[1] = NextBlock(r, o) /\ (Size >= 2 => f[2] = NextBlock(r, NextBlock(r, o)))
  <2>1. f[1] = F[f[0]] /\ f[0] = o /\ (Size >= 2 => f[2] = F[f[1]])
    <3>1. 0 \in 0 .. Size /\ 1 \in 0 .. Size /\ (Size >= 2 => 2 \in 0 .. Size)
      BY <1>1
    <3>2. f = [n \in 0 .. Size |-> IF n = 0 THEN o ELSE F[f[n - 1]]]
      BY <1>4
    <3>. HIDE DEF F, Loop
    <3>. QED  BY <3>1, <3>2
  <2>2. NextBlock(r, o) \in D
    BY Ordering DEF Ordered
  <2>. QED  BY <2>1, <2>2
<1>. HIDE DEF Loop, F, D
<1>7. CASE y = NextBlock(r, o)
  <2>. DEFINE P(n) == Ends(n) /\ \A k \in 1 .. n - 1 : ~Ends(k)
  <2>1. 1 \in 1 .. Size /\ P(1) /\ f[1] = y
    BY <1>1, <1>6, <1>7
  <2>2. \A n \in 1 .. Size : P(n) => n = 1
    <3>1. Ends(1)
      BY <2>1
    <3>2. \A n \in 1 .. Size : n = 1 \/ 1 \in 1 .. n - 1
      BY <1>1
    <3>. HIDE DEF Ends
    <3>. QED  BY <3>1, <3>2
  <2>3. at = CHOOSE n \in 1 .. Size : P(n)
    OBVIOUS
  <2>. HIDE DEF P, at
  <2>4. at = 1
    BY <2>1, <2>2, <2>3
  <2>. QED  BY <1>5, <2>1, <2>4
<1>8. CASE /\ y = NextBlock(r, NextBlock(r, o))
           /\ NextBlock(r, o) # r.produce /\ r.mem[NextBlock(r, o)].free
           /\ Size >= 2
  <2>. DEFINE P(n) == Ends(n) /\ \A k \in 1 .. n - 1 : ~Ends(k)
  <2>1. 2 \in 1 .. Size /\ f[2] = y /\ Ends(2) /\ ~Ends(1)
    BY <1>1, <1>6, <1>8
  <2>2. P(2)
    <3>1. \A k \in 1 .. 2 - 1 : k = 1
      OBVIOUS
    <3>. HIDE DEF Ends
    <3>. QED  BY <2>1, <3>1
  <2>3. \A n \in 1 .. Size : P(n) => n = 2
    <3>1. \A n \in 1 .. Size : n = 1 \/ n = 2 \/ 2 \in 1 .. n - 1
      BY <1>1
    <3>2. Ends(2) /\ ~Ends(1)
      BY <2>1
    <3>. HIDE DEF Ends
    <3>. QED  BY <3>1, <3>2
  <2>4. at = CHOOSE n \in 1 .. Size : P(n)
    OBVIOUS
  <2>. HIDE DEF P, at
  <2>5. at = 2
    BY <2>1, <2>2, <2>3, <2>4
  <2>. QED  BY <1>5, <2>1, <2>5
<1>. QED  BY <1>7, <1>8

\* A function of numbers that is defined from one to the next is what its values
\* say it is: here the items that First and Next return, Null after the last.
LEMMA FoundItems ==
  ASSUME NEW r, NEW n \in Nat, n <= Size, NEW s, Len(s) = n, s = [i \in 1 .. n |-> s[i]],
         \A i \in 1 .. n : s[i] \in DOMAIN r.mem, Null \notin DOMAIN r.mem,
         FirstItem(r) = IF n = 0 THEN Null ELSE s[1],
         \A i \in 1 .. n : NextItem(r, s[i]) = IF i = n THEN Null ELSE s[i + 1]
  PROVE  Visited(r) = s
<1>. DEFINE D == DOMAIN r.mem
            F == [o \in D \union {Null} |-> IF o = Null THEN Null ELSE NextItem(r, o)]
            Loop(f) == f = [k \in 0 .. Size |-> IF k = 0 THEN FirstItem(r) ELSE F[f[k - 1]]]
            At(k) == IF k < n THEN s[k + 1] ELSE Null
<1>1. Size \in Nat /\ n \in Nat /\ n <= Size
  BY RingAssumption
<1>2. FirstItem(r) = At(0)
  BY <1>1
<1>3. \A k \in 1 .. Size : F[At(k - 1)] = At(k)
  <2>. SUFFICES ASSUME NEW k \in 1 .. Size PROVE F[At(k - 1)] = At(k)
    OBVIOUS
  <2>1. CASE k - 1 < n
    <3>1. k \in 1 .. n /\ (k - 1) + 1 = k
      BY <1>1, <2>1
    <3>2. At(k - 1) = s[k] /\ s[k] \in D /\ s[k] # Null
      BY <2>1, <3>1
    <3>3. F[s[k]] = NextItem(r, s[k])
      BY <3>2
    <3>4. k < n <=> k # n
      BY <1>1, <3>1
    <3>. QED  BY <3>1, <3>2, <3>3, <3>4
  <2>2. CASE ~(k - 1 < n)
    <3>1. ~(k < n)
      BY <1>1, <2>2
    <3>. QED  BY <2>2, <3>1
  <2>. QED  BY <2>1, <2>2
<1>4. PICK e : e = [k \in 0 .. Size |-> At(k)]
  OBVIOUS
<1>. HIDE DEF F, At
<1>5. Loop(e)
  <2>1. \A k \in 0 .. Size : At(k) = IF k = 0 THEN FirstItem(r) ELSE F[e[k - 1]]
    <3>. SUFFICES ASSUME NEW k \in 0 .. Size
                  PROVE  At(k) = IF k = 0 THEN FirstItem(r) ELSE F[e[k - 1]]
      OBVIOUS
    <3>1. k # 0 => k \in 1 .. Size /\ k - 1 \in 0 .. Size
      BY <1>1
    <3>2. k # 0 => e[k - 1] = At(k - 1)
      BY <1>4, <3>1
    <3>. QED  BY <1>2, <1>3, <3>1, <3>2
  <2>. QED  BY <1>4, <2>1
<1>6. PICK f : f = (CHOOSE g : Loop(g)) /\ Loop(f)
  <2>. HIDE DEF Loop
  <2>. QED  BY <1>5
<1>7. \A k \in 0 .. Size : f[k] = At(k)
  <2>. DEFINE T == {k \in 0 .. Size : f[k] = At(k)}
  <2>0. f = [k \in 0 .. Size |-> IF k = 0 THEN FirstItem(r) ELSE F[f[k - 1]]]
    BY <1>6
  <2>. HIDE DEF Loop
  <2>1. 0 \in T
    <3>1. 0 \in 0 .. Size
      BY <1>1
    <3>. QED  BY <1>2, <2>0, <3>1
  <2>2. ASSUME NEW k \in 1 .. Size, k - 1 \in T PROVE k \in T
    <3>1. k \in 0 .. Size /\ k # 0
      BY <1>1
    <3>2. f[k] = F[f[k - 1]]
      BY <2>0, <3>1
    <3>. QED  BY <1>3, <2>2, <3>1, <3>2
  <2>. HIDE DEF T
  <2>3. \A k \in 0 .. Size : k \in T
    BY <1>1, <2>1, <2>2, NumbersUpTo
  <2>. QED  BY <2>3 DEF T
<1>8. PICK number : number = Cardinality({k \in 0 .. Size : f[k] # Null})
  OBVIOUS
<1>9. Visited(r) = [i \in 1 .. number |-> f[i - 1]]
  BY <1>6, <1>8 DEF Visited, F
<1>. HIDE DEF Loop
<1>10. number = n
  <2>1. {k \in 0 .. Size : f[k] # Null} = 0 .. n - 1
    <3>1. \A k \in 0 .. Size : f[k] # Null <=> k < n
      <4>. SUFFICES ASSUME NEW k \in 0 .. Size PROVE f[k] # Null <=> k < n
        OBVIOUS
      <4>1. k < n => k + 1 \in 1 .. n
        BY <1>1
      <4>2. k < n => s[k + 1] # Null
        BY <4>1
      <4>. QED  BY <1>7, <4>2 DEF At
    <3>2. \A k : k \in 0 .. n - 1 <=> k \in 0 .. Size /\ k < n
      BY <1>1
    <3>. QED  BY <3>1, <3>2
  <2>2. Cardinality(0 .. n - 1) = n
    <3>1. 0 \in Int /\ n - 1 \in Int
      BY <1>1
    <3>2. Cardinality(0 .. n - 1) = IF 0 > n - 1 THEN 0 ELSE (n - 1) - 0 + 1
      BY <3>1, FS_Interval
    <3>. QED  BY <1>1, <3>2
  <2>. QED  BY <1>8, <2>1, <2>2
<1>11. \A i \in 1 .. n : f[i - 1] = s[i]
  <2>. SUFFICES ASSUME NEW i \in 1 .. n PROVE f[i - 1] = s[i]
    OBVIOUS
  <2>1. i - 1 \in 0 .. Size /\ i - 1 < n /\ (i - 1) + 1 = i
    BY <1>1
  <2>. QED  BY <1>7, <2>1 DEF At
<1>. QED  BY <1>9, <1>10, <1>11

\* First and Next find the items of the queue, in order.
LEMMA FoundAsQueued ==
  /\ Found(Empty) = <<>>
  /\ \A r, s : Tiled(r) /\ Queued(r, s) => Found(r) = s
<1>1. Found(Empty) = <<>>
  <2>1. FirstItem(Empty) = Null
    BY DEF FirstItem, Empty
  <2>. QED  BY <2>1 DEF Found
<1>2. ASSUME NEW r, NEW s, Tiled(r), Queued(r, s) PROVE Found(r) = s
  <2>. DEFINE D == DOMAIN r.mem
  <2>1. PICK n \in Nat : n = Len(s)
    BY <1>2 DEF Queued
  <2>2. s \in Seq(D) /\ n # 0 /\ DOMAIN s = 1 .. n /\ s = [i \in 1 .. n |-> s[i]]
    BY <1>2, <2>1 DEF Queued
  <2>3. /\ \A i, j \in 1 .. n : s[i] = s[j] => i = j
        /\ \A x \in D : ~r.mem[x].free <=> \E i \in 1 .. n : s[i] = x
        /\ s[1] = r.consume
        /\ r.produce = NextBlock(r, s[n])
        /\ \A i \in 1 .. n - 1 : Follows(r, s[i], s[i + 1])
        /\ r.produce = r.consume \/ r.mem[r.produce].free
    BY <1>2, <2>1 DEF Queued
  <2>4. \A i \in 1 .. n : s[i] \in D /\ ~r.mem[s[i]].free
    BY <2>2, <2>3
  <2>5. Ordered(r) /\ Size \in Nat /\ D \subseteq Offset
    BY <1>2, Ordering, RingAssumption DEF Tiled
  <2>6. n <= Size
    <3>1. PICK T : T = {s[i] : i \in DOMAIN s}
      OBVIOUS
    <3>2. IsFiniteSet(T) /\ Cardinality(T) = n
      <4>1. \A i, j \in DOMAIN s : s[i] = s[j] => i = j
        BY <2>2, <2>3
      <4>. HIDE DEF D
      <4>. QED  BY <2>1, <2>2, <3>1, <4>1, DistinctElements
    <3>3. T \subseteq 0 .. Size - 1
      BY <2>2, <2>4, <2>5, <3>1 DEF Offset
    <3>4. IsFiniteSet(0 .. Size - 1) /\ Cardinality(0 .. Size - 1) = Size
      <4>1. 0 \in Int /\ Size - 1 \in Int
        BY <2>5
      <4>2. /\ IsFiniteSet(0 .. Size - 1)
            /\ Cardinality(0 .. Size - 1) = IF 0 > Size - 1 THEN 0 ELSE (Size - 1) - 0 + 1
        BY <4>1, FS_Interval
      <4>. QED  BY <2>5, <4>2
    <3>5. Cardinality(T) <= Cardinality(0 .. Size - 1)
      BY <3>3, <3>4, FS_Subset
    <3>. QED  BY <3>2, <3>4, <3>5
  <2>7. FirstItem(r) = s[1]
    <3>1. 1 \in 1 .. n
      BY <2>2
    <3>. QED  BY <2>3, <2>4, <3>1 DEF FirstItem
  <2>8. \A i \in 1 .. n - 1 : i \in 1 .. n /\ i + 1 \in 1 .. n /\ i + 1 # 1 /\ 1 \in 1 .. n
    OBVIOUS
  <2>9. \A i \in 1 .. n - 1 : s[i + 1] # r.produce
    BY <2>3, <2>4, <2>8
  <2>10. \A i \in 1 .. n - 1 : NextItem(r, s[i]) = s[i + 1]
    <3>. SUFFICES ASSUME NEW i \in 1 .. n - 1 PROVE NextItem(r, s[i]) = s[i + 1]
      OBVIOUS
    <3>1. PICK o, y : o = s[i] /\ y = s[i + 1]
      OBVIOUS
    <3>2. o \in D /\ y \in D /\ ~r.mem[y].free /\ ~r.mem[o].free /\ y # r.produce /\ Follows(r, o, y)
      BY <2>3, <2>4, <2>8, <2>9, <3>1
    <3>3. CASE y = NextBlock(r, o)
      BY <1>2, <3>1, <3>2, <3>3, NextFinds
    <3>4. CASE NextBlock(r, o) = r.last /\ r.mem[r.last].free /\ r.last # r.produce /\ y = First
      <4>1. r.last \in D /\ NextBlock(r, r.last) = y
        BY <2>5, <3>4 DEF Ordered
      <4>2. Size >= 2
        <5>1. o \in 0 .. Size - 1 /\ r.last \in 0 .. Size - 1 /\ o # r.last
          BY <2>5, <3>2, <3>4, <4>1 DEF Offset
        <5>. QED  BY <2>5, <5>1
      <4>. QED  BY <1>2, <3>1, <3>2, <3>4, <4>1, <4>2, NextFinds
    <3>. QED  BY <3>2, <3>3, <3>4 DEF Follows
  <2>11. NextItem(r, s[n]) = Null
    <3>1. n \in 1 .. n
      BY <2>2
    <3>2. PICK o, y : o = s[n] /\ y = r.produce
      OBVIOUS
    <3>3. o \in D /\ y = NextBlock(r, o)
      BY <2>3, <2>4, <3>1, <3>2
    <3>4. NextItem(r, o) = Null
      BY <1>2, <3>2, <3>3, NextFinds
    <3>. QED  BY <3>2, <3>4
  <2>12. \A i \in 1 .. n : NextItem(r, s[i]) = IF i = n THEN Null ELSE s[i + 1]
    <3>1. \A i \in 1 .. n : i = n \/ i \in 1 .. n - 1
      OBVIOUS
    <3>. QED  BY <2>10, <2>11, <3>1
  <2>13. Null \notin D
    BY <2>5 DEF Ordered
  <2>14. Visited(r) = s
    BY <2>1, <2>2, <2>4, <2>6, <2>7, <2>12, <2>13, FoundItems
  <2>15. FirstItem(r) # Null
    <3>1. 1 \in 1 .. n
      BY <2>2
    <3>. QED  BY <2>4, <2>7, <2>13, <3>1
  <2>. QED  BY <2>14, <2>15 DEF Found
<1>. QED  BY <1>1, <1>2

-----------------------------------------------------------------------------
(***************************************************************************)
(* The inductive invariant: the blocks tile the memory, and either it is   *)
(* one free block or there is a queue of items in the used ones.           *)
(***************************************************************************)
RingInv == Tiled(ring) /\ (ring = Empty \/ \E s : Queued(ring, s))

\* Contents, for any buffer.
Holding(r) == [i \in 1 .. Len(Found(r)) |-> r.mem[Found(r)[i]].value]

\* What the items of the queue hold.
LEMMA HoldingOf ==
  /\ Holding(Empty) = <<>>
  /\ \A r, s : Tiled(r) /\ Queued(r, s) => /\ Holding(r) = [i \in 1 .. Len(s) |-> r.mem[s[i]].value]
                                           /\ Holding(r) \in Seq(Values \union {Null})
                                           /\ Len(Holding(r)) = Len(s) /\ Holding(r) # <<>>
<1>1. Holding(Empty) = <<>>
  <2>1. PICK s : s = <<>>
    OBVIOUS
  <2>2. Found(Empty) = s /\ Len(s) = 0
    BY <2>1, FoundAsQueued
  <2>3. PICK h : h = Holding(Empty)
    OBVIOUS
  <2>4. h = [i \in 1 .. 0 |-> Empty.mem[s[i]].value]
    BY <2>2, <2>3 DEF Holding
  <2>5. h = <<>>
    BY <2>4
  <2>. QED  BY <2>3, <2>5
<1>2. ASSUME NEW r, NEW s, Tiled(r), Queued(r, s)
      PROVE  /\ Holding(r) = [i \in 1 .. Len(s) |-> r.mem[s[i]].value]
             /\ Holding(r) \in Seq(Values \union {Null})
             /\ Len(Holding(r)) = Len(s) /\ Holding(r) # <<>>
  <2>1. PICK n \in Nat : n = Len(s) /\ n # 0
    BY <1>2 DEF Queued
  <2>2. Holding(r) = [i \in 1 .. n |-> r.mem[s[i]].value]
    BY <1>2, <2>1, FoundAsQueued DEF Holding
  <2>3. \A i \in 1 .. n : r.mem[s[i]].value \in Values \union {Null}
    <3>1. \A i \in 1 .. n : s[i] \in DOMAIN r.mem
      BY <1>2, <2>1 DEF Queued
    <3>. QED  BY <1>2, <3>1 DEF Tiled, Block
  <2>4. PICK h : h = Holding(r)
    OBVIOUS
  <2>5. h \in [1 .. n -> Values \union {Null}]
    BY <2>2, <2>3, <2>4
  <2>6. h \in Seq(Values \union {Null}) /\ Len(h) = n /\ h # <<>>
    BY <2>1, <2>5
  <2>. QED  BY <2>1, <2>2, <2>4, <2>6
<1>. QED  BY <1>1, <1>2

\* Allocate is Put.
LEMMA AllocatePuts ==
  ASSUME RingInv, Allocate
  PROVE  RingInv' /\ \E v \in Values : Holding(ring') = Append(Holding(ring), v)
<1>1. PICK wanted \in Wanted, v \in Values :
        /\ FindBlock(ring, wanted) # Null
        /\ ring' = Take(Split(ring, FindBlock(ring, wanted), wanted), FindBlock(ring, wanted), v)
  BY DEF Allocate
<1>2. PICK r : r = ring
  OBVIOUS
<1>3. PICK z : z = ring'
  OBVIOUS
<1>4. PICK o : o = FindBlock(r, wanted)
  OBVIOUS
<1>5. o # Null /\ z = Take(Split(r, o, wanted), o, v)
  BY <1>1, <1>2, <1>3, <1>4
<1>6. Tiled(r) /\ (r = Empty \/ \E s : Queued(r, s))
  BY <1>2 DEF RingInv
<1>7. /\ Tiled(z) /\ o \in DOMAIN r.mem /\ r.mem[o].free /\ z.mem[o].value = v
      /\ \A x \in DOMAIN r.mem \ {o} : z.mem[x].value = r.mem[x].value
      /\ r = Empty => Queued(z, <<o>>)
      /\ \A s : Queued(r, s) => Queued(z, Append(s, o))
  BY <1>4, <1>5, <1>6, AllocateGrows
<1>8. CASE r = Empty
  <2>1. PICK t : t = <<o>>
    OBVIOUS
  <2>2. Queued(z, t) /\ Len(t) = 1 /\ t[1] = o
    BY <1>7, <1>8, <2>1
  <2>3. PICK h : h = Holding(z)
    OBVIOUS
  <2>4. h = [i \in 1 .. 1 |-> z.mem[t[i]].value]
    BY <1>7, <2>2, <2>3, HoldingOf
  <2>5. h = [i \in 1 .. 1 |-> v]
    <3>1. \A i \in 1 .. 1 : z.mem[t[i]].value = v
      BY <1>7, <2>2
    <3>. QED  BY <2>4, <3>1
  <2>6. h = <<v>>
    BY <2>5
  <2>7. Append(<<>>, v) = <<v>>
    OBVIOUS
  <2>8. Holding(z) = Append(Holding(r), v)
    BY <1>8, <2>3, <2>6, <2>7, HoldingOf
  <2>. QED  BY <1>2, <1>3, <1>7, <2>2, <2>8 DEF RingInv
<1>9. ASSUME NEW s, Queued(r, s) PROVE RingInv' /\ \E e \in Values : Holding(ring') = Append(Holding(ring), e)
  <2>1. PICK n \in Nat : n = Len(s)
    BY <1>9 DEF Queued
  <2>2. s \in Seq(DOMAIN r.mem) /\ \A i \in 1 .. n : s[i] \in DOMAIN r.mem /\ s[i] # o
    <3>1. s \in Seq(DOMAIN r.mem) /\ \A i \in 1 .. n : s[i] \in DOMAIN r.mem
      BY <1>9, <2>1 DEF Queued
    <3>2. \A i \in 1 .. n : ~r.mem[s[i]].free
      BY <1>9, <2>1, <3>1 DEF Queued
    <3>. QED  BY <1>7, <3>1, <3>2
  <2>3. PICK t : t = Append(s, o)
    OBVIOUS
  <2>4. Queued(z, t) /\ Len(t) = n + 1 /\ t[n + 1] = o /\ \A i \in 1 .. n : t[i] = s[i]
    BY <1>7, <1>9, <2>1, <2>2, <2>3
  <2>5. PICK g, h : g = Holding(r) /\ h = Holding(z)
    OBVIOUS
  <2>6. /\ g = [i \in 1 .. n |-> r.mem[s[i]].value] /\ g \in Seq(Values \union {Null}) /\ Len(g) = n
    BY <1>6, <1>9, <2>1, <2>5, HoldingOf
  <2>7. h = [i \in 1 .. n + 1 |-> z.mem[t[i]].value]
    BY <1>7, <2>4, <2>5, HoldingOf
  <2>8. \A i \in 1 .. n + 1 : z.mem[t[i]].value = IF i = n + 1 THEN v ELSE g[i]
    <3>1. \A i \in 1 .. n + 1 : i = n + 1 \/ i \in 1 .. n
      OBVIOUS
    <3>2. \A i \in 1 .. n : i # n + 1 /\ z.mem[t[i]].value = g[i]
      BY <1>7, <2>2, <2>4, <2>6
    <3>. QED  BY <1>7, <2>4, <3>1, <3>2
  <2>9. h = [i \in 1 .. n + 1 |-> IF i = n + 1 THEN v ELSE g[i]]
    BY <2>7, <2>8
  <2>10. h = Append(g, v)
    BY <2>6, <2>9
  <2>. QED  BY <1>2, <1>3, <1>7, <2>4, <2>5, <2>10 DEF RingInv
<1>. QED  BY <1>6, <1>8, <1>9

\* PopFirst is Get.
LEMMA PopFirstGets ==
  ASSUME RingInv, PopFirst
  PROVE  RingInv' /\ Holding(ring) # <<>> /\ Holding(ring') = Tail(Holding(ring))
<1>1. PICK r : r = ring
  OBVIOUS
<1>2. PICK z : z = ring'
  OBVIOUS
<1>3. /\ ~r.mem[r.consume].free
      /\ z = Shrunk(r)
  BY <1>1, <1>2 DEF PopFirst, Shrunk
<1>4. Tiled(r) /\ (r = Empty \/ \E s : Queued(r, s))
  BY <1>1 DEF RingInv
<1>5. r # Empty
  BY <1>3 DEF Empty
<1>6. PICK s : Queued(r, s)
  BY <1>4, <1>5
<1>7. /\ Tiled(z)
      /\ Len(s) = 1 => z = Empty
      /\ Len(s) >= 2 => Queued(z, Tail(s)) /\ Unharmed(r, z)
  BY <1>3, <1>4, <1>6, PopShrinks
<1>8. PICK n \in Nat : n = Len(s) /\ n # 0
  BY <1>6 DEF Queued
<1>9. s \in Seq(DOMAIN r.mem) /\ s # <<>> /\ \A i \in 1 .. n : s[i] \in DOMAIN r.mem
  BY <1>6, <1>8 DEF Queued
<1>10. /\ \A i, j \in 1 .. n : s[i] = s[j] => i = j
       /\ \A i \in 1 .. n : ~r.mem[s[i]].free
       /\ s[1] = r.consume
  BY <1>6, <1>8, <1>9 DEF Queued
<1>11. PICK g, h : g = Holding(r) /\ h = Holding(z)
  OBVIOUS
<1>12. /\ g = [i \in 1 .. n |-> r.mem[s[i]].value] /\ g \in Seq(Values \union {Null})
       /\ Len(g) = n /\ g # <<>>
  BY <1>4, <1>6, <1>8, <1>11, HoldingOf
<1>13. CASE n = 1
  <2>1. z = Empty /\ h = <<>>
    BY <1>7, <1>8, <1>11, <1>13, HoldingOf
  <2>2. Tail(g) = <<>>
    BY <1>12, <1>13
  <2>. QED  BY <1>1, <1>2, <1>7, <1>11, <1>12, <2>1, <2>2 DEF RingInv
<1>14. CASE n >= 2
  <2>1. PICK t : t = Tail(s)
    OBVIOUS
  <2>2. Len(t) = n - 1 /\ \A i \in 1 .. n - 1 : t[i] = s[i + 1] /\ i + 1 \in 1 .. n /\ i + 1 # 1
    BY <1>8, <1>9, <2>1
  <2>3. Queued(z, t) /\ Unharmed(r, z)
    BY <1>7, <1>8, <1>14, <2>1
  <2>4. h = [i \in 1 .. n - 1 |-> z.mem[t[i]].value]
    BY <1>7, <1>11, <2>2, <2>3, HoldingOf
  <2>5. \A i \in 1 .. n - 1 : z.mem[t[i]].value = g[i + 1]
    <3>. SUFFICES ASSUME NEW i \in 1 .. n - 1 PROVE z.mem[t[i]].value = g[i + 1]
      OBVIOUS
    <3>1. i + 1 \in 1 .. n /\ i + 1 # 1 /\ t[i] = s[i + 1] /\ 1 \in 1 .. n
      BY <1>8, <2>2
    <3>2. s[i + 1] \in DOMAIN r.mem /\ ~r.mem[s[i + 1]].free /\ s[i + 1] # r.consume
      BY <1>9, <1>10, <3>1
    <3>3. z.mem[s[i + 1]].value = r.mem[s[i + 1]].value
      BY <2>3, <3>2 DEF Unharmed
    <3>. QED  BY <1>12, <3>1, <3>3
  <2>6. h = [i \in 1 .. n - 1 |-> g[i + 1]]
    BY <2>4, <2>5
  <2>7. h = Tail(g)
    BY <1>12, <2>6
  <2>. QED  BY <1>1, <1>2, <1>7, <1>11, <1>12, <2>3, <2>7 DEF RingInv
<1>. QED  BY <1>8, <1>13, <1>14

\* Every step keeps the invariant and is one of the queue, or leaves it as it is.
LEMMA RingStep ==
  ASSUME RingInv, [Next]_ring
  PROVE  /\ RingInv'
         /\ \/ \E v \in Values : Contents' = Append(Contents, v)
            \/ Contents # <<>> /\ Contents' = Tail(Contents)
            \/ Contents' = <<>>
            \/ Contents' = Contents
<1>1. Contents = Holding(ring) /\ Contents' = Holding(ring')
  BY DEF Contents, Items, Holding
<1>2. CASE Allocate
  BY <1>1, <1>2, AllocatePuts
<1>3. CASE PopFirst
  BY <1>1, <1>3, PopFirstGets
<1>4. CASE Reset
  <2>1. ring' = Empty
    BY <1>4 DEF Reset
  <2>. QED  BY <1>1, <2>1, QueueStarts, HoldingOf DEF RingInv
<1>5. CASE UNCHANGED ring
  BY <1>1, <1>5 DEF RingInv
<1>. QED  BY <1>2, <1>3, <1>4, <1>5 DEF Next

\* The invariant holds in every reachable state of the buffer.
THEOREM Invariance == Spec => []RingInv
<1>1. Init => RingInv
  BY QueueStarts DEF Init, RingInv
<1>2. RingInv /\ [Next]_ring => RingInv'
  BY RingStep
<1>. QED  BY <1>1, <1>2, PTL DEF Spec

\* Pointers and blocks keep their types: every pointer points to a block that exists.
THEOREM TypeCorrect == Spec => []TypeOK
<1>1. RingInv => TypeOK
  <2>. SUFFICES ASSUME Tiled(ring) PROVE TypeOK
    BY DEF RingInv
  <2>1. DOMAIN ring = {"mem", "produce", "consume", "last"}
    BY DEF Tiled, IsRing
  <2>. QED  BY <2>1 DEF Tiled, TypeOK
<1>. QED  BY <1>1, Invariance, PTL

\* However items wrap around and blocks are cut and merged: the blocks tile the
\* memory, every used block is an item the owner reaches, and an empty buffer is
\* one free block.
THEOREM RingAlwaysHolds == Spec => []RingHolds
<1>1. RingInv => RingHolds
  <2>. SUFFICES ASSUME RingInv PROVE RingHolds
    OBVIOUS
  <2>1. PICK r : r = ring
    OBVIOUS
  <2>2. Tiled(r) /\ (r = Empty \/ \E s : Queued(r, s))
    BY <2>1 DEF RingInv
  <2>3. BlocksTile
    <3>1. \A o \in DOMAIN r.mem : Fits(r, o) /\ (o = r.last <=> r.mem[o].next = Null)
      BY <2>2 DEF Tiled
    <3>. QED  BY <2>1, <3>1 DEF BlocksTile, Fits
  <2>4. Contents = Holding(r) /\ Items = Found(r)
    BY <2>1 DEF Contents, Items, Holding
  <2>5. CASE r = Empty
    <3>1. \A o \in DOMAIN r.mem : r.mem[o].free
      BY <2>5 DEF Empty
    <3>2. \A i \in 1 .. Len(Items) : FALSE
      BY <2>4, <2>5, FoundAsQueued
    <3>. QED  BY <2>1, <2>3, <2>5, <3>1, <3>2 DEF RingHolds, NothingLeaks
  <2>6. ASSUME NEW s, Queued(r, s) PROVE RingHolds
    <3>1. Items = s /\ Contents # <<>>
      BY <2>2, <2>4, <2>6, FoundAsQueued, HoldingOf
    <3>2. \A i \in 1 .. Len(s) : s[i] \in DOMAIN r.mem
      BY <2>6 DEF Queued
    <3>3. \A o \in DOMAIN r.mem : ~r.mem[o].free <=> \E i \in 1 .. Len(s) : s[i] = o
      BY <2>6 DEF Queued
    <3>4. {o \in DOMAIN r.mem : ~r.mem[o].free} = {s[i] : i \in 1 .. Len(s)}
      BY <3>2, <3>3
    <3>. QED  BY <2>1, <2>3, <3>1, <3>4 DEF RingHolds, NothingLeaks
  <2>. QED  BY <2>2, <2>5, <2>6
<1>. QED  BY <1>1, Invariance, PTL

\* The buffer implements the FIFO queue: Allocate puts, PopFirst gets, Reset clears,
\* and no step changes an item or the order of items.
THEOREM FifoRefinement == Spec => ImplementsFifo
<1>1. Init => Queue!Init
  <2>1. Contents = Holding(ring)
    BY DEF Contents, Items, Holding
  <2>. QED  BY <2>1, HoldingOf DEF Init, Queue!Init
<1>2. RingInv /\ [Next]_ring => [Queue!Next]_Contents
  BY RingStep DEF Queue!Next, Queue!Put, Queue!Get, Queue!Clear
<1>. QED  BY <1>1, <1>2, Invariance, PTL DEF Spec, ImplementsFifo, Queue!Spec

-----------------------------------------------------------------------------
(* Differences of snapshots.                                                *)

\* Sequences put one behind the other have the elements of all of them.
FlatUpTo(ss, f) ==
  f = [i \in 1 .. Len(ss) |-> IF i = 1 THEN ss[i] ELSE f[i - 1] \o ss[i]]

LEMMA FlatElements ==
  ASSUME NEW T, NEW ss \in Seq(Seq(T))
  PROVE  /\ FlattenSeq(ss) \in Seq(T)
         /\ \A e : e \in Range(FlattenSeq(ss)) <=> \E i \in DOMAIN ss : e \in Range(ss[i])
<1>. DEFINE n == Len(ss)
            S == Seq(T)
            step == [i \in 1 .. n |-> [s \in S |-> s \o ss[i]]]
<1>1. n \in Nat /\ DOMAIN ss = 1 .. n /\ \A i \in 1 .. n : ss[i] \in S
  OBVIOUS
<1>2. \A s, t \in S : s \o t \in S /\ Range(s \o t) = Range(s) \union Range(t)
  BY RangeConcatenation
<1>3. <<>> \in S /\ \A s \in S : <<>> \o s = s
  OBVIOUS
<1>4. CASE n = 0
  <2>1. ss = <<>> /\ DOMAIN ss = {}
    BY <1>1, <1>4
  <2>2. FlattenSeq(ss) = <<>>
    BY <1>4, <2>1 DEF FlattenSeq
  <2>3. Range(<<>>) = {}
    BY DEF Range
  <2>. QED  BY <1>3, <2>1, <2>2, <2>3
<1>5. CASE n # 0
  <2>1. \A i \in 1 .. n : i \in 0 .. n /\ i # 0 /\ i - 1 \in 0 .. n /\ (i # 1 => i - 1 \in 1 .. n)
    BY <1>1
  <2>2. step \in Turns(n, S)
    <3>. HIDE DEF S, n
    <3>. QED  BY <1>1, <1>2 DEF Turns
  <2>3. \A i \in 1 .. n : \A s \in S : step[i][s] = s \o ss[i]
    OBVIOUS
  <2>. HIDE DEF step, S
  <2>4. PICK f \in [0 .. n -> S] : Runs(f, <<>>, step, n)
    BY <1>1, <1>3, <2>2, RunExists
  <2>5. \A i \in 1 .. n : f[i] = IF i = 1 THEN ss[i] ELSE f[i - 1] \o ss[i]
    <3>. SUFFICES ASSUME NEW i \in 1 .. n PROVE f[i] = IF i = 1 THEN ss[i] ELSE f[i - 1] \o ss[i]
      OBVIOUS
    <3>1. f[i] = f[i - 1] \o ss[i]
      BY <2>1, <2>3, <2>4 DEF Runs
    <3>2. i = 1 => f[i - 1] = <<>>
      BY <2>4 DEF Runs
    <3>. QED  BY <1>1, <1>3, <3>1, <3>2
  <2>. DEFINE h == [i \in 1 .. n |-> f[i]]
  <2>6. FlatUpTo(ss, h)
    <3>1. \A i \in 1 .. n : h[i] = IF i = 1 THEN ss[i] ELSE h[i - 1] \o ss[i]
      BY <2>1, <2>5
    <3>2. h = [i \in 1 .. n |-> IF i = 1 THEN ss[i] ELSE h[i - 1] \o ss[i]]
      <4>. DEFINE r == [i \in 1 .. n |-> IF i = 1 THEN ss[i] ELSE h[i - 1] \o ss[i]]
      <4>1. \A i \in 1 .. n : h[i] = r[i]
        BY <3>1
      <4>2. h = [i \in 1 .. n |-> h[i]] /\ r = [i \in 1 .. n |-> r[i]]
        OBVIOUS
      <4>. HIDE DEF h, r
      <4>3. h = r
        BY <4>1, <4>2
      <4>. QED  BY <4>3 DEF r
    <3>. HIDE DEF h
    <3>. QED  BY <3>2 DEF FlatUpTo
  <2>7. PICK g : g = (CHOOSE k : FlatUpTo(ss, k)) /\ FlatUpTo(ss, g)
    BY <2>6
  <2>8. FlattenSeq(ss) = g[n]
    BY <1>5, <2>7 DEF FlattenSeq, FlatUpTo
  <2>9. \A i \in 1 .. n : g[i] = IF i = 1 THEN ss[i] ELSE g[i - 1] \o ss[i]
    BY <2>7 DEF FlatUpTo
  <2>. DEFINE B == {k \in 0 .. n : k # 0 => /\ g[k] \in S
                                           /\ \A e : e \in Range(g[k]) <=>
                                                     \E i \in 1 .. k : e \in Range(ss[i])}
  <2>10. 0 \in B
    BY <1>1
  <2>11. ASSUME NEW k \in 1 .. n, k - 1 \in B PROVE k \in B
    <3>1. k \in 0 .. n /\ g[k] = IF k = 1 THEN ss[k] ELSE g[k - 1] \o ss[k]
      BY <2>1, <2>9
    <3>2. \A i \in 1 .. k : i = k \/ i \in 1 .. k - 1
      OBVIOUS
    <3>3. k \in 1 .. k /\ \A i \in 1 .. k - 1 : i \in 1 .. k
      OBVIOUS
    <3>4. CASE k = 1
      <4>1. g[k] = ss[k] /\ \A i \in 1 .. k : i = k
        BY <3>1, <3>4
      <4>. QED  BY <1>1, <3>1, <3>3, <4>1
    <3>5. CASE k # 1
      <4>1. k - 1 # 0
        BY <3>5
      <4>2. /\ g[k - 1] \in S
            /\ \A e : e \in Range(g[k - 1]) <=> \E i \in 1 .. k - 1 : e \in Range(ss[i])
        BY <2>11, <4>1
      <4>3. g[k] = g[k - 1] \o ss[k]
        BY <3>1, <3>5
      <4>4. g[k] \in S /\ Range(g[k]) = Range(g[k - 1]) \union Range(ss[k])
        BY <1>1, <1>2, <4>2, <4>3
      <4>5. \A e : e \in Range(g[k]) <=> \E i \in 1 .. k : e \in Range(ss[i])
        BY <3>2, <3>3, <4>2, <4>4
      <4>. QED  BY <3>1, <4>4, <4>5
    <3>. QED  BY <3>4, <3>5
  <2>12. n \in B
    <3>. HIDE DEF B
    <3>1. \A k \in 0 .. n : k \in B
      BY <1>1, <2>10, <2>11, NumbersUpTo
    <3>. QED  BY <1>1, <3>1
  <2>13. /\ g[n] \in S
         /\ \A e : e \in Range(g[n]) <=> \E i \in 1 .. n : e \in Range(ss[i])
    BY <1>5, <2>12
  <2>. QED  BY <1>1, <2>8, <2>13 DEF S
<1>. QED  BY <1>4, <1>5

\* A remainder is determined by any quotient that leaves it in range.
LEMMA RestIs ==
  ASSUME NEW R \in Nat \ {0}, NEW a \in Int, NEW q \in Int, NEW r \in 0 .. R - 1, a = R * q + r
  PROVE  a % R = r
<1>. DEFINE qa == a \div R
            ra == a % R
<1>1. qa \in Int /\ ra \in 0 .. R - 1 /\ a = R * qa + ra
  BY SMT
<1>. HIDE DEF qa, ra
<1>2. R * qa \in Int /\ R * q \in Int
  BY <1>1
<1>3. \A x, y \in Int : x > y => R * x >= R * y + R
  BY SMT
<1>4. CASE qa > q
  BY <1>1, <1>2, <1>3, <1>4
<1>5. CASE q > qa
  BY <1>1, <1>2, <1>3, <1>5
<1>6. CASE q = qa
  BY <1>1, <1>2, <1>6 DEF ra
<1>. QED  BY <1>1, <1>4, <1>5, <1>6

\* What was taken away is put back, on every width.
LEMMA DiffUndone ==
  ASSUME IntRange \in Nat \ {0}, NEW old \in ItemValues, NEW new \in ItemValues
  PROVE  /\ UndiffItem(old, DiffItem(old, new)) = new
         /\ DiffItem(old, new) = 0 => old = new
<1>. DEFINE d == IF old <= new THEN new - old ELSE new - old + IntRange
<1>1. IntRange \in Int /\ IntRange > 0 /\ old \in 0 .. IntRange - 1 /\ new \in 0 .. IntRange - 1
  BY DEF ItemValues
<1>2. DiffItem(old, new) = d
  <2>1. CASE old <= new
    <3>1. new - old \in 0 .. IntRange - 1 /\ new - old = IntRange * 0 + (new - old)
      BY <1>1, <2>1
    <3>2. (new - old) % IntRange = new - old
      BY <1>1, <3>1, RestIs
    <3>. QED  BY <2>1, <3>2 DEF DiffItem
  <2>2. CASE ~(old <= new)
    <3>1. /\ new - old + IntRange \in 0 .. IntRange - 1
          /\ new - old = IntRange * (-1) + (new - old + IntRange)
      BY <1>1, <2>2
    <3>2. (new - old) % IntRange = new - old + IntRange
      BY <1>1, <3>1, RestIs
    <3>. QED  BY <2>2, <3>2 DEF DiffItem
  <2>. QED  BY <2>1, <2>2
<1>3. (old + d) % IntRange = new
  <2>1. CASE old <= new
    <3>1. old + d = IntRange * 0 + new /\ old + d \in Int
      BY <1>1, <2>1
    <3>. QED  BY <1>1, <3>1, RestIs
  <2>2. CASE ~(old <= new)
    <3>1. old + d = IntRange * 1 + new /\ old + d \in Int
      BY <1>1, <2>2
    <3>. QED  BY <1>1, <3>1, RestIs
  <2>. QED  BY <2>1, <2>2
<1>4. d = 0 => old = new
  BY <1>1
<1>. QED  BY <1>2, <1>3, <1>4 DEF UndiffItem

SnapItems == [key : ItemKeys, val : ItemValues]

LEMMA SnapMeaning ==
  ASSUME NEW s \in Snaps
  PROVE  /\ s \in Seq(SnapItems) /\ ToSet(s) = Range(s)
         /\ \A i \in DOMAIN s : s[i] \in SnapItems /\ ItemOf(s, s[i].key) = s[i]
         /\ \A k \in KeysOf(s) : \E i \in DOMAIN s : s[i].key = k
         /\ \A i \in DOMAIN s : s[i].key \in KeysOf(s)
<1>1. PICK n \in 0 .. MaxItems : s \in [1 .. n -> SnapItems]
  BY DEF Snaps, SnapItems
<1>2. \A i, j \in DOMAIN s : s[i].key = s[j].key => i = j
  BY DEF Snaps
<1>3. n \in Nat
  BY DeltaAssumption
<1>4. s \in Seq(SnapItems) /\ DOMAIN s = 1 .. n
  BY <1>1, <1>3
<1>5. ASSUME NEW i \in DOMAIN s PROVE s[i] \in SnapItems /\ ItemOf(s, s[i].key) = s[i]
  <2>1. s[i] \in ToSet(s) /\ \A item \in ToSet(s) : item.key = s[i].key => item = s[i]
    BY <1>2 DEF ToSet
  <2>. QED  BY <1>1, <1>4, <2>1 DEF ItemOf
<1>. QED  BY <1>4, <1>5 DEF ToSet, Range, KeysOf

LEMMA HashedIsThere == ASSUME NEW s PROVE Hashed(s) \subseteq KeysOf(s)
<1>. QED  BY DEF Hashed, KeysOf

\* What is written of an item.
LEMMA UpdateMeaning ==
  ASSUME NEW from \in Snaps, NEW item \in SnapItems
  PROVE  LET diff == DiffItem(ItemOf(from, item.key).val, item.val)
         IN  /\ UpdateOf(from, item) \in Seq(SnapItems)
             /\ \A e \in Range(UpdateOf(from, item)) : e.key = item.key
             /\ item.key \notin Hashed(from) => Range(UpdateOf(from, item)) = {item}
             /\ item.key \in Hashed(from) =>
                  /\ ItemOf(from, item.key).val \in ItemValues
                  /\ diff = 0 => Range(UpdateOf(from, item)) = {}
                  /\ diff # 0 =>
                       Range(UpdateOf(from, item)) = {[key |-> item.key, val |-> diff]}
<1>. DEFINE diff == DiffItem(ItemOf(from, item.key).val, item.val)
            changed == [key |-> item.key, val |-> diff]
<1>1. \A e : Range(<<e>>) = {e}
  BY DEF Range
<1>2. Range(<<>>) = {}
  BY DEF Range
<1>3. CASE item.key \notin Hashed(from)
  <2>1. UpdateOf(from, item) = <<item>>
    BY <1>3 DEF UpdateOf
  <2>. QED  BY <1>1, <1>3, <2>1
<1>4. CASE item.key \in Hashed(from)
  <2>1. PICK i \in DOMAIN from : from[i].key = item.key
    BY <1>4, HashedIsThere, SnapMeaning
  <2>2. ItemOf(from, item.key).val \in ItemValues
    <3>1. ItemOf(from, item.key) = from[i] /\ from[i] \in SnapItems
      BY <2>1, SnapMeaning
    <3>. QED  BY <3>1 DEF SnapItems
  <2>3. diff \in ItemValues
    <3>1. item.val \in ItemValues
      BY DEF SnapItems
    <3>2. \A o, m \in ItemValues : (m - o) % IntRange \in ItemValues
      BY DeltaAssumption, SMT DEF ItemValues
    <3>. QED  BY <2>2, <3>1, <3>2 DEF DiffItem
  <2>4. UpdateOf(from, item) = IF diff = 0 THEN <<>> ELSE <<[item EXCEPT !.val = diff]>>
    BY <1>4 DEF UpdateOf
  <2>. HIDE DEF diff
  <2>5. [item EXCEPT !.val = diff] = changed /\ changed \in SnapItems /\ changed.key = item.key
    BY <2>3 DEF SnapItems
  <2>. HIDE DEF changed
  <2>6. CASE diff = 0
    <3>1. UpdateOf(from, item) = <<>>
      BY <2>4, <2>6
    <3>. QED  BY <1>2, <1>4, <2>2, <2>6, <3>1 DEF diff
  <2>7. CASE diff # 0
    <3>1. UpdateOf(from, item) = <<changed>>
      BY <2>4, <2>5, <2>7
    <3>2. UpdateOf(from, item) \in Seq(SnapItems) /\ Range(UpdateOf(from, item)) = {changed}
      BY <1>1, <2>5, <3>1
    <3>. QED  BY <1>4, <2>2, <2>5, <2>7, <3>2 DEF diff, changed
  <2>. QED  BY <2>6, <2>7
<1>. QED  BY <1>3, <1>4

LEMMA DeltaIsRight ==
  ASSUME NEW from \in Snaps, NEW to \in Snaps
  PROVE  LET result == UnpackDelta(from, CreateDelta(from, to))
         IN  /\ DOMAIN result \subseteq KeysOf(to)
             /\ \A k \in KeysOf(to) :
                  k \notin KeysOf(from) \/ k \in Hashed(from) \intersect Hashed(to) =>
                    k \in DOMAIN result /\ result[k] = ItemOf(to, k).val
<1>. DEFINE us == [i \in DOMAIN to |-> UpdateOf(from, to[i])]
            U == FlattenSeq(us)
            delta == CreateDelta(from, to)
            kept == KeysOf(from) \ delta.deleted
            updated == KeysOf(delta.updates)
            value(k) == IF k \notin updated THEN ItemOf(from, k).val
                        ELSE LET v == ItemOf(delta.updates, k).val
                             IN  IF k \in KeysOf(from) THEN UndiffItem(ItemOf(from, k).val, v) ELSE v
<1>1. delta.deleted = KeysOf(from) \ Hashed(to) /\ delta.updates = U
  BY DEF CreateDelta
<1>2. UnpackDelta(from, delta) = [k \in kept \union updated |-> value(k)]
  BY DEF UnpackDelta
<1>3. to \in Seq(SnapItems) /\ \A i \in DOMAIN to : to[i] \in SnapItems
  BY SnapMeaning
<1>4. /\ U \in Seq(SnapItems)
      /\ \A e : e \in Range(U) <=> \E i \in DOMAIN to : e \in Range(UpdateOf(from, to[i]))
  <2>1. \A i \in DOMAIN to : UpdateOf(from, to[i]) \in Seq(SnapItems)
    BY <1>3, UpdateMeaning
  <2>2. us \in Seq(Seq(SnapItems)) /\ DOMAIN us = DOMAIN to
        /\ \A i \in DOMAIN to : us[i] = UpdateOf(from, to[i])
    <3>1. DOMAIN to = 1 .. Len(to) /\ Len(to) \in Nat
      BY <1>3
    <3>. QED  BY <2>1, <3>1
  <2>. HIDE DEF us
  <2>3. U \in Seq(SnapItems) /\ \A e : e \in Range(U) <=> \E i \in DOMAIN us : e \in Range(us[i])
    BY <2>2, FlatElements
  <2>. QED  BY <2>2, <2>3
<1>5. ToSet(U) = Range(U) /\ KeysOf(U) = {e.key : e \in Range(U)}
  <2>. HIDE DEF U
  <2>1. ToSet(U) = Range(U)
    BY DEF ToSet, Range
  <2>2. \A i \in DOMAIN U : U[i] \in Range(U)
    BY DEF Range
  <2>3. \A e \in Range(U) : \E i \in DOMAIN U : e = U[i]
    BY DEF Range
  <2>. QED  BY <2>1, <2>2, <2>3 DEF KeysOf
<1>. HIDE DEF U, us, delta
<1>6. ASSUME NEW i \in DOMAIN to
      PROVE  LET k == to[i].key
                 w == to[i].val
                 old == ItemOf(from, k).val
             IN  /\ k \in KeysOf(to) /\ ItemOf(to, k).val = w /\ w \in ItemValues
                 /\ k \in updated <=> Range(UpdateOf(from, to[i])) # {}
                 /\ \A e : Range(UpdateOf(from, to[i])) = {e} => ItemOf(U, k) = e
  <2>1. to[i].key \in KeysOf(to) /\ ItemOf(to, to[i].key) = to[i] /\ to[i].val \in ItemValues
    BY <1>3, SnapMeaning DEF SnapItems
  <2>2. ASSUME NEW e \in Range(U), e.key = to[i].key PROVE e \in Range(UpdateOf(from, to[i]))
    <3>1. PICK j \in DOMAIN to : e \in Range(UpdateOf(from, to[j]))
      BY <1>4
    <3>2. e.key = to[j].key
      BY <1>3, <3>1, UpdateMeaning
    <3>3. to[j] = to[i]
      BY <2>1, <2>2, <3>2, SnapMeaning
    <3>. QED  BY <3>1, <3>3
  <2>3. \A e \in Range(UpdateOf(from, to[i])) : e \in Range(U) /\ e.key = to[i].key
    BY <1>3, <1>4, UpdateMeaning
  <2>4. to[i].key \in updated <=> Range(UpdateOf(from, to[i])) # {}
    BY <1>1, <1>5, <2>2, <2>3
  <2>5. ASSUME NEW e, Range(UpdateOf(from, to[i])) = {e} PROVE ItemOf(U, to[i].key) = e
    <3>1. e \in ToSet(U) /\ e.key = to[i].key
      BY <1>5, <2>3, <2>5
    <3>2. \A item \in ToSet(U) : item.key = to[i].key => item = e
      BY <1>5, <2>2, <2>5
    <3>. QED  BY <3>1, <3>2 DEF ItemOf
  <2>. QED  BY <2>1, <2>4, <2>5
<1>7. updated \subseteq KeysOf(to)
  <2>. SUFFICES ASSUME NEW e \in Range(U) PROVE e.key \in KeysOf(to)
    BY <1>1, <1>5
  <2>1. PICK i \in DOMAIN to : e \in Range(UpdateOf(from, to[i]))
    BY <1>4
  <2>2. e.key = to[i].key
    BY <1>3, <2>1, UpdateMeaning
  <2>. QED  BY <2>2, SnapMeaning
<1>8. ASSUME NEW k \in KeysOf(to),
             k \notin KeysOf(from) \/ k \in Hashed(from) \intersect Hashed(to)
      PROVE  k \in kept \union updated /\ value(k) = ItemOf(to, k).val
  <2>1. PICK i \in DOMAIN to : to[i].key = k
    BY SnapMeaning
  <2>. DEFINE old == ItemOf(from, k).val
              w == to[i].val
              diff == DiffItem(old, w)
  <2>2. /\ ItemOf(to, k).val = w /\ w \in ItemValues
        /\ k \in updated <=> Range(UpdateOf(from, to[i])) # {}
        /\ \A e : Range(UpdateOf(from, to[i])) = {e} => ItemOf(U, k) = e
    BY <1>6, <2>1
  <2>3. CASE k \notin KeysOf(from)
    <3>1. Range(UpdateOf(from, to[i])) = {to[i]}
      BY <1>3, <2>1, <2>3, HashedIsThere, UpdateMeaning
    <3>2. k \in updated /\ ItemOf(U, k) = to[i]
      BY <2>2, <3>1
    <3>. QED  BY <1>1, <2>2, <2>3, <3>2
  <2>4. CASE k \in Hashed(from) \intersect Hashed(to)
    <3>1. /\ old \in ItemValues
          /\ diff = 0 => Range(UpdateOf(from, to[i])) = {}
          /\ diff # 0 => Range(UpdateOf(from, to[i])) = {[key |-> k, val |-> diff]}
      <4>1. to[i] \in SnapItems /\ to[i].key \in Hashed(from)
        BY <1>3, <2>1, <2>4
      <4>2. LET d == DiffItem(ItemOf(from, to[i].key).val, to[i].val)
            IN  /\ ItemOf(from, to[i].key).val \in ItemValues
                /\ d = 0 => Range(UpdateOf(from, to[i])) = {}
                /\ d # 0 => Range(UpdateOf(from, to[i])) = {[key |-> to[i].key, val |-> d]}
        BY <4>1, UpdateMeaning
      <4>. QED  BY <2>1, <4>2
    <3>2. UndiffItem(old, diff) = w /\ (diff = 0 => old = w)
      BY <2>2, <3>1, DiffUndone, DeltaAssumption
    <3>3. k \in KeysOf(from) /\ k \in kept
      BY <1>1, <2>4, HashedIsThere
    <3>4. CASE diff = 0
      <4>1. k \notin updated
        BY <2>2, <3>1, <3>4
      <4>. QED  BY <2>2, <3>2, <3>3, <3>4, <4>1
    <3>5. CASE diff # 0
      <4>1. k \in updated /\ ItemOf(U, k) = [key |-> k, val |-> diff]
        BY <2>2, <3>1, <3>5
      <4>2. ItemOf(delta.updates, k).val = diff
        BY <1>1, <4>1
      <4>. QED  BY <2>2, <3>2, <3>3, <4>1, <4>2
    <3>. QED  BY <3>4, <3>5
  <2>. QED  BY <1>8, <2>3, <2>4
<1>9. kept \union updated \subseteq KeysOf(to)
  BY <1>1, <1>7, HashedIsThere
<1>. HIDE DEF value, kept, updated
<1>. DEFINE result == [k \in kept \union updated |-> value(k)]
<1>10. /\ DOMAIN result \subseteq KeysOf(to)
       /\ \A k \in KeysOf(to) :
            k \notin KeysOf(from) \/ k \in Hashed(from) \intersect Hashed(to) =>
              k \in DOMAIN result /\ result[k] = ItemOf(to, k).val
  BY <1>8, <1>9
<1>. QED  BY <1>2, <1>10 DEF delta

\* The delta of two snapshots, applied to the first, gives no item but those of the second,
\* and each of these that is new or that both hash tables find, for any items, hash
\* function, size of the buckets and width of integers (CreateDelta, UnpackDelta).
THEOREM DeltaAlwaysRestores == DeltaSpec => []DeltaRestores
<1>1. DeltaInit => DeltaTypeOK
  <2>1. <<>> \in Snaps
    <3>1. 0 \in 0 .. MaxItems /\ <<>> \in [1 .. 0 -> SnapItems]
      BY DeltaAssumption
    <3>2. \A i, j \in DOMAIN <<>> : i = j
      OBVIOUS
    <3>. QED  BY <3>1, <3>2 DEF Snaps, SnapItems
  <2>. QED  BY <2>1 DEF DeltaInit, DeltaTypeOK
<1>2. DeltaTypeOK /\ [DeltaNext]_deltaVars => DeltaTypeOK'
  BY DEF DeltaTypeOK, DeltaNext, deltaVars
<1>3. DeltaTypeOK => DeltaRestores
  BY DeltaIsRight DEF DeltaTypeOK, DeltaRestores
<1>. QED  BY <1>1, <1>2, <1>3, PTL DEF DeltaSpec

-----------------------------------------------------------------------------
(* Requests to a web server.                                                *)

GrownUp(size, need, f) ==
  f = [k \in 0 .. need |->
         IF k = 0 THEN size ELSE IF f[k - 1] >= need THEN f[k - 1] ELSE 2 * f[k - 1]]

\* The doubling ends with a buffer that has room for the data.
LEMMA BufferIsEnough ==
  ASSUME NEW size \in Nat \ {0}, NEW need \in Nat
  PROVE  GrownBuffer(size, need) \in Nat /\ need <= GrownBuffer(size, need)
<1>. DEFINE Twice(s) == IF s >= need THEN s ELSE 2 * s
            P == Nat \ {0}
            step == [k \in 1 .. need |-> [s \in P |-> Twice(s)]]
<1>1. \A s \in P : Twice(s) \in P
  OBVIOUS
<1>2. step \in Turns(need, P)
  <2>. HIDE DEF P, Twice
  <2>. QED  BY <1>1 DEF Turns
<1>3. \A k \in 1 .. need : \A s \in P : step[k][s] = Twice(s)
  OBVIOUS
<1>. HIDE DEF step, P
<1>4. size \in P /\ \A k \in 1 .. need : k \in 0 .. need /\ k # 0 /\ k - 1 \in 0 .. need
  BY DEF P
<1>5. PICK f \in [0 .. need -> P] : Runs(f, size, step, need)
  BY <1>2, <1>4, RunExists
<1>6. \A k \in 0 .. need : f[k] = IF k = 0 THEN size ELSE Twice(f[k - 1])
  <2>. SUFFICES ASSUME NEW k \in 0 .. need PROVE f[k] = IF k = 0 THEN size ELSE Twice(f[k - 1])
    OBVIOUS
  <2>1. CASE k = 0
    BY <1>5, <2>1 DEF Runs
  <2>2. CASE k # 0
    <3>1. k \in 1 .. need
      BY <2>2
    <3>. HIDE DEF Twice
    <3>. QED  BY <1>3, <1>4, <1>5, <2>2, <3>1 DEF Runs
  <2>. QED  BY <2>1, <2>2
<1>7. GrownUp(size, need, f)
  BY <1>5, <1>6 DEF GrownUp
<1>8. PICK g : g = (CHOOSE h : GrownUp(size, need, h)) /\ GrownUp(size, need, g)
  BY <1>7
<1>9. GrownBuffer(size, need) = g[need]
  BY <1>8 DEF GrownBuffer, GrownUp
<1>10. \A k \in 0 .. need : g[k] = IF k = 0 THEN size ELSE Twice(g[k - 1])
  BY <1>8 DEF GrownUp
<1>. DEFINE B == {k \in 0 .. need : g[k] \in Nat /\ (g[k] >= need \/ g[k] > k)}
<1>11. 0 \in B
  BY <1>10
<1>12. ASSUME NEW k \in 1 .. need, k - 1 \in B PROVE k \in B
  <2>1. k \in 0 .. need /\ k # 0 /\ g[k - 1] \in Nat /\ (g[k - 1] >= need \/ g[k - 1] > k - 1)
    BY <1>4, <1>12
  <2>2. g[k] = IF g[k - 1] >= need THEN g[k - 1] ELSE 2 * g[k - 1]
    BY <1>10, <2>1
  <2>3. \A a \in Nat : a > k - 1 => 2 * a \in Nat /\ 2 * a > k
    OBVIOUS
  <2>. QED  BY <2>1, <2>2, <2>3
<1>13. need \in B
  <2>. HIDE DEF B
  <2>1. \A k \in 0 .. need : k \in B
    BY <1>11, <1>12, NumbersUpTo
  <2>. QED  BY <2>1
<1>14. g[need] \in Nat /\ (g[need] >= need \/ g[need] > need)
  BY <1>13
<1>. QED  BY <1>9, <1>14

HttpInv ==
  /\ toFile \in BOOLEAN /\ httpBody \in Nat /\ received \in Nat /\ buffer \in Nat
  /\ httpStage \in {"queued", "transfer", "completion", "over"}
  /\ ~toFile => received <= buffer /\ httpFile = "none"
  /\ MaxResponse = -1 \/ received <= MaxResponse
  /\ httpStage \in {"queued", "transfer"} => final = "queued"
  /\ final = "done" => received = httpBody
  /\ httpState = "done" => final = "done"
  /\ httpState \in {"error", "aborted"} => httpFile = "none" /\ httpStage = "over"
  /\ httpFile = "old" => httpStage = "queued" \/ final = "error"

LEMMA HttpBegins == HttpInit => HttpInv
BY HttpAssumption DEF HttpInit, HttpInv

LEMMA DataKeeps ==
  ASSUME HttpInv, NEW n \in 1 .. Longest, Data(n)
  PROVE  HttpInv'
<1>1. Longest \in Nat
  <2>1. PICK m \in BodyLengths : \A k \in BodyLengths : k <= m
    BY HttpAssumption
  <2>2. Longest \in BodyLengths
    BY <2>1 DEF Longest
  <2>. QED  BY <2>2, HttpAssumption
<1>2. n \in Nat /\ received \in Nat /\ received + n \in Nat
  BY <1>1 DEF HttpInv
<1>3. CASE MaxResponse >= 0 /\ received + n > MaxResponse
  BY <1>3 DEF Data, EndTransfer, HttpInv
<1>4. CASE ~(MaxResponse >= 0 /\ received + n > MaxResponse)
  <2>1. received' = received + n /\ (MaxResponse = -1 \/ received + n <= MaxResponse)
    BY <1>2, <1>4, HttpAssumption DEF Data
  <2>2. httpStage = "transfer" /\ final # "done"
    BY DEF Data, HttpInv
  <2>3. CASE toFile
    BY <1>2, <1>4, <2>1, <2>2, <2>3 DEF Data, EndTransfer, HttpInv
  <2>4. CASE ~toFile
    <3>. DEFINE size == IF buffer < MinBuffer THEN MinBuffer ELSE buffer
    <3>1. size \in Nat \ {0}
      BY HttpAssumption DEF HttpInv
    <3>2. /\ buffer' = GrownBuffer(size, received + n)
          /\ UNCHANGED <<toFile, httpBody, httpStage, httpState, final, abort, httpFile>>
      BY <1>4, <2>4 DEF Data
    <3>. HIDE DEF size
    <3>3. buffer' \in Nat /\ received + n <= buffer'
      BY <1>2, <3>1, <3>2, BufferIsEnough
    <3>. QED  BY <1>2, <2>1, <2>2, <3>2, <3>3 DEF HttpInv
  <2>. QED  BY <2>3, <2>4
<1>. QED  BY <1>3, <1>4

LEMMA HttpKept == HttpInv /\ [HttpNext]_httpVars => HttpInv'
<1>. SUFFICES ASSUME HttpInv, [HttpNext]_httpVars PROVE HttpInv'
  OBVIOUS
<1>1. ASSUME AbortRequest PROVE HttpInv'
  BY <1>1 DEF AbortRequest, HttpInv
<1>2. ASSUME CannotStart PROVE HttpInv'
  BY <1>2 DEF CannotStart, HttpInv
<1>3. ASSUME StartTransfer PROVE HttpInv'
  BY <1>3 DEF StartTransfer, HttpInv
<1>4. ASSUME NEW n \in 1 .. Longest, Data(n) PROVE HttpInv'
  BY <1>4, DataKeeps
<1>5. ASSUME SeesAbort \/ TransferFails \/ TransferSucceeds PROVE HttpInv'
  BY <1>5 DEF SeesAbort, TransferFails, TransferSucceeds, EndTransfer, HttpInv
<1>6. ASSUME Completion PROVE HttpInv'
  BY <1>6 DEF Completion, CloseResult, Removed, HttpInv
<1>7. ASSUME UNCHANGED httpVars PROVE HttpInv'
  BY <1>7 DEF httpVars, HttpInv
<1>. QED  BY <1>1, <1>2, <1>3, <1>4, <1>5, <1>6, <1>7 DEF HttpNext

\* What another thread gets as a result is the whole response, within the limit and the
\* buffer, for any bodies, pieces, limits and smallest buffer, and a failed request leaves
\* no file behind (Run, OnData, OnCompletion, Result).
THEOREM ResponseIsAlwaysWhole == HttpSpec => []ResponseIsWhole
<1>1. HttpInv => ResponseIsWhole
  BY DEF HttpInv, ResponseIsWhole, Result
<1>. QED  BY HttpBegins, HttpKept, <1>1, PTL DEF HttpSpec

-----------------------------------------------------------------------------
(* The map generator.  The air is a set of tiles, and two tiles of it are   *)
(* joined when every set that no neighbour leads out of has both or none:   *)
(* no path has to be named.                                                 *)

Grid == Int \X Int

\* Two tiles are neighbours, or the same, whichever is looked at from the other.
LEMMA CrossMeaning ==
  ASSUME NEW t \in Grid, NEW u \in Grid
  PROVE  u \in Cross(t) <=> \/ u[1] = t[1] /\ u[2] = t[2]
                            \/ u[1] = t[1] + 1 /\ u[2] = t[2]
                            \/ u[1] = t[1] - 1 /\ u[2] = t[2]
                            \/ u[1] = t[1] /\ u[2] = t[2] - 1
                            \/ u[1] = t[1] /\ u[2] = t[2] + 1
BY DEF Cross, Right, Left, Up, Down, Grid

LEMMA CrossOnGrid == \A t \in Grid : Cross(t) \subseteq Grid /\ t \in Cross(t)
BY DEF Cross, Right, Left, Up, Down, Grid

LEMMA CrossBothWays == \A t, u \in Grid : u \in Cross(t) <=> t \in Cross(u)
<1>. SUFFICES ASSUME NEW t \in Grid, NEW u \in Grid PROVE u \in Cross(t) <=> t \in Cross(u)
  OBVIOUS
<1>1. t[1] \in Int /\ t[2] \in Int /\ u[1] \in Int /\ u[2] \in Int
  BY DEF Grid
<1>. QED  BY <1>1, CrossMeaning

\* A set of tiles of air that no neighbour in the air leads out of, and a set of tiles
\* that each such set has all or nothing of.
ClosedIn(S, A) == \A t \in S : Cross(t) \intersect A \subseteq S
JoinedIn(B, A) ==
  \A S \in SUBSET A : ClosedIn(S, A) /\ S \intersect B # {} => B \subseteq S
OneIn(A) == \A S \in SUBSET A : ClosedIn(S, A) /\ S # {} => S = A

LEMMA SingleJoined == \A t, A : JoinedIn({t}, A)
BY DEF JoinedIn

\* Neighbours of a tile of the set may come to it.
LEMMA JoinNeighbours ==
  ASSUME NEW A \in SUBSET Grid, NEW B \in SUBSET A, JoinedIn(B, A),
         NEW t \in B, NEW N \in SUBSET (Cross(t) \intersect A)
  PROVE  JoinedIn(B \union N, A)
<1>. SUFFICES ASSUME NEW S \in SUBSET A, ClosedIn(S, A), S \intersect (B \union N) # {}
              PROVE  B \union N \subseteq S
  BY DEF JoinedIn
<1>1. S \intersect B # {}
  <2>1. CASE S \intersect N # {}
    <3>1. PICK u \in S \intersect N : TRUE
      BY <2>1
    <3>2. t \in Cross(u) /\ t \in A
      BY CrossBothWays
    <3>. QED  BY <3>1, <3>2 DEF ClosedIn
  <2>2. CASE S \intersect N = {}
    BY <2>2
  <2>. QED  BY <2>1, <2>2
<1>2. B \subseteq S
  BY <1>1 DEF JoinedIn
<1>3. N \subseteq S
  BY <1>2 DEF ClosedIn
<1>. QED  BY <1>2, <1>3

\* What is joined stays so when there is more air.
LEMMA JoinedInMore ==
  ASSUME NEW A, NEW C, A \subseteq C, NEW B \in SUBSET A, JoinedIn(B, A)
  PROVE  JoinedIn(B, C)
<1>. SUFFICES ASSUME NEW S \in SUBSET C, ClosedIn(S, C), S \intersect B # {}
              PROVE  B \subseteq S
  BY DEF JoinedIn
<1>1. ClosedIn(S \intersect A, A)
  BY DEF ClosedIn
<1>2. (S \intersect A) \intersect B # {} /\ S \intersect A \in SUBSET A
  OBVIOUS
<1>3. B \subseteq S \intersect A
  BY <1>1, <1>2 DEF JoinedIn
<1>. QED  BY <1>3

\* Two sets of which one tile of each is in the same closed sets.
LEMMA JoinTwo ==
  ASSUME NEW A, NEW B \in SUBSET A, NEW C \in SUBSET A, JoinedIn(B, A), JoinedIn(C, A),
         NEW b \in B, NEW c \in C,
         \A S \in SUBSET A : ClosedIn(S, A) => (b \in S <=> c \in S)
  PROVE  JoinedIn(B \union C, A)
<1>. SUFFICES ASSUME NEW S \in SUBSET A, ClosedIn(S, A), S \intersect (B \union C) # {}
              PROVE  B \union C \subseteq S
  BY DEF JoinedIn
<1>1. S \intersect B # {} \/ S \intersect C # {}
  OBVIOUS
<1>2. b \in S
  <2>1. CASE S \intersect B # {}
    BY <2>1 DEF JoinedIn
  <2>2. CASE S \intersect C # {}
    <3>1. C \subseteq S
      BY <2>2 DEF JoinedIn
    <3>. QED  BY <3>1
  <2>. QED  BY <1>1, <2>1, <2>2
<1>3. c \in S
  BY <1>2
<1>4. B \subseteq S /\ C \subseteq S
  BY <1>2, <1>3 DEF JoinedIn
<1>. QED  BY <1>4

\* If every closed set has all of some set, there is one only.
LEMMA OneAnchor ==
  ASSUME NEW A \in SUBSET Grid, NEW B, B # {},
         \A S \in SUBSET A : ClosedIn(S, A) /\ S # {} => B \subseteq S
  PROVE  OneIn(A)
<1>. SUFFICES ASSUME NEW S \in SUBSET A, ClosedIn(S, A), S # {}, S # A PROVE FALSE
  BY DEF OneIn
<1>1. ClosedIn(A \ S, A)
  <2>. SUFFICES ASSUME NEW t \in A \ S, NEW u \in Cross(t) \intersect A, u \in S PROVE FALSE
    BY DEF ClosedIn
  <2>1. t \in Cross(u)
    BY CrossBothWays
  <2>. QED  BY <2>1 DEF ClosedIn
<1>2. A \ S \in SUBSET A /\ A \ S # {}
  OBVIOUS
<1>3. B \subseteq A \ S /\ B \subseteq S
  BY <1>1, <1>2
<1>. QED  BY <1>3

\* The loop of Reached.
GrownUpTo(first, f) ==
  f = [n \in 0 .. Cardinality(air) |-> IF n = 0 THEN {first} ELSE Grown(f[n - 1])]

LEMMA ReachFound ==
  ASSUME IsFiniteSet(air), NEW first \in air
  PROVE  \E f : /\ GrownUpTo(first, f) /\ Reached(first) = f[Cardinality(air)]
                /\ \A n \in 0 .. Cardinality(air) : f[n] \in SUBSET air /\ first \in f[n]
<1>. DEFINE N == Cardinality(air)
            H == [n \in 0 .. N |-> SUBSET air]
            F == [n \in 1 .. N |-> [S \in SUBSET air |-> Grown(S)]]
<1>1. N \in Nat
  BY FS_CardinalityType
<1>. HIDE DEF N
<1>2. \A n \in 1 .. N : n \in 0 .. N /\ n # 0 /\ n - 1 \in 0 .. N
  BY <1>1
<1>3. \A S \in SUBSET air : Grown(S) \in SUBSET air /\ S \subseteq Grown(S)
  BY DEF Grown
<1>4. \A n \in 1 .. N : \A S \in H[n - 1] : F[n][S] = Grown(S) /\ F[n][S] \in H[n]
  BY <1>2, <1>3
<1>5. {first} \in H[0] /\ \A n \in 0 .. N : H[n] \subseteq SUBSET air
  BY <1>1
<1>6. \E f \in [0 .. N -> SUBSET air] : Runs(f, {first}, F, N)
  <2>. HIDE DEF H, F
  <2>1. \A n \in 1 .. N : \A S \in H[n - 1] : F[n][S] \in H[n]
    BY <1>4
  <2>. QED  BY <1>1, <1>5, <2>1, LoopRuns
<1>7. PICK f \in [0 .. N -> SUBSET air] : Runs(f, {first}, F, N)
  BY <1>6
<1>8. \A n \in 0 .. N : f[n] = IF n = 0 THEN {first} ELSE Grown(f[n - 1])
  <2>. SUFFICES ASSUME NEW n \in 0 .. N PROVE f[n] = IF n = 0 THEN {first} ELSE Grown(f[n - 1])
    OBVIOUS
  <2>1. CASE n = 0
    BY <1>7, <2>1 DEF Runs
  <2>2. CASE n # 0
    <3>1. n \in 1 .. N
      BY <1>1, <2>2
    <3>2. f[n - 1] \in H[n - 1] /\ f[n] = F[n][f[n - 1]]
      BY <1>2, <1>7, <3>1 DEF Runs
    <3>. QED  BY <1>4, <2>2, <3>1, <3>2
  <2>. QED  BY <2>1, <2>2
<1>9. GrownUpTo(first, f)
  BY <1>7, <1>8 DEF GrownUpTo, N
<1>10. PICK g : g = (CHOOSE h : GrownUpTo(first, h)) /\ GrownUpTo(first, g)
  BY <1>9
<1>11. Reached(first) = g[N]
  BY <1>10 DEF Reached, GrownUpTo, N
<1>12. \A n \in 0 .. N : g[n] \in SUBSET air /\ first \in g[n]
  <2>. DEFINE B == {n \in 0 .. N : g[n] \in SUBSET air /\ first \in g[n]}
  <2>1. g = [n \in 0 .. N |-> IF n = 0 THEN {first} ELSE Grown(g[n - 1])]
    BY <1>10 DEF GrownUpTo, N
  <2>2. 0 \in B
    BY <1>1, <2>1
  <2>3. ASSUME NEW n \in 1 .. N, n - 1 \in B PROVE n \in B
    <3>1. g[n] = Grown(g[n - 1]) /\ g[n - 1] \in SUBSET air /\ first \in g[n - 1]
      BY <1>2, <2>1, <2>3
    <3>. QED  BY <1>2, <1>3, <3>1
  <2>. HIDE DEF B
  <2>4. \A n \in 0 .. N : n \in B
    BY <1>1, <2>2, <2>3, NumbersUpTo
  <2>. QED  BY <2>4 DEF B
<1>. QED  BY <1>10, <1>11, <1>12 DEF N

\* From any tile of an air that is one, all of it is reached: each turn adds a tile, or
\* no neighbour leads out.
LEMMA ReachesAll ==
  ASSUME IsFiniteSet(air), air \in SUBSET Grid, OneIn(air), NEW first \in air
  PROVE  Reached(first) = air
<1>. DEFINE N == Cardinality(air)
<1>1. PICK f : /\ GrownUpTo(first, f) /\ Reached(first) = f[N]
               /\ \A n \in 0 .. N : f[n] \in SUBSET air /\ first \in f[n]
  BY ReachFound
<1>2. N \in Nat
  BY FS_CardinalityType
<1>3. f = [n \in 0 .. N |-> IF n = 0 THEN {first} ELSE Grown(f[n - 1])]
  BY <1>1 DEF GrownUpTo
<1>4. \A S \in SUBSET air : IsFiniteSet(S) /\ Cardinality(S) \in Nat
  BY FS_Subset, FS_CardinalityType
<1>5. \A S \in SUBSET air : Cardinality(S) <= N /\ (Cardinality(S) = N => S = air)
  BY FS_Subset
<1>. HIDE DEF N
<1>6. \A n \in 1 .. N : n \in 0 .. N /\ n # 0 /\ n - 1 \in 0 .. N
  BY <1>2
<1>. DEFINE B == {n \in 0 .. N : f[n] = air \/ Cardinality(f[n]) > n}
<1>7. 0 \in B
  <2>1. 0 \in 0 .. N
    BY <1>2
  <2>2. f[0] = {first}
    BY <1>3, <2>1
  <2>3. Cardinality({first}) = 1
    BY FS_Singleton
  <2>. QED  BY <2>1, <2>2, <2>3
<1>8. ASSUME NEW n \in 1 .. N, n - 1 \in B PROVE n \in B
  <2>. DEFINE S == f[n - 1]
  <2>1. /\ f[n] = Grown(S) /\ S \in SUBSET air /\ f[n] \in SUBSET air /\ first \in S
        /\ S = air \/ Cardinality(S) > n - 1
    BY <1>1, <1>3, <1>6, <1>8
  <2>2. S \subseteq f[n]
    BY <2>1 DEF Grown
  <2>. HIDE DEF S
  <2>3. CASE S = air
    <3>1. f[n] = air
      BY <2>1, <2>2, <2>3
    <3>. QED  BY <1>6, <3>1
  <2>4. CASE S # air
    <3>1. f[n] # S
      <4>1. ASSUME f[n] = S PROVE ClosedIn(S, air)
        <5>. SUFFICES ASSUME NEW t \in S, NEW u \in Cross(t), u \in air PROVE u \in S
          BY DEF ClosedIn
        <5>1. u \in Around(S)
          BY DEF Around
        <5>2. f[n] = S \union (Around(S) \intersect air)
          BY <2>1 DEF Grown
        <5>. QED  BY <4>1, <5>1, <5>2
      <4>2. ~ClosedIn(S, air)
        BY <2>1, <2>4 DEF OneIn
      <4>. QED  BY <4>1, <4>2
    <3>2. IsFiniteSet(f[n]) /\ Cardinality(f[n]) \in Nat /\ Cardinality(S) \in Nat
      BY <1>4, <2>1
    <3>3. Cardinality(S) <= Cardinality(f[n]) /\ (Cardinality(f[n]) = Cardinality(S) => f[n] = S)
      BY <2>2, <3>2, FS_Subset
    <3>4. Cardinality(f[n]) > n
      BY <2>1, <2>4, <3>1, <3>2, <3>3
    <3>. QED  BY <1>6, <3>4
  <2>. QED  BY <2>3, <2>4
<1>9. N \in B
  <2>. HIDE DEF B
  <2>1. \A n \in 0 .. N : n \in B
    BY <1>2, <1>7, <1>8, NumbersUpTo
  <2>2. N \in 0 .. N
    BY <1>2
  <2>. QED  BY <2>1, <2>2
<1>10. Cardinality(f[N]) <= N /\ Cardinality(f[N]) \in Nat
  BY <1>1, <1>2, <1>4, <1>5
<1>. QED  BY <1>1, <1>2, <1>9, <1>10

\* Tiles of air that follow each other are in the same closed sets.
LEMMA PathJoins ==
  ASSUME NEW A \in SUBSET Grid, NEW S \in SUBSET A, ClosedIn(S, A),
         NEW n \in Nat, NEW f, \A k \in 0 .. n : f[k] \in A,
         \A k \in 1 .. n : f[k] \in Cross(f[k - 1])
  PROVE  \A k \in 0 .. n : f[k] \in S <=> f[0] \in S
<1>. DEFINE T == {k \in 0 .. n : f[k] \in S <=> f[0] \in S}
<1>1. 0 \in T
  OBVIOUS
<1>2. ASSUME NEW k \in 1 .. n, k - 1 \in T PROVE k \in T
  <2>1. k \in 0 .. n /\ k - 1 \in 0 .. n
    OBVIOUS
  <2>2. f[k] \in A /\ f[k - 1] \in A /\ f[k] \in Grid /\ f[k - 1] \in Grid
    BY <2>1
  <2>3. f[k] \in Cross(f[k - 1]) /\ f[k - 1] \in Cross(f[k])
    BY <2>2, CrossBothWays
  <2>4. f[k] \in S <=> f[k - 1] \in S
    BY <2>2, <2>3 DEF ClosedIn
  <2>. QED  BY <1>2, <2>1, <2>4
<1>3. \A k \in 0 .. n : k \in T
  <2>. HIDE DEF T
  <2>. QED  BY <1>1, <1>2, NumbersUpTo
<1>. QED  BY <1>3

Span(a, b) == Toward(a, b) \union {b}

\* The numbers from a to b, one after the other.
Way(a, b) == IF a < b THEN [k \in 0 .. b - a |-> a + k] ELSE [k \in 0 .. a - b |-> a - k]
Steps(a, b) == IF a < b THEN b - a ELSE a - b

LEMMA WayGoes ==
  ASSUME NEW a \in Int, NEW b \in Int
  PROVE  /\ Steps(a, b) \in Nat /\ Way(a, b)[0] = a /\ a \in Span(a, b)
         /\ \A k \in 0 .. Steps(a, b) : Way(a, b)[k] \in Span(a, b) /\ Way(a, b)[k] \in Int
         /\ \A k \in 1 .. Steps(a, b) : \/ Way(a, b)[k] = Way(a, b)[k - 1] + 1
                                        \/ Way(a, b)[k] = Way(a, b)[k - 1] - 1
         /\ \A x \in Span(a, b) : \E k \in 0 .. Steps(a, b) : Way(a, b)[k] = x
<1>1. CASE a < b
  <2>1. Steps(a, b) = b - a /\ Way(a, b) = [k \in 0 .. b - a |-> a + k]
        /\ Span(a, b) = a .. b
    BY <1>1 DEF Steps, Way, Span, Toward
  <2>. DEFINE n == b - a
  <2>2. n \in Nat /\ 0 \in 0 .. n /\ a \in a .. b
    BY <1>1
  <2>3. \A k \in 0 .. n : Way(a, b)[k] = a + k /\ a + k \in a .. b
    BY <1>1, <2>1
  <2>4. \A k \in 1 .. n : k \in 0 .. n /\ k - 1 \in 0 .. n /\ k \in Int
    BY <2>2
  <2>5. \A x \in a .. b : x - a \in 0 .. n /\ a + (x - a) = x
    BY <1>1
  <2>6. Steps(a, b) = n
    BY <2>1
  <2>. HIDE DEF n
  <2>7. \A k \in 1 .. n : Way(a, b)[k] = Way(a, b)[k - 1] + 1
    BY <2>3, <2>4
  <2>8. \A x \in a .. b : Way(a, b)[x - a] = x
    BY <2>3, <2>5
  <2>9. \A k \in 0 .. n : Way(a, b)[k] \in a .. b
    BY <2>3
  <2>10. Way(a, b)[0] = a
    BY <2>2, <2>3
  <2>. QED  BY <2>1, <2>2, <2>5, <2>6, <2>7, <2>8, <2>9, <2>10
<1>2. CASE ~(a < b)
  <2>1. Steps(a, b) = a - b /\ Way(a, b) = [k \in 0 .. a - b |-> a - k]
        /\ Span(a, b) = b .. a
    BY <1>2 DEF Steps, Way, Span, Toward
  <2>. DEFINE n == a - b
  <2>2. n \in Nat /\ 0 \in 0 .. n /\ a \in b .. a
    BY <1>2
  <2>3. \A k \in 0 .. n : Way(a, b)[k] = a - k /\ a - k \in b .. a
    BY <1>2, <2>1
  <2>4. \A k \in 1 .. n : k \in 0 .. n /\ k - 1 \in 0 .. n /\ k \in Int
    BY <2>2
  <2>5. \A x \in b .. a : a - x \in 0 .. n /\ a - (a - x) = x
    BY <1>2
  <2>6. Steps(a, b) = n
    BY <2>1
  <2>. HIDE DEF n
  <2>7. \A k \in 1 .. n : Way(a, b)[k] = Way(a, b)[k - 1] - 1
    BY <2>3, <2>4
  <2>8. \A x \in b .. a : Way(a, b)[a - x] = x
    BY <2>3, <2>5
  <2>9. \A k \in 0 .. n : Way(a, b)[k] \in b .. a
    BY <2>3
  <2>10. Way(a, b)[0] = a
    BY <2>2, <2>3
  <2>. QED  BY <2>1, <2>2, <2>5, <2>6, <2>7, <2>8, <2>9, <2>10
<1>. QED  BY <1>1, <1>2

LEMMA RowJoins ==
  ASSUME NEW A \in SUBSET Grid, NEW S \in SUBSET A, ClosedIn(S, A),
         NEW a \in Int, NEW b \in Int, NEW y \in Int, \A x \in Span(a, b) : <<x, y>> \in A
  PROVE  \A x \in Span(a, b) : <<x, y>> \in S <=> <<a, y>> \in S
<1>. DEFINE n == Steps(a, b)
            w == Way(a, b)
            f == [k \in 0 .. n |-> <<w[k], y>>]
<1>1. /\ n \in Nat /\ w[0] = a
      /\ \A k \in 0 .. n : w[k] \in Span(a, b) /\ w[k] \in Int
      /\ \A k \in 1 .. n : w[k] = w[k - 1] + 1 \/ w[k] = w[k - 1] - 1
      /\ \A x \in Span(a, b) : \E k \in 0 .. n : w[k] = x
  <2>1. n \in Nat /\ w[0] = a
    BY WayGoes
  <2>2. \A k \in 0 .. n : w[k] \in Span(a, b) /\ w[k] \in Int
    BY WayGoes
  <2>3. \A k \in 1 .. n : w[k] = w[k - 1] + 1 \/ w[k] = w[k - 1] - 1
    BY WayGoes
  <2>4. \A x \in Span(a, b) : \E k \in 0 .. n : w[k] = x
    BY WayGoes
  <2>. QED  BY <2>1, <2>2, <2>3, <2>4
<1>. HIDE DEF n, w
<1>2. \A k \in 0 .. n : f[k] \in A
  BY <1>1
<1>3. \A k \in 1 .. n : f[k] \in Cross(f[k - 1])
  <2>. SUFFICES ASSUME NEW k \in 1 .. n PROVE f[k] \in Cross(f[k - 1])
    OBVIOUS
  <2>1. k \in 0 .. n /\ k - 1 \in 0 .. n
    BY <1>1
  <2>2. f[k] = <<w[k], y>> /\ f[k - 1] = <<w[k - 1], y>> /\ w[k] \in Int /\ w[k - 1] \in Int
    BY <1>1, <2>1
  <2>. HIDE DEF f
  <2>3. f[k] \in Grid /\ f[k - 1] \in Grid
    BY <2>2 DEF Grid
  <2>4. f[k][2] = f[k - 1][2] /\ (f[k][1] = f[k - 1][1] + 1 \/ f[k][1] = f[k - 1][1] - 1)
    <3>1. w[k] = w[k - 1] + 1 \/ w[k] = w[k - 1] - 1
      BY <1>1
    <3>2. f[k][2] = y /\ f[k][1] = w[k] /\ f[k - 1][2] = y /\ f[k - 1][1] = w[k - 1]
      BY <2>2
    <3>. QED  BY <3>1, <3>2
  <2>. QED  BY <2>3, <2>4, CrossMeaning
<1>4. \A k \in 0 .. n : f[k] \in S <=> f[0] \in S
  <2>. HIDE DEF f
  <2>. QED  BY <1>1, <1>2, <1>3, PathJoins
<1>5. f[0] = <<a, y>> /\ \A k \in 0 .. n : f[k] = <<w[k], y>>
  BY <1>1
<1>. HIDE DEF f
<1>. QED  BY <1>1, <1>4, <1>5

LEMMA ColumnJoins ==
  ASSUME NEW A \in SUBSET Grid, NEW S \in SUBSET A, ClosedIn(S, A),
         NEW a \in Int, NEW b \in Int, NEW x \in Int, \A y \in Span(a, b) : <<x, y>> \in A
  PROVE  \A y \in Span(a, b) : <<x, y>> \in S <=> <<x, a>> \in S
<1>. DEFINE n == Steps(a, b)
            w == Way(a, b)
            f == [k \in 0 .. n |-> <<x, w[k]>>]
<1>1. /\ n \in Nat /\ w[0] = a
      /\ \A k \in 0 .. n : w[k] \in Span(a, b) /\ w[k] \in Int
      /\ \A k \in 1 .. n : w[k] = w[k - 1] + 1 \/ w[k] = w[k - 1] - 1
      /\ \A y \in Span(a, b) : \E k \in 0 .. n : w[k] = y
  <2>1. n \in Nat /\ w[0] = a
    BY WayGoes
  <2>2. \A k \in 0 .. n : w[k] \in Span(a, b) /\ w[k] \in Int
    BY WayGoes
  <2>3. \A k \in 1 .. n : w[k] = w[k - 1] + 1 \/ w[k] = w[k - 1] - 1
    BY WayGoes
  <2>4. \A y \in Span(a, b) : \E k \in 0 .. n : w[k] = y
    BY WayGoes
  <2>. QED  BY <2>1, <2>2, <2>3, <2>4
<1>. HIDE DEF n, w
<1>2. \A k \in 0 .. n : f[k] \in A
  BY <1>1
<1>3. \A k \in 1 .. n : f[k] \in Cross(f[k - 1])
  <2>. SUFFICES ASSUME NEW k \in 1 .. n PROVE f[k] \in Cross(f[k - 1])
    OBVIOUS
  <2>1. k \in 0 .. n /\ k - 1 \in 0 .. n
    BY <1>1
  <2>2. f[k] = <<x, w[k]>> /\ f[k - 1] = <<x, w[k - 1]>> /\ w[k] \in Int /\ w[k - 1] \in Int
    BY <1>1, <2>1
  <2>. HIDE DEF f
  <2>3. f[k] \in Grid /\ f[k - 1] \in Grid
    BY <2>2 DEF Grid
  <2>4. f[k][1] = f[k - 1][1] /\ (f[k][2] = f[k - 1][2] + 1 \/ f[k][2] = f[k - 1][2] - 1)
    <3>1. w[k] = w[k - 1] + 1 \/ w[k] = w[k - 1] - 1
      BY <1>1
    <3>2. f[k][1] = x /\ f[k][2] = w[k] /\ f[k - 1][1] = x /\ f[k - 1][2] = w[k - 1]
      BY <2>2
    <3>. QED  BY <3>1, <3>2
  <2>. QED  BY <2>3, <2>4, CrossMeaning
<1>4. \A k \in 0 .. n : f[k] \in S <=> f[0] \in S
  <2>. HIDE DEF f
  <2>. QED  BY <1>1, <1>2, <1>3, PathJoins
<1>5. f[0] = <<x, a>> /\ \A k \in 0 .. n : f[k] = <<x, w[k]>>
  BY <1>1
<1>. HIDE DEF f
<1>. QED  BY <1>1, <1>4, <1>5

\* The tiles a corridor is dug along, and what is dug.
RowOf(start, end) == {<<x, start[2]>> : x \in Toward(start[1], end[1])}
ColumnOf(start, end) == {<<end[1], y>> : y \in Toward(start[2], end[2])}

LEMMA CorridorDug ==
  ASSUME NEW start \in Grid, NEW end \in Grid
  PROVE  /\ \A c \in Corridor(start, end) :
              \E t \in RowOf(start, end) \union ColumnOf(start, end) : c \in Cross(t)
         /\ \A t \in RowOf(start, end) \union ColumnOf(start, end) :
              t \in Grid /\ Cross(t) \subseteq Corridor(start, end)
<1>1. Corridor(start, end) = Around(RowOf(start, end) \union ColumnOf(start, end))
  BY DEF Corridor, RowOf, ColumnOf
<1>2. \A t \in RowOf(start, end) \union ColumnOf(start, end) : t \in Grid
  BY DEF RowOf, ColumnOf, Toward, Grid
<1>. QED  BY <1>1, <1>2 DEF Around

\* The tiles of the row and of the column, and the bend, are air when the corridor has
\* been dug.
LEMMA CorridorOpen ==
  ASSUME NEW A \in SUBSET Grid, NEW start \in A, NEW end \in A, Corridor(start, end) \subseteq A
  PROVE  /\ \A x \in Span(start[1], end[1]) : <<x, start[2]>> \in A
         /\ \A y \in Span(start[2], end[2]) : <<end[1], y>> \in A
<1>1. start \in Grid /\ end \in Grid
  OBVIOUS
<1>. DEFINE a == start[1]
            y == start[2]
            b == end[1]
            z == end[2]
<1>2. a \in Int /\ b \in Int /\ y \in Int /\ z \in Int /\ start = <<a, y>> /\ end = <<b, z>>
  BY <1>1 DEF Grid
<1>3. \A t \in RowOf(start, end) \union ColumnOf(start, end) : Cross(t) \subseteq A /\ t \in A
  BY <1>1, CorridorDug, CrossOnGrid
<1>4. \A x \in Toward(a, b) : <<x, y>> \in A /\ Cross(<<x, y>>) \subseteq A
  BY <1>3 DEF RowOf
<1>5. \A v \in Toward(y, z) : <<b, v>> \in A
  BY <1>3 DEF ColumnOf
<1>. HIDE DEF a, b, y, z
<1>6. <<b, y>> \in A
  <2>1. CASE a = b
    BY <1>2, <2>1
  <2>2. CASE a < b
    <3>1. b - 1 \in Toward(a, b)
      BY <1>2, <2>2 DEF Toward
    <3>2. <<b, y>> \in Cross(<<b - 1, y>>)
      BY <1>2 DEF Cross, Right
    <3>. QED  BY <1>4, <3>1, <3>2
  <2>3. CASE b < a
    <3>1. b + 1 \in Toward(a, b)
      BY <1>2, <2>3 DEF Toward
    <3>2. <<b, y>> \in Cross(<<b + 1, y>>)
      BY <1>2 DEF Cross, Left
    <3>. QED  BY <1>4, <3>1, <3>2
  <2>. QED  BY <1>2, <2>1, <2>2, <2>3
<1>7. \A x \in Span(a, b) : <<x, y>> \in A
  BY <1>4, <1>6 DEF Span
<1>8. \A v \in Span(y, z) : <<b, v>> \in A
  BY <1>2, <1>5 DEF Span
<1>. QED  BY <1>7, <1>8 DEF a, b, y, z

\* A corridor joins its ends, and what is dug beside it.
LEMMA CorridorJoins ==
  ASSUME NEW A \in SUBSET Grid, NEW start \in A, NEW end \in A, Corridor(start, end) \subseteq A,
         NEW S \in SUBSET A, ClosedIn(S, A)
  PROVE  /\ start \in S <=> end \in S
         /\ \A c \in Corridor(start, end) : c \in S => start \in S
<1>1. start \in Grid /\ end \in Grid
  OBVIOUS
<1>. DEFINE a == start[1]
            y == start[2]
            b == end[1]
            z == end[2]
<1>2. a \in Int /\ b \in Int /\ y \in Int /\ z \in Int /\ start = <<a, y>> /\ end = <<b, z>>
  BY <1>1 DEF Grid
<1>3. /\ \A x \in Span(a, b) : <<x, y>> \in A
      /\ \A v \in Span(y, z) : <<b, v>> \in A
  BY CorridorOpen
<1>4. /\ \A t \in RowOf(start, end) : \E x \in Toward(a, b) : t = <<x, y>>
      /\ \A t \in ColumnOf(start, end) : \E v \in Toward(y, z) : t = <<b, v>>
  BY DEF RowOf, ColumnOf
<1>. HIDE DEF a, b, y, z
<1>5. \A x \in Span(a, b) : <<x, y>> \in S <=> start \in S
  BY <1>2, <1>3, RowJoins
<1>6. \A v \in Span(y, z) : <<b, v>> \in S <=> <<b, y>> \in S
  BY <1>2, <1>3, ColumnJoins
<1>7. <<b, y>> \in S <=> start \in S
  BY <1>5 DEF Span
<1>8. start \in S <=> end \in S
  BY <1>2, <1>6, <1>7 DEF Span
<1>9. ASSUME NEW c \in Corridor(start, end), c \in S PROVE start \in S
  <2>1. PICK t \in RowOf(start, end) \union ColumnOf(start, end) : c \in Cross(t)
    BY <1>1, CorridorDug
  <2>2. t \in Grid /\ c \in Grid
    BY <1>1, CorridorDug
  <2>3. t \in Cross(c) /\ t \in Cross(t)
    BY <2>1, <2>2, CrossBothWays, CrossOnGrid
  <2>4. t \in A
    BY <1>1, <2>3, CorridorDug
  <2>5. t \in S
    BY <1>9, <2>3, <2>4 DEF ClosedIn
  <2>6. t \in RowOf(start, end) => \E x \in Span(a, b) : t = <<x, y>>
    BY <1>4 DEF Span
  <2>7. t \in ColumnOf(start, end) => \E v \in Span(y, z) : t = <<b, v>>
    BY <1>4 DEF Span
  <2>. QED  BY <1>5, <1>6, <1>7, <2>5, <2>6, <2>7
<1>. QED  BY <1>8, <1>9

\* Where the noises and the areas are, and where corridors may be dug.
Interior == (Border .. Width - Border - 1) \X (Border .. Height - Border - 1)
Inside == (Border - 1 .. Width - Border) \X (Border - 1 .. Height - Border)

LEMMA Places ==
  /\ Interior \subseteq Inside /\ Inside \subseteq Tile /\ Tile \subseteq Grid
  /\ IsFiniteSet(Tile)
  /\ \A t \in Interior : Cross(t) \subseteq Inside
<1>1. Width \in Nat /\ Height \in Nat /\ Border \in Nat /\ Border > 3
  BY MapGenAssumption
<1>2. Interior \subseteq Inside /\ Inside \subseteq Tile /\ Tile \subseteq Grid
  BY <1>1 DEF Interior, Inside, Tile, Grid
<1>3. IsFiniteSet(Tile)
  <2>1. 0 \in Int /\ Width - 1 \in Int /\ Height - 1 \in Int
    BY <1>1
  <2>2. IsFiniteSet(0 .. Width - 1) /\ IsFiniteSet(0 .. Height - 1)
    BY <2>1, FS_Interval
  <2>. QED  BY <2>2, FS_Product DEF Tile
<1>4. ASSUME NEW t \in Interior PROVE Cross(t) \subseteq Inside
  BY <1>1 DEF Interior, Inside, Cross, Right, Left, Up, Down
<1>. QED  BY <1>2, <1>3, <1>4

LEMMA BorderIsSolid ==
  ASSUME NEW low \in SUBSET Tile
  PROVE  {t \in low : ~InBorder(t)} \subseteq Interior
<1>1. Width \in Nat /\ Height \in Nat /\ Border \in Nat
  BY MapGenAssumption
<1>2. ASSUME NEW t \in Tile, ~InBorder(t) PROVE t \in Interior
  BY <1>1, <1>2 DEF Tile, InBorder, Interior
<1>. QED  BY <1>2

LEMMA CorridorInside ==
  ASSUME NEW start \in Interior, NEW end \in Interior
  PROVE  Corridor(start, end) \subseteq Inside
<1>1. start \in Grid /\ end \in Grid
  BY Places
<1>2. Width \in Nat /\ Height \in Nat /\ Border \in Nat
  BY MapGenAssumption
<1>3. ASSUME NEW t \in RowOf(start, end) PROVE t \in Interior
  BY <1>2 DEF RowOf, Toward, Interior
<1>4. ASSUME NEW t \in ColumnOf(start, end) PROVE t \in Interior
  BY <1>2 DEF ColumnOf, Toward, Interior
<1>. QED  BY <1>1, <1>3, <1>4, CorridorDug, Places

LEMMA FirstIsThere ==
  ASSUME NEW ts \in SUBSET Tile, ts # {}
  PROVE  FirstOf(ts) \in ts
<1>1. ASSUME NEW t \in Tile PROVE Linear(t) \in Nat
  <2>1. t[1] \in Nat /\ t[2] \in Nat /\ Width \in Nat
    BY MapGenAssumption DEF Tile
  <2>2. \A m, n \in Nat : m * n \in Nat
    OBVIOUS
  <2>3. t[2] * Width \in Nat
    BY <2>1, <2>2
  <2>. QED  BY <2>1, <2>3 DEF Linear
<1>. DEFINE Ns == {Linear(t) : t \in ts}
<1>2. Ns \in SUBSET Nat /\ Ns # {}
  BY <1>1
<1>3. PICK m \in Ns : \A n \in Ns : m <= n
  <2>. HIDE DEF Ns
  <2>. QED  BY <1>2, SmallestNumber
<1>4. PICK t \in ts : Linear(t) = m
  OBVIOUS
<1>5. \A u \in ts : Linear(t) <= Linear(u)
  BY <1>3, <1>4
<1>. QED  BY <1>5 DEF FirstOf

\* The nearest tile, of those the first.
LEMMA NearestFound ==
  ASSUME NEW s \in Seq(Grid), NEW end \in Grid, NEW near \in SUBSET DOMAIN s, near # {}
  PROVE  \E k \in near : \A j \in near :
           \/ Distance(s[k], end) < Distance(s[j], end)
           \/ Distance(s[k], end) = Distance(s[j], end) /\ k <= j
<1>1. ASSUME NEW i \in near PROVE Distance(s[i], end) \in Nat
  <2>1. s[i] \in Grid
    OBVIOUS
  <2>2. \A t \in Grid : t[1] \in Int /\ t[2] \in Int
    BY DEF Grid
  <2>3. \A n \in Int : Abs(n) \in Nat
    BY DEF Abs
  <2>. DEFINE a == s[i][1] - end[1]
              b == s[i][2] - end[2]
  <2>4. a \in Int /\ b \in Int
    BY <2>1, <2>2
  <2>5. Distance(s[i], end) = Abs(a) + Abs(b)
    BY DEF Distance
  <2>. HIDE DEF a, b
  <2>6. Abs(a) \in Nat /\ Abs(b) \in Nat
    BY <2>3, <2>4
  <2>7. \A m, n \in Nat : m + n \in Nat
    OBVIOUS
  <2>8. Abs(a) + Abs(b) \in Nat
    BY <2>6, <2>7
  <2>. QED  BY <2>5, <2>8
<1>. DEFINE D(i) == Distance(s[i], end)
            Ds == {D(i) : i \in near}
<1>2. Ds \in SUBSET Nat /\ Ds # {}
  BY <1>1
<1>3. PICK d \in Ds : \A e \in Ds : d <= e
  <2>. HIDE DEF Ds
  <2>. QED  BY <1>2, SmallestNumber
<1>. DEFINE Ks == {i \in near : D(i) = d}
<1>4. Ks \in SUBSET Nat /\ Ks # {}
  OBVIOUS
<1>5. PICK k \in Ks : \A j \in Ks : k <= j
  <2>. HIDE DEF Ks
  <2>. QED  BY <1>4, SmallestNumber
<1>6. k \in near /\ D(k) = d
  OBVIOUS
<1>7. ASSUME NEW j \in near PROVE D(k) < D(j) \/ (D(k) = D(j) /\ k <= j)
  <2>1. d <= D(j) /\ d \in Nat /\ D(j) \in Nat
    BY <1>1, <1>2, <1>3
  <2>2. D(j) = d => k <= j
    BY <1>5
  <2>. HIDE DEF D
  <2>. QED  BY <1>6, <2>1, <2>2
<1>. QED  BY <1>6, <1>7

LateStages == {"doodads", "hookable", "unhookable", "done"}
Kinds == {"Quad", "Background", "Game", "Doodads", "Hookable", "Unhookable"}
LayerTypes == [kind : Kinds, image : Int, drawn : SUBSET Tile]
GoodRules == {conf \in Seq(Rules) : \A i \in DOMAIN conf : conf[i].id # 0}

MapTypes ==
  /\ genStage \in Range(Stages) \union {"idle", "undefined"}
  /\ air \in SUBSET Inside /\ nohook \in SUBSET Inside /\ nohook \intersect air = {}
  /\ airList \in SUBSET Interior /\ visited \in SUBSET Tile
  /\ area \in Seq(Interior) /\ looked \in 0 .. Len(area)
  /\ areas \in Seq(Seq(Interior)) /\ doodads \in SUBSET Tile
  /\ groups \in Seq(Nat) /\ layers \in Seq(LayerTypes)
  /\ images \in Nat /\ configs \in Seq(GoodRules) /\ loaded \in Nat

Unstarted ==
  genStage \in {"idle", "back tiles", "noise"} =>
    /\ air = {} /\ visited = {} /\ area = <<>> /\ areas = <<>>

\* An area is joined and part of the air.
AreasJoined ==
  \A k \in DOMAIN areas : /\ areas[k] # <<>> /\ Range(areas[k]) \subseteq air
                          /\ JoinedIn(Range(areas[k]), air)

\* While areas are searched: a tile that no area has is next to none that an area has,
\* and the neighbours of those that were looked at are in the area.
Searched ==
  genStage = "areas" =>
    /\ air \subseteq Interior /\ airList \subseteq air
    /\ Range(area) \subseteq airList /\ visited \intersect airList \subseteq Range(area)
    /\ JoinedIn(Range(area), air)
    /\ \A i \in 1 .. looked : Cross(area[i]) \intersect air \subseteq Range(area)
    /\ \A t \in air \ airList : /\ Cross(t) \intersect airList = {}
                                /\ \E k \in DOMAIN areas : t \in Range(areas[k])
    /\ AreasJoined

\* While areas are connected: what is closed has a whole area; or the last of the areas
\* was freed.
Anchored ==
  \A S \in SUBSET air :
    ClosedIn(S, air) /\ S # {} => \E k \in DOMAIN areas : Range(areas[k]) \subseteq S

EndsFreed ==
  /\ Len(areas) > 0 /\ areas[Len(areas)] = Freed
  /\ Len(areas) = 1 => OneIn(air)

Connecting == genStage = "connect" => (AreasJoined /\ Anchored) \/ EndsFreed

Connected == genStage \in LateStages => OneIn(air)

LayersInv ==
  /\ Len(groups) = Len(layers)
  /\ \A g \in DOMAIN groups : groups[g] = g - 1
  /\ \A i \in DOMAIN layers :
       /\ layers[i].image < images
       /\ layers[i].kind \in {"Game", "Hookable", "Unhookable"} => genStage \in LateStages
       /\ layers[i].kind \in {"Game", "Hookable"} => layers[i].drawn = Tile \ air
       /\ layers[i].kind = "Unhookable" => layers[i].drawn = nohook
  /\ loaded # 0 => loaded \in DOMAIN layers /\ layers[loaded].kind = "Game"

MapInv ==
  MapTypes /\ Unstarted /\ Searched /\ Connecting /\ Connected /\ LayersInv

-----------------------------------------------------------------------------
\* The index of an empty tile is in no rule: what is drawn of a layer is all of it.
LEMMA DrawnWhole ==
  ASSUME NEW rules \in Seq(GoodRules), NEW full, NEW id
  PROVE  Proceed(full, rules, id) = {full}
<1>1. ASSUME id \in DOMAIN rules, rules[id] # <<>> PROVE 0 \notin Indexes(rules[id])
  <2>. DEFINE conf == rules[id]
              bases == {i \in DOMAIN conf : conf[i].base}
              first == CHOOSE i \in bases : \A j \in bases : i <= j
  <2>1. conf \in Seq(Rules) /\ \A i \in DOMAIN conf : conf[i].id # 0
    BY <1>1 DEF GoodRules
  <2>2. bases # {} => first \in bases
    <3>. SUFFICES ASSUME bases # {} PROVE \E i \in bases : \A j \in bases : i <= j
      OBVIOUS
    <3>1. bases \in SUBSET Nat
      BY <2>1
    <3>. HIDE DEF bases
    <3>. QED  BY <3>1, SmallestNumber
  <2>3. bases # {} => conf[first].id # 0
    BY <2>1, <2>2
  <2>4. Indexes(conf) = {IF bases = {} THEN 1 ELSE conf[first].id}
                        \union {conf[i].id : i \in DOMAIN conf \ bases}
    BY DEF Indexes
  <2>. HIDE DEF bases, first, conf
  <2>5. 0 \notin Indexes(conf)
    BY <2>1, <2>3, <2>4
  <2>. QED  BY <2>5 DEF conf
<1>. QED  BY <1>1 DEF Proceed

LEMMA RulesLoaded ==
  ASSUME configs \in Seq(GoodRules), NEW image
  PROVE  LoadRules(image) \in Seq(GoodRules)
<1>1. CASE image \in DOMAIN RuleFiles
  <2>1. /\ RuleFiles[image] \in Seq(Seq(Rules))
        /\ \A conf \in Range(RuleFiles[image]) : \A i \in DOMAIN conf : conf[i].id # 0
    BY <1>1, MapGenAssumption
  <2>2. \A k \in 1 .. Len(RuleFiles[image]) : RuleFiles[image][k] \in GoodRules
    <3>. DEFINE r == RuleFiles[image]
    <3>1. r \in Seq(Seq(Rules)) /\ \A conf \in Range(r) : \A i \in DOMAIN conf : conf[i].id # 0
      BY <2>1
    <3>. SUFFICES ASSUME NEW k \in 1 .. Len(r) PROVE r[k] \in GoodRules
      OBVIOUS
    <3>. HIDE DEF r
    <3>2. r[k] \in Seq(Rules) /\ r[k] \in Range(r)
      BY <3>1 DEF Range
    <3>3. \A i \in DOMAIN r[k] : r[k][i].id # 0
      BY <3>1, <3>2
    <3>. QED  BY <3>2, <3>3 DEF GoodRules
  <2>3. RuleFiles[image] \in Seq(GoodRules)
    <3>. DEFINE r == RuleFiles[image]
    <3>1. r \in Seq(Seq(Rules))
      BY <2>1
    <3>2. \A k \in 1 .. Len(r) : r[k] \in GoodRules
      BY <2>2
    <3>. HIDE DEF r
    <3>3. r \in Seq(GoodRules)
      BY <3>1, <3>2
    <3>. QED  BY <3>3 DEF r
  <2>4. \A s, t \in Seq(GoodRules) : s \o t \in Seq(GoodRules)
    OBVIOUS
  <2>. QED  BY <1>1, <2>3, <2>4 DEF LoadRules
<1>2. CASE image \notin DOMAIN RuleFiles
  BY <1>2 DEF LoadRules
<1>. QED  BY <1>1, <1>2

\* A layer and its group are added.
LEMMA GroupAdded ==
  ASSUME layers \in Seq(LayerTypes), groups \in Seq(Nat), Len(groups) = Len(layers),
         \A g \in DOMAIN groups : groups[g] = g - 1,
         NEW l \in LayerTypes, AddGroup(l)
  PROVE  /\ layers' \in Seq(LayerTypes) /\ groups' \in Seq(Nat)
         /\ Len(groups') = Len(layers') /\ \A g \in DOMAIN groups' : groups'[g] = g - 1
         /\ \A i \in DOMAIN layers : i \in DOMAIN layers' /\ layers'[i] = layers[i]
         /\ \A i \in DOMAIN layers' : i \in DOMAIN layers \/ layers'[i] = l
<1>1. layers' = Append(layers, l) /\ groups' = Append(groups, Len(layers))
  BY DEF AddGroup
<1>2. Len(layers) \in Nat /\ DOMAIN layers = 1 .. Len(layers) /\ DOMAIN groups = 1 .. Len(layers)
  OBVIOUS
<1>3. /\ layers' \in Seq(LayerTypes) /\ groups' \in Seq(Nat)
      /\ Len(layers') = Len(layers) + 1 /\ Len(groups') = Len(layers) + 1
  BY <1>1, <1>2
<1>4. /\ DOMAIN layers' = 1 .. Len(layers) + 1 /\ DOMAIN groups' = 1 .. Len(layers) + 1
      /\ layers'[Len(layers) + 1] = l /\ groups'[Len(layers) + 1] = Len(layers)
      /\ \A i \in 1 .. Len(layers) : layers'[i] = layers[i] /\ groups'[i] = groups[i]
  BY <1>1, <1>2, <1>3
<1>5. \A i \in 1 .. Len(layers) + 1 : i \in 1 .. Len(layers) \/ i = Len(layers) + 1
  BY <1>2
<1>. QED  BY <1>2, <1>3, <1>4, <1>5

\* The layers stay right when one is added that is right.
LEMMA LayerAdded ==
  ASSUME MapTypes, LayersInv, NEW l \in LayerTypes, AddGroup(l), UNCHANGED loaded,
         images' \in Nat, images <= images', l.image < images',
         l.kind \in {"Game", "Hookable", "Unhookable"} => genStage' \in LateStages,
         l.kind \in {"Game", "Hookable"} => l.drawn = Tile \ air',
         l.kind = "Unhookable" => l.drawn = nohook',
         genStage \in LateStages => genStage' \in LateStages /\ UNCHANGED <<air, nohook>>
  PROVE  layers' \in Seq(LayerTypes) /\ groups' \in Seq(Nat) /\ LayersInv'
<1>1. /\ layers' \in Seq(LayerTypes) /\ groups' \in Seq(Nat)
      /\ Len(groups') = Len(layers') /\ \A g \in DOMAIN groups' : groups'[g] = g - 1
      /\ \A i \in DOMAIN layers : i \in DOMAIN layers' /\ layers'[i] = layers[i]
      /\ \A i \in DOMAIN layers' : i \in DOMAIN layers \/ layers'[i] = l
  BY GroupAdded DEF MapTypes, LayersInv
<1>2. \A i \in DOMAIN layers : layers[i].image \in Int /\ images \in Nat
  <2>1. layers \in Seq(LayerTypes) /\ images \in Nat
    BY DEF MapTypes
  <2>2. \A i \in DOMAIN layers : layers[i] \in LayerTypes
    BY <2>1
  <2>3. \A k \in LayerTypes : k.image \in Int
    BY DEF LayerTypes
  <2>. QED  BY <2>1, <2>2, <2>3
<1>3. ASSUME NEW i \in DOMAIN layers'
      PROVE  /\ layers'[i].image < images'
             /\ layers'[i].kind \in {"Game", "Hookable", "Unhookable"} => genStage' \in LateStages
             /\ layers'[i].kind \in {"Game", "Hookable"} => layers'[i].drawn = Tile \ air'
             /\ layers'[i].kind = "Unhookable" => layers'[i].drawn = nohook'
  <2>1. CASE i \in DOMAIN layers
    <3>1. /\ layers'[i] = layers[i] /\ layers[i].image < images
          /\ layers[i].kind \in {"Game", "Hookable", "Unhookable"} => genStage \in LateStages
          /\ layers[i].kind \in {"Game", "Hookable"} => layers[i].drawn = Tile \ air
          /\ layers[i].kind = "Unhookable" => layers[i].drawn = nohook
      BY <1>1, <2>1 DEF LayersInv
    <3>2. layers[i].image < images'
      BY <1>2, <2>1, <3>1
    <3>. QED  BY <3>1, <3>2
  <2>2. CASE layers'[i] = l
    BY <2>2
  <2>. QED  BY <1>1, <2>1, <2>2
<1>4. (loaded # 0 => loaded \in DOMAIN layers /\ layers[loaded].kind = "Game")'
  BY <1>1 DEF LayersInv
<1>. QED  BY <1>1, <1>3, <1>4 DEF LayersInv

\* They stay right when nothing is added and no area changes that is drawn.
LEMMA LayersKept ==
  ASSUME LayersInv, UNCHANGED <<groups, layers, images, loaded>>,
         genStage \in LateStages => genStage' \in LateStages /\ UNCHANGED <<air, nohook>>
  PROVE  LayersInv'
BY DEF LayersInv

-----------------------------------------------------------------------------
\* The places of doodads.
PlacedUpTo(f) ==
  f = [n \in 0 .. Width * Height |->
         IF n = 0 THEN {}
         ELSE LET t == <<(n - 1) % Width, (n - 1) \div Width>>
              IN  IF /\ t \in DoodadAir /\ DoodadGround(t) \intersect air = {}
                     /\ \A p \in f[n - 1] : DoodadTiles(p) \intersect DoodadTiles(t) = {}
                    THEN f[n - 1] \union {t} ELSE f[n - 1]]

LEMMA DoodadsOnTiles == Placed \in SUBSET DoodadAir
<1>. DEFINE N == Width * Height
            t(n) == <<(n - 1) % Width, (n - 1) \div Width>>
            CanHold(n, S) == /\ t(n) \in DoodadAir /\ DoodadGround(t(n)) \intersect air = {}
                          /\ \A p \in S : DoodadTiles(p) \intersect DoodadTiles(t(n)) = {}
            Next1(n, S) == IF CanHold(n, S) THEN S \union {t(n)} ELSE S
            H == [n \in 0 .. N |-> SUBSET DoodadAir]
            F == [n \in 1 .. N |-> [S \in SUBSET DoodadAir |-> Next1(n, S)]]
<1>1. N \in Nat
  <2>1. \A m, n \in Nat : m * n \in Nat
    OBVIOUS
  <2>2. Width \in Nat /\ Height \in Nat
    BY MapGenAssumption
  <2>. QED  BY <2>1, <2>2
<1>. HIDE DEF N
<1>2. \A n \in 1 .. N : n \in 0 .. N /\ n # 0 /\ n - 1 \in 0 .. N
  BY <1>1
<1>3. \A n, S : S \in SUBSET DoodadAir => Next1(n, S) \in SUBSET DoodadAir
  OBVIOUS
<1>4. \A n \in 1 .. N : \A S \in H[n - 1] : F[n][S] = Next1(n, S) /\ F[n][S] \in H[n]
  <2>. HIDE DEF Next1
  <2>. QED  BY <1>2, <1>3
<1>5. {} \in H[0] /\ \A n \in 0 .. N : H[n] \subseteq SUBSET DoodadAir
  BY <1>1
<1>6. PICK f \in [0 .. N -> SUBSET DoodadAir] : Runs(f, {}, F, N)
  <2>. HIDE DEF H, F
  <2>1. \A n \in 1 .. N : \A S \in H[n - 1] : F[n][S] \in H[n]
    BY <1>4
  <2>. QED  BY <1>1, <1>5, <2>1, LoopRuns
<1>7. \A n \in 0 .. N : f[n] = IF n = 0 THEN {} ELSE Next1(n, f[n - 1])
  <2>. SUFFICES ASSUME NEW n \in 0 .. N PROVE f[n] = IF n = 0 THEN {} ELSE Next1(n, f[n - 1])
    OBVIOUS
  <2>1. CASE n = 0
    BY <1>6, <2>1 DEF Runs
  <2>2. CASE n # 0
    <3>1. n \in 1 .. N
      BY <1>1, <2>2
    <3>2. f[n - 1] \in H[n - 1] /\ f[n] = F[n][f[n - 1]]
      BY <1>2, <1>6, <3>1 DEF Runs
    <3>. HIDE DEF Next1, H, F
    <3>. QED  BY <1>4, <2>2, <3>1, <3>2
  <2>. QED  BY <2>1, <2>2
<1>8. PlacedUpTo(f)
  BY <1>6, <1>7 DEF PlacedUpTo, N
<1>9. PICK g : g = (CHOOSE h : PlacedUpTo(h)) /\ PlacedUpTo(g)
  BY <1>8
<1>10. Placed = g[N]
  BY <1>9 DEF Placed, PlacedUpTo, N
<1>11. \A n \in 0 .. N : g[n] = IF n = 0 THEN {} ELSE Next1(n, g[n - 1])
  BY <1>9 DEF PlacedUpTo, N
<1>. HIDE DEF Next1, F, H
<1>. DEFINE B == {n \in 0 .. N : g[n] \in SUBSET DoodadAir}
<1>12. 0 \in B
  BY <1>1, <1>11
<1>13. ASSUME NEW n \in 1 .. N, n - 1 \in B PROVE n \in B
  BY <1>2, <1>3, <1>11, <1>13
<1>14. \A n \in 0 .. N : n \in B
  <2>. HIDE DEF B
  <2>. QED  BY <1>1, <1>12, <1>13, NumbersUpTo
<1>15. N \in 0 .. N
  BY <1>1
<1>. QED  BY <1>10, <1>14, <1>15

LEMMA DoodadsInside ==
  /\ DoodadAir \subseteq Tile
  /\ \A p \in DoodadAir : DoodadTiles(p) \subseteq Tile
<1>1. Width \in Nat /\ Height \in Nat /\ DoodadWidth \in Nat \ {0}
  BY MapGenAssumption
<1>2. ASSUME NEW p \in DoodadAir
      PROVE  /\ p[1] \in 0 .. Width - DoodadWidth - 1 /\ p[2] \in 1 .. Height - 3
             /\ p = <<p[1], p[2]>>
  BY <1>2 DEF DoodadAir, DoodadRows
<1>3. ASSUME NEW p \in DoodadAir PROVE p \in Tile /\ DoodadTiles(p) \subseteq Tile
  BY <1>1, <1>2 DEF Tile, DoodadTiles, DoodadRows
<1>. QED  BY <1>3

LEMMA StagesKnown ==
  /\ \A s \in {"background", "back tiles", "noise", "areas", "connect", "doodads", "hookable",
             "unhookable", "done"} : s \in Range(Stages)
<1>1. DOMAIN Stages = 1 .. 9
  BY DEF Stages
<1>2. \A i \in 1 .. 9 : Stages[i] \in Range(Stages)
  BY <1>1 DEF Range
<1>3. /\ Stages[1] = "background" /\ Stages[2] = "back tiles" /\ Stages[3] = "noise"
      /\ Stages[4] = "areas" /\ Stages[5] = "connect" /\ Stages[6] = "doodads"
      /\ Stages[7] = "hookable" /\ Stages[8] = "unhookable" /\ Stages[9] = "done"
  BY DEF Stages
<1>. HIDE DEF Stages
<1>4. 1 \in 1 .. 9 /\ 2 \in 1 .. 9 /\ 3 \in 1 .. 9 /\ 4 \in 1 .. 9 /\ 5 \in 1 .. 9
      /\ 6 \in 1 .. 9 /\ 7 \in 1 .. 9 /\ 8 \in 1 .. 9 /\ 9 \in 1 .. 9
  OBVIOUS
<1>. QED  BY <1>2, <1>3, <1>4

LEMMA MapBegins == MapGenInit => MapInv
<1>. SUFFICES ASSUME MapGenInit PROVE MapInv
  OBVIOUS
<1>. USE DEF MapGenInit
<1>1. MapTypes
  BY DEF MapTypes
<1>2. Unstarted /\ Searched /\ Connecting /\ Connected
  BY DEF Unstarted, Searched, Connecting, Connected, LateStages
<1>3. LayersInv
  BY DEF LayersInv
<1>. QED  BY <1>1, <1>2, <1>3 DEF MapInv

LEMMA BackgroundStep == MapInv /\ StartMap => MapInv'
<1>. SUFFICES ASSUME MapInv, StartMap PROVE MapInv'
  OBVIOUS
<1>. DEFINE l == Layer("Quad", -1, {})
<1>1. l \in LayerTypes /\ l.image = -1 /\ l.kind = "Quad"
  BY DEF Layer, LayerTypes, Kinds
<1>2. /\ genStage = "idle" /\ genStage' = "back tiles" /\ AddGroup(l)
      /\ UNCHANGED <<air, nohook, searchVars, areas, doodads, images, configs, loaded>>
  BY DEF StartMap
<1>. HIDE DEF l
<1>3. MapTypes /\ LayersInv /\ images \in Nat
  BY DEF MapInv, MapTypes
<1>4. layers' \in Seq(LayerTypes) /\ groups' \in Seq(Nat) /\ LayersInv'
  <2>1. images' = images /\ loaded' = loaded
    BY <1>2
  <2>2. images' \in Nat /\ images <= images' /\ l.image < images'
    BY <1>1, <1>3, <2>1
  <2>3. genStage \notin LateStages
    BY <1>2 DEF LateStages
  <2>. QED  BY <1>1, <1>2, <1>3, <2>1, <2>2, <2>3, LayerAdded
<1>5. MapTypes'
  <2>1. genStage' \in Range(Stages)
    BY <1>2, StagesKnown
  <2>. QED  BY <1>2, <1>3, <1>4, <2>1 DEF MapTypes, searchVars
<1>6. Unstarted'
  BY <1>2 DEF MapInv, Unstarted, searchVars
<1>7. Searched' /\ Connecting' /\ Connected'
  BY <1>2 DEF Searched, Connecting, Connected, LateStages
<1>. QED  BY <1>4, <1>5, <1>6, <1>7 DEF MapInv

LEMMA BackTilesStep ==
  ASSUME MapInv, NEW noise \in {{}, NoiseTiles}, GenerateBackgroundTile(noise)
  PROVE  MapInv'
<1>1. /\ genStage = "back tiles" /\ genStage' = "noise" /\ configs' = LoadRules("grass_main")
      /\ UNCHANGED <<air, nohook, searchVars, areas, doodads, loaded>>
  BY DEF GenerateBackgroundTile
<1>2. MapTypes /\ LayersInv /\ images \in Nat /\ configs \in Seq(GoodRules)
  BY DEF MapInv, MapTypes
<1>3. configs' \in Seq(GoodRules)
  BY <1>1, <1>2, RulesLoaded
<1>4. PICK drawn \in Proceed(noise, configs', RuleOf("grass_main")) :
        AddExternalImage("Background", drawn)
  BY DEF GenerateBackgroundTile
<1>5. drawn = noise
  BY <1>3, <1>4, DrawnWhole
<1>. DEFINE l == Layer("Background", images, drawn)
<1>6. images' = images + 1 /\ AddGroup(l)
  BY <1>4 DEF AddExternalImage
<1>7. l \in LayerTypes /\ l.image = images /\ l.kind = "Background"
  <2>1. noise \in SUBSET Tile
    BY MapGenAssumption DEF Tile
  <2>. QED  BY <1>2, <1>5, <2>1 DEF Layer, LayerTypes, Kinds
<1>. HIDE DEF l
<1>8. layers' \in Seq(LayerTypes) /\ groups' \in Seq(Nat) /\ LayersInv'
  <2>1. images' \in Nat /\ images <= images' /\ l.image < images'
    BY <1>2, <1>6, <1>7
  <2>2. genStage \notin LateStages
    BY <1>1 DEF LateStages
  <2>. QED  BY <1>1, <1>2, <1>6, <1>7, <2>1, <2>2, LayerAdded
<1>9. images' \in Nat
  BY <1>2, <1>6
<1>10. MapTypes'
  <2>1. genStage' \in Range(Stages)
    BY <1>1, StagesKnown
  <2>. QED  BY <1>1, <1>2, <1>3, <1>8, <1>9, <2>1 DEF MapTypes, searchVars
<1>11. Unstarted'
  BY <1>1 DEF MapInv, Unstarted, searchVars
<1>12. Searched' /\ Connecting' /\ Connected'
  BY <1>1 DEF Searched, Connecting, Connected, LateStages
<1>. QED  BY <1>8, <1>10, <1>11, <1>12 DEF MapInv

LEMMA NoiseStep ==
  ASSUME MapInv, NEW low1 \in NohookNoises, NEW low2 \in SUBSET NoiseTiles, Noise(low1, low2)
  PROVE  MapInv'
<1>1. /\ genStage = "noise" /\ genStage' = "areas"
      /\ nohook' = {t \in low1 : ~InBorder(t)} /\ air' = {t \in low2 \ low1 : ~InBorder(t)}
      /\ airList' = air'
      /\ UNCHANGED <<visited, area, looked, areas, doodads, groups, layers, images, configs, loaded>>
  BY DEF Noise
<1>2. MapTypes /\ LayersInv
  BY DEF MapInv
<1>3. visited = {} /\ area = <<>> /\ areas = <<>>
  BY <1>1 DEF MapInv, Unstarted
<1>4. low1 \in SUBSET Tile /\ low2 \in SUBSET Tile /\ low2 \ low1 \in SUBSET Tile
  BY MapGenAssumption DEF Tile
<1>5. nohook' \in SUBSET Interior /\ air' \in SUBSET Interior /\ nohook' \intersect air' = {}
  BY <1>1, <1>4, BorderIsSolid
<1>6. MapTypes'
  <2>1. genStage' \in Range(Stages)
    BY <1>1, StagesKnown
  <2>2. air' \in SUBSET Inside /\ nohook' \in SUBSET Inside /\ airList' \in SUBSET Interior
    BY <1>1, <1>5, Places
  <2>. QED  BY <1>1, <1>2, <1>5, <2>1, <2>2 DEF MapTypes
<1>7. LayersInv'
  <2>1. genStage \notin LateStages
    BY <1>1 DEF LateStages
  <2>. QED  BY <1>1, <1>2, <2>1, LayersKept
<1>8. Unstarted' /\ Connecting' /\ Connected'
  BY <1>1 DEF Unstarted, Connecting, Connected, LateStages
<1>9. Searched'
  <2>1. Range(area') = {} /\ looked' = 0
    BY <1>1, <1>2, <1>3 DEF Range, MapTypes
  <2>2. AreasJoined'
    BY <1>1, <1>3 DEF AreasJoined
  <2>3. JoinedIn(Range(area'), air')
    BY <2>1 DEF JoinedIn
  <2>. QED  BY <1>1, <1>3, <1>5, <2>1, <2>2, <2>3 DEF Searched
<1>. QED  BY <1>6, <1>7, <1>8, <1>9 DEF MapInv

-----------------------------------------------------------------------------
\* A step of the search changes nothing of the layers.
LEMMA SearchKeeps ==
  ASSUME MapTypes, LayersInv, genStage = "areas", UNCHANGED generated
  PROVE  /\ LayersInv'
         /\ air' = air /\ nohook' = nohook /\ doodads' = doodads /\ configs' = configs
         /\ groups' = groups /\ layers' = layers /\ images' = images /\ loaded' = loaded
<1>1. genStage \notin LateStages
  BY DEF LateStages
<1>. QED  BY <1>1, LayersKept DEF generated

LEMMA NewAreaStep == MapInv /\ NewArea => MapInv'
<1>. SUFFICES ASSUME MapInv, NewArea PROVE MapInv'
  OBVIOUS
<1>1. /\ genStage = "areas" /\ genStage' = genStage /\ area = <<>>
      /\ Cardinality(airList) > 1 /\ area' = <<FirstOf(airList)>> /\ looked' = 0
      /\ UNCHANGED <<airList, visited, areas, generated>>
  BY DEF NewArea
<1>2. MapTypes /\ Searched /\ LayersInv
  BY DEF MapInv
<1>3. /\ LayersInv'
      /\ air' = air /\ nohook' = nohook /\ doodads' = doodads /\ configs' = configs
      /\ groups' = groups /\ layers' = layers /\ images' = images /\ loaded' = loaded
  BY <1>1, <1>2, SearchKeeps
<1>. DEFINE t == FirstOf(airList)
<1>4. t \in airList /\ t \in Interior
  <2>1. airList # {}
    BY <1>1, FS_EmptySet
  <2>2. airList \in SUBSET Interior /\ airList \in SUBSET Tile
    BY <1>2, Places DEF MapTypes
  <2>. QED  BY <2>1, <2>2, FirstIsThere
<1>. HIDE DEF t
<1>5. area' = <<t>>
  BY <1>1 DEF t
<1>6. area' \in Seq(Interior) /\ Range(area') = {t} /\ Len(area') = 1
  BY <1>4, <1>5 DEF Range
<1>7. MapTypes'
  BY <1>1, <1>2, <1>3, <1>6 DEF MapTypes
<1>8. Searched'
  <2>1. Range(area) = {}
    BY <1>1 DEF Range
  <2>2. JoinedIn(Range(area'), air')
    BY <1>6, SingleJoined
  <2>3. AreasJoined'
    BY <1>1, <1>2, <1>3 DEF AreasJoined, Searched
  <2>4. 1 .. looked' = {}
    BY <1>1
  <2>. QED  BY <1>1, <1>2, <1>3, <1>4, <1>6, <2>1, <2>2, <2>3, <2>4 DEF Searched
<1>9. Unstarted' /\ Connecting' /\ Connected'
  BY <1>1 DEF Unstarted, Connecting, Connected, LateStages
<1>. QED  BY <1>3, <1>7, <1>8, <1>9 DEF MapInv

\* What a tile that may be unseen adds to an area.
LEMMA UnseenAdded ==
  ASSUME air \in SUBSET Interior, NEW s \in Seq(Interior), NEW u
  PROVE  /\ s \o Unseen(u) \in Seq(Interior) /\ Len(s) <= Len(s \o Unseen(u))
         /\ Range(s \o Unseen(u)) = Range(s) \union ({u} \intersect (air \ visited))
         /\ \A i \in 1 .. Len(s) : (s \o Unseen(u))[i] = s[i]
<1>1. CASE u \in air \ visited
  <2>1. Unseen(u) = <<u>> /\ u \in Interior
    BY <1>1 DEF Unseen
  <2>. DEFINE q == s \o <<u>>
  <2>2. /\ q \in Seq(Interior) /\ Len(q) = Len(s) + 1 /\ q[Len(s) + 1] = u
        /\ \A i \in 1 .. Len(s) : q[i] = s[i]
    BY <2>1
  <2>. HIDE DEF q
  <2>3. Range(q) = Range(s) \union {u}
    <3>1. DOMAIN q = 1 .. Len(s) + 1 /\ DOMAIN s = 1 .. Len(s) /\ Len(s) \in Nat
      BY <2>2
    <3>2. \A i \in 1 .. Len(s) + 1 : i \in 1 .. Len(s) \/ i = Len(s) + 1
      BY <3>1
    <3>3. \A i \in 1 .. Len(s) : i \in 1 .. Len(s) + 1
      BY <3>1
    <3>4. Len(s) + 1 \in 1 .. Len(s) + 1
      BY <3>1
    <3>. QED  BY <2>2, <3>1, <3>2, <3>3, <3>4 DEF Range
  <2>4. s \o Unseen(u) = q /\ Len(s) <= Len(s) + 1
    BY <2>1 DEF q
  <2>. QED  BY <1>1, <2>2, <2>3, <2>4
<1>2. CASE u \notin air \ visited
  <2>1. s \o Unseen(u) = s /\ Len(s) <= Len(s)
    BY <1>2 DEF Unseen
  <2>. QED  BY <1>2, <2>1
<1>. QED  BY <1>1, <1>2

\* The neighbours of a tile that no area has are in no area.
LEMMA NeighboursAreLeft ==
  ASSUME MapTypes, Searched, genStage = "areas", NEW t \in airList
  PROVE  Cross(t) \intersect air \subseteq airList
<1>. SUFFICES ASSUME NEW u \in Cross(t) \intersect air, u \notin airList PROVE FALSE
  OBVIOUS
<1>1. air \subseteq Grid /\ t \in Grid /\ u \in Grid
  BY Places DEF MapTypes, Searched
<1>2. t \in Cross(u)
  BY <1>1, CrossBothWays
<1>. QED  BY <1>2 DEF Searched

LEMMA VisitedArea ==
  ASSUME MapTypes, Searched, genStage = "areas", VisitTile
  PROVE  LET t == area[looked + 1]
             fresh == {Right(t), Left(t), Up(t), Down(t)} \intersect (air \ visited)
         IN  /\ looked \in Nat /\ Len(area) \in Nat /\ looked < Len(area)
             /\ t \in Range(area) /\ t \in Interior
             /\ area' \in Seq(Interior) /\ Len(area) <= Len(area')
             /\ Range(area') = Range(area) \union fresh
             /\ \A i \in 1 .. Len(area) : area'[i] = area[i]
<1>1. /\ looked < Len(area)
      /\ LET t == area[looked + 1]
         IN  area' = area \o Unseen(Right(t)) \o Unseen(Left(t)) \o Unseen(Up(t))
                         \o Unseen(Down(t))
  BY DEF VisitTile
<1>2. area \in Seq(Interior) /\ looked \in Nat /\ Len(area) \in Nat /\ air \in SUBSET Interior
  BY DEF MapTypes, Searched
<1>. DEFINE t == area[looked + 1]
            s1 == area \o Unseen(Right(t))
            s2 == s1 \o Unseen(Left(t))
            s3 == s2 \o Unseen(Up(t))
            s4 == s3 \o Unseen(Down(t))
<1>3. t \in Range(area) /\ t \in Interior
  <2>1. looked + 1 \in 1 .. Len(area)
    BY <1>1, <1>2
  <2>. QED  BY <1>2, <2>1 DEF Range
<1>4. /\ s1 \in Seq(Interior) /\ Len(area) <= Len(s1)
      /\ Range(s1) = Range(area) \union ({Right(t)} \intersect (air \ visited))
      /\ \A i \in 1 .. Len(area) : s1[i] = area[i]
  <2>. HIDE DEF t
  <2>. QED  BY <1>2, UnseenAdded
<1>. HIDE DEF s1
<1>5. /\ s2 \in Seq(Interior) /\ Len(s1) <= Len(s2)
      /\ Range(s2) = Range(s1) \union ({Left(t)} \intersect (air \ visited))
      /\ \A i \in 1 .. Len(s1) : s2[i] = s1[i]
  <2>. HIDE DEF t
  <2>. QED  BY <1>2, <1>4, UnseenAdded
<1>. HIDE DEF s2
<1>6. /\ s3 \in Seq(Interior) /\ Len(s2) <= Len(s3)
      /\ Range(s3) = Range(s2) \union ({Up(t)} \intersect (air \ visited))
      /\ \A i \in 1 .. Len(s2) : s3[i] = s2[i]
  <2>. HIDE DEF t
  <2>. QED  BY <1>2, <1>5, UnseenAdded
<1>. HIDE DEF s3
<1>7. /\ s4 \in Seq(Interior) /\ Len(s3) <= Len(s4)
      /\ Range(s4) = Range(s3) \union ({Down(t)} \intersect (air \ visited))
      /\ \A i \in 1 .. Len(s3) : s4[i] = s3[i]
  <2>. HIDE DEF t
  <2>. QED  BY <1>2, <1>6, UnseenAdded
<1>8. area' = s4
  BY <1>1 DEF s1, s2, s3
<1>. HIDE DEF s4, t
<1>9. Len(s1) \in Nat /\ Len(s2) \in Nat /\ Len(s3) \in Nat /\ Len(s4) \in Nat
  BY <1>4, <1>5, <1>6, <1>7
<1>10. \A i \in 1 .. Len(area) : i \in 1 .. Len(s1) /\ i \in 1 .. Len(s2) /\ i \in 1 .. Len(s3)
  BY <1>2, <1>4, <1>5, <1>6, <1>9
<1>11. Len(area) <= Len(s4)
  BY <1>2, <1>4, <1>5, <1>6, <1>7, <1>9
<1>12. \A i \in 1 .. Len(area) : s4[i] = area[i]
  BY <1>4, <1>5, <1>6, <1>7, <1>10
<1>13. Range(s4) = Range(area)
          \union ({Right(t), Left(t), Up(t), Down(t)} \intersect (air \ visited))
  BY <1>4, <1>5, <1>6, <1>7
<1>. QED  BY <1>1, <1>2, <1>3, <1>7, <1>8, <1>11, <1>12, <1>13 DEF t

LEMMA VisitTileStep == MapInv /\ VisitTile => MapInv'
<1>. SUFFICES ASSUME MapInv, VisitTile PROVE MapInv'
  OBVIOUS
<1>. DEFINE t == area[looked + 1]
            fresh == {Right(t), Left(t), Up(t), Down(t)} \intersect (air \ visited)
<1>1. /\ genStage = "areas" /\ genStage' = genStage /\ looked' = looked + 1
      /\ visited' = visited \union {t} \union (air \intersect {Right(t), Left(t), Up(t)})
                     \union (IF Unseen(Down(t)) # <<>> THEN {Up(t)} ELSE {})
      /\ airList' = airList /\ areas' = areas /\ UNCHANGED generated
  BY DEF VisitTile
<1>2. MapTypes /\ Searched /\ LayersInv
  BY DEF MapInv
<1>3. /\ looked \in Nat /\ Len(area) \in Nat /\ looked < Len(area)
      /\ t \in Range(area) /\ t \in Interior
      /\ area' \in Seq(Interior) /\ Len(area) <= Len(area')
      /\ Range(area') = Range(area) \union fresh
      /\ \A i \in 1 .. Len(area) : area'[i] = area[i]
  BY <1>1, <1>2, VisitedArea
<1>4. /\ LayersInv'
      /\ air' = air /\ nohook' = nohook /\ doodads' = doodads /\ configs' = configs
      /\ groups' = groups /\ layers' = layers /\ images' = images /\ loaded' = loaded
  BY <1>1, <1>2, SearchKeeps
<1>. HIDE DEF t
<1>5. /\ air \subseteq Interior /\ airList \subseteq air
      /\ Range(area) \subseteq airList /\ visited \intersect airList \subseteq Range(area)
      /\ JoinedIn(Range(area), air)
      /\ \A i \in 1 .. looked : Cross(area[i]) \intersect air \subseteq Range(area)
      /\ \A u \in air \ airList : /\ Cross(u) \intersect airList = {}
                                  /\ \E k \in DOMAIN areas : u \in Range(areas[k])
      /\ AreasJoined
  BY <1>1, <1>2 DEF Searched
<1>6. t \in airList /\ Cross(t) \intersect air \subseteq airList
  BY <1>1, <1>2, <1>3, <1>5, NeighboursAreLeft
<1>7. Cross(t) = {t, Right(t), Left(t), Up(t), Down(t)} /\ Cross(t) \subseteq Tile
  BY <1>3, Places DEF Cross
<1>8. fresh \subseteq airList /\ fresh \subseteq Cross(t) \intersect air
  BY <1>6, <1>7
<1>9. Cross(t) \intersect air \subseteq Range(area')
  BY <1>3, <1>5, <1>6, <1>7
<1>10. visited' \in SUBSET Tile /\ visited' \intersect airList \subseteq Range(area')
  <2>1. visited' \subseteq visited \union Cross(t)
    BY <1>1, <1>7
  <2>2. visited \subseteq Tile
    BY <1>2 DEF MapTypes
  <2>. QED  BY <1>3, <1>5, <1>7, <1>9, <2>1, <2>2
<1>11. JoinedIn(Range(area'), air)
  <2>1. air \in SUBSET Grid /\ Range(area) \in SUBSET air
    BY <1>5, Places
  <2>. HIDE DEF fresh
  <2>2. fresh \in SUBSET (Cross(t) \intersect air)
    BY <1>8
  <2>3. JoinedIn(Range(area) \union fresh, air)
    BY <1>3, <1>5, <2>1, <2>2, JoinNeighbours
  <2>. QED  BY <1>3, <2>3
<1>12. \A i \in 1 .. looked' : Cross(area'[i]) \intersect air \subseteq Range(area')
  <2>. SUFFICES ASSUME NEW i \in 1 .. looked + 1
                PROVE  Cross(area'[i]) \intersect air \subseteq Range(area')
    BY <1>1
  <2>1. i \in 1 .. Len(area) /\ area'[i] = area[i]
    BY <1>3
  <2>2. CASE i \in 1 .. looked
    BY <1>3, <1>5, <2>1, <2>2
  <2>3. CASE i = looked + 1
    BY <1>9, <2>1, <2>3 DEF t
  <2>4. i \in 1 .. looked \/ i = looked + 1
    BY <1>3
  <2>. QED  BY <2>2, <2>3, <2>4
<1>13. looked' \in 0 .. Len(area')
  <2>1. Len(area') \in Nat
    BY <1>3
  <2>. QED  BY <1>1, <1>3, <2>1
<1>14. MapTypes'
  BY <1>1, <1>2, <1>3, <1>4, <1>10, <1>13 DEF MapTypes
<1>15. AreasJoined'
  BY <1>1, <1>4, <1>5 DEF AreasJoined
<1>16. Range(area') \subseteq airList
  BY <1>3, <1>5, <1>8
<1>17. Searched'
  BY <1>1, <1>4, <1>5, <1>10, <1>11, <1>12, <1>15, <1>16 DEF Searched
<1>18. Unstarted' /\ Connecting' /\ Connected'
  BY <1>1 DEF Unstarted, Connecting, Connected, LateStages
<1>. QED  BY <1>4, <1>14, <1>17, <1>18 DEF MapInv

LEMMA AreaIsWholeStep == MapInv /\ AreaIsWhole => MapInv'
<1>. SUFFICES ASSUME MapInv, AreaIsWhole PROVE MapInv'
  OBVIOUS
<1>1. /\ genStage = "areas" /\ genStage' = genStage /\ area # <<>> /\ looked = Len(area)
      /\ airList' = airList \ Range(area) /\ areas' = Append(areas, area)
      /\ area' = <<>> /\ looked' = 0 /\ visited' = visited /\ UNCHANGED generated
  BY DEF AreaIsWhole
<1>2. MapTypes /\ Searched /\ LayersInv
  BY DEF MapInv
<1>3. /\ LayersInv'
      /\ air' = air /\ nohook' = nohook /\ doodads' = doodads /\ configs' = configs
      /\ groups' = groups /\ layers' = layers /\ images' = images /\ loaded' = loaded
  BY <1>1, <1>2, SearchKeeps
<1>4. /\ air \subseteq Interior /\ airList \subseteq air
      /\ Range(area) \subseteq airList /\ visited \intersect airList \subseteq Range(area)
      /\ JoinedIn(Range(area), air)
      /\ \A i \in 1 .. looked : Cross(area[i]) \intersect air \subseteq Range(area)
      /\ \A u \in air \ airList : /\ Cross(u) \intersect airList = {}
                                  /\ \E k \in DOMAIN areas : u \in Range(areas[k])
      /\ AreasJoined
  BY <1>1, <1>2 DEF Searched
<1>5. area \in Seq(Interior) /\ areas \in Seq(Seq(Interior)) /\ airList \in SUBSET Interior
  BY <1>2 DEF MapTypes
<1>6. /\ areas' \in Seq(Seq(Interior))
      /\ \A k \in DOMAIN areas : k \in DOMAIN areas' /\ areas'[k] = areas[k]
      /\ Len(areas) + 1 \in DOMAIN areas' /\ areas'[Len(areas) + 1] = area
      /\ \A k \in DOMAIN areas' : k \in DOMAIN areas \/ areas'[k] = area
  BY <1>1, <1>5
<1>7. Range(area') = {} /\ area' \in Seq(Interior) /\ Len(area') = 0 /\ 1 .. looked' = {}
  BY <1>1 DEF Range
<1>8. MapTypes'
  <2>1. airList' \in SUBSET Interior /\ looked' \in 0 .. Len(area')
    BY <1>1, <1>5, <1>7
  <2>. QED  BY <1>1, <1>2, <1>3, <1>6, <1>7, <2>1 DEF MapTypes
<1>9. AreasJoined'
  <2>. SUFFICES ASSUME NEW k \in DOMAIN areas'
                PROVE  /\ areas'[k] # <<>> /\ Range(areas'[k]) \subseteq air
                       /\ JoinedIn(Range(areas'[k]), air)
    BY <1>3 DEF AreasJoined
  <2>1. CASE k \in DOMAIN areas
    BY <1>4, <1>6, <2>1 DEF AreasJoined
  <2>2. CASE areas'[k] = area
    BY <1>1, <1>4, <2>2
  <2>. QED  BY <1>6, <2>1, <2>2
<1>10. ASSUME NEW t \in air \ airList'
       PROVE  /\ Cross(t) \intersect airList' = {}
              /\ \E k \in DOMAIN areas' : t \in Range(areas'[k])
  <2>1. CASE t \in Range(area)
    <3>1. PICK i \in 1 .. Len(area) : t = area[i]
      BY <1>5, <2>1 DEF Range
    <3>2. Cross(t) \intersect air \subseteq Range(area)
      BY <1>1, <1>4, <3>1
    <3>. QED  BY <1>1, <1>4, <1>6, <2>1, <3>2
  <2>2. CASE t \notin airList
    BY <1>1, <1>4, <1>6, <2>2
  <2>. QED  BY <1>1, <2>1, <2>2
<1>11. JoinedIn(Range(area'), air)
  BY <1>7 DEF JoinedIn
<1>12. Searched'
  <2>1. airList' \subseteq air /\ visited' \intersect airList' \subseteq Range(area')
    BY <1>1, <1>4
  <2>. QED  BY <1>1, <1>3, <1>4, <1>7, <1>9, <1>10, <1>11, <2>1 DEF Searched
<1>13. Unstarted' /\ Connecting' /\ Connected'
  BY <1>1 DEF Unstarted, Connecting, Connected, LateStages
<1>. QED  BY <1>3, <1>8, <1>12, <1>13 DEF MapInv

LEMMA EndAreasStep == MapInv /\ EndAreas => MapInv'
<1>. SUFFICES ASSUME MapInv, EndAreas PROVE MapInv'
  OBVIOUS
<1>1. /\ genStage = "areas" /\ genStage' = "connect" /\ Cardinality(airList) <= 1
      /\ areas' = IF airList = {} THEN areas ELSE Append(areas, Freed)
      /\ UNCHANGED <<airList, visited, area, looked, generated>>
  BY DEF EndAreas
<1>2. MapTypes /\ Searched /\ LayersInv
  BY DEF MapInv
<1>3. /\ LayersInv'
      /\ air' = air /\ nohook' = nohook /\ doodads' = doodads /\ configs' = configs
      /\ groups' = groups /\ layers' = layers /\ images' = images /\ loaded' = loaded
  BY <1>1, <1>2, SearchKeeps
<1>4. /\ airList \subseteq air /\ AreasJoined
      /\ \A u \in air \ airList : \E k \in DOMAIN areas : u \in Range(areas[k])
  BY <1>1, <1>2 DEF Searched
<1>5. areas \in Seq(Seq(Interior))
  BY <1>2 DEF MapTypes
<1>6. MapTypes'
  <2>1. genStage' \in Range(Stages)
    BY <1>1, StagesKnown
  <2>2. areas' \in Seq(Seq(Interior))
    BY <1>1, <1>5 DEF Freed
  <2>. QED  BY <1>1, <1>2, <1>3, <2>1, <2>2 DEF MapTypes
<1>7. Connecting'
  <2>1. CASE airList = {}
    <3>1. areas' = areas
      BY <1>1, <2>1
    <3>2. AreasJoined'
      BY <1>3, <1>4, <3>1 DEF AreasJoined
    <3>3. Anchored'
      <4>. SUFFICES ASSUME NEW S \in SUBSET air, ClosedIn(S, air), S # {}
                    PROVE  \E k \in DOMAIN areas : Range(areas[k]) \subseteq S
        BY <1>3, <3>1 DEF Anchored
      <4>1. PICK t \in S : TRUE
        OBVIOUS
      <4>2. PICK k \in DOMAIN areas : t \in Range(areas[k])
        BY <1>4, <2>1, <4>1
      <4>. QED  BY <1>4, <4>1, <4>2 DEF AreasJoined, JoinedIn
    <3>. QED  BY <3>2, <3>3 DEF Connecting
  <2>2. CASE airList # {}
    <3>1. areas' = Append(areas, Freed)
      BY <1>1, <2>2
    <3>2. Len(areas') = Len(areas) + 1 /\ areas'[Len(areas) + 1] = Freed /\ Len(areas) \in Nat
      BY <1>5, <3>1
    <3>3. ASSUME Len(areas') = 1 PROVE OneIn(air)
      <4>1. DOMAIN areas = {}
        <5>1. Len(areas) = 0
          <6>1. Len(areas) + 1 = 1
            BY <3>2, <3>3
          <6>. QED  BY <3>2, <6>1
        <5>2. areas = <<>>
          BY <1>5, <5>1
        <5>. QED  BY <5>2
      <4>2. air = airList
        BY <1>4, <4>1
      <4>3. \A u, v \in airList : u = v
        <5>1. IsFiniteSet(airList)
          BY <1>2, Places, FS_Subset DEF MapTypes
        <5>2. Cardinality(airList) = 0 \/ Cardinality(airList) = 1
          BY <1>1, <5>1, FS_CardinalityType
        <5>3. Cardinality(airList) = 1
          BY <2>2, <5>1, <5>2, FS_EmptySet
        <5>. QED  BY <5>1, <5>3, FS_Singleton
      <4>. QED  BY <4>2, <4>3 DEF OneIn
    <3>. QED  BY <1>3, <3>2, <3>3 DEF Connecting, EndsFreed
  <2>. QED  BY <2>1, <2>2
<1>8. Unstarted' /\ Searched' /\ Connected'
  BY <1>1 DEF Unstarted, Searched, Connected, LateStages
<1>. QED  BY <1>3, <1>6, <1>7, <1>8 DEF MapInv

\* The second area is put behind the first.
MergedAreas == <<areas[1] \o areas[2]>> \o SubSeq(areas, 3, Len(areas))

LEMMA AreasMerged ==
  ASSUME areas \in Seq(Seq(Interior)), Len(areas) > 1
  PROVE  /\ MergedAreas \in Seq(Seq(Interior)) /\ Len(MergedAreas) = Len(areas) - 1
         /\ MergedAreas[1] = areas[1] \o areas[2]
         /\ Range(MergedAreas[1]) = Range(areas[1]) \union Range(areas[2])
         /\ \A k \in 2 .. Len(areas) - 1 : MergedAreas[k] = areas[k + 1]
<1>. DEFINE n == Len(areas)
            first == areas[1] \o areas[2]
            rest == SubSeq(areas, 3, n)
<1>1. n \in Nat /\ n > 1 /\ DOMAIN areas = 1 .. n
  OBVIOUS
<1>2. areas[1] \in Seq(Interior) /\ areas[2] \in Seq(Interior) /\ first \in Seq(Interior)
  BY <1>1
<1>3. Range(first) = Range(areas[1]) \union Range(areas[2])
  BY <1>2, RangeConcatenation
<1>. HIDE DEF first
<1>4. /\ rest \in Seq(Seq(Interior)) /\ Len(rest) = n - 2
      /\ \A i \in 1 .. n - 2 : rest[i] = areas[i + 2]
  <2>. DEFINE S == Seq(Interior)
  <2>1. \A i \in 3 .. n : areas[i] \in S
    BY <1>1
  <2>2. 3 \in Int /\ n \in Int
    BY <1>1
  <2>. HIDE DEF S, n
  <2>3. /\ SubSeq(areas, 3, n) \in Seq(S)
        /\ Len(SubSeq(areas, 3, n)) = IF 3 <= n THEN n - 3 + 1 ELSE 0
        /\ \A i \in 1 .. n - 3 + 1 : SubSeq(areas, 3, n)[i] = areas[3 + i - 1]
    BY ONLY <2>1, <2>2, SubSeqProperties
  <2>4. Len(rest) = n - 2
    BY <1>1, <2>3
  <2>5. \A i \in 1 .. n - 2 : i \in 1 .. n - 3 + 1 /\ 3 + i - 1 = i + 2
    BY <1>1
  <2>. QED  BY <2>3, <2>4, <2>5 DEF S
<1>. HIDE DEF rest
<1>. DEFINE whole == <<first>>
<1>5. whole \in Seq(Seq(Interior)) /\ Len(whole) = 1 /\ whole[1] = first
  BY <1>2
<1>6. MergedAreas = whole \o rest
  BY DEF MergedAreas, first, rest
<1>. HIDE DEF whole, n
<1>7. /\ MergedAreas \in Seq(Seq(Interior)) /\ Len(MergedAreas) = n - 1
      /\ \A k \in 1 .. n - 1 : MergedAreas[k] = IF k <= 1 THEN whole[k] ELSE rest[k - 1]
  <2>. DEFINE T == Seq(Interior)
  <2>1. whole \in Seq(T) /\ rest \in Seq(T)
    BY <1>4, <1>5
  <2>. HIDE DEF T
  <2>2. /\ whole \o rest \in Seq(T) /\ Len(whole \o rest) = Len(whole) + Len(rest)
        /\ \A i \in 1 .. Len(whole) + Len(rest) :
             (whole \o rest)[i] = IF i <= Len(whole) THEN whole[i] ELSE rest[i - Len(whole)]
    BY <2>1
  <2>3. Len(whole) + Len(rest) = n - 1
    BY <1>1, <1>4, <1>5
  <2>. QED  BY <1>5, <1>6, <2>2, <2>3 DEF T
<1>8. MergedAreas[1] = first
  BY <1>1, <1>5, <1>7
<1>9. ASSUME NEW k \in 2 .. n - 1 PROVE MergedAreas[k] = areas[k + 1]
  <2>1. k \in 1 .. n - 1 /\ ~(k <= 1) /\ k - 1 \in 1 .. n - 2 /\ (k - 1) + 2 = k + 1
    BY <1>1
  <2>. QED  BY <1>4, <1>7, <2>1
<1>. QED  BY <1>3, <1>7, <1>8, <1>9 DEF first, n

\* Two areas that a corridor joins are one, and with the corridor every closed set that
\* is not empty still has an area.
LEMMA AreasConnected ==
  ASSUME areas \in Seq(Seq(Interior)), Len(areas) > 1, AreasJoined, Anchored,
         NEW start \in Range(areas[1]), NEW end \in Range(areas[2]),
         NEW more, more = air \union Corridor(start, end), more \in SUBSET Grid
  PROVE  /\ \A k \in DOMAIN MergedAreas : /\ MergedAreas[k] # <<>> /\ Range(MergedAreas[k]) \subseteq more
                                     /\ JoinedIn(Range(MergedAreas[k]), more)
         /\ \A S \in SUBSET more :
              ClosedIn(S, more) /\ S # {} => \E k \in DOMAIN MergedAreas : Range(MergedAreas[k]) \subseteq S
<1>. DEFINE B == Range(areas[1])
            C == Range(areas[2])
<1>1. /\ MergedAreas \in Seq(Seq(Interior)) /\ Len(MergedAreas) = Len(areas) - 1
      /\ MergedAreas[1] = areas[1] \o areas[2] /\ Range(MergedAreas[1]) = B \union C
      /\ \A k \in 2 .. Len(areas) - 1 : MergedAreas[k] = areas[k + 1]
  BY AreasMerged
<1>2. Len(areas) \in Nat /\ DOMAIN areas = 1 .. Len(areas) /\ 1 \in DOMAIN areas /\ 2 \in DOMAIN areas
  OBVIOUS
<1>3. /\ areas[1] # <<>> /\ areas[2] # <<>>
      /\ B \subseteq air /\ C \subseteq air /\ JoinedIn(B, air) /\ JoinedIn(C, air)
  BY <1>2 DEF AreasJoined
<1>4. air \subseteq more /\ Corridor(start, end) \subseteq more
      /\ B \in SUBSET more /\ C \in SUBSET more /\ start \in more /\ end \in more
  BY <1>3
<1>5. JoinedIn(B, more) /\ JoinedIn(C, more)
  BY <1>3, <1>4, JoinedInMore
<1>6. ASSUME NEW S \in SUBSET more, ClosedIn(S, more)
      PROVE  /\ start \in S <=> end \in S
             /\ \A c \in Corridor(start, end) : c \in S => start \in S
  BY <1>4, <1>6, CorridorJoins
<1>7. JoinedIn(B \union C, more)
  <2>1. \A S \in SUBSET more : ClosedIn(S, more) => (start \in S <=> end \in S)
    BY <1>6
  <2>. HIDE DEF B, C
  <2>2. start \in B /\ end \in C
    BY DEF B, C
  <2>. QED  BY <1>4, <1>5, <2>1, <2>2, JoinTwo
<1>8. DOMAIN MergedAreas = 1 .. Len(areas) - 1
  BY <1>1, <1>2
<1>9. \A k \in 1 .. Len(areas) - 1 : k = 1 \/ (k \in 2 .. Len(areas) - 1 /\ k + 1 \in DOMAIN areas)
  BY <1>2
<1>10. ASSUME NEW k \in DOMAIN MergedAreas
       PROVE  /\ MergedAreas[k] # <<>> /\ Range(MergedAreas[k]) \subseteq more
              /\ JoinedIn(Range(MergedAreas[k]), more)
  <2>1. CASE k = 1
    <3>1. areas[1] \o areas[2] # <<>>
      <4>1. areas[1] \in Seq(Interior) /\ areas[2] \in Seq(Interior)
        BY <1>2
      <4>. QED  BY <1>3, <4>1
    <3>. HIDE DEF B, C
    <3>. QED  BY <1>1, <1>4, <1>7, <2>1, <3>1
  <2>2. CASE k \in 2 .. Len(areas) - 1 /\ k + 1 \in DOMAIN areas
    <3>1. /\ areas[k + 1] # <<>> /\ Range(areas[k + 1]) \subseteq air
          /\ JoinedIn(Range(areas[k + 1]), air)
      BY <2>2 DEF AreasJoined
    <3>2. Range(areas[k + 1]) \in SUBSET air
      BY <3>1
    <3>3. JoinedIn(Range(areas[k + 1]), more)
      BY <1>4, <3>1, <3>2, JoinedInMore
    <3>. QED  BY <1>1, <1>4, <2>2, <3>1, <3>3
  <2>. QED  BY <1>8, <1>9, <2>1, <2>2
<1>11. ASSUME NEW S \in SUBSET more, ClosedIn(S, more), S # {}
       PROVE  \E k \in DOMAIN MergedAreas : Range(MergedAreas[k]) \subseteq S
  <2>. DEFINE T == S \intersect air
  <2>1. T \in SUBSET air /\ ClosedIn(T, air)
    BY <1>4, <1>11 DEF ClosedIn
  <2>2. T # {}
    <3>1. PICK c \in S : TRUE
      BY <1>11
    <3>2. CASE c \in air
      BY <3>1, <3>2
    <3>3. CASE c \in Corridor(start, end)
      <4>1. start \in S /\ start \in air
        BY <1>3, <1>6, <1>11, <3>1, <3>3
      <4>. QED  BY <4>1
    <3>. QED  BY <3>1, <3>2, <3>3
  <2>3. PICK k \in DOMAIN areas : Range(areas[k]) \subseteq T
    <3>. HIDE DEF T
    <3>. QED  BY <2>1, <2>2 DEF Anchored
  <2>4. (start \in S <=> end \in S) /\ (S \intersect B # {} => B \subseteq S)
        /\ (S \intersect C # {} => C \subseteq S)
    BY <1>5, <1>6, <1>11 DEF JoinedIn
  <2>5. CASE k = 1 \/ k = 2
    <3>1. B \union C \subseteq S
      <4>1. start \in B /\ end \in C
        OBVIOUS
      <4>2. B \subseteq S \/ C \subseteq S
        BY <2>3, <2>5
      <4>. HIDE DEF B, C
      <4>. QED  BY <2>4, <4>1, <4>2
    <3>2. 1 \in DOMAIN MergedAreas
      BY <1>2, <1>8
    <3>. HIDE DEF B, C
    <3>. QED  BY <1>1, <3>1, <3>2
  <2>6. CASE k # 1 /\ k # 2
    <3>1. k - 1 \in 2 .. Len(areas) - 1 /\ k - 1 \in DOMAIN MergedAreas /\ (k - 1) + 1 = k
      <4>1. k \in 1 .. Len(areas) /\ k \in Nat
        BY <1>2
      <4>2. k - 1 \in 2 .. Len(areas) - 1 /\ k - 1 \in 1 .. Len(areas) - 1 /\ (k - 1) + 1 = k
        BY <1>2, <2>6, <4>1
      <4>. QED  BY <1>8, <4>2
    <3>2. MergedAreas[k - 1] = areas[k]
      BY <1>1, <3>1
    <3>. QED  BY <2>3, <3>1, <3>2
  <2>. QED  BY <2>5, <2>6
<1>. QED  BY <1>10, <1>11

LEMMA ConnectAreaStep ==
  ASSUME MapInv, NEW end \in Tile, ConnectArea(end)
  PROVE  MapInv'
<1>. DEFINE D(k) == Distance(areas[1][k], end)
            near == {k \in Sampled(areas[1]) : D(k) < Width}
            i == CHOOSE k \in near : \A j \in near : D(k) < D(j) \/ (D(k) = D(j) /\ k <= j)
            C == Corridor(areas[1][i], end)
<1>1. /\ genStage = "connect" /\ Len(areas) > 1 /\ areas[2] # Freed /\ end \in Range(areas[2])
      /\ UNCHANGED <<searchVars, doodads, groups, layers, images, configs, loaded>>
  BY DEF ConnectArea
<1>2. IF near = {} THEN genStage' = "undefined" /\ UNCHANGED <<air, nohook, areas>>
      ELSE /\ air' = air \union C /\ nohook' = nohook \ C
           /\ areas' = MergedAreas /\ UNCHANGED genStage
  BY DEF ConnectArea, MergedAreas
<1>3. MapTypes /\ LayersInv /\ areas \in Seq(Seq(Interior))
  BY DEF MapInv, MapTypes
<1>4. genStage \notin LateStages
  BY <1>1 DEF LateStages
<1>5. LayersInv'
  BY <1>1, <1>3, <1>4, LayersKept
<1>. HIDE DEF C
<1>6. CASE near = {}
  <2>1. genStage' = "undefined" /\ UNCHANGED <<air, nohook, areas>>
    BY <1>2, <1>6
  <2>. HIDE DEF near
  <2>2. MapTypes'
    BY <1>1, <1>3, <2>1 DEF MapTypes, searchVars
  <2>3. Unstarted' /\ Searched' /\ Connecting' /\ Connected'
    BY <2>1 DEF Unstarted, Searched, Connecting, Connected, LateStages
  <2>. QED  BY <1>5, <2>2, <2>3 DEF MapInv
<1>7. CASE near # {}
  <2>1. air' = air \union C /\ nohook' = nohook \ C /\ areas' = MergedAreas /\ genStage' = genStage
    BY <1>2, <1>7
  <2>2. areas[1] \in Seq(Interior) /\ areas[2] \in Seq(Interior) /\ Len(areas) \in Nat
    BY <1>1, <1>3
  <2>3. end \in Interior
    BY <1>1, <2>2 DEF Range
  <2>4. i \in near
    <3>1. areas[1] \in Seq(Grid) /\ end \in Grid
      <4>1. Interior \subseteq Grid
        BY Places
      <4>. HIDE DEF near
      <4>. QED  BY <2>2, <2>3, <4>1
    <3>2. near \in SUBSET DOMAIN areas[1]
      BY DEF Sampled
    <3>3. \E k \in near : \A j \in near : D(k) < D(j) \/ (D(k) = D(j) /\ k <= j)
      <4>. HIDE DEF near
      <4>. QED  BY <1>7, <3>1, <3>2, NearestFound
    <3>. HIDE DEF near, D
    <3>. QED  BY <3>3
  <2>. DEFINE start == areas[1][i]
  <2>5. start \in Range(areas[1]) /\ start \in Interior
    <3>1. i \in DOMAIN areas[1]
      BY <2>4 DEF Sampled
    <3>. HIDE DEF i
    <3>. QED  BY <2>2, <3>1 DEF Range
  <2>6. C = Corridor(start, end)
    BY DEF C
  <2>. HIDE DEF near, i, start
  <2>7. C \subseteq Inside
    BY <2>3, <2>5, <2>6, CorridorInside
  <2>8. air' \in SUBSET Inside /\ nohook' \in SUBSET Inside /\ nohook' \intersect air' = {}
    BY <1>3, <2>1, <2>7 DEF MapTypes
  <2>9. /\ MergedAreas \in Seq(Seq(Interior)) /\ Len(MergedAreas) = Len(areas) - 1
        /\ \A k \in 2 .. Len(areas) - 1 : MergedAreas[k] = areas[k + 1]
    BY <1>1, <1>3, AreasMerged
  <2>10. MapTypes'
    BY <1>1, <1>3, <2>1, <2>8, <2>9 DEF MapTypes, searchVars
  <2>11. ASSUME AreasJoined, Anchored PROVE Connecting'
    <3>. DEFINE more == air'
    <3>1. more = air \union Corridor(start, end) /\ more \in SUBSET Grid
      BY <2>1, <2>6, <2>8, Places
    <3>. HIDE DEF more
    <3>2. /\ \A k \in DOMAIN MergedAreas : /\ MergedAreas[k] # <<>> /\ Range(MergedAreas[k]) \subseteq more
                                      /\ JoinedIn(Range(MergedAreas[k]), more)
          /\ \A S \in SUBSET more :
               ClosedIn(S, more) /\ S # {} => \E k \in DOMAIN MergedAreas : Range(MergedAreas[k]) \subseteq S
      BY <1>1, <1>3, <2>5, <2>11, <3>1, AreasConnected
    <3>3. AreasJoined' /\ Anchored'
      BY <2>1, <3>2 DEF AreasJoined, Anchored, more
    <3>. QED  BY <3>3 DEF Connecting
  <2>12. ASSUME EndsFreed PROVE Connecting'
    <3>1. areas[Len(areas)] = Freed /\ Len(areas) # 2
      BY <1>1, <2>12 DEF EndsFreed
    <3>2. Len(areas) - 1 \in 2 .. Len(areas) - 1 /\ (Len(areas) - 1) + 1 = Len(areas)
      BY <1>1, <2>2, <3>1
    <3>3. MergedAreas[Len(areas) - 1] = Freed
      BY <2>9, <3>1, <3>2
    <3>4. Len(MergedAreas) > 0 /\ Len(MergedAreas) # 1 /\ MergedAreas[Len(MergedAreas)] = Freed
      <4>1. Len(areas) - 1 > 0 /\ Len(areas) - 1 # 1
        BY <1>1, <2>2, <3>1
      <4>. QED  BY <2>9, <3>3, <4>1
    <3>. QED  BY <2>1, <3>4 DEF Connecting, EndsFreed
  <2>13. Connecting'
    BY <1>1, <2>11, <2>12 DEF MapInv, Connecting
  <2>14. Unstarted' /\ Searched' /\ Connected'
    BY <1>1, <2>1 DEF Unstarted, Searched, Connected, LateStages
  <2>. QED  BY <1>5, <2>10, <2>13, <2>14 DEF MapInv
<1>. QED  BY <1>6, <1>7

LEMMA ConnectFreedStep == MapInv /\ ConnectFreed => MapInv'
<1>. SUFFICES ASSUME MapInv, ConnectFreed PROVE MapInv'
  OBVIOUS
<1>1. /\ genStage = "connect" /\ genStage' = "undefined"
      /\ UNCHANGED <<air, nohook, searchVars, areas, doodads, groups, layers, images, configs,
                     loaded>>
  BY DEF ConnectFreed
<1>2. MapTypes /\ LayersInv
  BY DEF MapInv
<1>3. LayersInv'
  <2>1. genStage \notin LateStages
    BY <1>1 DEF LateStages
  <2>. QED  BY <1>1, <1>2, <2>1, LayersKept
<1>4. MapTypes'
  BY <1>1, <1>2 DEF MapTypes, searchVars
<1>5. Unstarted' /\ Searched' /\ Connecting' /\ Connected'
  BY <1>1 DEF Unstarted, Searched, Connecting, Connected, LateStages
<1>. QED  BY <1>3, <1>4, <1>5 DEF MapInv

\* When no second area is left, the air is one.
LEMMA AirIsOne ==
  ASSUME MapTypes, Connecting, genStage = "connect", Len(areas) <= 1
  PROVE  OneIn(air)
<1>1. areas \in Seq(Seq(Interior)) /\ Len(areas) \in Nat /\ air \in SUBSET Grid
  BY Places DEF MapTypes
<1>2. Len(areas) = 0 \/ Len(areas) = 1
  <2>1. \A n \in Nat : n <= 1 => n = 0 \/ n = 1
    OBVIOUS
  <2>. QED  BY <1>1, <2>1
<1>3. CASE AreasJoined /\ Anchored
  <2>1. CASE Len(areas) = 0
    <3>1. DOMAIN areas = {}
      BY <1>1, <2>1
    <3>. QED  BY <1>3, <3>1 DEF Anchored, OneIn
  <2>2. CASE Len(areas) = 1
    <3>1. DOMAIN areas = {1}
      BY <1>1, <2>2
    <3>2. areas[1] \in Seq(Interior) /\ areas[1] # <<>>
      <4>1. 1 \in DOMAIN areas
        BY <3>1
      <4>2. areas[1] \in Seq(Interior)
        BY <1>1, <4>1
      <4>. QED  BY <1>3, <4>1, <4>2 DEF AreasJoined
    <3>3. Range(areas[1]) # {}
      <4>1. 1 \in DOMAIN areas[1]
        BY <3>2
      <4>. QED  BY <4>1 DEF Range
    <3>4. \A S \in SUBSET air : ClosedIn(S, air) /\ S # {} => Range(areas[1]) \subseteq S
      BY <1>3, <3>1 DEF Anchored
    <3>. QED  BY <1>1, <3>3, <3>4, OneAnchor
  <2>. QED  BY <1>2, <2>1, <2>2
<1>4. CASE EndsFreed
  <2>1. Len(areas) > 0
    BY <1>4 DEF EndsFreed
  <2>2. Len(areas) = 1
    BY <1>2, <2>1
  <2>. QED  BY <1>4, <2>2 DEF EndsFreed
<1>. QED  BY <1>3, <1>4 DEF Connecting

LEMMA GameTileStep == MapInv /\ AddGameTile => MapInv'
<1>. SUFFICES ASSUME MapInv, AddGameTile PROVE MapInv'
  OBVIOUS
<1>. DEFINE l == Layer("Game", -1, Tile \ air)
<1>1. /\ genStage = "connect" /\ genStage' = "doodads" /\ Len(areas) <= 1 /\ areas' = <<>>
      /\ AddGroup(l)
      /\ air' = air /\ nohook' = nohook /\ images' = images /\ loaded' = loaded
      /\ UNCHANGED <<searchVars, doodads, configs>>
  BY DEF AddGameTile
<1>2. MapTypes /\ Connecting /\ LayersInv /\ images \in Nat
  BY DEF MapInv, MapTypes
<1>3. l \in LayerTypes /\ l.image = -1 /\ l.kind = "Game" /\ l.drawn = Tile \ air
  BY DEF Layer, LayerTypes, Kinds
<1>. HIDE DEF l
<1>4. genStage \notin LateStages /\ genStage' \in LateStages
  BY <1>1 DEF LateStages
<1>5. layers' \in Seq(LayerTypes) /\ groups' \in Seq(Nat) /\ LayersInv'
  <2>1. images' \in Nat /\ images <= images' /\ l.image < images'
    BY <1>1, <1>2, <1>3
  <2>. QED  BY <1>1, <1>2, <1>3, <1>4, <2>1, LayerAdded
<1>6. MapTypes'
  <2>1. genStage' \in Range(Stages)
    BY <1>1, StagesKnown
  <2>2. areas' \in Seq(Seq(Interior))
    BY <1>1
  <2>. QED  BY <1>1, <1>2, <1>5, <2>1, <2>2 DEF MapTypes, searchVars
<1>7. Connected'
  BY <1>1, <1>2, AirIsOne DEF Connected
<1>8. Unstarted' /\ Searched' /\ Connecting'
  BY <1>1 DEF Unstarted, Searched, Connecting
<1>. QED  BY <1>5, <1>6, <1>7, <1>8 DEF MapInv

\* What the steps that add the later layers have in common.
LEMMA LateStep ==
  ASSUME MapInv, genStage \in LateStages, genStage' \in LateStages,
         NEW l \in LayerTypes, AddGroup(l),
         images' \in Nat, images <= images', l.image < images',
         l.kind \in {"Game", "Hookable"} => l.drawn = Tile \ air,
         l.kind = "Unhookable" => l.drawn = nohook,
         configs' \in Seq(GoodRules), doodads' \in SUBSET Tile,
         UNCHANGED <<air, nohook, searchVars, areas, loaded>>
  PROVE  MapInv'
<1>1. MapTypes /\ LayersInv /\ Connected
  BY DEF MapInv
<1>2. /\ air' = air /\ nohook' = nohook /\ loaded' = loaded /\ areas' = areas
      /\ airList' = airList /\ visited' = visited /\ area' = area /\ looked' = looked
  BY DEF searchVars
<1>3. layers' \in Seq(LayerTypes) /\ groups' \in Seq(Nat) /\ LayersInv'
  BY <1>1, <1>2, LayerAdded
<1>4. genStage' \in Range(Stages)
  BY StagesKnown DEF LateStages
<1>5. MapTypes'
  BY <1>1, <1>2, <1>3, <1>4 DEF MapTypes
<1>6. Connected'
  BY <1>1, <1>2 DEF Connected
<1>7. Unstarted' /\ Searched' /\ Connecting'
  BY DEF Unstarted, Searched, Connecting, LateStages
<1>. QED  BY <1>3, <1>5, <1>6, <1>7 DEF MapInv

LEMMA DoodadsStep == MapInv /\ GenerateDoodads => MapInv'
<1>. SUFFICES ASSUME MapInv, GenerateDoodads PROVE MapInv'
  OBVIOUS
<1>. DEFINE drawn == UNION {DoodadTiles(p) : p \in doodads'}
            l == Layer("Doodads", images, drawn)
<1>1. /\ genStage = "doodads" /\ genStage' = "hookable" /\ doodads' = Placed
      /\ images' = images + 1 /\ AddGroup(l) /\ configs' = configs
      /\ UNCHANGED <<air, nohook, searchVars, areas, loaded>>
  BY DEF GenerateDoodads, AddExternalImage
<1>2. images \in Nat /\ configs \in Seq(GoodRules)
  BY DEF MapInv, MapTypes
<1>3. doodads' \in SUBSET Tile /\ drawn \in SUBSET Tile
  BY <1>1, DoodadsOnTiles, DoodadsInside
<1>. HIDE DEF drawn
<1>4. l \in LayerTypes /\ l.image = images /\ l.kind = "Doodads"
  BY <1>2, <1>3 DEF Layer, LayerTypes, Kinds
<1>. HIDE DEF l
<1>5. images' \in Nat /\ images <= images' /\ l.image < images'
  BY <1>1, <1>2, <1>4
<1>6. genStage \in LateStages /\ genStage' \in LateStages
  BY <1>1 DEF LateStages
<1>. QED  BY <1>1, <1>2, <1>3, <1>4, <1>5, <1>6, LateStep

LEMMA HookableStep == MapInv /\ GenerateHookable => MapInv'
<1>. SUFFICES ASSUME MapInv, GenerateHookable PROVE MapInv'
  OBVIOUS
<1>1. /\ genStage = "hookable" /\ genStage' = "unhookable"
      /\ configs' = LoadRules("grass_main_0.7")
      /\ UNCHANGED <<air, nohook, searchVars, areas, doodads, loaded>>
  BY DEF GenerateHookable
<1>2. images \in Nat /\ configs \in Seq(GoodRules) /\ doodads \in SUBSET Tile
  BY DEF MapInv, MapTypes
<1>3. configs' \in Seq(GoodRules)
  BY <1>1, <1>2, RulesLoaded
<1>4. PICK drawn \in Proceed(Tile \ air, configs', RuleOf("grass_main_0.7")) :
        AddEmbeddedImage("Hookable", drawn)
  BY DEF GenerateHookable
<1>5. drawn = Tile \ air
  BY <1>3, <1>4, DrawnWhole
<1>6. genStage \in LateStages /\ genStage' \in LateStages
  BY <1>1 DEF LateStages
<1>7. ASSUME NEW image \in {images, -1}, images' \in Nat, images <= images', image < images',
             AddGroup(Layer("Hookable", image, drawn))
      PROVE  MapInv'
  <2>. DEFINE l == Layer("Hookable", image, drawn)
  <2>1. image \in Int
    BY <1>2
  <2>2. l \in LayerTypes /\ l.image = image /\ l.kind = "Hookable" /\ l.drawn = Tile \ air
    BY <1>5, <2>1 DEF Layer, LayerTypes, Kinds
  <2>3. AddGroup(l)
    BY <1>7
  <2>4. doodads' \in SUBSET Tile /\ l.image < images'
    BY <1>1, <1>2, <1>7, <2>2
  <2>. HIDE DEF l
  <2>. QED  BY <1>1, <1>3, <1>6, <1>7, <2>2, <2>3, <2>4, LateStep
<1>8. CASE AddExternalImage("Hookable", drawn)
  <2>1. images' = images + 1 /\ AddGroup(Layer("Hookable", images, drawn))
    BY <1>8 DEF AddExternalImage
  <2>2. images' \in Nat /\ images <= images' /\ images < images'
    BY <1>2, <2>1
  <2>. QED  BY <1>7, <2>1, <2>2
<1>9. CASE UNCHANGED images /\ AddGroup(Layer("Hookable", -1, drawn))
  <2>1. images' \in Nat /\ images <= images' /\ -1 < images'
    BY <1>2, <1>9
  <2>. QED  BY <1>7, <1>9, <2>1
<1>. QED  BY <1>4, <1>8, <1>9 DEF AddEmbeddedImage

LEMMA UnhookableStep == MapInv /\ GenerateUnhookable => MapInv'
<1>. SUFFICES ASSUME MapInv, GenerateUnhookable PROVE MapInv'
  OBVIOUS
<1>1. /\ genStage = "unhookable" /\ genStage' = "done"
      /\ configs' = LoadRules("generic_unhookable")
      /\ UNCHANGED <<air, nohook, searchVars, areas, doodads, loaded>>
  BY DEF GenerateUnhookable
<1>2. /\ images \in Nat /\ configs \in Seq(GoodRules) /\ doodads \in SUBSET Tile
      /\ nohook \in SUBSET Tile
  BY Places DEF MapInv, MapTypes
<1>3. configs' \in Seq(GoodRules)
  BY <1>1, <1>2, RulesLoaded
<1>4. PICK drawn \in Proceed(nohook, configs', RuleOf("generic_unhookable")) :
        AddExternalImage("Unhookable", drawn)
  BY DEF GenerateUnhookable
<1>5. drawn = nohook
  BY <1>3, <1>4, DrawnWhole
<1>. DEFINE l == Layer("Unhookable", images, drawn)
<1>6. images' = images + 1 /\ AddGroup(l)
  BY <1>4 DEF AddExternalImage
<1>7. l \in LayerTypes /\ l.image = images /\ l.kind = "Unhookable" /\ l.drawn = nohook
  BY <1>2, <1>5 DEF Layer, LayerTypes, Kinds
<1>. HIDE DEF l
<1>8. images' \in Nat /\ images <= images' /\ l.image < images' /\ doodads' \in SUBSET Tile
  BY <1>1, <1>2, <1>6, <1>7
<1>9. genStage \in LateStages /\ genStage' \in LateStages
  BY <1>1 DEF LateStages
<1>. QED  BY <1>1, <1>3, <1>6, <1>7, <1>8, <1>9, LateStep

LEMMA LoadLayersStep == MapInv /\ LoadLayers => MapInv'
<1>. SUFFICES ASSUME MapInv, LoadLayers PROVE MapInv'
  OBVIOUS
<1>1. PICK g \in DOMAIN groups :
        layers[groups[g] + 1].kind = "Game" /\ loaded' = groups[g] + 1
  BY DEF LoadLayers
<1>2. UNCHANGED <<genStage, air, nohook, searchVars, areas, doodads, groups, layers, images,
                  configs>>
  BY DEF LoadLayers
<1>3. MapTypes /\ LayersInv
  BY DEF MapInv
<1>4. loaded' \in Nat /\ loaded' \in DOMAIN layers
  <2>1. groups \in Seq(Nat) /\ layers \in Seq(LayerTypes)
    BY <1>3 DEF MapTypes
  <2>2. Len(groups) = Len(layers) /\ groups[g] = g - 1
    BY <1>1, <1>3 DEF LayersInv
  <2>3. g \in 1 .. Len(groups)
    BY <1>1, <2>1
  <2>4. loaded' = g
    BY <1>1, <2>2, <2>3
  <2>. QED  BY <2>1, <2>2, <2>3, <2>4
<1>5. layers[loaded'].kind = "Game"
  BY <1>1
<1>6. LayersInv'
  BY <1>2, <1>3, <1>4, <1>5 DEF LayersInv
<1>7. MapTypes'
  BY <1>2, <1>3, <1>4 DEF MapTypes, searchVars
<1>8. Unstarted' /\ Searched' /\ Connecting' /\ Connected'
  BY <1>2 DEF MapInv, Unstarted, Searched, AreasJoined, Connecting, Anchored, EndsFreed, Connected,
              searchVars
<1>. QED  BY <1>6, <1>7, <1>8 DEF MapInv

LEMMA MapStutter == MapInv /\ UNCHANGED mapGenVars => MapInv'
<1>. SUFFICES ASSUME MapInv, UNCHANGED mapGenVars PROVE MapInv'
  OBVIOUS
<1>1. UNCHANGED <<genStage, air, nohook, searchVars, areas, doodads, groups, layers, images,
                  configs, loaded>>
  BY DEF mapGenVars
<1>2. MapTypes'
  BY <1>1 DEF MapInv, MapTypes, searchVars
<1>3. LayersInv'
  BY <1>1 DEF MapInv, LayersInv
<1>4. Unstarted' /\ Searched' /\ Connecting' /\ Connected'
  BY <1>1 DEF MapInv, Unstarted, Searched, AreasJoined, Connecting, Anchored, EndsFreed, Connected,
              searchVars
<1>. QED  BY <1>2, <1>3, <1>4 DEF MapInv

LEMMA MapKept == MapInv /\ [MapGenNext]_mapGenVars => MapInv'
<1>. SUFFICES ASSUME MapInv, [MapGenNext]_mapGenVars PROVE MapInv'
  OBVIOUS
<1>1. ASSUME StartMap PROVE MapInv'
  BY <1>1, BackgroundStep
<1>2. ASSUME NEW noise \in {{}, NoiseTiles}, GenerateBackgroundTile(noise) PROVE MapInv'
  BY <1>2, BackTilesStep
<1>3. ASSUME NEW low1 \in NohookNoises, NEW low2 \in SUBSET NoiseTiles, Noise(low1, low2)
      PROVE  MapInv'
  BY <1>3, NoiseStep
<1>4. ASSUME NewArea \/ VisitTile \/ AreaIsWhole \/ EndAreas PROVE MapInv'
  BY <1>4, NewAreaStep, VisitTileStep, AreaIsWholeStep, EndAreasStep
<1>5. ASSUME NEW end \in Tile, ConnectArea(end) PROVE MapInv'
  BY <1>5, ConnectAreaStep
<1>6. ASSUME ConnectFreed \/ AddGameTile PROVE MapInv'
  BY <1>6, ConnectFreedStep, GameTileStep
<1>7. ASSUME GenerateDoodads \/ GenerateHookable \/ GenerateUnhookable \/ LoadLayers PROVE MapInv'
  BY <1>7, DoodadsStep, HookableStep, UnhookableStep, LoadLayersStep
<1>8. ASSUME UNCHANGED mapGenVars PROVE MapInv'
  BY <1>8, MapStutter
<1>. QED  BY <1>1, <1>2, <1>3, <1>4, <1>5, <1>6, <1>7, <1>8 DEF MapGenNext

\* The rows that the doodads stand on are on the map.
LEMMA GroundOnMap ==
  ASSUME air \in SUBSET Inside, NEW t \in DoodadAir
  PROVE  DoodadGround(t) \subseteq Tile
<1>1. Width \in Nat /\ Height \in Nat /\ Border \in Nat /\ Border > 3 /\ DoodadWidth \in Nat \ {0}
  BY MapGenAssumption
<1>2. /\ t[1] \in 0 .. Width - DoodadWidth - 1 /\ t[2] \in 1 .. Height - 3
      /\ RowFrom(t) \subseteq air
  BY DEF DoodadAir, DoodadRows
<1>3. <<t[1], t[2]>> \in RowFrom(t)
  BY <1>1, <1>2 DEF RowFrom
<1>4. t[2] <= Height - Border
  BY <1>1, <1>2, <1>3 DEF Inside
<1>5. DoodadGround(t) = (t[1] .. t[1] + DoodadWidth - 1) \X {t[2] + 3}
  BY DEF DoodadGround, RowFrom, DoodadRows
<1>6. t[2] + 3 \in 0 .. Height - 1
  BY <1>1, <1>2, <1>4
<1>7. t[1] .. t[1] + DoodadWidth - 1 \subseteq 0 .. Width - 1
  BY <1>1, <1>2
<1>. QED  BY <1>5, <1>6, <1>7 DEF Tile

LEMMA MapIsGood == MapInv => MapIsPlayable
<1>. SUFFICES ASSUME MapInv PROVE MapIsPlayable
  OBVIOUS
<1>1. MapTypes /\ LayersInv /\ Connected
  BY DEF MapInv
<1>2. air \in SUBSET Inside /\ nohook \in SUBSET Inside /\ layers \in Seq(LayerTypes)
  BY <1>1 DEF MapTypes
<1>3. air \in SUBSET Tile /\ air \in SUBSET Grid /\ IsFiniteSet(air)
  <2>1. air \in SUBSET Tile /\ air \in SUBSET Grid
    BY <1>2, Places
  <2>. QED  BY <2>1, Places, FS_Subset
<1>4. OneArea
  <2>. SUFFICES ASSUME genStage \in LateStages, air # {} PROVE Reached(FirstOf(air)) = air
    BY DEF OneArea, LateStages
  <2>1. FirstOf(air) \in air
    BY <1>3, FirstIsThere
  <2>2. OneIn(air)
    BY <1>1 DEF Connected
  <2>. QED  BY <1>3, <2>1, <2>2, ReachesAll
<1>5. EdgeIsSolid
  <2>1. \A t \in air \union nohook :
          t[1] \in Border - 1 .. Width - Border /\ t[2] \in Border - 1 .. Height - Border
    BY <1>2 DEF Inside
  <2>. QED  BY <1>2, <2>1, GroundOnMap DEF EdgeIsSolid
<1>6. LayersAgree
  BY <1>1 DEF LayersInv, LayersAgree
<1>. QED  BY <1>4, <1>5, <1>6 DEF MapIsPlayable

\* A generated map has one area of air with a solid edge, and its layers and groups agree
\* with the tiles of the game layer, for every size of the map, every noise and every rules
\* that do not draw the empty tile (CreateMap, CloseMap, GenerateGameLayer).
THEOREM GeneratedMapIsPlayable == MapGenSpec => []MapIsPlayable
<1>. QED  BY MapBegins, MapKept, MapIsGood, PTL DEF MapGenSpec
==============================================================================
