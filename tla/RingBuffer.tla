----------------------------- MODULE RingBuffer -----------------------------
(***************************************************************************)
(* CRingBufferBase (engine/shared/ringbuffer.cpp), the memory in which a   *)
(* connection keeps the chunks its peer has not acked: m_Buffer of         *)
(* CNetConnection, allocated by QueueChunkEx and popped by AckChunks.      *)
(*                                                                         *)
(* The memory is cut into blocks, each a CItem header with the payload     *)
(* behind it.  Offsets and sizes are counted in sizeof(CItem), to which    *)
(* the code rounds every size; a pointer is the offset it points to.       *)
(***************************************************************************)
EXTENDS Integers, Sequences, FiniteSets

CONSTANTS
  Size,      \* m_Size / sizeof(CItem)
  Wanted,    \* the sizes asked for, rounded, header included (WantedSize)
  Values,    \* what the owner writes into an item
  Null       \* 0, the pointer and the content of a free block

ASSUME RingAssumption ==
  /\ Size \in Nat \ {0}
  /\ Wanted \subseteq Nat \ {0}
  /\ Null \notin Values
  /\ Null \notin Nat

Offset == 0 .. Size - 1

VARIABLE ring    \* [mem, produce, consume, last]: the blocks and the pointers

First == 0       \* m_pFirst never moves

Block == [prev : Offset \union {Null}, next : Offset \union {Null},
          free : BOOLEAN, size : 1 .. Size, value : Values \union {Null}]

TypeOK ==
  /\ DOMAIN ring = {"mem", "produce", "consume", "last"}
  /\ DOMAIN ring.mem \subseteq Offset
  /\ \A o \in DOMAIN ring.mem : ring.mem[o] \in Block
  /\ {First, ring.produce, ring.consume, ring.last} \subseteq DOMAIN ring.mem

\* CRingBufferBase::Init: one free block.
Empty ==
  [mem |-> [o \in {First} |->
              [prev |-> Null, next |-> Null, free |-> TRUE, size |-> Size, value |-> Null]],
   produce |-> First, consume |-> First, last |-> First]

-----------------------------------------------------------------------------
NextBlock(r, o) == IF r.mem[o].next # Null THEN r.mem[o].next ELSE First

\* The block MergeBack(o) returns: o, or the free block before it.
MergesBack(r, o) ==
  /\ r.mem[o].free
  /\ r.mem[o].prev # Null
  /\ r.mem[r.mem[o].prev].free

Merged(r, o) == IF MergesBack(r, o) THEN r.mem[o].prev ELSE o

\* Mutant of MovedTo: the pointer keeps pointing into the merged block.
NotMoved(x, o, p) == x

\* m_pProduce and m_pConsume follow the block that is merged.
MovedTo(x, o, p) == IF x = o THEN p ELSE x

\* A free block joins a free block before it.
MergeBack(r, o) ==
  IF ~MergesBack(r, o) THEN r
  ELSE LET p == r.mem[o].prev
           n == r.mem[o].next
       IN  [mem |-> [x \in DOMAIN r.mem \ {o} |->
                       CASE x = p -> [r.mem[p] EXCEPT !.size = @ + r.mem[o].size,
                                                      !.next = n]
                         [] x = n -> [r.mem[n] EXCEPT !.prev = p]
                         [] OTHER -> r.mem[x]],
            produce |-> MovedTo(r.produce, o, p),
            consume |-> MovedTo(r.consume, o, p),
            last |-> IF n = Null THEN p ELSE r.last]

-----------------------------------------------------------------------------
(***************************************************************************)
(* Allocate.                                                               *)
(***************************************************************************)
\* Mutant of FindBlock: after the wrap nobody asks whether the block is free.
FindBlockUsed(r, wanted) ==
  CASE ~r.mem[r.produce].free -> Null
    [] r.mem[r.produce].free /\ r.mem[r.produce].size >= wanted -> r.produce
    [] OTHER -> IF r.mem[First].size >= wanted THEN First ELSE Null

\* The block that Allocate takes: produce, or the first one; Null if neither does.
FindBlock(r, wanted) ==
  CASE ~r.mem[r.produce].free -> Null
    [] r.mem[r.produce].free /\ r.mem[r.produce].size >= wanted -> r.produce
    [] OTHER -> IF r.mem[First].free /\ r.mem[First].size >= wanted
                  THEN First ELSE Null

\* Mutant of Split: the block behind the new one keeps its prev pointer.
SplitWithoutRelink(r, o, wanted) ==
  IF r.mem[o].size <= wanted + 1 THEN r
  ELSE LET new == o + wanted
           n == r.mem[o].next
       IN  [r EXCEPT
              !.mem = [x \in DOMAIN r.mem \union {new} |->
                 CASE x = o -> [r.mem[o] EXCEPT !.size = wanted, !.next = new]
                   [] x = new -> [prev |-> o, next |-> n, free |-> TRUE,
                                  size |-> r.mem[o].size - wanted, value |-> Null]
                   [] OTHER -> r.mem[x]],
              !.last = IF n = Null THEN new ELSE @]

\* What is more than one unit too large is cut in two.
Split(r, o, wanted) ==
  IF r.mem[o].size <= wanted + 1 THEN r
  ELSE LET new == o + wanted
           n == r.mem[o].next
       IN  [r EXCEPT
              !.mem = [x \in DOMAIN r.mem \union {new} |->
                 CASE x = o -> [r.mem[o] EXCEPT !.size = wanted, !.next = new]
                   [] x = new -> [prev |-> o, next |-> n, free |-> TRUE,
                                  size |-> r.mem[o].size - wanted, value |-> Null]
                   [] x = n -> [r.mem[n] EXCEPT !.prev = new]
                   [] OTHER -> r.mem[x]],
              !.last = IF n = Null THEN new ELSE @]

Take(r, o, v) ==
  [r EXCEPT !.produce = NextBlock(r, o),
            !.mem[o].free = FALSE,
            !.mem[o].value = v]

Allocate ==
  \E wanted \in Wanted, v \in Values :
    LET o == FindBlock(ring, wanted)
    IN  /\ wanted <= Size
        /\ o # Null
        /\ ring' = Take(Split(ring, o, wanted), o, v)

\* MergeBack and NextBlock, as PopFirst applies them to m_pConsume.
Advance(r, o) ==
  LET merged == MergeBack(r, o)
  IN  [merged EXCEPT !.consume = NextBlock(merged, Merged(r, o))]

\* The loop over free blocks; it turns at most once for each block.
SkipOne(r) ==
  IF r.mem[r.consume].free /\ r.consume # r.produce THEN Advance(r, r.consume) ELSE r

SkipFree(r) ==
  LET after[n \in 0 .. Size] == IF n = 0 THEN r ELSE SkipOne(after[n - 1])
  IN  after[Size]

(***************************************************************************)
(* PopFirst: the oldest item is freed; consume moves over free blocks,     *)
(* which are merged, up to the next item or to produce.                    *)
(***************************************************************************)
PopFirst ==
  /\ ~ring.mem[ring.consume].free
  /\ LET freed == [ring EXCEPT !.mem[ring.consume].free = TRUE,
                               !.mem[ring.consume].value = Null]
         skipped == SkipFree(Advance(freed, freed.consume))
     IN  ring' = MergeBack(skipped, skipped.consume)

\* CNetConnection::Reset initialises the buffer again.
Reset == ring' = Empty

Next == Allocate \/ PopFirst \/ Reset

Init == ring = Empty

Spec == Init /\ [][Next]_ring

-----------------------------------------------------------------------------
(***************************************************************************)
(* What the owner sees: First, and Next until it returns 0 (the loop of    *)
(* CNetConnection::Resend).                                                *)
(***************************************************************************)
FirstItem(r) == IF r.mem[r.consume].free THEN Null ELSE r.consume

\* Next: the search ends at an item or, with Null, where it meets produce.
NextItem(r, o) ==
  LET following == [x \in DOMAIN r.mem |-> NextBlock(r, x)]
      at[n \in 0 .. Size] == IF n = 0 THEN o ELSE following[at[n - 1]]
      Ends(n) == at[n] = r.produce \/ ~r.mem[at[n]].free
      found == at[CHOOSE n \in 1 .. Size : Ends(n) /\ \A k \in 1 .. n - 1 : ~Ends(k)]
  IN  IF found = r.produce THEN Null ELSE found

\* What First returns, and Next for as long as it does not return 0.
Visited(r) ==
  LET following == [o \in DOMAIN r.mem \union {Null} |->
                      IF o = Null THEN Null ELSE NextItem(r, o)]
      item[n \in 0 .. Size] == IF n = 0 THEN FirstItem(r) ELSE following[item[n - 1]]
      number == Cardinality({n \in 0 .. Size : item[n] # Null})
  IN  [i \in 1 .. number |-> item[i - 1]]

\* The loop is entered only if First does not return 0.
Found(r) == IF FirstItem(r) = Null THEN <<>> ELSE Visited(r)

Items == Found(ring)

Contents == [i \in 1 .. Len(Items) |-> ring.mem[Items[i]].value]

(***************************************************************************)
(* The buffer implements the FIFO queue: however items wrap around, blocks *)
(* are cut and merged, the owner sees all items in order and unchanged.    *)
(***************************************************************************)
Queue == INSTANCE Fifo WITH queue <- Contents

ImplementsFifo == Queue!Spec

(***************************************************************************)
(* What the run checks of the memory, in two parts.                        *)
(*                                                                         *)
(* The blocks fill the memory without gap or overlap, next and prev agree, *)
(* and last ends the list: no item is ever written over by another.        *)
(***************************************************************************)
BlocksTile ==
  \A o \in DOMAIN ring.mem :
    LET b == ring.mem[o]
    IN  /\ b.next = Null <=> o + b.size = Size
        /\ b.next # Null => b.next = o + b.size /\ ring.mem[b.next].prev = o
        /\ b.prev = Null <=> o = First
        /\ o = ring.last <=> b.next = Null

(***************************************************************************)
(* Every used block is an item the owner can reach, and once all items are *)
(* popped the memory is one free block again: acked chunks leave no room   *)
(* behind that can not be used.                                            *)
(***************************************************************************)
NothingLeaks ==
  /\ {o \in DOMAIN ring.mem : ~ring.mem[o].free} = {Items[i] : i \in 1 .. Len(Items)}
  /\ Contents = <<>> => ring = Empty

RingHolds == BlocksTile /\ NothingLeaks
=============================================================================
