---------------------------- MODULE NetConnProofs ----------------------------
(***************************************************************************)
(* Proofs about SeqNumbers and NetConn: what the tests on sequence numbers *)
(* accept, the inductive invariant of a connection, BufferKeepsUndelivered *)
(* and that a connection implements VitalChannel, for every size of the    *)
(* sequence space, the resend buffer and the packets that satisfies        *)
(* WindowAssumption.                                                       *)
(***************************************************************************)
EXTENDS NetConn, SequenceTheorems, TLAPS

-----------------------------------------------------------------------------
(***************************************************************************)
(* The sequence number arithmetic, for every even size of the sequence     *)
(* space: the numbers on the wire against the positions of the messages    *)
(* in the stream they stand for.                                           *)
(***************************************************************************)
\* Division by the size of the sequence space, as an equation.
LEMMA DivMod ==
  ASSUME NEW a \in Int
  PROVE  /\ a \div MaxSequence \in Int
         /\ (a % MaxSequence) \in 0 .. MaxSequence - 1
         /\ a = MaxSequence * (a \div MaxSequence) + (a % MaxSequence)
  BY SequenceAssumption, SMT

\* Multiples of the size of the sequence space lie that far apart.
LEMMA MultipleGap ==
  ASSUME NEW x \in Int, NEW y \in Int, x > y
  PROVE  MaxSequence * x >= MaxSequence * y + MaxSequence
  BY SequenceAssumption, SMT

\* The same for any divisor.
LEMMA DivBounds ==
  ASSUME NEW x \in Nat, NEW k \in Nat, k > 0
  PROVE  /\ x \div k \in Nat /\ (x \div k) * k \in Nat
         /\ (x \div k) * k <= x /\ x < (x \div k) * k + k
<1> DEFINE q == x \div k  r == x % k
<1>1. q \in Int /\ r \in 0 .. k - 1 /\ x = k * q + r
  BY SMT
<1> HIDE DEF q, r
<1>2. q \in Nat
  <2>1. ASSUME q < 0 PROVE FALSE
    <3>1. k * q <= -k
      BY <1>1, <2>1, SMT
    <3> QED BY <3>1, <1>1
  <2> QED BY <2>1, <1>1
<1>3. k * q = q * k /\ q * k \in Nat
  BY <1>2, SMT
<1>4. q * k <= x /\ x < q * k + k
  BY <1>1, <1>3
<1> QED BY <1>2, <1>3, <1>4 DEF q

\* Two numbers less than a cycle apart with the same remainder are equal:
\* a sequence number determines the message within one cycle.
LEMMA SameRemainder ==
  ASSUME NEW a \in Int, NEW b \in Int,
         a % MaxSequence = b % MaxSequence,
         a - b < MaxSequence, b - a < MaxSequence
  PROVE  a = b
<1> DEFINE qa == a \div MaxSequence  qb == b \div MaxSequence
           ra == a % MaxSequence
<1>1. /\ qa \in Int /\ qb \in Int /\ ra \in Int
      /\ a = MaxSequence * qa + ra
      /\ b = MaxSequence * qb + ra
  BY DivMod
<1> HIDE DEF qa, qb, ra
<1>2. MaxSequence * qa \in Int /\ MaxSequence * qb \in Int
  BY <1>1, SequenceAssumption
<1>3. CASE qa > qb
  BY <1>1, <1>2, <1>3, MultipleGap, SequenceAssumption
<1>4. CASE qb > qa
  BY <1>1, <1>2, <1>4, MultipleGap, SequenceAssumption
<1>5. CASE qa = qb
  BY <1>1, <1>2, <1>5
<1> QED BY <1>1, <1>3, <1>4, <1>5

\* A remainder is determined by any quotient that leaves it in range.
LEMMA RemainderIs ==
  ASSUME NEW a \in Int, NEW q \in Int, NEW r \in 0 .. MaxSequence - 1,
         a = MaxSequence * q + r
  PROVE  a % MaxSequence = r
<1> DEFINE qa == a \div MaxSequence  ra == a % MaxSequence
<1>1. /\ qa \in Int /\ ra \in 0 .. MaxSequence - 1
      /\ a = MaxSequence * qa + ra
  BY DivMod
<1> HIDE DEF qa, ra
<1>2. MaxSequence * qa \in Int /\ MaxSequence * q \in Int
  BY <1>1, SequenceAssumption
<1>3. CASE qa > q
  BY <1>1, <1>2, <1>3, MultipleGap, SequenceAssumption
<1>4. CASE q > qa
  BY <1>1, <1>2, <1>4, MultipleGap, SequenceAssumption
<1>5. CASE q = qa
  BY <1>1, <1>2, <1>5, SequenceAssumption DEF ra
<1> QED BY <1>1, <1>3, <1>4, <1>5

LEMMA SeqOfType == ASSUME NEW i \in Int PROVE SeqOf(i) \in SeqNumber
  BY DivMod DEF SeqOf, SeqNumber

\* The number after that of message i is the number of message i + 1.
LEMMA NextSeqOf ==
  ASSUME NEW i \in Int
  PROVE  NextSeq(SeqOf(i)) = SeqOf(i + 1)
<1> DEFINE q == i \div MaxSequence  r == i % MaxSequence
<1>1. q \in Int /\ r \in 0 .. MaxSequence - 1 /\ i = MaxSequence * q + r
  BY DivMod
<1> HIDE DEF q, r
<1>2. MaxSequence * q \in Int
  BY <1>1, SequenceAssumption
<1>3. CASE r < MaxSequence - 1
  <2>1. (r + 1) % MaxSequence = r + 1
    <3>1. r + 1 = MaxSequence * 0 + (r + 1)
      BY <1>1, SequenceAssumption
    <3> QED BY <3>1, <1>1, <1>3, RemainderIs, SequenceAssumption
  <2>2. (i + 1) % MaxSequence = r + 1
    <3>1. i + 1 = MaxSequence * q + (r + 1)
      BY <1>1, <1>2
    <3> QED BY <3>1, <1>1, <1>3, RemainderIs, SequenceAssumption
  <2> QED BY <2>1, <2>2 DEF NextSeq, SeqOf, r
<1>4. CASE r = MaxSequence - 1
  <2>1. (r + 1) % MaxSequence = 0
    <3>1. r + 1 = MaxSequence * 1 + 0
      BY <1>1, <1>4, SequenceAssumption
    <3> QED BY <3>1, <1>1, <1>4, RemainderIs, SequenceAssumption
  <2>2. (i + 1) % MaxSequence = 0
    <3>1. i + 1 = MaxSequence * (q + 1) + 0
      BY <1>1, <1>4, SequenceAssumption
    <3> QED BY <3>1, <1>1, <1>4, RemainderIs, SequenceAssumption
  <2> QED BY <2>1, <2>2 DEF NextSeq, SeqOf, r
<1> QED BY <1>1, <1>3, <1>4, SequenceAssumption

\* Two messages less than a cycle apart: the later number is larger or has wrapped.
LEMMA SeqOfDistance ==
  ASSUME NEW a \in Int, NEW b \in Int, a <= b, b - a < MaxSequence
  PROVE  \/ SeqOf(b) = SeqOf(a) + (b - a)
         \/ SeqOf(b) = SeqOf(a) + (b - a) - MaxSequence
<1> DEFINE qa == a \div MaxSequence  ra == a % MaxSequence
<1>1. /\ qa \in Int /\ ra \in 0 .. MaxSequence - 1
      /\ a = MaxSequence * qa + ra
  BY DivMod
<1> HIDE DEF qa, ra
<1>2. MaxSequence * qa \in Int
  BY <1>1, SequenceAssumption
<1>3. CASE ra + (b - a) < MaxSequence
  <2>1. b = MaxSequence * qa + (ra + (b - a))
    BY <1>1, <1>2
  <2>2. ra + (b - a) \in 0 .. MaxSequence - 1
    BY <1>1, <1>3, SequenceAssumption
  <2>3. b % MaxSequence = ra + (b - a)
    BY <2>1, <2>2, <1>1, RemainderIs
  <2> QED BY <2>3 DEF SeqOf, ra
<1>4. CASE ra + (b - a) >= MaxSequence
  <2>1. b = MaxSequence * (qa + 1) + (ra + (b - a) - MaxSequence)
    BY <1>1, <1>2, SequenceAssumption
  <2>2. ra + (b - a) - MaxSequence \in 0 .. MaxSequence - 1
    BY <1>1, <1>4, SequenceAssumption
  <2>3. qa + 1 \in Int
    BY <1>1
  <2>4. b % MaxSequence = ra + (b - a) - MaxSequence
    BY ONLY <2>1, <2>2, <2>3, RemainderIs, b \in Int
  <2> QED BY <2>4 DEF SeqOf, ra
<1> QED BY <1>1, <1>3, <1>4, SequenceAssumption

\* Feed's window: of acks less than a cycle behind the last message sent, it
\* accepts only those at or after the last one accepted.
LEMMA AckWindowSound ==
  ASSUME NEW s \in Int, NEW pa \in Int, NEW g \in Int,
         pa <= s, g <= s, s - g < MaxSequence, s - pa < MaxSequence,
         AckInWindow(SeqOf(s), SeqOf(pa), SeqOf(g))
  PROVE  pa <= g
<1> SUFFICES ASSUME g < pa PROVE FALSE
  OBVIOUS
<1>1. /\ SeqOf(s) \in SeqNumber /\ SeqOf(pa) \in SeqNumber /\ SeqOf(g) \in SeqNumber
  BY SeqOfType
<1>2. \/ SeqOf(s) = SeqOf(g) + (s - g)
      \/ SeqOf(s) = SeqOf(g) + (s - g) - MaxSequence
  BY SeqOfDistance
<1>3. \/ SeqOf(s) = SeqOf(pa) + (s - pa)
      \/ SeqOf(s) = SeqOf(pa) + (s - pa) - MaxSequence
  BY SeqOfDistance
<1>4. pa - g < MaxSequence
  BY SequenceAssumption
<1>5. \/ SeqOf(pa) = SeqOf(g) + (pa - g)
      \/ SeqOf(pa) = SeqOf(g) + (pa - g) - MaxSequence
  BY SeqOfDistance, <1>4
<1> QED BY <1>1, <1>2, <1>3, <1>5, SequenceAssumption DEF AckInWindow, SeqNumber

\* The backroom test holds of a message at most half a cycle behind ...
LEMMA BackroomBehind ==
  ASSUME NEW i \in Int, NEW a \in Int, i <= a, a - i <= MaxSequence \div 2
  PROVE  IsSeqInBackroom(SeqOf(i), SeqOf(a))
<1>1. SeqOf(i) \in SeqNumber /\ SeqOf(a) \in SeqNumber
  BY SeqOfType
<1>2. \/ SeqOf(a) = SeqOf(i) + (a - i)
      \/ SeqOf(a) = SeqOf(i) + (a - i) - MaxSequence
  BY SeqOfDistance, SequenceAssumption
<1> QED BY <1>1, <1>2, SequenceAssumption DEF IsSeqInBackroom, SeqNumber

\* ... and fails of the message right after.
LEMMA BackroomNext ==
  ASSUME NEW a \in Int
  PROVE  ~IsSeqInBackroom(SeqOf(a + 1), SeqOf(a))
<1>1. SeqOf(a + 1) \in SeqNumber /\ SeqOf(a) \in SeqNumber
  BY SeqOfType
<1>2. \/ SeqOf(a + 1) = SeqOf(a) + 1
      \/ SeqOf(a + 1) = SeqOf(a) + 1 - MaxSequence
  BY SeqOfDistance, SequenceAssumption
<1> QED BY <1>1, <1>2, SequenceAssumption DEF IsSeqInBackroom, SeqNumber

-----------------------------------------------------------------------------
\* IsSeqInBackroom computes what it is meant to: the numbers up to half a cycle
\* behind, across the wrap.
THEOREM BackroomCorrect ==
  ASSUME NEW s \in SeqNumber, NEW a \in SeqNumber
  PROVE  IsSeqInBackroom(s, a) <=> BackroomMeaning(s, a)
<1> DEFINE half == MaxSequence \div 2
<1>1. half \in Nat /\ 2 * half = MaxSequence
  BY SequenceAssumption
<1>2. ASSUME NEW d \in 0 .. half
      PROVE  (a - d) % MaxSequence = IF d <= a THEN a - d ELSE a - d + MaxSequence
  <2>1. CASE d <= a
    <3>1. a - d = MaxSequence * 0 + (a - d) /\ a - d \in 0 .. MaxSequence - 1
      BY <2>1, <1>1, SequenceAssumption DEF SeqNumber
    <3> QED BY <3>1, <2>1, RemainderIs
  <2>2. CASE d > a
    <3>1. /\ a - d = MaxSequence * (-1) + (a - d + MaxSequence)
          /\ a - d + MaxSequence \in 0 .. MaxSequence - 1
      BY <2>2, <1>1, SequenceAssumption DEF SeqNumber
    <3> QED BY <3>1, <2>2, RemainderIs DEF SeqNumber
  <2> QED BY <2>1, <2>2, <1>1 DEF SeqNumber
<1>3. ASSUME IsSeqInBackroom(s, a) PROVE BackroomMeaning(s, a)
  <2>1. CASE s <= a
    <3>1. a - s \in 0 .. half
      BY <1>1, <1>3, <2>1 DEF IsSeqInBackroom, SeqNumber
    <3>2. s = (a - (a - s)) % MaxSequence
      BY <3>1, <1>2, <2>1 DEF SeqNumber
    <3> QED BY <3>1, <3>2 DEF BackroomMeaning
  <2>2. CASE s > a
    <3>1. a - s + MaxSequence \in 0 .. half
      BY <1>1, <1>3, <2>2, SequenceAssumption DEF IsSeqInBackroom, SeqNumber
    <3>2. a - s + MaxSequence > a
      BY SequenceAssumption DEF SeqNumber
    <3>3. ~(a - s + MaxSequence <= a)
      BY <3>1, <3>2, <1>1 DEF SeqNumber
    <3>4. (a - (a - s + MaxSequence)) % MaxSequence
            = a - (a - s + MaxSequence) + MaxSequence
      BY ONLY <3>1, <3>3, <1>2
    <3>5. s = (a - (a - s + MaxSequence)) % MaxSequence
      BY <3>4, SequenceAssumption DEF SeqNumber
    <3> QED BY <3>1, <3>5 DEF BackroomMeaning
  <2> QED BY <2>1, <2>2 DEF SeqNumber
<1>4. ASSUME BackroomMeaning(s, a) PROVE IsSeqInBackroom(s, a)
  <2>1. PICK d \in 0 .. half : s = (a - d) % MaxSequence
    BY <1>4 DEF BackroomMeaning
  <2> QED BY <2>1, <1>1, <1>2, SequenceAssumption DEF IsSeqInBackroom, SeqNumber
<1> QED BY <1>3, <1>4

\* Feed's ack window is the cyclic interval from the last ack to the sequence.
THEOREM AckWindowCorrect ==
  ASSUME NEW s \in SeqNumber, NEW pa \in SeqNumber, NEW a \in SeqNumber
  PROVE  AckInWindow(s, pa, a) <=> AckWindowMeaning(s, pa, a)
<1> DEFINE width == (s - pa) % MaxSequence
<1>1. ASSUME NEW x \in Int, x < MaxSequence, -x <= MaxSequence
      PROVE  x % MaxSequence = IF x >= 0 THEN x ELSE x + MaxSequence
  <2>1. CASE x >= 0
    <3>1. x = MaxSequence * 0 + x /\ x \in 0 .. MaxSequence - 1
      BY <2>1, <1>1, SequenceAssumption
    <3> QED BY <3>1, <2>1, RemainderIs
  <2>2. CASE x < 0
    <3>1. /\ x = MaxSequence * (-1) + (x + MaxSequence)
          /\ x + MaxSequence \in 0 .. MaxSequence - 1
      BY <2>2, <1>1, SequenceAssumption
    <3> QED BY <3>1, <2>2, RemainderIs
  <2> QED BY <2>1, <2>2
<1>2. width = IF s >= pa THEN s - pa ELSE s - pa + MaxSequence
  BY <1>1, SequenceAssumption DEF SeqNumber
<1>3. ASSUME NEW d \in 0 .. MaxSequence - 1
      PROVE  (pa + d) % MaxSequence
               = IF pa + d < MaxSequence THEN pa + d ELSE pa + d - MaxSequence
  <2>1. CASE pa + d < MaxSequence
    <3>1. pa + d = MaxSequence * 0 + (pa + d) /\ pa + d \in 0 .. MaxSequence - 1
      BY <2>1, SequenceAssumption DEF SeqNumber
    <3> QED BY <3>1, <2>1, RemainderIs
  <2>2. CASE pa + d >= MaxSequence
    <3>1. /\ pa + d = MaxSequence * 1 + (pa + d - MaxSequence)
          /\ pa + d - MaxSequence \in 0 .. MaxSequence - 1
      BY <2>2, SequenceAssumption DEF SeqNumber
    <3>2. pa + d \in Int
      BY DEF SeqNumber
    <3>3. (pa + d) % MaxSequence = pa + d - MaxSequence
      BY ONLY <3>1, <3>2, RemainderIs
    <3> QED BY <3>3, <3>2, <2>2, SequenceAssumption
  <2> QED BY <2>1, <2>2, SequenceAssumption DEF SeqNumber
<1>4. ASSUME AckInWindow(s, pa, a) PROVE AckWindowMeaning(s, pa, a)
  <2>1. CASE a >= pa
    <3>1. a - pa \in 0 .. width /\ a - pa \in 0 .. MaxSequence - 1
      BY <1>2, <1>4, <2>1, SequenceAssumption DEF AckInWindow, SeqNumber
    <3>2. pa + (a - pa) < MaxSequence /\ pa + (a - pa) = a
      BY SequenceAssumption DEF SeqNumber
    <3>3. (pa + (a - pa)) % MaxSequence = pa + (a - pa)
      BY ONLY <3>1, <3>2, <1>3
    <3>4. a = (pa + (a - pa)) % MaxSequence
      BY <3>2, <3>3
    <3> QED BY <3>1, <3>4 DEF AckWindowMeaning
  <2>2. CASE a < pa
    <3>1. /\ a - pa + MaxSequence \in 0 .. width
          /\ a - pa + MaxSequence \in 0 .. MaxSequence - 1
      BY <1>2, <1>4, <2>2, SequenceAssumption DEF AckInWindow, SeqNumber
    <3>2. ~(pa + (a - pa + MaxSequence) < MaxSequence)
      BY SequenceAssumption DEF SeqNumber
    <3>3. (pa + (a - pa + MaxSequence)) % MaxSequence
            = pa + (a - pa + MaxSequence) - MaxSequence
      BY ONLY <3>1, <3>2, <1>3
    <3>4. a = (pa + (a - pa + MaxSequence)) % MaxSequence
      BY <3>3, SequenceAssumption DEF SeqNumber
    <3> QED BY <3>1, <3>4 DEF AckWindowMeaning
  <2> QED BY <2>1, <2>2 DEF SeqNumber
<1>5. ASSUME AckWindowMeaning(s, pa, a) PROVE AckInWindow(s, pa, a)
  <2>1. PICK d \in 0 .. width : a = (pa + d) % MaxSequence
    BY <1>5 DEF AckWindowMeaning
  <2>2. width \in 0 .. MaxSequence - 1
    BY <1>2, SequenceAssumption DEF SeqNumber
  <2>3. d \in 0 .. MaxSequence - 1
    BY <2>2, SequenceAssumption
  <2>4. a = IF pa + d < MaxSequence THEN pa + d ELSE pa + d - MaxSequence
    BY <2>1, <2>3, <1>3
  <2> QED BY <2>2, <2>4, <1>2, SequenceAssumption DEF AckInWindow, SeqNumber
<1> QED BY <1>4, <1>5

-----------------------------------------------------------------------------
(***************************************************************************)
(* The inductive invariant.  Its first part holds of every stream.         *)
(***************************************************************************)
\* c carries one of the first n messages of a stream, under the right number.
ChunkOf(c, n) == c.seq = SeqOf(c.idx) /\ c.idx \in 1 .. n

ChunksOf(s, n) == \A i \in 1 .. Len(s) : ChunkOf(s[i], n)

Packets(s) == {s[i] : i \in 1 .. Len(s)}

\* What a packet carries of an end that queued n messages.
PacketFrom(packet, n) ==
  /\ Len(packet.chunks) <= MaxChunks
  /\ ChunksOf(packet.chunks, n)
  /\ packet.ack = SeqOf(packet.gotThen)
  /\ packet.born <= n

\* What one end keeps of the two streams.
EndInv(p) ==
  /\ online[p] => sequence[p] = SeqOf(sent[p]) /\ ack[p] = SeqOf(got[p])
  /\ got[p] <= sent[Other(p)]
  /\ Len(buffer[p]) <= BufferCap
  /\ Len(construct[p]) <= MaxChunks
  /\ ChunksOf(buffer[p], sent[p])
  /\ ChunksOf(construct[p], sent[p])
  /\ ChunksOf(inbox[p], sent[Other(p)])

StreamInv(p) ==
  /\ EndInv(p)
  /\ \A packet \in Packets(net[p]) : PacketFrom(packet, sent[Other(p)])

(***************************************************************************)
(* The second part holds of a stream whose resend buffer never overflowed. *)
(* Recent: a chunk that is sent is at most BufferCap behind the message    *)
(* that was queued last when it joined its packet.                         *)
(***************************************************************************)
Recent(s, born) ==
  \A i \in 1 .. Len(s) : s[i].idx + BufferCap + (Len(s) - i) > born

\* p's buffer is the tail of its stream after the last ack that p accepted.
TailInv(p) ==
  /\ Len(buffer[p]) <= sent[p]
  /\ sent[p] - Len(buffer[p]) <= got[Other(p)]
  /\ peerAck[p] = SeqOf(sent[p] - Len(buffer[p]))
  /\ \A i \in 1 .. Len(buffer[p]) :
       buffer[p][i].idx = sent[p] - Len(buffer[p]) + i

SenderInv(p) ==
  /\ sent[p] <= got[Other(p)] + BufferCap
  /\ online[p] => TailInv(p)
  /\ Recent(construct[p], sent[p])

\* No chunk that p has still to look at is a whole sequence space behind.
ReceiverInv(p) ==
  \A i \in 1 .. Len(inbox[p]) :
    inbox[p][i].idx + BufferCap + Lifetime + MaxChunks - i > got[p]

WindowInv(p) ==
  /\ SenderInv(p)
  /\ ReceiverInv(Other(p))
  /\ \A packet \in Packets(net[Other(p)]) : Recent(packet.chunks, packet.born)
  /\ \A packet \in Packets(net[p]) : packet.gotThen <= got[Other(p)]

IInv ==
  /\ TypeOK
  /\ \A p \in Peers : StreamInv(p)
  /\ \A p \in Peers : ~broken[p] => WindowInv(p)

-----------------------------------------------------------------------------
(***************************************************************************)
(* Lemmas about the operators of NetConn.                                  *)
(***************************************************************************)
LEMMA TwoPeers ==
  ASSUME NEW p \in Peers
  PROVE  /\ Other(p) \in Peers /\ Other(p) # p /\ Other(Other(p)) = p
         /\ \A r \in Peers : r = p \/ r = Other(p)
  BY NetConnAssumption DEF Peers, Other

\* A segment of a sequence, said with the number of elements before it.
LEMMA Segment ==
  ASSUME NEW S, NEW s \in Seq(S), NEW lo \in Nat, NEW hi \in Nat,
         lo <= hi, hi <= Len(s)
  PROVE  /\ SubSeq(s, lo + 1, hi) \in Seq(S)
         /\ Len(SubSeq(s, lo + 1, hi)) = hi - lo
         /\ \A j \in 1 .. hi - lo : SubSeq(s, lo + 1, hi)[j] = s[lo + j]
<1>1. \A j \in lo + 1 .. hi : s[j] \in S
  BY ElementOfSeq, LenProperties
<1>2. /\ SubSeq(s, lo + 1, hi) \in Seq(S)
      /\ Len(SubSeq(s, lo + 1, hi)) = IF lo + 1 <= hi THEN hi - (lo + 1) + 1 ELSE 0
      /\ \A j \in 1 .. hi - (lo + 1) + 1 :
           SubSeq(s, lo + 1, hi)[j] = s[lo + 1 + j - 1]
  BY <1>1, SubSeqProperties
<1> QED BY <1>2

\* What joins the packets in flight is what was sent; nothing else appears.
LEMMA TransmittedPackets ==
  ASSUME TypeOK, NEW q \in Peers, NEW packets \in Seq(Packet)
  PROVE  /\ Transmitted(q, packets) \in Seq(Packet)
         /\ \A i \in 1 .. Len(Transmitted(q, packets)) :
              \/ Transmitted(q, packets)[i] \in Packets(net[q])
              \/ \E j \in 1 .. Len(packets) :
                   Transmitted(q, packets)[i] = packets[j]
<1> DEFINE all == net[q] \o packets
<1>1. net[q] \in Seq(Packet)
  BY DEF TypeOK
<1>2. /\ all \in Seq(Packet)
      /\ Len(all) = Len(net[q]) + Len(packets)
      /\ \A i \in 1 .. Len(all) :
           all[i] = IF i <= Len(net[q]) THEN net[q][i] ELSE packets[i - Len(net[q])]
  BY <1>1, ConcatProperties
<1>3. Len(net[q]) \in Nat /\ Len(packets) \in Nat /\ Len(all) \in Nat
  BY <1>1, <1>2, LenProperties
<1>4. \A i \in 1 .. Len(all) :
        \/ all[i] \in Packets(net[q])
        \/ \E j \in 1 .. Len(packets) : all[i] = packets[j]
  <2> SUFFICES ASSUME NEW i \in 1 .. Len(all)
               PROVE  \/ all[i] \in Packets(net[q])
                      \/ \E j \in 1 .. Len(packets) : all[i] = packets[j]
    OBVIOUS
  <2>1. CASE i <= Len(net[q])
    BY <2>1, <1>2, <1>3 DEF Packets
  <2>2. CASE i > Len(net[q])
    <3>1. i - Len(net[q]) \in 1 .. Len(packets)
      BY <2>2, <1>2, <1>3
    <3> QED BY <3>1, <2>2, <1>2, <1>3
  <2> QED BY <2>1, <2>2, <1>3
<1>5. CASE Len(all) <= MaxNet
  BY <1>2, <1>4, <1>5 DEF Transmitted
<1>6. CASE ~(Len(all) <= MaxNet)
  <2>1. Transmitted(q, packets) = SubSeq(all, 1, MaxNet)
    BY <1>6 DEF Transmitted
  <2>2. MaxNet \in Nat /\ MaxNet < Len(all)
    BY <1>3, <1>6, NetConnAssumption
  <2>3. /\ SubSeq(all, 0 + 1, MaxNet) \in Seq(Packet)
        /\ Len(SubSeq(all, 0 + 1, MaxNet)) = MaxNet - 0
        /\ \A i \in 1 .. MaxNet - 0 : SubSeq(all, 0 + 1, MaxNet)[i] = all[0 + i]
    BY <2>2, <1>2, Segment
  <2>4. /\ SubSeq(all, 1, MaxNet) \in Seq(Packet)
        /\ Len(SubSeq(all, 1, MaxNet)) = MaxNet
        /\ \A i \in 1 .. MaxNet : SubSeq(all, 1, MaxNet)[i] = all[i]
    BY <2>2, <2>3
  <2> QED BY <2>1, <2>2, <2>4, <1>3, <1>4, SMTT(30)
<1> QED BY <1>5, <1>6

\* Taking a packet out of the air leaves the others.
LEMMA RemainingPackets ==
  ASSUME TypeOK, NEW p \in Peers, NEW i \in 1 .. Len(net[p])
  PROVE  /\ RemoveAt(net[p], i) \in Seq(Packet)
         /\ \A j \in 1 .. Len(RemoveAt(net[p], i)) :
              RemoveAt(net[p], i)[j] \in Packets(net[p])
<1> DEFINE s == net[p]  a == SubSeq(s, 1, i - 1)  b == SubSeq(s, i + 1, Len(s))
<1>1. s \in Seq(Packet) /\ Len(s) \in Nat /\ i \in Nat
  BY LenProperties DEF TypeOK
<1>2. \A j \in 1 .. Len(s) : s[j] \in Packet
  BY <1>1, ElementOfSeq
<1> HIDE DEF s
<1>3. /\ a \in Seq(Packet)
      /\ Len(a) = i - 1
      /\ \A j \in 1 .. i - 1 : a[j] = s[j]
  <2>1. i - 1 \in Nat /\ i - 1 <= Len(s)
    BY <1>1 DEF s
  <2>2. /\ SubSeq(s, 0 + 1, i - 1) \in Seq(Packet)
        /\ Len(SubSeq(s, 0 + 1, i - 1)) = i - 1 - 0
        /\ \A j \in 1 .. i - 1 - 0 : SubSeq(s, 0 + 1, i - 1)[j] = s[0 + j]
    BY <1>1, <2>1, Segment
  <2> QED BY <2>1, <2>2
<1>4. /\ b \in Seq(Packet)
      /\ Len(b) = Len(s) - i
      /\ \A j \in 1 .. Len(s) - i : b[j] = s[i + j]
  BY <1>1, Segment DEF s
<1> HIDE DEF a, b
<1>5. /\ a \o b \in Seq(Packet)
      /\ Len(a \o b) = Len(a) + Len(b)
      /\ \A j \in 1 .. Len(a) + Len(b) :
           (a \o b)[j] = IF j <= Len(a) THEN a[j] ELSE b[j - Len(a)]
  BY <1>3, <1>4, ConcatProperties
<1>6. \A j \in 1 .. Len(a \o b) : \E k \in 1 .. Len(s) : (a \o b)[j] = s[k]
  <2> SUFFICES ASSUME NEW j \in 1 .. Len(a \o b)
               PROVE  \E k \in 1 .. Len(s) : (a \o b)[j] = s[k]
    OBVIOUS
  <2>1. CASE j <= i - 1
    BY <2>1, <1>1, <1>3, <1>4, <1>5 DEF s
  <2>2. CASE j > i - 1
    <3>1. j - (i - 1) \in 1 .. Len(s) - i /\ j + 1 \in 1 .. Len(s)
      BY <2>2, <1>1, <1>3, <1>4, <1>5 DEF s
    <3>2. (a \o b)[j] = s[j + 1]
      BY <3>1, <2>2, <1>1, <1>3, <1>4, <1>5
    <3> QED BY <3>1, <3>2
  <2> QED BY <2>1, <2>2, <1>1, <1>3, <1>4, <1>5
<1> QED BY <1>5, <1>6 DEF RemoveAt, Packets, a, b, s

\* Multiples of the size of a packet.
LEMMA PacketMultiples ==
  ASSUME NEW n \in Nat, NEW i \in 1 .. n
  PROVE  /\ (i - 1) * MaxChunks \in Nat
         /\ i * MaxChunks = (i - 1) * MaxChunks + MaxChunks
         /\ i * MaxChunks <= n * MaxChunks
         /\ i > 1 => (i - 1) * MaxChunks >= MaxChunks
<1>1. MaxChunks \in Nat /\ MaxChunks > 0
  BY NetConnAssumption
<1>2. /\ (i - 1) * MaxChunks \in Nat
      /\ i * MaxChunks = (i - 1) * MaxChunks + MaxChunks
  BY <1>1, SMT
<1>3. ASSUME NEW a \in Nat, NEW b \in Nat, a <= b
      PROVE  a * MaxChunks <= b * MaxChunks
  BY <1>1, <1>3, SMT
<1>4. i > 1 => 1 * MaxChunks <= (i - 1) * MaxChunks
  BY <1>3
<1> QED BY <1>1, <1>2, <1>3, <1>4

LEMMA PacketFields ==
  ASSUME NEW packet, NEW p, NEW s, NEW r, packet = PacketOf(p, s, r)
  PROVE  /\ packet.ack = ack[p] /\ packet.born = sent[p]
         /\ packet.gotThen = got[p] /\ packet.chunks = s
  BY DEF PacketOf

(***************************************************************************)
(* QueueChunkEx cuts the construct and the chunks it queues into packets   *)
(* of MaxChunks and leaves at least the last chunk in the construct.       *)
(* all is cut into the n packets f and the rest.                           *)
(***************************************************************************)
CutInto(p, all, n, f, rest) ==
  /\ n \in Nat /\ n * MaxChunks \in Nat
  /\ n * MaxChunks < Len(all) /\ Len(all) <= n * MaxChunks + MaxChunks
  /\ f \in Seq(Packet) /\ Len(f) = n
  /\ \A i \in 1 .. n :
       /\ f[i].ack = ack[p] /\ f[i].born = sent[p] /\ f[i].gotThen = got[p]
       /\ Len(f[i].chunks) = MaxChunks
       /\ \A j \in 1 .. MaxChunks : f[i].chunks[j] = all[(i - 1) * MaxChunks + j]
  /\ rest \in Seq(Chunk)
  /\ Len(rest) = Len(all) - n * MaxChunks
  /\ \A j \in 1 .. Len(all) - n * MaxChunks : rest[j] = all[n * MaxChunks + j]

LEMMA Flushes ==
  ASSUME TypeOK, NEW p \in Peers, NEW chunks \in Seq(Chunk), chunks # <<>>
  PROVE  CutInto(p, construct[p] \o chunks, NumFlushed(p, chunks),
                 FlushedBy(p, chunks), ConstructAfter(p, chunks))
<1> DEFINE all == construct[p] \o chunks  n == NumFlushed(p, chunks)
           f == FlushedBy(p, chunks)  rest == ConstructAfter(p, chunks)
<1>0. /\ all = construct[p] \o chunks /\ n = NumFlushed(p, chunks)
      /\ f = FlushedBy(p, chunks) /\ rest = ConstructAfter(p, chunks)
  OBVIOUS
<1> HIDE DEF all, n, f, rest
<1> DEFINE K == MaxChunks
<1>1. K \in Nat /\ K > 0
  BY NetConnAssumption
<1>2. /\ construct[p] \in Seq(Chunk)
      /\ Len(construct[p]) \in Nat /\ Len(chunks) \in Nat /\ Len(chunks) > 0
  BY LenProperties, EmptySeq DEF TypeOK
<1>3. all \in Seq(Chunk) /\ Len(all) = Len(construct[p]) + Len(chunks)
  BY <1>0, <1>2, ConcatProperties
<1>4. n = (Len(all) - 1) \div K /\ Len(all) - 1 \in Nat
  BY <1>0, <1>2, <1>3 DEF NumFlushed
<1>5. n \in Nat /\ n * K \in Nat /\ n * K <= Len(all) - 1 /\ Len(all) - 1 < n * K + K
  BY <1>1, <1>4, DivBounds
<1> HIDE DEF K
<1>6. \A m \in 1 .. Len(all) : all[m] \in Chunk
  BY <1>3, ElementOfSeq
<1>7. ASSUME NEW i \in 1 .. n
      PROVE  LET s == SubSeq(all, (i - 1) * K + 1, i * K)
             IN  /\ s \in Seq(Chunk) /\ Len(s) = K
                 /\ \A j \in 1 .. K : s[j] = all[(i - 1) * K + j]
  <2> DEFINE lo == (i - 1) * K  hi == i * K
  <2>1. lo \in Nat /\ hi = lo + K /\ hi <= n * K
    BY <1>5, PacketMultiples DEF K
  <2> HIDE DEF lo, hi
  <2>2. lo \in Nat /\ hi \in Nat /\ lo <= hi /\ hi <= Len(all)
    <3>1. Len(all) \in Nat
      BY <1>2, <1>3
    <3> QED BY <3>1, <2>1, <1>1, <1>5
  <2>3. /\ SubSeq(all, lo + 1, hi) \in Seq(Chunk)
        /\ Len(SubSeq(all, lo + 1, hi)) = hi - lo
        /\ \A j \in 1 .. hi - lo : SubSeq(all, lo + 1, hi)[j] = all[lo + j]
    BY <2>2, <1>3, Segment
  <2>4. hi - lo = K
    BY <2>1, <1>1
  <2> QED BY <2>3, <2>4 DEF lo, hi
<1>8. ASSUME NEW i \in 1 .. n, NEW flag \in BOOLEAN
      PROVE  PacketOf(p, SubSeq(all, (i - 1) * K + 1, i * K), flag) \in Packet
  BY <1>7 DEF PacketOf, Packet, TypeOK
<1>9. /\ f \in Seq(Packet)
      /\ Len(f) = n
      /\ \A i \in 1 .. n :
           f[i]
             = PacketOf(p, SubSeq(all, (i - 1) * K + 1, i * K), i = 1 /\ resendFlag[p])
  <2>1. f = [i \in 1 .. n |->
               PacketOf(p, SubSeq(all, (i - 1) * K + 1, i * K), i = 1 /\ resendFlag[p])]
    BY <1>0 DEF FlushedBy, K
  <2>2. \A i \in 1 .. n : (i = 1 /\ resendFlag[p]) \in BOOLEAN
    BY DEF TypeOK
  <2>3. \A i \in 1 .. n :
          PacketOf(p, SubSeq(all, (i - 1) * K + 1, i * K), i = 1 /\ resendFlag[p]) \in Packet
    BY <2>2, <1>8
  <2>4. f \in [1 .. n -> Packet]
    BY <2>1, <2>3
  <2>5. f \in Seq(Packet)
    BY <2>4, <1>5, SeqDef
  <2>6. DOMAIN f = 1 .. n /\ DOMAIN f = 1 .. Len(f) /\ Len(f) \in Nat
    BY <2>4, <2>5, LenProperties
  <2>7. Len(f) = n
    BY <2>6, <1>5
  <2> QED BY <2>1, <2>5, <2>7
<1>10. /\ rest \in Seq(Chunk)
       /\ Len(rest) = Len(all) - n * K
       /\ \A j \in 1 .. Len(all) - n * K : rest[j] = all[n * K + j]
  <2> DEFINE lo == n * K  hi == Len(all)
  <2>1. rest = SubSeq(all, lo + 1, hi)
    BY <1>0, <1>3 DEF ConstructAfter, K
  <2>2. lo \in Nat /\ hi \in Nat /\ lo <= hi /\ hi <= Len(all)
    BY <1>4, <1>5
  <2> HIDE DEF lo, hi
  <2>3. /\ SubSeq(all, lo + 1, hi) \in Seq(Chunk)
        /\ Len(SubSeq(all, lo + 1, hi)) = hi - lo
        /\ \A j \in 1 .. hi - lo : SubSeq(all, lo + 1, hi)[j] = all[lo + j]
    BY <2>2, <1>3, Segment
  <2> QED BY <2>1, <2>3 DEF lo, hi
<1>11. ASSUME NEW i \in 1 .. n
       PROVE  LET packet == f[i]
              IN  /\ packet.ack = ack[p] /\ packet.born = sent[p]
                  /\ packet.gotThen = got[p]
                  /\ packet.chunks = SubSeq(all, (i - 1) * K + 1, i * K)
  <2> DEFINE x == f[i]
             s == SubSeq(all, (i - 1) * K + 1, i * K)
  <2>1. PICK flag : x = PacketOf(p, s, flag)
    BY <1>9
  <2> HIDE DEF x, s
  <2>2. /\ x.ack = ack[p] /\ x.born = sent[p]
        /\ x.gotThen = got[p] /\ x.chunks = s
    BY ONLY <2>1, PacketFields
  <2> QED BY <2>2 DEF x, s
<1>12. n * K < Len(all) /\ Len(all) <= n * K + K
  <2>1. Len(all) \in Nat
    BY <1>2, <1>3
  <2> QED BY <2>1, <1>1, <1>5
<1>13. CutInto(p, all, n, f, rest)
  BY <1>5, <1>7, <1>9, <1>10, <1>11, <1>12 DEF K, CutInto
<1> QED BY <1>0, <1>13

LEMMA NoneFlushed ==
  ASSUME TypeOK, NEW p \in Peers
  PROVE  /\ NumFlushed(p, <<>>) = 0
         /\ FlushedBy(p, <<>>) = <<>>
         /\ ConstructAfter(p, <<>>) = construct[p]
<1>1. construct[p] \in Seq(Chunk) /\ Len(construct[p]) \in Nat
  BY LenProperties DEF TypeOK
<1>2. NumFlushed(p, <<>>) = 0
  BY DEF NumFlushed
<1>3. construct[p] \o <<>> = construct[p] /\ Len(<<>>) = 0
  BY <1>1, ConcatEmptySeq, EmptySeq
<1>4. ConstructAfter(p, <<>>) = SubSeq(construct[p], 1, Len(construct[p]))
  <2>1. 0 * MaxChunks + 1 = 1
    BY NetConnAssumption
  <2> QED BY <2>1, <1>1, <1>2, <1>3 DEF ConstructAfter
<1>5. FlushedBy(p, <<>>) = <<>>
  <2>1. 1 .. 0 = {}
    OBVIOUS
  <2>2. DOMAIN FlushedBy(p, <<>>) = {}
    BY <2>1, <1>2 DEF FlushedBy
  <2>3. FlushedBy(p, <<>>) \in [1 .. 0 -> {}]
    BY <2>1, <1>2 DEF FlushedBy
  <2>4. FlushedBy(p, <<>>) \in Seq({})
    BY <2>3, SeqDef
  <2>5. Len(FlushedBy(p, <<>>)) = 0
    BY <2>4, <2>2, LenProperties
  <2> QED BY <2>4, <2>5, EmptySeq
<1> QED BY <1>1, <1>2, <1>4, <1>5, SubSeqFull

LEMMA MoreMessages ==
  ASSUME NEW n \in Nat, NEW m \in Nat, n <= m
  PROVE  /\ \A s : ChunksOf(s, n) => ChunksOf(s, m)
         /\ \A packet \in Packet : PacketFrom(packet, n) => PacketFrom(packet, m)
<1>1. \A s : ChunksOf(s, n) => ChunksOf(s, m)
  BY DEF ChunksOf, ChunkOf
<1>2. \A packet \in Packet : packet.born \in Nat
  BY DEF Packet
<1> QED BY <1>1, <1>2 DEF PacketFrom

(***************************************************************************)
(* The packets that QueueChunkEx sends carry chunks of the stream, the ack *)
(* of this moment, and no more chunks than a packet has room for.          *)
(***************************************************************************)
LEMMA FlushedPackets ==
  ASSUME TypeOK, NEW p \in Peers, NEW cs \in Seq(Chunk), NEW m \in Nat,
         ChunksOf(construct[p], m), ChunksOf(cs, m), sent[p] <= m,
         ack[p] = SeqOf(got[p]), Len(construct[p]) <= MaxChunks
  PROVE  /\ FlushedBy(p, cs) \in Seq(Packet)
         /\ ConstructAfter(p, cs) \in Seq(Chunk)
         /\ Len(ConstructAfter(p, cs)) <= MaxChunks
         /\ ChunksOf(ConstructAfter(p, cs), m)
         /\ \A j \in 1 .. Len(FlushedBy(p, cs)) :
              LET packet == FlushedBy(p, cs)[j]
              IN  /\ PacketFrom(packet, m)
                  /\ packet.born = sent[p] /\ packet.gotThen = got[p]
<1>1. CASE cs = <<>>
  <2>1. construct[p] \in Seq(Chunk)
    BY DEF TypeOK
  <2>2. <<>> \in Seq(Packet) /\ Len(<<>>) = 0
    BY EmptySeq
  <2>3. FlushedBy(p, cs) = <<>> /\ ConstructAfter(p, cs) = construct[p]
    BY <1>1, NoneFlushed
  <2>4. 1 .. Len(FlushedBy(p, cs)) = {}
    BY <2>2, <2>3
  <2> QED BY <2>1, <2>2, <2>3, <2>4
<1>2. CASE cs # <<>>
  <2> DEFINE all == construct[p] \o cs
             n == NumFlushed(p, cs)
             f == FlushedBy(p, cs)
             rest == ConstructAfter(p, cs)
  <2>0. /\ all = construct[p] \o cs /\ n = NumFlushed(p, cs)
        /\ f = FlushedBy(p, cs) /\ rest = ConstructAfter(p, cs)
    OBVIOUS
  <2> HIDE DEF all, f, n, rest
  <2>9. CutInto(p, all, n, f, rest)
    BY <2>0, <1>2, Flushes
  <2>1. /\ n \in Nat /\ n * MaxChunks \in Nat
        /\ n * MaxChunks < Len(all) /\ Len(all) <= n * MaxChunks + MaxChunks
        /\ f \in Seq(Packet) /\ Len(f) = n
        /\ rest \in Seq(Chunk) /\ Len(rest) = Len(all) - n * MaxChunks
        /\ \A j \in 1 .. Len(all) - n * MaxChunks : rest[j] = all[n * MaxChunks + j]
    BY <2>9 DEF CutInto
  <2>2. ASSUME NEW i \in 1 .. n
        PROVE  /\ f[i].ack = ack[p] /\ f[i].born = sent[p] /\ f[i].gotThen = got[p]
               /\ Len(f[i].chunks) = MaxChunks
               /\ \A j \in 1 .. MaxChunks : f[i].chunks[j] = all[(i - 1) * MaxChunks + j]
    BY <2>9 DEF CutInto
  <2>3. /\ construct[p] \in Seq(Chunk) /\ Len(construct[p]) \in Nat
        /\ Len(cs) \in Nat /\ Len(all) = Len(construct[p]) + Len(cs)
        /\ \A k \in 1 .. Len(construct[p]) + Len(cs) :
             all[k] = IF k <= Len(construct[p]) THEN construct[p][k]
                      ELSE cs[k - Len(construct[p])]
    BY <2>0, LenProperties, ConcatProperties DEF TypeOK
  <2>4. \A k \in 1 .. Len(all) : ChunkOf(all[k], m)
    <3> SUFFICES ASSUME NEW k \in 1 .. Len(all) PROVE ChunkOf(all[k], m)
      OBVIOUS
    <3>1. CASE k <= Len(construct[p])
      <4>1. k \in 1 .. Len(construct[p]) /\ all[k] = construct[p][k]
        BY <3>1, <2>3
      <4> QED BY <4>1 DEF ChunksOf
    <3>2. CASE k > Len(construct[p])
      <4>1. k - Len(construct[p]) \in 1 .. Len(cs) /\ all[k] = cs[k - Len(construct[p])]
        BY <3>2, <2>3
      <4> QED BY <4>1 DEF ChunksOf
    <3> QED BY <3>1, <3>2, <2>3
  <2>5. ChunksOf(rest, m) /\ Len(rest) <= MaxChunks
    <3>1. Len(rest) <= MaxChunks
      BY <2>1, <2>3, NetConnAssumption
    <3>2. ASSUME NEW j \in 1 .. Len(rest) PROVE ChunkOf(rest[j], m)
      <4>1. n * MaxChunks + j \in 1 .. Len(all) /\ rest[j] = all[n * MaxChunks + j]
        BY <2>1, <2>3
      <4> QED BY <4>1, <2>4
    <3> QED BY <3>1, <3>2 DEF ChunksOf
  <2>6. ASSUME NEW i \in 1 .. n PROVE PacketFrom(f[i], m)
    <3>1. ASSUME NEW j \in 1 .. MaxChunks PROVE ChunkOf(f[i].chunks[j], m)
      <4>1. /\ (i - 1) * MaxChunks \in Nat /\ i * MaxChunks = (i - 1) * MaxChunks + MaxChunks
            /\ i * MaxChunks <= n * MaxChunks
        BY <2>1, PacketMultiples
      <4> DEFINE lo == (i - 1) * MaxChunks
      <4>2. lo + j <= lo + MaxChunks /\ lo + j \in Nat /\ lo + j >= 1
        <5> HIDE DEF lo
        <5>1. lo \in Nat
          BY <4>1 DEF lo
        <5> QED BY <5>1, NetConnAssumption
      <4>3. lo + j \in 1 .. Len(all)
        <5> DEFINE x == i * MaxChunks  y == n * MaxChunks
        <5>1. lo \in Nat /\ x = lo + MaxChunks /\ x <= y /\ y < Len(all) /\ y \in Nat /\ Len(all) \in Nat
          BY <4>1, <2>1, <2>3
        <5> HIDE DEF lo, x, y
        <5> QED BY <5>1, <4>2, NetConnAssumption
      <4> HIDE DEF lo
      <4>4. f[i].chunks[j] = all[lo + j]
        BY <2>2 DEF lo
      <4> QED BY <4>3, <4>4, <2>4
    <3>2. Len(f[i].chunks) = MaxChunks /\ MaxChunks \in Nat
      BY <2>2, NetConnAssumption
    <3>3. ChunksOf(f[i].chunks, m)
      BY <3>1, <3>2 DEF ChunksOf
    <3> QED BY <3>2, <3>3, <2>2 DEF PacketFrom
  <2> QED BY <2>1, <2>2, <2>5, <2>6, <2>0
<1> QED BY <1>1, <1>2

(***************************************************************************)
(* What QueueChunkEx sends, and what it leaves in the construct, is recent *)
(* if the construct was and the chunks it queues are: construct's chunks   *)
(* come first, so those it had stay together in one packet.                *)
(***************************************************************************)
LEMMA FlushedRecent ==
  ASSUME TypeOK, NEW p \in Peers, NEW cs \in Seq(Chunk), NEW b \in Nat, NEW b2 \in Nat,
         b <= b2, b2 <= b + Len(cs), Len(construct[p]) <= MaxChunks,
         Recent(construct[p], b),
         \A i \in 1 .. Len(cs) : cs[i].idx + BufferCap > b2
  PROVE  /\ \A j \in 1 .. Len(FlushedBy(p, cs)) : Recent(FlushedBy(p, cs)[j].chunks, b)
         /\ Recent(ConstructAfter(p, cs), b2)
<1>1. CASE cs = <<>>
  <2>1. FlushedBy(p, cs) = <<>> /\ ConstructAfter(p, cs) = construct[p]
    BY <1>1, NoneFlushed
  <2>2. Len(FlushedBy(p, cs)) = 0 /\ Len(cs) = 0
    BY <1>1, <2>1, EmptySeq
  <2>3. b2 = b /\ 1 .. Len(FlushedBy(p, cs)) = {}
    BY <2>2
  <2> QED BY <2>1, <2>3
<1>2. CASE cs # <<>>
  <2> DEFINE all == construct[p] \o cs
             n == NumFlushed(p, cs)
             f == FlushedBy(p, cs)
             rest == ConstructAfter(p, cs)
             c == Len(construct[p])
             K == MaxChunks
  <2>1. /\ all = construct[p] \o cs /\ n = NumFlushed(p, cs)
        /\ f = FlushedBy(p, cs) /\ rest = ConstructAfter(p, cs)
    OBVIOUS
  <2>2. /\ construct[p] \in Seq(Chunk) /\ Len(construct[p]) \in Nat /\ Len(cs) \in Nat
        /\ \A k \in 1 .. Len(construct[p]) : construct[p][k].idx \in Nat
        /\ \A k \in 1 .. Len(cs) : cs[k].idx \in Nat
    <3>1. /\ construct[p] \in Seq(Chunk) /\ Len(construct[p]) \in Nat /\ Len(cs) \in Nat
      BY LenProperties DEF TypeOK
    <3>2. /\ \A k \in 1 .. Len(construct[p]) : construct[p][k] \in Chunk
          /\ \A k \in 1 .. Len(cs) : cs[k] \in Chunk
      BY <3>1, ElementOfSeq
    <3>3. \A x \in Chunk : x.idx \in Nat
      BY DEF Chunk
    <3> QED BY <3>1, <3>2, <3>3
  <2> HIDE DEF all, f, n, rest
  <2>3. CutInto(p, all, n, f, rest)
    BY <2>1, <1>2, Flushes
  <2>4. /\ Len(all) = c + Len(cs)
        /\ \A k \in 1 .. c + Len(cs) :
             all[k] = IF k <= c THEN construct[p][k] ELSE cs[k - c]
    BY <2>1, <2>2, ConcatProperties
  <2>5. c \in Nat /\ c <= K /\ K \in Nat /\ K > 0 /\ BufferCap \in Nat
    BY <2>2, NetConnAssumption
  <2>6. \A k \in 1 .. c : construct[p][k].idx + BufferCap + (c - k) > b
    BY DEF Recent
  <2> HIDE DEF c, K
  <2>7. \A k \in 1 .. Len(all) :
          /\ all[k].idx \in Nat
          /\ IF k <= c THEN all[k].idx + BufferCap + (c - k) > b
                       ELSE all[k].idx + BufferCap > b2
    <3> SUFFICES ASSUME NEW k \in 1 .. Len(all)
                 PROVE  /\ all[k].idx \in Nat
                        /\ IF k <= c THEN all[k].idx + BufferCap + (c - k) > b
                                     ELSE all[k].idx + BufferCap > b2
      OBVIOUS
    <3>1. CASE k <= c
      <4>1. k \in 1 .. c /\ all[k] = construct[p][k]
        BY <3>1, <2>2, <2>4, <2>5
      <4> QED BY <4>1, <3>1, <2>2, <2>6 DEF c
    <3>2. CASE ~(k <= c)
      <4>1. k - c \in 1 .. Len(cs) /\ all[k] = cs[k - c]
        BY <3>2, <2>2, <2>4, <2>5
      <4> QED BY <4>1, <3>2, <2>2
    <3> QED BY <3>1, <3>2
  <2>8. ASSUME NEW i \in 1 .. n PROVE Recent(f[i].chunks, b)
    <3> DEFINE lo == (i - 1) * K
    <3>1. /\ lo \in Nat /\ lo + K <= n * K /\ (i > 1 => lo >= K) /\ (i = 1 => lo = 0)
      BY <2>3, <2>5, PacketMultiples DEF K, CutInto
    <3>2. n * K \in Nat /\ n * K < Len(all) /\ Len(all) \in Nat
      BY <2>2, <2>3, <2>4, <2>5 DEF CutInto, K
    <3>3. Len(f[i].chunks) = K /\ \A j \in 1 .. K : f[i].chunks[j] = all[lo + j]
      BY <2>3 DEF CutInto, K
    <3>4. i = 1 \/ i > 1
      BY <2>3 DEF CutInto
    <3> DEFINE nK == n * K
    <3>5. nK \in Nat /\ nK < Len(all) /\ lo + K <= nK
      BY <3>1, <3>2
    <3> HIDE DEF lo, nK
    <3>6. ASSUME NEW j \in 1 .. K
          PROVE  all[lo + j].idx + BufferCap + (K - j) > b
      <4>1. lo + j \in 1 .. Len(all)
        BY <3>1, <3>2, <3>5, <2>5
      <4>2. lo + j <= c => lo = 0
        BY <3>1, <3>4, <2>5
      <4>3. /\ all[lo + j].idx \in Nat
            /\ IF lo + j <= c THEN all[lo + j].idx + BufferCap + (c - (lo + j)) > b
                              ELSE all[lo + j].idx + BufferCap > b2
        BY <4>1, <2>7
      <4> DEFINE x == all[lo + j].idx
      <4> HIDE DEF x
      <4>4. /\ x \in Nat /\ IF lo + j <= c THEN x + BufferCap + (c - (lo + j)) > b
                                        ELSE x + BufferCap > b2
        BY <4>3 DEF x
      <4>5. x + BufferCap + (K - j) > b
        BY <4>2, <4>4, <2>5, <3>1
      <4> QED BY <4>5 DEF x
    <3> QED BY <3>3, <3>6 DEF Recent
  <2>9. Recent(rest, b2)
    <3> DEFINE nK == n * K
    <3>1. nK \in Nat /\ (n # 0 => nK >= K)
      <4>1. n \in Nat /\ nK \in Nat
        BY <2>3 DEF CutInto, K
      <4>2. n # 0 => n \in 1 .. n /\ (n - 1) * K \in Nat /\ n * K = (n - 1) * K + K
        BY <4>1, PacketMultiples DEF K
      <4> DEFINE m == (n - 1) * K
      <4>3. n # 0 => m \in Nat /\ nK = m + K
        BY <4>2
      <4> HIDE DEF m, nK
      <4> QED BY <4>1, <4>3, <2>5
    <3>2. n = 0 => nK = 0
      BY <2>5
    <3>3. /\ nK < Len(all) /\ Len(rest) = Len(all) - nK
          /\ \A j \in 1 .. Len(all) - nK : rest[j] = all[nK + j]
      BY <2>3 DEF CutInto, K
    <3>4. Len(all) \in Nat
      BY <2>2, <2>4, <2>5
    <3> HIDE DEF nK
    <3>5. ASSUME NEW j \in 1 .. Len(rest)
          PROVE  rest[j].idx + BufferCap + (Len(rest) - j) > b2
      <4>1. nK + j \in 1 .. Len(all) /\ rest[j] = all[nK + j]
        BY <3>1, <3>3, <3>4
      <4>2. nK + j <= c => nK = 0
        BY <3>1, <3>2, <2>5
      <4> DEFINE x == all[nK + j].idx
      <4>3. /\ x \in Nat
            /\ IF nK + j <= c THEN x + BufferCap + (c - (nK + j)) > b
                              ELSE x + BufferCap > b2
        BY <4>1, <2>7
      <4> HIDE DEF x
      <4>4. Len(rest) - j \in Nat
        BY <3>1, <3>3, <3>4
      <4>5. x + BufferCap + (Len(rest) - j) > b2
        <5>1. CASE nK + j > c
          BY <5>1, <4>3, <4>4, <3>1, <2>5
        <5>2. CASE nK + j <= c
          BY <5>2, <4>2, <4>3, <4>4, <3>1, <3>3, <2>2, <2>4, <2>5
        <5> QED BY <5>1, <5>2, <3>1, <2>5
      <4> QED BY <4>1, <4>5 DEF x
    <3> QED BY <3>5 DEF Recent
  <2> QED BY <2>1, <2>8, <2>9, <2>3 DEF CutInto
<1> QED BY <1>1, <1>2

-----------------------------------------------------------------------------
(***************************************************************************)
(* The shape of every step: one end p changes its own state, sends         *)
(* the packets, and may take one out of those in flight to it.             *)
(***************************************************************************)
Keeps(p) ==
  /\ online'[p] = online[p] /\ sequence'[p] = sequence[p]
  /\ ack'[p] = ack[p] /\ peerAck'[p] = peerAck[p]
  /\ buffer'[p] = buffer[p] /\ construct'[p] = construct[p]
  /\ inbox'[p] = inbox[p]
  /\ sent'[p] = sent[p] /\ got'[p] = got[p] /\ broken'[p] = broken[p]

StepOf(p, packets) ==
  /\ Keeps(Other(p))
  /\ sent[p] <= sent'[p]
  /\ broken[p] => broken'[p]
  /\ ~broken[Other(p)] => got[p] <= got'[p] /\ ReceiverInv(p)'
  /\ EndInv(p)'
  /\ ~broken'[p] => SenderInv(p)'
  /\ \A j \in 1 .. Len(packets) :
       /\ PacketFrom(packets[j], sent'[p])
       /\ packets[j].gotThen <= got'[p]
       /\ ~broken'[p] => Recent(packets[j].chunks, packets[j].born)
  /\ \A packet \in Packets(net'[p]) : packet \in Packets(net[p])
  /\ \A packet \in Packets(net'[Other(p)]) :
       packet \in Packets(net[Other(p)]) \cup Packets(packets)

LEMMA StepPreserves ==
  ASSUME IInv, TypeOK', NEW p \in Peers, NEW packets,
         StepOf(p, packets)
  PROVE  IInv'
<1>2. PICK q \in Peers : q = Other(p)
  BY TwoPeers
<1>1. q # p /\ Other(q) = p /\ \A r \in Peers : r = p \/ r = q
  BY <1>2, TwoPeers
<1>3. /\ sent[p] \in Nat /\ sent[q] \in Nat /\ got[p] \in Nat /\ got[q] \in Nat
      /\ sent'[p] \in Nat /\ got'[p] \in Nat
      /\ BufferCap \in Nat
  BY <1>1, NetConnAssumption DEF IInv, TypeOK
<1>4. Keeps(q) /\ sent[p] <= sent'[p]
  BY <1>2 DEF StepOf
<1>5. \A packet \in Packets(net[p]) \cup Packets(net[q]) : packet \in Packet
  <2>1. \A r \in Peers : \A i \in 1 .. Len(net[r]) : net[r][i] \in Packet
    BY ElementOfSeq DEF IInv, TypeOK
  <2> QED BY <2>1, <1>1 DEF Packets
<1>6. /\ \A packet \in Packets(net'[p]) : packet \in Packets(net[p])
      /\ \A packet \in Packets(net'[q]) :
           packet \in Packets(net[q]) \/ \E j \in 1 .. Len(packets) : packet = packets[j]
  <2>1. \A packet \in Packets(packets) : \E j \in 1 .. Len(packets) : packet = packets[j]
    BY DEF Packets
  <2>2. \A packet \in Packets(net'[p]) : packet \in Packets(net[p])
    BY DEF StepOf
  <2>3. \A packet \in Packets(net'[q]) : packet \in Packets(net[q]) \cup Packets(packets)
    BY <1>2 DEF StepOf
  <2> QED BY <2>1, <2>2, <2>3
<1>7. StreamInv(p)'
  <2>1. \A packet \in Packets(net'[p]) : PacketFrom(packet, sent'[q])
    <3>1. \A packet \in Packets(net[p]) : PacketFrom(packet, sent[q])
      BY <1>2 DEF IInv, StreamInv
    <3> QED BY <3>1, <1>4, <1>6 DEF Keeps
  <2> QED BY <2>1, <1>2 DEF StreamInv, StepOf
<1>8. StreamInv(q)'
  <2>1. EndInv(q) /\ \A packet \in Packets(net[q]) : PacketFrom(packet, sent[p])
    BY <1>1 DEF IInv, StreamInv
  <2>2. \A packet \in Packets(net'[q]) : PacketFrom(packet, sent'[p])
    <3>1. \A packet \in Packets(net[q]) : PacketFrom(packet, sent'[p])
      BY <2>1, <1>3, <1>4, <1>5, MoreMessages
    <3>2. \A j \in 1 .. Len(packets) : PacketFrom(packets[j], sent'[p])
      BY DEF StepOf
    <3> QED BY <3>1, <3>2, <1>6
  <2>3. ChunksOf(inbox[q], sent'[p])
    BY <2>1, <1>1, <1>3, <1>4, MoreMessages DEF EndInv
  <2>4. EndInv(q)'
    BY <2>1, <2>3, <1>1, <1>3, <1>4 DEF EndInv, Keeps
  <2> QED BY <2>2, <2>4, <1>1 DEF StreamInv
<1>9. ASSUME ~broken'[p] PROVE WindowInv(p)'
  <2>1. ~broken[p] /\ SenderInv(p)'
    BY <1>9 DEF StepOf
  <2>2. WindowInv(p)
    BY <2>1 DEF IInv
  <2>3. ReceiverInv(q)'
    BY <2>2, <1>2, <1>4 DEF WindowInv, ReceiverInv, Keeps
  <2>4. \A packet \in Packets(net'[q]) : Recent(packet.chunks, packet.born)
    BY <2>2, <1>2, <1>6, <1>9 DEF WindowInv, StepOf
  <2>5. \A packet \in Packets(net'[p]) : packet.gotThen <= got'[q]
    BY <2>2, <1>2, <1>4, <1>6 DEF WindowInv, Keeps
  <2> QED BY <2>1, <2>3, <2>4, <2>5, <1>2 DEF WindowInv
<1>10. ASSUME ~broken'[q] PROVE WindowInv(q)'
  <2>1. ~broken[q]
    BY <1>4, <1>10 DEF Keeps
  <2>2. WindowInv(q) /\ got[p] <= got'[p] /\ ReceiverInv(p)'
    BY <2>1, <1>1, <1>2 DEF IInv, StepOf
  <2>3. SenderInv(q)'
    <3>1. SenderInv(q)
      BY <2>2 DEF WindowInv
    <3>2. sent'[q] <= got'[p] + BufferCap /\ Recent(construct'[q], sent'[q])
      BY <3>1, <2>2, <1>1, <1>3, <1>4 DEF SenderInv, Keeps
    <3>3. ASSUME online'[q] PROVE TailInv(q)'
      <4>1. TailInv(q)
        BY <3>1, <3>3, <1>4 DEF SenderInv, Keeps
      <4>2. Len(buffer[q]) \in Nat
        BY <1>1, LenProperties DEF IInv, TypeOK
      <4> QED BY <4>1, <4>2, <2>2, <1>1, <1>3, <1>4 DEF TailInv, Keeps
    <3> QED BY <3>2, <3>3, <1>1 DEF SenderInv
  <2>4. \A packet \in Packets(net'[p]) : Recent(packet.chunks, packet.born)
    BY <2>2, <1>1, <1>6 DEF WindowInv
  <2>5. \A packet \in Packets(net'[q]) : packet.gotThen <= got'[p]
    <3>1. \A packet \in Packet : packet.gotThen \in Nat
      BY DEF Packet
    <3>2. \A packet \in Packets(net[q]) : packet.gotThen <= got[p]
      BY <2>2, <1>1 DEF WindowInv
    <3>3. \A packet \in Packets(net[q]) : packet.gotThen <= got'[p]
      BY <3>1, <3>2, <2>2, <1>3, <1>5
    <3> QED BY <3>3, <1>6 DEF StepOf
  <2> QED BY <2>2, <2>3, <2>4, <2>5, <1>1 DEF WindowInv
<1> QED BY <1>1, <1>7, <1>8, <1>9, <1>10 DEF IInv

\* The packets in flight after p sent some.
LEMMA NetSends ==
  ASSUME TypeOK, NEW p \in Peers, NEW packets \in Seq(Packet),
         net' = [net EXCEPT ![Other(p)] = Transmitted(Other(p), packets)]
  PROVE  /\ net' \in [Peers -> Seq(Packet)]
         /\ \A packet \in Packets(net'[p]) : packet \in Packets(net[p])
         /\ \A packet \in Packets(net'[Other(p)]) :
              packet \in Packets(net[Other(p)]) \cup Packets(packets)
<1>1. PICK q \in Peers : q = Other(p) /\ q # p
  BY TwoPeers
<1>2. /\ Transmitted(q, packets) \in Seq(Packet)
      /\ \A i \in 1 .. Len(Transmitted(q, packets)) :
           \/ Transmitted(q, packets)[i] \in Packets(net[q])
           \/ \E j \in 1 .. Len(packets) : Transmitted(q, packets)[i] = packets[j]
  BY TransmittedPackets
<1>3. net' = [net EXCEPT ![q] = Transmitted(q, packets)]
  BY <1>1
<1>4. net' \in [Peers -> Seq(Packet)]
  BY <1>2, <1>3 DEF TypeOK
<1>5. net'[p] = net[p] /\ net'[q] = Transmitted(q, packets)
  BY <1>1, <1>3 DEF TypeOK
<1>6. ASSUME NEW packet \in Packets(net'[q])
      PROVE  packet \in Packets(net[q]) \cup Packets(packets)
  <2>1. PICK i \in 1 .. Len(net'[q]) : packet = net'[q][i]
    BY DEF Packets
  <2>2. \A j \in 1 .. Len(packets) : packets[j] \in Packets(packets)
    BY DEF Packets
  <2> QED BY <2>1, <2>2, <1>2, <1>5
<1> QED BY <1>1, <1>4, <1>5, <1>6

\* The same when p also took the i-th packet out of those in flight to it.
LEMMA NetTakes ==
  ASSUME TypeOK, NEW p \in Peers, NEW packets \in Seq(Packet),
         NEW i \in 1 .. Len(net[p]),
         net' = [net EXCEPT ![p] = RemoveAt(@, i),
                            ![Other(p)] = Transmitted(Other(p), packets)]
  PROVE  /\ net' \in [Peers -> Seq(Packet)]
         /\ \A packet \in Packets(net'[p]) : packet \in Packets(net[p])
         /\ \A packet \in Packets(net'[Other(p)]) :
              packet \in Packets(net[Other(p)]) \cup Packets(packets)
<1>1. PICK q \in Peers : q = Other(p) /\ q # p
  BY TwoPeers
<1>2. /\ Transmitted(q, packets) \in Seq(Packet)
      /\ \A k \in 1 .. Len(Transmitted(q, packets)) :
           \/ Transmitted(q, packets)[k] \in Packets(net[q])
           \/ \E j \in 1 .. Len(packets) : Transmitted(q, packets)[k] = packets[j]
  BY TransmittedPackets
<1>3. net' = [net EXCEPT ![p] = RemoveAt(net[p], i), ![q] = Transmitted(q, packets)]
  BY <1>1
<1>4. /\ RemoveAt(net[p], i) \in Seq(Packet)
      /\ \A j \in 1 .. Len(RemoveAt(net[p], i)) : RemoveAt(net[p], i)[j] \in Packets(net[p])
  BY RemainingPackets
<1>5. net' \in [Peers -> Seq(Packet)]
  BY <1>2, <1>3, <1>4 DEF TypeOK
<1>6. net'[p] = RemoveAt(net[p], i) /\ net'[q] = Transmitted(q, packets)
  BY <1>1, <1>3 DEF TypeOK
<1>7. ASSUME NEW packet \in Packets(net'[q])
      PROVE  packet \in Packets(net[q]) \cup Packets(packets)
  <2>1. PICK k \in 1 .. Len(net'[q]) : packet = net'[q][k]
    BY DEF Packets
  <2>2. \A j \in 1 .. Len(packets) : packets[j] \in Packets(packets)
    BY DEF Packets
  <2> QED BY <2>1, <2>2, <1>2, <1>6
<1>8. \A packet \in Packets(net'[p]) : packet \in Packets(net[p])
  BY <1>4, <1>6 DEF Packets
<1> QED BY <1>1, <1>5, <1>7, <1>8

\* What an online end can count on, with the types spelled out.
LEMMA EndFacts ==
  ASSUME IInv, NEW p \in Peers
  PROVE  /\ EndInv(p)
         /\ buffer[p] \in Seq(Chunk) /\ construct[p] \in Seq(Chunk)
         /\ inbox[p] \in Seq(Chunk) /\ net[p] \in Seq(Packet)
         /\ Len(buffer[p]) \in Nat /\ Len(construct[p]) \in Nat
         /\ Len(inbox[p]) \in Nat /\ Len(net[p]) \in Nat
         /\ sent[p] \in Nat /\ got[p] \in Nat
         /\ ~broken[p] => SenderInv(p)
         /\ ~broken[Other(p)] => ReceiverInv(p)
<1>1. Other(p) \in Peers /\ Other(Other(p)) = p
  BY TwoPeers
<1>2. /\ EndInv(p)
      /\ ~broken[p] => SenderInv(p)
      /\ ~broken[Other(p)] => ReceiverInv(p)
  BY <1>1 DEF IInv, StreamInv, WindowInv
<1>3. /\ buffer[p] \in Seq(Chunk) /\ construct[p] \in Seq(Chunk)
      /\ inbox[p] \in Seq(Chunk) /\ net[p] \in Seq(Packet)
      /\ sent[p] \in Nat /\ got[p] \in Nat
  BY DEF IInv, TypeOK
<1> QED BY <1>2, <1>3, LenProperties

\* What p sends in a step after which it has queued m messages.
GoodPackets(p, packets, m) ==
  /\ packets \in Seq(Packet)
  /\ \A j \in 1 .. Len(packets) :
       /\ PacketFrom(packets[j], m)
       /\ packets[j].gotThen = got[p]
       /\ ~broken[p] => Recent(packets[j].chunks, packets[j].born)

GoodConstruct(p, s, m) ==
  /\ s \in Seq(Chunk)
  /\ Len(s) <= MaxChunks
  /\ ChunksOf(s, m)
  /\ ~broken[p] => Recent(s, m)

LEMMA QueuedChunks ==
  ASSUME IInv, NEW p \in Peers, online[p], NEW cs \in Seq(Chunk), NEW m \in Nat,
         sent[p] <= m, m <= sent[p] + Len(cs), ChunksOf(cs, m),
         ~broken[p] => \A i \in 1 .. Len(cs) : cs[i].idx + BufferCap > m
  PROVE  /\ GoodPackets(p, FlushedBy(p, cs), m)
         /\ GoodConstruct(p, ConstructAfter(p, cs), m)
<1> DEFINE f == FlushedBy(p, cs)  rest == ConstructAfter(p, cs)
<1>1. /\ TypeOK /\ sent[p] \in Nat /\ Len(construct[p]) <= MaxChunks
      /\ ChunksOf(construct[p], sent[p]) /\ ack[p] = SeqOf(got[p])
      /\ ~broken[p] => Recent(construct[p], sent[p])
  BY EndFacts DEF EndInv, SenderInv, IInv
<1>2. ChunksOf(construct[p], m)
  BY <1>1, MoreMessages
<1>3. /\ f \in Seq(Packet) /\ rest \in Seq(Chunk)
      /\ Len(rest) <= MaxChunks /\ ChunksOf(rest, m)
      /\ \A j \in 1 .. Len(f) :
           PacketFrom(f[j], m) /\ f[j].born = sent[p] /\ f[j].gotThen = got[p]
  BY <1>1, <1>2, FlushedPackets
<1>4. ASSUME ~broken[p]
      PROVE  (\A j \in 1 .. Len(f) : Recent(f[j].chunks, sent[p])) /\ Recent(rest, m)
  BY <1>1, <1>4, FlushedRecent
<1> HIDE DEF f, rest
<1>5. GoodPackets(p, f, m) /\ GoodConstruct(p, rest, m)
  BY <1>3, <1>4 DEF GoodPackets, GoodConstruct
<1> QED BY <1>5 DEF f, rest

LEMMA OnePacket ==
  ASSUME IInv, NEW p \in Peers, online[p], NEW s, NEW flag \in BOOLEAN,
         GoodConstruct(p, s, sent[p])
  PROVE  GoodPackets(p, <<PacketOf(p, s, flag)>>, sent[p])
<1> DEFINE x == PacketOf(p, s, flag)
<1>1. x.ack = ack[p] /\ x.born = sent[p] /\ x.gotThen = got[p] /\ x.chunks = s
  BY PacketFields
<1>2. x \in Packet
  BY DEF PacketOf, Packet, GoodConstruct, IInv, TypeOK
<1>3. ack[p] = SeqOf(got[p]) /\ sent[p] \in Nat
  BY EndFacts DEF EndInv
<1> HIDE DEF x
<1>4. /\ PacketFrom(x, sent[p])
      /\ ~broken[p] => Recent(x.chunks, x.born)
  BY <1>1, <1>3 DEF PacketFrom, GoodConstruct
<1>5. /\ <<x>> \in Seq(Packet) /\ Len(<<x>>) = 1
      /\ \A j \in 1 .. 1 : <<x>>[j] = x
  BY <1>2
<1>6. GoodPackets(p, <<x>>, sent[p])
  BY <1>1, <1>4, <1>5 DEF GoodPackets
<1> QED BY <1>6 DEF x

(***************************************************************************)
(* A step of p that queues no message and takes in nothing: it may cut     *)
(* packets off the construct and what it resends.                          *)
(***************************************************************************)
LEMMA SendingPreserves ==
  ASSUME IInv, NEW p \in Peers, online[p], NEW packets, NEW rest,
         GoodPackets(p, packets, sent[p]), GoodConstruct(p, rest, sent[p]),
         net' = [net EXCEPT ![Other(p)] = Transmitted(Other(p), packets)],
         construct' = [construct EXCEPT ![p] = rest],
         resendFlag' \in [Peers -> BOOLEAN],
         UNCHANGED <<online, sequence, ack, peerAck, buffer, inbox, faults, history>>
  PROVE  IInv'
<1>1. PICK q \in Peers : q = Other(p) /\ q # p
  BY TwoPeers
<1>2. /\ net' \in [Peers -> Seq(Packet)]
      /\ \A packet \in Packets(net'[p]) : packet \in Packets(net[p])
      /\ \A packet \in Packets(net'[Other(p)]) :
           packet \in Packets(net[Other(p)]) \cup Packets(packets)
  BY NetSends DEF GoodPackets, IInv
<1>3. TypeOK'
  BY <1>2 DEF IInv, TypeOK, GoodConstruct, history
<1>4. construct'[p] = rest /\ construct'[q] = construct[q]
  BY <1>1 DEF IInv, TypeOK
<1>5. Keeps(Other(p))
  BY <1>1, <1>4 DEF Keeps, history
<1>6. EndInv(p)'
  BY <1>4, EndFacts DEF EndInv, GoodConstruct, history
<1>7. ~broken'[p] => SenderInv(p)'
  BY <1>4, EndFacts DEF SenderInv, TailInv, GoodConstruct, history
<1>8. ~broken[Other(p)] => got[p] <= got'[p] /\ ReceiverInv(p)'
  BY EndFacts DEF ReceiverInv, history
<1>9. \A j \in 1 .. Len(packets) :
        /\ PacketFrom(packets[j], sent'[p])
        /\ packets[j].gotThen <= got'[p]
        /\ ~broken'[p] => Recent(packets[j].chunks, packets[j].born)
  BY EndFacts DEF GoodPackets, history
<1>10. sent[p] <= sent'[p] /\ (broken[p] => broken'[p])
  BY EndFacts DEF history
<1>11. StepOf(p, packets)
  BY <1>2, <1>5, <1>6, <1>7, <1>8, <1>9, <1>10 DEF StepOf
<1> QED BY <1>3, <1>11, StepPreserves

\* The construct as it is.
LEMMA OldConstruct ==
  ASSUME IInv, NEW p \in Peers
  PROVE  GoodConstruct(p, construct[p], sent[p]) /\ GoodConstruct(p, <<>>, sent[p])
<1>1. GoodConstruct(p, construct[p], sent[p])
  BY EndFacts DEF EndInv, SenderInv, GoodConstruct
<1>2. <<>> \in Seq(Chunk) /\ Len(<<>>) = 0 /\ 1 .. 0 = {} /\ MaxChunks \in Nat
  BY EmptySeq, NetConnAssumption
<1>3. GoodConstruct(p, <<>>, sent[p])
  BY <1>2 DEF GoodConstruct, ChunksOf, Recent
<1> QED BY <1>1, <1>3

LEMMA FlushPreserves ==
  ASSUME IInv, NEW p \in Peers, Flush(p)
  PROVE  IInv'
<1> DEFINE packets == <<PacketOf(p, construct[p], resendFlag[p])>>
<1>1. /\ online[p]
      /\ net' = [net EXCEPT ![Other(p)] = Transmitted(Other(p), packets)]
      /\ construct' = [construct EXCEPT ![p] = <<>>]
      /\ resendFlag' = [resendFlag EXCEPT ![p] = FALSE]
      /\ UNCHANGED <<online, sequence, ack, peerAck, buffer, inbox, faults, history>>
  BY DEF Flush
<1>2. resendFlag[p] \in BOOLEAN /\ resendFlag' \in [Peers -> BOOLEAN]
  BY <1>1 DEF IInv, TypeOK
<1>3. GoodPackets(p, packets, sent[p])
  BY <1>1, <1>2, OldConstruct, OnePacket
<1> HIDE DEF packets
<1> QED BY <1>1, <1>2, <1>3, OldConstruct, SendingPreserves

\* The chunks of the resend buffer may be sent again at any time.
LEMMA BufferChunks ==
  ASSUME IInv, NEW p \in Peers, online[p]
  PROVE  /\ ChunksOf(buffer[p], sent[p])
         /\ ~broken[p] => \A i \in 1 .. Len(buffer[p]) : buffer[p][i].idx + BufferCap > sent[p]
<1>1. ChunksOf(buffer[p], sent[p]) /\ Len(buffer[p]) <= BufferCap
  BY EndFacts DEF EndInv
<1>2. Len(buffer[p]) \in Nat /\ sent[p] \in Nat /\ BufferCap \in Nat
  BY EndFacts, NetConnAssumption
<1>3. ASSUME ~broken[p], NEW i \in 1 .. Len(buffer[p])
      PROVE  buffer[p][i].idx + BufferCap > sent[p]
  <2>1. buffer[p][i].idx = sent[p] - Len(buffer[p]) + i
    BY <1>3, EndFacts DEF SenderInv, TailInv
  <2> QED BY <2>1, <1>1, <1>2
<1> QED BY <1>1, <1>3

LEMMA UpdatePreserves ==
  ASSUME IInv, NEW p \in Peers, NEW resendDue \in BOOLEAN, NEW sendDue \in BOOLEAN,
         Update(p, resendDue, sendDue)
  PROVE  IInv'
<1> DEFINE oldest == IF resendDue THEN <<Head(buffer[p])>> ELSE <<>>
           rest == ConstructAfter(p, oldest)
<1>1. /\ online[p]
      /\ resendDue => buffer[p] # <<>>
      /\ UNCHANGED <<online, sequence, ack, peerAck, buffer, inbox, faults, history>>
  BY DEF Update
<1>2. sent[p] \in Nat /\ resendFlag[p] \in BOOLEAN
  BY DEF IInv, TypeOK
<1>3. /\ oldest \in Seq(Chunk) /\ Len(oldest) \in Nat /\ ChunksOf(oldest, sent[p])
      /\ ~broken[p] => \A i \in 1 .. Len(oldest) : oldest[i].idx + BufferCap > sent[p]
  <2>1. CASE resendDue
    <3>1. /\ buffer[p] \in Seq(Chunk) /\ Len(buffer[p]) \in Nat /\ Len(buffer[p]) > 0
      BY <1>1, <2>1, EndFacts, EmptySeq
    <3>2. Head(buffer[p]) = buffer[p][1] /\ 1 \in 1 .. Len(buffer[p])
      BY <3>1
    <3>3. buffer[p][1] \in Chunk
      BY <3>1, <3>2, ElementOfSeq
    <3>4. oldest = <<buffer[p][1]>>
      BY <2>1, <3>2
    <3>5. oldest \in Seq(Chunk) /\ Len(oldest) = 1 /\ oldest[1] = buffer[p][1]
      BY <3>3, <3>4
    <3> QED BY <1>1, <3>2, <3>5, BufferChunks DEF ChunksOf
  <2>2. CASE ~resendDue
    <3>1. oldest = <<>> /\ <<>> \in Seq(Chunk) /\ Len(<<>>) = 0 /\ 1 .. 0 = {}
      BY <2>2, EmptySeq
    <3> QED BY <3>1 DEF ChunksOf
  <2> QED BY <2>1, <2>2
<1> HIDE DEF oldest
<1>4. /\ GoodPackets(p, FlushedBy(p, oldest), sent[p])
      /\ GoodConstruct(p, rest, sent[p])
  BY <1>1, <1>2, <1>3, QueuedChunks
<1> HIDE DEF rest
<1>5. CASE sendDue /\ NumFlushed(p, oldest) = 0
  <2> DEFINE packets == <<PacketOf(p, rest, resendFlag[p])>>
  <2>1. /\ net' = [net EXCEPT ![Other(p)] = Transmitted(Other(p), packets)]
        /\ construct' = [construct EXCEPT ![p] = <<>>]
        /\ resendFlag' = [resendFlag EXCEPT ![p] = FALSE]
    BY <1>5 DEF Update, oldest, rest
  <2>2. resendFlag' \in [Peers -> BOOLEAN]
    BY <2>1 DEF IInv, TypeOK
  <2>3. GoodPackets(p, packets, sent[p])
    BY <1>1, <1>2, <1>4, OnePacket
  <2> HIDE DEF packets
  <2> QED BY <1>1, <2>1, <2>2, <2>3, OldConstruct, SendingPreserves
<1>6. CASE ~(sendDue /\ NumFlushed(p, oldest) = 0)
  <2> DEFINE packets == FlushedBy(p, oldest)
  <2>1. /\ net' = [net EXCEPT ![Other(p)] = Transmitted(Other(p), packets)]
        /\ construct' = [construct EXCEPT ![p] = rest]
        /\ resendFlag' = [resendFlag EXCEPT ![p] = FlagAfter(p, oldest)]
    BY <1>6 DEF Update, QueueChunkEx, oldest, rest
  <2>2. FlagAfter(p, oldest) \in BOOLEAN
    BY DEF FlagAfter, IInv, TypeOK
  <2>3. resendFlag' \in [Peers -> BOOLEAN]
    BY <2>1, <2>2 DEF IInv, TypeOK
  <2> HIDE DEF packets
  <2>4. GoodPackets(p, packets, sent[p])
    BY <1>4 DEF packets
  <2> QED BY <1>1, <1>4, <2>1, <2>3, <2>4, SendingPreserves
<1> QED BY <1>5, <1>6

LEMMA QueueChunkPreserves ==
  ASSUME IInv, NEW p \in Peers, QueueChunk(p)
  PROVE  IInv'
<1> DEFINE m == sent[p] + 1
           chunk == [seq |-> NextSeq(sequence[p]), idx |-> m]
           cs == <<chunk>>
           saved == Len(buffer[p]) < BufferCap
           packets == FlushedBy(p, cs)
           rest == ConstructAfter(p, cs)
<1>1. PICK q \in Peers : q = Other(p) /\ q # p
  BY TwoPeers
<1>2. /\ online[p]
      /\ sequence' = [sequence EXCEPT ![p] = NextSeq(sequence[p])]
      /\ construct' = [construct EXCEPT ![p] = rest]
      /\ resendFlag' = [resendFlag EXCEPT ![p] = FlagAfter(p, cs)]
      /\ net' = [net EXCEPT ![Other(p)] = Transmitted(Other(p), packets)]
      /\ buffer' = IF saved THEN [buffer EXCEPT ![p] = Append(@, chunk)] ELSE buffer
      /\ broken' = [broken EXCEPT ![p] = @ \/ ~saved]
      /\ sent' = [sent EXCEPT ![p] = m]
      /\ UNCHANGED <<online, ack, peerAck, inbox, faults, got>>
  BY DEF QueueChunk, QueueChunkEx
<1>3. /\ sent[p] \in Nat /\ m \in Nat /\ m = sent[p] + 1
      /\ sequence[p] = SeqOf(sent[p]) /\ ack[p] = SeqOf(got[p])
      /\ BufferCap \in Nat /\ BufferCap > 0
      /\ buffer[p] \in Seq(Chunk) /\ Len(buffer[p]) \in Nat
  BY <1>2, EndFacts, NetConnAssumption DEF EndInv
<1>4. NextSeq(sequence[p]) = SeqOf(m) /\ SeqOf(m) \in SeqNumber
  <2>1. NextSeq(SeqOf(sent[p])) = SeqOf(sent[p] + 1)
    BY <1>3, NextSeqOf
  <2>2. SeqOf(m) \in SeqNumber
    BY <1>3, SeqOfType
  <2> QED BY <2>1, <2>2, <1>3
<1>5. chunk \in Chunk /\ chunk.seq = SeqOf(m) /\ chunk.idx = m
  BY <1>3, <1>4 DEF Chunk
<1> HIDE DEF chunk, m
<1>6. cs \in Seq(Chunk) /\ Len(cs) = 1 /\ cs[1] = chunk
  BY <1>5
<1>7. ChunkOf(chunk, m)
  BY <1>3, <1>5 DEF ChunkOf
<1>8. /\ ChunksOf(cs, m)
      /\ \A i \in 1 .. Len(cs) : cs[i].idx + BufferCap > m
  BY <1>3, <1>5, <1>6, <1>7 DEF ChunksOf
<1> HIDE DEF cs
<1>9. GoodPackets(p, packets, m) /\ GoodConstruct(p, rest, m)
  <2>1. sent[p] <= m /\ m <= sent[p] + Len(cs)
    BY <1>3, <1>6
  <2> HIDE DEF packets, rest, saved
  <2>2. GoodPackets(p, FlushedBy(p, cs), m) /\ GoodConstruct(p, ConstructAfter(p, cs), m)
    BY <2>1, <1>2, <1>3, <1>6, <1>8, QueuedChunks
  <2> QED BY <2>2 DEF packets, rest
<1> HIDE DEF packets, rest
<1>10. /\ net' \in [Peers -> Seq(Packet)]
       /\ \A packet \in Packets(net'[p]) : packet \in Packets(net[p])
       /\ \A packet \in Packets(net'[Other(p)]) :
            packet \in Packets(net[Other(p)]) \cup Packets(packets)
  BY <1>2, <1>9, NetSends DEF GoodPackets, IInv
<1>11. FlagAfter(p, cs) \in BOOLEAN
  BY DEF FlagAfter, IInv, TypeOK
<1>12. Append(buffer[p], chunk) \in Seq(Chunk)
  BY <1>3, <1>5
<1>13. buffer' \in [Peers -> Seq(Chunk)]
  BY <1>2, <1>12 DEF IInv, TypeOK
<1>14. broken' \in [Peers -> BOOLEAN]
  BY <1>2 DEF IInv, TypeOK
<1>15. TypeOK'
  <2>1. TypeOK
    BY DEF IInv
  <2>2. /\ online' \in [Peers -> BOOLEAN] /\ ack' \in [Peers -> SeqNumber]
        /\ peerAck' \in [Peers -> SeqNumber] /\ inbox' \in [Peers -> Seq(Chunk)]
        /\ faults' \in Nat /\ got' \in [Peers -> Nat]
    BY <2>1, <1>2 DEF TypeOK
  <2>3. sequence' \in [Peers -> SeqNumber]
    BY <2>1, <1>2, <1>4 DEF TypeOK
  <2>4. construct' \in [Peers -> Seq(Chunk)]
    BY <2>1, <1>2, <1>9 DEF TypeOK, GoodConstruct
  <2>5. resendFlag' \in [Peers -> BOOLEAN]
    BY <2>1, <1>2, <1>11 DEF TypeOK
  <2>6. sent' \in [Peers -> Nat]
    BY <2>1, <1>2, <1>3 DEF TypeOK
  <2> QED BY <2>2, <2>3, <2>4, <2>5, <2>6, <1>11, <1>13, <1>14, <1>10 DEF TypeOK
<1>16. /\ construct'[p] = rest /\ sent'[p] = m /\ sequence'[p] = SeqOf(m)
       /\ buffer'[p] = IF saved THEN Append(buffer[p], chunk) ELSE buffer[p]
       /\ construct'[q] = construct[q] /\ sent'[q] = sent[q] /\ sequence'[q] = sequence[q]
       /\ buffer'[q] = buffer[q] /\ broken'[q] = broken[q]
  BY <1>1, <1>2, <1>4 DEF IInv, TypeOK
<1> HIDE DEF saved
<1>25. (broken[p] => broken'[p]) /\ (~broken'[p] => ~broken[p] /\ saved)
  <2>1. broken[p] \in BOOLEAN /\ p \in DOMAIN broken
    BY DEF IInv, TypeOK
  <2>2. broken'[p] = (broken[p] \/ ~saved)
    BY <1>2, <2>1, Zenon
  <2> QED BY <2>2, Zenon
<1>17. Keeps(Other(p))
  BY <1>1, <1>2, <1>16 DEF Keeps
<1>18. /\ saved => /\ Len(buffer'[p]) = Len(buffer[p]) + 1
                   /\ \A i \in 1 .. Len(buffer[p]) + 1 :
                        buffer'[p][i] = IF i <= Len(buffer[p]) THEN buffer[p][i] ELSE chunk
       /\ ~saved => buffer'[p] = buffer[p]
  BY <1>3, <1>5, <1>16, AppendProperties
<1>19. EndInv(p)'
  <2>1. ChunksOf(buffer[p], m) /\ ChunksOf(inbox[p], sent[Other(p)]) /\ EndInv(p)
    BY <1>3, EndFacts, MoreMessages DEF EndInv
  <2>2. Len(buffer'[p]) <= BufferCap
    <3>1. CASE saved
      BY <3>1, <1>3, <1>18 DEF saved
    <3>2. CASE ~saved
      BY <3>2, <2>1, <1>18 DEF EndInv
    <3> QED BY <3>1, <3>2
  <2>3. ChunksOf(buffer'[p], m)
    <3>1. CASE saved
      BY <3>1, <2>1, <1>3, <1>7, <1>18, SMTT(30) DEF ChunksOf
    <3>2. CASE ~saved
      BY <3>2, <2>1, <1>18
    <3> QED BY <3>1, <3>2
  <2> QED BY <2>1, <2>2, <2>3, <1>1, <1>2, <1>9, <1>16 DEF EndInv, GoodConstruct
<1>20. ASSUME ~broken'[p] PROVE SenderInv(p)'
  <2>1. ~broken[p] /\ saved
    BY <1>25, <1>20
  <2>2. SenderInv(p) /\ TailInv(p)
    BY <2>1, <1>2, EndFacts DEF SenderInv
  <2>3. Other(p) \in Peers /\ got[Other(p)] \in Nat
    BY TwoPeers DEF IInv, TypeOK
  <2>4. /\ Len(buffer'[p]) = Len(buffer[p]) + 1
        /\ m - Len(buffer'[p]) = sent[p] - Len(buffer[p])
    <3>1. Len(buffer'[p]) = Len(buffer[p]) + 1
      BY <2>1, <1>18, Zenon
    <3> QED BY <3>1, <1>3
  <2>5. \A i \in 1 .. Len(buffer'[p]) :
          buffer'[p][i].idx = m - Len(buffer'[p]) + i
    <3> SUFFICES ASSUME NEW i \in 1 .. Len(buffer'[p])
                 PROVE  buffer'[p][i].idx = m - Len(buffer'[p]) + i
      OBVIOUS
    <3>1. i \in 1 .. Len(buffer[p]) + 1
      BY <2>4
    <3>2. CASE i <= Len(buffer[p])
      <4>1. i \in 1 .. Len(buffer[p]) /\ buffer'[p][i] = buffer[p][i]
        BY <3>1, <3>2, <2>1, <1>3, <1>18
      <4>2. buffer[p][i].idx = sent[p] - Len(buffer[p]) + i
        BY <4>1, <2>2 DEF TailInv
      <4> QED BY <4>1, <4>2, <2>4
    <3>3. CASE i = Len(buffer[p]) + 1
      <4>1. buffer'[p][i] = chunk
        BY <3>1, <3>3, <2>1, <1>3, <1>18
      <4> QED BY <4>1, <3>3, <2>4, <1>3, <1>5
    <3> QED BY <3>1, <3>2, <3>3, <1>3
  <2>6. TailInv(p)'
    BY <2>2, <2>4, <2>5, <1>2, <1>3, <1>16 DEF TailInv
  <2>7. m <= got[Other(p)] + BufferCap
    BY <2>1, <2>2, <2>3, <1>3 DEF TailInv, saved
  <2>8. Recent(rest, m)
    BY <2>1, <1>9 DEF GoodConstruct
  <2> QED BY <2>6, <2>7, <2>8, <1>2, <1>16 DEF SenderInv
<1>21. ~broken[Other(p)] => got[p] <= got'[p] /\ ReceiverInv(p)'
  BY <1>2, EndFacts DEF ReceiverInv
<1>22. \A j \in 1 .. Len(packets) :
        /\ PacketFrom(packets[j], sent'[p])
        /\ packets[j].gotThen <= got'[p]
        /\ ~broken'[p] => Recent(packets[j].chunks, packets[j].born)
  BY <1>2, <1>9, <1>16, <1>25, EndFacts DEF GoodPackets
<1>23. sent[p] <= sent'[p] /\ (broken[p] => broken'[p])
  BY <1>3, <1>16, <1>25
<1>24. StepOf(p, packets)
  BY <1>10, <1>17, <1>19, <1>20, <1>21, <1>22, <1>23 DEF StepOf
<1> QED BY <1>15, <1>24, StepPreserves

-----------------------------------------------------------------------------
(***************************************************************************)
(* Steps that send nothing.                                                *)
(***************************************************************************)
QuietStep(p) ==
  /\ Keeps(Other(p))
  /\ sent'[p] = sent[p] /\ broken'[p] = broken[p]
  /\ ~broken[Other(p)] => got[p] <= got'[p] /\ ReceiverInv(p)'
  /\ EndInv(p)'
  /\ ~broken[p] => SenderInv(p)'
  /\ \A packet \in Packets(net'[p]) : packet \in Packets(net[p])
  /\ net'[Other(p)] = net[Other(p)]

LEMMA QuietPreserves ==
  ASSUME IInv, TypeOK', NEW p \in Peers, QuietStep(p)
  PROVE  IInv'
<1>1. sent[p] \in Nat
  BY DEF IInv, TypeOK
<1>2. Len(<<>>) = 0 /\ 1 .. 0 = {}
  BY EmptySeq
<1>3. StepOf(p, <<>>)
  BY <1>1, <1>2 DEF QuietStep, StepOf
<1> QED BY <1>3, StepPreserves

LEMMA TimeoutPreserves ==
  ASSUME IInv, NEW p \in Peers, Timeout(p)
  PROVE  IInv'
<1>1. PICK q \in Peers : q = Other(p) /\ q # p
  BY TwoPeers
<1>2. /\ <<>> \in Seq(Chunk) /\ Len(<<>>) = 0 /\ 1 .. 0 = {} /\ 0 \in SeqNumber
      /\ BufferCap \in Nat /\ MaxChunks \in Nat
  BY EmptySeq, SequenceAssumption, NetConnAssumption DEF SeqNumber
<1>3. TypeOK'
  BY <1>2 DEF Timeout, IInv, TypeOK, history
<1>4. Keeps(Other(p))
  BY <1>1 DEF Timeout, IInv, TypeOK, Keeps, history
<1>5. /\ online'[p] = FALSE /\ buffer'[p] = <<>> /\ construct'[p] = <<>>
      /\ inbox' = inbox /\ net' = net /\ sent' = sent /\ got' = got /\ broken' = broken
  BY DEF Timeout, IInv, TypeOK, history
<1>6. EndInv(p)'
  BY <1>2, <1>5, EndFacts DEF EndInv, ChunksOf
<1>7. ~broken[p] => SenderInv(p)'
  BY <1>2, <1>5, EndFacts DEF SenderInv, Recent
<1>8. ~broken[Other(p)] => got[p] <= got'[p] /\ ReceiverInv(p)'
  <2>1. inbox'[p] = inbox[p] /\ got'[p] = got[p] /\ got[p] \in Nat
    BY <1>5, EndFacts
  <2>2. ~broken[Other(p)] => ReceiverInv(p)
    BY EndFacts
  <2> QED BY <2>1, <2>2 DEF ReceiverInv
<1>9. QuietStep(p)
  BY <1>4, <1>5, <1>6, <1>7, <1>8 DEF QuietStep
<1> QED BY <1>3, <1>9, QuietPreserves

\* A packet that is lost or expires leaves the others.
LEMMA LossPreserves ==
  ASSUME IInv, NEW p \in Peers, NEW i \in 1 .. Len(net[p]),
         net' = [net EXCEPT ![p] = RemoveAt(@, i)],
         faults' \in Nat, UNCHANGED <<connVars, history>>
  PROVE  IInv'
<1>1. PICK q \in Peers : q = Other(p) /\ q # p
  BY TwoPeers
<1>2. /\ RemoveAt(net[p], i) \in Seq(Packet)
      /\ \A j \in 1 .. Len(RemoveAt(net[p], i)) : RemoveAt(net[p], i)[j] \in Packets(net[p])
  BY RemainingPackets DEF IInv
<1>3. TypeOK'
  BY <1>2 DEF IInv, TypeOK, connVars, history
<1>4. net'[p] = RemoveAt(net[p], i) /\ net'[q] = net[q]
  BY <1>1 DEF IInv, TypeOK
<1>5. \A packet \in Packets(net'[p]) : packet \in Packets(net[p])
  BY <1>2, <1>4 DEF Packets
<1>6. Keeps(Other(p)) /\ sent'[p] = sent[p] /\ broken'[p] = broken[p]
  BY DEF Keeps, connVars, history
<1>7. EndInv(p)'
  BY EndFacts DEF EndInv, connVars, history
<1>8. ~broken[p] => SenderInv(p)'
  BY EndFacts DEF SenderInv, TailInv, connVars, history
<1>9. ~broken[Other(p)] => got[p] <= got'[p] /\ ReceiverInv(p)'
  BY EndFacts DEF ReceiverInv, connVars, history
<1>10. QuietStep(p)
  BY <1>1, <1>4, <1>5, <1>6, <1>7, <1>8, <1>9 DEF QuietStep
<1> QED BY <1>3, <1>10, QuietPreserves

LEMMA FetchNothingPreserves ==
  ASSUME IInv, NEW p \in Peers, FetchNothing(p)
  PROVE  IInv'
<1>1. PICK q \in Peers : q = Other(p) /\ q # p
  BY TwoPeers
<1>2. <<>> \in Seq(Chunk) /\ Len(<<>>) = 0 /\ 1 .. 0 = {}
  BY EmptySeq
<1>3. /\ inbox' = [inbox EXCEPT ![p] = <<>>]
      /\ UNCHANGED <<online, sequence, ack, peerAck, buffer, construct, net, faults, history>>
  BY DEF FetchNothing
<1>4. resendFlag' \in [Peers -> BOOLEAN]
  <2>1. (resendFlag[p] \/ \E j \in 1 .. Len(inbox[p]) : AsksResend(p, inbox[p][j])) \in BOOLEAN
    BY Zenon
  <2> QED BY <2>1 DEF FetchNothing, IInv, TypeOK
<1>5. TypeOK'
  BY <1>2, <1>3, <1>4 DEF IInv, TypeOK, history
<1>6. inbox'[p] = <<>> /\ inbox'[q] = inbox[q]
  BY <1>1, <1>3 DEF IInv, TypeOK
<1>7. Keeps(Other(p)) /\ sent'[p] = sent[p] /\ broken'[p] = broken[p]
  BY <1>1, <1>3, <1>6 DEF Keeps, history
<1>8. EndInv(p)'
  BY <1>2, <1>3, <1>6, EndFacts DEF EndInv, ChunksOf, history
<1>9. ~broken[p] => SenderInv(p)'
  BY <1>3, EndFacts DEF SenderInv, TailInv, history
<1>10. ~broken[Other(p)] => got[p] <= got'[p] /\ ReceiverInv(p)'
  BY <1>2, <1>3, <1>6, EndFacts DEF ReceiverInv, history
<1>11. QuietStep(p)
  BY <1>3, <1>7, <1>8, <1>9, <1>10 DEF QuietStep
<1> QED BY <1>5, <1>11, QuietPreserves

(***************************************************************************)
(* What FetchChunk takes is the next message, when the sender's buffer     *)
(* never overflowed: its number is near enough to the expected one that    *)
(* equal sequence numbers mean the same message.                           *)
(***************************************************************************)
LEMMA FetchedIsNext ==
  ASSUME IInv, NEW p \in Peers, online[p], NEW k \in 1 .. Len(inbox[p]),
         inbox[p][k].seq = NextSeq(ack[p])
  PROVE  /\ inbox[p][k].idx \in 1 .. sent[Other(p)]
         /\ inbox[p][k].seq = SeqOf(inbox[p][k].idx)
         /\ ~broken[Other(p)] => inbox[p][k].idx = got[p] + 1
<1> DEFINE q == Other(p)  x == inbox[p][k].idx
<1>1. /\ ChunkOf(inbox[p][k], sent[q]) /\ ack[p] = SeqOf(got[p])
      /\ got[p] \in Nat /\ Len(inbox[p]) \in Nat
  BY EndFacts DEF EndInv, ChunksOf
<1>2. sent[q] \in Nat /\ q \in Peers /\ Other(q) = p
  BY TwoPeers DEF IInv, TypeOK
<1>3. x \in 1 .. sent[q] /\ inbox[p][k].seq = SeqOf(x)
  BY <1>1 DEF ChunkOf
<1>4. SeqOf(x) = SeqOf(got[p] + 1)
  <2>1. NextSeq(SeqOf(got[p])) = SeqOf(got[p] + 1)
    BY <1>1, NextSeqOf
  <2> QED BY <2>1, <1>1, <1>3
<1>5. ASSUME ~broken[q] PROVE x = got[p] + 1
  <2>1. sent[q] <= got[p] + BufferCap
    BY <1>2, <1>5, EndFacts DEF SenderInv
  <2>2. x + BufferCap + Lifetime + MaxChunks - k > got[p]
    BY <1>5, EndFacts DEF ReceiverInv
  <2>3. /\ BufferCap \in Nat /\ Lifetime \in Nat /\ MaxChunks \in Nat /\ MaxSequence \in Nat
        /\ BufferCap + Lifetime + MaxChunks < MaxSequence
    BY NetConnAssumption, SequenceAssumption, WindowAssumption
  <2> HIDE DEF x, q
  <2>4. /\ x \in Int /\ got[p] + 1 \in Int
        /\ x - (got[p] + 1) < MaxSequence /\ (got[p] + 1) - x < MaxSequence
    <3> DEFINE g == got[p]  s == sent[q]  limit == BufferCap + Lifetime + MaxChunks
    <3>1. /\ g \in Nat /\ s \in Nat /\ x \in Nat /\ k \in Nat /\ k >= 1 /\ x <= s
      BY <1>1, <1>2, <1>3
    <3>2. /\ limit \in Nat /\ BufferCap \in Nat /\ BufferCap <= limit
          /\ MaxSequence \in Nat /\ limit < MaxSequence
      BY <2>3
    <3>3. s <= g + BufferCap /\ x + limit - k > g
      BY <2>1, <2>2, <2>3, <3>1
    <3> HIDE DEF g, s, limit
    <3>4. /\ x \in Int /\ g + 1 \in Int
          /\ x - (g + 1) < MaxSequence /\ (g + 1) - x < MaxSequence
      BY <3>1, <3>2, <3>3
    <3> QED BY <3>4 DEF g
  <2>5. x % MaxSequence = (got[p] + 1) % MaxSequence
    BY <1>4 DEF SeqOf
  <2> QED BY <2>4, <2>5, SameRemainder
<1> QED BY <1>3, <1>5

LEMMA FetchChunkPreserves ==
  ASSUME IInv, NEW p \in Peers, FetchChunk(p)
  PROVE  IInv'
<1>1. PICK q \in Peers : q = Other(p) /\ q # p
  BY TwoPeers
<1>2. PICK k \in 1 .. Len(inbox[p]) :
        /\ inbox[p][k].seq = NextSeq(ack[p])
        /\ ack' = [ack EXCEPT ![p] = inbox[p][k].seq]
        /\ got' = [got EXCEPT ![p] = inbox[p][k].idx]
        /\ inbox' = [inbox EXCEPT ![p] = SubSeq(@, k + 1, Len(@))]
        /\ resendFlag' = [resendFlag EXCEPT ![p] =
             @ \/ \E j \in 1 .. k - 1 : AsksResend(p, inbox[p][j])]
  BY DEF FetchChunk
<1>3. /\ online[p]
      /\ UNCHANGED <<online, sequence, peerAck, buffer, construct, net, faults, sent, broken>>
  BY DEF FetchChunk
<1> DEFINE x == inbox[p][k].idx  rest == SubSeq(inbox[p], k + 1, Len(inbox[p]))
<1>4. /\ x \in 1 .. sent[q] /\ inbox[p][k].seq = SeqOf(x)
      /\ ~broken[q] => x = got[p] + 1
  BY <1>1, <1>2, <1>3, FetchedIsNext
<1>5. /\ inbox[p] \in Seq(Chunk) /\ Len(inbox[p]) \in Nat /\ got[p] \in Nat
      /\ ChunksOf(inbox[p], sent[q]) /\ EndInv(p)
  BY <1>1, EndFacts DEF EndInv
<1>6. sent[q] \in Nat
  BY DEF IInv, TypeOK
<1>7. /\ rest \in Seq(Chunk) /\ Len(rest) = Len(inbox[p]) - k
      /\ \A j \in 1 .. Len(inbox[p]) - k : rest[j] = inbox[p][k + j]
  BY <1>5, Segment
<1>8. SeqOf(x) \in SeqNumber /\ x \in Nat
  BY <1>4, <1>6, SeqOfType
<1> HIDE DEF x, rest
<1>9. resendFlag' \in [Peers -> BOOLEAN]
  <2>1. (resendFlag[p] \/ \E j \in 1 .. k - 1 : AsksResend(p, inbox[p][j])) \in BOOLEAN
    BY Zenon
  <2> QED BY <2>1, <1>2 DEF IInv, TypeOK
<1>10. /\ ack' = [ack EXCEPT ![p] = SeqOf(x)] /\ got' = [got EXCEPT ![p] = x]
       /\ inbox' = [inbox EXCEPT ![p] = rest]
  BY <1>2, <1>4 DEF x, rest
<1>11. TypeOK'
  BY <1>3, <1>7, <1>8, <1>9, <1>10 DEF IInv, TypeOK
<1>12. /\ ack'[p] = SeqOf(x) /\ got'[p] = x /\ inbox'[p] = rest
       /\ ack'[q] = ack[q] /\ got'[q] = got[q] /\ inbox'[q] = inbox[q]
  BY <1>1, <1>10 DEF IInv, TypeOK
<1>13. Keeps(Other(p)) /\ sent'[p] = sent[p] /\ broken'[p] = broken[p]
  BY <1>1, <1>3, <1>12 DEF Keeps
<1>14. EndInv(p)'
  <2>1. ChunksOf(rest, sent[q])
    <3> SUFFICES ASSUME NEW j \in 1 .. Len(rest) PROVE ChunkOf(rest[j], sent[q])
      BY DEF ChunksOf
    <3>1. k + j \in 1 .. Len(inbox[p]) /\ rest[j] = inbox[p][k + j]
      BY <1>5, <1>7
    <3> QED BY <3>1, <1>5 DEF ChunksOf
  <2> QED BY <2>1, <1>1, <1>3, <1>4, <1>5, <1>6, <1>12 DEF EndInv
<1>15. ~broken[p] => SenderInv(p)'
  BY <1>1, <1>3, <1>12, EndFacts DEF SenderInv, TailInv
<1>16. ASSUME ~broken[q] PROVE got[p] <= got'[p] /\ ReceiverInv(p)'
  <2>1. x = got[p] + 1
    BY <1>4, <1>16
  <2>2. ReceiverInv(p)
    BY <1>1, <1>16, EndFacts
  <2>3. ASSUME NEW j \in 1 .. Len(rest)
        PROVE  rest[j].idx + BufferCap + Lifetime + MaxChunks - j > x
    <3>1. k + j \in 1 .. Len(inbox[p]) /\ rest[j] = inbox[p][k + j]
      BY <1>5, <1>7
    <3>2. rest[j].idx + BufferCap + Lifetime + MaxChunks - (k + j) > got[p]
      BY <3>1, <2>2 DEF ReceiverInv
    <3>3. rest[j].idx \in Nat
      BY <3>1, <1>5, <1>6 DEF ChunksOf, ChunkOf
    <3>4. BufferCap \in Nat /\ Lifetime \in Nat /\ MaxChunks \in Nat /\ j \in Nat /\ k \in Nat /\ k >= 1
      BY <1>5, <1>7, NetConnAssumption
    <3> DEFINE y == rest[j].idx
    <3> HIDE DEF y
    <3>5. y + BufferCap + Lifetime + MaxChunks - (k + j) > got[p] /\ y \in Nat
      BY <3>2, <3>3 DEF y
    <3>6. y + BufferCap + Lifetime + MaxChunks - j > x
      BY <3>4, <3>5, <2>1, <1>5
    <3> QED BY <3>6 DEF y
  <2> QED BY <2>1, <2>3, <1>5, <1>12 DEF ReceiverInv
<1>17. QuietStep(p)
  BY <1>1, <1>3, <1>13, <1>14, <1>15, <1>16 DEF QuietStep
<1> QED BY <1>11, <1>17, QuietPreserves

-----------------------------------------------------------------------------
(***************************************************************************)
(* Feed.                                                                   *)
(***************************************************************************)
\* A resend that a packet asks for sends chunks of the stream.
LEMMA ResendGood ==
  ASSUME IInv, NEW p \in Peers, online[p], NEW packet
  PROVE  /\ GoodPackets(p, FeedSends(p, packet), sent[p])
         /\ GoodConstruct(p, ConstructAfter(p, buffer[p]), sent[p])
<1>1. /\ sent[p] \in Nat /\ buffer[p] \in Seq(Chunk) /\ Len(buffer[p]) \in Nat
  BY EndFacts
<1>2. sent[p] <= sent[p] /\ sent[p] <= sent[p] + Len(buffer[p])
  BY <1>1
<1>3. /\ GoodPackets(p, FlushedBy(p, buffer[p]), sent[p])
      /\ GoodConstruct(p, ConstructAfter(p, buffer[p]), sent[p])
  BY <1>1, <1>2, BufferChunks, QueuedChunks
<1>4. GoodPackets(p, <<>>, sent[p])
  <2>1. <<>> \in Seq(Packet) /\ Len(<<>>) = 0 /\ 1 .. 0 = {}
    BY EmptySeq
  <2> QED BY <2>1 DEF GoodPackets
<1>5. FeedSends(p, packet) = FlushedBy(p, buffer[p]) \/ FeedSends(p, packet) = <<>>
  BY DEF FeedSends
<1> QED BY <1>3, <1>4, <1>5

(***************************************************************************)
(* An ack that passes the window removes exactly the chunks whose messages *)
(* the peer's application had when it sent the packet.  The ack is not     *)
(* older than the last one accepted (AckWindowSound), and no further       *)
(* behind m_Sequence than half the sequence space.                         *)
(***************************************************************************)
LEMMA AckRemoves ==
  ASSUME IInv, NEW p \in Peers, online[p], ~broken[p],
         NEW packet \in Packets(net[p]), Fresh(p, packet),
         AckInWindow(sequence[p], peerAck[p], packet.ack),
         NEW n \in AckedCounts(buffer[p], packet.ack)
  PROVE  /\ packet.ack = SeqOf(packet.gotThen)
         /\ packet.gotThen \in Nat /\ packet.gotThen <= got[Other(p)]
         /\ n = packet.gotThen - (sent[p] - Len(buffer[p]))
<1> DEFINE q == Other(p)  g == packet.gotThen  c == Len(buffer[p])  s == sent[p]
           base == s - c
<1>1. q \in Peers /\ Other(q) = p
  BY TwoPeers
<1>2. SenderInv(p) /\ TailInv(p)
  BY EndFacts DEF SenderInv
<1>3. /\ packet.ack = SeqOf(g) /\ g <= got[q]
  BY <1>1 DEF IInv, StreamInv, WindowInv, PacketFrom
<1>4. g \in Nat
  <2>1. PICK i \in 1 .. Len(net[p]) : packet = net[p][i]
    BY DEF Packets
  <2>2. packet \in Packet
    BY <2>1, EndFacts, ElementOfSeq
  <2> QED BY <2>2 DEF Packet
<1>5. /\ s \in Nat /\ c \in Nat /\ got[q] \in Nat
      /\ got[q] - g <= Lifetime /\ got[q] <= s
      /\ c <= BufferCap /\ c <= s /\ s <= got[q] + BufferCap
      /\ sequence[p] = SeqOf(s) /\ peerAck[p] = SeqOf(base)
  <2>1. got[q] \in Nat /\ got[q] <= s
    BY <1>1, EndFacts DEF EndInv
  <2> QED BY <2>1, <1>2, EndFacts DEF Fresh, SenderInv, TailInv, EndInv
<1>6. /\ BufferCap \in Nat /\ Lifetime \in Nat /\ MaxChunks \in Nat /\ MaxSequence \in Nat
      /\ BufferCap + Lifetime + MaxChunks < MaxSequence
      /\ BufferCap < MaxSequence \div 2 /\ MaxSequence \div 2 \in Nat /\ MaxChunks > 0
  BY NetConnAssumption, SequenceAssumption, WindowAssumption
<1>7. \A i \in 1 .. c : buffer[p][i].seq = SeqOf(base + i)
  <2>1. \A i \in 1 .. c : buffer[p][i].seq = SeqOf(buffer[p][i].idx)
    BY EndFacts DEF EndInv, ChunksOf, ChunkOf
  <2> QED BY <2>1, <1>2 DEF TailInv
<1>8. /\ n \in 0 .. c
      /\ \A i \in 1 .. n : IsSeqInBackroom(buffer[p][i].seq, SeqOf(g))
      /\ n < c => ~IsSeqInBackroom(buffer[p][n + 1].seq, SeqOf(g))
  BY <1>3 DEF AckedCounts
<1>9. AckInWindow(SeqOf(s), SeqOf(base), SeqOf(g))
  BY <1>3, <1>5
<1> HIDE DEF q, g, c, s, base
<1>10. base \in Int /\ base = s - c
  BY <1>5 DEF base
<1>11. base <= g
  <2>1. /\ base <= s /\ g <= s /\ s - g < MaxSequence /\ s - base < MaxSequence
        /\ s \in Int /\ base \in Int /\ g \in Int
    BY <1>3, <1>4, <1>5, <1>6, <1>10
  <2> QED BY <2>1, <1>9, AckWindowSound
<1>12. n <= g - base
  <2> SUFFICES ASSUME n > g - base PROVE FALSE
    BY <1>4, <1>5, <1>8, <1>10
  <2>1. g - base + 1 \in 1 .. n /\ g - base + 1 \in 1 .. c /\ base + (g - base + 1) = g + 1
    BY <1>4, <1>5, <1>8, <1>10, <1>11
  <2>2. IsSeqInBackroom(SeqOf(g + 1), SeqOf(g))
    BY <2>1, <1>7, <1>8
  <2> QED BY <2>2, <1>4, BackroomNext
<1>13. n >= g - base
  <2> SUFFICES ASSUME n < g - base PROVE FALSE
    BY <1>4, <1>5, <1>8, <1>10
  <2>1. /\ n + 1 \in 1 .. c /\ n < c
        /\ base + (n + 1) \in Int /\ g \in Int
        /\ base + (n + 1) <= g /\ g - (base + (n + 1)) <= MaxSequence \div 2
    BY <1>3, <1>4, <1>5, <1>6, <1>8, <1>10
  <2>2. IsSeqInBackroom(SeqOf(base + (n + 1)), SeqOf(g))
    BY <2>1, BackroomBehind
  <2> QED BY <2>1, <2>2, <1>7, <1>8
<1>14. n = g - base
  BY <1>4, <1>8, <1>10, <1>12, <1>13
<1> QED BY <1>3, <1>4, <1>14, <1>10 DEF g, q, s, c

LEMMA FeedPreserves ==
  ASSUME IInv, NEW p \in Peers, NEW i \in 1 .. Len(net[p]), online[p], inbox[p] = <<>>,
         Fresh(p, net[p][i]), Feed(p, net[p][i]),
         net' \in [Peers -> Seq(Packet)],
         \A packet \in Packets(net'[p]) : packet \in Packets(net[p]),
         \A packet \in Packets(net'[Other(p)]) :
           packet \in Packets(net[Other(p)]) \cup Packets(FeedSends(p, net[p][i])),
         faults' \in Nat, UNCHANGED <<online, sequence, ack, history>>
  PROVE  IInv'
<1> DEFINE x == net[p][i]  packets == FeedSends(p, x)
<1>1. PICK q \in Peers : q = Other(p) /\ q # p /\ Other(q) = p
  BY TwoPeers
<1>2. x \in Packet /\ x \in Packets(net[p])
  BY EndFacts, ElementOfSeq DEF Packets
<1>3. PacketFrom(x, sent[q])
  BY <1>1, <1>2 DEF IInv, StreamInv
<1>4. GoodPackets(p, packets, sent[p])
  BY ResendGood
<1>5. /\ \A j \in 1 .. Len(packets) :
           /\ PacketFrom(packets[j], sent'[p])
           /\ packets[j].gotThen <= got'[p]
           /\ ~broken'[p] => Recent(packets[j].chunks, packets[j].born)
      /\ sent[p] <= sent'[p] /\ (broken[p] => broken'[p])
  BY <1>4, EndFacts DEF GoodPackets, history
<1>8. /\ Feed(p, x) /\ Fresh(p, x)
      /\ \A packet \in Packets(net'[Other(p)]) :
           packet \in Packets(net[Other(p)]) \cup Packets(packets)
  OBVIOUS
<1> HIDE DEF packets, x
<1>6. CASE ~AckInWindow(sequence[p], peerAck[p], x.ack)
  <2>1. UNCHANGED <<peerAck, buffer, construct, resendFlag, inbox>>
    BY <1>6, <1>8 DEF Feed
  <2>2. TypeOK'
    BY <2>1 DEF IInv, TypeOK, history
  <2>3. Keeps(Other(p))
    BY <2>1 DEF Keeps, history
  <2>4. EndInv(p)'
    BY <2>1, EndFacts DEF EndInv, history
  <2>5. ~broken'[p] => SenderInv(p)'
    BY <2>1, EndFacts DEF SenderInv, TailInv, history
  <2>6. ~broken[Other(p)] => got[p] <= got'[p] /\ ReceiverInv(p)'
    BY <2>1, EndFacts DEF ReceiverInv, history
  <2>7. StepOf(p, packets)
    BY <2>3, <2>4, <2>5, <2>6, <1>5, <1>8 DEF StepOf
  <2> QED BY <2>2, <2>7, StepPreserves
<1>7. CASE AckInWindow(sequence[p], peerAck[p], x.ack)
  <2> DEFINE cs == IF x.resend THEN buffer[p] ELSE <<>>
             rest == ConstructAfter(p, cs)
  <2>1. PICK n \in AckedCounts(buffer[p], x.ack) :
          buffer' = [buffer EXCEPT ![p] = SubSeq(@, n + 1, Len(@))]
    BY <1>7, <1>8 DEF Feed
  <2>2. /\ peerAck' = [peerAck EXCEPT ![p] = x.ack]
        /\ construct' = [construct EXCEPT ![p] = rest]
        /\ resendFlag' = [resendFlag EXCEPT ![p] = FlagAfter(p, cs)]
        /\ inbox' = [inbox EXCEPT ![p] = x.chunks]
    BY <1>7, <1>8 DEF Feed, QueueChunkEx
  <2> DEFINE tail == SubSeq(buffer[p], n + 1, Len(buffer[p]))
  <2>3. /\ n \in Nat /\ n <= Len(buffer[p]) /\ Len(buffer[p]) \in Nat
        /\ tail \in Seq(Chunk) /\ Len(tail) = Len(buffer[p]) - n
        /\ \A j \in 1 .. Len(buffer[p]) - n : tail[j] = buffer[p][n + j]
    <3>1. n \in Nat /\ n <= Len(buffer[p]) /\ Len(buffer[p]) \in Nat /\ buffer[p] \in Seq(Chunk)
      BY EndFacts DEF AckedCounts
    <3> QED BY <3>1, Segment
  <2>4. GoodConstruct(p, rest, sent[p])
    <3>1. CASE x.resend
      BY <3>1, ResendGood
    <3>2. CASE ~x.resend
      BY <3>2, NoneFlushed, OldConstruct DEF IInv
    <3> QED BY <3>1, <3>2
  <2>5. FlagAfter(p, cs) \in BOOLEAN
    BY DEF FlagAfter, IInv, TypeOK
  <2> HIDE DEF cs, rest
  <2>6. buffer' = [buffer EXCEPT ![p] = tail]
    BY <2>1
  <2> HIDE DEF tail
  <2>7. x.ack \in SeqNumber /\ x.chunks \in Seq(Chunk)
    BY <1>2 DEF Packet
  <2>8. TypeOK'
    BY <2>2, <2>3, <2>4, <2>5, <2>6, <2>7 DEF IInv, TypeOK, GoodConstruct, history
  <2>9. /\ peerAck'[p] = x.ack /\ construct'[p] = rest /\ inbox'[p] = x.chunks
        /\ buffer'[p] = tail
        /\ peerAck'[q] = peerAck[q] /\ construct'[q] = construct[q]
        /\ inbox'[q] = inbox[q] /\ buffer'[q] = buffer[q]
    BY <1>1, <2>2, <2>6 DEF IInv, TypeOK
  <2>10. Keeps(Other(p))
    BY <1>1, <2>9 DEF Keeps, history
  <2>11. ChunksOf(tail, sent[p]) /\ Len(tail) <= BufferCap
    <3>1. ChunksOf(buffer[p], sent[p]) /\ Len(buffer[p]) <= BufferCap /\ BufferCap \in Nat
      BY EndFacts, NetConnAssumption DEF EndInv
    <3>2. ASSUME NEW j \in 1 .. Len(tail) PROVE ChunkOf(tail[j], sent[p])
      <4>1. n + j \in 1 .. Len(buffer[p]) /\ tail[j] = buffer[p][n + j]
        BY <2>3
      <4> QED BY <4>1, <3>1 DEF ChunksOf
    <3>3. Len(tail) <= BufferCap
      BY <2>3, <3>1
    <3> QED BY <3>2, <3>3 DEF ChunksOf
  <2>12. EndInv(p)'
    BY <2>4, <2>9, <2>11, <1>1, <1>3, EndFacts DEF EndInv, PacketFrom, GoodConstruct, history
  <2>13. ASSUME ~broken'[p] PROVE SenderInv(p)'
    <3>1. ~broken[p]
      BY <2>13 DEF history
    <3>2. /\ x.ack = SeqOf(x.gotThen)
          /\ x.gotThen \in Nat /\ x.gotThen <= got[q]
          /\ n = x.gotThen - (sent[p] - Len(buffer[p]))
      BY <3>1, <1>1, <1>2, <1>7, <1>8, AckRemoves
    <3>3. SenderInv(p) /\ TailInv(p)
      BY <3>1, EndFacts DEF SenderInv
    <3>4. Recent(rest, sent[p])
      BY <3>1, <2>4 DEF GoodConstruct
    <3>5. /\ Len(tail) <= sent[p]
          /\ sent[p] - Len(tail) = x.gotThen
      <4>1. sent[p] \in Nat /\ Len(buffer[p]) <= sent[p]
        BY <3>3, EndFacts DEF TailInv
      <4> QED BY <4>1, <3>2, <2>3, SMTT(30)
    <3>6. \A j \in 1 .. Len(tail) : tail[j].idx = x.gotThen + j
      <4> SUFFICES ASSUME NEW j \in 1 .. Len(tail) PROVE tail[j].idx = x.gotThen + j
        OBVIOUS
      <4>1. n + j \in 1 .. Len(buffer[p]) /\ tail[j] = buffer[p][n + j] /\ j \in Nat
        BY <2>3, SMTT(30)
      <4>2. buffer[p][n + j].idx = sent[p] - Len(buffer[p]) + (n + j)
        BY <4>1, <3>3 DEF TailInv
      <4>3. sent[p] \in Nat /\ Len(buffer[p]) \in Nat /\ n \in Nat
        BY <2>3, EndFacts
      <4>4. tail[j].idx = sent[p] - Len(buffer[p]) + (n + j)
        BY <4>1, <4>2
      <4>5. sent[p] - Len(buffer[p]) + (n + j) = x.gotThen + j
        <5> DEFINE s == sent[p]  c == Len(buffer[p])  g == x.gotThen
        <5>1. /\ s \in Int /\ c \in Int /\ g \in Int /\ n \in Int /\ j \in Int
              /\ n = g - (s - c)
          BY <4>1, <4>3, <3>2
        <5> HIDE DEF s, c, g
        <5>2. s - c + (n + j) = g + j
          BY <5>1
        <5> QED BY <5>2 DEF s, c, g
      <4> QED BY <4>4, <4>5
    <3>7. TailInv(p)'
      BY <3>2, <3>5, <3>6, <2>9, <1>1 DEF TailInv, history
    <3> QED BY <3>3, <3>4, <3>7, <2>9 DEF SenderInv, history
  <2>14. ASSUME ~broken[Other(p)] PROVE got[p] <= got'[p] /\ ReceiverInv(p)'
    <3>1. Recent(x.chunks, x.born) /\ Len(x.chunks) <= MaxChunks
      BY <2>14, <1>1, <1>2, <1>3 DEF IInv, WindowInv, PacketFrom
    <3>2. sent[q] - x.born <= Lifetime /\ got[p] <= sent[q] /\ x.born <= sent[q]
      BY <1>1, <1>3, <1>8, EndFacts DEF Fresh, EndInv, PacketFrom
    <3>3. /\ x.born \in Nat /\ sent[q] \in Nat /\ got[p] \in Nat /\ Len(x.chunks) \in Nat
          /\ BufferCap \in Nat /\ Lifetime \in Nat /\ MaxChunks \in Nat
      BY <1>2, <2>7, EndFacts, LenProperties, NetConnAssumption DEF Packet
    <3>4. \A j \in 1 .. Len(x.chunks) : x.chunks[j].idx \in Nat
      BY <1>3, <3>3, SMTT(30) DEF PacketFrom, ChunksOf, ChunkOf
    <3>5. ASSUME NEW j \in 1 .. Len(x.chunks)
          PROVE  x.chunks[j].idx + BufferCap + Lifetime + MaxChunks - j > got[p]
      <4> DEFINE y == x.chunks[j].idx
      <4>1. y \in Nat /\ y + BufferCap + (Len(x.chunks) - j) > x.born
        BY <3>1, <3>4 DEF Recent
      <4> HIDE DEF y
      <4>3. j \in Nat
        BY <3>3
      <4>2. y + BufferCap + Lifetime + MaxChunks - j > got[p]
        <5>1. Len(x.chunks) <= MaxChunks /\ got[p] <= x.born + Lifetime
          BY ONLY <3>1, <3>2, <3>3
        <5>2. ASSUME NEW l \in Nat, NEW g \in Nat, NEW b \in Nat, NEW k \in Nat, NEW c \in Nat,
                     NEW life \in Nat, NEW max \in Nat, NEW z \in Nat,
                     l <= max, g <= b + life, z + c + (l - k) > b
              PROVE  z + c + life + max - k > g
          BY ONLY <5>2
        <5> QED BY <5>1, <5>2, <4>1, <4>3, <3>3
      <4> QED BY <4>2 DEF y
    <3>6. inbox'[p] = x.chunks /\ got'[p] = got[p] /\ got[p] <= got'[p]
      BY <3>3, <2>9 DEF history
    <3> QED BY <3>5, <3>6 DEF ReceiverInv
  <2>15. StepOf(p, packets)
    BY <2>10, <2>12, <2>13, <2>14, <1>5, <1>8 DEF StepOf
  <2> QED BY <2>8, <2>15, StepPreserves
<1> QED BY <1>6, <1>7

LEMMA ReceivePreserves ==
  ASSUME IInv, NEW p \in Peers, NEW i \in 1 .. Len(net[p]),
         Receive(p, i) \/ ReceiveDuplicate(p, i)
  PROVE  IInv'
<1> DEFINE packets == FeedSends(p, net[p][i])
<1>1. /\ online[p] /\ inbox[p] = <<>> /\ Fresh(p, net[p][i]) /\ Feed(p, net[p][i])
      /\ UNCHANGED <<online, sequence, ack, history>>
  BY DEF Receive, ReceiveDuplicate
<1>2. faults' \in Nat
  BY DEF Receive, ReceiveDuplicate, IInv, TypeOK
<1>3. packets \in Seq(Packet)
  BY <1>1, ResendGood DEF GoodPackets
<1>4. TypeOK
  BY DEF IInv
<1> HIDE DEF packets
<1>5. /\ net' \in [Peers -> Seq(Packet)]
      /\ \A packet \in Packets(net'[p]) : packet \in Packets(net[p])
      /\ \A packet \in Packets(net'[Other(p)]) :
           packet \in Packets(net[Other(p)]) \cup Packets(packets)
  <2>1. CASE Receive(p, i)
    <3>1. net' = [net EXCEPT ![p] = RemoveAt(@, i),
                             ![Other(p)] = Transmitted(Other(p), packets)]
      BY <2>1 DEF Receive, packets
    <3> QED BY <3>1, <1>3, <1>4, NetTakes
  <2>2. CASE ReceiveDuplicate(p, i)
    <3>1. net' = [net EXCEPT ![Other(p)] = Transmitted(Other(p), packets)]
      BY <2>2 DEF ReceiveDuplicate, packets
    <3> QED BY <3>1, <1>3, <1>4, NetSends
  <2> QED BY <2>1, <2>2
<1> QED BY <1>1, <1>2, <1>5, FeedPreserves DEF packets

-----------------------------------------------------------------------------
LEMMA InitIInv == Init => IInv
<1> SUFFICES ASSUME Init PROVE IInv
  OBVIOUS
<1>1. \A p \in Peers : Other(p) \in Peers
  BY TwoPeers
<1>2. /\ \A S : <<>> \in Seq(S)
      /\ Len(<<>>) = 0 /\ 1 .. 0 = {} /\ 0 \in SeqNumber
      /\ BufferCap \in Nat /\ MaxChunks \in Nat /\ Lifetime \in Nat
  BY EmptySeq, SequenceAssumption, NetConnAssumption DEF SeqNumber
<1>3. SeqOf(0) = 0
  BY SequenceAssumption DEF SeqOf
<1>4. TypeOK
  BY <1>2 DEF Init, TypeOK
<1>5. ASSUME NEW p \in Peers PROVE StreamInv(p)
  <2>1. Packets(net[p]) = {}
    BY <1>2 DEF Init, Packets
  <2>2. EndInv(p)
    BY <1>1, <1>2, <1>3 DEF Init, EndInv, ChunksOf
  <2> QED BY <2>1, <2>2 DEF StreamInv
<1>6. ASSUME NEW p \in Peers PROVE WindowInv(p)
  <2>1. Packets(net[p]) = {} /\ Packets(net[Other(p)]) = {}
    BY <1>1, <1>2 DEF Init, Packets
  <2>2. TailInv(p)
    BY <1>1, <1>2, <1>3 DEF Init, TailInv
  <2>3. SenderInv(p)
    BY <2>2, <1>1, <1>2 DEF Init, SenderInv, Recent
  <2>4. ReceiverInv(Other(p))
    BY <1>1, <1>2 DEF Init, ReceiverInv
  <2> QED BY <2>1, <2>3, <2>4 DEF WindowInv
<1> QED BY <1>4, <1>5, <1>6 DEF IInv

LEMMA NextIInv == IInv /\ [Next]_vars => IInv'
<1> SUFFICES ASSUME IInv, [Next]_vars PROVE IInv'
  OBVIOUS
<1>1. ASSUME NEW p \in Peers, QueueChunk(p) PROVE IInv'
  BY <1>1, QueueChunkPreserves
<1>2. ASSUME NEW p \in Peers, Flush(p) PROVE IInv'
  BY <1>2, FlushPreserves
<1>3. ASSUME NEW p \in Peers, NEW r \in BOOLEAN, NEW s \in BOOLEAN, Update(p, r, s)
      PROVE  IInv'
  BY <1>3, UpdatePreserves
<1>4. ASSUME NEW p \in Peers, Timeout(p) PROVE IInv'
  BY <1>4, TimeoutPreserves
<1>5. ASSUME NEW p \in Peers, FetchChunk(p) PROVE IInv'
  BY <1>5, FetchChunkPreserves
<1>6. ASSUME NEW p \in Peers, FetchNothing(p) PROVE IInv'
  BY <1>6, FetchNothingPreserves
<1>7. ASSUME NEW p \in Peers, NEW i \in 1 .. Len(net[p]),
             Receive(p, i) \/ ReceiveDuplicate(p, i)
      PROVE  IInv'
  BY <1>7, ReceivePreserves
<1>8. ASSUME NEW p \in Peers, NEW i \in 1 .. Len(net[p]), Lose(p, i) PROVE IInv'
  <2>1. faults' \in Nat
    BY <1>8 DEF Lose, IInv, TypeOK
  <2> QED BY <1>8, <2>1, LossPreserves DEF Lose
<1>9. ASSUME NEW p \in Peers, NEW i \in 1 .. Len(net[p]), Expire(p, i) PROVE IInv'
  <2>1. faults' \in Nat
    BY <1>9 DEF Expire, IInv, TypeOK
  <2> QED BY <1>9, <2>1, LossPreserves DEF Expire
<1>10. CASE UNCHANGED vars
  <2>1. UNCHANGED <<online, sequence, ack, peerAck, buffer, resendFlag, construct, inbox,
                    net, faults, sent, got, broken>>
    BY <1>10 DEF vars, connVars, history
  <2>2. TypeOK'
    BY <2>1 DEF IInv, TypeOK
  <2>3. ASSUME NEW p \in Peers PROVE StreamInv(p)'
    BY <2>1 DEF IInv, StreamInv, EndInv
  <2>4. ASSUME NEW p \in Peers, ~broken'[p] PROVE WindowInv(p)'
    BY <2>1, <2>4 DEF IInv, WindowInv, SenderInv, TailInv, ReceiverInv
  <2> QED BY <2>2, <2>3, <2>4 DEF IInv
<1> QED BY <1>1, <1>2, <1>3, <1>4, <1>5, <1>6, <1>7, <1>8, <1>9, <1>10 DEF Next

(***************************************************************************)
(* The inductive invariant holds.                                          *)
(***************************************************************************)
THEOREM Invariance == Spec => []IInv
  BY InitIInv, NextIInv, PTL DEF Spec

(***************************************************************************)
(* Every variable keeps its type: m_Sequence, m_Ack and m_PeerAck never    *)
(* leave 0 .. NET_MAX_SEQUENCE - 1.                                        *)
(***************************************************************************)
THEOREM TypeCorrect == Spec => []TypeOK
<1>1. IInv => TypeOK
  BY DEF IInv
<1> QED BY <1>1, Invariance, PTL

(***************************************************************************)
(* The resend buffer (m_Buffer, AckChunks) holds every message the peer's  *)
(* application has not got.                                                *)
(***************************************************************************)
THEOREM NothingUndeliveredForgotten == Spec => []BufferKeepsUndelivered
<1>1. IInv => BufferKeepsUndelivered
  BY EndFacts DEF BufferKeepsUndelivered, SenderInv, TailInv
<1> QED BY <1>1, Invariance, PTL

(***************************************************************************)
(* A connection implements the vital channel: FetchChunk hands out every   *)
(* message once and in order as long as no message found the resend buffer *)
(* of its sender full.                                                     *)
(***************************************************************************)
THEOREM Refinement == Spec => ImplementsChannel
<1>1. Init => Channel!Init
  BY DEF Init, Channel!Init, Peers, Channel!Peers
<1>2. IInv /\ [Next]_vars => [Channel!Next]_(Channel!vars)
  <2> SUFFICES ASSUME IInv, [Next]_vars PROVE [Channel!Next]_(Channel!vars)
    OBVIOUS
  <2>1. Channel!Peers = Peers /\ \A p \in Peers : Channel!Other(p) = Other(p)
    BY DEF Peers, Channel!Peers, Other, Channel!Other
  <2>2. ASSUME UNCHANGED history PROVE [Channel!Next]_(Channel!vars)
    BY <2>2 DEF history, Channel!vars
  <2>3. ASSUME NEW p \in Peers, QueueChunk(p) PROVE Channel!Next
    <3>1. Channel!Queue(p)
      <4>1. /\ broken' = [broken EXCEPT ![p] = @ \/ ~(Len(buffer[p]) < BufferCap)]
            /\ sent' = [sent EXCEPT ![p] = @ + 1] /\ got' = got
        BY <2>3 DEF QueueChunk
      <4>2. (~(Len(buffer[p]) < BufferCap)) \in BOOLEAN
        OBVIOUS
      <4>3. \E b \in BOOLEAN : broken' = [broken EXCEPT ![p] = @ \/ b]
        BY <4>1, <4>2, Zenon
      <4> QED BY <4>1, <4>3 DEF Channel!Queue
    <3> QED BY <3>1, <2>1 DEF Channel!Next
  <2>4. ASSUME NEW p \in Peers, FetchChunk(p) PROVE Channel!Next
    <3>1. PICK k \in 1 .. Len(inbox[p]) :
            inbox[p][k].seq = NextSeq(ack[p]) /\ got' = [got EXCEPT ![p] = inbox[p][k].idx]
      BY <2>4 DEF FetchChunk
    <3>2. online[p] /\ UNCHANGED <<sent, broken>>
      BY <2>4 DEF FetchChunk
    <3>3. /\ inbox[p][k].idx \in 1 .. sent[Other(p)]
          /\ ~broken[Other(p)] => inbox[p][k].idx = got[p] + 1
      BY <3>1, <3>2, FetchedIsNext
    <3>4. got[p] \in Nat /\ sent[Other(p)] \in Nat
      BY TwoPeers DEF IInv, TypeOK
    <3>5. CASE ~broken[Other(p)]
      <4>1. got' = [got EXCEPT ![p] = @ + 1] /\ got[p] < sent[Other(p)]
        <5>1. inbox[p][k].idx = got[p] + 1
          BY <3>3, <3>5
        <5>2. got[p] + 1 \in 1 .. sent[Other(p)]
          BY <5>1, <3>3
        <5>3. got[p] < sent[Other(p)]
          BY <5>2, <3>4
        <5> QED BY <5>1, <5>3, <3>1
      <4>2. Channel!Deliver(p)
        BY <4>1, <3>2, <2>1 DEF Channel!Deliver
      <4> QED BY <4>2, <2>1 DEF Channel!Next
    <3>6. CASE broken[Other(p)]
      <4>1. Channel!DeliverBroken(p)
        BY <3>1, <3>2, <3>3, <3>6, <2>1 DEF Channel!DeliverBroken
      <4> QED BY <4>1, <2>1 DEF Channel!Next
    <3> QED BY <3>5, <3>6
  <2>5. CASE UNCHANGED vars
    BY <2>2, <2>5 DEF vars
  <2>6. CASE Next
    <3>1. PICK p \in Peers :
            \/ QueueChunk(p) \/ Flush(p)
            \/ \E r, s \in BOOLEAN : Update(p, r, s)
            \/ Timeout(p) \/ FetchChunk(p) \/ FetchNothing(p)
            \/ \E i \in 1 .. Len(net[p]) :
                 Receive(p, i) \/ ReceiveDuplicate(p, i) \/ Lose(p, i) \/ Expire(p, i)
      BY <2>6 DEF Next
    <3>2. CASE QueueChunk(p)
      BY <3>2, <2>3
    <3>3. CASE FetchChunk(p)
      BY <3>3, <2>4
    <3>4. CASE Flush(p) \/ Timeout(p) \/ FetchNothing(p)
      BY <3>4, <2>2 DEF Flush, Timeout, FetchNothing
    <3>5. CASE \E r, s \in BOOLEAN : Update(p, r, s)
      BY <3>5, <2>2 DEF Update
    <3>6. CASE \E i \in 1 .. Len(net[p]) :
                 Receive(p, i) \/ ReceiveDuplicate(p, i) \/ Lose(p, i) \/ Expire(p, i)
      BY <3>6, <2>2 DEF Receive, ReceiveDuplicate, Lose, Expire
    <3> QED BY <3>1, <3>2, <3>3, <3>4, <3>5, <3>6
  <2> QED BY <2>5, <2>6
<1> QED BY <1>1, <1>2, Invariance, PTL DEF Spec, ImplementsChannel, Channel!Spec
=============================================================================
