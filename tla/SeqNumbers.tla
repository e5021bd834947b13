----------------------------- MODULE SeqNumbers -----------------------------
(***************************************************************************)
(* The arithmetic of the 10-bit sequence numbers that vital chunks carry   *)
(* (engine/shared/network.cpp and network_conn.cpp).  Everything here is   *)
(* pure; MaxSequence stands for NET_MAX_SEQUENCE.                          *)
(***************************************************************************)
EXTENDS Integers

CONSTANT MaxSequence    \* NET_MAX_SEQUENCE, 1 << 10 in the code

ASSUME SequenceAssumption ==
  /\ MaxSequence \in Nat
  /\ MaxSequence >= 4
  /\ MaxSequence % 2 = 0

\* The values m_Sequence, m_Ack and m_PeerAck range over.
SeqNumber == 0 .. MaxSequence - 1

\* Mutant of NextSeq: the counter is not wrapped.
NextSeqUnwrapped(s) == s + 1

\* (s + 1) % NET_MAX_SEQUENCE, of QueueChunk and of FetchChunk.
NextSeq(s) == (s + 1) % MaxSequence

\* The number the i-th vital chunk of a connection carries.
SeqOf(i) == i % MaxSequence

\* Mutant of IsSeqInBackroom: the next number counts as an old one.
BackroomWithNext(s, a) ==
  LET bottom == a - (MaxSequence \div 2)
  IN  IF bottom < 0
        THEN s <= a + 1 \/ s >= bottom + MaxSequence
        ELSE s <= a + 1 /\ s >= bottom

(***************************************************************************)
(* CNetBase::IsSeqInBackroom: is sequence number s at most half the        *)
(* sequence space behind a?                                                *)
(***************************************************************************)
IsSeqInBackroom(s, a) ==
  LET bottom == a - (MaxSequence \div 2)
  IN  IF bottom < 0
        THEN s <= a \/ s >= bottom + MaxSequence
        ELSE s <= a /\ s >= bottom

\* Mutant of AckInWindow: an ack of everything that was sent is refused.
AckBelowSequence(sequence, peerAck, a) ==
  IF sequence >= peerAck
    THEN peerAck <= a /\ a < sequence
    ELSE ~(a < peerAck /\ a > sequence)

(***************************************************************************)
(* The ack window of CNetConnection::Feed: a packet is taken only if its   *)
(* ack lies between the last ack of the peer and the own sequence.         *)
(***************************************************************************)
AckInWindow(sequence, peerAck, a) ==
  IF sequence >= peerAck
    THEN peerAck <= a /\ a <= sequence
    ELSE ~(a < peerAck /\ a > sequence)

-----------------------------------------------------------------------------
(***************************************************************************)
(* What the two tests are for, said without case distinctions on the wrap. *)
(***************************************************************************)
BackroomMeaning(s, a) ==
  \E d \in 0 .. MaxSequence \div 2 : s = (a - d) % MaxSequence

AckWindowMeaning(sequence, peerAck, a) ==
  \E d \in 0 .. ((sequence - peerAck) % MaxSequence) :
    a = (peerAck + d) % MaxSequence
=============================================================================
