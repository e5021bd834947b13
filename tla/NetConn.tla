------------------------------ MODULE NetConn ------------------------------
(***************************************************************************)
(* Two CNetConnections that are online with each other: the server's slot  *)
(* of a client (CNetServer::m_aSlots[i].m_Connection) and the connection   *)
(* of that client's CNetClient.  Both run the same code                    *)
(* (engine/shared/network_conn.cpp); FetchChunk (network.cpp) hands the    *)
(* chunks of a received packet to the application one call at a time.      *)
(*                                                                         *)
(* UDP between them loses, duplicates and reorders packets.                *)
(*                                                                         *)
(* Abstractions.  A vital message is its number in the stream of its       *)
(* sender (chunk.idx, unknown to the code); all messages have one size, so *)
(* a packet holds MaxChunks and the resend buffer BufferCap of them.       *)
(* Non-vital chunks are left out: no state but the fill level of a packet  *)
(* depends on them.  Timers may fire at every Update.  Left out: a slot    *)
(* accepted by the handshake of old clients (SetUnknownSeq, SetSequence),  *)
(* which takes the number of the first vital chunk as it comes; here both  *)
(* ends begin with 0.                                                      *)
(***************************************************************************)
EXTENDS SeqNumbers, Sequences

CONSTANTS
  Server, Client,   \* the two ends
  BufferCap,        \* chunks m_Buffer (NET_CONN_BUFFERSIZE bytes) has room for
  MaxChunks,        \* chunks a packet (NET_MAX_PAYLOAD bytes) has room for
  Lifetime,         \* how many later messages may overtake a packet on its way
  Senders,          \* bound: the ends that queue vital messages
  MaxSent,          \* bound: messages each of them queues
  MaxNet,           \* bound: packets in flight to one end
  MaxFaults         \* bound: packets lost or duplicated

Peers == {Server, Client}

Other(p) == IF p = Server THEN Client ELSE Server

ASSUME NetConnAssumption ==
  /\ Server # Client
  /\ Senders \subseteq Peers
  /\ BufferCap \in Nat \ {0}
  /\ MaxChunks \in Nat \ {0}
  /\ Lifetime \in Nat
  /\ MaxSent \in Nat
  /\ MaxNet \in Nat
  /\ MaxFaults \in Nat

(***************************************************************************)
(* What makes 1024 sequence numbers enough.  A resend buffer of 32 KB      *)
(* holds at most 455 chunks (72 bytes for a chunk of one byte), a packet   *)
(* at most 255 chunks (m_NumChunks is sent as one byte).                   *)
(***************************************************************************)
ASSUME WindowAssumption ==
  /\ BufferCap < MaxSequence \div 2
  /\ BufferCap + Lifetime + MaxChunks < MaxSequence

VARIABLES
  online,     \* m_State = NET_CONNSTATE_ONLINE; FALSE after the connection ended
  sequence,   \* m_Sequence
  ack,        \* m_Ack
  peerAck,    \* m_PeerAck
  buffer,     \* m_Buffer: chunks kept until the peer acked them
  resendFlag, \* NET_PACKETFLAG_RESEND in m_Construct.m_Flags
  construct,  \* the chunks of m_Construct
  inbox,      \* chunks of the packet in CNetRecvUnpacker not fetched yet
  net,        \* net[p]: packets in flight to p
  faults,     \* packets lost or duplicated so far
  sent,       \* how many vital messages were queued (history)
  got,        \* number of the last message handed to the application (history)
  broken      \* a message found no room in m_Buffer (history)

connVars == <<online, sequence, ack, peerAck, buffer, resendFlag, construct, inbox>>
history == <<sent, got, broken>>
vars == <<connVars, net, faults, history>>

Chunk == [seq : SeqNumber, idx : Nat]

\* born and gotThen are history: the sender's sent and got when it sent the packet.
Packet == [ack : SeqNumber, resend : BOOLEAN, chunks : Seq(Chunk),
           born : Nat, gotThen : Nat]

TypeOK ==
  /\ online \in [Peers -> BOOLEAN]
  /\ sequence \in [Peers -> SeqNumber]
  /\ ack \in [Peers -> SeqNumber]
  /\ peerAck \in [Peers -> SeqNumber]
  /\ buffer \in [Peers -> Seq(Chunk)]
  /\ resendFlag \in [Peers -> BOOLEAN]
  /\ construct \in [Peers -> Seq(Chunk)]
  /\ inbox \in [Peers -> Seq(Chunk)]
  /\ net \in [Peers -> Seq(Packet)]
  /\ faults \in Nat
  /\ sent \in [Peers -> Nat]
  /\ got \in [Peers -> Nat]
  /\ broken \in [Peers -> BOOLEAN]

\* Both ends after the handshake: Reset zeroes the counters, the state is online.
Init ==
  /\ online = [p \in Peers |-> TRUE]
  /\ sequence = [p \in Peers |-> 0]
  /\ ack = [p \in Peers |-> 0]
  /\ peerAck = [p \in Peers |-> 0]
  /\ buffer = [p \in Peers |-> <<>>]
  /\ resendFlag = [p \in Peers |-> FALSE]
  /\ construct = [p \in Peers |-> <<>>]
  /\ inbox = [p \in Peers |-> <<>>]
  /\ net = [p \in Peers |-> <<>>]
  /\ faults = 0
  /\ sent = [p \in Peers |-> 0]
  /\ got = [p \in Peers |-> 0]
  /\ broken = [p \in Peers |-> FALSE]

-----------------------------------------------------------------------------
(***************************************************************************)
(* Sending.                                                                *)
(***************************************************************************)
\* The packet p sends with these chunks: it carries p's ack of this moment.
PacketOf(p, chunks, resend) ==
  [ack |-> ack[p], resend |-> resend, chunks |-> chunks,
   born |-> sent[p], gotThen |-> got[p]]

\* Packets join those in flight to q as far as the bound lets them.
Transmitted(q, packets) ==
  LET all == net[q] \o packets
  IN  IF Len(all) <= MaxNet THEN all ELSE SubSeq(all, 1, MaxNet)

HasRoom(p) == Len(net[Other(p)]) < MaxNet

(***************************************************************************)
(* QueueChunkEx for each of chunks in turn, none of which is saved here:   *)
(* a chunk that finds the packet full flushes it first.  The first flush   *)
(* takes the flags along.                                                  *)
(***************************************************************************)
NumFlushed(p, chunks) ==
  IF chunks = <<>> THEN 0
  ELSE (Len(construct[p]) + Len(chunks) - 1) \div MaxChunks

FlushedBy(p, chunks) ==
  LET all == construct[p] \o chunks
  IN  [i \in 1 .. NumFlushed(p, chunks) |->
         PacketOf(p, SubSeq(all, (i - 1) * MaxChunks + 1, i * MaxChunks),
                  i = 1 /\ resendFlag[p])]

ConstructAfter(p, chunks) ==
  SubSeq(construct[p] \o chunks, NumFlushed(p, chunks) * MaxChunks + 1,
         Len(construct[p]) + Len(chunks))

FlagAfter(p, chunks) == resendFlag[p] /\ NumFlushed(p, chunks) = 0

\* p's construct, flags and packets in flight after QueueChunkEx of chunks.
QueueChunkEx(p, chunks) ==
  /\ construct' = [construct EXCEPT ![p] = ConstructAfter(p, chunks)]
  /\ resendFlag' = [resendFlag EXCEPT ![p] = FlagAfter(p, chunks)]

(***************************************************************************)
(* CNetServer::Send / CNetClient::Send of a vital message, QueueChunk and  *)
(* QueueChunkEx.  When m_Buffer is full the sequence number is used up and *)
(* the chunk is sent, but it is not kept; nobody looks at the -1.          *)
(***************************************************************************)
QueueChunk(p) ==
  /\ p \in Senders
  /\ online[p]
  /\ sent[p] < MaxSent
  /\ HasRoom(p)
  /\ LET seq == NextSeq(sequence[p])
         chunk == [seq |-> seq, idx |-> sent[p] + 1]
         saved == Len(buffer[p]) < BufferCap
     IN  /\ sequence' = [sequence EXCEPT ![p] = seq]
         /\ QueueChunkEx(p, <<chunk>>)
         /\ net' = [net EXCEPT ![Other(p)] =
                      Transmitted(Other(p), FlushedBy(p, <<chunk>>))]
         /\ buffer' = IF saved THEN [buffer EXCEPT ![p] = Append(@, chunk)]
                               ELSE buffer
         /\ broken' = [broken EXCEPT ![p] = @ \/ ~saved]
         /\ sent' = [sent EXCEPT ![p] = @ + 1]
  /\ UNCHANGED <<online, ack, peerAck, inbox, faults, got>>

(***************************************************************************)
(* CNetConnection::Flush, called with NETSENDFLAG_FLUSH after a send.      *)
(***************************************************************************)
FlushEnabled(p) == construct[p] # <<>> \/ resendFlag[p]

Flush(p) ==
  /\ online[p]
  /\ FlushEnabled(p)
  /\ HasRoom(p)
  /\ net' = [net EXCEPT ![Other(p)] =
               Transmitted(Other(p), <<PacketOf(p, construct[p], resendFlag[p])>>)]
  /\ construct' = [construct EXCEPT ![p] = <<>>]
  /\ resendFlag' = [resendFlag EXCEPT ![p] = FALSE]
  /\ UNCHANGED <<online, sequence, ack, peerAck, buffer, inbox, faults, history>>

(***************************************************************************)
(* CNetConnection::Update of a connection that has not timed out.  If      *)
(* resendDue the oldest chunk is queued again; if sendDue, and that did    *)
(* not just send a packet, the construct is flushed or, when there is      *)
(* nothing to flush, a keepalive goes out.                                 *)
(***************************************************************************)
Update(p, resendDue, sendDue) ==
  /\ online[p]
  /\ inbox[p] = <<>>
  /\ HasRoom(p)
  /\ resendDue => buffer[p] # <<>>
  /\ resendDue \/ sendDue
  /\ LET oldest == IF resendDue THEN <<Head(buffer[p])>> ELSE <<>>
         rest == ConstructAfter(p, oldest)
         flush == sendDue /\ NumFlushed(p, oldest) = 0
         q == Other(p)
     IN  IF flush
           THEN /\ net' = [net EXCEPT ![q] =
                             Transmitted(q, <<PacketOf(p, rest, resendFlag[p])>>)]
                /\ construct' = [construct EXCEPT ![p] = <<>>]
                /\ resendFlag' = [resendFlag EXCEPT ![p] = FALSE]
           ELSE /\ net' = [net EXCEPT ![q] = Transmitted(q, FlushedBy(p, oldest))]
                /\ QueueChunkEx(p, oldest)
  /\ UNCHANGED <<online, sequence, ack, peerAck, buffer, inbox, faults, history>>

(***************************************************************************)
(* Update of a connection that heard nothing, or got no ack for its oldest *)
(* chunk, for m_ConnTimeout seconds: state ERROR, and the same Update of   *)
(* CNetServer / CNetClient drops it (no close message: m_TimeoutSituation).*)
(***************************************************************************)
Timeout(p) ==
  /\ online[p]
  /\ inbox[p] = <<>>
  /\ online' = [online EXCEPT ![p] = FALSE]
  /\ sequence' = [sequence EXCEPT ![p] = 0]
  /\ ack' = [ack EXCEPT ![p] = 0]
  /\ peerAck' = [peerAck EXCEPT ![p] = 0]
  /\ buffer' = [buffer EXCEPT ![p] = <<>>]
  /\ resendFlag' = [resendFlag EXCEPT ![p] = FALSE]
  /\ construct' = [construct EXCEPT ![p] = <<>>]
  /\ UNCHANGED <<inbox, net, faults, history>>

-----------------------------------------------------------------------------
(***************************************************************************)
(* Receiving.                                                              *)
(***************************************************************************)
RemoveAt(s, i) == SubSeq(s, 1, i - 1) \o SubSeq(s, i + 1, Len(s))

(***************************************************************************)
(* No packet lives so long that sequence numbers come round meanwhile:     *)
(* what stayed in flight while more than Lifetime later messages were      *)
(* queued, or fetched, on the side it came from is never received.         *)
(***************************************************************************)
Fresh(p, packet) ==
  /\ sent[Other(p)] - packet.born <= Lifetime
  /\ got[Other(p)] - packet.gotThen <= Lifetime

\* AckChunks: how many chunks at the head of b does ack a remove?
AckedCounts(b, a) ==
  {n \in 0 .. Len(b) :
     /\ \A i \in 1 .. n : IsSeqInBackroom(b[i].seq, a)
     /\ n < Len(b) => ~IsSeqInBackroom(b[n + 1].seq, a)}

(***************************************************************************)
(* CNetConnection::Feed of a packet of the peer.  One whose ack is outside *)
(* the window is ignored with all its chunks.  A requested resend queues   *)
(* every chunk of m_Buffer again, then the ack removes some of them.       *)
(***************************************************************************)
Feed(p, packet) ==
  IF ~AckInWindow(sequence[p], peerAck[p], packet.ack)
    THEN UNCHANGED <<peerAck, buffer, construct, resendFlag, inbox>>
    ELSE /\ peerAck' = [peerAck EXCEPT ![p] = packet.ack]
         /\ QueueChunkEx(p, IF packet.resend THEN buffer[p] ELSE <<>>)
         /\ \E n \in AckedCounts(buffer[p], packet.ack) :
              buffer' = [buffer EXCEPT ![p] = SubSeq(@, n + 1, Len(@))]
         /\ inbox' = [inbox EXCEPT ![p] = packet.chunks]

\* The packets that a Feed of packet sends.
FeedSends(p, packet) ==
  IF AckInWindow(sequence[p], peerAck[p], packet.ack) /\ packet.resend
    THEN FlushedBy(p, buffer[p])
    ELSE <<>>

\* Recv takes the i-th packet in flight: i > 1 overtakes older ones.
Receive(p, i) ==
  /\ online[p]
  /\ inbox[p] = <<>>
  /\ Fresh(p, net[p][i])
  /\ Feed(p, net[p][i])
  /\ net' = [net EXCEPT ![p] = RemoveAt(@, i),
                        ![Other(p)] = Transmitted(Other(p), FeedSends(p, net[p][i]))]
  /\ UNCHANGED <<online, sequence, ack, faults, history>>

\* A copy of the packet stays in flight.
ReceiveDuplicate(p, i) ==
  /\ online[p]
  /\ inbox[p] = <<>>
  /\ faults < MaxFaults
  /\ Fresh(p, net[p][i])
  /\ Feed(p, net[p][i])
  /\ net' = [net EXCEPT ![Other(p)] = Transmitted(Other(p), FeedSends(p, net[p][i]))]
  /\ faults' = faults + 1
  /\ UNCHANGED <<online, sequence, ack, history>>

Lose(p, i) ==
  /\ faults < MaxFaults
  /\ net' = [net EXCEPT ![p] = RemoveAt(@, i)]
  /\ faults' = faults + 1
  /\ UNCHANGED <<connVars, history>>

\* An end that is offline, or a packet too old, takes nothing out of the air.
Expire(p, i) ==
  /\ ~online[p] \/ ~Fresh(p, net[p][i])
  /\ net' = [net EXCEPT ![p] = RemoveAt(@, i)]
  /\ UNCHANGED <<connVars, faults, history>>

\* The chunk is not the next one and not one of the last half sequence space.
AsksResend(p, chunk) == ~IsSeqInBackroom(chunk.seq, ack[p])

\* Mutant of FetchChunk: any chunk that is not an old one is handed out.
FetchAnyNewChunk(p) ==
  /\ online[p]
  /\ \E k \in 1 .. Len(inbox[p]) :
       /\ AsksResend(p, inbox[p][k])
       /\ \A j \in 1 .. k - 1 : ~AsksResend(p, inbox[p][j])
       /\ ack' = [ack EXCEPT ![p] = inbox[p][k].seq]
       /\ got' = [got EXCEPT ![p] = inbox[p][k].idx]
       /\ inbox' = [inbox EXCEPT ![p] = SubSeq(@, k + 1, Len(@))]
  /\ UNCHANGED <<online, sequence, peerAck, buffer, resendFlag, construct, net,
                 faults, sent, broken>>

(***************************************************************************)
(* FetchChunk: chunks are skipped until one carries the next number, which *)
(* is handed to the application.  Skipped chunks that are no old ones make *)
(* the next packet ask for a resend.                                       *)
(***************************************************************************)
FetchChunk(p) ==
  /\ online[p]
  /\ \E k \in 1 .. Len(inbox[p]) :
       /\ inbox[p][k].seq = NextSeq(ack[p])
       /\ \A j \in 1 .. k - 1 : inbox[p][j].seq # NextSeq(ack[p])
       /\ ack' = [ack EXCEPT ![p] = inbox[p][k].seq]
       /\ got' = [got EXCEPT ![p] = inbox[p][k].idx]
       /\ inbox' = [inbox EXCEPT ![p] = SubSeq(@, k + 1, Len(@))]
       /\ resendFlag' = [resendFlag EXCEPT ![p] =
            @ \/ \E j \in 1 .. k - 1 : AsksResend(p, inbox[p][j])]
  /\ UNCHANGED <<online, sequence, peerAck, buffer, construct, net, faults,
                 sent, broken>>

\* FetchChunk finds no chunk to hand out: the packet is done.
FetchNothing(p) ==
  /\ online[p]
  /\ inbox[p] # <<>>
  /\ \A j \in 1 .. Len(inbox[p]) : inbox[p][j].seq # NextSeq(ack[p])
  /\ resendFlag' = [resendFlag EXCEPT ![p] =
       @ \/ \E j \in 1 .. Len(inbox[p]) : AsksResend(p, inbox[p][j])]
  /\ inbox' = [inbox EXCEPT ![p] = <<>>]
  /\ UNCHANGED <<online, sequence, ack, peerAck, buffer, construct, net, faults,
                 history>>

-----------------------------------------------------------------------------
Next ==
  \E p \in Peers :
    \/ QueueChunk(p)
    \/ Flush(p)
    \/ \E resendDue, sendDue \in BOOLEAN : Update(p, resendDue, sendDue)
    \/ Timeout(p)
    \/ FetchChunk(p)
    \/ FetchNothing(p)
    \/ \E i \in 1 .. Len(net[p]) :
         \/ Receive(p, i)
         \/ ReceiveDuplicate(p, i)
         \/ Lose(p, i)
         \/ Expire(p, i)

Spec == Init /\ [][Next]_vars

(***************************************************************************)
(* The server's and the client's main loops call Update and drain the      *)
(* socket for ever; what is in flight and not lost arrives.                *)
(***************************************************************************)
Fairness ==
  \A p \in Peers :
    /\ SF_vars(Update(p, buffer[p] # <<>>, TRUE))
    /\ SF_vars(Len(net[p]) > 0 /\ (Receive(p, 1) \/ Expire(p, 1)))
    /\ WF_vars(FetchChunk(p) \/ FetchNothing(p))

FairSpec == Spec /\ Fairness

-----------------------------------------------------------------------------
(***************************************************************************)
(* A chunk leaves the resend buffer only after the peer's application got  *)
(* it, and until then the buffer holds it: what is not in m_Buffer of p    *)
(* was delivered, whatever packets were lost or came late (AckChunks and   *)
(* the ack window of Feed, across the wrap of the sequence numbers).       *)
(***************************************************************************)
BufferKeepsUndelivered ==
  \A p \in Peers :
    online[p] /\ ~broken[p] =>
      /\ sent[p] - Len(buffer[p]) <= got[Other(p)]
      /\ \A i \in 1 .. Len(buffer[p]) :
           buffer[p][i].idx = sent[p] - Len(buffer[p]) + i

(***************************************************************************)
(* A connection implements the vital channel: exactly once and in order.   *)
(***************************************************************************)
Channel == INSTANCE VitalChannel

ImplementsChannel == Channel!Spec

(***************************************************************************)
(* Every message that was queued is fetched, or the connection ends, or    *)
(* the resend buffer overflowed: the resend request, the one second resend *)
(* timer and the acks in keepalives get a message through after losses.    *)
(***************************************************************************)
EventuallyDelivered ==
  \A p \in Peers : \A i \in 1 .. MaxSent :
    sent[p] >= i ~> \/ got[Other(p)] >= i
                    \/ broken[p]
                    \/ \E q \in Peers : ~online[q]
=============================================================================
