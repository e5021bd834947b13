--------------------------- MODULE MCConnections ---------------------------
(***************************************************************************)
(* Small instances for TLC of the two halves of the network layer: how     *)
(* clients get and lose a slot (Handshake), and the stream of vital        *)
(* messages of one client that has one (NetConn).  They share no state, so *)
(* that one run checks them side by side: a behaviour is one of part, and  *)
(* what belongs to the other keeps its first value.                        *)
(***************************************************************************)
EXTENDS NetConn, Handshake, Functions

CONSTANTS a, b, c   \* client addresses

VARIABLE part       \* the part that a behaviour is of

\* a and b share an IP address, c has its own.
MCIPs == {"ip1", "ip2"}
MCIPOf == [x \in Clients |-> IF x = c THEN "ip2" ELSE "ip1"]

\* The server streams vital messages to its client.
MCSenders == {Server}

\* Bounds: what follows an overflow of the resend buffer is not explored; packets
\* in flight, and connects of all clients together.
Bounded ==
  /\ \A p \in Peers : ~broken[p]
  /\ Cardinality(wire) <= 2
  /\ FoldFunction(LAMBDA x, y : x + y, 0, session) <= 3

-----------------------------------------------------------------------------
connectionVars == <<vars, handshakeVars, part>>

ConnectionsInit == part \in {"stream", "handshake"} /\ Init /\ HandshakeInit

ConnectionsNext ==
  \/ part = "stream" /\ Next /\ UNCHANGED <<handshakeVars, part>>
  \/ part = "handshake" /\ HandshakeNext /\ UNCHANGED <<vars, part>>

ConnectionsSpec == ConnectionsInit /\ [][ConnectionsNext]_connectionVars

\* The fairness of each specification, for the part that moves.
ConnectionsFairness ==
  /\ \A p \in Peers :
       /\ SF_vars(part = "stream" /\ Update(p, buffer[p] # <<>>, TRUE))
       /\ SF_vars(part = "stream" /\ Len(net[p]) > 0 /\ (Receive(p, 1) \/ Expire(p, 1)))
       /\ WF_vars(part = "stream" /\ (FetchChunk(p) \/ FetchNothing(p)))
  /\ \A k \in Clients :
       /\ WF_handshakeVars(part = "handshake" /\ SendConnect(k))
       /\ WF_handshakeVars(part = "handshake" /\ ClientUpdate(k) /\ ~Served(k))
       /\ SF_handshakeVars(/\ part = "handshake"
                           /\ \E m \in wire : m.addr = k /\ ReceiveConnectAccept(k, m, FALSE))
       /\ SF_handshakeVars(/\ part = "handshake"
                           /\ \E m \in wire : m.to = "server" /\ m.addr = k /\ m.kind = "CONNECT"
                                                /\ ServerReceives(m, FALSE))
  /\ \A s \in Slots :
       WF_handshakeVars(/\ part = "handshake" /\ ServerUpdate(s)
                        /\ \A k \in Clients : ~Serving(k, s))

ConnectionsFairSpec == ConnectionsSpec /\ ConnectionsFairness

\* The variables of both parts keep to their types.
ConnectionsTypeOK == TypeOK /\ HandshakeTypeOK
=============================================================================
