--------------------------- MODULE HandshakeProofs ---------------------------
(***************************************************************************)
(* Handshake keeps its type, gives an address one slot, tells the game     *)
(* about every slot, and agrees on the token with every client whose       *)
(* address it checks: for any number of clients, slots, losses, copies and *)
(* reconnects.                                                             *)
(***************************************************************************)
EXTENDS Handshake, TLAPS

(***************************************************************************)
(* The token a checked client of address c and its slot agree on.          *)
(***************************************************************************)
Agreed(c) == IF c \in Vanilla THEN Unsupported ELSE GetToken(c)

Messages == ToServer \union ToClient

(***************************************************************************)
(* What packets in flight say about tokens: an accept names the token of   *)
(* its address, a vanilla client never names one, and only a vanilla       *)
(* client sends the input that OnPreConnMsg waits for.                     *)
(***************************************************************************)
PacketOK(m) ==
  /\ m.kind = "CONNECTACCEPT" /\ m.addr \notin IPv4 /\ m.addr \notin Vanilla
       => m.token = GetToken(m.addr)
  /\ m.kind = "ACCEPT" /\ m.addr \in Vanilla => m.token = Unsupported
  /\ m.kind = "INPUT" => m.addr \in Vanilla

NetInv == \A m \in wire : PacketOK(m)

ConnInv ==
  \A c \in Clients \ IPv4 :
    conn[c].state = "ONLINE" => conn[c].token = Agreed(c)

SlotInv ==
  \A s \in Slots :
    slot[s].state # "OFFLINE" =>
      /\ slot[s].addr \in Clients
      /\ slot[s].addr \notin IPv4 => slot[s].token = Agreed(slot[s].addr)

IInv ==
  /\ HandshakeTypeOK
  /\ OneSlotPerAddress
  /\ ClientIffSlot
  /\ NetInv
  /\ ConnInv
  /\ SlotInv

-----------------------------------------------------------------------------
\* GetToken never returns one of the two values that stand for "no token".
LEMMA TokenType ==
  ASSUME NEW c \in Clients
  PROVE  /\ GetToken(c) \in Token
         /\ GetToken(c) # Unsupported
         /\ GetToken(c) # Unknown
BY HandshakeAssumption DEF GetToken, Token

\* GetClientSlot returns a slot of the address; 0 means that there is none.
LEMMA SlotFound ==
  ASSUME HandshakeTypeOK, OneSlotPerAddress, NEW c \in Clients
  PROVE  /\ GetClientSlot(c) = 0 => SlotsOf(c) = {}
         /\ GetClientSlot(c) # 0 => GetClientSlot(c) \in SlotsOf(c)
<1>1. SlotsOf(c) \subseteq Slots /\ Slots \subseteq Int /\ 0 \notin Slots
  BY HandshakeAssumption DEF SlotsOf, Slots
<1>2. CASE SlotsOf(c) = {}
  BY <1>2 DEF GetClientSlot
<1>3. CASE SlotsOf(c) # {}
  <2>1. PICK s \in SlotsOf(c) : TRUE
    BY <1>3
  <2>2. \A t \in SlotsOf(c) : t = s
    BY <2>1 DEF SlotsOf, OneSlotPerAddress
  <2>3. \E x \in SlotsOf(c) : \A t \in SlotsOf(c) : t <= x
    <3>1. s \in 1 .. MaxClients
      BY <2>1 DEF SlotsOf, Slots
    <3>2. s <= s
      BY <3>1, HandshakeAssumption
    <3>3. \A t \in SlotsOf(c) : t <= s
      BY <2>2, <3>2
    <3> QED BY <2>1, <3>3
  <2>4. GetClientSlot(c) = CHOOSE x \in SlotsOf(c) : \A t \in SlotsOf(c) : t <= x
    BY <1>3 DEF GetClientSlot
  <2>5. GetClientSlot(c) \in SlotsOf(c)
    BY <2>3, <2>4
  <2> QED BY <2>5, <1>1
<1> QED BY <1>2, <1>3

\* Packets leave and well-formed replies join those in flight.
LEMMA ExchangeOK ==
  ASSUME wire \subseteq Messages, NetInv, disturbed \in Nat,
         NEW m, NEW duplicated \in BOOLEAN, NEW replies,
         replies \subseteq Messages,
         \A r \in replies : PacketOK(r),
         Exchange(m, duplicated, replies)
  PROVE  /\ wire' \subseteq Messages
         /\ NetInv'
         /\ disturbed' \in Nat
<1>1. wire' \subseteq wire \union replies
  BY DEF Exchange
<1>2. NetInv'
  BY <1>1 DEF NetInv, PacketOK
<1>3. disturbed' \in Nat
  BY DEF Exchange
<1> QED BY <1>1, <1>2, <1>3

\* A message of the server is well-formed.
LEMMA ServerMsgOK ==
  ASSUME NEW c \in Clients, NEW kind \in {"CONNECTACCEPT", "CLOSE", "SNAPEMPTY"},
         NEW token \in Token,
         kind = "CONNECTACCEPT" /\ c \notin IPv4 /\ c \notin Vanilla
           => token = GetToken(c)
  PROVE  ServerMsg(c, kind, token) \in Messages /\ PacketOK(ServerMsg(c, kind, token))
BY DEF ServerMsg, Messages, ToClient, PacketOK

\* A message of a client is well-formed.
LEMMA ClientMsgOK ==
  ASSUME NEW c \in Clients, NEW kind \in {"CONNECT", "ACCEPT", "CLOSE", "INPUT"},
         NEW token \in Token, session' \in [Clients -> Nat],
         kind = "ACCEPT" /\ c \in Vanilla => token = Unsupported,
         kind = "INPUT" => c \in Vanilla
  PROVE  ClientMsg(c, kind, token) \in Messages /\ PacketOK(ClientMsg(c, kind, token))
BY DEF ClientMsg, Messages, ToServer, PacketOK

-----------------------------------------------------------------------------
(***************************************************************************)
(* The steps of a client change its own connection and what is in flight.  *)
(***************************************************************************)
\* What such a step must show of the connection it changes.
LEMMA ClientStep ==
  ASSUME IInv, NEW c \in Clients, NEW k \in ClientConn,
         conn' = [conn EXCEPT ![c] = k],
         k.state = "ONLINE" /\ c \notin IPv4 => k.token = Agreed(c),
         wire' \subseteq Messages, NetInv', disturbed' \in Nat,
         session' \in [Clients -> Nat],
         UNCHANGED <<slot, client, serves>>
  PROVE  IInv'
<1>1. HandshakeTypeOK'
  BY DEF IInv, HandshakeTypeOK, Messages
<1>2. ConnInv'
  BY DEF IInv, HandshakeTypeOK, ConnInv, Agreed, GetToken
<1>3. OneSlotPerAddress' /\ ClientIffSlot' /\ SlotInv'
  BY DEF IInv, OneSlotPerAddress, ClientIffSlot, SlotInv, Agreed, GetToken
<1> QED BY <1>1, <1>2, <1>3 DEF IInv

\* CNetConnection::Connect keeps the invariant.
LEMMA ConnectStep ==
  ASSUME IInv, NEW c \in Clients, Connect(c)
  PROVE  IInv'
<1>1. Unknown \in Token /\ session' \in [Clients -> Nat]
  BY DEF Connect, IInv, HandshakeTypeOK, Token
<1> DEFINE k == [state |-> "CONNECT", token |-> Unknown]
           m == ClientMsg(c, "CONNECT", Unknown)
<1>2. m \in Messages /\ PacketOK(m)
  BY <1>1, ClientMsgOK
<1>3. k \in ClientConn /\ k.state # "ONLINE"
  BY <1>1 DEF ClientConn
<1>4. conn' = [conn EXCEPT ![c] = k] /\ wire' = wire \union {m} /\ disturbed' = disturbed
      /\ UNCHANGED <<slot, client, serves>>
  BY DEF Connect
<1> HIDE DEF k, m
<1>5. wire' \subseteq Messages /\ NetInv' /\ disturbed' \in Nat
  BY <1>2, <1>4 DEF IInv, HandshakeTypeOK, NetInv, Messages, PacketOK
<1> QED BY <1>1, <1>3, <1>4, <1>5, ClientStep

\* The CONNECT that Update repeats.
LEMMA SendConnectStep ==
  ASSUME IInv, NEW c \in Clients, SendConnect(c)
  PROVE  IInv'
<1>1. Unknown \in Token /\ session' \in [Clients -> Nat]
  BY DEF SendConnect, IInv, HandshakeTypeOK, Token
<1> DEFINE m == ClientMsg(c, "CONNECT", Unknown)
<1>2. m \in Messages /\ PacketOK(m)
  BY <1>1, ClientMsgOK
<1>3. wire' = wire \union {m} /\ UNCHANGED <<conn, slot, client, disturbed, serves>>
  BY DEF SendConnect
<1> HIDE DEF m
<1>4. conn[c] \in ClientConn /\ conn' = [conn EXCEPT ![c] = conn[c]]
  BY <1>3 DEF IInv, HandshakeTypeOK
<1>5. conn[c].state = "ONLINE" /\ c \notin IPv4 => conn[c].token = Agreed(c)
  BY DEF IInv, ConnInv
<1>6. wire' \subseteq Messages /\ NetInv' /\ disturbed' \in Nat
  BY <1>2, <1>3 DEF IInv, HandshakeTypeOK, NetInv, Messages, PacketOK
<1> QED BY <1>1, <1>3, <1>4, <1>5, <1>6, ClientStep

\* CNetConnection::Disconnect.
LEMMA DisconnectStep ==
  ASSUME IInv, NEW c \in Clients, Disconnect(c)
  PROVE  IInv'
<1>1. conn[c].token \in Token /\ session' \in [Clients -> Nat]
  BY DEF Disconnect, IInv, HandshakeTypeOK, ClientConn
<1> DEFINE m == ClientMsg(c, "CLOSE", conn[c].token)
<1>2. m \in Messages /\ PacketOK(m)
  BY <1>1, ClientMsgOK
<1>3. /\ wire' \subseteq wire \union {m} /\ UNCHANGED <<slot, client, disturbed, serves>>
      /\ conn' = [conn EXCEPT ![c] = Offline]
  BY DEF Disconnect
<1> HIDE DEF m
<1>4. Offline \in ClientConn /\ Offline.state # "ONLINE"
  BY DEF Offline, ClientConn, Token
<1>5. wire' \subseteq Messages /\ NetInv' /\ disturbed' \in Nat
  BY <1>2, <1>3 DEF IInv, HandshakeTypeOK, NetInv, Messages, PacketOK
<1> QED BY <1>1, <1>3, <1>4, <1>5, ClientStep

\* CNetClient::Update of a connection that ended.
LEMMA ClientUpdateStep ==
  ASSUME IInv, NEW c \in Clients, ClientUpdate(c)
  PROVE  IInv'
<1>1. /\ UNCHANGED <<slot, client, wire, disturbed, session, serves>>
      /\ conn' = [conn EXCEPT ![c] = Offline]
  BY DEF ClientUpdate
<1>2. Offline \in ClientConn /\ Offline.state # "ONLINE"
  BY DEF Offline, ClientConn, Token
<1>3. /\ wire' \subseteq Messages /\ NetInv' /\ disturbed' \in Nat
      /\ session' \in [Clients -> Nat]
  BY <1>1 DEF IInv, HandshakeTypeOK, NetInv, Messages, PacketOK, GetToken
<1> QED BY <1>1, <1>2, <1>3, ClientStep

\* Feed of a CONNECTACCEPT, a CLOSE, or an empty snapshot by a client.
LEMMA ClientReceivesStep ==
  ASSUME IInv, NEW m \in wire, NEW duplicated \in BOOLEAN,
         m.to = "client", ClientReceives(m, duplicated)
  PROVE  IInv'
<1> DEFINE c == m.addr
<1>1. m \in Messages /\ PacketOK(m) /\ c \in Clients /\ m.token \in Token
  BY DEF IInv, HandshakeTypeOK, NetInv, Messages, ToServer, ToClient
<1>2. wire \subseteq Messages /\ NetInv /\ disturbed \in Nat
  BY DEF IInv, HandshakeTypeOK, Messages
<1>3. CASE ReceiveConnectAccept(c, m, duplicated)
  <2> DEFINE token == IF c \in Vanilla THEN Unsupported ELSE m.token
             reply == ClientMsg(c, "ACCEPT", token)
             k == [state |-> "ONLINE", token |-> token]
  <2>1. /\ conn' = [conn EXCEPT ![c] = k]
        /\ Exchange(m, duplicated, {reply})
        /\ UNCHANGED <<slot, client, session, serves>>
        /\ m.kind = "CONNECTACCEPT"
    BY <1>3 DEF ReceiveConnectAccept
  <2>2. token \in Token /\ session' \in [Clients -> Nat]
    BY <1>1, <2>1 DEF IInv, HandshakeTypeOK, Token
  <2>3. k.state = "ONLINE" /\ c \notin IPv4 => k.token = Agreed(c)
    BY <1>1, <2>1 DEF PacketOK, Agreed
  <2>4. k \in ClientConn
    BY <2>2 DEF ClientConn
  <2>5. c \in Vanilla => token = Unsupported
    OBVIOUS
  <2> HIDE DEF token, k
  <2>6. reply \in Messages /\ PacketOK(reply)
    BY <1>1, <2>2, <2>5, ClientMsgOK
  <2> HIDE DEF reply, c
  <2>7. wire' \subseteq Messages /\ NetInv' /\ disturbed' \in Nat
    BY <1>2, <2>1, <2>6, ExchangeOK
  <2> QED BY <1>1, <2>1, <2>2, <2>3, <2>4, <2>7, ClientStep
<1>4. CASE ReceiveClose(c, m, duplicated)
  <2> DEFINE k == [conn[c] EXCEPT !.state = "ERROR"]
  <2>1. /\ conn' = [conn EXCEPT ![c] = k]
        /\ Exchange(m, duplicated, {})
        /\ UNCHANGED <<slot, client, session, serves>>
    BY <1>4 DEF ReceiveClose
  <2>2. k \in ClientConn /\ k.state # "ONLINE" /\ session' \in [Clients -> Nat]
    BY <1>1, <2>1 DEF IInv, HandshakeTypeOK, ClientConn
  <2>3. wire' \subseteq Messages /\ NetInv' /\ disturbed' \in Nat
    BY <1>2, <2>1, ExchangeOK
  <2> HIDE DEF k, c
  <2> QED BY <1>1, <2>1, <2>2, <2>3, ClientStep
<1>5. CASE ReceiveSnapEmpty(c, m, duplicated)
  <2> DEFINE reply == ClientMsg(c, "INPUT", m.token)
  <2>1. /\ c \in Vanilla
        /\ Exchange(m, duplicated, {reply})
        /\ UNCHANGED <<conn, slot, client, session, serves>>
    BY <1>5 DEF ReceiveSnapEmpty
  <2>2. session' \in [Clients -> Nat]
    BY <2>1 DEF IInv, HandshakeTypeOK
  <2>3. reply \in Messages /\ PacketOK(reply)
    BY <1>1, <2>1, <2>2, ClientMsgOK
  <2> HIDE DEF reply, c
  <2>4. wire' \subseteq Messages /\ NetInv' /\ disturbed' \in Nat
    BY <1>2, <2>1, <2>3, ExchangeOK
  <2>5. conn[c] \in ClientConn /\ conn' = [conn EXCEPT ![c] = conn[c]]
    BY <1>1, <2>1 DEF IInv, HandshakeTypeOK
  <2>6. conn[c].state = "ONLINE" /\ c \notin IPv4 => conn[c].token = Agreed(c)
    BY <1>1 DEF IInv, ConnInv
  <2> QED BY <1>1, <2>1, <2>2, <2>4, <2>5, <2>6, ClientStep
<1> QED BY <1>3, <1>4, <1>5 DEF ClientReceives

-----------------------------------------------------------------------------
(***************************************************************************)
(* The steps of the server.                                                *)
(***************************************************************************)
\* A step that changes packets and history only.
LEMMA QuietStep ==
  ASSUME IInv, wire' \subseteq Messages, NetInv', disturbed' \in Nat,
         serves' \in [Slots -> Nat],
         UNCHANGED <<conn, slot, client, session>>
  PROVE  IInv'
<1>1. HandshakeTypeOK'
  BY DEF IInv, HandshakeTypeOK, Messages
<1>2. ConnInv'
  BY DEF IInv, ConnInv, Agreed, GetToken
<1>3. OneSlotPerAddress' /\ ClientIffSlot' /\ SlotInv'
  BY DEF IInv, OneSlotPerAddress, ClientIffSlot, SlotInv, Agreed, GetToken
<1> QED BY <1>1, <1>2, <1>3 DEF IInv

\* A step of the server that gives slot s, and with it the client there, a
\* new value.
LEMMA SlotStep ==
  ASSUME IInv, NEW s \in Slots, NEW v \in SlotConn,
         NEW state \in {"EMPTY", "PREAUTH", "CONNECTING"},
         slot' = [slot EXCEPT ![s] = v],
         client' = [client EXCEPT ![s] = state],
         v.state = "OFFLINE" <=> state = "EMPTY",
         v.state # "OFFLINE" =>
           /\ v.addr \in Clients
           /\ v.addr \notin IPv4 => v.token = Agreed(v.addr),
         v.state = "ONLINE" => \A t \in Slots \ {s} :
           ~ (slot[t].state = "ONLINE" /\ slot[t].addr = v.addr),
         wire' \subseteq Messages, NetInv', disturbed' \in Nat,
         serves' \in [Slots -> Nat],
         UNCHANGED <<conn, session>>
  PROVE  IInv'
<1>1. HandshakeTypeOK'
  BY DEF IInv, HandshakeTypeOK, Messages
<1>2. slot \in [Slots -> SlotConn] /\ client \in [Slots -> {"EMPTY", "PREAUTH", "CONNECTING"}]
  BY DEF IInv, HandshakeTypeOK
<1>3. ConnInv'
  BY DEF IInv, ConnInv, Agreed, GetToken
<1>4. OneSlotPerAddress'
  <2> SUFFICES ASSUME NEW x \in Slots, NEW y \in Slots,
                      slot'[x].state = "ONLINE", slot'[y].state = "ONLINE",
                      slot'[x].addr = slot'[y].addr
               PROVE  x = y
    BY DEF OneSlotPerAddress, Slots
  <2>1. CASE x = s \/ y = s
    BY <1>2, <2>1
  <2>2. CASE x # s /\ y # s
    BY <1>2, <2>2 DEF IInv, OneSlotPerAddress
  <2> QED BY <2>1, <2>2
<1>5. ClientIffSlot'
  BY <1>2 DEF IInv, ClientIffSlot, Slots
<1>6. SlotInv'
  BY <1>2 DEF IInv, SlotInv, Agreed, GetToken, Slots
<1> QED BY <1>1, <1>3, <1>4, <1>5, <1>6 DEF IInv

\* TryAcceptClient of an address that has no slot.
LEMMA AcceptStep ==
  ASSUME IInv, NEW m \in wire, NEW duplicated \in BOOLEAN, NEW token \in Token,
         NEW vanillaAuth \in BOOLEAN, NEW first,
         m.to = "server",
         first \subseteq Messages, \A r \in first : PacketOK(r),
         GetClientSlot(m.addr) = 0,
         m.addr \notin IPv4 => token = Agreed(m.addr),
         TryAcceptClient(m, duplicated, token, vanillaAuth, first),
         UNCHANGED <<conn, session>>
  PROVE  IInv'
<1>1. m.addr \in Clients /\ m.session \in Nat
  BY DEF IInv, HandshakeTypeOK, ToServer, ToClient
<1>2. wire \subseteq Messages /\ NetInv /\ disturbed \in Nat
  BY DEF IInv, HandshakeTypeOK, Messages
<1>3. CASE /\ Exchange(m, duplicated, first \union {ServerMsg(m.addr, "CLOSE", token)})
           /\ UNCHANGED <<slot, client, serves>>
  <2> DEFINE close == ServerMsg(m.addr, "CLOSE", token)
  <2>1. close \in Messages /\ PacketOK(close)
    BY <1>1, ServerMsgOK
  <2>2. Exchange(m, duplicated, first \union {close}) /\ UNCHANGED <<slot, client, serves>>
    BY <1>3
  <2> HIDE DEF close
  <2>3. wire' \subseteq Messages /\ NetInv' /\ disturbed' \in Nat
    BY <1>2, <2>1, <2>2, ExchangeOK
  <2>4. serves' \in [Slots -> Nat]
    BY <2>2 DEF IInv, HandshakeTypeOK
  <2> QED BY <2>2, <2>3, <2>4, QuietStep
<1>4. ASSUME NEW s \in FreeSlots,
             DirectInit(s, m.addr, token),
             client' = [client EXCEPT ![s] =
               IF vanillaAuth THEN "CONNECTING" ELSE "PREAUTH"],
             serves' = [serves EXCEPT ![s] = m.session],
             Exchange(m, duplicated, first)
      PROVE  IInv'
  <2> DEFINE v == [state |-> "ONLINE", addr |-> m.addr, token |-> token]
             state == IF vanillaAuth THEN "CONNECTING" ELSE "PREAUTH"
  <2>1. s \in Slots /\ slot' = [slot EXCEPT ![s] = v] /\ client' = [client EXCEPT ![s] = state]
    BY <1>4 DEF FreeSlots, DirectInit
  <2>2. v \in SlotConn /\ v.state = "ONLINE" /\ v.addr = m.addr /\ v.token = token
    BY <1>1 DEF SlotConn
  <2>3. state \in {"EMPTY", "PREAUTH", "CONNECTING"} /\ state # "EMPTY"
    OBVIOUS
  <2>4. \A t \in Slots \ {s} : ~ (slot[t].state = "ONLINE" /\ slot[t].addr = v.addr)
    <3>1. SlotsOf(m.addr) = {}
      BY <1>1, SlotFound DEF IInv
    <3> QED BY <3>1 DEF SlotsOf
  <2>5. wire' \subseteq Messages /\ NetInv' /\ disturbed' \in Nat
    BY <1>2, <1>4, ExchangeOK
  <2>6. serves' \in [Slots -> Nat]
    BY <1>1, <1>4 DEF IInv, HandshakeTypeOK
  <2> HIDE DEF v, state
  <2> QED BY <1>1, <2>1, <2>2, <2>3, <2>4, <2>5, <2>6, SlotStep
<1> QED BY <1>3, <1>4 DEF TryAcceptClient

\* Recv of a packet by the server.
LEMMA ServerReceivesStep ==
  ASSUME IInv, NEW m \in wire, NEW duplicated \in BOOLEAN,
         m.to = "server", ServerReceives(m, duplicated)
  PROVE  IInv'
<1>1. /\ m \in Messages /\ PacketOK(m) /\ m.addr \in Clients
      /\ m.token \in Token /\ m.session \in Nat
  BY DEF IInv, HandshakeTypeOK, NetInv, Messages, ToServer, ToClient
<1>2. wire \subseteq Messages /\ NetInv /\ disturbed \in Nat /\ serves \in [Slots -> Nat]
  BY DEF IInv, HandshakeTypeOK, Messages
<1>3. /\ GetToken(m.addr) \in Token /\ GetToken(m.addr) # Unsupported
      /\ Unsupported \in Token
  BY <1>1, TokenType DEF Token
<1>4. GetClientSlot(m.addr) # 0 => GetClientSlot(m.addr) \in SlotsOf(m.addr)
  BY <1>1, SlotFound DEF IInv
<1>5. CASE Rejoin(m, duplicated)
  <2>1. /\ GetClientSlot(m.addr) \in Slots
        /\ serves' = [serves EXCEPT ![GetClientSlot(m.addr)] = m.session]
        /\ Exchange(m, duplicated, {})
        /\ UNCHANGED <<conn, slot, client, session>>
    BY <1>4, <1>5 DEF Rejoin, SlotsOf
  <2>2. serves' \in [Slots -> Nat]
    BY <1>1, <1>2, <2>1
  <2>3. wire' \subseteq Messages /\ NetInv' /\ disturbed' \in Nat
    BY <1>2, <2>1, ExchangeOK
  <2> QED BY <2>1, <2>2, <2>3, QuietStep
<1>6. CASE ConnectInSession(m, duplicated)
  <2> DEFINE reply == ServerMsg(m.addr, "CONNECTACCEPT", GetToken(m.addr))
  <2>1. reply \in Messages /\ PacketOK(reply)
    BY <1>1, <1>3, ServerMsgOK
  <2>2. /\ Exchange(m, duplicated, IF m.addr \in Vanilla THEN {} ELSE {reply})
        /\ UNCHANGED <<conn, slot, client, session, serves>>
    BY <1>6 DEF ConnectInSession
  <2> HIDE DEF reply
  <2>3. wire' \subseteq Messages /\ NetInv' /\ disturbed' \in Nat
    BY <1>2, <2>1, <2>2, ExchangeOK
  <2> QED BY <1>2, <2>2, <2>3, QuietStep
<1>7. CASE CloseInSession(m, duplicated)
  <2> DEFINE s == GetClientSlot(m.addr)
             v == [slot[s] EXCEPT !.state = "ERROR"]
  <2>1. /\ s \in SlotsOf(m.addr)
        /\ slot' = [slot EXCEPT ![s] = v]
        /\ Exchange(m, duplicated, {})
        /\ UNCHANGED <<conn, client, session, serves>>
    BY <1>4, <1>7 DEF CloseInSession
  <2>2. s \in Slots /\ slot[s] \in SlotConn /\ slot[s].state = "ONLINE" /\ client[s] # "EMPTY"
    BY <2>1 DEF SlotsOf, IInv, HandshakeTypeOK, ClientIffSlot
  <2>3. v \in SlotConn /\ v.state = "ERROR" /\ v.addr = slot[s].addr /\ v.token = slot[s].token
    BY <2>2 DEF SlotConn
  <2>4. client[s] \in {"EMPTY", "PREAUTH", "CONNECTING"} /\ client' = [client EXCEPT ![s] = client[s]]
    BY <2>1, <2>2 DEF IInv, HandshakeTypeOK
  <2>5. wire' \subseteq Messages /\ NetInv' /\ disturbed' \in Nat
    BY <1>2, <2>1, ExchangeOK
  <2>6. v.addr \in Clients /\ (v.addr \notin IPv4 => v.token = Agreed(v.addr))
    BY <2>2, <2>3 DEF IInv, SlotInv
  <2> HIDE DEF s, v
  <2> QED BY <1>2, <2>1, <2>2, <2>3, <2>4, <2>5, <2>6, SlotStep
<1>8. CASE OnTokenCtrlMsg(m, duplicated)
  <2>1. GetClientSlot(m.addr) = 0 /\ UNCHANGED <<conn, session>> /\ IsDDNetControlMsg(m)
    BY <1>8 DEF OnTokenCtrlMsg
  <2>2. CASE /\ m.addr \in IPv4
             /\ TryAcceptClient(m, duplicated, Unsupported, FALSE,
                  {ServerMsg(m.addr, "CONNECTACCEPT", Unsupported)})
    <3> DEFINE reply == ServerMsg(m.addr, "CONNECTACCEPT", Unsupported)
    <3>1. reply \in Messages /\ PacketOK(reply)
      BY <1>1, <1>3, <2>2, ServerMsgOK
    <3>2. m.addr \in IPv4 /\ TryAcceptClient(m, duplicated, Unsupported, FALSE, {reply})
      BY <2>2
    <3> HIDE DEF reply
    <3> QED BY <1>3, <2>1, <3>1, <3>2, AcceptStep
  <2>3. CASE /\ Exchange(m, duplicated,
                  {ServerMsg(m.addr, "CONNECTACCEPT", GetToken(m.addr))})
             /\ UNCHANGED <<slot, client, serves>>
    <3> DEFINE reply == ServerMsg(m.addr, "CONNECTACCEPT", GetToken(m.addr))
    <3>1. reply \in Messages /\ PacketOK(reply)
      BY <1>1, <1>3, ServerMsgOK
    <3>2. Exchange(m, duplicated, {reply}) /\ UNCHANGED <<slot, client, serves>>
      BY <2>3
    <3> HIDE DEF reply
    <3>3. wire' \subseteq Messages /\ NetInv' /\ disturbed' \in Nat
      BY <1>2, <3>1, <3>2, ExchangeOK
    <3> QED BY <1>2, <2>1, <3>2, <3>3, QuietStep
  <2>4. CASE /\ m.kind = "ACCEPT"
             /\ m.token = GetToken(m.addr)
             /\ TryAcceptClient(m, duplicated, m.token, FALSE, {})
    <3>1. m.token = Agreed(m.addr)
      BY <1>1, <1>3, <2>4 DEF PacketOK, Agreed
    <3> DEFINE first == {}
    <3>2. first \subseteq Messages /\ \A r \in first : PacketOK(r)
      OBVIOUS
    <3>3. TryAcceptClient(m, duplicated, m.token, FALSE, first)
      BY <2>4
    <3> HIDE DEF first
    <3> QED BY <1>1, <2>1, <3>1, <3>2, <3>3, AcceptStep
  <2> QED BY <1>8, <2>2, <2>3, <2>4 DEF OnTokenCtrlMsg
<1>9. CASE OnPreConnMsg(m, duplicated)
  <2>1. GetClientSlot(m.addr) = 0 /\ UNCHANGED <<conn, session>> /\ ~IsDDNetControlMsg(m)
    BY <1>9 DEF OnPreConnMsg
  <2> DEFINE accept == ServerMsg(m.addr, "CONNECTACCEPT", Unsupported)
             snap == ServerMsg(m.addr, "SNAPEMPTY", GetToken(m.addr))
  <2>2. m.kind = "CONNECT" => m.addr \in Vanilla
    BY <2>1 DEF IsDDNetControlMsg
  <2>3. m.kind = "CONNECT" =>
          /\ accept \in Messages /\ PacketOK(accept)
          /\ snap \in Messages /\ PacketOK(snap)
    BY <1>1, <1>3, <2>2, ServerMsgOK
  <2>4. CASE /\ m.kind = "CONNECT"
             /\ Exchange(m, duplicated, {accept, snap})
             /\ UNCHANGED <<slot, client, serves>>
    <3> HIDE DEF accept, snap
    <3>1. wire' \subseteq Messages /\ NetInv' /\ disturbed' \in Nat
      BY <1>2, <2>3, <2>4, ExchangeOK
    <3> QED BY <1>2, <2>1, <2>4, <3>1, QuietStep
  <2>5. CASE /\ m.kind = "CONNECT"
             /\ TryAcceptClient(m, duplicated, Unsupported, FALSE, {accept})
    <3> HIDE DEF accept, snap
    <3>1. Unsupported = Agreed(m.addr)
      BY <2>2, <2>5 DEF Agreed
    <3> QED BY <1>3, <2>1, <2>3, <2>5, <3>1, AcceptStep
  <2>6. CASE /\ m.kind = "INPUT"
             /\ TryAcceptClient(m, duplicated, Unsupported, TRUE, {})
    <3>1. Unsupported = Agreed(m.addr)
      BY <1>1, <2>6 DEF PacketOK, Agreed
    <3> DEFINE first == {}
    <3>2. first \subseteq Messages /\ \A r \in first : PacketOK(r)
      OBVIOUS
    <3>3. TryAcceptClient(m, duplicated, Unsupported, TRUE, first)
      BY <2>6
    <3> HIDE DEF first
    <3> QED BY <1>3, <2>1, <3>1, <3>2, <3>3, AcceptStep
  <2> QED BY <1>9, <2>4, <2>5, <2>6 DEF OnPreConnMsg
<1> QED BY <1>5, <1>6, <1>7, <1>8, <1>9 DEF ServerReceives

\* Update and Kick free a slot.
LEMMA DropStep ==
  ASSUME IInv, NEW s \in Slots, ServerUpdate(s) \/ Kick(s)
  PROVE  IInv'
<1> DEFINE close == ServerMsg(slot[s].addr, "CLOSE", slot[s].token)
<1>1. /\ slot' = [slot EXCEPT ![s] = FreeSlot]
      /\ client' = [client EXCEPT ![s] = "EMPTY"]
      /\ UNCHANGED <<conn, disturbed, session, serves>>
      /\ wire' \subseteq wire \union {close}
      /\ wire' # wire => client[s] # "EMPTY"
  BY DEF ServerUpdate, Kick
<1>2. FreeSlot \in SlotConn /\ FreeSlot.state = "OFFLINE"
  BY DEF FreeSlot, SlotConn, Token
<1>3. client[s] # "EMPTY" => close \in Messages /\ PacketOK(close)
  <2> SUFFICES ASSUME client[s] # "EMPTY"
               PROVE  close \in Messages /\ PacketOK(close)
    OBVIOUS
  <2>1. slot[s].addr \in Clients /\ slot[s].token \in Token
    BY DEF IInv, HandshakeTypeOK, ClientIffSlot, SlotInv, SlotConn
  <2> QED BY <2>1, ServerMsgOK
<1> HIDE DEF close
<1>4. wire' \subseteq Messages /\ NetInv'
  BY <1>1, <1>3 DEF IInv, HandshakeTypeOK, NetInv, Messages, PacketOK, GetToken
<1>5. disturbed' \in Nat /\ serves' \in [Slots -> Nat]
  BY <1>1 DEF IInv, HandshakeTypeOK
<1> QED BY <1>1, <1>2, <1>4, <1>5, SlotStep

\* Packets that are lost or ignored.
LEMMA VanishStep ==
  ASSUME IInv, wire' \subseteq wire, disturbed' \in Nat,
         UNCHANGED <<conn, slot, client, session, serves>>
  PROVE  IInv'
<1>1. wire' \subseteq Messages /\ NetInv' /\ serves' \in [Slots -> Nat]
  BY DEF IInv, HandshakeTypeOK, NetInv, Messages, PacketOK, GetToken
<1> QED BY <1>1, QuietStep

-----------------------------------------------------------------------------
(***************************************************************************)
(* The invariant holds at the start and after every step.                  *)
(***************************************************************************)
LEMMA InitIInv == HandshakeInit => IInv
<1> SUFFICES ASSUME HandshakeInit PROVE IInv
  OBVIOUS
<1>1. Offline \in ClientConn /\ Offline.state # "ONLINE"
  BY DEF Offline, ClientConn, Token
<1>2. FreeSlot \in SlotConn /\ FreeSlot.state = "OFFLINE"
  BY DEF FreeSlot, SlotConn, Token
<1>3. HandshakeTypeOK
  BY <1>1, <1>2 DEF HandshakeInit, HandshakeTypeOK
<1>4. NetInv /\ ConnInv
  BY <1>1 DEF HandshakeInit, NetInv, ConnInv
<1>5. OneSlotPerAddress /\ ClientIffSlot /\ SlotInv
  BY <1>2 DEF HandshakeInit, OneSlotPerAddress, ClientIffSlot, SlotInv
<1> QED BY <1>3, <1>4, <1>5 DEF IInv

\* Every step of the two sides and of the network keeps IInv.
LEMMA NextIInv == IInv /\ [HandshakeNext]_handshakeVars => IInv'
<1> SUFFICES ASSUME IInv, [HandshakeNext]_handshakeVars
             PROVE  IInv'
  OBVIOUS
<1>1. ASSUME NEW c \in Clients,
             Connect(c) \/ SendConnect(c) \/ Disconnect(c) \/ ClientUpdate(c)
      PROVE  IInv'
  BY <1>1, ConnectStep, SendConnectStep, DisconnectStep, ClientUpdateStep
<1>2. ASSUME NEW s \in Slots, ServerUpdate(s) \/ Kick(s)
      PROVE  IInv'
  BY <1>2, DropStep
<1>3. CASE LosePacket
  <2>1. /\ wire' \subseteq wire /\ disturbed' \in Nat
        /\ UNCHANGED <<conn, slot, client, session, serves>>
    BY <1>3 DEF LosePacket, IInv, HandshakeTypeOK
  <2> QED BY <2>1, VanishStep
<1>4. ASSUME NEW m \in wire, NEW duplicated \in BOOLEAN,
             \/ m.to = "client" /\ ClientReceives(m, duplicated)
             \/ m.to = "server" /\ ServerReceives(m, duplicated)
      PROVE  IInv'
  BY <1>4, ClientReceivesStep, ServerReceivesStep
<1>5. ASSUME NEW m \in wire,
             \/ m.to = "client" /\ ClientIgnores(m.addr, m)
             \/ m.to = "server" /\ ServerIgnores(m)
      PROVE  IInv'
  <2>1. /\ wire' \subseteq wire /\ disturbed' \in Nat
        /\ UNCHANGED <<conn, slot, client, session, serves>>
    BY <1>5 DEF ClientIgnores, ServerIgnores, IInv, HandshakeTypeOK
  <2> QED BY <2>1, VanishStep
<1>6. CASE UNCHANGED handshakeVars
  <2>1. /\ wire' \subseteq wire /\ disturbed' \in Nat
        /\ UNCHANGED <<conn, slot, client, session, serves>>
    BY <1>6 DEF handshakeVars, IInv, HandshakeTypeOK
  <2> QED BY <2>1, VanishStep
<1> QED BY <1>1, <1>2, <1>3, <1>4, <1>5, <1>6 DEF HandshakeNext

(***************************************************************************)
(* IInv is an invariant of the handshake.                                  *)
(***************************************************************************)
THEOREM Invariance == HandshakeSpec => []IInv
BY InitIInv, NextIInv, PTL DEF HandshakeSpec

(***************************************************************************)
(* Every variable keeps its type.                                          *)
(***************************************************************************)
THEOREM TypeCorrect == HandshakeSpec => []HandshakeTypeOK
<1>1. IInv => HandshakeTypeOK
  BY DEF IInv
<1> QED BY <1>1, Invariance, PTL

(***************************************************************************)
(* TryAcceptClient never gives an address a second slot: Recv asks         *)
(* GetClientSlot before it offers an address one.                          *)
(***************************************************************************)
THEOREM OneSlot == HandshakeSpec => []OneSlotPerAddress
<1>1. IInv => OneSlotPerAddress
  BY DEF IInv
<1> QED BY <1>1, Invariance, PTL

(***************************************************************************)
(* The callbacks keep CServer::m_aClients in step with the slots.          *)
(***************************************************************************)
THEOREM ClientsMatchSlots == HandshakeSpec => []ClientIffSlot
<1>1. IInv => ClientIffSlot
  BY DEF IInv
<1> QED BY <1>1, Invariance, PTL

(***************************************************************************)
(* A client whose address is checked and its slot expect the same token.   *)
(***************************************************************************)
THEOREM CheckedTokensAgree == HandshakeSpec => []TokenAgreementIPv6
<1>1. IInv => TokenAgreementIPv6
  <2> SUFFICES ASSUME IInv, NEW c \in Clients \ IPv4, NEW s \in Slots, Serving(c, s)
               PROVE  slot[s].token = conn[c].token
    BY DEF TokenAgreementIPv6, SameToken
  <2> QED BY DEF IInv, ConnInv, SlotInv, Serving
<1> QED BY <1>1, Invariance, PTL
=============================================================================
