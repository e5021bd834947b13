----------------------------- MODULE Handshake -----------------------------
(***************************************************************************)
(* How clients get, keep and lose a slot of the server: the connection     *)
(* states and security tokens of CNetServer::m_aSlots[i].m_Connection      *)
(* (engine/shared/network_server.cpp), of each client's CNetClient         *)
(* (network_client.cpp, network_conn.cpp), and what the callbacks do to    *)
(* CServer::m_aClients[i].m_State (engine/server/server.cpp).              *)
(*                                                                         *)
(* A vanilla client (no token support) is not part of the repository; it   *)
(* is modelled from how OnPreConnMsg uses it.                              *)
(*                                                                         *)
(* Abstractions.  An address is its client, its IP is IPOf[c]; the token   *)
(* GetToken(Addr) hashes out of the IP (never of the port) is the IP       *)
(* itself.  The ack window of Feed, which NetConn models, is a choice here:*)
(* a CLOSE may be taken or ignored.                                        *)
(***************************************************************************)
EXTENDS Integers, FiniteSets

CONSTANTS
  Clients,       \* addresses (IP and port) that clients use
  IPs,           \* their IP addresses
  IPOf,          \* the IP address of a client
  IPv4,          \* the clients with an IPv4 address
  Vanilla,       \* the clients that send no SECURITY_TOKEN_MAGIC
  MaxClients,    \* m_MaxClients
  MaxPerIP,      \* m_MaxClientsPerIP (sv_max_clients_per_ip)
  AntiSpoof,     \* sv_vanilla_antispoof, and no password is set
  Unknown,       \* NET_SECURITY_TOKEN_UNKNOWN
  Unsupported,   \* NET_SECURITY_TOKEN_UNSUPPORTED
  NoAddr,        \* m_PeerAddr of a slot nobody uses
  MaxSessions,   \* bound: how often a client connects
  MaxDisturbed   \* bound: packets lost or duplicated

ASSUME HandshakeAssumption ==
  /\ IPOf \in [Clients -> IPs]
  /\ IPv4 \subseteq Clients
  /\ Vanilla \subseteq Clients
  /\ MaxClients \in Nat \ {0}
  /\ MaxPerIP \in Nat \ {0}
  /\ AntiSpoof \in BOOLEAN
  /\ Unknown # Unsupported
  /\ {Unknown, Unsupported} \cap IPs = {}
  /\ NoAddr \notin Clients
  /\ MaxSessions \in Nat
  /\ MaxDisturbed \in Nat

Slots == 1 .. MaxClients

Token == IPs \union {Unknown, Unsupported}

\* Mutant of GetToken: the port is hashed too.
GetTokenWithPort(c) == c

GetToken(c) == IPOf[c]

VARIABLES
  conn,      \* conn[c]: CNetClient::m_Connection of client c
  slot,      \* slot[s]: CNetServer::m_aSlots[s].m_Connection
  client,    \* client[s]: CServer::m_aClients[s].m_State
  wire,      \* packets in flight
  disturbed, \* packets lost or duplicated so far
  session,   \* how often c has connected (history)
  serves     \* the session whose packet made or last reset slot s (history)

handshakeVars == <<conn, slot, client, wire, disturbed, session, serves>>

\* A slot is ONLINE from DirectInit on: it is never in CONNECT or PENDING.
ClientConn == [state : {"OFFLINE", "CONNECT", "ONLINE", "ERROR"}, token : Token]

SlotConn == [state : {"OFFLINE", "ONLINE", "ERROR"},
             addr : Clients \union {NoAddr}, token : Token]

\* session is history: the session of the client when the packet was sent.
ToServer == [to : {"server"}, addr : Clients, token : Token,
             kind : {"CONNECT", "ACCEPT", "CLOSE", "INPUT"}, session : Nat]
ToClient == [to : {"client"}, addr : Clients, token : Token,
             kind : {"CONNECTACCEPT", "CLOSE", "SNAPEMPTY"}]

HandshakeTypeOK ==
  /\ conn \in [Clients -> ClientConn]
  /\ slot \in [Slots -> SlotConn]
  /\ client \in [Slots -> {"EMPTY", "PREAUTH", "CONNECTING"}]
  /\ wire \subseteq ToServer \union ToClient
  /\ disturbed \in Nat
  /\ session \in [Clients -> Nat]
  /\ serves \in [Slots -> Nat]

Offline == [state |-> "OFFLINE", token |-> Unknown]

\* Reset keeps m_PeerAddr, but nobody looks at it while the slot is offline.
FreeSlot == [state |-> "OFFLINE", addr |-> NoAddr, token |-> Unknown]

HandshakeInit ==
  /\ conn = [c \in Clients |-> Offline]
  /\ slot = [s \in Slots |-> FreeSlot]
  /\ client = [s \in Slots |-> "EMPTY"]
  /\ wire = {}
  /\ disturbed = 0
  /\ session = [c \in Clients |-> 0]
  /\ serves = [s \in Slots |-> 0]

-----------------------------------------------------------------------------
ClientMsg(c, kind, token) ==
  [to |-> "server", addr |-> c, kind |-> kind, token |-> token,
   session |-> session'[c]]

ServerMsg(c, kind, token) ==
  [to |-> "client", addr |-> c, kind |-> kind, token |-> token]

\* Packet m leaves the network, or (duplicated) stays; replies are sent.
Exchange(m, duplicated, replies) ==
  /\ duplicated => disturbed < MaxDisturbed
  /\ disturbed' = disturbed + (IF duplicated THEN 1 ELSE 0)
  /\ wire' = (IF duplicated THEN wire ELSE wire \ {m}) \union replies

LosePacket ==
  /\ disturbed < MaxDisturbed
  /\ \E m \in wire : wire' = wire \ {m}
  /\ disturbed' = disturbed + 1
  /\ UNCHANGED <<conn, slot, client, session, serves>>

-----------------------------------------------------------------------------
(***************************************************************************)
(* The client.                                                             *)
(***************************************************************************)
\* CNetConnection::Connect and its first SendConnect.
Connect(c) ==
  /\ conn[c].state = "OFFLINE"
  /\ session[c] < MaxSessions
  /\ session' = [session EXCEPT ![c] = @ + 1]
  /\ conn' = [conn EXCEPT ![c] = [state |-> "CONNECT", token |-> Unknown]]
  /\ wire' = wire \union {ClientMsg(c, "CONNECT", Unknown)}
  /\ UNCHANGED <<slot, client, disturbed, serves>>

\* Mutant of SendConnect: a CONNECT is never repeated.
SendConnectNever(c) == FALSE /\ c \in Clients /\ UNCHANGED handshakeVars

\* Update sends a CONNECT every 500 ms.
SendConnect(c) ==
  /\ conn[c].state = "CONNECT"
  /\ UNCHANGED session
  /\ wire' = wire \union {ClientMsg(c, "CONNECT", Unknown)}
  /\ UNCHANGED <<conn, slot, client, disturbed, serves>>

(***************************************************************************)
(* CNetConnection::Disconnect.  While connecting m_PeerAddr is no address  *)
(* yet, so that the close message reaches nobody.                          *)
(***************************************************************************)
Disconnect(c) ==
  /\ conn[c].state \in {"CONNECT", "ONLINE"}
  /\ UNCHANGED session
  /\ wire' = IF conn[c].state = "ONLINE"
              THEN wire \union {ClientMsg(c, "CLOSE", conn[c].token)} ELSE wire
  /\ conn' = [conn EXCEPT ![c] = Offline]
  /\ UNCHANGED <<slot, client, disturbed, serves>>

\* CNetClient::Update: an ERROR (closed by the server) goes offline silently;
\* a timeout sets ERROR and goes offline within one Update.
ClientUpdate(c) ==
  /\ conn[c].state \in {"ERROR", "ONLINE"}
  /\ conn' = [conn EXCEPT ![c] = Offline]
  /\ UNCHANGED <<slot, client, wire, disturbed, session, serves>>

(***************************************************************************)
(* CNetConnection::Feed of a client that connects: the token is adopted if *)
(* the CONNECTACCEPT carries one, and the ACCEPT carries it back.          *)
(***************************************************************************)
ReceiveConnectAccept(c, m, duplicated) ==
  /\ conn[c].state = "CONNECT"
  /\ m.kind = "CONNECTACCEPT"
  /\ UNCHANGED session
  /\ LET token == IF c \in Vanilla THEN Unsupported ELSE m.token
     IN  /\ conn' = [conn EXCEPT ![c] = [state |-> "ONLINE", token |-> token]]
         /\ Exchange(m, duplicated, {ClientMsg(c, "ACCEPT", token)})
  /\ UNCHANGED <<slot, client, serves>>

ClientTakes(c, m) ==
  conn[c].token \in {Unknown, Unsupported} \/ m.token = conn[c].token

ReceiveClose(c, m, duplicated) ==
  /\ conn[c].state \in {"CONNECT", "ONLINE"}
  /\ m.kind = "CLOSE"
  /\ ClientTakes(c, m)
  /\ conn' = [conn EXCEPT ![c].state = "ERROR"]
  /\ Exchange(m, duplicated, {})
  /\ UNCHANGED <<slot, client, session, serves>>

(***************************************************************************)
(* The simulated map of OnPreConnMsg makes a vanilla client enter the game *)
(* and repeat the number of the empty snapshot in its input.               *)
(***************************************************************************)
ReceiveSnapEmpty(c, m, duplicated) ==
  /\ c \in Vanilla
  /\ conn[c].state = "ONLINE"
  /\ m.kind = "SNAPEMPTY"
  /\ UNCHANGED session
  /\ Exchange(m, duplicated, {ClientMsg(c, "INPUT", m.token)})
  /\ UNCHANGED <<conn, slot, client, serves>>

\* A packet that the client's state, token or ack window makes it ignore.
ClientIgnores(c, m) ==
  /\ \/ conn[c].state \in {"OFFLINE", "ERROR"}
     \/ conn[c].state = "ONLINE" /\ m.kind # "SNAPEMPTY"
     \/ conn[c].state = "CONNECT" /\ m.kind # "CONNECTACCEPT"
  /\ wire' = wire \ {m}
  /\ UNCHANGED <<conn, slot, client, disturbed, session, serves>>

-----------------------------------------------------------------------------
(***************************************************************************)
(* The server.                                                             *)
(***************************************************************************)
\* Mutant of SlotsOf: the last slot is not looked at.
SlotsOfAllButLast(c) ==
  {s \in 1 .. MaxClients - 1 : slot[s].addr = c /\ slot[s].state = "ONLINE"}

\* GetClientSlot: the last slot that holds the address, 0 if there is none.
SlotsOf(c) == {s \in Slots : slot[s].addr = c /\ slot[s].state = "ONLINE"}

GetClientSlot(c) ==
  IF SlotsOf(c) = {} THEN 0
  ELSE CHOOSE s \in SlotsOf(c) : \A t \in SlotsOf(c) : t <= s

NumClientsWithAddr(c) ==
  Cardinality({s \in Slots : slot[s].state = "ONLINE" /\ IPOf[slot[s].addr] = IPOf[c]})

FreeSlots == {s \in Slots : slot[s].state = "OFFLINE"}

\* Mutant of DirectInit: its two token arguments are swapped.
DirectInitSwapped(s, c, token) ==
  slot' = [slot EXCEPT ![s] =
    [state |-> "ONLINE", addr |-> c, token |-> Unsupported]]

\* CNetConnection::DirectInit of a slot; the second token is the one of 0.7.
DirectInit(s, c, token) ==
  slot' = [slot EXCEPT ![s] = [state |-> "ONLINE", addr |-> c, token |-> token]]

(***************************************************************************)
(* TryAcceptClient: refused (by Connlimit, by the limit per IP or because  *)
(* the server is full) the client is told so, else the first free slot is  *)
(* initialised and the callback makes a client of it.  first is what the   *)
(* caller sent before.                                                     *)
(***************************************************************************)
TryAcceptClient(m, duplicated, token, vanillaAuth, first) ==
  \/ /\ Exchange(m, duplicated, first \union {ServerMsg(m.addr, "CLOSE", token)})
     /\ UNCHANGED <<slot, client, serves>>
  \/ /\ NumClientsWithAddr(m.addr) + 1 <= MaxPerIP
     /\ \E s \in FreeSlots :
          /\ \A t \in FreeSlots : s <= t
          /\ DirectInit(s, m.addr, token)
          /\ client' = [client EXCEPT ![s] =
               IF vanillaAuth THEN "CONNECTING" ELSE "PREAUTH"]
          /\ serves' = [serves EXCEPT ![s] = m.session]
     /\ Exchange(m, duplicated, first)

ServerTakes(s, m) == slot[s].token = Unsupported \/ m.token = slot[s].token

(***************************************************************************)
(* OnConnCtrlMsg: what an ACCEPT with the right token does to a live slot. *)
(* Reset(true) keeps the state and m_SecurityToken, ClientRejoinCallback   *)
(* the state of the client.                                                *)
(***************************************************************************)
Rejoin(m, duplicated) ==
  /\ m.kind = "ACCEPT"
  /\ GetClientSlot(m.addr) # 0
  /\ m.token = GetToken(m.addr)
  /\ serves' = [serves EXCEPT ![GetClientSlot(m.addr)] = m.session]
  /\ Exchange(m, duplicated, {})
  /\ UNCHANGED <<conn, slot, client, session>>

\* OnConnCtrlMsg: a CONNECT of a client that has a slot.
ConnectInSession(m, duplicated) ==
  /\ m.kind = "CONNECT"
  /\ GetClientSlot(m.addr) # 0
  /\ Exchange(m, duplicated,
       IF m.addr \in Vanilla THEN {}
       ELSE {ServerMsg(m.addr, "CONNECTACCEPT", GetToken(m.addr))})
  /\ UNCHANGED <<conn, slot, client, session, serves>>

\* Mutant of CloseInSession: the slot is freed at once, without the callback.
CloseFreesSlot(m, duplicated) ==
  LET s == GetClientSlot(m.addr)
  IN  /\ m.kind = "CLOSE"
      /\ s # 0
      /\ ServerTakes(s, m)
      /\ slot' = [slot EXCEPT ![s] = FreeSlot]
      /\ Exchange(m, duplicated, {})
      /\ UNCHANGED <<conn, client, session, serves>>

\* Feed of a CLOSE that passes the token check and the ack window.
CloseInSession(m, duplicated) ==
  LET s == GetClientSlot(m.addr)
  IN  /\ m.kind = "CLOSE"
      /\ s # 0
      /\ ServerTakes(s, m)
      /\ slot' = [slot EXCEPT ![s].state = "ERROR"]
      /\ Exchange(m, duplicated, {})
      /\ UNCHANGED <<conn, client, session, serves>>

(***************************************************************************)
(* OnTokenCtrlMsg: a CONNECT with magic or an ACCEPT with a token of an    *)
(* address without slot.  IPv4 clients are accepted at once.               *)
(***************************************************************************)
IsDDNetControlMsg(m) ==
  \/ m.kind = "CONNECT" /\ m.addr \notin Vanilla
  \/ m.kind = "ACCEPT" /\ m.token # Unsupported

OnTokenCtrlMsg(m, duplicated) ==
  /\ IsDDNetControlMsg(m)
  /\ GetClientSlot(m.addr) = 0
  /\ \/ /\ m.addr \in IPv4
        /\ TryAcceptClient(m, duplicated, Unsupported, FALSE,
             {ServerMsg(m.addr, "CONNECTACCEPT", Unsupported)})
     \/ /\ m.addr \notin IPv4
        /\ m.kind = "CONNECT"
        /\ Exchange(m, duplicated,
             {ServerMsg(m.addr, "CONNECTACCEPT", GetToken(m.addr))})
        /\ UNCHANGED <<slot, client, serves>>
     \/ /\ m.addr \notin IPv4
        /\ m.kind = "ACCEPT"
        /\ m.token = GetToken(m.addr)
        /\ TryAcceptClient(m, duplicated, m.token, FALSE, {})
  /\ UNCHANGED <<conn, session>>

(***************************************************************************)
(* OnPreConnMsg: a client without token support.  With AntiSpoof its       *)
(* address is checked by a number it must repeat in its first input.       *)
(***************************************************************************)
OnPreConnMsg(m, duplicated) ==
  /\ ~IsDDNetControlMsg(m)
  /\ GetClientSlot(m.addr) = 0
  /\ \/ /\ m.kind = "CONNECT"
        /\ AntiSpoof
        /\ Exchange(m, duplicated,
             {ServerMsg(m.addr, "CONNECTACCEPT", Unsupported),
              ServerMsg(m.addr, "SNAPEMPTY", GetToken(m.addr))})
        /\ UNCHANGED <<slot, client, serves>>
     \/ /\ m.kind = "CONNECT"
        /\ ~AntiSpoof
        /\ TryAcceptClient(m, duplicated, Unsupported, FALSE,
             {ServerMsg(m.addr, "CONNECTACCEPT", Unsupported)})
     \/ /\ m.kind = "INPUT"
        /\ AntiSpoof
        /\ m.token = GetToken(m.addr)
        /\ TryAcceptClient(m, duplicated, Unsupported, TRUE, {})
  /\ UNCHANGED <<conn, session>>

(***************************************************************************)
(* Everything else changes nothing: a CLOSE without slot, with a wrong     *)
(* token or an ack outside the window; an ACCEPT without a token.          *)
(***************************************************************************)
ServerIgnores(m) ==
  /\ \/ m.kind = "CLOSE"
     \/ m.kind = "ACCEPT" /\ m.token # GetToken(m.addr)
     \/ m.kind = "INPUT" /\ (GetClientSlot(m.addr) # 0 \/ ~AntiSpoof)
  /\ wire' = wire \ {m}
  /\ UNCHANGED <<conn, slot, client, disturbed, session, serves>>

(***************************************************************************)
(* CNetServer::Update drops a slot that its client closed, or that times   *)
(* out; neither sends a close message.  Drop calls DelClientCallback, then *)
(* Disconnect.                                                             *)
(***************************************************************************)
ServerUpdate(s) ==
  /\ slot[s].state \in {"ERROR", "ONLINE"}
  /\ client' = [client EXCEPT ![s] = "EMPTY"]
  /\ slot' = [slot EXCEPT ![s] = FreeSlot]
  /\ UNCHANGED <<conn, wire, disturbed, session, serves>>

\* CServer::Kick of a client that is there: Drop with a close message.
Kick(s) ==
  /\ client[s] # "EMPTY"
  /\ client' = [client EXCEPT ![s] = "EMPTY"]
  /\ slot' = [slot EXCEPT ![s] = FreeSlot]
  /\ wire' = IF slot[s].state = "ERROR" THEN wire
            ELSE wire \union {ServerMsg(slot[s].addr, "CLOSE", slot[s].token)}
  /\ UNCHANGED <<conn, disturbed, session, serves>>

-----------------------------------------------------------------------------
ClientReceives(m, duplicated) ==
  \/ ReceiveConnectAccept(m.addr, m, duplicated)
  \/ ReceiveClose(m.addr, m, duplicated)
  \/ ReceiveSnapEmpty(m.addr, m, duplicated)

ServerReceives(m, duplicated) ==
  \/ Rejoin(m, duplicated)
  \/ ConnectInSession(m, duplicated)
  \/ CloseInSession(m, duplicated)
  \/ OnTokenCtrlMsg(m, duplicated)
  \/ OnPreConnMsg(m, duplicated)

HandshakeNext ==
  \/ \E c \in Clients :
       Connect(c) \/ SendConnect(c) \/ Disconnect(c) \/ ClientUpdate(c)
  \/ \E s \in Slots : ServerUpdate(s) \/ Kick(s)
  \/ LosePacket
  \/ \E m \in wire, duplicated \in BOOLEAN :
       \/ m.to = "client" /\ ClientReceives(m, duplicated)
       \/ m.to = "server" /\ ServerReceives(m, duplicated)
  \/ \E m \in wire :
       \/ m.to = "client" /\ ClientIgnores(m.addr, m)
       \/ m.to = "server" /\ ServerIgnores(m)

HandshakeSpec == HandshakeInit /\ [][HandshakeNext]_handshakeVars

(***************************************************************************)
(* Fairness.  Both main loops call Update and read the socket for ever, a  *)
(* packet sent again and again arrives.  A connection does time out when   *)
(* its peer has none, or one whose streams are those of another session:   *)
(* Feed refuses what it hears, or its oldest chunk is never acked.         *)
(***************************************************************************)
Serving(c, s) ==
  /\ conn[c].state = "ONLINE"
  /\ slot[s].state = "ONLINE"
  /\ slot[s].addr = c
  /\ serves[s] = session[c]

Served(c) == \E s \in Slots : Serving(c, s)

HandshakeFairness ==
  /\ \A c \in Clients :
       /\ WF_handshakeVars(SendConnect(c))
       /\ WF_handshakeVars(ClientUpdate(c) /\ ~Served(c))
       /\ SF_handshakeVars(\E m \in wire : m.addr = c /\ ReceiveConnectAccept(c, m, FALSE))
       /\ SF_handshakeVars(\E m \in wire : m.to = "server" /\ m.addr = c /\ m.kind = "CONNECT"
                                /\ ServerReceives(m, FALSE))
  /\ \A s \in Slots :
       WF_handshakeVars(ServerUpdate(s) /\ \A c \in Clients : ~Serving(c, s))

HandshakeFairSpec == HandshakeSpec /\ HandshakeFairness

-----------------------------------------------------------------------------
(***************************************************************************)
(* An address holds one slot, however often its CONNECT or ACCEPT arrives, *)
(* also while a slot it closed waits for Update (GetClientSlot takes the   *)
(* last match; with two the first would be cut off).                       *)
(***************************************************************************)
OneSlotPerAddress ==
  \A s, t \in Slots :
    slot[s].state = "ONLINE" /\ slot[t].state = "ONLINE" /\ slot[s].addr = slot[t].addr
      => s = t

(***************************************************************************)
(* The server has a client exactly where the network has a connection:     *)
(* callbacks of accepted, rejoined, closed, timed out and kicked clients.  *)
(***************************************************************************)
ClientIffSlot ==
  \A s \in Slots : slot[s].state = "OFFLINE" <=> client[s] = "EMPTY"

(***************************************************************************)
(* A slot and the client it serves expect the same token in each other's   *)
(* packets, so that Feed of either side takes what the other one sends.    *)
(***************************************************************************)
SameToken(c) ==
  \A s \in Slots : Serving(c, s) => slot[s].token = conn[c].token

TokenAgreement == \A c \in Clients : SameToken(c)

\* The same of the clients whose addresses are checked before they are accepted.
TokenAgreementIPv6 == \A c \in Clients \ IPv4 : SameToken(c)

(***************************************************************************)
(* The streams of a live slot are reset only when its client reconnected,  *)
(* that is when the ACCEPT is of a later session than the slot serves.     *)
(***************************************************************************)
RejoinOnlyOnReconnect ==
  [][\A m \in wire : Rejoin(m, FALSE) \/ Rejoin(m, TRUE) =>
       m.session > serves[GetClientSlot(m.addr)]]_handshakeVars

(***************************************************************************)
(* A client that connects is served in this session or gives up: a lost    *)
(* CONNECT is repeated, a lost ACCEPT, which is not, ends in a timeout.    *)
(***************************************************************************)
ConnectSettles ==
  \A c \in Clients :
    conn[c].state = "CONNECT" ~> conn[c].state = "OFFLINE" \/ Served(c)
=============================================================================
