----------------------------- MODULE MasterServer -----------------------------
(***************************************************************************)
(* The master server (mastersrv/mastersrv.cpp), at which game servers of   *)
(* the old protocol announce themselves by heartbeats.                     *)
(*                                                                         *)
(* A heartbeat puts its sender on the list of servers to be checked.  Each *)
(* is asked, at its address and at the port it named, to answer to another *)
(* socket; one that answers is listed for EXPIRE_TIME.  Every few seconds  *)
(* expired servers are purged and the packets with the list are built      *)
(* anew, which is what those who ask for the list get.                     *)
(*                                                                         *)
(* Abstractions.  Time counts seconds.  Addresses are model values; bans   *)
(* are those of module Bans, which drop packets before anything else.      *)
(***************************************************************************)
EXTENDS Integers, Sequences, FiniteSets, SequencesExt

CONSTANTS
  Addrs,       \* addresses of servers
  PerPacket,   \* MAX_SERVERS_PER_PACKET
  MaxPackets,  \* MAX_PACKETS
  ExpireTime,  \* EXPIRE_TIME
  MaxTries,    \* 10
  BuildEvery,  \* 5: the packets are built after more than that
  MaxChecks,   \* bound: entries of m_aCheckServers, below MAX_SERVERS
  MasterEnd       \* bound: time

ASSUME MasterServerAssumption ==
  /\ PerPacket \in Nat \ {0} /\ MaxPackets \in Nat \ {0}
  /\ ExpireTime \in Nat /\ MaxTries \in Nat /\ BuildEvery \in Nat
  /\ MaxChecks \in Nat /\ MasterEnd \in Nat

VARIABLES
  masterNow,        \* time_get()
  lastBuild,  \* LastBuild
  checks,     \* m_aCheckServers: [address, alt, type, tries, time]
  servers,    \* m_aServers: [address, type, expire]
  packets,    \* m_aPackets and m_aPacketsLegacy: the addresses in each
  answered    \* history: when an address last answered a check, -1 for never

masterVars == <<masterNow, lastBuild, checks, servers, packets, answered>>

Types == {"normal", "legacy"}
MaxServers == PerPacket * MaxPackets

MasterTypeOK ==
  /\ masterNow \in 0 .. MasterEnd /\ lastBuild \in -1 - BuildEvery .. MasterEnd
  /\ \A n \in DOMAIN checks :
       checks[n] \in [address : Addrs, alt : Addrs, type : Types, tries : 0 .. MaxTries,
                      time : -1 .. MasterEnd]
  /\ Len(servers) <= MaxServers
  /\ \A n \in DOMAIN servers :
       servers[n] \in [address : Addrs, type : Types, expire : Nat]
  /\ \A t \in Types : \A n \in DOMAIN packets[t] : packets[t][n] \in Seq(Addrs)
  /\ answered \in [Addrs -> -1 .. MasterEnd]

MasterInit ==
  /\ masterNow = 0 /\ lastBuild = -1 - BuildEvery
  /\ checks = <<>> /\ servers = <<>>
  /\ packets = [t \in Types |-> <<>>]
  /\ answered = [a \in Addrs |-> -1]

-----------------------------------------------------------------------------

\* SERVERBROWSE_HEARTBEAT: AddCheckserver, unless there are too many.  A server that
\* is being checked is added once more.
Heartbeat(a, alt, type) ==
  /\ Len(checks) < MaxChecks
  /\ checks' = Append(checks, [address |-> a, alt |-> alt, type |-> type, tries |-> 0,
                               time |-> -1])
  /\ UNCHANGED <<masterNow, lastBuild, servers, packets, answered>>

\* The last of s comes to the place n.
MoveLastTo(s, n) == Front([s EXCEPT ![n] = s[Len(s)]])

\* AddServer: an address is listed once, and keeps its type.
AddServer(a, type) ==
  LET known == {n \in DOMAIN servers : servers[n].address = a}
  IN  IF known # {}
        THEN servers' = [servers EXCEPT ![CHOOSE n \in known : TRUE].expire = masterNow + ExpireTime]
      ELSE IF Len(servers) = MaxServers THEN UNCHANGED servers
      ELSE servers' = Append(servers, [address |-> a, type |-> type,
                                       expire |-> masterNow + ExpireTime])

\* SERVERBROWSE_FWRESPONSE from a: the first check that fits is over.
FwResponse(a) ==
  LET fits == {n \in DOMAIN checks : a \in {checks[n].address, checks[n].alt}}
      n == CHOOSE m \in fits : \A k \in fits : m <= k
  IN  /\ fits # {}
      /\ checks' = MoveLastTo(checks, n)
      /\ AddServer(a, checks[n].type)
      /\ answered' = [answered EXCEPT ![a] = masterNow]
      /\ UNCHANGED <<masterNow, lastBuild, packets>>

\* A loop here, at st.i of the list st.s: an entry of gone is removed, and the last one
\* takes its place, to be looked at next; any other becomes what kept makes of it.
LookAt(st, gone, kept) ==
  IF st.s[st.i] \in gone
    THEN [i |-> st.i, s |-> MoveLastTo(st.s, st.i)]
  ELSE [i |-> st.i + 1, s |-> [st.s EXCEPT ![st.i] = kept[st.s[st.i]]]]

Sweep(s, gone, kept) ==
  LET after[k \in 0 .. Len(s)] ==
        IF k = 0 THEN [i |-> 1, s |-> s] ELSE LookAt(after[k - 1], gone, kept)
  IN  after[Len(s)].s

Expired(s) == {e \in Range(s) : e.expire < masterNow}

\* Mutant of PurgeServers: the server that takes the place is not looked at.
PurgeSkipping(s) ==
  LET after[k \in 0 .. Len(s)] ==
        IF k = 0 THEN [i |-> 1, s |-> s]
        ELSE LET st == after[k - 1]
             IN  IF st.i > Len(st.s) THEN st
                 ELSE IF st.s[st.i] \in Expired(s)
                   THEN [i |-> st.i + 1, s |-> MoveLastTo(st.s, st.i)]
                 ELSE [i |-> st.i + 1, s |-> st.s]
  IN  after[Len(s)].s

PurgeServers(s) == Sweep(s, Expired(s), [e \in Range(s) |-> e])

\* UpdateServers: those whose last check is more than a second ago are asked again,
\* or given up (SendError).
UpdateServers ==
  LET due == {c \in Range(checks) : masterNow > c.time + 1 \/ c.time = -1}
  IN  Sweep(checks, {c \in due : c.tries = MaxTries},
            [c \in Range(checks) |->
               IF c \in due THEN [c EXCEPT !.tries = @ + 1, !.time = masterNow] ELSE c])

\* BuildPackets, until all packets are in use: server e gets into packets p.
Put(p, e) ==
  LET mine == p[e.type]
  IN  IF Len(p["normal"]) + Len(p["legacy"]) >= MaxPackets THEN p
      ELSE IF mine = <<>> \/ Len(mine[Len(mine)]) = PerPacket
        THEN [p EXCEPT ![e.type] = Append(mine, <<e.address>>)]
      ELSE [p EXCEPT ![e.type] =
              [mine EXCEPT ![Len(mine)] = Append(mine[Len(mine)], e.address)]]

BuildPackets(s) ==
  LET after[k \in 0 .. Len(s)] ==
        IF k = 0 THEN [t \in Types |-> <<>>] ELSE Put(after[k - 1], s[k])
  IN  after[Len(s)]

\* The main loop, every few seconds.
Build ==
  /\ masterNow - lastBuild > BuildEvery
  /\ lastBuild' = masterNow
  /\ servers' = PurgeServers(servers)
  /\ checks' = UpdateServers
  /\ packets' = BuildPackets(servers')
  /\ UNCHANGED <<masterNow, answered>>

\* Time passes; the main loop is not late.
Pass ==
  /\ masterNow < MasterEnd
  /\ masterNow - lastBuild <= BuildEvery
  /\ masterNow' = masterNow + 1
  /\ UNCHANGED <<lastBuild, checks, servers, packets, answered>>

MasterNext ==
  \/ \E a, alt \in Addrs, t \in Types : Heartbeat(a, alt, t)
  \/ \E a \in Addrs : FwResponse(a)
  \/ Build \/ Pass

MasterSpec == MasterInit /\ [][MasterNext]_masterVars

-----------------------------------------------------------------------------
\* What SERVERBROWSE_GETLIST gets names no address twice, and none that has not
\* answered a check in the last EXPIRE_TIME and the time until the next build, though
\* the loops that purge remove from the list they walk (mastersrv.cpp:233-319).
ListIsAlive ==
  \A t \in Types : \A i \in DOMAIN packets[t] : \A m \in DOMAIN packets[t][i] :
    LET a == packets[t][i][m]
    IN  /\ \A u \in Types : \A j \in DOMAIN packets[u] : \A n \in DOMAIN packets[u][j] :
             packets[u][j][n] = a => u = t /\ j = i /\ n = m
        /\ answered[a] # -1
        /\ masterNow <= answered[a] + ExpireTime + BuildEvery + 1
=============================================================================
