--------------------------------- MODULE Stun ---------------------------------
(***************************************************************************)
(* How a client finds out its global address: CStun::CProtocol             *)
(* (engine/shared/network_stun.cpp) and its messages                       *)
(* (engine/shared/stun.cpp).                                               *)
(*                                                                         *)
(* The client asks a STUN server again and again, waiting longer each      *)
(* time, until an answer comes.  Each request has a new transaction id, so *)
(* that an answer which comes after the next request is not recognised.    *)
(*                                                                         *)
(* Abstractions.  One protocol; those of IPv4 and IPv6 share nothing.  An  *)
(* answer carries whether it belongs to the last request, not the id.      *)
(* Times are distances from now in seconds.                                *)
(***************************************************************************)
EXTENDS Integers, FiniteSets

CONSTANTS
  StunServers,   \* the servers FeedStunServer may name
  NoServer,
  MaxShift,      \* tries after which the wait grows no more (9)
  Enough,        \* tries that are a little (5)
  Old,           \* seconds after which an answer is old (30)
  MaxAnswers,    \* bound: answers in flight
  MaxFeeds       \* bound: changes of the server

ASSUME StunAssumption ==
  /\ MaxShift \in Nat /\ Enough \in Nat \ {0} /\ Old \in Nat
  /\ MaxAnswers \in Nat /\ MaxFeeds \in Nat /\ NoServer \notin StunServers

VARIABLES
  server,   \* m_StunServer; NoServer while m_HaveStunServer is false
  addrFrom, \* the server that told m_Addr; NoServer while m_HaveAddr is false
  since,    \* seconds since m_LastResponse, up to Old; -1 for none
  nextTry,  \* seconds until m_NextTry, 0 if it is due; -1 for none
  tries,    \* m_NumUnsuccessfulTries, counted up to StunTriesCap
  answers,  \* the answers in flight
  feeds     \* changes of the server so far

stunVars == <<server, addrFrom, since, nextTry, tries, answers, feeds>>

\* More tries than this make no difference.
StunTriesCap == 1 + IF MaxShift > Enough THEN MaxShift ELSE Enough

\* 1 << n
PowerOf2[n \in 0 .. StunTriesCap] == IF n = 0 THEN 1 ELSE 2 * PowerOf2[n - 1]

Answers == [fresh : BOOLEAN, kind : {"success", "error", "unusable"}, from : StunServers]

StunTypeOK ==
  /\ server \in StunServers \union {NoServer}
  /\ addrFrom \in StunServers \union {NoServer}
  /\ since \in -1 .. Old
  /\ nextTry \in -1 .. PowerOf2[MaxShift]
  /\ tries \in -1 .. StunTriesCap
  /\ answers \subseteq Answers /\ Cardinality(answers) <= MaxAnswers
  /\ feeds \in 0 .. MaxFeeds

StunInit ==
  /\ server = NoServer /\ addrFrom = NoServer
  /\ since = -1 /\ nextTry = -1 /\ tries = -1
  /\ answers = {} /\ feeds = 0

-----------------------------------------------------------------------------
\* Mutant of RetryWaitSeconds: no limit to the wait.
WaitsLonger(n) == PowerOf2[IF n < 0 THEN 0 ELSE n]

RetryWaitSeconds(n) == PowerOf2[IF n < 0 THEN 0 ELSE IF n > MaxShift THEN MaxShift ELSE n]

\* The server was told by the game; one that is already known is left alone.
FeedStunServer(s) ==
  /\ s # server /\ feeds < MaxFeeds
  /\ server' = s /\ tries' = 0 /\ nextTry' = 0 /\ feeds' = feeds + 1
  /\ UNCHANGED <<addrFrom, since, answers>>

StunRefresh ==
  /\ nextTry' = 0
  /\ UNCHANGED <<server, addrFrom, since, tries, answers, feeds>>

\* Mutant of OneMore: tries that failed are not counted.
NoneMore(n) == IF n < 0 THEN 0 ELSE n

OneMore(n) == IF n = StunTriesCap THEN n ELSE n + 1

(***************************************************************************)
(* CProtocol::Update.  The next try is set before the request is sent, so  *)
(* that a request that cannot be sent counts as well.  The new transaction *)
(* id makes every answer in flight an old one.  The request may be lost or *)
(* be answered at once.                                                    *)
(***************************************************************************)
StunUpdate ==
  /\ nextTry = 0 /\ server # NoServer
  /\ nextTry' = RetryWaitSeconds(tries)
  /\ tries' = OneMore(tries)
  /\ LET old == {[a EXCEPT !.fresh = FALSE] : a \in answers}
     IN  \/ answers' = old
         \/ \E kind \in {"success", "error", "unusable"} :
              answers' = old \union {[fresh |-> TRUE, kind |-> kind, from |-> server]}
  /\ Cardinality(answers') <= MaxAnswers
  /\ UNCHANGED <<server, addrFrom, since, feeds>>

\* StunMessageParse: of an answer that is well-formed, to the last request,
\* and tells an address unless it is an error.
Parses(a) == a.fresh /\ a.kind # "unusable"

(***************************************************************************)
(* CProtocol::OnPacket.  An answer may come more than once.  Its sender is *)
(* not looked at.                                                          *)
(***************************************************************************)
OnPacket(a) ==
  /\ a \in answers
  /\ \E again \in BOOLEAN : answers' = IF again THEN answers ELSE answers \ {a}
  /\ IF nextTry < 0 \/ server = NoServer \/ ~Parses(a)
     THEN UNCHANGED <<addrFrom, since, nextTry, tries>>
     ELSE /\ since' = 0
          /\ IF a.kind = "error" THEN addrFrom' = NoServer /\ UNCHANGED <<nextTry, tries>>
             ELSE addrFrom' = a.from /\ nextTry' = -1 /\ tries' = -1
  /\ UNCHANGED <<server, feeds>>

LosesAnswer(a) ==
  /\ a \in answers /\ answers' = answers \ {a}
  /\ UNCHANGED <<server, addrFrom, since, nextTry, tries, feeds>>

\* A second passes; Update runs in every turn of the client's loop and thus
\* before, if it has something to do.
SecondPasses ==
  /\ ~(nextTry = 0 /\ server # NoServer)
  /\ nextTry' = IF nextTry > 0 THEN nextTry - 1 ELSE nextTry
  /\ since' = IF since = -1 \/ since = Old THEN since ELSE since + 1
  /\ UNCHANGED <<server, addrFrom, tries, answers, feeds>>

-----------------------------------------------------------------------------
HaveTriedALittle == tries >= Enough /\ (since = -1 \/ since = Old)

\* What GetConnectivity returns.
Connectivity ==
  CASE server = NoServer -> "unknown"
    [] server # NoServer /\ since = -1 /\ ~HaveTriedALittle -> "checking"
    [] server # NoServer /\ HaveTriedALittle -> "unreachable"
    [] OTHER -> IF addrFrom = NoServer THEN "reachable" ELSE "address known"

StunNext ==
  \/ \E s \in StunServers : FeedStunServer(s)
  \/ StunUpdate \/ StunRefresh \/ SecondPasses
  \/ \E a \in answers : OnPacket(a) \/ LosesAnswer(a)

(***************************************************************************)
(* The client's loop calls Update in every turn, and time goes on.  Of the *)
(* network nothing is assumed.                                             *)
(***************************************************************************)
StunSpec ==
  /\ StunInit /\ [][StunNext]_stunVars
  /\ WF_stunVars(StunUpdate) /\ WF_stunVars(SecondPasses)

(***************************************************************************)
(* Whatever becomes of the requests and answers, the client is not left    *)
(* checking for ever: once it knows a server it learns whether it can be   *)
(* reached (network_stun.cpp:45-136).                                      *)
(***************************************************************************)
CheckingEnds == (server # NoServer) ~> (Connectivity \notin {"unknown", "checking"})
=============================================================================
