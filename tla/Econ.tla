--------------------------------- MODULE Econ ---------------------------------
(***************************************************************************)
(* The external console: CEcon (engine/shared/econ.cpp) on top of          *)
(* CNetConsole (network_console.cpp) and CConsoleNetConnection             *)
(* (network_console_conn.cpp).                                             *)
(*                                                                         *)
(* Clients connect by TCP and type lines: first the password, then         *)
(* commands.  TCP hands over what was typed in pieces of any size; the     *)
(* connection keeps them in a buffer until a line is whole.  CEcon and     *)
(* CNetConsole each keep an array of clients, which callbacks keep in step. *)
(*                                                                         *)
(* Abstractions.  A character is "p", "x" or the end of a line: <<"p">> is *)
(* the password, <<"x">> the command logout, other lines are commands that *)
(* do nothing here.  Ends of lines are one character.  CEcon::Update is    *)
(* taken step by step, what happens to one client at a time.               *)
(***************************************************************************)
EXTENDS Integers, Sequences, SequencesExt, FiniteSets

CONSTANTS
  EconSlots,    \* NET_MAX_CONSOLE_CLIENTS
  EconIPs,      \* addresses of the clients
  EconBuffer,   \* size of m_aBuffer
  MaxAuthTries, \* MAX_AUTH_TRIES
  EconBans,     \* ec_bantime is set
  MaxTyped      \* bound: what is typed into one connection

ASSUME EconAssumption ==
  EconBuffer \in Nat /\ MaxAuthTries \in Nat /\ EconBans \in BOOLEAN /\ MaxTyped \in Nat

VARIABLES
  econConn,   \* CNetConsole: connection of each slot
  econClient, \* CEcon: m_State and m_AuthTries of each slot
  typed,      \* all that was typed into the connection, history
  underway,   \* how much of it the connection has not received
  executed,   \* the lines that came out of it, history
  econBanned  \* banned addresses

econVars == <<econConn, econClient, typed, underway, executed, econBanned>>

NoIP == "none"
Characters == {"p", "x", "nl"}

EconTypeOK ==
  /\ econConn \in [EconSlots -> [state : {"OFFLINE", "ONLINE", "ERROR"},
                                 ip : EconIPs \union {NoIP}, buffer : Seq(Characters)]]
  /\ econClient \in [EconSlots -> [state : {"EMPTY", "CONNECTED", "AUTHED"}, tries : Nat]]
  /\ typed \in [EconSlots -> Seq(Characters)]
  /\ underway \in [EconSlots -> 0 .. MaxTyped]
  /\ executed \in [EconSlots -> Seq(Seq(Characters))]
  /\ econBanned \subseteq EconIPs

ConnReset == [state |-> "OFFLINE", ip |-> NoIP, buffer |-> <<>>]
EmptyClient == [state |-> "EMPTY", tries |-> 0]

EconInit ==
  /\ econConn = [s \in EconSlots |-> ConnReset]
  /\ econClient = [s \in EconSlots |-> EmptyClient]
  /\ typed = [s \in EconSlots |-> <<>>]
  /\ underway = [s \in EconSlots |-> 0]
  /\ executed = [s \in EconSlots |-> <<>>]
  /\ econBanned = {}

-----------------------------------------------------------------------------
(* Connections.                                                             *)

\* Mutant of Drop: the callback is not called.
DropUnsaid(s) ==
  /\ econConn' = [econConn EXCEPT ![s] = ConnReset]
  /\ UNCHANGED econClient

\* CNetConsole::Drop: DelClientCallback, then the connection is closed.
Drop(s) ==
  /\ econClient' = [econClient EXCEPT ![s] = EmptyClient]
  /\ econConn' = [econConn EXCEPT ![s] = ConnReset]

Offline(s) == econConn[s].state = "OFFLINE"
FreeSlots == {s \in EconSlots : Offline(s)}

\* The first part of CNetConsole::Update, and AcceptClient: the banned, a second
\* client of an address, and one too many are sent away.
AcceptClient(ip, s) ==
  /\ ip \notin econBanned
  /\ \A t \in EconSlots : econConn[t].ip # ip
  /\ s \in FreeSlots
  /\ econConn' = [econConn EXCEPT ![s] = [state |-> "ONLINE", ip |-> ip, buffer |-> <<>>]]
  \* NewClientCallback
  /\ econClient' = [econClient EXCEPT ![s] = [state |-> "CONNECTED", tries |-> 0]]
  /\ typed' = [typed EXCEPT ![s] = <<>>]
  /\ underway' = [underway EXCEPT ![s] = 0]
  /\ executed' = [executed EXCEPT ![s] = <<>>]
  /\ UNCHANGED econBanned

\* The client types a character.
Type(s, c) ==
  /\ econConn[s].state = "ONLINE"
  /\ Len(typed[s]) < MaxTyped
  /\ typed' = [typed EXCEPT ![s] = Append(@, c)]
  /\ underway' = [underway EXCEPT ![s] = @ + 1]
  /\ UNCHANGED <<econConn, econClient, executed, econBanned>>

\* CConsoleNetConnection::Update: as much of it as TCP has and the buffer takes.
ReceivePiece(s, n) ==
  LET from == Len(typed[s]) - underway[s]
  IN  /\ econConn[s].state = "ONLINE"
      /\ Len(econConn[s].buffer) + n <= EconBuffer
      /\ n <= underway[s]
      /\ econConn' = [econConn EXCEPT ![s].buffer = @ \o SubSeq(typed[s], from + 1, from + n)]
      /\ underway' = [underway EXCEPT ![s] = @ - n]
      /\ UNCHANGED <<econClient, typed, executed, econBanned>>

\* The buffer is full without a whole line, TCP fails, or the client closes: the
\* error is noticed and the client dropped in the same update.
ConnectionFails(s) ==
  /\ econConn[s].state # "OFFLINE"
  /\ Drop(s)
  /\ UNCHANGED <<typed, underway, executed, econBanned>>

\* A line that cannot be sent leaves an error, found by the next update.
SendFails(s) ==
  /\ econConn[s].state = "ONLINE"
  /\ econConn' = [econConn EXCEPT ![s].state = "ERROR"]
  /\ UNCHANGED <<econClient, typed, underway, executed, econBanned>>

-----------------------------------------------------------------------------
(* Lines: CConsoleNetConnection::Recv and CEcon::Update.                    *)

Ends(buffer) == {i \in DOMAIN buffer : buffer[i] = "nl"}
Begin(buffer) ==
  CHOOSE i \in 1 .. Len(buffer) + 1 : /\ \A j \in 1 .. i - 1 : buffer[j] = "nl"
                                      /\ i <= Len(buffer) => buffer[i] # "nl"

\* Mutant of WholeLine: what is in the buffer counts as a line.
AnyPiece(buffer) ==
  [line |-> SubSeq(buffer, Begin(buffer), Len(buffer)), rest |-> <<>>]

\* Ends of lines before the message are skipped; it lasts to the next one, which
\* stays in the buffer.
WholeLine(buffer) ==
  LET b == Begin(buffer)
      e == CHOOSE i \in Ends(buffer) : i > b /\ \A j \in Ends(buffer) : j > b => i <= j
  IN  [line |-> SubSeq(buffer, b, e - 1), rest |-> SubSeq(buffer, e, Len(buffer))]

HasLine(buffer) == \E i \in Ends(buffer) : i > Begin(buffer)

\* The buffer of CEcon::Update is as large, but counts one less and keeps room for
\* the 0: a line of the length that is left stays where it is, until the buffer is
\* full and the connection fails.
HasRoom(line) == Len(line) <= EconBuffer - 2

\* A message that ends nowhere yet, or is too long, is moved to the front.
Compact(s) ==
  LET buffer == econConn[s].buffer
  IN  /\ econConn[s].state = "ONLINE"
      /\ HasLine(buffer) => ~HasRoom(WholeLine(buffer).line)
      /\ Begin(buffer) > 1
      /\ econConn' = [econConn EXCEPT ![s].buffer = SubSeq(@, Begin(@), Len(@))]
      /\ UNCHANGED <<econClient, typed, underway, executed, econBanned>>

\* Before the password is given a line is a try; too many of them end in a ban or
\* in a drop.
WrongPassword(s, line, rest) ==
  LET tries == econClient[s].tries + 1
  IN  /\ line # <<"p">>
      /\ IF tries >= MaxAuthTries /\ ~EconBans
           THEN Drop(s) /\ UNCHANGED econBanned
           ELSE /\ econClient' = [econClient EXCEPT ![s].tries = tries]
                /\ econConn' = [econConn EXCEPT ![s].buffer = rest]
                /\ econBanned' = IF tries >= MaxAuthTries
                                   THEN econBanned \union {econConn[s].ip} ELSE econBanned

RightPassword(s, line, rest) ==
  /\ line = <<"p">>
  /\ econClient' = [econClient EXCEPT ![s].state = "AUTHED"]
  /\ econConn' = [econConn EXCEPT ![s].buffer = rest]
  /\ UNCHANGED econBanned

\* ExecuteLine; ConLogout drops the client whose line is executed.
Command(s, line, rest) ==
  /\ IF line = <<"x">>
       THEN Drop(s)
       ELSE /\ econConn' = [econConn EXCEPT ![s].buffer = rest]
            /\ UNCHANGED econClient
  /\ UNCHANGED econBanned

RecvLine(s) ==
  LET buffer == econConn[s].buffer
      l == WholeLine(buffer)
  IN  /\ econConn[s].state = "ONLINE"
      /\ HasLine(buffer) /\ HasRoom(l.line)
      /\ executed' = [executed EXCEPT ![s] = Append(@, l.line)]
      /\ CASE econClient[s].state = "CONNECTED" -> \/ WrongPassword(s, l.line, l.rest)
                                                   \/ RightPassword(s, l.line, l.rest)
           [] econClient[s].state = "AUTHED" -> Command(s, l.line, l.rest)
      /\ UNCHANGED <<typed, underway>>

\* ec_auth_timeout
AuthTimeout(s) ==
  /\ econClient[s].state = "CONNECTED"
  /\ Drop(s)
  /\ UNCHANGED <<typed, underway, executed, econBanned>>

EconNext ==
  \E s \in EconSlots :
    \/ \E ip \in EconIPs : AcceptClient(ip, s)
    \/ \E c \in Characters : Type(s, c)
    \/ \E n \in 1 .. MaxTyped : ReceivePiece(s, n)
    \/ ConnectionFails(s) \/ SendFails(s) \/ Compact(s) \/ RecvLine(s) \/ AuthTimeout(s)

EconSpec == EconInit /\ [][EconNext]_econVars

-----------------------------------------------------------------------------
\* What a text is after one more character: its lines that have ended, without the
\* empty ones, and the one that is open.
After(text, c) ==
  IF c # "nl" THEN [ended |-> text.ended, open |-> Append(text.open, c)]
  ELSE [ended |-> IF text.open = <<>> THEN text.ended ELSE Append(text.ended, text.open),
        open |-> <<>>]

NoText == [ended |-> <<>>, open |-> <<>>]

\* A text up to each of its characters.
LinesUpTo(text) ==
  LET upTo[n \in 0 .. Len(text)] == IF n = 0 THEN NoText ELSE After(upTo[n - 1], text[n])
  IN  upTo

Lines(s) == LinesUpTo(typed[s])[Len(typed[s])].ended

\* Whatever pieces TCP makes of them, the lines that are executed are those that
\* were typed, whole and in order; and the two arrays agree on which slots have a
\* client ("got message from empty slot").
LinesAreWhole ==
  \A s \in EconSlots :
    /\ IsPrefix(executed[s], Lines(s))
    /\ econClient[s].state = "EMPTY" <=> econConn[s].state = "OFFLINE"

\* "The time a client gets banned if econ authentication fails. 0 just closes the
\* connection": nobody has more than MAX_AUTH_TRIES tries.
\* The code does not keep to it (README, section 4), and no run checks it.
TriesAreLimited == \A s \in EconSlots : econClient[s].tries <= MaxAuthTries
=============================================================================
