------------------------------- MODULE Votes -------------------------------
(***************************************************************************)
(* Votes of the game context (game/server/gamecontext.cpp): calling a vote *)
(* to kick a player, to move it to the spectators or to use an option,     *)
(* voting, the tally that OnTick makes, and what ends a vote, while        *)
(* clients come, enter, change teams and leave (Session).                  *)
(*                                                                         *)
(* Abstractions.  The command line of a vote is a record, kept while the   *)
(* vote runs; the command of an option changes nothing here.  The parts of *)
(* OnTick (the world, the controller, the votes) are actions of their own, *)
(* so that messages may come between them: the model has more orders than  *)
(* the code, and a map of ids may be as stale as sv_mapupdaterate allows.  *)
(* Times are left out but for the 25 seconds of a vote, which are over at  *)
(* some tick or not (late).  sv_vote_kick_min is 0.  Administrators use    *)
(* the external console: no client is authenticated.                       *)
(***************************************************************************)
EXTENDS Session

CONSTANT KickBantimes  \* values that sv_vote_kick_bantime takes: minutes, or 0
                       \* for a plain kick

ASSUME KickBantimesAssumption == KickBantimes \subseteq Nat

\* m_aVoteCommand: "kick <id>", "set_team <id> -1", "ban <id>" or "ban <ip>"
Commands == [kind : {"kick", "set_team", "ban_id"}, id : Nat]
              \union [kind : {"ban"}, ip : IPs]
              \union [kind : {"option"}]

Option == [kind |-> "option"]

VARIABLES
  close,     \* m_VoteCloseTime: 0 (none), a time (running) or -1 (abort)
  command,   \* m_aVoteCommand of the running vote
  enforce,   \* m_VoteEnforce
  update,    \* m_VoteUpdate
  pos,       \* m_VotePos of the running vote
  target,    \* history: session the vote was called against, 0 if none
  ballots,   \* history: sessions that voted yes in this vote
  forced     \* history: an administrator made this vote pass

voteVars == <<close, command, enforce, update, pos, target, ballots, forced>>

vars == <<sessionVars, voteVars>>

VoteTypeOK ==
  /\ close \in {"none", "running", "abort"}
  /\ command \in Commands
  /\ enforce \in {"UNKNOWN", "YES", "NO"}
  /\ update \in BOOLEAN
  /\ pos \in Nat
  /\ target \in Nat
  /\ ballots \subseteq Nat
  /\ forced \in BOOLEAN

TypeOK == SessionTypeOK /\ VoteTypeOK

Init ==
  /\ InitSession
  /\ close = "none"
  /\ command = Option
  /\ enforce = "UNKNOWN"
  /\ update = FALSE
  /\ pos = 0
  /\ target = 0
  /\ ballots = {}
  /\ forced = FALSE

-----------------------------------------------------------------------------
(* Clients come, enter and leave. *)

Come ==
  /\ UNCHANGED voteVars
  /\ \E s \in Slots :
       \/ \E a \in IPs : NewClient(s, a) \/ NewClientNoAuth(s, a)
       \/ OnClientVer(s)
       \/ OnInfo(s)
       \/ OnReady(s)
       \/ OnStartInfo(s)

\* Mutant of EnterGame: the votes are not told.
EnterGameUnnoticed ==
  /\ \E s \in Slots : OnEnterGame(s)
  /\ UNCHANGED voteVars

\* OnClientEnter
EnterGame ==
  /\ \E s \in Slots : OnEnterGame(s)
  /\ update' = TRUE
  /\ UNCHANGED <<close, command, enforce, pos, target, ballots, forced>>

\* Mutant of AimsAt: only a kick is aborted.
KicksOnly(cmd, S) == cmd.kind = "kick" /\ cmd.id \in S

\* Whether the command line names a client of S by its id.
AimsAt(cmd, S) == cmd.kind \in {"kick", "set_team"} /\ cmd.id \in S

\* m_VoteCloseTime and m_VoteUpdate after OnClientDrop of the slots in S.
CloseAfterDrop(S) ==
  IF close # "none" /\ AimsAt(command, NotifiedDrops(S)) THEN "abort" ELSE close

UpdateAfterDrop(S) == update \/ NotifiedDrops(S) # {}

\* A client leaves, times out or is kicked by an administrator.
Leave ==
  /\ \E s \in Slots :
       /\ state[s] # "EMPTY"
       /\ Dropped({s})
       /\ close' = CloseAfterDrop({s})
       /\ update' = UpdateAfterDrop({s})
  /\ UNCHANGED <<command, enforce, pos, target, ballots, forced>>

\* The main loop loads a generated map: CGameContext::Clear zeroes the votes.
Reload ==
  /\ SessionReload
  /\ close' = "none"
  /\ command' = Option
  /\ enforce' = "UNKNOWN"
  /\ update' = FALSE
  /\ pos' = 0
  /\ target' = 0
  /\ ballots' = {}
  /\ forced' = FALSE

-----------------------------------------------------------------------------
(* Messages of clients in the game, commands of an administrator. *)

\* Mutant of VotesReset: votes of an earlier vote stay.
VotesKept == player

\* StartVote takes back all votes.
VotesReset ==
  [s \in Slots |-> IF HasPlayer(s)
                     THEN [player[s] EXCEPT !.vote = 0, !.votePos = 0]
                     ELSE player[s]]

\* CALLVOTE of client c with the given command line, against session t.
StartVote(c, cmd, t) ==
  /\ Ingame(c)
  /\ Playing(c)
  /\ close = "none"
  /\ close' = "running"
  /\ command' = cmd
  /\ enforce' = "UNKNOWN"
  /\ update' = TRUE
  /\ pos' = 1
  /\ player' = [VotesReset EXCEPT ![c] = [@ EXCEPT !.vote = 1, !.votePos = 1]]
  /\ target' = t
  /\ ballots' = {session[c]}
  /\ forced' = FALSE
  /\ UNCHANGED <<state, ip, session, sessions>>

\* Mutant of KickCommand: the address is that of the slot, in use or not.
KickCommandOfSlot(t, bantime) ==
  IF bantime = 0 THEN [kind |-> "kick", id |-> t] ELSE [kind |-> "ban", ip |-> ip[t]]

\* The command of a kick vote.  Without address the ban names the client id
\* that the bantime happens to be: "ban  5 Banned by vote".
KickCommand(t, bantime) ==
  IF bantime = 0 THEN [kind |-> "kick", id |-> t]
  ELSE IF Ingame(t)  THEN [kind |-> "ban", ip |-> ip[t]]
                     ELSE [kind |-> "ban_id", id |-> bantime]

SessionOfPlayer(t) == IF HasPlayer(t) THEN session[t] ELSE 0

\* The code checks the id the client sent and then translates it.
CallKick(c, v) ==
  /\ HasPlayer(v)
  /\ v # c
  /\ \E t \in ReverseTranslate(c, v), bantime \in KickBantimes :
       StartVote(c, KickCommand(t, bantime), SessionOfPlayer(t))

CallSpectate(c, v) ==
  /\ Playing(v)
  /\ v # c
  /\ \E t \in ReverseTranslate(c, v) :
       StartVote(c, [kind |-> "set_team", id |-> t],
                 SessionOfPlayer(t))

CallVote ==
  /\ \E c \in Slots :
       /\ Ingame(c)
       /\ \/ StartVote(c, Option, 0)
          \/ \E v \in Slots : CallKick(c, v) \/ CallSpectate(c, v)

Vote ==
  /\ close # "none"
  /\ \E c \in Slots, choice \in {-1, 1} :
       /\ Ingame(c)
       /\ player[c].vote = 0
       /\ player' = [player EXCEPT ![c] = [@ EXCEPT !.vote = choice,
                                                    !.votePos = pos + 1]]
       /\ ballots' = IF choice = 1 THEN ballots \union {session[c]} ELSE ballots
  /\ pos' = pos + 1
  /\ update' = TRUE
  /\ UNCHANGED <<state, ip, session, sessions, close, command, enforce,
                 target, forced>>

\* Only spectators change their team, to the game.
SetTeam ==
  /\ \E c \in Slots :
       /\ Ingame(c)
       /\ player[c].team = "spectators"
       /\ player' = [player EXCEPT ![c].team = "game"]
  /\ update' = TRUE
  /\ UNCHANGED <<state, ip, session, sessions, close, command, enforce,
                 pos, target, ballots, forced>>

ConSetTeam ==
  /\ \E s \in Slots, t \in Teams :
       /\ HasPlayer(s)
       /\ player[s].team # t
       /\ player' = [player EXCEPT ![s].team = t]
  /\ UNCHANGED <<state, ip, session, sessions, close, command, enforce,
                 update, pos, target, ballots, forced>>

ConVote ==
  /\ close # "none"
  /\ \/ enforce' = "YES" /\ forced' = TRUE
     \/ enforce' = "NO" /\ forced' = FALSE
  /\ UNCHANGED <<sessionVars, close, command, update, pos, target, ballots>>

-----------------------------------------------------------------------------
(* A tick: the world, the controller, the votes. *)

\* CGameWorld::Tick; the maps of ids are updated every sv_mapupdaterate ticks.
WorldTick ==
  /\ player' = MapsUpdated
  /\ UNCHANGED <<state, ip, session, sessions, close, command, enforce,
                 update, pos, target, ballots, forced>>

\* CGameController::Tick: an inactive player is moved to the spectators, or
\* kicked, before the votes of the tick are counted.
ControllerTick ==
  /\ \E s \in Slots :
       /\ Playing(s)
       /\ \/ /\ player' = ToSpectators({s})
             /\ UNCHANGED <<state, ip, session, sessions, close, update>>
          \/ /\ Dropped({s})
             /\ close' = CloseAfterDrop({s})
             /\ update' = UpdateAfterDrop({s})
  /\ UNCHANGED <<command, enforce, pos, target, ballots, forced>>

\* GetClientAddr: a client that is not in the game yet has no address.
ClientAddr(s) == IF Ingame(s) THEN ip[s] ELSE NoIP

\* The players counted as one voter with i: i itself and those in higher slots
\* with the same address string.
SameAddress(i) ==
  {i} \union {j \in Slots : j > i /\ HasPlayer(j) /\ ClientAddr(j) = ClientAddr(i)}

\* The voters of the tally: who plays and has no player with its address in a
\* lower slot.
Voters ==
  {i \in Slots : Playing(i) /\ ~ \E j \in Slots : /\ j < i
                                                  /\ Playing(j)
                                                  /\ ClientAddr(j) = ClientAddr(i)}

\* ActVote: the vote of the one who voted first.
ActVote(i) ==
  LET cast == {j \in SameAddress(i) : player[j].vote # 0}
  IN  IF cast = {} THEN 0
      ELSE player[CHOOSE j \in cast :
                    \A k \in cast : player[j].votePos <= player[k].votePos].vote

Total == Cardinality(Voters)
Yes == Cardinality({i \in Voters : ActVote(i) = 1})
No == Cardinality({i \in Voters : ActVote(i) = -1})

\* Mutant of YesWins: one half is enough.
YesWinsTie == Yes >= Total \div 2

YesWins == Yes >= Total \div 2 + 1
NoWins == No >= (Total + 1) \div 2

Enforced ==
  CASE update /\ YesWins            -> "YES"
    [] update /\ ~YesWins /\ NoWins -> "NO"
    [] OTHER                        -> enforce

\* The clients that the command drops: Kick, and ConBanExt with BanExt.
DroppedBy(cmd) ==
  CASE cmd.kind = "kick"   -> {s \in Slots : s = cmd.id /\ state[s] # "EMPTY"}
    [] cmd.kind = "ban"    -> {s \in Slots : state[s] # "EMPTY" /\ ip[s] = cmd.ip}
    [] cmd.kind = "ban_id" -> {s \in Slots : /\ state[s] # "EMPTY"
                                             /\ \E t \in Slots : /\ t = cmd.id
                                                                 /\ ip[s] = ip[t]}
    [] OTHER               -> {}

\* ExecuteLine(m_aVoteCommand)
ExecuteLine ==
  IF command.kind = "set_team"
    THEN /\ player' = ToSpectators({command.id})
         /\ UNCHANGED <<state, ip, session, sessions, update>>
    ELSE /\ Dropped(DroppedBy(command))
         /\ update' = UpdateAfterDrop(DroppedBy(command))

\* EndVote, with what the history keeps of a vote.
EndVote ==
  /\ close' = "none"
  /\ command' = Option
  /\ pos' = 0
  /\ target' = 0
  /\ ballots' = {}
  /\ forced' = FALSE

\* OnTick, its part on votes, before or after the 25 seconds of the vote.
VoteTick(late) ==
  \/ /\ close = "abort"
     /\ EndVote
     /\ UNCHANGED <<sessionVars, enforce, update>>
  \/ /\ close = "running"
     /\ enforce' = Enforced
     /\ \/ Enforced = "YES" /\ ExecuteLine /\ EndVote
        \/ /\ Enforced # "YES"
           /\ Enforced = "NO" \/ late
           /\ EndVote
           /\ UNCHANGED <<sessionVars, update>>
        \/ /\ Enforced # "YES"
           /\ Enforced # "NO" /\ ~late
           /\ update' = FALSE
           /\ UNCHANGED <<sessionVars, close, command, pos, target, ballots, forced>>

Next ==
  \/ Come \/ EnterGame \/ Leave \/ Reload
  \/ CallVote \/ Vote \/ SetTeam \/ ConSetTeam \/ ConVote
  \/ WorldTick \/ ControllerTick
  \/ \E late \in BOOLEAN : VoteTick(late)

Spec == Init /\ [][Next]_vars

-----------------------------------------------------------------------------
(* Properties. *)

\* A vote that names a slot hits whom it was called against: while it runs,
\* nobody else gets the slot of the player it was called against, because
\* AbortVoteKickOnDisconnect ends it when that player leaves, and a reload of
\* the map ends it too.
TargetKeepsSlot ==
  (close = "running" /\ command.kind \in {"kick", "set_team"} /\ target # 0)
    => session[command.id] = target

\* A vote that no administrator forced passes only when, of the addresses that
\* play at that moment, more than half have a client that voted yes in this
\* vote.  Votes of an earlier vote, of clients that left, or of several
\* clients with one address do not add up to it.
MajorityVotedYes ==
  LET playing == {ip[s] : s \in {p \in Slots : Ingame(p) /\ Playing(p)}}
      voted   == {ip[s] : s \in {p \in Slots : Ingame(p) /\ session[p] \in ballots}}
  IN  2 * Cardinality(playing \intersect voted) > Cardinality(playing)

PassedByMajority ==
  [][(close = "running" /\ close' = "none" /\ enforce' = "YES" /\ ~forced)
       => MajorityVotedYes]_vars

\* The tally is taken only when m_VoteUpdate is set: whatever decides an
\* undecided vote sets it, but for a change of team by a command or for
\* inactivity.
Decided == YesWins \/ NoWins
TeamChanges == \E s \in Slots : /\ HasPlayer(s)
                               /\ HasPlayer(s)'
                               /\ player[s].team # player'[s].team

DecisionIsNoticed ==
  [][(close = "running" /\ close' = "running" /\ ~Decided /\ Decided')
       => (update' \/ TeamChanges)]_vars

\* A kick vote is called against a player, and not against its caller
\* ("You can't kick yourself", gamecontext.cpp:876).
KickNamesAnotherPlayer ==
  [][(close = "none" /\ close' = "running" /\ command'.kind \in {"kick", "ban", "ban_id"})
       => target' # 0 /\ target' \notin ballots']_vars
=============================================================================
