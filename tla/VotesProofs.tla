----------------------------- MODULE VotesProofs -----------------------------
(***************************************************************************)
(* Votes keeps its type, keeps the player objects in step with the         *)
(* sessions, and keeps the slot a vote names in the hands of the player it *)
(* was called against; what passes has a majority, and what decides a vote *)
(* is noticed: for any number of slots, addresses and clients, and for     *)
(* maps of ids as stale as they may get.                                   *)
(***************************************************************************)
EXTENDS Votes, TLAPS, FiniteSetTheorems

\* A slot that is in use has the address of its client.
AddressOfClient == \A s \in Slots : state[s] # "EMPTY" => ip[s] \in IPs

\* The slot that a running vote names has a player, the one the vote was
\* called against: without the first part a drop of that slot would go
\* unnoticed.
TargetPlays ==
  (close = "running" /\ command.kind \in {"kick", "set_team"} /\ target # 0)
    => /\ command.id \in Slots
       /\ HasPlayer(command.id)
       /\ session[command.id] = target

SessionInv == SessionTypeOK /\ PlayerIffReady /\ AddressOfClient

IInv == SessionInv /\ VoteTypeOK /\ TargetPlays

-----------------------------------------------------------------------------
(***************************************************************************)
(* What the steps do to the sessions.                                      *)
(***************************************************************************)
\* No field of a session changes but those of players that stay.
LEMMA PlayersChange ==
  ASSUME SessionInv, player' \in [Slots -> Players \union {NoPlayer}],
         \A s \in Slots : HasPlayer(s) <=> player'[s] # NoPlayer,
         \A s \in Slots : HasPlayer(s) /\ player[s].ready => player'[s].ready,
         UNCHANGED <<state, ip, session, sessions>>
  PROVE  SessionInv'
BY DEF SessionInv, SessionTypeOK, PlayerIffReady, AddressOfClient, HasPlayer, Ingame

\* A player stays a player when its team, its map or its start info changes.
LEMMA PlayerFields ==
  ASSUME NEW p \in Players
  PROVE  /\ \A t \in Teams : /\ [p EXCEPT !.team = t] \in Players
                            /\ [p EXCEPT !.team = t].ready = p.ready
                            /\ [p EXCEPT !.team = t].vote = p.vote
         /\ \A K \in SUBSET Slots : /\ [p EXCEPT !.known = K] \in Players
                                   /\ [p EXCEPT !.known = K].ready = p.ready
                                   /\ [p EXCEPT !.known = K].vote = p.vote
         /\ [p EXCEPT !.ready = TRUE] \in Players
         /\ [p EXCEPT !.ready = TRUE].vote = p.vote
BY DEF Players

\* A player stays a player when it votes.
LEMMA VoteFields ==
  ASSUME NEW p \in Players, NEW v \in {-1, 0, 1}, NEW n \in Nat
  PROVE  /\ [p EXCEPT !.vote = v, !.votePos = n] \in Players
         /\ [p EXCEPT !.vote = v, !.votePos = n].ready = p.ready
         /\ [p EXCEPT !.vote = v, !.votePos = n].vote = v
BY DEF Players

\* A new client takes an empty slot, which has no player.
LEMMA EnterStep ==
  ASSUME SessionInv, NEW s \in Slots, NEW a \in IPs,
         NEW st \in {"PREAUTH", "CONNECTING"}, Enter(s, a, st)
  PROVE  /\ SessionInv'
         /\ \A t \in Slots : HasPlayer(t) => session'[t] = session[t]
         /\ UNCHANGED player
<1>1. SessionTypeOK'
  BY SessionAssumption DEF SessionInv, SessionTypeOK, Enter, States
<1>2. (PlayerIffReady /\ AddressOfClient)'
  BY DEF SessionInv, SessionTypeOK, PlayerIffReady, AddressOfClient, Enter, HasPlayer,
         Ingame, States
<1>3. \A t \in Slots : HasPlayer(t) => session'[t] = session[t]
  BY DEF SessionInv, SessionTypeOK, PlayerIffReady, Enter, HasPlayer
<1> QED BY <1>1, <1>2, <1>3 DEF SessionInv, Enter

\* The slots in S are dropped; a player that is dropped is one that the game
\* hears of.
LEMMA DropStep ==
  ASSUME SessionInv, NEW S \in SUBSET Slots, Dropped(S)
  PROVE  /\ SessionInv'
         /\ \A t \in Slots \ NotifiedDrops(S) :
              HasPlayer(t) => player'[t] # NoPlayer /\ session'[t] = session[t]
<1>1. SessionTypeOK'
  BY DEF SessionInv, SessionTypeOK, Dropped, States
<1>2. (PlayerIffReady /\ AddressOfClient)'
  BY DEF SessionInv, SessionTypeOK, PlayerIffReady, AddressOfClient, Dropped,
         NotifiedDrops, HasPlayer, Ingame, States
<1>3. \A t \in Slots \ NotifiedDrops(S) :
        HasPlayer(t) => player'[t] # NoPlayer /\ session'[t] = session[t]
  BY DEF SessionInv, PlayerIffReady, Dropped, NotifiedDrops, HasPlayer
<1> QED BY <1>1, <1>2, <1>3 DEF SessionInv

\* A drop ends a vote that names the dropped player.
LEMMA DropTarget ==
  ASSUME IInv, NEW S \in SUBSET Slots, Dropped(S),
         close' = CloseAfterDrop(S), UNCHANGED <<command, target>>
  PROVE  TargetPlays'
<1> SUFFICES ASSUME close' = "running", command.kind \in {"kick", "set_team"}, target # 0
             PROVE  /\ command.id \in Slots
                    /\ player'[command.id] # NoPlayer
                    /\ session'[command.id] = target
  BY DEF TargetPlays, HasPlayer
<1>1. close = "running" /\ ~AimsAt(command, NotifiedDrops(S))
  BY DEF CloseAfterDrop
<1>2. command.id \in Slots /\ HasPlayer(command.id) /\ session[command.id] = target
  BY <1>1 DEF IInv, TargetPlays
<1>3. command.id \notin NotifiedDrops(S)
  BY <1>1 DEF AimsAt
<1> QED BY <1>2, <1>3, DropStep DEF IInv

\* The type of what a drop leaves of a vote.
LEMMA DropVoteType ==
  ASSUME VoteTypeOK, NEW S
  PROVE  /\ CloseAfterDrop(S) \in {"none", "running", "abort"}
         /\ UpdateAfterDrop(S) \in BOOLEAN
BY DEF VoteTypeOK, CloseAfterDrop, UpdateAfterDrop

\* Whoever has a player before and after a step in its slot keeps the vote
\* against it.
LEMMA TargetStays ==
  ASSUME IInv, UNCHANGED <<command, target>>, close' = close,
         \A t \in Slots : HasPlayer(t) => player'[t] # NoPlayer /\ session'[t] = session[t]
  PROVE  TargetPlays'
BY DEF IInv, TargetPlays, HasPlayer

-----------------------------------------------------------------------------
(***************************************************************************)
(* One lemma for each action.                                              *)
(***************************************************************************)
\* A client comes, or goes on with its session.
LEMMA ComeStep ==
  ASSUME IInv, Come
  PROVE  IInv'
<1>0. VoteTypeOK'
  BY DEF Come, voteVars, IInv, VoteTypeOK
<1> SUFFICES /\ SessionInv'
             /\ \A t \in Slots : HasPlayer(t) => player'[t] # NoPlayer /\ session'[t] = session[t]
  BY <1>0, TargetStays DEF Come, voteVars, IInv
<1>1. PICK s \in Slots :
        \/ \E a \in IPs : NewClient(s, a) \/ NewClientNoAuth(s, a)
        \/ OnClientVer(s) \/ OnInfo(s) \/ OnReady(s) \/ OnStartInfo(s)
  BY DEF Come
<1>2. CASE \E a \in IPs : NewClient(s, a) \/ NewClientNoAuth(s, a)
  BY <1>2, EnterStep DEF IInv, NewClient, NewClientNoAuth, HasPlayer
<1>3. CASE OnClientVer(s) \/ OnInfo(s)
  BY <1>3 DEF OnClientVer, OnInfo, Step, IInv, SessionInv, SessionTypeOK,
              PlayerIffReady, AddressOfClient, HasPlayer, Ingame, States
<1>4. CASE OnReady(s)
  <2>1. NewPlayer(s) \in Players
    BY DEF NewPlayer, Players, Teams
  <2> QED BY <1>4, <2>1, NoPlayerAssumption
          DEF OnReady, Step, IInv, SessionInv, SessionTypeOK,
              PlayerIffReady, AddressOfClient, HasPlayer, Ingame, States
<1>5. CASE OnStartInfo(s)
  <2>1. HasPlayer(s) /\ player[s] \in Players
    BY <1>5 DEF OnStartInfo, IInv, SessionInv, SessionTypeOK, PlayerIffReady, HasPlayer
  <2>2. [player[s] EXCEPT !.ready = TRUE] \in Players \ {NoPlayer}
    BY <2>1, PlayerFields, NoPlayerAssumption
  <2>3. [player[s] EXCEPT !.ready = TRUE].ready
    BY <2>1 DEF Players
  <2>4. player' = [player EXCEPT ![s] = [player[s] EXCEPT !.ready = TRUE]]
    BY <1>5 DEF OnStartInfo
  <2>5. player \in [Slots -> Players \union {NoPlayer}]
    BY DEF IInv, SessionInv, SessionTypeOK
  <2>6. SessionInv'
    BY <2>1, <2>2, <2>3, <2>4, <2>5, <1>5, PlayersChange DEF OnStartInfo, IInv, HasPlayer
  <2> QED BY <2>2, <2>4, <2>5, <2>6, <1>5 DEF OnStartInfo, HasPlayer
<1> QED BY <1>1, <1>2, <1>3, <1>4, <1>5

\* A client enters the game.
LEMMA EnterGameStep ==
  ASSUME IInv, EnterGame
  PROVE  IInv'
<1>1. PICK s \in Slots : OnEnterGame(s)
  BY DEF EnterGame
<1>2. SessionInv'
  BY <1>1 DEF OnEnterGame, Step, IInv, SessionInv, SessionTypeOK,
              PlayerIffReady, AddressOfClient, HasPlayer, Ingame, States
<1>3. VoteTypeOK'
  BY DEF EnterGame, IInv, VoteTypeOK
<1>4. TargetPlays'
  BY <1>1, TargetStays DEF EnterGame, OnEnterGame, Step, HasPlayer
<1> QED BY <1>2, <1>3, <1>4 DEF IInv

\* A client leaves.
LEMMA LeaveStep ==
  ASSUME IInv, Leave
  PROVE  IInv'
<1>1. PICK s \in Slots : /\ Dropped({s})
                         /\ close' = CloseAfterDrop({s})
                         /\ update' = UpdateAfterDrop({s})
  BY DEF Leave
<1>2. SessionInv' /\ TargetPlays'
  BY <1>1, DropStep, DropTarget DEF Leave, IInv
<1>3. VoteTypeOK'
  BY <1>1, DropVoteType DEF Leave, IInv, VoteTypeOK
<1> QED BY <1>2, <1>3 DEF IInv

\* A new map: no player, no vote.
LEMMA ReloadStep ==
  ASSUME IInv, Reload
  PROVE  IInv'
<1>1. SessionInv'
  BY DEF Reload, SessionReload, IInv, SessionInv, SessionTypeOK,
         PlayerIffReady, AddressOfClient, HasPlayer, Ingame, States
<1>2. VoteTypeOK' /\ TargetPlays'
  BY DEF Reload, VoteTypeOK, TargetPlays, Commands, Option
<1> QED BY <1>1, <1>2 DEF IInv

\* A vote starts with a command of its type, against a player that is there.
LEMMA StartVoteStep ==
  ASSUME IInv, NEW c \in Slots, NEW cmd \in Commands, NEW t \in Nat,
         StartVote(c, cmd, t),
         cmd.kind \in {"kick", "set_team"} /\ t # 0
           => cmd.id \in Slots /\ HasPlayer(cmd.id) /\ session[cmd.id] = t
  PROVE  IInv'
<1>1. player \in [Slots -> Players \union {NoPlayer}]
  BY DEF IInv, SessionInv, SessionTypeOK
<1>2. \A s \in Slots : HasPlayer(s) => /\ [player[s] EXCEPT !.vote = 0, !.votePos = 0] \in Players
                                      /\ [player[s] EXCEPT !.vote = 0, !.votePos = 0].ready
                                           = player[s].ready
  BY <1>1, VoteFields DEF HasPlayer
<1>3. HasPlayer(c) /\ VotesReset[c] \in Players /\ VotesReset[c].ready = player[c].ready
  BY <1>2 DEF StartVote, Playing, VotesReset
<1> DEFINE p == [VotesReset[c] EXCEPT !.vote = 1, !.votePos = 1]
<1>4. p \in Players /\ p.ready = player[c].ready
  BY <1>3, VoteFields
<1>5. player' = [VotesReset EXCEPT ![c] = p]
  BY DEF StartVote
<1>6. \A s \in Slots : player'[s] = IF s = c THEN p ELSE VotesReset[s]
  BY <1>5 DEF VotesReset
<1>7. /\ player' \in [Slots -> Players \union {NoPlayer}]
      /\ \A s \in Slots : HasPlayer(s) <=> player'[s] # NoPlayer
      /\ \A s \in Slots : HasPlayer(s) /\ player[s].ready => player'[s].ready
  <2> HIDE DEF p
  <2>1. player' \in [Slots -> Players \union {NoPlayer}]
    BY <1>1, <1>2, <1>4, <1>5 DEF VotesReset, HasPlayer
  <2>2. \A s \in Slots : HasPlayer(s) <=> player'[s] # NoPlayer
    BY <1>2, <1>3, <1>4, <1>6, NoPlayerAssumption DEF VotesReset, HasPlayer
  <2>3. \A s \in Slots : HasPlayer(s) /\ player[s].ready => player'[s].ready
    BY <1>2, <1>4, <1>6 DEF VotesReset
  <2> QED BY <2>1, <2>2, <2>3
<1>8. SessionInv'
  BY <1>7, PlayersChange DEF StartVote, IInv
<1>9. VoteTypeOK'
  BY DEF StartVote, VoteTypeOK, IInv, SessionInv, SessionTypeOK
<1>10. TargetPlays'
  BY <1>7 DEF StartVote, TargetPlays, HasPlayer
<1> QED BY <1>8, <1>9, <1>10 DEF IInv

\* A player that is there takes the place of the one in its slot.
LEMMA OnePlayerStep ==
  ASSUME IInv, NEW s \in Slots, NEW p \in Players, HasPlayer(s),
         p.ready = player[s].ready,
         player' = [player EXCEPT ![s] = p],
         UNCHANGED <<state, ip, session, sessions>>
  PROVE  /\ SessionInv'
         /\ \A t \in Slots : HasPlayer(t) => player'[t] # NoPlayer /\ session'[t] = session[t]
<1>1. player \in [Slots -> Players \union {NoPlayer}]
  BY DEF IInv, SessionInv, SessionTypeOK
<1>2. \A t \in Slots : HasPlayer(t) <=> player'[t] # NoPlayer
  BY <1>1, NoPlayerAssumption DEF HasPlayer
<1>3. SessionInv'
  BY <1>1, <1>2, PlayersChange DEF IInv
<1> QED BY <1>2, <1>3

\* All players may change at once, as long as each one stays.
LEMMA AllPlayersStep ==
  ASSUME IInv,
         player' \in [Slots -> Players \union {NoPlayer}],
         \A s \in Slots : HasPlayer(s) => /\ player'[s] \in Players
                                         /\ player'[s].ready = player[s].ready,
         \A s \in Slots : ~HasPlayer(s) => player'[s] = player[s],
         UNCHANGED <<state, ip, session, sessions>>
  PROVE  /\ SessionInv'
         /\ \A t \in Slots : HasPlayer(t) => player'[t] # NoPlayer /\ session'[t] = session[t]
<1>1. \A t \in Slots : HasPlayer(t) <=> player'[t] # NoPlayer
  BY NoPlayerAssumption DEF HasPlayer
<1>2. SessionInv'
  BY <1>1, PlayersChange DEF IInv
<1> QED BY <1>1, <1>2

\* The client itself, or a slot in its map of ids.
LEMMA TranslatedSlot ==
  ASSUME IInv, NEW c \in Slots, HasPlayer(c), NEW v, NEW t \in ReverseTranslate(c, v)
  PROVE  t \in Slots
<1>1. player[c] \in Players
  BY DEF IInv, SessionInv, SessionTypeOK, HasPlayer
<1> QED BY <1>1 DEF ReverseTranslate, Players

\* A client calls a vote.
LEMMA CallVoteStep ==
  ASSUME IInv, CallVote
  PROVE  IInv'
<1>1. PICK c \in Slots :
        /\ Ingame(c)
        /\ \/ StartVote(c, Option, 0)
           \/ \E v \in Slots : CallKick(c, v) \/ CallSpectate(c, v)
  BY DEF CallVote
<1>2. HasPlayer(c)
  BY <1>1 DEF IInv, SessionInv, PlayerIffReady, Ingame
<1>3. Slots \subseteq Nat /\ KickBantimes \subseteq Nat
  BY SessionAssumption, KickBantimesAssumption
<1>4. \A t \in Slots : SessionOfPlayer(t) \in Nat
  BY DEF SessionOfPlayer, IInv, SessionInv, SessionTypeOK
<1>5. CASE StartVote(c, Option, 0)
  <2>1. Option \in Commands
    BY DEF Option, Commands
  <2> QED BY <1>5, <2>1, StartVoteStep
<1>6. ASSUME NEW v \in Slots, CallKick(c, v)
      PROVE  IInv'
  <2>1. PICK t \in ReverseTranslate(c, v), bantime \in KickBantimes :
          StartVote(c, KickCommand(t, bantime), SessionOfPlayer(t))
    BY <1>6 DEF CallKick
  <2>2. t \in Slots
    BY <1>2, TranslatedSlot
  <2>3. Ingame(t) => ip[t] \in IPs
    BY <2>2 DEF Ingame, IInv, SessionInv, AddressOfClient
  <2>4. KickCommand(t, bantime) \in Commands
    BY <1>3, <2>2, <2>3 DEF KickCommand, Commands
  <2>5. KickCommand(t, bantime).kind \in {"kick", "set_team"}
          => KickCommand(t, bantime).id = t
    BY DEF KickCommand
  <2>6. SessionOfPlayer(t) # 0 => HasPlayer(t) /\ session[t] = SessionOfPlayer(t)
    BY DEF SessionOfPlayer
  <2> QED BY <1>4, <2>1, <2>2, <2>4, <2>5, <2>6, StartVoteStep
<1>7. ASSUME NEW v \in Slots, CallSpectate(c, v)
      PROVE  IInv'
  <2>1. PICK t \in ReverseTranslate(c, v) :
          StartVote(c, [kind |-> "set_team", id |-> t], SessionOfPlayer(t))
    BY <1>7 DEF CallSpectate
  <2>2. t \in Slots
    BY <1>2, TranslatedSlot
  <2>3. [kind |-> "set_team", id |-> t] \in Commands
    BY <1>3, <2>2 DEF Commands
  <2>4. SessionOfPlayer(t) # 0 => HasPlayer(t) /\ session[t] = SessionOfPlayer(t)
    BY DEF SessionOfPlayer
  <2>5. \A cmd : cmd = [kind |-> "set_team", id |-> t] => cmd.id = t
    OBVIOUS
  <2> QED BY <1>4, <2>1, <2>2, <2>3, <2>4, <2>5, StartVoteStep
<1> QED BY <1>1, <1>5, <1>6, <1>7

\* A client votes.
LEMMA VoteStep ==
  ASSUME IInv, Vote
  PROVE  IInv'
<1>1. PICK c \in Slots, choice \in {-1, 1} :
        /\ Ingame(c)
        /\ player' = [player EXCEPT ![c] = [@ EXCEPT !.vote = choice, !.votePos = pos + 1]]
        /\ ballots' = IF choice = 1 THEN ballots \union {session[c]} ELSE ballots
  BY DEF Vote
<1> DEFINE p == [player[c] EXCEPT !.vote = choice, !.votePos = pos + 1]
<1>2. pos + 1 \in Nat /\ choice \in {-1, 0, 1} /\ session[c] \in Nat
  BY DEF IInv, VoteTypeOK, SessionInv, SessionTypeOK
<1>3. HasPlayer(c) /\ player[c] \in Players
  BY <1>1 DEF IInv, SessionInv, SessionTypeOK, PlayerIffReady, Ingame, HasPlayer
<1>4. p \in Players /\ p.ready = player[c].ready
  BY <1>2, <1>3 DEF Players
<1>5. player' = [player EXCEPT ![c] = p]
  BY <1>1
<1>6. /\ SessionInv'
      /\ \A t \in Slots : HasPlayer(t) => player'[t] # NoPlayer /\ session'[t] = session[t]
  <2> HIDE DEF p
  <2> QED BY <1>3, <1>4, <1>5, OnePlayerStep DEF Vote
<1>7. VoteTypeOK'
  BY <1>1, <1>2 DEF Vote, IInv, VoteTypeOK
<1>8. TargetPlays'
  BY <1>6, TargetStays DEF Vote
<1> QED BY <1>6, <1>7, <1>8 DEF IInv

\* A player changes its team, by itself or by a command.
LEMMA SetTeamStep ==
  ASSUME IInv, SetTeam \/ ConSetTeam
  PROVE  IInv'
<1>1. PICK s \in Slots, t \in Teams :
        /\ HasPlayer(s)
        /\ player' = [player EXCEPT ![s].team = t]
  <2>1. CASE SetTeam
    BY <2>1 DEF SetTeam, Teams, IInv, SessionInv, PlayerIffReady, Ingame
  <2>2. CASE ConSetTeam
    BY <2>2 DEF ConSetTeam
  <2> QED BY <2>1, <2>2
<1> DEFINE p == [player[s] EXCEPT !.team = t]
<1>2. player[s] \in Players
  BY <1>1 DEF IInv, SessionInv, SessionTypeOK, HasPlayer
<1>3. p \in Players /\ p.ready = player[s].ready
  BY <1>2, PlayerFields
<1>4. player' = [player EXCEPT ![s] = p]
  BY <1>1
<1>5. UNCHANGED <<state, ip, session, sessions, close, command, enforce, pos, target,
                  ballots, forced>>
  BY DEF SetTeam, ConSetTeam
<1>6. /\ SessionInv'
      /\ \A u \in Slots : HasPlayer(u) => player'[u] # NoPlayer /\ session'[u] = session[u]
  <2> HIDE DEF p
  <2> QED BY <1>1, <1>3, <1>4, <1>5, OnePlayerStep
<1>7. VoteTypeOK'
  BY <1>5 DEF SetTeam, ConSetTeam, IInv, VoteTypeOK
<1>8. TargetPlays'
  BY <1>5, <1>6, TargetStays
<1> QED BY <1>6, <1>7, <1>8 DEF IInv

\* An administrator decides the vote.
LEMMA ConVoteStep ==
  ASSUME IInv, ConVote
  PROVE  IInv'
<1>1. SessionInv'
  BY DEF ConVote, sessionVars, IInv, SessionInv, SessionTypeOK, PlayerIffReady,
         AddressOfClient, HasPlayer, Ingame
<1>2. VoteTypeOK' /\ TargetPlays'
  BY DEF ConVote, sessionVars, IInv, VoteTypeOK, TargetPlays, HasPlayer
<1> QED BY <1>1, <1>2 DEF IInv

\* The maps of ids are updated.
LEMMA WorldTickStep ==
  ASSUME IInv, WorldTick
  PROVE  IInv'
<1> DEFINE K == {t \in Slots : Ingame(t)}
           p(s) == [player[s] EXCEPT !.known = K]
<1>1. player \in [Slots -> Players \union {NoPlayer}]
  BY DEF IInv, SessionInv, SessionTypeOK
<1>2. player' = [s \in Slots |-> IF Ingame(s) /\ HasPlayer(s) THEN p(s) ELSE player[s]]
  BY DEF WorldTick, MapsUpdated
<1>3. \A s \in Slots : HasPlayer(s) => p(s) \in Players /\ p(s).ready = player[s].ready
  BY <1>1, PlayerFields DEF HasPlayer
<1>4. /\ SessionInv'
      /\ \A t \in Slots : HasPlayer(t) => player'[t] # NoPlayer /\ session'[t] = session[t]
  <2> HIDE DEF p
  <2>1. player' \in [Slots -> Players \union {NoPlayer}]
    BY <1>1, <1>2, <1>3
  <2>2. \A s \in Slots : HasPlayer(s) => /\ player'[s] \in Players
                                         /\ player'[s].ready = player[s].ready
    BY <1>1, <1>2, <1>3 DEF HasPlayer
  <2>3. \A s \in Slots : ~HasPlayer(s) => player'[s] = player[s]
    BY <1>2
  <2> QED BY <2>1, <2>2, <2>3, AllPlayersStep DEF WorldTick
<1>5. VoteTypeOK'
  BY DEF WorldTick, IInv, VoteTypeOK
<1>6. TargetPlays'
  BY <1>4, TargetStays DEF WorldTick
<1> QED BY <1>4, <1>5, <1>6 DEF IInv

\* SetTeam(TEAM_SPECTATORS) of some players keeps all of them.
LEMMA ToSpectatorsStep ==
  ASSUME IInv, NEW S, player' = ToSpectators(S),
         UNCHANGED <<state, ip, session, sessions>>
  PROVE  /\ SessionInv'
         /\ \A t \in Slots : HasPlayer(t) => player'[t] # NoPlayer /\ session'[t] = session[t]
<1> DEFINE p(s) == [player[s] EXCEPT !.team = "spectators"]
<1>1. player \in [Slots -> Players \union {NoPlayer}]
  BY DEF IInv, SessionInv, SessionTypeOK
<1>2. player' = [s \in Slots |-> IF s \in S /\ HasPlayer(s) THEN p(s) ELSE player[s]]
  BY DEF ToSpectators
<1>3. \A s \in Slots : HasPlayer(s) => p(s) \in Players /\ p(s).ready = player[s].ready
  BY <1>1, PlayerFields DEF HasPlayer, Teams
<1> HIDE DEF p
<1>4. player' \in [Slots -> Players \union {NoPlayer}]
  BY <1>1, <1>2, <1>3
<1>5. \A s \in Slots : HasPlayer(s) => /\ player'[s] \in Players
                                       /\ player'[s].ready = player[s].ready
  BY <1>1, <1>2, <1>3 DEF HasPlayer
<1>6. \A s \in Slots : ~HasPlayer(s) => player'[s] = player[s]
  BY <1>2
<1> QED BY <1>4, <1>5, <1>6, AllPlayersStep

\* An inactive player is moved to the spectators or kicked.
LEMMA ControllerTickStep ==
  ASSUME IInv, ControllerTick
  PROVE  IInv'
<1>1. PICK s \in Slots :
        \/ /\ player' = ToSpectators({s})
           /\ UNCHANGED <<state, ip, session, sessions, close, update>>
        \/ /\ Dropped({s})
           /\ close' = CloseAfterDrop({s})
           /\ update' = UpdateAfterDrop({s})
  BY DEF ControllerTick
<1>2. CASE /\ player' = ToSpectators({s})
           /\ UNCHANGED <<state, ip, session, sessions, close, update>>
  <2>1. SessionInv' /\ TargetPlays'
    BY <1>2, ToSpectatorsStep, TargetStays DEF ControllerTick
  <2>2. VoteTypeOK'
    BY <1>2 DEF ControllerTick, IInv, VoteTypeOK
  <2> QED BY <2>1, <2>2 DEF IInv
<1>3. CASE /\ Dropped({s})
           /\ close' = CloseAfterDrop({s})
           /\ update' = UpdateAfterDrop({s})
  <2>1. SessionInv' /\ TargetPlays'
    BY <1>3, DropStep, DropTarget DEF ControllerTick, IInv
  <2>2. VoteTypeOK'
    BY <1>3, DropVoteType DEF ControllerTick, IInv, VoteTypeOK
  <2> QED BY <2>1, <2>2 DEF IInv
<1> QED BY <1>1, <1>2, <1>3

\* What ends a vote leaves a vote of the right type, and none that names a slot.
LEMMA EndVoteOK ==
  ASSUME IInv, EndVote, enforce' \in {"UNKNOWN", "YES", "NO"}, update' \in BOOLEAN
  PROVE  VoteTypeOK' /\ TargetPlays'
BY DEF EndVote, VoteTypeOK, TargetPlays, Commands, Option

\* The command of a vote keeps the sessions in step.
LEMMA ExecuteLineStep ==
  ASSUME IInv, ExecuteLine
  PROVE  SessionInv' /\ update' \in BOOLEAN
<1>1. CASE command.kind = "set_team"
  BY <1>1, ToSpectatorsStep DEF ExecuteLine, IInv, VoteTypeOK
<1>2. CASE command.kind # "set_team"
  <2>1. DroppedBy(command) \in SUBSET Slots
    BY DEF DroppedBy
  <2>2. Dropped(DroppedBy(command)) /\ update' = UpdateAfterDrop(DroppedBy(command))
    BY <1>2 DEF ExecuteLine
  <2> QED BY <2>1, <2>2, DropStep, DropVoteType DEF IInv
<1> QED BY <1>1, <1>2

\* The votes are counted.
LEMMA VoteTickStep ==
  ASSUME IInv, NEW late \in BOOLEAN, VoteTick(late)
  PROVE  IInv'
<1>1. Enforced \in {"UNKNOWN", "YES", "NO"}
  BY DEF Enforced, IInv, VoteTypeOK
<1>2. UNCHANGED sessionVars => SessionInv'
  BY DEF sessionVars, IInv, SessionInv, SessionTypeOK, PlayerIffReady,
         AddressOfClient, HasPlayer, Ingame
<1>3. CASE close = "abort" /\ EndVote /\ UNCHANGED <<sessionVars, enforce, update>>
  BY <1>2, <1>3, EndVoteOK DEF IInv, VoteTypeOK
<1>4. CASE enforce' = Enforced /\ ExecuteLine /\ EndVote
  BY <1>1, <1>4, ExecuteLineStep, EndVoteOK DEF IInv
<1>5. CASE enforce' = Enforced /\ EndVote /\ UNCHANGED <<sessionVars, update>>
  BY <1>1, <1>2, <1>5, EndVoteOK DEF IInv, VoteTypeOK
<1>6. CASE /\ enforce' = Enforced
           /\ update' = FALSE
           /\ UNCHANGED <<sessionVars, close, command, pos, target, ballots, forced>>
  <2>1. VoteTypeOK'
    BY <1>1, <1>6 DEF IInv, VoteTypeOK
  <2>2. TargetPlays'
    BY <1>6 DEF IInv, TargetPlays, sessionVars, HasPlayer
  <2> QED BY <1>2, <1>6, <2>1, <2>2 DEF IInv
<1> QED BY <1>3, <1>4, <1>5, <1>6 DEF VoteTick

-----------------------------------------------------------------------------
(***************************************************************************)
(* The invariant and the theorems.                                         *)
(***************************************************************************)
\* No client and no vote.
LEMMA InitIInv == Init => IInv
<1> SUFFICES ASSUME Init PROVE IInv
  OBVIOUS
<1>1. SessionTypeOK
  BY SessionAssumption DEF Init, InitSession, SessionTypeOK, States
<1>2. PlayerIffReady /\ AddressOfClient
  BY DEF Init, InitSession, PlayerIffReady, AddressOfClient, HasPlayer, Ingame
<1>3. VoteTypeOK /\ TargetPlays
  BY DEF Init, VoteTypeOK, TargetPlays, Commands, Option
<1> QED BY <1>1, <1>2, <1>3 DEF IInv, SessionInv

\* Every step keeps the invariant.
LEMMA NextIInv == IInv /\ [Next]_vars => IInv'
<1> SUFFICES ASSUME IInv, [Next]_vars PROVE IInv'
  OBVIOUS
<1>1. CASE UNCHANGED vars
  BY <1>1 DEF vars, sessionVars, voteVars, IInv, SessionInv, SessionTypeOK, PlayerIffReady,
              AddressOfClient, VoteTypeOK, TargetPlays, HasPlayer, Ingame
<1>2. CASE Next
  BY <1>2, ComeStep, EnterGameStep, LeaveStep, ReloadStep, CallVoteStep, VoteStep,
     SetTeamStep, ConVoteStep, WorldTickStep, ControllerTickStep, VoteTickStep DEF Next
<1> QED BY <1>1, <1>2

LEMMA Invariance == Spec => []IInv
BY InitIInv, NextIInv, PTL DEF Spec

\* Sessions, players and the vote keep their types.
THEOREM TypeCorrect == Spec => []TypeOK
<1>1. IInv => TypeOK
  BY DEF IInv, SessionInv, TypeOK
<1> QED BY <1>1, Invariance, PTL

\* There is a player object exactly for the clients whose game messages and
\* drops reach the game context, which uses the object without a test.
THEOREM PlayersFollowSessions == Spec => []PlayerIffReady
<1>1. IInv => PlayerIffReady
  BY DEF IInv, SessionInv
<1> QED BY <1>1, Invariance, PTL

\* A running vote that names a slot names the client it was called against,
\* whoever comes and leaves meanwhile.
THEOREM VoteHitsItsTarget == Spec => []TargetKeepsSlot
<1>1. IInv => TargetKeepsSlot
  BY DEF IInv, TargetPlays, TargetKeepsSlot
<1> QED BY <1>1, Invariance, PTL

-----------------------------------------------------------------------------
(***************************************************************************)
(* The tally.  A vote that was cast belongs to a client in the game that   *)
(* voted in the running vote, and only an administrator leaves the vote    *)
(* enforced before the tally; the addresses of the voters that count as    *)
(* yes are then a majority of those that play.                             *)
(***************************************************************************)
BallotInv ==
  /\ \A s \in Slots : HasPlayer(s) /\ player[s].vote # 0 => Ingame(s)
  /\ close # "none" => \A s \in Slots : HasPlayer(s) /\ player[s].vote = 1
                                          => session[s] \in ballots
  /\ close = "running" /\ enforce = "YES" => forced

\* Every set of numbers that is not empty has a least one.
LEMMA LeastNumber ==
  ASSUME NEW T \in SUBSET Nat, T # {}
  PROVE  \E x \in T : \A y \in T : x <= y
<1> DEFINE R == OpToRel(<, Nat)
<1>1. \A x, y \in Nat : x < y => <<x, y>> \in R
  BY DEF OpToRel
<1>2. PICK x \in T : \A y \in T : <<y, x>> \notin R
  <2> HIDE DEF R
  <2>1. IsWellFoundedOn(R, Nat)
    BY NatLessThanWellFounded DEF R
  <2> QED BY <2>1, WFMin
<1>3. \A y \in T : ~(y < x)
  <2> HIDE DEF R
  <2> QED BY <1>1, <1>2
<1>4. \A m, n \in Nat : ~(n < m) => m <= n
  OBVIOUS
<1> HIDE DEF R
<1> QED BY <1>2, <1>3, <1>4

\* Votes that were not cast in a step belong to whom they did before.
LEMMA BallotsStay ==
  ASSUME BallotInv,
         \A s \in Slots : player'[s] # NoPlayer /\ player'[s].vote # 0 =>
           /\ HasPlayer(s)
           /\ player'[s].vote = player[s].vote
           /\ session'[s] = session[s]
           /\ Ingame(s) => state'[s] = "INGAME",
         ballots \subseteq ballots',
         close' \in {close, "abort"}, close' # "none" => close # "none",
         UNCHANGED <<enforce, forced>>
  PROVE  BallotInv'
BY DEF BallotInv, HasPlayer, Ingame

\* What is left of the sessions of players after a drop.
LEMMA DropBallots ==
  ASSUME IInv, BallotInv, NEW S \in SUBSET Slots, Dropped(S)
  PROVE  \A s \in Slots : player'[s] # NoPlayer =>
           /\ HasPlayer(s)
           /\ player'[s] = player[s]
           /\ session'[s] = session[s]
           /\ state'[s] = state[s]
BY DEF IInv, SessionInv, PlayerIffReady, Dropped, NotifiedDrops, HasPlayer

\* Dropped players take their votes along.
LEMMA DropBallotInv ==
  ASSUME IInv, BallotInv, NEW S \in SUBSET Slots, Dropped(S),
         close' = CloseAfterDrop(S), UNCHANGED <<enforce, forced, ballots>>
  PROVE  BallotInv'
<1>1. close' \in {close, "abort"} /\ (close' # "none" => close # "none")
  BY DEF CloseAfterDrop
<1> QED BY <1>1, DropBallots, BallotsStay DEF Ingame

\* A client that comes has not voted.
LEMMA ComeBallots ==
  ASSUME IInv, BallotInv, Come
  PROVE  BallotInv'
<1> SUFFICES \A s \in Slots : player'[s] # NoPlayer /\ player'[s].vote # 0 =>
               /\ HasPlayer(s)
               /\ player'[s].vote = player[s].vote
               /\ session'[s] = session[s]
               /\ Ingame(s) => state'[s] = "INGAME"
  BY BallotsStay DEF Come, voteVars
<1>1. PICK s \in Slots :
        \/ \E a \in IPs : NewClient(s, a) \/ NewClientNoAuth(s, a)
        \/ OnClientVer(s) \/ OnInfo(s) \/ OnReady(s) \/ OnStartInfo(s)
  BY DEF Come
<1>0. /\ player \in [Slots -> Players \union {NoPlayer}]
      /\ state \in [Slots -> States]
      /\ session \in [Slots -> Nat]
  BY DEF IInv, SessionInv, SessionTypeOK
<1>2. CASE \E a \in IPs : NewClient(s, a) \/ NewClientNoAuth(s, a)
  BY <1>0, <1>2 DEF NewClient, NewClientNoAuth, Enter, Ingame, HasPlayer, IInv,
                    SessionInv, PlayerIffReady
<1>3. CASE OnClientVer(s) \/ OnInfo(s)
  BY <1>0, <1>3 DEF OnClientVer, OnInfo, Step, Ingame, HasPlayer
<1>4. CASE OnReady(s)
  <2>1. NewPlayer(s).vote = 0
    BY DEF NewPlayer
  <2> QED BY <1>0, <1>4, <2>1 DEF OnReady, Step, Ingame, HasPlayer
<1>5. CASE OnStartInfo(s)
  <2>1. HasPlayer(s)
    BY <1>5 DEF OnStartInfo, IInv, SessionInv, PlayerIffReady, HasPlayer
  <2>2. player[s] \in Players
    BY <1>0, <2>1 DEF HasPlayer
  <2>3. [player[s] EXCEPT !.ready = TRUE].vote = player[s].vote
    BY <2>2, PlayerFields
  <2>4. player' = [player EXCEPT ![s] = [player[s] EXCEPT !.ready = TRUE]]
    BY <1>5 DEF OnStartInfo
  <2>5. \A t \in Slots : player'[t] # NoPlayer /\ player'[t].vote # 0 =>
                           HasPlayer(t) /\ player'[t].vote = player[t].vote
    BY <1>0, <2>1, <2>3, <2>4 DEF HasPlayer
  <2> QED BY <2>5, <1>5 DEF OnStartInfo, Ingame
<1> QED BY <1>1, <1>2, <1>3, <1>4, <1>5

\* When a vote starts, the only vote is that of the caller.
LEMMA StartVoteBallots ==
  ASSUME IInv, NEW c \in Slots, NEW cmd, NEW t, StartVote(c, cmd, t)
  PROVE  BallotInv'
<1>1. player \in [Slots -> Players \union {NoPlayer}]
  BY DEF IInv, SessionInv, SessionTypeOK
<1>2. \A s \in Slots : HasPlayer(s) => [player[s] EXCEPT !.vote = 0, !.votePos = 0].vote = 0
  BY <1>1, VoteFields DEF HasPlayer
<1>3. \A s \in Slots \ {c} : player'[s] # NoPlayer => player'[s].vote = 0
  BY <1>2 DEF StartVote, VotesReset, HasPlayer
<1>4. Ingame(c) /\ UNCHANGED <<state, session>> /\ ballots' = {session[c]} /\ enforce' = "UNKNOWN"
  BY DEF StartVote
<1> QED BY <1>3, <1>4 DEF BallotInv, HasPlayer, Ingame

\* A vote is cast once, by a client in the game, and kept as a ballot.
LEMMA VoteBallots ==
  ASSUME IInv, BallotInv, Vote
  PROVE  BallotInv'
<1>1. PICK c \in Slots, choice \in {-1, 1} :
        /\ Ingame(c)
        /\ player' = [player EXCEPT ![c] = [@ EXCEPT !.vote = choice, !.votePos = pos + 1]]
        /\ ballots' = IF choice = 1 THEN ballots \union {session[c]} ELSE ballots
  BY DEF Vote
<1>2. /\ player \in [Slots -> Players \union {NoPlayer}]
      /\ pos + 1 \in Nat
      /\ choice \in {-1, 0, 1}
  BY DEF IInv, SessionInv, SessionTypeOK, VoteTypeOK
<1>3. player[c] \in Players
  BY <1>1, <1>2 DEF IInv, SessionInv, PlayerIffReady, Ingame, HasPlayer
<1>4. [player[c] EXCEPT !.vote = choice, !.votePos = pos + 1].vote = choice
  BY <1>2, <1>3, VoteFields
<1>5. player'[c].vote = choice /\ \A s \in Slots \ {c} : player'[s] = player[s]
  BY <1>1, <1>2, <1>4
<1>6. UNCHANGED <<state, session, close, enforce, forced>>
  BY DEF Vote
<1> QED BY <1>1, <1>5, <1>6 DEF BallotInv, HasPlayer, Ingame

\* Teams and maps of ids are no votes.
LEMMA OtherFieldsBallots ==
  ASSUME IInv, BallotInv,
         \A s \in Slots : player'[s] # NoPlayer => HasPlayer(s) /\ player'[s].vote = player[s].vote,
         close' = close, UNCHANGED <<state, session, ballots, enforce, forced>>
  PROVE  BallotInv'
BY DEF BallotInv, HasPlayer, Ingame

\* A change of teams or of maps.
LEMMA TeamBallots ==
  ASSUME IInv, BallotInv, SetTeam \/ ConSetTeam \/ WorldTick
  PROVE  BallotInv'
<1>1. player \in [Slots -> Players \union {NoPlayer}]
  BY DEF IInv, SessionInv, SessionTypeOK
<1>2. CASE SetTeam \/ ConSetTeam
  <2>1. PICK c \in Slots, t \in Teams :
          HasPlayer(c) /\ player' = [player EXCEPT ![c].team = t]
    <3>1. CASE SetTeam
      BY <3>1 DEF SetTeam, Teams, IInv, SessionInv, PlayerIffReady, Ingame
    <3> QED BY <1>2, <3>1 DEF ConSetTeam
  <2>2. player[c] \in Players
    BY <1>1, <2>1 DEF HasPlayer
  <2>3. [player[c] EXCEPT !.team = t].vote = player[c].vote
    BY <2>2, PlayerFields
  <2>4. \A s \in Slots : player'[s] # NoPlayer => HasPlayer(s) /\ player'[s].vote = player[s].vote
    BY <1>1, <2>1, <2>3 DEF HasPlayer
  <2> QED BY <1>2, <2>4, OtherFieldsBallots DEF SetTeam, ConSetTeam
<1>3. CASE WorldTick
  <2> DEFINE K == {t \in Slots : Ingame(t)}
  <2>1. \A s \in Slots : HasPlayer(s) => [player[s] EXCEPT !.known = K].vote = player[s].vote
    BY <1>1, PlayerFields DEF HasPlayer
  <2>2. \A s \in Slots : player'[s] # NoPlayer => HasPlayer(s) /\ player'[s].vote = player[s].vote
    BY <1>3, <2>1 DEF WorldTick, MapsUpdated, HasPlayer
  <2> QED BY <1>3, <2>2, OtherFieldsBallots DEF WorldTick
<1> QED BY <1>2, <1>3

\* A move to the spectators is no vote.
LEMMA SpectatorBallots ==
  ASSUME IInv, NEW S, player' = ToSpectators(S)
  PROVE  \A s \in Slots : player'[s] # NoPlayer => HasPlayer(s) /\ player'[s].vote = player[s].vote
<1>1. \A s \in Slots : HasPlayer(s) =>
        [player[s] EXCEPT !.team = "spectators"].vote = player[s].vote
  BY PlayerFields DEF IInv, SessionInv, SessionTypeOK, HasPlayer, Teams
<1> QED BY <1>1 DEF ToSpectators, HasPlayer

\* The controller drops players or changes their team.
LEMMA ControllerBallots ==
  ASSUME IInv, BallotInv, ControllerTick
  PROVE  BallotInv'
<1>1. PICK s \in Slots :
        \/ /\ player' = ToSpectators({s})
           /\ UNCHANGED <<state, ip, session, sessions, close, update>>
        \/ /\ Dropped({s})
           /\ close' = CloseAfterDrop({s})
  BY DEF ControllerTick
<1>2. CASE /\ player' = ToSpectators({s})
           /\ UNCHANGED <<state, ip, session, sessions, close, update>>
  BY <1>2, SpectatorBallots, OtherFieldsBallots DEF ControllerTick
<1>3. CASE Dropped({s}) /\ close' = CloseAfterDrop({s})
  BY <1>3, DropBallotInv DEF ControllerTick
<1> QED BY <1>1, <1>2, <1>3

\* The tally, and the command of a vote that passed.
LEMMA TickBallots ==
  ASSUME IInv, BallotInv, NEW late \in BOOLEAN, VoteTick(late)
  PROVE  BallotInv'
<1>1. CASE close' = "none" /\ UNCHANGED sessionVars
  BY <1>1 DEF sessionVars, BallotInv, HasPlayer, Ingame
<1>2. CASE EndVote /\ ExecuteLine
  <2>1. \A s \in Slots : player'[s] # NoPlayer => /\ HasPlayer(s)
                                                 /\ player'[s].vote = player[s].vote
                                                 /\ state'[s] = state[s]
    <3>1. CASE command.kind = "set_team"
      BY <1>2, <3>1, SpectatorBallots DEF ExecuteLine
    <3>2. CASE command.kind # "set_team"
      <4>1. DroppedBy(command) \in SUBSET Slots
        BY DEF DroppedBy
      <4> QED BY <1>2, <3>2, <4>1, DropBallots DEF ExecuteLine
    <3> QED BY <3>1, <3>2
  <2> QED BY <1>2, <2>1 DEF EndVote, BallotInv, HasPlayer, Ingame
<1>3. CASE /\ close = "running" /\ Enforced # "YES" /\ enforce' = Enforced
           /\ UNCHANGED <<sessionVars, close, ballots, forced>>
  BY <1>3 DEF sessionVars, BallotInv, HasPlayer, Ingame
<1> QED BY <1>1, <1>2, <1>3 DEF VoteTick, EndVote

\* Every step keeps the votes with those who cast them.
LEMMA NextBallots == IInv /\ BallotInv /\ [Next]_vars => BallotInv'
<1> SUFFICES ASSUME IInv, BallotInv, [Next]_vars PROVE BallotInv'
  OBVIOUS
<1>1. CASE UNCHANGED vars
  BY <1>1 DEF vars, sessionVars, voteVars, BallotInv, HasPlayer, Ingame
<1>2. CASE EnterGame
  <2>1. \A s \in Slots : Ingame(s) => state'[s] = "INGAME"
    BY <1>2 DEF EnterGame, OnEnterGame, Step, Ingame, IInv, SessionInv, SessionTypeOK
  <2>2. UNCHANGED <<player, session, close, ballots, enforce, forced>>
    BY <1>2 DEF EnterGame, OnEnterGame, Step
  <2> QED BY <2>1, <2>2, BallotsStay DEF HasPlayer
<1>3. CASE Leave
  BY <1>3, DropBallotInv DEF Leave
<1>4. CASE Reload
  BY <1>4 DEF Reload, SessionReload, BallotInv, HasPlayer
<1>5. CASE CallVote
  BY <1>5, StartVoteBallots DEF CallVote, CallKick, CallSpectate
<1>6. CASE ConVote
  BY <1>6 DEF ConVote, sessionVars, BallotInv, HasPlayer, Ingame
<1> QED BY <1>1, <1>2, <1>3, <1>4, <1>5, <1>6, ComeBallots, VoteBallots, TeamBallots,
           ControllerBallots, TickBallots DEF Next

LEMMA BallotInvariance == Spec => []BallotInv
<1>1. Init => BallotInv
  BY DEF Init, InitSession, BallotInv, HasPlayer
<1> QED BY <1>1, NextBallots, Invariance, PTL DEF Spec

\* A voter counts as yes because somebody with its address voted yes.
LEMMA YesWasCast ==
  ASSUME IInv, NEW i \in Slots, Playing(i), ActVote(i) = 1
  PROVE  \E j \in SameAddress(i) : j \in Slots /\ HasPlayer(j) /\ player[j].vote = 1
<1> DEFINE cast == {j \in SameAddress(i) : player[j].vote # 0}
           first(j) == \A k \in cast : player[j].votePos <= player[k].votePos
<1>1. \A j \in SameAddress(i) : j \in Slots /\ HasPlayer(j)
  BY DEF SameAddress, Playing
<1>2. cast # {} /\ ActVote(i) = player[CHOOSE j \in cast : first(j)].vote
  BY DEF ActVote
<1>3. \E j \in cast : first(j)
  <2> DEFINE T == {player[j].votePos : j \in cast}
  <2>0. \A j \in cast : player[j].votePos \in Nat
    <3>1. \A j \in cast : player[j] \in Players
      BY <1>1 DEF IInv, SessionInv, SessionTypeOK, HasPlayer
    <3> QED BY <3>1 DEF Players
  <2>1. T \in SUBSET Nat /\ T # {}
    <3> HIDE DEF cast
    <3> QED BY <1>2, <2>0
  <2>2. PICK x \in T : \A y \in T : x <= y
    BY <2>1, LeastNumber
  <2> QED BY <2>2
<1>4. PICK j \in cast : ActVote(i) = player[j].vote
  BY <1>2, <1>3
<1> QED BY <1>1, <1>4

\* An address that plays has a voter in the game, and not two.
LEMMA VoterOfAddress ==
  ASSUME IInv, NEW p \in Slots, Ingame(p), Playing(p)
  PROVE  \E i \in Voters : Ingame(i) /\ ip[i] = ip[p]
<1> DEFINE T == {q \in Slots : Playing(q) /\ ClientAddr(q) = ClientAddr(p)}
<1>1. T \in SUBSET Nat /\ T # {}
  BY SessionAssumption
<1>2. PICK i \in T : \A q \in T : i <= q
  BY <1>1, LeastNumber
<1>3. \A j \in Slots : j < i => j \notin T
  BY <1>1, <1>2, SessionAssumption
<1>4. i \in Voters
  BY <1>2, <1>3 DEF Voters
<1>5. ip[p] \in IPs /\ ClientAddr(p) = ip[p]
  BY DEF IInv, SessionInv, AddressOfClient, ClientAddr, Ingame
<1>6. Ingame(i) /\ ip[i] = ip[p]
  BY <1>2, <1>5, SessionAssumption DEF ClientAddr
<1> QED BY <1>4, <1>6

LEMMA OneVoterPerAddress ==
  ASSUME NEW i \in Voters, NEW k \in Voters, Ingame(i), Ingame(k), ip[i] = ip[k]
  PROVE  i = k
<1>1. ClientAddr(i) = ClientAddr(k)
  BY DEF ClientAddr
<1>2. ~(i < k) /\ ~(k < i)
  BY <1>1 DEF Voters
<1>3. i \in Nat /\ k \in Nat
  BY SessionAssumption DEF Voters
<1> QED BY <1>2, <1>3

\* A tally that the vote wins is a majority of the addresses that play.
LEMMA TallyIsMajority ==
  ASSUME IInv, BallotInv, close = "running", YesWins
  PROVE  MajorityVotedYes
<1> DEFINE playing == {ip[s] : s \in {p \in Slots : Ingame(p) /\ Playing(p)}}
           voted   == {ip[s] : s \in {p \in Slots : Ingame(p) /\ session[p] \in ballots}}
           YesVoters == {i \in Voters : ActVote(i) = 1}
           both == playing \intersect voted
<1>1. IsFiniteSet(Voters) /\ Voters \subseteq Slots
  BY SessionAssumption, FS_Subset DEF Voters
<1>2. IsFiniteSet(playing) /\ Cardinality(playing) <= Cardinality(Voters)
  <2> DEFINE g == [a \in playing |-> CHOOSE i \in Voters : Ingame(i) /\ ip[i] = a]
  <2>1. \A a \in playing : g[a] \in Voters /\ ip[g[a]] = a
    BY VoterOfAddress
  <2>2. g \in Injection(playing, Voters)
    <3>1. g \in [playing -> Voters]
      BY <2>1
    <3>2. IsInjective(g)
      BY <2>1 DEF IsInjective
    <3> QED BY <3>1, <3>2 DEF Injection
  <2> HIDE DEF g, playing
  <2> QED BY <1>1, <2>2, FS_Injection
<1>3. IsFiniteSet(both)
  <2> HIDE DEF playing, voted
  <2> QED BY <1>2, FS_Subset
<1>4. Cardinality(YesVoters) <= Cardinality(both)
  <2> DEFINE f == [i \in YesVoters |-> ip[i]]
  <2>1. \A i \in YesVoters : Ingame(i) /\ ip[i] \in playing /\ ip[i] \in voted
    <3> SUFFICES ASSUME NEW i \in YesVoters
                 PROVE  Ingame(i) /\ ip[i] \in playing /\ ip[i] \in voted
      OBVIOUS
    <3>1. i \in Slots /\ Playing(i) /\ ActVote(i) = 1
      BY DEF Voters
    <3>2. PICK j \in SameAddress(i) : j \in Slots /\ HasPlayer(j) /\ player[j].vote = 1
      BY <3>1, YesWasCast
    <3>3. Ingame(j) /\ session[j] \in ballots
      BY <3>2 DEF BallotInv
    <3>4. ClientAddr(i) = ip[j] /\ ip[j] \in IPs
      BY <3>2, <3>3 DEF SameAddress, ClientAddr, IInv, SessionInv, AddressOfClient, Ingame
    <3>5. Ingame(i) /\ ip[i] = ip[j]
      BY <3>4, SessionAssumption DEF ClientAddr
    <3> QED BY <3>1, <3>2, <3>3, <3>5
  <2>2. f \in Injection(YesVoters, both)
    <3>1. f \in [YesVoters -> both]
      BY <2>1
    <3>2. IsInjective(f)
      BY <2>1, OneVoterPerAddress DEF IsInjective
    <3> QED BY <3>1, <3>2 DEF Injection
  <2> HIDE DEF f, YesVoters, both
  <2> QED BY <1>3, <2>2, FS_Injection
<1>5. /\ Cardinality(Voters) \in Nat /\ Cardinality(YesVoters) \in Nat
      /\ Cardinality(playing) \in Nat /\ Cardinality(both) \in Nat
  <2>1. IsFiniteSet(YesVoters)
    BY <1>1, FS_Subset
  <2> HIDE DEF YesVoters, playing, both
  <2> QED BY <1>1, <1>2, <1>3, <2>1, FS_CardinalityType
<1>6. Cardinality(YesVoters) >= Cardinality(Voters) \div 2 + 1
  BY DEF YesWins, Yes, Total
<1>7. 2 * Cardinality(both) > Cardinality(playing)
  <2> HIDE DEF YesVoters, playing, both
  <2>1. \A v, y, p, b \in Nat : p <= v /\ y <= b /\ y >= v \div 2 + 1 => 2 * b > p
    OBVIOUS
  <2> QED BY <1>2, <1>4, <1>5, <1>6, <2>1
<1> QED BY <1>7 DEF MajorityVotedYes

\* A vote that no administrator forced passes only with more than half of the
\* addresses that play: the tally of OnTick counts each address once and only
\* votes of the running vote.
THEOREM MajorityDecides == Spec => PassedByMajority
<1>1. ASSUME IInv, BallotInv, Next, close = "running", close' = "none",
             enforce' = "YES", ~forced
      PROVE  MajorityVotedYes
  <2>1. PICK late \in BOOLEAN : VoteTick(late)
    <3>1. \A S : close # "none" => CloseAfterDrop(S) # "none"
      BY DEF CloseAfterDrop
    <3> QED BY <1>1, <3>1 DEF Next, Come, voteVars, EnterGame, Leave, Reload, CallVote,
                     CallKick, CallSpectate, StartVote, Vote, SetTeam, ConSetTeam,
                     ConVote, WorldTick, ControllerTick
  <2>2. Enforced = "YES" /\ enforce # "YES"
    BY <1>1, <2>1 DEF VoteTick, BallotInv
  <2>3. YesWins
    BY <2>2 DEF Enforced
  <2> QED BY <1>1, <2>3, TallyIsMajority
<1>2. IInv /\ BallotInv /\ [Next]_vars
        => [(close = "running" /\ close' = "none" /\ enforce' = "YES" /\ ~forced)
              => MajorityVotedYes]_vars
  BY <1>1
<1> QED BY <1>2, Invariance, BallotInvariance, PTL DEF Spec, PassedByMajority

-----------------------------------------------------------------------------
(***************************************************************************)
(* When the tally can change.  It is what it was as long as players, their *)
(* votes and their addresses stay; and one player more that nobody knows   *)
(* the address of yet can only make it harder to win.                      *)
(***************************************************************************)
\* The votes that count for i, and the first of them.
CastAmong(i) == {j \in SameAddress(i) : player[j].vote # 0}

FirstAmong(i) == CHOOSE j \in CastAmong(i) :
                   \A k \in CastAmong(i) : player[j].votePos <= player[k].votePos

\* ActVote by these names.
LEMMA ActVoteIs ==
  \A i : ActVote(i) = IF CastAmong(i) = {} THEN 0 ELSE player[FirstAmong(i)].vote
BY DEF ActVote, CastAmong, FirstAmong

\* Of the votes that count for a player one was the first.
LEMMA FirstIsCast ==
  ASSUME IInv, NEW i \in Slots, HasPlayer(i), CastAmong(i) # {}
  PROVE  FirstAmong(i) \in CastAmong(i)
<1>1. \A j \in CastAmong(i) : player[j].votePos \in Nat
  <2>1. \A j \in CastAmong(i) : j \in Slots /\ HasPlayer(j)
    BY DEF CastAmong, SameAddress
  <2>2. \A j \in CastAmong(i) : player[j] \in Players
    BY <2>1 DEF IInv, SessionInv, SessionTypeOK, HasPlayer
  <2>. QED  BY <2>2 DEF Players
<1>. DEFINE T == {player[j].votePos : j \in CastAmong(i)}
<1>2. T \in SUBSET Nat /\ T # {}
  BY <1>1
<1>3. PICK x \in T : \A y \in T : x <= y
  <2>. HIDE DEF T
  <2>. QED  BY <1>2, LeastNumber
<1>4. \E j \in CastAmong(i) : \A k \in CastAmong(i) : player[j].votePos <= player[k].votePos
  BY <1>3
<1>. QED  BY <1>4 DEF FirstAmong

\* A voter counts as before if those with its address keep their votes.
LEMMA ActVoteStays ==
  ASSUME IInv, NEW i \in Slots, HasPlayer(i), SameAddress(i)' = SameAddress(i),
         \A j \in SameAddress(i) : /\ player'[j].vote = player[j].vote
                                   /\ player'[j].votePos = player[j].votePos
  PROVE  ActVote(i)' = ActVote(i)
<1>1. CastAmong(i)' = CastAmong(i) /\ CastAmong(i) \subseteq SameAddress(i)
  BY DEF CastAmong
<1>2. FirstAmong(i)' = FirstAmong(i)
  <2>. DEFINE C == CastAmong(i)
              First(q, j) == \A k \in C : q[j].votePos <= q[k].votePos
  <2>1. \A j : (j \in C /\ First(player', j)) <=> (j \in C /\ First(player, j))
    BY <1>1
  <2>2. (CHOOSE j \in C : First(player', j)) = (CHOOSE j \in C : First(player, j))
    <3>. HIDE DEF C, First
    <3>. QED  BY <2>1, Zenon
  <2>3. FirstAmong(i)' = CHOOSE j \in C : First(player', j)
    BY <1>1 DEF FirstAmong
  <2>. QED  BY <2>2, <2>3 DEF FirstAmong
<1>3. ActVote(i)' = IF CastAmong(i)' = {} THEN 0 ELSE player'[FirstAmong(i)'].vote
  BY DEF ActVote, CastAmong, FirstAmong
<1>4. CASE CastAmong(i) = {}
  BY <1>1, <1>3, <1>4, ActVoteIs
<1>5. CASE CastAmong(i) # {}
  BY <1>1, <1>2, <1>3, <1>5, ActVoteIs, FirstIsCast
<1>. QED  BY <1>4, <1>5

\* What decides a tally.
SamePlayer(s) ==
  /\ HasPlayer(s)' <=> HasPlayer(s)
  /\ HasPlayer(s) => /\ player'[s].team = player[s].team
                     /\ player'[s].vote = player[s].vote
                     /\ player'[s].votePos = player[s].votePos
                     /\ ClientAddr(s)' = ClientAddr(s)

\* With the same players the tally is the same.
LEMMA TallyStays ==
  ASSUME IInv, \A s \in Slots : SamePlayer(s)
  PROVE  Decided' <=> Decided
<1>1. \A s \in Slots : (Playing(s)' <=> Playing(s)) /\ (HasPlayer(s) => ClientAddr(s)' = ClientAddr(s))
  BY DEF SamePlayer, Playing
<1>2. \A s \in Slots : Playing(s) => HasPlayer(s)
  BY DEF Playing
<1>3. Voters' = Voters
  BY <1>1, <1>2 DEF Voters
<1>4. \A i \in Slots : HasPlayer(i) => SameAddress(i)' = SameAddress(i)
  BY <1>1 DEF SameAddress, SamePlayer
<1>5. \A i \in Slots : HasPlayer(i) => \A j \in SameAddress(i) : j \in Slots /\ HasPlayer(j)
  BY DEF SameAddress
<1>6. \A i \in Voters : ActVote(i)' = ActVote(i)
  <2>. SUFFICES ASSUME NEW i \in Voters PROVE ActVote(i)' = ActVote(i)
    OBVIOUS
  <2>1. i \in Slots /\ HasPlayer(i)
    BY <1>2 DEF Voters
  <2>2. \A j \in SameAddress(i) : /\ player'[j].vote = player[j].vote
                                  /\ player'[j].votePos = player[j].votePos
    BY <1>5, <2>1 DEF SamePlayer
  <2>. QED  BY <1>4, <2>1, <2>2, ActVoteStays
<1>7. Total' = Total /\ Yes' = Yes /\ No' = No
  <2>1. {i \in Voters : ActVote(i) = 1}' = {i \in Voters : ActVote(i) = 1}
    BY <1>3, <1>6
  <2>2. {i \in Voters : ActVote(i) = -1}' = {i \in Voters : ActVote(i) = -1}
    BY <1>3, <1>6
  <2>. QED  BY <1>3, <2>1, <2>2 DEF Total, Yes, No
<1>. QED  BY <1>7 DEF Decided, YesWins, NoWins

\* The players whose address nobody knows yet: those on their way into the game.
Unknown == {s \in Slots : HasPlayer(s) /\ ClientAddr(s) = NoIP}

\* They have not voted, and so do not count as yes or no.
LEMMA UnknownHaveNotVoted ==
  ASSUME IInv, BallotInv, NEW i \in Unknown
  PROVE  ActVote(i) = 0
<1>1. \A j \in Unknown : ~Ingame(j)
  BY SessionAssumption DEF Unknown, ClientAddr, Ingame, IInv, SessionInv, AddressOfClient
<1>2. \A j \in SameAddress(i) : j \in Unknown
  BY DEF SameAddress, Unknown
<1>3. \A j \in SameAddress(i) : player[j].vote = 0
  BY <1>1, <1>2 DEF BallotInv, Unknown
<1>. QED  BY <1>3 DEF ActVote

LEMMA UnknownDoNotCount == IInv /\ BallotInv => \A i \in Unknown : ActVote(i) = 0
BY UnknownHaveNotVoted

\* Of players of one address one is a voter.
LEMMA AVoterOfEach ==
  ASSUME NEW p \in Slots, Playing(p)
  PROVE  \E i \in Voters : ClientAddr(i) = ClientAddr(p)
<1>. DEFINE T == {q \in Slots : Playing(q) /\ ClientAddr(q) = ClientAddr(p)}
<1>1. T \in SUBSET Nat /\ T # {}
  BY SessionAssumption
<1>2. PICK i \in T : \A q \in T : i <= q
  <2>. HIDE DEF T
  <2>. QED  BY <1>1, LeastNumber
<1>3. \A j \in Slots : j < i => j \notin T
  BY <1>1, <1>2, SessionAssumption
<1>. QED  BY <1>2, <1>3 DEF Voters

LEMMA EachHasAVoter ==
  \A p \in Slots : Playing(p) => \E i \in Voters : ClientAddr(i) = ClientAddr(p)
BY AVoterOfEach

\* And not two.
LEMMA OneVoterOfEach ==
  ASSUME NEW i \in Voters, NEW k \in Voters, ClientAddr(i) = ClientAddr(k)
  PROVE  i = k
<1>1. ~(i < k) /\ ~(k < i)
  BY DEF Voters
<1>2. i \in Nat /\ k \in Nat
  BY SessionAssumption DEF Voters
<1>. QED  BY <1>1, <1>2

\* The more players, the more it takes.
LEMMA MoreToWin ==
  ASSUME NEW t \in Nat, NEW u \in Nat, NEW y \in Nat, t <= u
  PROVE  /\ y >= u \div 2 + 1 => y >= t \div 2 + 1
         /\ y >= (u + 1) \div 2 => y >= (t + 1) \div 2
OBVIOUS

\* NETMSG_READY: there is one player more, whose address nobody knows.
LEMMA ReadyTally ==
  ASSUME IInv, BallotInv, IInv', BallotInv', NEW s \in Slots, OnReady(s)
  PROVE  Decided' => Decided
<1>1. /\ player \in [Slots -> Players \union {NoPlayer}]
      /\ state \in [Slots -> States] /\ state[s] = "CONNECTING"
      /\ state' = [state EXCEPT ![s] = "READY"] /\ ip' = ip
      /\ player' = [player EXCEPT ![s] = NewPlayer(s)]
  BY DEF IInv, SessionInv, SessionTypeOK, OnReady, Step
<1>2. /\ ~HasPlayer(s) /\ Playing(s)' /\ ClientAddr(s)' = NoIP
      /\ \A i \in Slots \ {s} : /\ player'[i] = player[i]
                                /\ HasPlayer(i)' <=> HasPlayer(i)
                                /\ Playing(i)' <=> Playing(i)
                                /\ ClientAddr(i)' = ClientAddr(i)
  <2>1. ~HasPlayer(s)
    BY <1>1 DEF IInv, SessionInv, PlayerIffReady
  <2>2. player'[s] = NewPlayer(s) /\ NewPlayer(s).team = "game" /\ state'[s] = "READY"
    BY <1>1 DEF NewPlayer
  <2>3. HasPlayer(s)'
    BY <2>2 DEF IInv, SessionInv, PlayerIffReady
  <2>4. Playing(s)' /\ ClientAddr(s)' = NoIP
    BY <2>2, <2>3 DEF Playing, ClientAddr, Ingame
  <2>5. \A i \in Slots \ {s} : player'[i] = player[i] /\ state'[i] = state[i] /\ ip'[i] = ip[i]
    BY <1>1
  <2>6. \A i \in Slots \ {s} : /\ HasPlayer(i)' <=> HasPlayer(i)
                               /\ Playing(i)' <=> Playing(i)
                               /\ ClientAddr(i)' = ClientAddr(i)
    BY <2>5 DEF HasPlayer, Playing, ClientAddr, Ingame
  <2>. QED  BY <2>1, <2>4, <2>5, <2>6
<1>3. s \notin Voters /\ s \in Unknown' /\ Voters \subseteq Slots /\ Voters' \subseteq Slots
      /\ Unknown' = Unknown \union {s} /\ s \notin Unknown
  BY <1>2 DEF Voters, Unknown, Playing
<1>4. \A i \in Slots \ Unknown' : i \in Voters' <=> i \in Voters
  <2>. SUFFICES ASSUME NEW i \in Slots, i \notin Unknown' PROVE i \in Voters' <=> i \in Voters
    OBVIOUS
  <2>1. i # s /\ (Playing(i)' <=> Playing(i)) /\ ClientAddr(i)' = ClientAddr(i)
    BY <1>2, <1>3
  <2>2. Playing(i) => ClientAddr(i) # NoIP
    BY <1>3, <2>1 DEF Unknown, Playing
  <2>3. CASE ~Playing(i)
    BY <2>1, <2>3 DEF Voters
  <2>4. CASE Playing(i)
    <3>1. ~(Playing(s) /\ ClientAddr(s) = ClientAddr(i))
      BY <1>2 DEF Playing
    <3>2. ~(ClientAddr(s)' = ClientAddr(i)')
      BY <1>2, <2>1, <2>2, <2>4
    <3>3. \A j \in Slots : (Playing(j)' /\ ClientAddr(j)' = ClientAddr(i)')
                             <=> (Playing(j) /\ ClientAddr(j) = ClientAddr(i))
      BY <1>2, <2>1, <3>1, <3>2
    <3>. QED  BY <2>1, <3>3 DEF Voters
  <2>. QED  BY <2>3, <2>4
<1>5. \A i \in Voters \ Unknown' : ActVote(i)' = ActVote(i)
  <2>. SUFFICES ASSUME NEW i \in Voters \ Unknown' PROVE ActVote(i)' = ActVote(i)
    OBVIOUS
  <2>1. i \in Slots /\ i # s /\ HasPlayer(i) /\ ClientAddr(i) # NoIP /\ ClientAddr(i)' = ClientAddr(i)
    BY <1>2, <1>3 DEF Voters, Unknown, Playing
  <2>2. SameAddress(i)' = SameAddress(i)
    BY <1>2, <2>1 DEF SameAddress
  <2>3. \A j \in SameAddress(i) : j \in Slots \ {s}
    BY <1>2, <2>1 DEF SameAddress
  <2>. QED  BY <1>2, <2>1, <2>2, <2>3, ActVoteStays
<1>6. \A i \in Unknown' : ActVote(i)' = 0 /\ (i # s => ActVote(i) = 0)
  <2>1. (\A i \in Unknown : ActVote(i) = 0)'
    BY UnknownDoNotCount, PTL
  <2>2. \A i \in Unknown : ActVote(i) = 0
    BY UnknownDoNotCount
  <2>. QED  BY <1>3, <2>1, <2>2
<1>7. Yes' = Yes /\ No' = No
  <2>1. \A i : i \in Voters' /\ ActVote(i)' # 0 <=> i \in Voters /\ ActVote(i) # 0
    BY <1>3, <1>4, <1>5, <1>6
  <2>2. \A i \in Voters : ActVote(i) # 0 => i \notin Unknown'
    BY <1>3, <1>6
  <2>3. {i \in Voters : ActVote(i) = 1}' = {i \in Voters : ActVote(i) = 1}
    BY <1>5, <2>1, <2>2
  <2>4. {i \in Voters : ActVote(i) = -1}' = {i \in Voters : ActVote(i) = -1}
    BY <1>5, <2>1, <2>2
  <2>. QED  BY <2>3, <2>4 DEF Yes, No
<1>8. Total \in Nat /\ Total' \in Nat /\ Total <= Total'
  <2>1. PICK w \in Voters' : w \in Unknown'
    <3>1. (\A p \in Slots : Playing(p) => \E i \in Voters : ClientAddr(i) = ClientAddr(p))'
      BY EachHasAVoter, PTL
    <3>2. PICK w \in Voters' : ClientAddr(w)' = NoIP
      BY <1>2, <3>1
    <3>. QED  BY <3>2 DEF Voters, Unknown, Playing
  <2>. DEFINE f == [i \in Voters |-> IF i \in Unknown THEN w ELSE i]
  <2>2. f \in Injection(Voters, Voters')
    <3>1. f \in [Voters -> Voters']
      BY <1>3, <1>4, <2>1
    <3>2. \A i, k \in Voters : i \in Unknown /\ k \in Unknown => i = k
      BY OneVoterOfEach DEF Unknown
    <3>3. \A i, k \in Voters : f[i] = f[k] => i = k
      BY <1>3, <2>1, <3>2
    <3>. HIDE DEF f
    <3>. QED  BY <3>1, <3>3 DEF Injection, IsInjective
  <2>3. IsFiniteSet(Voters) /\ IsFiniteSet(Voters')
    BY <1>3, SessionAssumption, FS_Subset
  <2>. HIDE DEF f
  <2>. QED  BY <2>2, <2>3, FS_Injection, FS_CardinalityType DEF Total
<1>9. Yes \in Nat /\ No \in Nat
  <2>1. IsFiniteSet(Voters)
    BY <1>3, SessionAssumption, FS_Subset
  <2>2. IsFiniteSet({i \in Voters : ActVote(i) = 1}) /\ IsFiniteSet({i \in Voters : ActVote(i) = -1})
    BY <2>1, FS_Subset
  <2>. QED  BY <2>2, FS_CardinalityType DEF Yes, No
<1>10. PICK t, u, y, n \in Nat : t = Total /\ u = Total' /\ y = Yes /\ n = No /\ t <= u
  BY <1>8, <1>9
<1>11. YesWins' => YesWins
  <2>1. (YesWins' <=> y >= u \div 2 + 1) /\ (YesWins <=> y >= t \div 2 + 1)
    BY <1>7, <1>10 DEF YesWins
  <2>2. y >= u \div 2 + 1 => y >= t \div 2 + 1
    BY <1>10, MoreToWin
  <2>. QED  BY <2>1, <2>2
<1>12. NoWins' => NoWins
  <2>1. (NoWins' <=> n >= (u + 1) \div 2) /\ (NoWins <=> n >= (t + 1) \div 2)
    BY <1>7, <1>10 DEF NoWins
  <2>2. n >= (u + 1) \div 2 => n >= (t + 1) \div 2
    BY <1>10, MoreToWin
  <2>. QED  BY <2>1, <2>2
<1>. QED  BY <1>11, <1>12 DEF Decided

\* What a client does on its way into the game.
LEMMA ComeTally ==
  ASSUME IInv, BallotInv, IInv', BallotInv', Come
  PROVE  Decided' => Decided
<1>1. PICK s \in Slots :
        \/ \E a \in IPs : NewClient(s, a) \/ NewClientNoAuth(s, a)
        \/ OnClientVer(s) \/ OnInfo(s) \/ OnReady(s) \/ OnStartInfo(s)
  BY DEF Come
<1>2. /\ player \in [Slots -> Players \union {NoPlayer}]
      /\ state \in [Slots -> States] /\ ip \in [Slots -> IPs \union {NoIP}]
  BY DEF IInv, SessionInv, SessionTypeOK
<1>3. CASE \E a \in IPs : NewClient(s, a) \/ NewClientNoAuth(s, a)
  <2>1. /\ state[s] = "EMPTY" /\ player' = player
        /\ \A i \in Slots \ {s} : state'[i] = state[i] /\ ip'[i] = ip[i]
    BY <1>2, <1>3 DEF NewClient, NewClientNoAuth, Enter
  <2>2. ~HasPlayer(s)
    BY <2>1 DEF IInv, SessionInv, PlayerIffReady
  <2>3. \A i \in Slots : SamePlayer(i)
    BY <2>1, <2>2 DEF SamePlayer, HasPlayer, ClientAddr, Ingame
  <2>. QED  BY <2>3, TallyStays
<1>4. CASE OnClientVer(s) \/ OnInfo(s)
  <2>1. /\ state[s] \in {"PREAUTH", "AUTH"} /\ player' = player /\ ip' = ip
        /\ \A i \in Slots \ {s} : state'[i] = state[i]
    BY <1>2, <1>4 DEF OnClientVer, OnInfo, Step
  <2>2. ~HasPlayer(s)
    BY <2>1 DEF IInv, SessionInv, PlayerIffReady
  <2>3. \A i \in Slots : SamePlayer(i)
    BY <2>1, <2>2 DEF SamePlayer, HasPlayer, ClientAddr, Ingame
  <2>. QED  BY <2>3, TallyStays
<1>5. CASE OnStartInfo(s)
  <2>1. state[s] = "READY" /\ UNCHANGED <<state, ip>>
        /\ player' = [player EXCEPT ![s] = [player[s] EXCEPT !.ready = TRUE]]
    BY <1>5 DEF OnStartInfo
  <2>2. HasPlayer(s)
    BY <2>1 DEF IInv, SessionInv, PlayerIffReady
  <2>3. player[s] \in Players
    BY <1>2, <2>2 DEF HasPlayer
  <2>4. /\ [player[s] EXCEPT !.ready = TRUE].vote = player[s].vote
        /\ [player[s] EXCEPT !.ready = TRUE].votePos = player[s].votePos
        /\ [player[s] EXCEPT !.ready = TRUE].team = player[s].team
        /\ [player[s] EXCEPT !.ready = TRUE] \in Players
    BY <2>3 DEF Players
  <2>. DEFINE q == [player[s] EXCEPT !.ready = TRUE]
  <2>5. player'[s] = q /\ q \in Players /\ \A i \in Slots \ {s} : player'[i] = player[i]
    BY <1>2, <2>1, <2>4
  <2>6. q.vote = player[s].vote /\ q.votePos = player[s].votePos /\ q.team = player[s].team
    BY <2>4
  <2>. HIDE DEF q
  <2>7. HasPlayer(s)'
    BY <2>5, NoPlayerAssumption DEF HasPlayer
  <2>8. \A i \in Slots : ClientAddr(i)' = ClientAddr(i)
    BY <2>1 DEF ClientAddr, Ingame
  <2>9. SamePlayer(s)
    BY <2>2, <2>5, <2>6, <2>7, <2>8 DEF SamePlayer
  <2>10. \A i \in Slots \ {s} : SamePlayer(i)
    BY <2>5, <2>8 DEF SamePlayer, HasPlayer
  <2>. QED  BY <2>9, <2>10, TallyStays
<1>. QED  BY <1>1, <1>3, <1>4, <1>5, ReadyTally

\* Nobody who plays leaves unnoticed: a drop that m_VoteUpdate does not tell of is
\* that of a client without player.
LEMMA DropTally ==
  ASSUME IInv, NEW S \in SUBSET Slots, Dropped(S), NotifiedDrops(S) = {}
  PROVE  Decided' <=> Decided
<1>1. /\ player' = [s \in Slots |-> player[s]]
      /\ state' = [s \in Slots |-> IF s \in S THEN "EMPTY" ELSE state[s]]
      /\ ip' = [s \in Slots |-> IF s \in S THEN NoIP ELSE ip[s]]
  BY DEF Dropped
<1>2. \A s \in S : ~HasPlayer(s)
  BY DEF NotifiedDrops, IInv, SessionInv, PlayerIffReady
<1>3. \A s \in Slots : SamePlayer(s)
  BY <1>1, <1>2 DEF SamePlayer, HasPlayer, ClientAddr, Ingame
<1>. QED  BY <1>3, TallyStays

\* What decides a vote that was open sets m_VoteUpdate, so that the next tick counts;
\* but for a change of team by a command or for inactivity, which does not.
THEOREM DecisionsAreNoticed == Spec => DecisionIsNoticed
<1>1. ASSUME IInv, BallotInv, IInv', BallotInv', Next, close = "running", close' = "running",
             ~Decided, Decided'
      PROVE  update' \/ TeamChanges
  <2>. SUFFICES ASSUME ~update', ~TeamChanges PROVE FALSE
    OBVIOUS
  <2>0. /\ player \in [Slots -> Players \union {NoPlayer}]
        /\ player' \in [Slots -> Players \union {NoPlayer}]
    BY <1>1 DEF IInv, SessionInv, SessionTypeOK
  <2>1. CASE Come
    BY <1>1, <2>1, ComeTally
  <2>2. CASE EnterGame \/ Reload \/ CallVote \/ Vote \/ SetTeam
    BY <1>1, <2>2 DEF EnterGame, Reload, CallVote, CallKick, CallSpectate, StartVote, Vote, SetTeam
  <2>3. CASE Leave
    <3>1. PICK s \in Slots : Dropped({s}) /\ update' = UpdateAfterDrop({s})
      BY <2>3 DEF Leave
    <3>2. NotifiedDrops({s}) = {}
      BY <3>1 DEF UpdateAfterDrop
    <3>. QED  BY <1>1, <3>1, <3>2, DropTally
  <2>4. CASE ConSetTeam
    <3>1. PICK s \in Slots, t \in Teams :
            HasPlayer(s) /\ player[s].team # t /\ player' = [player EXCEPT ![s].team = t]
      BY <2>4 DEF ConSetTeam
    <3>2. player[s] \in Players
      BY <2>0, <3>1 DEF HasPlayer
    <3>3. [player[s] EXCEPT !.team = t] \in Players /\ [player[s] EXCEPT !.team = t].team = t
      BY <3>2 DEF Players
    <3>4. player'[s] = [player[s] EXCEPT !.team = t]
      BY <2>0, <3>1
    <3>. QED  BY <3>1, <3>3, <3>4, NoPlayerAssumption DEF TeamChanges, HasPlayer
  <2>5. CASE ConVote
    <3>1. \A s \in Slots : SamePlayer(s)
      BY <2>5 DEF ConVote, sessionVars, SamePlayer, HasPlayer, ClientAddr, Ingame
    <3>. QED  BY <1>1, <3>1, TallyStays
  <2>6. CASE WorldTick
    <3>. DEFINE K == {t \in Slots : Ingame(t)}
    <3>1. \A p \in Players : /\ [p EXCEPT !.known = K] \in Players
                             /\ [p EXCEPT !.known = K].team = p.team
                             /\ [p EXCEPT !.known = K].vote = p.vote
                             /\ [p EXCEPT !.known = K].votePos = p.votePos
      BY DEF Players
    <3>2. \A s \in Slots : HasPlayer(s) => player[s] \in Players
      BY <2>0 DEF HasPlayer
    <3>3. \A s \in Slots : player'[s] = IF Ingame(s) /\ HasPlayer(s)
                                          THEN [player[s] EXCEPT !.known = K] ELSE player[s]
      BY <2>6 DEF WorldTick, MapsUpdated
    <3>4. UNCHANGED <<state, ip>>
      BY <2>6 DEF WorldTick
    <3>. HIDE DEF K
    <3>5. \A s \in Slots : ClientAddr(s)' = ClientAddr(s)
      BY <3>4 DEF ClientAddr, Ingame
    <3>6. \A s \in Slots : HasPlayer(s)' <=> HasPlayer(s)
      BY <3>1, <3>2, <3>3, NoPlayerAssumption DEF HasPlayer
    <3>7. \A s \in Slots : SamePlayer(s)
      BY <3>1, <3>2, <3>3, <3>5, <3>6 DEF SamePlayer
    <3>. QED  BY <1>1, <3>7, TallyStays
  <2>7. CASE ControllerTick
    <3>1. PICK s \in Slots :
            /\ Playing(s)
            /\ \/ player' = ToSpectators({s})
               \/ Dropped({s}) /\ update' = UpdateAfterDrop({s})
      BY <2>7 DEF ControllerTick
    <3>2. CASE player' = ToSpectators({s})
      <4>1. player[s] \in Players /\ player[s].team # "spectators" /\ HasPlayer(s)
        BY <2>0, <3>1 DEF Playing, HasPlayer
      <4>2. /\ [player[s] EXCEPT !.team = "spectators"] \in Players
            /\ [player[s] EXCEPT !.team = "spectators"].team = "spectators"
        BY <4>1 DEF Players, Teams
      <4>3. player'[s] = [player[s] EXCEPT !.team = "spectators"]
        BY <3>2, <4>1 DEF ToSpectators
      <4>. QED  BY <4>1, <4>2, <4>3, NoPlayerAssumption DEF TeamChanges, HasPlayer
    <3>3. CASE Dropped({s}) /\ update' = UpdateAfterDrop({s})
      <4>1. NotifiedDrops({s}) = {}
        BY <3>3 DEF UpdateAfterDrop
      <4>. QED  BY <1>1, <3>3, <4>1, DropTally
    <3>. QED  BY <3>1, <3>2, <3>3
  <2>8. ASSUME NEW late \in BOOLEAN, VoteTick(late) PROVE FALSE
    <3>1. UNCHANGED sessionVars
      BY <1>1, <2>8 DEF VoteTick, EndVote
    <3>2. \A s \in Slots : SamePlayer(s)
      BY <3>1 DEF sessionVars, SamePlayer, HasPlayer, ClientAddr, Ingame
    <3>. QED  BY <1>1, <3>2, TallyStays
  <2>. QED  BY <1>1, <2>1, <2>2, <2>3, <2>4, <2>5, <2>6, <2>7, <2>8 DEF Next
<1>2. IInv /\ BallotInv /\ IInv' /\ BallotInv' /\ [Next]_vars
        => [(close = "running" /\ close' = "running" /\ ~Decided /\ Decided')
              => (update' \/ TeamChanges)]_vars
  BY <1>1
<1>. QED  BY <1>2, Invariance, BallotInvariance, PTL DEF Spec, DecisionIsNoticed
=============================================================================
