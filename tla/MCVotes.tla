------------------------------ MODULE MCVotes ------------------------------
(***************************************************************************)
(* Small instances of Votes for TLC.                                       *)
(***************************************************************************)
EXTENDS Votes

CONSTANTS ip1, ip2

MCSlots == 0 .. 2

\* The first client is behind ip1: the other case is the same with the names
\* swapped.
FirstBehindIP1 == \A s \in Slots : session[s] = 1 => ip[s] = ip1

\* Bound: one client at a time is on its way into the game.  (States after a
\* reload with several clients are checked, but not what follows them.)
OneJoins == Cardinality({s \in Slots : state[s] \notin {"EMPTY", "INGAME"}}) <= 1

Bounded == FirstBehindIP1 /\ OneJoins
=============================================================================
