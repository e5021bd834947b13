----------------------------- MODULE MCThreads -----------------------------
(***************************************************************************)
(* Small instances for TLC of the parts in which threads, requests or      *)
(* answers come in any order.  They share no state, so that one run checks *)
(* them side by side: a behaviour is one of part, and what belongs to the  *)
(* others keeps its first value.                                           *)
(***************************************************************************)
EXTENDS MapReload, MapChange, Accounts, JobPool, Register, Stun

CONSTANTS s1, n1, n2, w1, w2, j1, j2, j3, v4, v6, u1, u2

VARIABLE part

threadVars ==
  <<reloadVars, changeVars, accountVars, poolVars, registerVars, stunVars, part>>

Idle(p, v) == IF part = p THEN TRUE ELSE UNCHANGED v

OnlyItMoves ==
  /\ UNCHANGED part
  /\ Idle("reload", reloadVars) /\ Idle("change", changeVars)
  /\ Idle("accounts", accountVars) /\ Idle("pool", poolVars)
  /\ Idle("register", registerVars) /\ Idle("stun", stunVars)

Init ==
  /\ part \in {"reload", "change", "accounts", "pool", "register", "stun"}
  /\ ReloadInit /\ ChangeInit /\ AccountsInit /\ PoolInit /\ RegisterInit /\ StunInit

Next ==
  \/ part = "reload" /\ ReloadNext /\ OnlyItMoves
  \/ part = "change" /\ ChangeNext /\ OnlyItMoves
  \/ part = "accounts" /\ AccountsNext /\ OnlyItMoves
  \/ part = "pool" /\ PoolNext /\ OnlyItMoves
  \/ part = "register" /\ RegisterNext /\ OnlyItMoves
  \/ part = "stun" /\ StunNext /\ OnlyItMoves

\* The fairness of each specification, for the part that moves.
Fairness ==
  /\ WF_reloadVars(part = "reload" /\ MainLoop)
  /\ WF_reloadVars(part = "reload" /\ MapThread)
  /\ WF_accountVars(part = "accounts" /\ \E t \in threads : ThreadStep(t) \/ QueryFails(t))
  /\ WF_accountVars(/\ part = "accounts" /\ Crash
                    /\ \E t \in threads : t.slot \notin joined /\ t.step \in {"insert", "game"})
  /\ \A j \in PoolJobs : WF_poolVars(part = "pool" /\ Raise(j))
  /\ \A w \in Workers : WF_poolVars(part = "pool" /\ WorkerStep(w))
  /\ WF_poolVars(part = "pool" /\ Signal) /\ WF_poolVars(part = "pool" /\ Join)
  /\ \A p \in Protocols :
       /\ WF_registerVars(part = "register" /\ Update(p))
       /\ SF_registerVars(part = "register" /\ OnToken(p))
       /\ WF_registerVars(part = "register" /\ NextRegisterComes(p))
       /\ WF_registerVars(part = "register" /\ flight[p] # <<>> /\ JobStep(p, 1))
  /\ WF_stunVars(part = "stun" /\ StunUpdate) /\ WF_stunVars(part = "stun" /\ SecondPasses)

Spec == Init /\ [][Next]_threadVars /\ Fairness

\* The variables of every part keep to their types.
TypeOK ==
  /\ ReloadTypeOK /\ ChangeTypeOK /\ AccountsTypeOK
  /\ PoolTypeOK /\ RegisterTypeOK /\ StunTypeOK
=============================================================================
