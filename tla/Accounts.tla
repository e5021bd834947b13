------------------------------- MODULE Accounts -------------------------------
(***************************************************************************)
(* Accounts and the items saved for them: the threads of CPostgresql       *)
(* (game/server/lastday/accounts/postgresql.cpp), the inventories of       *)
(* CItemCore (lastday/item/item.cpp) and crafting (lastday/item/make.cpp). *)
(*                                                                         *)
(* Each command and each change of an inventory starts a detached thread.  *)
(* A thread holds SQLLock for the whole of its work: a query, at times a   *)
(* second one that writes, the commit, and what it does to the game.  Any  *)
(* query may fail.  The process may crash; the database then drops the     *)
(* transaction that is open.                                               *)
(*                                                                         *)
(* Abstractions.  The database is external: two tables, without            *)
(* constraints, as InitThread creates them.  There is one kind of item;    *)
(* passwords, nicknames and languages are left out, but that a login may   *)
(* be refused.  A thread that finds no player in its slot dereferences a   *)
(* null pointer: the process crashes.                                      *)
(***************************************************************************)
EXTENDS Integers, Sequences, FiniteSets

CONSTANTS
  Slots,       \* client slots
  Names,       \* names of accounts
  MaxThreads,  \* bound: threads at one time
  MaxNum       \* bound: items of an inventory

ASSUME AccountsAssumption ==
  /\ IsFiniteSet(Slots) /\ IsFiniteSet(Names) /\ Names # {}
  /\ MaxThreads \in Nat /\ MaxNum \in Nat

VARIABLES
  account,   \* ld_PlayerAccount: the name of each row, the UserID is its place
  itemRow,   \* ld_PlayerItem: owner and number of each row
  joined,    \* slots with a player
  userID,    \* m_UserID, 0 if the player has not logged in
  inventory, \* number of items in m_aInventories, NoItem if the item is not listed
  threads    \* the detached threads that have not ended

accountVars == <<account, itemRow, joined, userID, inventory, threads>>

NoItem == -1

\* "wait": for SQLLock; "query": the SELECT comes; "insert", "change": what it
\* found asks for this write; "game": the result is about to reach the game.
Threads == [kind : {"register", "login", "update", "sync"}, id : Nat \ {0},
            slot : Slots, name : Names, user : Nat, num : Int,
            step : {"wait", "query", "insert", "change", "game", "stuck"}]

AccountsTypeOK ==
  /\ account \in Seq(Names)
  /\ itemRow \in Seq([owner : Nat \ {0}, num : Int])
  /\ joined \subseteq Slots
  /\ userID \in [Slots -> Nat]
  /\ inventory \in [Slots -> Int]
  /\ threads \subseteq Threads

AccountsInit ==
  /\ account = <<>> /\ itemRow = <<>>
  /\ joined = {} /\ userID = [s \in Slots |-> 0]
  /\ inventory = [s \in Slots |-> NoItem]
  /\ threads = {}

-----------------------------------------------------------------------------
AnyName == CHOOSE n \in Names : TRUE

Thread(i, k, s, n, u, num) ==
  [kind |-> k, id |-> i, slot |-> s, name |-> n, user |-> u, num |-> num, step |-> "wait"]

\* A thread joins those of rest; the ones that are alike are numbered.
Start(rest, k, s, n, u, num) ==
  /\ Cardinality(rest) < MaxThreads
  /\ \E i \in 1 .. MaxThreads :
        /\ Thread(i, k, s, n, u, num) \notin rest
        /\ \A j \in 1 .. i - 1 : Thread(j, k, s, n, u, num) \in rest
        /\ threads' = rest \union {Thread(i, k, s, n, u, num)}

Database == <<account, itemRow>>

-----------------------------------------------------------------------------
(* The main thread. *)

JoinSlot(s) ==
  /\ s \notin joined
  /\ joined' = joined \union {s}
  /\ userID' = [userID EXCEPT ![s] = 0]
  /\ UNCHANGED <<Database, inventory, threads>>

\* OnClientDrop: the player is deleted; ClearInv without the database.
LeaveSlot(s) ==
  /\ s \in joined
  /\ joined' = joined \ {s}
  /\ userID' = [userID EXCEPT ![s] = 0]
  /\ inventory' = [inventory EXCEPT ![s] = NoItem]
  /\ UNCHANGED <<Database, threads>>

\* ConRegister, ConLogin
AccountCommand(s, k, n) ==
  /\ s \in joined
  /\ Start(threads, k, s, n, 0, 0)
  /\ UNCHANGED <<Database, joined, userID, inventory>>

\* AddInvItemNum by a pickup or a shot, and by ReturnItem for what is made and
\* what it needs.  The account is the one of this moment.
AddInvItemNum(s, n) ==
  LET num == IF inventory[s] = NoItem THEN n ELSE inventory[s] + n
  IN  /\ s \in joined
      /\ num \in 0 .. MaxNum
      /\ inventory' = [inventory EXCEPT ![s] = num]
      /\ Start(threads, "update", s, AnyName, userID[s], num)
      /\ UNCHANGED <<Database, joined, userID>>

-----------------------------------------------------------------------------
(* The threads. *)

At(t, s) == (threads \ {t}) \union {[t EXCEPT !.step = s, !.id = 1]}

\* Mutant of Ended: a path out of a thread that does not unlock SQLLock.
EndedLocked(t) == At(t, "stuck")

\* lock_unlock(SQLLock), at the end of every path.
Ended(t) == threads \ {t}

\* Mutant of SQLLockFree: the threads do not exclude one another.
NoLock == TRUE

SQLLockFree == \A t \in threads : t.step = "wait"

\* lock_wait(SQLLock).  Items of no account are not saved.  Of threads that are
\* alike it does not matter which one goes on.
TakeSQLLock(t) ==
  /\ t.step = "wait"
  /\ SQLLockFree
  /\ [t EXCEPT !.id = @ + 1] \notin threads
  /\ threads' = IF t.kind \in {"update", "sync"} /\ t.user = 0
                  THEN Ended(t) ELSE At(t, "query")
  /\ UNCHANGED <<Database, joined, userID, inventory>>

\* The SELECT: what it finds decides how the thread goes on.
Query(t) ==
  LET named == \E i \in DOMAIN account : account[i] = t.name
      listed == \E i \in DOMAIN itemRow : itemRow[i].owner = t.user
  IN  /\ t.step = "query"
      /\ \/ t.kind = "register" /\ threads' = IF named THEN Ended(t) ELSE At(t, "insert")
         \/ t.kind = "update" /\ threads' = At(t, IF listed THEN "change" ELSE "insert")
         \/ t.kind = "login" /\ threads' = IF named THEN At(t, "game") ELSE Ended(t)
         \/ t.kind = "sync" /\ threads' = IF listed THEN At(t, "game") ELSE Ended(t)
      /\ UNCHANGED <<Database, joined, userID, inventory>>

\* The INSERT that follows a SELECT which found nothing, and the commit.  The
\* row of an account takes its language from the player in the slot.
Insert(t) ==
  /\ t.step = "insert"
  /\ IF t.kind = "register"
       THEN /\ t.slot \in joined
            /\ account' = Append(account, t.name)
            /\ threads' = At(t, "game")
            /\ UNCHANGED itemRow
       ELSE /\ itemRow' = Append(itemRow, [owner |-> t.user, num |-> t.num])
            /\ threads' = Ended(t)
            /\ UNCHANGED account
  /\ UNCHANGED <<joined, userID, inventory>>

\* The UPDATE of the row that the SELECT found, and the commit.
Change(t) ==
  /\ t.step = "change"
  /\ \E i \in DOMAIN itemRow :
        /\ itemRow[i].owner = t.user
        /\ itemRow' = [itemRow EXCEPT ![i].num = t.num]
  /\ threads' = Ended(t)
  /\ UNCHANGED <<account, joined, userID, inventory>>

-----------------------------------------------------------------------------
(* What a result does to the game: the thread calls into the game while the *)
(* main thread runs, with the slot it was started for.                      *)

\* The account is there: a login thread is started for it.
Registered(t) ==
  /\ t.kind = "register" /\ t.step = "game"
  /\ Start(Ended(t), "login", t.slot, t.name, 0, 0)
  /\ UNCHANGED <<Database, joined, userID, inventory>>

\* The password and the nickname are those of the row: the player in the slot
\* has the account, and a thread fetches its items.
LoggedIn(t) ==
  LET user == CHOOSE i \in DOMAIN account : account[i] = t.name
  IN  /\ t.kind = "login" /\ t.step = "game"
      /\ t.slot \in joined
      /\ userID' = [userID EXCEPT ![t.slot] = user]
      /\ Start(Ended(t), "sync", t.slot, AnyName, user, 0)
      /\ UNCHANGED <<Database, joined, inventory>>

LoginRefused(t) ==
  /\ t.kind = "login" /\ t.step = "game"
  /\ threads' = Ended(t)
  /\ UNCHANGED <<Database, joined, userID, inventory>>

\* SetInvItemNum for the item of the row, whoever has the slot.
ItemsSynced(t) ==
  /\ t.kind = "sync" /\ t.step = "game"
  /\ \E i \in DOMAIN itemRow :
        /\ itemRow[i].owner = t.user
        /\ inventory' = [inventory EXCEPT ![t.slot] = itemRow[i].num]
  /\ threads' = Ended(t)
  /\ UNCHANGED <<Database, joined, userID>>

\* A query throws: what was not committed is dropped, the lock is freed.
QueryFails(t) ==
  /\ t.step \in {"query", "insert", "change"}
  /\ threads' = Ended(t)
  /\ UNCHANGED <<Database, joined, userID, inventory>>

\* The process ends, by a null pointer or by any other cause; it is started again.
Crash ==
  /\ threads' = {} /\ joined' = {}
  /\ userID' = [s \in Slots |-> 0]
  /\ inventory' = [s \in Slots |-> NoItem]
  /\ UNCHANGED Database

ThreadStep(t) ==
  \/ TakeSQLLock(t) \/ Query(t) \/ Insert(t) \/ Change(t)
  \/ Registered(t) \/ LoggedIn(t) \/ LoginRefused(t) \/ ItemsSynced(t)

AccountsNext ==
  \/ \E s \in Slots : JoinSlot(s) \/ LeaveSlot(s)
  \/ \E s \in Slots, k \in {"register", "login"}, n \in Names : AccountCommand(s, k, n)
  \/ \E s \in Slots, n \in {-1, 1} : AddInvItemNum(s, n)
  \/ \E t \in threads : ThreadStep(t) \/ QueryFails(t)
  \/ Crash

\* A thread that runs ends; the lock is given to one of those that wait.  A null
\* pointer ends the process.
AccountsFairness ==
  /\ WF_accountVars(\E t \in threads : ThreadStep(t) \/ QueryFails(t))
  /\ WF_accountVars(Crash /\ \E t \in threads : /\ t.slot \notin joined
                                                /\ t.step \in {"insert", "game"})

AccountsSpec == AccountsInit /\ [][AccountsNext]_accountVars /\ AccountsFairness

-----------------------------------------------------------------------------
\* No two accounts have one name, and no account has two rows for one item:
\* the tables have no constraint that would refuse them, so that it rests on
\* SQLLock being held from the SELECT to the commit, across crashes.  The
\* owner of a row, and the account of a player, exist.
TablesHaveOneRow ==
  /\ \A i, j \in DOMAIN account : account[i] = account[j] => i = j
  /\ \A i, j \in DOMAIN itemRow : itemRow[i].owner = itemRow[j].owner => i = j
  /\ \A i \in DOMAIN itemRow : itemRow[i].owner \in DOMAIN account
  /\ \A s \in Slots : userID[s] \in DOMAIN account \union {0}

\* SQLLock is given back whatever the queries of its holder do, so that the
\* threads that wait for it go on.
QueriesEnd == ~SQLLockFree ~> SQLLockFree
=============================================================================
