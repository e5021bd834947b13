----------------------------- MODULE ThreadsProofs -----------------------------
(***************************************************************************)
(* Theorems about the parts in which threads, requests or late answers     *)
(* come in any order: the job pool, the account threads, a client during   *)
(* map changes and the registration at the master, each for every value of *)
(* its constants, and the types of all parts of MCThreads together.        *)
(***************************************************************************)
EXTENDS MCThreads, Lemmas

-----------------------------------------------------------------------------
(***************************************************************************)
(* Jobs are taken in the order in which they were added, for any number of *)
(* workers and jobs.  While the pool lives, what was taken and what is in  *)
(* the list make up, in this order, what was added; a job is added once,   *)
(* so that no two workers hold one job.                                    *)
(***************************************************************************)
ListAccounts ==
  /\ list \in Seq(PoolJobs) /\ addedJobs \in Seq(PoolJobs) /\ takenJobs \in Seq(PoolJobs)
  /\ pool # "gone" => takenJobs \o list = addedJobs

\* Workers return for good only in a pool that was told to stop; Join needs all
\* of them, so that none fetches once the list is dropped.
NoWorkAfter == pool = "gone" => \A w \in Workers : worker[w] = "returned"

\* Each job is added once.
AddedOnce ==
  /\ \A i \in DOMAIN addedJobs : jobStatus[addedJobs[i]] # "new"
  /\ \A i, j \in DOMAIN addedJobs : addedJobs[i] = addedJobs[j] => i = j

IsTaken(j) == \E i \in DOMAIN takenJobs : takenJobs[i] = j

\* What a worker holds was taken and is not done; what is begun was taken.
HeldIsTaken ==
  /\ \A w \in Workers :
       worker[w] \in PoolJobs => IsTaken(worker[w]) /\ jobStatus[worker[w]] # "done"
  /\ \A j \in PoolJobs : jobStatus[j] \in {"running", "done"} => IsTaken(j)

PoolInv ==
  /\ worker \in [Workers -> {"check", "sleep", "fetch", "returned"} \union PoolJobs]
  /\ jobStatus \in [PoolJobs -> {"new", "pending", "running", "done"}]
  /\ ListAccounts
  /\ JobsTakenInOrder
  /\ NoWorkAfter
  /\ AddedOnce
  /\ HeldIsTaken

\* Taking the head of a list and putting it behind another keeps the whole.
LEMMA MoveHead ==
  ASSUME NEW S, NEW a \in Seq(S), NEW b \in Seq(S), b # <<>>
  PROVE  Append(a, Head(b)) \o Tail(b) = a \o b
  OBVIOUS

LEMMA AppendBehind ==
  ASSUME NEW S, NEW a \in Seq(S), NEW b \in Seq(S), NEW x \in S
  PROVE  a \o Append(b, x) = Append(a \o b, x)
  OBVIOUS

\* What comes first in a whole is a prefix of it, and the next is what follows it.
LEMMA PrefixOfWhole ==
  ASSUME NEW S, NEW a \in Seq(S), NEW b \in Seq(S), NEW c \in Seq(S), a \o b = c
  PROVE  /\ Len(a) <= Len(c) /\ \A i \in DOMAIN a : a[i] = c[i]
         /\ b # <<>> => Len(a) + 1 \in DOMAIN c /\ c[Len(a) + 1] = Head(b)
  OBVIOUS

LEMMA Appended ==
  ASSUME NEW S, NEW a \in Seq(S), NEW x \in S
  PROVE  /\ Append(a, x) \in Seq(S) /\ DOMAIN Append(a, x) = DOMAIN a \union {Len(a) + 1}
         /\ Append(a, x)[Len(a) + 1] = x /\ \A i \in DOMAIN a : Append(a, x)[i] = a[i]
         /\ Len(a) + 1 \notin DOMAIN a /\ DOMAIN a \subseteq Nat
  OBVIOUS

LEMMA ElementTyped ==
  ASSUME NEW S, NEW q \in Seq(S), NEW i \in DOMAIN q
  PROVE  q[i] \in S
  OBVIOUS

LEMMA PoolInvInit == PoolInit => PoolInv
<1>. SUFFICES ASSUME PoolInit PROVE PoolInv
  OBVIOUS
<1>1. \A w \in Workers : worker[w] \notin PoolJobs
  BY JobPoolAssumption DEF PoolInit
<1>. QED
  BY <1>1 DEF PoolInit, PoolInv, ListAccounts, JobsTakenInOrder, NoWorkAfter, AddedOnce, HeldIsTaken

\* AddToList: the job was new, so that nobody holds it and it is not in the list.
LEMMA AddKeepsPool ==
  ASSUME PoolInv, NEW j \in PoolJobs, AddToList(j)
  PROVE  PoolInv'
<1>. USE DEF PoolInv
<1>0. /\ list' = Append(list, j) /\ addedJobs' = Append(addedJobs, j) /\ pool = "runs"
      /\ jobStatus' = [jobStatus EXCEPT ![j] = "pending"] /\ jobStatus[j] = "new"
      /\ UNCHANGED <<worker, pool, takenJobs>>
  BY DEF AddToList
<1>1. /\ list \in Seq(PoolJobs) /\ addedJobs \in Seq(PoolJobs) /\ takenJobs \in Seq(PoolJobs)
      /\ takenJobs \o list = addedJobs
  BY <1>0 DEF ListAccounts
<1>2. /\ list' \in Seq(PoolJobs) /\ addedJobs' \in Seq(PoolJobs)
      /\ DOMAIN addedJobs' = DOMAIN addedJobs \union {Len(addedJobs) + 1}
      /\ addedJobs'[Len(addedJobs) + 1] = j /\ Len(addedJobs) + 1 \notin DOMAIN addedJobs
      /\ \A i \in DOMAIN addedJobs : addedJobs'[i] = addedJobs[i]
  BY <1>0, <1>1, Appended
<1>3. takenJobs' \o list' = addedJobs'
  <2>. HIDE DEF PoolInv
  <2>. QED  BY <1>0, <1>1, AppendBehind
<1>4. ListAccounts'
  BY <1>0, <1>1, <1>2, <1>3 DEF ListAccounts
<1>5. AddedOnce'
  BY <1>0, <1>1, <1>2 DEF AddedOnce
<1>6. HeldIsTaken'
  BY <1>0 DEF HeldIsTaken, IsTaken
<1>7. JobsTakenInOrder'
  <2>1. Len(takenJobs') <= Len(addedJobs') /\ \A i \in DOMAIN takenJobs' : takenJobs'[i] = addedJobs'[i]
    <3>. HIDE DEF PoolInv
    <3>. QED  BY <1>0, <1>1, <1>2, <1>3, PrefixOfWhole
  <2>2. \A i \in DOMAIN takenJobs : takenJobs[i] # j
    <3>1. \A i \in DOMAIN takenJobs : i \in DOMAIN addedJobs /\ takenJobs[i] = addedJobs[i]
      BY <1>1 DEF JobsTakenInOrder
    <3>. QED  BY <1>0, <3>1 DEF AddedOnce
  <2>. QED  BY <1>0, <2>1, <2>2 DEF JobsTakenInOrder
<1>. QED  BY <1>0, <1>4, <1>5, <1>6, <1>7 DEF NoWorkAfter

\* Fetch: the first job of the list was not taken, so that nobody holds it.
LEMMA FetchKeepsPool ==
  ASSUME PoolInv, NEW w \in Workers, Fetch(w)
  PROVE  PoolInv'
<1>. USE DEF PoolInv
<1>0. /\ worker[w] = "fetch" /\ pool # "gone"
      /\ UNCHANGED <<jobStatus, pool, addedJobs>>
  BY DEF Fetch, NoWorkAfter
<1>1. CASE list = <<>>
  <2>1. worker' = [worker EXCEPT ![w] = "check"] /\ UNCHANGED <<list, takenJobs>>
    BY <1>1 DEF Fetch
  <2>2. "check" \notin PoolJobs /\ "fetch" \notin PoolJobs
    BY JobPoolAssumption
  <2>. QED  BY <1>0, <2>1, <2>2 DEF ListAccounts, JobsTakenInOrder, NoWorkAfter, AddedOnce, HeldIsTaken, IsTaken
<1>2. CASE list # <<>>
  <2>. DEFINE j == Head(list)
  <2>1. /\ list \in Seq(PoolJobs) /\ addedJobs \in Seq(PoolJobs) /\ takenJobs \in Seq(PoolJobs)
        /\ takenJobs \o list = addedJobs
    BY <1>0 DEF ListAccounts
  <2>2. j \in PoolJobs /\ list' = Tail(list) /\ takenJobs' = Append(takenJobs, j)
        /\ worker' = [worker EXCEPT ![w] = j] /\ Tail(list) \in Seq(PoolJobs)
    BY <1>2, <2>1 DEF Fetch, Taken
  <2>3. takenJobs' \o list' = addedJobs'
    BY <1>0, <1>2, <2>1, <2>2, MoveHead
  <2>4. /\ Len(takenJobs) + 1 \in DOMAIN addedJobs /\ addedJobs[Len(takenJobs) + 1] = j
        /\ \A i \in DOMAIN takenJobs : takenJobs[i] = addedJobs[i]
        /\ Len(takenJobs) <= Len(addedJobs)
    <3>1. list \in Seq(PoolJobs) /\ addedJobs \in Seq(PoolJobs) /\ takenJobs \in Seq(PoolJobs)
      BY <2>1
    <3>2. takenJobs \o list = addedJobs
      BY <2>1
    <3>. HIDE DEF PoolInv, j
    <3>3. /\ Len(takenJobs) <= Len(addedJobs) /\ \A i \in DOMAIN takenJobs : takenJobs[i] = addedJobs[i]
          /\ list # <<>> => Len(takenJobs) + 1 \in DOMAIN addedJobs
                             /\ addedJobs[Len(takenJobs) + 1] = Head(list)
      BY <3>1, <3>2, PrefixOfWhole
    <3>. QED  BY <1>2, <3>3 DEF j
  <2>5. /\ takenJobs' \in Seq(PoolJobs) /\ DOMAIN takenJobs' = DOMAIN takenJobs \union {Len(takenJobs) + 1}
        /\ takenJobs'[Len(takenJobs) + 1] = j /\ Len(takenJobs) + 1 \notin DOMAIN takenJobs
        /\ \A i \in DOMAIN takenJobs : takenJobs'[i] = takenJobs[i]
    BY <2>1, <2>2, Appended
  <2>. HIDE DEF j
  <2>6. ~IsTaken(j)
    <3>. SUFFICES ASSUME NEW i \in DOMAIN takenJobs, takenJobs[i] = j PROVE FALSE
      BY DEF IsTaken
    <3>1. i \in DOMAIN addedJobs
      BY <2>1, <2>4
    <3>. QED  BY <2>4, <2>5, <3>1 DEF AddedOnce
  <2>7. ListAccounts'
    BY <1>0, <2>1, <2>2, <2>3, <2>5 DEF ListAccounts
  <2>8. HeldIsTaken'
    BY <1>0, <2>2, <2>5, <2>6 DEF HeldIsTaken, IsTaken
  <2>9. JobsTakenInOrder'
    <3>1. Len(takenJobs') <= Len(addedJobs') /\ \A i \in DOMAIN takenJobs' : takenJobs'[i] = addedJobs'[i]
      <4>. HIDE DEF PoolInv
      <4>. QED  BY <1>0, <2>1, <2>2, <2>3, <2>5, PrefixOfWhole
    <3>2. \A v \in Workers : worker[v] # j
      BY <2>2, <2>6 DEF HeldIsTaken
    <3>3. "fetch" \notin PoolJobs
      BY JobPoolAssumption
    <3>4. ASSUME NEW i \in DOMAIN takenJobs'
          PROVE  jobStatus'[takenJobs'[i]] = "done" \/ \E v \in Workers : worker'[v] = takenJobs'[i]
      <4>1. CASE i = Len(takenJobs) + 1
        BY <2>2, <2>5, <4>1
      <4>2. CASE i \in DOMAIN takenJobs
        <5>1. takenJobs[i] \in PoolJobs
          BY <2>1, <4>2, ElementTyped
        <5>2. jobStatus[takenJobs[i]] = "done" \/ \E v \in Workers : worker[v] = takenJobs[i]
          BY <4>2 DEF JobsTakenInOrder
        <5>. QED  BY <1>0, <2>2, <2>5, <3>3, <4>2, <5>1, <5>2
      <4>. QED  BY <2>5, <4>1, <4>2
    <3>5. \A u, v \in Workers : worker'[u] = worker'[v] /\ worker'[u] \in PoolJobs => u = v
      BY <2>2, <3>2 DEF JobsTakenInOrder
    <3>. QED  BY <3>1, <3>4, <3>5 DEF JobsTakenInOrder
  <2>. QED  BY <1>0, <2>2, <2>7, <2>8, <2>9 DEF NoWorkAfter, AddedOnce
<1>. QED  BY <1>1, <1>2

\* JobEnds: no other worker holds the job that is done.
LEMMA JobEndsKeepsPool ==
  ASSUME PoolInv, NEW w \in Workers, JobEnds(w)
  PROVE  PoolInv'
<1>. USE DEF PoolInv
<1>. DEFINE j == worker[w]
<1>0. /\ j \in PoolJobs /\ jobStatus' = [jobStatus EXCEPT ![j] = "done"]
      /\ worker' = [worker EXCEPT ![w] = "check"]
      /\ UNCHANGED <<list, pool, addedJobs, takenJobs>>
  BY DEF JobEnds
<1>1. /\ \A v \in Workers : worker[v] = j => v = w
      /\ "check" \notin PoolJobs /\ IsTaken(j)
  BY <1>0, JobPoolAssumption DEF JobsTakenInOrder, HeldIsTaken
<1>. HIDE DEF j
<1>2. HeldIsTaken'
  BY <1>0, <1>1 DEF HeldIsTaken, IsTaken
<1>3. JobsTakenInOrder'
  <2>1. ASSUME NEW i \in DOMAIN takenJobs
        PROVE  jobStatus'[takenJobs[i]] = "done" \/ \E v \in Workers : worker'[v] = takenJobs[i]
    <3>1. takenJobs[i] \in PoolJobs
      BY ElementTyped DEF ListAccounts
    <3>2. jobStatus[takenJobs[i]] = "done" \/ \E v \in Workers : worker[v] = takenJobs[i]
      BY DEF JobsTakenInOrder
    <3>3. CASE takenJobs[i] = j
      BY <1>0, <3>3
    <3>4. CASE takenJobs[i] # j
      BY <1>0, <3>1, <3>2, <3>4 DEF j
    <3>. QED  BY <3>3, <3>4
  <2>2. \A u, v \in Workers : worker'[u] = worker'[v] /\ worker'[u] \in PoolJobs => u = v
    BY <1>0, <1>1 DEF JobsTakenInOrder
  <2>. QED  BY <1>0, <2>1, <2>2 DEF JobsTakenInOrder
<1>4. AddedOnce'
  BY <1>0 DEF AddedOnce, ListAccounts
<1>5. NoWorkAfter'
  BY <1>0, JobPoolAssumption DEF NoWorkAfter, j
<1>. QED  BY <1>0, <1>2, <1>3, <1>4, <1>5 DEF ListAccounts

\* The steps after which a worker holds what it held, and no job's end is new.
LEMMA OthersKeepPool ==
  ASSUME PoolInv,
         worker' \in [Workers -> {"check", "sleep", "fetch", "returned"} \union PoolJobs],
         jobStatus' \in [PoolJobs -> {"new", "pending", "running", "done"}],
         \A w \in Workers : worker[w] \in PoolJobs \/ worker'[w] \in PoolJobs => worker'[w] = worker[w],
         \A j \in PoolJobs : /\ jobStatus'[j] = "done" <=> jobStatus[j] = "done"
                             /\ jobStatus'[j] = "new" => jobStatus[j] = "new"
                             /\ jobStatus'[j] = "running" => IsTaken(j),
         pool' = "gone" => \A w \in Workers : worker'[w] = "returned",
         list' \in Seq(PoolJobs), pool' # "gone" => pool # "gone" /\ list' = list,
         UNCHANGED <<addedJobs, takenJobs>>
  PROVE  PoolInv'
<1>. USE DEF PoolInv
<1>1. ListAccounts'
  BY DEF ListAccounts
<1>2. \A i \in DOMAIN takenJobs : takenJobs[i] \in PoolJobs
  BY ElementTyped DEF ListAccounts
<1>3. JobsTakenInOrder'
  <2>1. ASSUME NEW i \in DOMAIN takenJobs
        PROVE  jobStatus'[takenJobs[i]] = "done" \/ \E v \in Workers : worker'[v] = takenJobs[i]
    <3>1. jobStatus[takenJobs[i]] = "done" \/ \E v \in Workers : worker[v] = takenJobs[i]
      BY DEF JobsTakenInOrder
    <3>. QED  BY <1>2, <3>1
  <2>2. \A u, v \in Workers : worker'[u] = worker'[v] /\ worker'[u] \in PoolJobs => u = v
    BY DEF JobsTakenInOrder
  <2>. QED  BY <2>1, <2>2 DEF JobsTakenInOrder
<1>4. AddedOnce'
  <2>1. \A i \in DOMAIN addedJobs : addedJobs[i] \in PoolJobs
    BY ElementTyped DEF ListAccounts
  <2>. QED  BY <2>1 DEF AddedOnce
<1>5. HeldIsTaken'
  BY DEF HeldIsTaken, IsTaken
<1>6. NoWorkAfter'
  BY DEF NoWorkAfter
<1>. QED  BY <1>1, <1>3, <1>4, <1>5, <1>6

LEMMA PoolInvNext == PoolInv /\ [PoolNext]_poolVars => PoolInv'
<1> SUFFICES ASSUME PoolInv, [PoolNext]_poolVars PROVE PoolInv'
  OBVIOUS
<1>a. /\ worker \in [Workers -> {"check", "sleep", "fetch", "returned"} \union PoolJobs]
      /\ jobStatus \in [PoolJobs -> {"new", "pending", "running", "done"}]
      /\ list \in Seq(PoolJobs) /\ NoWorkAfter
      /\ \A j \in PoolJobs : jobStatus[j] = "running" => IsTaken(j)
      /\ \A w \in Workers : worker[w] \in PoolJobs => IsTaken(worker[w])
  BY DEF PoolInv, ListAccounts, HeldIsTaken
<1>b. PoolJobs \intersect {"check", "sleep", "fetch", "returned"} = {}
  BY JobPoolAssumption
<1>1. ASSUME NEW j \in PoolJobs, Raise(j) PROVE PoolInv'
  BY <1>1, <1>a, OthersKeepPool DEF Raise, NoWorkAfter
<1>2. ASSUME NEW w \in Workers, CheckShutdown(w) PROVE PoolInv'
  <2>1. pool' = pool /\ jobStatus' = jobStatus /\ list' = list /\ UNCHANGED <<addedJobs, takenJobs>>
        /\ worker[w] = "check"
        /\ worker' = [worker EXCEPT ![w] = IF Shutdown THEN "returned" ELSE "sleep"]
    BY <1>2 DEF CheckShutdown
  <2>. QED  BY <2>1, <1>a, <1>b, OthersKeepPool DEF NoWorkAfter
<1>3. ASSUME NEW w \in Workers, Wake(w) PROVE PoolInv'
  <2>1. pool' = pool /\ jobStatus' = jobStatus /\ list' = list /\ UNCHANGED <<addedJobs, takenJobs>>
        /\ worker[w] = "sleep" /\ worker' = [worker EXCEPT ![w] = "fetch"]
    BY <1>3 DEF Wake
  <2>. QED  BY <2>1, <1>a, <1>b, OthersKeepPool DEF NoWorkAfter
<1>4. ASSUME NEW w \in Workers, Begin(w) PROVE PoolInv'
  <2>1. pool' = pool /\ worker' = worker /\ list' = list /\ UNCHANGED <<addedJobs, takenJobs>>
        /\ worker[w] \in PoolJobs /\ jobStatus[worker[w]] = "pending"
        /\ jobStatus' = [jobStatus EXCEPT ![worker[w]] = "running"]
    BY <1>4 DEF Begin
  <2>. QED  BY <2>1, <1>a, OthersKeepPool DEF NoWorkAfter
<1>5. CASE StopPool \/ Signal
  BY <1>5, <1>a, OthersKeepPool DEF StopPool, Signal, NoWorkAfter
<1>6. CASE Join
  <2>1. /\ pool' = "gone" /\ list' = <<>> /\ \A w \in Workers : worker[w] = "returned"
        /\ UNCHANGED <<worker, jobStatus, addedJobs, takenJobs>>
    BY <1>6 DEF Join
  <2>2. list' \in Seq(PoolJobs)
    BY <2>1
  <2>. QED  BY <2>1, <2>2, <1>a, OthersKeepPool
<1>7. CASE UNCHANGED poolVars
  BY <1>7, <1>a, OthersKeepPool DEF poolVars, NoWorkAfter
<1> QED
  BY <1>1, <1>2, <1>3, <1>4, <1>5, <1>6, <1>7, AddKeepsPool, FetchKeepsPool, JobEndsKeepsPool
     DEF PoolNext, WorkerStep

\* Workers take jobs in the order in which CJobPool::Add put them into the list;
\* no job is taken by two, lost by the one that took it or begun untaken, with any
\* number of workers and through Destroy.
THEOREM JobsAlwaysTakenInOrder == PoolSpec => []JobsTakenInOrder
<1>1. PoolInv => JobsTakenInOrder
  BY DEF PoolInv
<1> QED
  BY PoolInvInit, PoolInvNext, <1>1, PTL DEF PoolSpec

-----------------------------------------------------------------------------
(***************************************************************************)
(* The tables keep one row for each account and each of its items, for any *)
(* number of threads, names and slots.  A thread that is past lock_wait is *)
(* the only one, and what its SELECT did not find is still not there when  *)
(* it inserts.                                                             *)
(***************************************************************************)
Typed ==
  /\ account \in Seq(Names)
  /\ itemRow \in Seq([owner : Nat \ {0}, num : Int])
  /\ joined \subseteq Slots
  /\ userID \in [Slots -> Nat]
  /\ threads \subseteq Threads

Holds(t) == t.step # "wait"

OneHolder == \A t, u \in threads : Holds(t) /\ Holds(u) => t = u

NameIsFree(n) == \A i \in DOMAIN account : account[i] # n
ItemIsFree(u) == \A i \in DOMAIN itemRow : itemRow[i].owner # u

\* What a thread knows at each of its steps: from its SELECT, and from the test
\* for an account at its beginning.
Knows(t) ==
  /\ t.user \in DOMAIN account \union {0}
  /\ t.kind = "update" /\ t.step \in {"query", "insert"} => t.user # 0
  /\ t.step = "insert" => t.kind \in {"register", "update"}
  /\ t.step = "insert" /\ t.kind = "register" => NameIsFree(t.name)
  /\ t.step = "insert" /\ t.kind = "update" => ItemIsFree(t.user)
  /\ t.step = "game" /\ t.kind = "login" => \E i \in DOMAIN account : account[i] = t.name

AccountsInv ==
  /\ Typed
  /\ OneHolder
  /\ \A t \in threads : Knows(t)
  /\ TablesHaveOneRow

LEMMA NewThreadTyped ==
  ASSUME NEW i \in Nat \ {0}, NEW k \in {"register", "login", "update", "sync"},
         NEW s \in Slots, NEW n \in Names, NEW u \in Nat, NEW num \in Int
  PROVE  /\ Thread(i, k, s, n, u, num) \in Threads
         /\ Thread(i, k, s, n, u, num).step = "wait"
         /\ Thread(i, k, s, n, u, num).kind = k
         /\ Thread(i, k, s, n, u, num).user = u
  BY DEF Thread, Threads

\* A thread that goes on to another step.
Stepped(t, s) == [t EXCEPT !.step = s, !.id = 1]

LEMMA SteppedThread ==
  ASSUME NEW t \in Threads, NEW s \in {"wait", "query", "insert", "change", "game", "stuck"}
  PROVE  /\ Stepped(t, s) \in Threads
         /\ Stepped(t, s).step = s
         /\ Stepped(t, s).kind = t.kind
         /\ Stepped(t, s).user = t.user
         /\ Stepped(t, s).name = t.name
<1> DEFINE u == [t EXCEPT !.step = s]
<1>1. /\ u \in Threads /\ u.step = s /\ u.kind = t.kind /\ u.user = t.user
      /\ u.name = t.name
  BY DEF Threads
<1>2. Stepped(t, s) = [u EXCEPT !.id = 1]
  BY DEF Threads, Stepped
<1> HIDE DEF u
<1>3. [u EXCEPT !.id = 1] \in Threads
  BY <1>1 DEF Threads
<1>4. /\ [u EXCEPT !.id = 1].step = u.step /\ [u EXCEPT !.id = 1].kind = u.kind
      /\ [u EXCEPT !.id = 1].user = u.user /\ [u EXCEPT !.id = 1].name = u.name
  BY <1>1 DEF Threads
<1> QED
  BY <1>1, <1>2, <1>3, <1>4

LEMMA AnyNameIsOne == AnyName \in Names
  BY AccountsAssumption DEF AnyName

\* A new thread waits: it knows what its account is, and disturbs nobody.
LEMMA StartsKeepInv ==
  ASSUME AccountsInv, NEW s \in Slots, NEW k \in {"register", "login", "update", "sync"},
         NEW n \in Names, NEW u \in DOMAIN account \union {0}, NEW num \in Int,
         NEW rest \in SUBSET threads, Start(rest, k, s, n, u, num),
         joined' \subseteq Slots, userID' \in [Slots -> DOMAIN account \union {0}],
         account' = account, itemRow' = itemRow
  PROVE  AccountsInv'
<1>0. u \in Nat /\ DOMAIN account \subseteq Nat
  BY DEF AccountsInv, Typed
<1>a. PICK i \in 1 .. MaxThreads : threads' = rest \union {Thread(i, k, s, n, u, num)}
  BY DEF Start
<1>b. i \in Nat \ {0}
  BY AccountsAssumption
<1> DEFINE new == Thread(i, k, s, n, u, num)
<1>1. new \in Threads /\ new.step = "wait" /\ new.kind = k /\ new.user = u
  BY <1>0, <1>b, NewThreadTyped
<1> HIDE DEF new
<1>c. threads' = rest \union {new}
  BY <1>a DEF new
<1>2. Typed'
  BY <1>0, <1>1, <1>c DEF AccountsInv, Typed
<1>3. OneHolder'
  BY <1>1, <1>c DEF AccountsInv, OneHolder, Holds
<1>4. \A t \in threads' : Knows(t)'
  <2> SUFFICES ASSUME NEW t \in threads' PROVE Knows(t)'
    OBVIOUS
  <2>1. CASE t \in threads
    BY <2>1 DEF AccountsInv, Knows, NameIsFree, ItemIsFree
  <2>2. CASE t = new
    BY <2>2, <1>1 DEF Knows
  <2> QED
    BY <1>c, <2>1, <2>2
<1>5. TablesHaveOneRow'
  BY DEF AccountsInv, TablesHaveOneRow
<1> QED
  BY <1>2, <1>3, <1>4, <1>5 DEF AccountsInv

\* A thread that ends, or that moves on while no other holds the lock.
LEMMA EndsKeepInv ==
  ASSUME AccountsInv, NEW t \in threads, threads' = threads \ {t},
         UNCHANGED <<account, itemRow, joined, userID>>
  PROVE  AccountsInv'
  BY DEF AccountsInv, Typed, OneHolder, Holds, Knows, NameIsFree, ItemIsFree, TablesHaveOneRow

LEMMA MovesKeepInv ==
  ASSUME AccountsInv, NEW t \in threads,
         NEW s \in {"wait", "query", "insert", "change", "game", "stuck"},
         threads' = At(t, s),
         \A v \in threads \ {t} : v.step = "wait",
         Knows(Stepped(t, s)),
         UNCHANGED <<account, itemRow, joined, userID>>
  PROVE  AccountsInv'
<1> DEFINE u == Stepped(t, s)
<1>1. u \in Threads /\ u.step = s
  BY SteppedThread DEF AccountsInv, Typed
<1>2. threads' = (threads \ {t}) \union {u}
  BY DEF At, Stepped
<1>3. Typed'
  BY <1>1, <1>2 DEF AccountsInv, Typed
<1>4. OneHolder'
  BY <1>1, <1>2 DEF AccountsInv, OneHolder, Holds
<1>5. \A v \in threads' : Knows(v)'
  BY <1>2 DEF AccountsInv, Knows, NameIsFree, ItemIsFree
<1>6. TablesHaveOneRow'
  BY DEF AccountsInv, TablesHaveOneRow
<1> QED
  BY <1>3, <1>4, <1>5, <1>6 DEF AccountsInv

\* While a thread holds the lock all the others wait.
LEMMA OthersWait ==
  ASSUME AccountsInv, NEW t \in threads, t.step # "wait"
  PROVE  \A v \in threads \ {t} : v.step = "wait"
  BY DEF AccountsInv, OneHolder, Holds

LEMMA TakeSQLLockKeepsInv ==
  ASSUME AccountsInv, NEW t \in threads, TakeSQLLock(t)
  PROVE  AccountsInv'
<1>1. CASE t.kind \in {"update", "sync"} /\ t.user = 0
  BY <1>1, EndsKeepInv DEF TakeSQLLock, Ended, Database
<1>2. CASE ~(t.kind \in {"update", "sync"} /\ t.user = 0)
  <2>1. threads' = At(t, "query")
    BY <1>2 DEF TakeSQLLock
  <2>2. t \in Threads
    BY DEF AccountsInv, Typed
  <2>3. Knows(Stepped(t, "query"))
    BY <1>2, <2>2, SteppedThread DEF AccountsInv, Knows
  <2> QED
    BY <2>1, <2>3, MovesKeepInv DEF TakeSQLLock, SQLLockFree, Database
<1> QED
  BY <1>1, <1>2

LEMMA QueryKeepsInv ==
  ASSUME AccountsInv, NEW t \in threads, Query(t)
  PROVE  AccountsInv'
<1> DEFINE named == \E i \in DOMAIN account : account[i] = t.name
           listed == \E i \in DOMAIN itemRow : itemRow[i].owner = t.user
<1>0. /\ t \in Threads /\ t.step = "query" /\ Knows(t)
      /\ UNCHANGED <<account, itemRow, joined, userID>>
  BY DEF AccountsInv, Typed, Query, Database
<1>1. \A v \in threads \ {t} : v.step = "wait"
  BY <1>0, OthersWait
<1>2. CASE t.kind = "register"
  <2>1. threads' = IF named THEN Ended(t) ELSE At(t, "insert")
    BY <1>2 DEF Query
  <2>2. CASE named
    BY <1>0, <2>1, <2>2, EndsKeepInv DEF Ended
  <2>3. CASE ~named
    <3>1. Knows(Stepped(t, "insert"))
      BY <1>0, <1>2, <2>3, SteppedThread DEF Knows, NameIsFree
    <3> QED
      BY <1>0, <1>1, <2>1, <2>3, <3>1, MovesKeepInv
  <2> QED
    BY <2>2, <2>3
<1>3. CASE t.kind = "update"
  <2>1. threads' = At(t, IF listed THEN "change" ELSE "insert")
    BY <1>3 DEF Query
  <2>2. CASE listed
    <3>1. Knows(Stepped(t, "change"))
      BY <1>0, <1>3, SteppedThread DEF Knows
    <3> QED
      BY <1>0, <1>1, <2>1, <2>2, <3>1, MovesKeepInv
  <2>3. CASE ~listed
    <3>1. Knows(Stepped(t, "insert"))
      BY <1>0, <1>3, <2>3, SteppedThread DEF Knows, ItemIsFree
    <3> QED
      BY <1>0, <1>1, <2>1, <2>3, <3>1, MovesKeepInv
  <2> QED
    BY <2>2, <2>3
<1>4. CASE t.kind = "login"
  <2>1. threads' = IF named THEN At(t, "game") ELSE Ended(t)
    BY <1>4 DEF Query
  <2>2. CASE named
    <3>1. Knows(Stepped(t, "game"))
      BY <1>0, <1>4, <2>2, SteppedThread DEF Knows
    <3> QED
      BY <1>0, <1>1, <2>1, <2>2, <3>1, MovesKeepInv
  <2>3. CASE ~named
    BY <1>0, <2>1, <2>3, EndsKeepInv DEF Ended
  <2> QED
    BY <2>2, <2>3
<1>5. CASE t.kind = "sync"
  <2>1. threads' = IF listed THEN At(t, "game") ELSE Ended(t)
    BY <1>5 DEF Query
  <2>2. CASE listed
    <3>1. Knows(Stepped(t, "game"))
      BY <1>0, <1>5, <2>2, SteppedThread DEF Knows
    <3> QED
      BY <1>0, <1>1, <2>1, <2>2, <3>1, MovesKeepInv
  <2>3. CASE ~listed
    BY <1>0, <2>1, <2>3, EndsKeepInv DEF Ended
  <2> QED
    BY <2>2, <2>3
<1> QED
  BY <1>0, <1>2, <1>3, <1>4, <1>5 DEF Threads

LEMMA InsertKeepsInv ==
  ASSUME AccountsInv, NEW t \in threads, Insert(t)
  PROVE  AccountsInv'
<1>0. /\ t \in Threads /\ t.step = "insert" /\ Knows(t) /\ TablesHaveOneRow
      /\ account \in Seq(Names) /\ itemRow \in Seq([owner : Nat \ {0}, num : Int])
      /\ UNCHANGED <<joined, userID>>
  BY DEF AccountsInv, Typed, Insert
<1>1. \A v \in threads \ {t} : v.step = "wait"
  BY <1>0, OthersWait
<1>2. CASE t.kind = "register"
  <2>1. /\ account' = Append(account, t.name) /\ itemRow' = itemRow
        /\ threads' = At(t, "game")
    BY <1>2 DEF Insert
  <2> DEFINE u == Stepped(t, "game")
  <2>2. u \in Threads /\ u.step = "game" /\ u.kind = "register" /\ u.user = t.user
    BY <1>0, <1>2, SteppedThread
  <2>3. threads' = (threads \ {t}) \union {u}
    BY <2>1 DEF At, Stepped
  <2>4. t.name \in Names
    BY <1>0 DEF Threads
  <2>5. /\ account' \in Seq(Names) /\ DOMAIN account \subseteq DOMAIN account'
        /\ DOMAIN account' = DOMAIN account \union {Len(account) + 1}
        /\ account'[Len(account) + 1] = t.name
        /\ \A i \in DOMAIN account : account'[i] = account[i]
    BY <1>0, <2>1, <2>4
  <2>6. Typed'
    BY <1>0, <2>1, <2>2, <2>3, <2>5 DEF AccountsInv, Typed
  <2>7. OneHolder'
    BY <1>1, <2>2, <2>3 DEF OneHolder, Holds
  <2>8. \A v \in threads' : Knows(v)'
    <3>1. \A v \in threads \ {t} : Knows(v)'
      BY <1>1, <2>5 DEF AccountsInv, Knows
    <3>2. Knows(u)'
      BY <1>0, <2>2, <2>5 DEF Knows
    <3> QED
      BY <2>3, <3>1, <3>2
  <2>9. TablesHaveOneRow'
    BY <1>0, <1>2, <2>1, <2>5 DEF TablesHaveOneRow, Knows, NameIsFree
  <2> QED
    BY <2>6, <2>7, <2>8, <2>9 DEF AccountsInv
<1>3. CASE t.kind # "register"
  <2>1. /\ itemRow' = Append(itemRow, [owner |-> t.user, num |-> t.num])
        /\ threads' = threads \ {t} /\ account' = account
    BY <1>3 DEF Insert, Ended
  <2>2. t.kind = "update" /\ t.user \in Nat \ {0} /\ t.num \in Int
        /\ t.user \in DOMAIN account
    BY <1>0, <1>3 DEF Knows, Threads
  <2>3. /\ itemRow' \in Seq([owner : Nat \ {0}, num : Int])
        /\ DOMAIN itemRow' = DOMAIN itemRow \union {Len(itemRow) + 1}
        /\ itemRow'[Len(itemRow) + 1].owner = t.user
        /\ \A i \in DOMAIN itemRow : itemRow'[i] = itemRow[i]
    BY <1>0, <2>1, <2>2
  <2>4. Typed'
    BY <1>0, <2>1, <2>3 DEF AccountsInv, Typed
  <2>5. OneHolder'
    BY <1>1, <2>1 DEF OneHolder, Holds
  <2>6. \A v \in threads' : Knows(v)'
    BY <1>1, <2>1 DEF AccountsInv, Knows
  <2>7. TablesHaveOneRow'
    <3>1. ItemIsFree(t.user)
      BY <1>0, <2>2 DEF Knows
    <3>2. \A i, j \in DOMAIN itemRow' : itemRow'[i].owner = itemRow'[j].owner => i = j
      BY <1>0, <2>3, <3>1 DEF TablesHaveOneRow, ItemIsFree
    <3>3. \A i \in DOMAIN itemRow' : itemRow'[i].owner \in DOMAIN account
      BY <1>0, <2>2, <2>3 DEF TablesHaveOneRow
    <3> QED
      BY <1>0, <2>1, <3>2, <3>3 DEF TablesHaveOneRow
  <2> QED
    BY <2>4, <2>5, <2>6, <2>7 DEF AccountsInv
<1> QED
  BY <1>2, <1>3

LEMMA ChangeKeepsInv ==
  ASSUME AccountsInv, NEW t \in threads, Change(t)
  PROVE  AccountsInv'
<1>0. /\ t \in Threads /\ t.step = "change" /\ TablesHaveOneRow
      /\ itemRow \in Seq([owner : Nat \ {0}, num : Int])
      /\ threads' = threads \ {t}
      /\ UNCHANGED <<account, joined, userID>>
  BY DEF AccountsInv, Typed, Change, Ended
<1>1. \A v \in threads \ {t} : v.step = "wait"
  BY <1>0, OthersWait
<1>2. PICK i \in DOMAIN itemRow : itemRow' = [itemRow EXCEPT ![i].num = t.num]
  BY DEF Change
<1>3. /\ itemRow' \in Seq([owner : Nat \ {0}, num : Int])
      /\ DOMAIN itemRow' = DOMAIN itemRow
      /\ \A j \in DOMAIN itemRow : itemRow'[j].owner = itemRow[j].owner
  <2> DEFINE Row == [owner : Nat \ {0}, num : Int]
             row == [itemRow[i] EXCEPT !.num = t.num]
  <2>1. t.num \in Int
    BY <1>0 DEF Threads
  <2>2. itemRow[i] \in Row
    BY <1>0, ElementTyped
  <2>3. row \in Row /\ row.owner = itemRow[i].owner
    BY <2>1, <2>2
  <2>4. itemRow' = [itemRow EXCEPT ![i] = row]
    BY <1>2
  <2> HIDE DEF row, Row
  <2>5. itemRow \in Seq(Row)
    BY <1>0 DEF Row
  <2>6. itemRow' \in Seq(Row) /\ DOMAIN itemRow' = DOMAIN itemRow
        /\ \A j \in DOMAIN itemRow : itemRow'[j] = IF j = i THEN row ELSE itemRow[j]
    BY <2>3, <2>4, <2>5
  <2> QED
    BY <2>3, <2>6 DEF Row
<1>4. Typed'
  BY <1>0, <1>3 DEF AccountsInv, Typed
<1>5. OneHolder'
  BY <1>1, <1>0 DEF OneHolder, Holds
<1>6. \A v \in threads' : Knows(v)'
  BY <1>1, <1>0 DEF AccountsInv, Knows
<1>7. TablesHaveOneRow'
  BY <1>0, <1>3 DEF TablesHaveOneRow
<1> QED
  BY <1>4, <1>5, <1>6, <1>7 DEF AccountsInv

LEMMA ResultsKeepInv ==
  ASSUME AccountsInv, NEW t \in threads,
         Registered(t) \/ LoggedIn(t) \/ LoginRefused(t) \/ ItemsSynced(t) \/ QueryFails(t)
  PROVE  AccountsInv'
<1>0. t \in Threads /\ t.slot \in Slots /\ t.name \in Names /\ Knows(t)
  BY DEF AccountsInv, Typed, Threads
<1>1. CASE LoginRefused(t) \/ ItemsSynced(t) \/ QueryFails(t)
  BY <1>1, EndsKeepInv DEF LoginRefused, ItemsSynced, QueryFails, Ended, Database
<1>2. userID \in [Slots -> DOMAIN account \union {0}]
  BY DEF AccountsInv, Typed, TablesHaveOneRow
<1>3. CASE Registered(t)
  <2>1. /\ Start(threads \ {t}, "login", t.slot, t.name, 0, 0)
        /\ UNCHANGED <<account, itemRow, joined, userID>>
    BY <1>3 DEF Registered, Ended, Database
  <2>2. joined' \subseteq Slots /\ userID' \in [Slots -> DOMAIN account \union {0}]
    BY <1>2, <2>1 DEF AccountsInv, Typed
  <2> QED
    <3>1. "login" \in {"register", "login", "update", "sync"} /\ 0 \in Int
          /\ 0 \in DOMAIN account \union {0} /\ threads \ {t} \in SUBSET threads
      OBVIOUS
    <3> QED
      BY <1>0, <2>1, <2>2, <3>1, StartsKeepInv
<1>4. CASE LoggedIn(t)
  <2> DEFINE user == CHOOSE i \in DOMAIN account : account[i] = t.name
  <2>1. user \in DOMAIN account
    BY <1>0, <1>4 DEF LoggedIn, Knows
  <2>2. /\ Start(threads \ {t}, "sync", t.slot, AnyName, user, 0)
        /\ userID' = [userID EXCEPT ![t.slot] = user]
        /\ UNCHANGED <<account, itemRow, joined>>
    BY <1>4 DEF LoggedIn, Ended, Database
  <2> HIDE DEF user
  <2>3. joined' \subseteq Slots /\ userID' \in [Slots -> DOMAIN account \union {0}]
    BY <1>2, <2>1, <2>2 DEF AccountsInv, Typed
  <2> QED
    <3>1. "sync" \in {"register", "login", "update", "sync"} /\ 0 \in Int
          /\ user \in DOMAIN account \union {0} /\ threads \ {t} \in SUBSET threads
      BY <2>1
    <3> QED
      BY <1>0, <2>2, <2>3, <3>1, AnyNameIsOne, StartsKeepInv
<1> QED
  BY <1>1, <1>3, <1>4

LEMMA MainThreadKeepsInv ==
  ASSUME AccountsInv,
         \/ \E s \in Slots : JoinSlot(s) \/ LeaveSlot(s)
         \/ \E s \in Slots, k \in {"register", "login"}, n \in Names : AccountCommand(s, k, n)
         \/ \E s \in Slots, n \in {-1, 1} : AddInvItemNum(s, n)
         \/ Crash
  PROVE  AccountsInv'
<1>0. userID \in [Slots -> DOMAIN account \union {0}] /\ joined \subseteq Slots
  BY DEF AccountsInv, Typed, TablesHaveOneRow
<1>1. ASSUME NEW s \in Slots, JoinSlot(s) \/ LeaveSlot(s) PROVE AccountsInv'
  <2>1. /\ userID' \in [Slots -> DOMAIN account \union {0}] /\ joined' \subseteq Slots
        /\ UNCHANGED <<account, itemRow, threads>>
    BY <1>0, <1>1 DEF JoinSlot, LeaveSlot, Database
  <2>2. Typed'
    BY <2>1 DEF AccountsInv, Typed
  <2>3. TablesHaveOneRow'
    BY <2>1 DEF AccountsInv, TablesHaveOneRow
  <2> QED
    BY <2>1, <2>2, <2>3 DEF AccountsInv, OneHolder, Knows, NameIsFree, ItemIsFree
<1>2. ASSUME NEW s \in Slots, NEW k \in {"register", "login"}, NEW n \in Names,
             AccountCommand(s, k, n)
      PROVE  AccountsInv'
  <2>1. /\ Start(threads, k, s, n, 0, 0)
        /\ UNCHANGED <<account, itemRow, joined, userID>>
    BY <1>2 DEF AccountCommand, Database
  <2> QED
    <3>1. k \in {"register", "login", "update", "sync"} /\ 0 \in Int
          /\ 0 \in DOMAIN account \union {0} /\ threads \in SUBSET threads
      OBVIOUS
    <3>2. joined' \subseteq Slots /\ userID' \in [Slots -> DOMAIN account \union {0}]
      BY <1>0, <2>1
    <3> QED
      BY <1>2, <2>1, <3>1, <3>2, StartsKeepInv
<1>3. ASSUME NEW s \in Slots, NEW n \in {-1, 1}, AddInvItemNum(s, n) PROVE AccountsInv'
  <2> DEFINE num == IF inventory[s] = NoItem THEN n ELSE inventory[s] + n
  <2>1. /\ Start(threads, "update", s, AnyName, userID[s], num)
        /\ UNCHANGED <<account, itemRow, joined, userID>>
        /\ num \in Int
    BY <1>3 DEF AddInvItemNum, Database
  <2> HIDE DEF num
  <2> QED
    BY <1>0, <2>1, AnyNameIsOne, StartsKeepInv
<1>4. ASSUME Crash PROVE AccountsInv'
  <2>1. /\ userID' \in [Slots -> {0}] /\ joined' = {} /\ threads' = {}
        /\ UNCHANGED <<account, itemRow>>
    BY <1>4 DEF Crash, Database
  <2> QED
    BY <2>1 DEF AccountsInv, Typed, OneHolder, TablesHaveOneRow
<1> QED
  BY <1>1, <1>2, <1>3, <1>4

LEMMA AccountsInvInit == AccountsInit => AccountsInv
  BY DEF AccountsInit, AccountsInv, Typed, OneHolder, TablesHaveOneRow

LEMMA AccountsInvNext == AccountsInv /\ [AccountsNext]_accountVars => AccountsInv'
<1> SUFFICES ASSUME AccountsInv, [AccountsNext]_accountVars PROVE AccountsInv'
  OBVIOUS
<1>1. ASSUME NEW t \in threads, ThreadStep(t) \/ QueryFails(t) PROVE AccountsInv'
  BY <1>1, TakeSQLLockKeepsInv, QueryKeepsInv, InsertKeepsInv, ChangeKeepsInv, ResultsKeepInv
     DEF ThreadStep
<1>2. CASE UNCHANGED accountVars
  BY <1>2 DEF accountVars, AccountsInv, Typed, OneHolder, Holds, Knows, NameIsFree,
              ItemIsFree, TablesHaveOneRow
<1> QED
  BY <1>1, <1>2, MainThreadKeepsInv DEF AccountsNext

\* No account name and no item of an account ever has a second row in the tables
\* of CPostgresql, however many threads look for it and insert it, and whenever
\* the process crashes; the owners of items and the accounts of players exist.
THEOREM TablesAlwaysHaveOneRow == AccountsSpec => []TablesHaveOneRow
<1>1. AccountsInv => TablesHaveOneRow
  BY DEF AccountsInv
<1> QED
  BY AccountsInvInit, AccountsInvNext, <1>1, PTL DEF AccountsSpec

-----------------------------------------------------------------------------
(***************************************************************************)
(* For any number of map changes and reconnections: when nothing is on its *)
(* way any more, a client that did not connect again past AUTH plays the   *)
(* announced map.                                                          *)
(*                                                                         *)
(* The invariant says what is still to come.  A client that is past AUTH   *)
(* has the announced map, or the last MAP_CHANGE on its way names it; and  *)
(* in every state before INGAME the message that leads on, or the one      *)
(* whose answer it is, is on its way.                                      *)
(***************************************************************************)
IsMapChange(s, i) == s[i].msg = "MAP_CHANGE"
Has(s, m) == \E i \in 1 .. Len(s) : s[i] = m
HasMapChange(s) == \E i \in 1 .. Len(s) : IsMapChange(s, i)

\* The map that the client has when all on its way has arrived.
LastMapIs(s, has, n) ==
  /\ ~HasMapChange(s) => has = n
  /\ \A i \in 1 .. Len(s) :
       IsMapChange(s, i) /\ (\A j \in 1 .. Len(s) : j > i => ~IsMapChange(s, j)) => s[i].map = n

WillHaveMap == clientState # "PREAUTH" => LastMapIs(toClient, clientMap, announced)

\* What leads out of each state is on its way.
WillGoOn ==
  /\ clientState = "PREAUTH" => Has(toServer, "INFO")
  /\ ~outside /\ clientState = "CONNECTING" =>
       HasMapChange(toClient) \/ Has(toServer, "READY")
  /\ ~outside /\ clientState = "READY" =>
       Has(toClient, ConReadyMsg) \/ Has(toServer, "ENTERGAME")

ChangeInv == ChangeTypeOK /\ WillHaveMap /\ WillGoOn

-----------------------------------------------------------------------------
(* Sequences of messages.                                                   *)

\* What is found in a sequence is found when something is appended.
LEMMA HasAppend ==
  ASSUME NEW S, NEW s \in Seq(S), NEW e \in S, NEW m
  PROVE  /\ Has(s, m) => Has(Append(s, e), m)
         /\ Has(Append(s, m), m)
<1>1. ASSUME Has(s, m) PROVE Has(Append(s, e), m)
  <2>1. PICK i \in 1 .. Len(s) : s[i] = m
    BY <1>1 DEF Has
  <2>2. i \in 1 .. Len(Append(s, e)) /\ Append(s, e)[i] = m
    BY <2>1
  <2>. QED  BY <2>2 DEF Has
<1>2. Has(Append(s, m), m)
  <2>. DEFINE longer == Append(s, m)
  <2>1. Len(s) \in Nat /\ Len(longer) = Len(s) + 1 /\ longer[Len(s) + 1] = m
    BY Len(s) \in Nat, SMT
  <2>. HIDE DEF longer
  <2>2. Len(longer) \in 1 .. Len(longer) /\ longer[Len(longer)] = m
    BY <2>1
  <2>. QED  BY <2>2 DEF Has, longer
<1>. QED  BY <1>1, <1>2

\* What is found in a sequence is its head or in its tail.
LEMMA HasTail ==
  ASSUME NEW S, NEW s \in Seq(S), s # <<>>, NEW m, Has(s, m), Head(s) # m
  PROVE  Has(Tail(s), m)
<1>1. PICK i \in 1 .. Len(s) : s[i] = m
  BY DEF Has
<1>2. i # 1 /\ i - 1 \in 1 .. Len(Tail(s)) /\ Tail(s)[i - 1] = s[i]
  BY <1>1
<1>. QED  BY <1>1, <1>2 DEF Has

\* The same for MAP_CHANGE, whatever the map.
LEMMA HasMapChangeAppend ==
  ASSUME NEW s \in Seq(ToClientMessages), NEW e \in ToClientMessages
  PROVE  /\ HasMapChange(s) => HasMapChange(Append(s, e))
         /\ e.msg = "MAP_CHANGE" => HasMapChange(Append(s, e))
<1>. DEFINE t == Append(s, e)
<1>1. Len(t) \in 1 .. Len(t) /\ t[Len(t)] = e
      /\ \A i \in 1 .. Len(s) : i \in 1 .. Len(t) /\ t[i] = s[i]
  BY Len(s) \in Nat
<1>. QED  BY <1>1 DEF HasMapChange, IsMapChange

LEMMA HasMapChangeTail ==
  ASSUME NEW s \in Seq(ToClientMessages), s # <<>>, HasMapChange(s),
         Head(s).msg # "MAP_CHANGE"
  PROVE  HasMapChange(Tail(s))
<1>1. PICK i \in 1 .. Len(s) : IsMapChange(s, i)
  BY DEF HasMapChange
<1>2. i # 1 /\ i - 1 \in 1 .. Len(Tail(s)) /\ Tail(s)[i - 1] = s[i]
  BY <1>1 DEF IsMapChange
<1>. QED  BY <1>1, <1>2 DEF HasMapChange, IsMapChange

\* A MAP_CHANGE that is appended is the last.
LEMMA LastMapAppended ==
  ASSUME NEW s \in Seq(ToClientMessages), NEW n \in 0 .. MaxReloads, NEW has
  PROVE  LastMapIs(Append(s, MapChangeMsg(n)), has, n)
<1>. DEFINE t == Append(s, MapChangeMsg(n))
<1>1. Len(t) = Len(s) + 1 /\ Len(t) \in 1 .. Len(t) /\ t[Len(t)] = MapChangeMsg(n)
  BY DEF MapChangeMsg, ToClientMessages
<1>2. IsMapChange(t, Len(t)) /\ t[Len(t)].map = n
  BY <1>1 DEF IsMapChange, MapChangeMsg
<1>3. HasMapChange(t)
  BY <1>1, <1>2 DEF HasMapChange
<1>4. ASSUME NEW i \in 1 .. Len(t), \A j \in 1 .. Len(t) : j > i => ~IsMapChange(t, j)
      PROVE  t[i].map = n
  <2>1. ~(Len(t) > i)
    BY <1>1, <1>2, <1>4
  <2>2. i = Len(t)
    BY <2>1, <1>1
  <2>. QED  BY <2>2, <1>2
<1>. QED  BY <1>3, <1>4 DEF LastMapIs

\* CON_READY changes nothing of it.
LEMMA LastMapOtherAppended ==
  ASSUME NEW s \in Seq(ToClientMessages), NEW n, NEW has, LastMapIs(s, has, n)
  PROVE  LastMapIs(Append(s, ConReadyMsg), has, n)
<1>. DEFINE t == Append(s, ConReadyMsg)
<1>1. Len(t) = Len(s) + 1 /\ t[Len(t)] = ConReadyMsg /\ Len(s) \in Nat
      /\ \A i \in 1 .. Len(s) : i \in 1 .. Len(t) /\ t[i] = s[i]
  BY DEF ConReadyMsg, ToClientMessages
<1>2. ~IsMapChange(t, Len(t))
  BY <1>1 DEF IsMapChange, ConReadyMsg
<1>3. \A i \in 1 .. Len(s) : IsMapChange(t, i) <=> IsMapChange(s, i)
  BY <1>1 DEF IsMapChange
<1>4. HasMapChange(t) <=> HasMapChange(s)
  BY <1>1, <1>2, <1>3 DEF HasMapChange
<1>5. ASSUME NEW i \in 1 .. Len(t), IsMapChange(t, i),
             \A j \in 1 .. Len(t) : j > i => ~IsMapChange(t, j)
      PROVE  t[i].map = n
  <2>1. i \in 1 .. Len(s)
    BY <1>1, <1>2, <1>5
  <2>2. \A j \in 1 .. Len(s) : j > i => ~IsMapChange(s, j)
    BY <1>1, <1>3, <1>5
  <2>3. IsMapChange(s, i)
    BY <2>1, <1>3, <1>5
  <2>4. s[i].map = n
    BY <2>1, <2>2, <2>3 DEF LastMapIs
  <2>. QED  BY <2>1, <2>4, <1>1
<1>. QED  BY <1>4, <1>5 DEF LastMapIs

\* The client takes the first message and has its map.
LEMMA LastMapTail ==
  ASSUME NEW s \in Seq(ToClientMessages), s # <<>>, NEW n, NEW has, LastMapIs(s, has, n)
  PROVE  LastMapIs(Tail(s), IF Head(s).msg = "MAP_CHANGE" THEN Head(s).map ELSE has, n)
<1>. DEFINE t == Tail(s)
            now == IF Head(s).msg = "MAP_CHANGE" THEN Head(s).map ELSE has
<1>1. Len(s) = Len(t) + 1 /\ Len(t) \in Nat /\ Head(s) = s[1]
      /\ \A i \in 1 .. Len(t) : i + 1 \in 1 .. Len(s) /\ t[i] = s[i + 1]
  OBVIOUS
<1>2. \A i \in 1 .. Len(t) : IsMapChange(t, i) <=> IsMapChange(s, i + 1)
  BY <1>1 DEF IsMapChange
<1>3. ASSUME ~HasMapChange(t)
      PROVE  now = n
  <2>1. \A j \in 1 .. Len(s) : j > 1 => ~IsMapChange(s, j)
    <3>. SUFFICES ASSUME NEW j \in 1 .. Len(s), j > 1 PROVE ~IsMapChange(s, j)
      OBVIOUS
    <3>1. j - 1 \in 1 .. Len(t) /\ (j - 1) + 1 = j
      BY <1>1
    <3>2. ~IsMapChange(t, j - 1)
      BY <3>1, <1>3 DEF HasMapChange
    <3>. QED  BY <3>1, <3>2, <1>2
  <2>2. CASE Head(s).msg = "MAP_CHANGE"
    <3>1. 1 \in 1 .. Len(s) /\ IsMapChange(s, 1)
      BY <1>1, <2>2 DEF IsMapChange
    <3>2. s[1].map = n
      BY <3>1, <2>1 DEF LastMapIs
    <3>. QED  BY <3>2, <2>2, <1>1
  <2>3. CASE Head(s).msg # "MAP_CHANGE"
    <3>1. ~HasMapChange(s)
      <4>. SUFFICES ASSUME NEW j \in 1 .. Len(s) PROVE ~IsMapChange(s, j)
        BY DEF HasMapChange
      <4>1. CASE j = 1  BY <4>1, <2>3, <1>1 DEF IsMapChange
      <4>2. CASE j > 1  BY <4>2, <2>1
      <4>. QED  BY <4>1, <4>2
    <3>. QED  BY <3>1, <2>3 DEF LastMapIs
  <2>. QED  BY <2>2, <2>3
<1>4. ASSUME NEW i \in 1 .. Len(t), IsMapChange(t, i),
             \A j \in 1 .. Len(t) : j > i => ~IsMapChange(t, j)
      PROVE  t[i].map = n
  <2>1. i + 1 \in 1 .. Len(s) /\ IsMapChange(s, i + 1) /\ t[i] = s[i + 1]
    BY <1>1, <1>2, <1>4
  <2>2. \A j \in 1 .. Len(s) : j > i + 1 => ~IsMapChange(s, j)
    <3>. SUFFICES ASSUME NEW j \in 1 .. Len(s), j > i + 1 PROVE ~IsMapChange(s, j)
      OBVIOUS
    <3>1. j - 1 \in 1 .. Len(t) /\ j - 1 > i /\ (j - 1) + 1 = j
      BY <1>1
    <3>. QED  BY <3>1, <1>2, <1>4
  <2>3. s[i + 1].map = n
    BY <2>1, <2>2 DEF LastMapIs
  <2>. QED  BY <2>1, <2>3
<1>. QED  BY <1>3, <1>4 DEF LastMapIs

-----------------------------------------------------------------------------
(* The steps.                                                               *)

LEMMA Initially == ChangeInit => ChangeInv
<1>. SUFFICES ASSUME ChangeInit PROVE ChangeInv
  OBVIOUS
<1>1. ChangeTypeOK
  <2>1. <<>> \in Seq(ToClientMessages) /\ <<"INFO">> \in Seq(ToServerMessages)
    BY DEF ToServerMessages
  <2>2. /\ 0 \in 0 .. MaxReloads /\ NoMap \in NoMap .. MaxReloads /\ 0 \in 0 .. MaxRejoins
        /\ "PREAUTH" \in ClientStates /\ FALSE \in BOOLEAN
    BY MapChangeAssumption DEF NoMap, ClientStates
  <2>. QED  BY <2>1, <2>2 DEF ChangeInit, ChangeTypeOK
<1>2. Has(toServer, "INFO")
  BY DEF ChangeInit, Has
<1>. QED  BY <1>1, <1>2 DEF ChangeInit, ChangeInv, WillHaveMap, WillGoOn

\* A message for a state that the client is not in is dropped; any other leads to
\* the next state and, but for ENTERGAME, to an answer.
LEMMA ServerStep ==
  ASSUME ChangeInv, ServerReceives
  PROVE  ChangeInv'
<1>. DEFINE m == Head(toServer)
<1>. USE MapChangeAssumption
<1>1. /\ toServer # <<>> /\ toServer \in Seq(ToServerMessages) /\ m \in ToServerMessages
      /\ toServer' = Tail(toServer) /\ toServer' \in Seq(ToServerMessages)
      /\ OnMessage(m)
      /\ toClient \in Seq(ToClientMessages) /\ announced \in 0 .. MaxReloads
      /\ UNCHANGED <<announced, clientMap, rejoins, outside>>
  BY DEF ChangeInv, ChangeTypeOK, ServerReceives
<1>2. MapChangeMsg(announced) \in ToClientMessages /\ ConReadyMsg \in ToClientMessages
  BY <1>1 DEF MapChangeMsg, ConReadyMsg, ToClientMessages
<1>3. CASE m = "INFO" /\ clientState = "PREAUTH"
  <2>1. clientState' = "CONNECTING" /\ toClient' = Append(toClient, MapChangeMsg(announced))
    BY <1>1, <1>3 DEF OnMessage
  <2>2. LastMapIs(toClient', clientMap, announced)
    BY <2>1, <1>1, LastMapAppended
  <2>3. HasMapChange(toClient')
    BY <2>1, <1>1, <1>2, HasMapChangeAppend DEF MapChangeMsg
  <2>4. ChangeTypeOK'
    BY <1>1, <1>2, <2>1 DEF ChangeInv, ChangeTypeOK, ClientStates
  <2>. QED  BY <1>1, <2>1, <2>2, <2>3, <2>4 DEF ChangeInv, WillHaveMap, WillGoOn
<1>4. CASE m = "READY" /\ clientState = "CONNECTING"
  <2>1. clientState' = "READY" /\ toClient' = Append(toClient, ConReadyMsg)
    BY <1>1, <1>4 DEF OnMessage
  <2>2. LastMapIs(toClient, clientMap, announced)
    BY <1>4 DEF ChangeInv, WillHaveMap
  <2>3. LastMapIs(toClient', clientMap, announced)
    BY <2>1, <2>2, <1>1, LastMapOtherAppended
  <2>4. Has(toClient', ConReadyMsg)
    BY <2>1, <1>1, <1>2, HasAppend
  <2>5. ChangeTypeOK'
    BY <1>1, <1>2, <2>1 DEF ChangeInv, ChangeTypeOK, ClientStates
  <2>. QED  BY <1>1, <2>1, <2>3, <2>4, <2>5 DEF ChangeInv, WillHaveMap, WillGoOn
<1>5. CASE m = "ENTERGAME" /\ clientState = "READY"
  <2>1. clientState' = "INGAME" /\ UNCHANGED toClient
    BY <1>1, <1>5 DEF OnMessage
  <2>2. ChangeTypeOK'
    BY <1>1, <2>1 DEF ChangeInv, ChangeTypeOK, ClientStates
  <2>. QED  BY <1>1, <1>5, <2>1, <2>2 DEF ChangeInv, WillHaveMap, WillGoOn
<1>6. CASE /\ ~(m = "INFO" /\ clientState = "PREAUTH")
           /\ ~(m = "READY" /\ clientState = "CONNECTING")
           /\ ~(m = "ENTERGAME" /\ clientState = "READY")
  <2>1. UNCHANGED <<clientState, toClient>>
    BY <1>1, <1>6 DEF OnMessage
  <2>2. \A n : Has(toServer, n) /\ n # m => Has(toServer', n)
    BY <1>1, HasTail
  <2>3. ChangeTypeOK'
    BY <1>1, <2>1 DEF ChangeInv, ChangeTypeOK
  <2>4. WillHaveMap'
    BY <1>1, <2>1 DEF ChangeInv, WillHaveMap
  <2>5. WillGoOn'
    BY <1>1, <1>6, <2>1, <2>2 DEF ChangeInv, WillGoOn
  <2>. QED  BY <2>3, <2>4, <2>5 DEF ChangeInv
<1>. QED  BY <1>3, <1>4, <1>5, <1>6

\* A message that the client takes is answered.
LEMMA ClientStep ==
  ASSUME ChangeInv, ClientReceives
  PROVE  ChangeInv'
<1>. DEFINE h == Head(toClient)
            answer == IF h.msg = "MAP_CHANGE" THEN "READY" ELSE "ENTERGAME"
            has == IF h.msg = "MAP_CHANGE" THEN h.map ELSE clientMap
<1>. USE MapChangeAssumption
<1>1. /\ toClient # <<>> /\ toClient \in Seq(ToClientMessages) /\ h \in ToClientMessages
      /\ toClient' = Tail(toClient) /\ toClient' \in Seq(ToClientMessages)
      /\ toServer \in Seq(ToServerMessages) /\ answer \in ToServerMessages
      /\ toServer' = Append(toServer, answer) /\ clientMap' = has
      /\ UNCHANGED <<announced, clientState, rejoins, outside>>
  BY DEF ChangeInv, ChangeTypeOK, ClientReceives, ToServerMessages
<1>2. has \in NoMap .. MaxReloads
  BY <1>1 DEF ChangeInv, ChangeTypeOK, ToClientMessages, NoMap
<1>3. ChangeTypeOK'
  BY <1>1, <1>2 DEF ChangeInv, ChangeTypeOK
<1>4. WillHaveMap'
  <2>1. LastMapIs(toClient, clientMap, announced) => LastMapIs(toClient', has, announced)
    BY <1>1, LastMapTail
  <2>. QED  BY <1>1, <2>1 DEF ChangeInv, WillHaveMap
<1>5. \A n : Has(toServer, n) => Has(toServer', n)
  BY <1>1, HasAppend
<1>6. Has(toServer', answer)
  BY <1>1, HasAppend
<1>7. HasMapChange(toClient) => HasMapChange(toClient') \/ Has(toServer', "READY")
  BY <1>1, <1>6, HasMapChangeTail
<1>8. Has(toClient, ConReadyMsg) => Has(toClient', ConReadyMsg) \/ Has(toServer', "ENTERGAME")
  <2>1. CASE h = ConReadyMsg
    BY <2>1, <1>6 DEF ConReadyMsg
  <2>2. CASE h # ConReadyMsg
    BY <2>2, <1>1, HasTail
  <2>. QED  BY <2>1, <2>2
<1>9. WillGoOn'
  BY <1>1, <1>5, <1>7, <1>8 DEF ChangeInv, WillGoOn
<1>. QED  BY <1>3, <1>4, <1>9 DEF ChangeInv

\* A client past AUTH is told of the new map and set back; another one has its
\* INFO on its way.
LEMMA MapStep ==
  ASSUME ChangeInv, ChangeMap
  PROVE  ChangeInv'
<1>. USE MapChangeAssumption
<1>1. /\ announced' = announced + 1 /\ announced' \in 0 .. MaxReloads /\ outside' = FALSE
      /\ toClient \in Seq(ToClientMessages)
      /\ UNCHANGED <<clientMap, toServer, rejoins>>
  BY DEF ChangeInv, ChangeTypeOK, ChangeMap
<1>2. CASE clientState = "PREAUTH"
  <2>1. UNCHANGED <<toClient, clientState>>
    BY <1>2 DEF ChangeMap, MustFetch
  <2>2. ChangeTypeOK'
    BY <1>1, <2>1 DEF ChangeInv, ChangeTypeOK
  <2>. QED  BY <1>1, <1>2, <2>1, <2>2 DEF ChangeInv, WillHaveMap, WillGoOn
<1>3. CASE clientState # "PREAUTH"
  <2>1. /\ clientState' = "CONNECTING"
        /\ toClient' = Append(toClient, MapChangeMsg(announced'))
        /\ MapChangeMsg(announced') \in ToClientMessages
    BY <1>1, <1>3 DEF ChangeMap, MustFetch, MapChangeMsg, ToClientMessages
  <2>2. LastMapIs(toClient', clientMap', announced')
    BY <2>1, <1>1, LastMapAppended
  <2>3. HasMapChange(toClient')
    BY <2>1, <1>1, HasMapChangeAppend DEF MapChangeMsg
  <2>4. ChangeTypeOK'
    <3>1. toClient' \in Seq(ToClientMessages)
      BY <1>1, <2>1
    <3>2. clientState' \in ClientStates /\ outside' \in BOOLEAN
      BY <1>1, <2>1 DEF ClientStates
    <3>. QED  BY <1>1, <3>1, <3>2 DEF ChangeInv, ChangeTypeOK
  <2>. QED  BY <1>1, <2>1, <2>2, <2>3, <2>4 DEF ChangeInv, WillHaveMap, WillGoOn
<1>. QED  BY <1>2, <1>3

\* All begins anew but the state: the map and INFO are on their way.
LEMMA RejoinStep ==
  ASSUME ChangeInv, ClientRejoins
  PROVE  ChangeInv'
<1>. USE MapChangeAssumption
<1>1. /\ toClient' = <<MapChangeMsg(announced)>> /\ toServer' = <<"INFO">>
      /\ clientMap' = NoMap /\ announced \in 0 .. MaxReloads
      /\ outside' = (outside \/ clientState \in {"READY", "INGAME"})
      /\ UNCHANGED <<announced, clientState>>
      /\ <<>> \in Seq(ToClientMessages) /\ MapChangeMsg(announced) \in ToClientMessages
      /\ toClient' = Append(<<>>, MapChangeMsg(announced))
  BY DEF ChangeInv, ChangeTypeOK, ClientRejoins, MapChangeMsg, ToClientMessages
<1>2. ChangeTypeOK'
  BY <1>1 DEF ChangeInv, ChangeTypeOK, ClientRejoins, ToServerMessages, NoMap
<1>3. LastMapIs(toClient', clientMap', announced')
  BY <1>1, LastMapAppended
<1>4. HasMapChange(toClient')
  BY <1>1, HasMapChangeAppend DEF MapChangeMsg
<1>5. Has(toServer', "INFO")
  BY <1>1 DEF Has
<1>. QED  BY <1>1, <1>2, <1>3, <1>4, <1>5 DEF ChangeInv, WillHaveMap, WillGoOn

LEMMA ChangeStep == ChangeInv /\ [ChangeNext]_changeVars => ChangeInv'
<1>. SUFFICES ASSUME ChangeInv, [ChangeNext]_changeVars PROVE ChangeInv'
  OBVIOUS
<1>1. CASE UNCHANGED changeVars
  BY <1>1 DEF ChangeInv, ChangeTypeOK, WillHaveMap, WillGoOn, changeVars
<1>. QED  BY <1>1, ServerStep, ClientStep, MapStep, RejoinStep DEF ChangeNext

\* What is on its way leads on, at every step.
THEOREM ChangeInvariance == ChangeSpec => []ChangeInv
BY Initially, ChangeStep, PTL DEF ChangeSpec

\* When nothing is on its way, a client that did not connect again past AUTH plays
\* the announced map: for any number of maps and reconnections
\* (engine/server/server.cpp:1089, :2010, :808).
THEOREM SettledClientAlwaysPlays == ChangeSpec => []SettledClientPlays
<1>1. ChangeInv => SettledClientPlays
  <2>. SUFFICES ASSUME ChangeInv, toClient = <<>>, toServer = <<>>, ~outside
                PROVE  clientState = "INGAME" /\ clientMap = announced
    BY DEF SettledClientPlays
  <2>1. \A n : ~Has(toServer, n) /\ ~Has(toClient, n)
    BY DEF Has
  <2>2. ~HasMapChange(toClient)
    BY DEF HasMapChange
  <2>3. clientState = "INGAME"
    BY <2>1, <2>2 DEF ChangeInv, WillGoOn, ChangeTypeOK, ClientStates
  <2>. QED  BY <2>2, <2>3 DEF ChangeInv, WillHaveMap, LastMapIs
<1>. QED  BY <1>1, ChangeInvariance, PTL

-----------------------------------------------------------------------------
(***************************************************************************)
(* For any protocols, requests in flight, losses and restarts: the server  *)
(* never believes that the master has information it was never sent.       *)
(*                                                                         *)
(* A job records its answer in two steps, and between them others go on.   *)
(* The invariant therefore speaks of the jobs: one that was answered       *)
(* success carries a serial that the master was told, and one whose        *)
(* information the master needs carries one (ToldJobs), so that what is    *)
(* known goes back no further than to nothing.                             *)
(***************************************************************************)
Protos == [status : Status, quiet : BOOLEAN, newToken : BOOLEAN,
           validToken : BOOLEAN, due : BOOLEAN]
Masters == [serial : Int, listed : SUBSET Protocols, told : Int]

ToldJobs(told) ==
  {r \in Jobs : /\ r.serial \in -1 .. MaxInfo
                /\ r.answer = "success" => r.serial <= told
                /\ r.answer = "need_info" => r.serial >= 0}

KnownInv ==
  /\ infoSerial \in -1 .. MaxInfo /\ knownSerial \in -1 .. MaxInfo
  /\ master \in Masters /\ master.serial >= -1
  /\ proto \in [Protocols -> Protos]
  /\ flight \in [Protocols -> Seq(ToldJobs(master.told))]
  /\ KnownWasTold

-----------------------------------------------------------------------------
(* Sequences.                                                               *)

\* RemoveAt takes no element that was not there.
LEMMA RemoveKeeps ==
  ASSUME NEW S, NEW s \in Seq(S), NEW i \in DOMAIN s
  PROVE  RemoveAt(s, i) \in Seq(S)
<1>1. i \in 1 .. Len(s) /\ Len(s) \in Nat
  OBVIOUS
<1>2. SubSeq(s, 1, i - 1) \in Seq(S) /\ SubSeq(s, i + 1, Len(s)) \in Seq(S)
  BY <1>1
<1>. QED  BY <1>1, <1>2 DEF RemoveAt

\* A sequence stays one when its elements are replaced one by one.
LEMMA ReplacedElements ==
  ASSUME NEW S, NEW T, NEW s \in Seq(S), NEW t,
         t = [i \in DOMAIN s |-> t[i]], \A i \in DOMAIN s : t[i] \in T
  PROVE  t \in Seq(T)
<1>1. DOMAIN s = 1 .. Len(s) /\ Len(s) \in Nat
  OBVIOUS
<1>2. t \in [1 .. Len(s) -> T]
  BY <1>1
<1>. QED  BY <1>1, <1>2

\* A job whose answer and serial stay, or that has no answer, stays in ToldJobs.
LEMMA JobKept ==
  ASSUME NEW told \in Int, NEW r \in ToldJobs(told)
  PROVE  /\ [r EXCEPT !.newest = FALSE] \in ToldJobs(told)
         /\ [r EXCEPT !.token = FALSE] \in ToldJobs(told)
         /\ [r EXCEPT !.late = TRUE] \in ToldJobs(told)
         /\ [r EXCEPT !.phase = "noted"] \in ToldJobs(told)
         /\ r.serial \in Int
BY DEF ToldJobs, Jobs, Status

\* The master forgets nothing it was told, as far as the jobs are concerned.
LEMMA ToldGrows ==
  ASSUME NEW a \in Int, NEW b \in Int, a <= b
  PROVE  ToldJobs(a) \subseteq ToldJobs(b)
<1>. SUFFICES ASSUME NEW r \in ToldJobs(a) PROVE r \in ToldJobs(b)
  OBVIOUS
<1>1. /\ r \in Jobs /\ r.serial \in -1 .. MaxInfo /\ r.serial \in Int
      /\ r.answer = "success" => r.serial <= a
      /\ r.answer = "need_info" => r.serial >= 0
  BY DEF ToldJobs, Jobs
<1>. QED  BY <1>1 DEF ToldJobs

-----------------------------------------------------------------------------
(* The steps.                                                               *)

\* A request that begins joins the others.
LEMMA RequestJoins ==
  ASSUME KnownInv, infoSerial' \in -1 .. MaxInfo, NEW p \in Protocols
  PROVE  /\ WithRequest(p) \in Seq(ToldJobs(master.told))
         /\ Append(flight[p], Delete) \in Seq(ToldJobs(master.told))
<1>. DEFINE J == ToldJobs(master.told)
            old == [i \in DOMAIN flight[p] |-> [flight[p][i] EXCEPT !.newest = FALSE]]
<1>1. flight[p] \in Seq(J) /\ master.told \in Int /\ proto[p].validToken \in BOOLEAN
  BY DEF KnownInv, Masters, Protos
<1>2. (infoSerial' > knownSerial) \in BOOLEAN
  OBVIOUS
<1>3. Request(p) \in J /\ Delete \in J
  <2>1. Request(p) \in Jobs /\ Request(p).answer = "none" /\ Request(p).serial = infoSerial'
    BY <1>1, <1>2 DEF Request, Jobs, Status
  <2>2. Delete \in Jobs /\ Delete.answer = "none" /\ Delete.serial = -1
    BY DEF Delete, Jobs, Status
  <2>. QED  BY <2>1, <2>2, RegisterAssumption DEF ToldJobs
<1>4. \A i \in DOMAIN flight[p] : old[i] \in J
  <2>. SUFFICES ASSUME NEW i \in DOMAIN flight[p] PROVE old[i] \in J
    OBVIOUS
  <2>1. flight[p][i] \in J
    BY <1>1
  <2>. QED  BY <2>1, <1>1, JobKept
<1>5. old \in Seq(J)
  <2>. HIDE DEF J
  <2>. QED  BY <1>1, <1>4, ReplacedElements
<1>. QED  BY <1>1, <1>3, <1>5 DEF WithRequest

\* Whatever the state of the protocols, a step that sends requests keeps the rest.
LEMMA SentKeeps ==
  ASSUME KnownInv, infoSerial' \in -1 .. MaxInfo, UNCHANGED <<knownSerial, master>>,
         proto' \in [Protocols -> Protos],
         flight' \in [Protocols -> Seq(ToldJobs(master.told))]
  PROVE  KnownInv'
BY DEF KnownInv, KnownWasTold

LEMMA DueStep ==
  ASSUME KnownInv, NEW p \in Protocols, NEW q \in Protos, SendIfDue(p, q),
         UNCHANGED <<knownSerial, master>>
  PROVE  KnownInv'
<1>1. infoSerial' = infoSerial /\ infoSerial' \in -1 .. MaxInfo /\ proto \in [Protocols -> Protos]
      /\ flight \in [Protocols -> Seq(ToldJobs(master.told))]
  BY DEF SendIfDue, KnownInv
<1>2. Registering(q) \in Protos
  BY DEF Registering, Protos
<1>3. proto' \in [Protocols -> Protos]
  BY <1>1, <1>2 DEF SendIfDue
<1>4. WithRequest(p) \in Seq(ToldJobs(master.told))
  BY <1>1, RequestJoins
<1>5. flight' \in [Protocols -> Seq(ToldJobs(master.told))]
  BY <1>1, <1>4 DEF SendIfDue
<1>. QED  BY <1>1, <1>3, <1>5, SentKeeps

LEMMA CheckedType ==
  ASSUME NEW q \in Protos
  PROVE  Checked(q) \in Protos /\ Registering(q) \in Protos
         /\ [q EXCEPT !.newToken = TRUE, !.validToken = TRUE] \in Protos
BY DEF Checked, Registering, Protos

\* An answer of success raises what the master was told to the serial it answers.
LEMMA AnswerStep ==
  ASSUME KnownInv, NEW p \in Protocols, NEW i \in DOMAIN flight[p], MasterAnswers(p, i)
  PROVE  KnownInv'
<1>. DEFINE r == flight[p][i]
            a == Answer(r)
            J == ToldJobs(master.told)
            K == ToldJobs(master'.told)
<1>1. /\ flight \in [Protocols -> Seq(J)] /\ r \in J /\ r \in Jobs /\ r.serial \in Int
      /\ master \in Masters /\ master.told \in Int /\ master.serial \in Int
      /\ a \in Status /\ r.serial \in -1 .. MaxInfo /\ master.serial >= -1
  <2>1. flight \in [Protocols -> Seq(J)] /\ master \in Masters /\ r \in J /\ master.serial >= -1
    BY DEF KnownInv
  <2>2. r \in Jobs /\ r.serial \in Int /\ r.serial \in -1 .. MaxInfo
    BY <2>1 DEF ToldJobs, Jobs
  <2>3. master.told \in Int /\ master.serial \in Int
    BY <2>1 DEF Masters
  <2>4. a \in Status
    BY DEF Answer, Status
  <2>. QED  BY <2>1, <2>2, <2>3, <2>4
<1>2. CASE r.kind = "delete"
  <2>1. /\ master' \in Masters /\ master'.told = master.told /\ master'.serial >= -1
        /\ flight' = [flight EXCEPT ![p] = RemoveAt(@, i)]
    BY <1>1, <1>2 DEF MasterAnswers, Masters
  <2>2. RemoveAt(flight[p], i) \in Seq(J)
    <3>. HIDE DEF J
    <3>. QED  BY <1>1, RemoveKeeps
  <2>3. flight' \in [Protocols -> Seq(K)]
    BY <1>1, <2>1, <2>2
  <2>. QED  BY <2>1, <2>3 DEF KnownInv, KnownWasTold, MasterAnswers
<1>3. CASE r.kind # "delete"
  <2>1. /\ master' \in Masters /\ master.told <= master'.told /\ master'.serial >= -1
        /\ a = "success" => r.serial <= master'.told
    BY <1>1, <1>3 DEF MasterAnswers, Masters, Larger
  <2>2. flight' = [flight EXCEPT ![p] =
                     [flight[p] EXCEPT ![i] = [r EXCEPT !.answer = a, !.phase = "answered"]]]
    BY <1>1, <1>3 DEF MasterAnswers
  <2>7. a = "need_info" => r.serial >= 0
    BY <1>1 DEF Answer
  <2>3. [r EXCEPT !.answer = a, !.phase = "answered"] \in K
    BY <1>1, <2>1, <2>7 DEF ToldJobs, Jobs
  <2>4. J \subseteq K
    BY <1>1, <2>1, ToldGrows DEF Masters
  <2>5. flight' \in [Protocols -> Seq(K)]
    <3>. HIDE DEF J, K
    <3>1. \A q \in Protocols : flight[q] \in Seq(K)
      BY <1>1, <2>4
    <3>2. [flight[p] EXCEPT ![i] = [r EXCEPT !.answer = a, !.phase = "answered"]] \in Seq(K)
      BY <3>1, <2>3
    <3>. QED  BY <1>1, <2>2, <3>1, <3>2
  <2>6. knownSerial' = knownSerial /\ knownSerial <= master'.told
    BY <1>1, <2>1 DEF MasterAnswers, KnownInv, KnownWasTold, Masters
  <2>. QED  BY <2>1, <2>5, <2>6 DEF KnownInv, KnownWasTold, MasterAnswers
<1>. QED  BY <1>2, <1>3

\* The restart takes the tokens of the jobs, not what they were answered.
LEMMA RestartStep ==
  ASSUME KnownInv, MasterRestarts
  PROVE  KnownInv'
<1>. DEFINE J == ToldJobs(master.told)
<1>1. /\ flight \in [Protocols -> Seq(J)] /\ master \in Masters /\ master.told \in Int
      /\ proto \in [Protocols -> Protos]
  BY DEF KnownInv, Masters
<1>2. master' \in Masters /\ master'.told = master.told /\ master'.serial >= -1
  <2>1. master = [serial |-> master.serial, listed |-> master.listed, told |-> master.told]
    BY <1>1 DEF Masters
  <2>2. master' = [serial |-> -1, listed |-> {}, told |-> master.told]
    BY <2>1 DEF MasterRestarts
  <2>. QED  BY <2>2, <1>1 DEF Masters
<1>3. proto' \in [Protocols -> Protos]
  BY <1>1 DEF MasterRestarts, Protos
<1>4. \A p \in Protocols : flight'[p] \in Seq(J)
  <2>. SUFFICES ASSUME NEW p \in Protocols PROVE flight'[p] \in Seq(J)
    OBVIOUS
  <2>1. flight[p] \in Seq(J)
    BY <1>1
  <2>2. flight'[p] = [i \in DOMAIN flight[p] |-> [flight[p][i] EXCEPT !.token = FALSE]]
    BY DEF MasterRestarts
  <2>3. \A i \in DOMAIN flight[p] : flight'[p][i] \in J
    <3>. SUFFICES ASSUME NEW i \in DOMAIN flight[p] PROVE flight'[p][i] \in J
      OBVIOUS
    <3>1. flight[p][i] \in J
      BY <2>1
    <3>. QED  BY <3>1, <2>2, <1>1, JobKept
  <2>. HIDE DEF J
  <2>. QED  BY <2>1, <2>2, <2>3, ReplacedElements
<1>5. flight' \in [Protocols -> Seq(J)]
  BY <1>4 DEF MasterRestarts
<1>. QED  BY <1>2, <1>3, <1>5 DEF KnownInv, KnownWasTold, MasterRestarts

\* The first half of a job's end: an answer that was success stays it.
LEMMA StatusStep ==
  ASSUME KnownInv, NEW p \in Protocols, NEW i \in DOMAIN flight[p], NoteStatus(p, i)
  PROVE  KnownInv'
<1>. DEFINE J == ToldJobs(master.told)
            new == [j \in DOMAIN flight[p] |->
                      IF j = i THEN [flight[p][j] EXCEPT !.phase = "noted"]
                      ELSE IF j < i THEN [flight[p][j] EXCEPT !.late = TRUE]
                      ELSE flight[p][j]]
<1>1. /\ flight \in [Protocols -> Seq(J)] /\ flight[p] \in Seq(J) /\ flight[p][i] \in J
      /\ master.told \in Int /\ proto \in [Protocols -> Protos]
      /\ flight[p][i].answer \in Status /\ flight[p][i].newest \in BOOLEAN
  <2>1. flight \in [Protocols -> Seq(J)] /\ proto \in [Protocols -> Protos] /\ master \in Masters
    BY DEF KnownInv
  <2>2. flight[p] \in Seq(J) /\ flight[p][i] \in J
    <3>. HIDE DEF J
    <3>. QED  BY <2>1
  <2>3. flight[p][i].answer \in Status /\ flight[p][i].newest \in BOOLEAN
    BY <2>2 DEF ToldJobs, Jobs
  <2>4. master.told \in Int
    BY <2>1 DEF Masters
  <2>. QED  BY <2>1, <2>2, <2>3, <2>4
<1>2. \A j \in DOMAIN flight[p] : new[j] \in J
  <2>. SUFFICES ASSUME NEW j \in DOMAIN flight[p] PROVE new[j] \in J
    OBVIOUS
  <2>1. flight[p][j] \in J
    BY <1>1
  <2>. QED  BY <2>1, <1>1, JobKept
<1>3. new \in Seq(J)
  <2>. HIDE DEF J
  <2>. QED  BY <1>1, <1>2, ReplacedElements
<1>4. flight' = [flight EXCEPT ![p] = new]
  BY DEF NoteStatus
<1>5. flight' \in [Protocols -> Seq(J)]
  <2>. HIDE DEF J, new
  <2>. QED  BY <1>1, <1>3, <1>4
<1>6. proto' \in [Protocols -> Protos]
  BY <1>1 DEF NoteStatus, Protos
<1>. QED  BY <1>5, <1>6, SentKeeps DEF NoteStatus, KnownInv

\* The second half: what is noted of an answer is what the master was told.
LEMMA SerialStep ==
  ASSUME KnownInv, NEW p \in Protocols, NEW i \in DOMAIN flight[p], NoteSerial(p, i)
  PROVE  KnownInv'
<1>. DEFINE J == ToldJobs(master.told)
            r == flight[p][i]
<1>1. /\ flight \in [Protocols -> Seq(J)] /\ flight[p] \in Seq(J)
      /\ r.serial \in Int /\ (r.answer = "success" => r.serial <= master.told)
      /\ r.serial \in -1 .. MaxInfo /\ (r.answer = "need_info" => r.serial >= 0)
      /\ master.told \in Int /\ knownSerial \in -1 .. MaxInfo /\ knownSerial <= master.told
  BY DEF KnownInv, KnownWasTold, Masters, ToldJobs, Jobs
<1>2. RemoveAt(flight[p], i) \in Seq(J)
  <2>. HIDE DEF J
  <2>. QED  BY <1>1, RemoveKeeps
<1>3. flight' \in [Protocols -> Seq(J)]
  <2>. HIDE DEF J
  <2>. QED  BY <1>1, <1>2 DEF NoteSerial
<1>4. knownSerial' \in -1 .. MaxInfo /\ knownSerial' <= master.told
  <2>1. CASE r.answer = "success"
    <3>1. knownSerial' = IF r.serial > knownSerial THEN r.serial ELSE knownSerial
      BY <2>1 DEF NoteSerial, Succeeded
    <3>. HIDE DEF r
    <3>. QED  BY <1>1, <2>1, <3>1
  <2>2. CASE r.answer = "need_info"
    <3>1. knownSerial' = IF r.serial = knownSerial THEN knownSerial - 1 ELSE knownSerial
      BY <2>2 DEF NoteSerial, Forgotten
    <3>. HIDE DEF r
    <3>. QED  BY <1>1, <2>2, <3>1, RegisterAssumption
  <2>3. CASE r.answer \notin {"success", "need_info"}
    BY <1>1, <2>3 DEF NoteSerial
  <2>. QED  BY <2>1, <2>2, <2>3
<1>. QED  BY <1>3, <1>4 DEF KnownInv, KnownWasTold, NoteSerial

LEMMA FailStep ==
  ASSUME KnownInv, NEW p \in Protocols, NEW i \in DOMAIN flight[p], RequestFails(p, i)
  PROVE  KnownInv'
<1>. DEFINE J == ToldJobs(master.told)
<1>1. flight \in [Protocols -> Seq(J)] /\ flight[p] \in Seq(J)
  BY DEF KnownInv
<1>2. flight' \in [Protocols -> Seq(J)]
  <2>. HIDE DEF J
  <2>1. RemoveAt(flight[p], i) \in Seq(J)
    BY <1>1, RemoveKeeps
  <2>. QED  BY <1>1, <2>1 DEF RequestFails
<1>. QED  BY <1>2, SentKeeps DEF RequestFails, KnownInv

\* Protocols that were enabled register, others that were registered are deleted.
LEMMA ConfigStep ==
  ASSUME KnownInv, NEW E \in SUBSET Protocols, OnConfigChange(E)
  PROVE  KnownInv'
<1>1. infoSerial' \in -1 .. MaxInfo /\ UNCHANGED <<infoSerial, knownSerial, master>>
  BY DEF OnConfigChange, KnownInv
<1>2. flight' \in [Protocols -> Seq(ToldJobs(master.told))]
  <2>1. \A p \in Protocols : /\ WithRequest(p) \in Seq(ToldJobs(master.told))
                             /\ Append(flight[p], Delete) \in Seq(ToldJobs(master.told))
                             /\ flight[p] \in Seq(ToldJobs(master.told))
    BY <1>1, RequestJoins DEF KnownInv
  <2>2. CASE gotUpdate
    <3>1. \A p \in Protocols :
             flight'[p] \in {WithRequest(p), Append(flight[p], Delete), flight[p]}
      BY <2>2 DEF OnConfigChange
    <3>2. flight' = [p \in Protocols |-> flight'[p]]
      BY <2>2 DEF OnConfigChange
    <3>. QED  BY <3>1, <3>2, <2>1
  <2>3. CASE ~gotUpdate
    BY <2>1, <2>3 DEF OnConfigChange, KnownInv
  <2>. QED  BY <2>2, <2>3
<1>3. proto' \in [Protocols -> Protos]
  <2>1. \A p \in Protocols : proto[p] \in Protos /\ Registering(proto[p]) \in Protos
                             /\ [proto[p] EXCEPT !.status = "none"] \in Protos
    BY CheckedType DEF KnownInv, Protos, Status
  <2>. QED  BY <2>1 DEF OnConfigChange, KnownInv
<1>. QED  BY <1>1, <1>2, <1>3, SentKeeps

LEMMA InfoStep ==
  ASSUME KnownInv, OnNewInfo
  PROVE  KnownInv'
<1>1. infoSerial' \in -1 .. MaxInfo /\ UNCHANGED <<knownSerial, master>>
  BY RegisterAssumption DEF OnNewInfo, KnownInv
<1>2. PICK S \in SUBSET enabled :
        /\ flight' = [p \in Protocols |-> IF p \in S THEN WithRequest(p) ELSE flight[p]]
        /\ proto' = [p \in Protocols |-> IF p \in S THEN Registering(proto[p]) ELSE proto[p]]
  BY DEF OnNewInfo
<1>3. \A p \in Protocols : /\ WithRequest(p) \in Seq(ToldJobs(master.told))
                           /\ flight[p] \in Seq(ToldJobs(master.told))
                           /\ proto[p] \in Protos /\ Registering(proto[p]) \in Protos
  BY <1>1, RequestJoins, CheckedType DEF KnownInv
<1>. QED  BY <1>1, <1>2, <1>3, SentKeeps

LEMMA RegisterBegins == RegisterInit => KnownInv
<1>. SUFFICES ASSUME RegisterInit PROVE KnownInv
  OBVIOUS
<1>1. infoSerial = -1 /\ knownSerial = -1 /\ master = [serial |-> -1, listed |-> {}, told |-> -1]
  BY DEF RegisterInit
<1>2. proto \in [Protocols -> Protos]
  BY DEF RegisterInit, Protos, Status
<1>3. flight \in [Protocols -> Seq(ToldJobs(master.told))]
  BY DEF RegisterInit
<1>. QED  BY <1>1, <1>2, <1>3, RegisterAssumption DEF KnownInv, KnownWasTold, Masters

LEMMA RegisterStep == KnownInv /\ [RegisterNext]_registerVars => KnownInv'
<1>. SUFFICES ASSUME KnownInv, [RegisterNext]_registerVars PROVE KnownInv'
  OBVIOUS
<1>0. \A p \in Protocols : proto[p] \in Protos
  BY DEF KnownInv
<1>1. CASE UNCHANGED registerVars
  BY <1>1 DEF KnownInv, KnownWasTold, registerVars
<1>2. ASSUME NEW p \in Protocols, Update(p) PROVE KnownInv'
  <2>1. Checked(proto[p]) \in Protos
    BY <1>0, CheckedType
  <2>. QED  BY <1>2, <2>1, DueStep DEF Update
<1>3. ASSUME NEW p \in Protocols, OnToken(p) PROVE KnownInv'
  <2>1. Checked([proto[p] EXCEPT !.newToken = TRUE, !.validToken = TRUE]) \in Protos
    BY <1>0, CheckedType
  <2>. QED  BY <1>3, <2>1, DueStep DEF OnToken
<1>4. ASSUME NEW p \in Protocols, NextRegisterComes(p) PROVE KnownInv'
  BY <1>4, SentKeeps DEF NextRegisterComes, KnownInv, Protos
<1>5. ASSUME NEW p \in Protocols, TokenIsLost(p) PROVE KnownInv'
  BY <1>5, SentKeeps DEF TokenIsLost, KnownInv
<1>6. ASSUME NEW p \in Protocols, NEW i \in DOMAIN flight[p], JobStep(p, i) PROVE KnownInv'
  BY <1>6, AnswerStep, StatusStep, SerialStep DEF JobStep
<1>7. ASSUME FirstUpdate PROVE KnownInv'
  BY <1>7, SentKeeps DEF FirstUpdate, KnownInv
<1>. QED  BY <1>1, <1>2, <1>3, <1>4, <1>5, <1>6, <1>7, FailStep, InfoStep, RestartStep,
             ConfigStep DEF RegisterNext

\* Every step keeps the invariant.
THEOREM KnownInvariance == RegisterSpec => []KnownInv
BY RegisterBegins, RegisterStep, PTL DEF RegisterSpec

\* The information is not left out of a request before a master had it: what
\* m_LatestSuccessfulInfoSerial says is never ahead of what the master was told,
\* however the jobs of the protocols overlap (engine/server/register.cpp:446).
THEOREM KnownWasAlwaysTold == RegisterSpec => []KnownWasTold
<1>1. KnownInv => KnownWasTold
  BY DEF KnownInv
<1>. QED  BY <1>1, KnownInvariance, PTL

-----------------------------------------------------------------------------
(* The map thread.                                                          *)

\* Four variables hold four maps at most; there is a fifth.
LEMMA ThereIsANewMap ==
  ASSUME ReloadTypeOK
  PROVE  NewMap \in MapNumbers
<1>1. \A a, b, c, d \in 0 .. 4 : \E n \in 0 .. 4 : n \notin {a, b, c, d}
  <2>. SUFFICES ASSUME NEW a \in 0 .. 4, NEW b \in 0 .. 4, NEW c \in 0 .. 4, NEW d \in 0 .. 4
                PROVE  \E n \in 0 .. 4 : n \notin {a, b, c, d}
    OBVIOUS
  <2>1. ~({0, 1, 2, 3, 4} \subseteq {a, b, c, d})
    OBVIOUS
  <2>. QED  BY <2>1
<1>2. {file.map, loaded.map, download.map, played.map} \subseteq 0 .. 4
  BY DEF ReloadTypeOK, Files, MapNumbers
<1>3. \E n \in MapNumbers : n \notin {file.map, loaded.map, download.map, played.map}
  BY <1>1, <1>2 DEF MapNumbers
<1>. QED  BY <1>3 DEF NewMap

LEMMA ReloadBegins == ReloadInit => ReloadTypeOK
<1>. SUFFICES ASSUME ReloadInit PROVE ReloadTypeOK
  OBVIOUS
<1>1. file \in Files /\ loaded = file /\ download = file /\ played = file
  BY DEF ReloadInit, Files, MapNumbers
<1>2. requests \in 0 .. MaxRequests /\ waiting \in 0 .. MaxWaiting
  BY MapReloadAssumption DEF ReloadInit
<1>. QED  BY <1>1, <1>2 DEF ReloadInit, ReloadTypeOK

LEMMA ReloadStep == ReloadTypeOK /\ [ReloadNext]_reloadVars => ReloadTypeOK'
<1>. SUFFICES ASSUME ReloadTypeOK, [ReloadNext]_reloadVars PROVE ReloadTypeOK'
  OBVIOUS
<1>. USE MapReloadAssumption DEF ReloadTypeOK
<1>1. CASE UNCHANGED reloadVars
  BY <1>1 DEF reloadVars
<1>2. CASE BeginTurn
  BY <1>2 DEF BeginTurn, MainAt
<1>3. CASE OpenMap
  BY <1>3 DEF OpenMap, MainAt
<1>4. CASE ReadMap
  BY <1>4 DEF ReadMap, MainAt
<1>5. CASE ClearFlag
  BY <1>5 DEF ClearFlag, MainAt
<1>6. CASE Notify
  BY <1>6 DEF Notify, MainAt
<1>7. CASE StartThread
  BY <1>7 DEF StartThread, MainAt
<1>8. CASE Pump
  <2>1. requests' \in 0 .. MaxRequests /\ mapReload' \in BOOLEAN
    <3>1. requests \in 0 .. MaxRequests /\ mapReload \in BOOLEAN /\ MaxRequests \in Nat
      OBVIOUS
    <3>2. \/ requests' = requests /\ mapReload' = mapReload
          \/ requests < MaxRequests /\ requests' = requests + 1 /\ mapReload' = TRUE
      BY <1>8 DEF Pump
    <3>. HIDE DEF ReloadTypeOK
    <3>3. requests' \in 0 .. MaxRequests
      BY <3>1, <3>2
    <3>4. mapReload' \in BOOLEAN
      BY <3>1, <3>2, Zenon
    <3>. QED  BY <3>3, <3>4
  <2>. QED  BY <1>8, <2>1 DEF Pump, MainAt
<1>9. CASE TakeLock
  BY <1>9 DEF TakeLock, ThreadAt
<1>10. CASE TakeRequest
  BY <1>10 DEF TakeRequest, ThreadAt
<1>11. CASE CreateMap
  <2>1. file' \in Files
    <3>1. NewMap \in MapNumbers
      BY ThereIsANewMap
    <3>2. [map |-> NewMap, complete |-> FALSE] \in Files
      BY <3>1 DEF Files
    <3>. QED  BY <1>11, <3>2 DEF CreateMap
  <2>. QED  BY <1>11, <2>1 DEF CreateMap, ThreadAt
<1>12. CASE WriteMap
  <2>1. file' \in Files
    BY <1>12 DEF WriteMap, Files
  <2>. QED  BY <1>12, <2>1 DEF WriteMap, ThreadAt
<1>13. CASE SetFlag
  BY <1>13 DEF SetFlag, ThreadAt
<1>14. CASE GiveUp
  BY <1>14 DEF GiveUp, ThreadAt
<1>15. CASE ReleaseLock
  BY <1>15 DEF ReleaseLock, ThreadAt, Unlocked
<1>. QED  BY <1>1, <1>2, <1>3, <1>4, <1>5, <1>6, <1>7, <1>8, <1>9, <1>10, <1>11, <1>12, <1>13,
             <1>14, <1>15 DEF ReloadNext, MainLoop, MapThread

-----------------------------------------------------------------------------
(* The pool.                                                                *)

\* The order of the jobs and the types together.
PoolTypes == PoolInv /\ PoolTypeOK

LEMMA PoolBegins == PoolInit => PoolTypes
<1>1. PoolInit => PoolTypeOK
  BY DEF PoolInit, PoolTypeOK
<1>. QED  BY <1>1, PoolInvInit DEF PoolTypes

LEMMA PoolStep == PoolTypes /\ [PoolNext]_poolVars => PoolTypes'
<1>. SUFFICES ASSUME PoolTypes, [PoolNext]_poolVars PROVE PoolTypes'
  OBVIOUS
<1>0. PoolInv'
  BY PoolInvNext DEF PoolTypes
<1>a. PoolTypeOK
  BY DEF PoolTypes
<1>. SUFFICES /\ raised' \subseteq PoolJobs /\ semaphore' \in Nat
              /\ pool' \in {"runs", "stops", "joins", "gone"} /\ signals' \in Nat
  BY <1>0 DEF PoolTypes, PoolTypeOK, PoolInv, ListAccounts
<1>. USE <1>a DEF PoolTypeOK
<1>1. CASE UNCHANGED poolVars
  BY <1>1 DEF poolVars
<1>2. ASSUME NEW j \in PoolJobs, AddToList(j) \/ Raise(j)
      PROVE  UNCHANGED <<pool, signals>> /\ raised' \subseteq PoolJobs /\ semaphore' \in Nat
  BY <1>2 DEF AddToList, Raise
<1>3. ASSUME NEW w \in Workers, WorkerStep(w)
      PROVE  UNCHANGED <<raised, pool, signals>> /\ semaphore' \in Nat
  BY <1>3 DEF WorkerStep, CheckShutdown, Wake, Fetch, Begin, JobEnds
<1>6. CASE StopPool
  <2>1. Cardinality(Workers) \in Nat
    BY JobPoolAssumption, FS_CardinalityType
  <2>. QED  BY <1>6, <2>1 DEF StopPool, SignalsToGive
<1>7. CASE Signal
  BY <1>7 DEF Signal
<1>8. CASE Join
  BY <1>8 DEF Join
<1>. QED  BY <1>1, <1>2, <1>3, <1>6, <1>7, <1>8 DEF PoolNext

-----------------------------------------------------------------------------
(* The account threads.                                                     *)

AccountsTypes == AccountsInv /\ inventory \in [Slots -> Int]

LEMMA AccountsBegin == AccountsInit => AccountsTypes
BY AccountsInvInit DEF AccountsInit, AccountsTypes, NoItem

LEMMA InventoryStaysTyped ==
  ASSUME AccountsTypes, AccountsNext
  PROVE  inventory' \in [Slots -> Int]
<1>1. inventory \in [Slots -> Int] /\ threads \subseteq Threads
      /\ \A i \in DOMAIN itemRow : itemRow[i].num \in Int
  <2>1. inventory \in [Slots -> Int] /\ threads \subseteq Threads
        /\ itemRow \in Seq([owner : Nat \ {0}, num : Int])
    BY DEF AccountsTypes, AccountsInv, Typed
  <2>2. \A i \in DOMAIN itemRow : itemRow[i] \in [owner : Nat \ {0}, num : Int]
    BY <2>1, ElementTyped
  <2>. QED  BY <2>1, <2>2
<1>2. ASSUME NEW s \in Slots, JoinSlot(s) \/ LeaveSlot(s) PROVE inventory' \in [Slots -> Int]
  BY <1>1, <1>2 DEF JoinSlot, LeaveSlot, NoItem
<1>3. ASSUME NEW s \in Slots, NEW n \in {-1, 1}, AddInvItemNum(s, n)
      PROVE  inventory' \in [Slots -> Int]
  <2>1. PICK num \in 0 .. MaxNum : inventory' = [inventory EXCEPT ![s] = num]
    BY <1>3 DEF AddInvItemNum
  <2>. QED  BY <1>1, <2>1, AccountsAssumption
<1>4. ASSUME NEW t \in threads, ItemsSynced(t) PROVE inventory' \in [Slots -> Int]
  <2>1. PICK i \in DOMAIN itemRow : inventory' = [inventory EXCEPT ![t.slot] = itemRow[i].num]
    BY <1>4 DEF ItemsSynced
  <2>. QED  BY <1>1, <2>1
<1>5. CASE Crash
  BY <1>5 DEF Crash, NoItem
<1>6. ASSUME \/ \E s \in Slots, k \in {"register", "login"}, n \in Names : AccountCommand(s, k, n)
             \/ \E t \in threads : \/ TakeSQLLock(t) \/ Query(t) \/ Insert(t) \/ Change(t)
                                   \/ Registered(t) \/ LoggedIn(t) \/ LoginRefused(t)
                                   \/ QueryFails(t)
      PROVE  inventory' = inventory
  BY <1>6 DEF AccountCommand, TakeSQLLock, Query, Insert, Change, Registered, LoggedIn,
              LoginRefused, QueryFails
<1>. QED  BY <1>1, <1>2, <1>3, <1>4, <1>5, <1>6 DEF AccountsNext, ThreadStep

LEMMA AccountsStep == AccountsTypes /\ [AccountsNext]_accountVars => AccountsTypes'
BY AccountsInvNext, InventoryStaysTyped DEF AccountsTypes, accountVars

LEMMA AccountsTyped == AccountsTypes => AccountsTypeOK
BY DEF AccountsTypes, AccountsInv, Typed, AccountsTypeOK

-----------------------------------------------------------------------------
(* STUN.                                                                    *)

\* What the waits are by their definition.
Doubles(f) == f = [n \in 0 .. StunTriesCap |-> IF n = 0 THEN 1 ELSE 2 * f[n - 1]]

\* The tries are counted beyond MaxShift.
LEMMA CapIsLarge ==
  /\ MaxShift \in Nat /\ Enough \in Nat /\ StunTriesCap \in Nat
  /\ MaxShift \in 0 .. StunTriesCap /\ 0 \in 0 .. StunTriesCap
BY StunAssumption DEF StunTriesCap

\* The waits are numbers.
LEMMA PowersDouble ==
  /\ \A n \in 0 .. StunTriesCap : PowerOf2[n] \in Nat
  /\ PowerOf2[0] = 1
  /\ \A n \in 1 .. StunTriesCap : PowerOf2[n] = 2 * PowerOf2[n - 1]
<1>. DEFINE N == StunTriesCap
            H == [n \in 0 .. N |-> Nat]
            F == [n \in 1 .. N |-> [x \in Nat |-> 2 * x]]
<1>1. N \in Nat /\ 0 \in 0 .. N /\ \A n \in 1 .. N : n \in 0 .. N /\ n # 0 /\ n - 1 \in 0 .. N
  BY CapIsLarge
<1>2. \A n \in 0 .. N : n # 0 => n \in 1 .. N
  BY <1>1
<1>3. \A n \in 1 .. N : \A x \in H[n - 1] : F[n][x] = 2 * x /\ F[n][x] \in H[n]
  BY <1>1
<1>4. (\A n \in 0 .. N : H[n] \subseteq Nat) /\ 1 \in H[0]
  BY <1>1
<1>5. \E f : Doubles(f)
  <2>. HIDE DEF H, F, N
  <2>1. PICK f \in [0 .. N -> Nat] : Runs(f, 1, F, N) /\ \A n \in 0 .. N : f[n] \in H[n]
    BY <1>1, <1>3, <1>4, LoopRuns
  <2>2. \A n \in 0 .. N : f[n] = IF n = 0 THEN 1 ELSE 2 * f[n - 1]
    BY <1>1, <1>2, <1>3, <2>1 DEF Runs
  <2>. QED  BY <2>1, <2>2 DEF Doubles, N
<1>6. Doubles(PowerOf2)
  <2>1. PowerOf2 = CHOOSE f : Doubles(f)
    BY DEF PowerOf2, Doubles
  <2>. QED  BY <1>5, <2>1
<1>. DEFINE P == PowerOf2
<1>7. P = [n \in 0 .. N |-> IF n = 0 THEN 1 ELSE 2 * P[n - 1]]
  BY <1>6 DEF Doubles
<1>. HIDE DEF P, N
<1>8. P[0] = 1 /\ \A n \in 1 .. N : P[n] = 2 * P[n - 1]
  BY <1>1, <1>7
<1>9. \A n \in 0 .. N : P[n] \in Nat
  <2>. DEFINE B == {n \in 0 .. N : P[n] \in Nat}
  <2>1. 0 \in B /\ \A n \in 1 .. N : n - 1 \in B => n \in B
    BY <1>1, <1>8
  <2>. HIDE DEF B
  <2>2. \A n \in 0 .. N : n \in B
    BY <1>1, <2>1, NumbersUpTo
  <2>. QED  BY <2>2 DEF B
<1>. QED  BY <1>8, <1>9 DEF P, N

\* No wait is longer than the one after MaxShift tries.
LEMMA LongestWait ==
  ASSUME NEW n \in 0 .. MaxShift
  PROVE  PowerOf2[n] \in Nat /\ PowerOf2[n] <= PowerOf2[MaxShift]
<1>. DEFINE P == PowerOf2
            B == {j \in 0 .. MaxShift : \A m \in 0 .. j : P[m] <= P[j]}
<1>1. /\ MaxShift \in Nat
      /\ \A k \in 0 .. MaxShift : P[k] \in Nat
      /\ \A k \in 1 .. MaxShift : P[k] = 2 * P[k - 1] /\ k - 1 \in 0 .. MaxShift
  BY CapIsLarge, PowersDouble
<1>. HIDE DEF P
<1>2. 0 \in B
  BY <1>1
<1>3. ASSUME NEW k \in 1 .. MaxShift, k - 1 \in B PROVE k \in B
  <2>1. P[k - 1] <= P[k]
    BY <1>1
  <2>2. ASSUME NEW m \in 0 .. k PROVE P[m] <= P[k]
    <3>1. m = k \/ m \in 0 .. k - 1
      OBVIOUS
    <3>2. m \in 0 .. MaxShift /\ k \in 0 .. MaxShift /\ k - 1 \in 0 .. MaxShift
      BY <1>1
    <3>3. m \in 0 .. k - 1 => P[m] <= P[k - 1]
      BY <1>3
    <3>. QED  BY <1>1, <2>1, <3>1, <3>2, <3>3
  <2>. QED  BY <2>2
<1>. HIDE DEF B
<1>4. \A k \in 0 .. MaxShift : k \in B
  BY <1>1, <1>2, <1>3, NumbersUpTo
<1>5. MaxShift \in B
  BY <1>1, <1>4
<1>. QED  BY <1>1, <1>5 DEF B, P

\* There are finitely many answers in flight.
StunInv == StunTypeOK /\ IsFiniteSet(answers)

LEMMA StunBegins == StunInit => StunInv
<1>. SUFFICES ASSUME StunInit PROVE StunInv
  OBVIOUS
<1>1. IsFiniteSet({}) /\ Cardinality({}) = 0
  BY FS_EmptySet
<1>2. PowerOf2[MaxShift] \in Nat /\ StunTriesCap \in Nat
  BY CapIsLarge, LongestWait
<1>. QED  BY <1>1, <1>2, StunAssumption DEF StunInit, StunInv, StunTypeOK

\* A wait is no longer than the longest; the next request outdates the answers.
LEMMA RequestTypes ==
  ASSUME StunInv, StunUpdate
  PROVE  StunInv'
<1>. DEFINE n == IF tries < 0 THEN 0 ELSE IF tries > MaxShift THEN MaxShift ELSE tries
            old == {[a EXCEPT !.fresh = FALSE] : a \in answers}
            Fresh(kind) == [fresh |-> TRUE, kind |-> kind, from |-> server]
<1>0. /\ StunTriesCap \in Nat /\ MaxShift \in Nat /\ tries \in -1 .. StunTriesCap
      /\ PowerOf2[MaxShift] \in Nat
  BY CapIsLarge, LongestWait DEF StunInv, StunTypeOK
<1>1. nextTry' \in -1 .. PowerOf2[MaxShift]
  <2>1. n \in 0 .. MaxShift
    BY <1>0
  <2>2. nextTry' = PowerOf2[n]
    BY DEF StunUpdate, RetryWaitSeconds
  <2>. HIDE DEF n
  <2>3. PowerOf2[n] \in Nat /\ PowerOf2[n] <= PowerOf2[MaxShift]
    BY <2>1, LongestWait
  <2>. QED  BY <1>0, <2>2, <2>3
<1>2. tries' \in -1 .. StunTriesCap
  BY <1>0 DEF StunUpdate, OneMore
<1>3. \/ answers' = old
      \/ \E kind \in {"success", "error", "unusable"} : answers' = old \union {Fresh(kind)}
  BY DEF StunUpdate
<1>4. old \subseteq Answers /\ IsFiniteSet(old)
  <2>1. IsFiniteSet(answers) /\ answers \subseteq Answers
    BY DEF StunInv, StunTypeOK
  <2>2. \A a \in Answers : [a EXCEPT !.fresh = FALSE] \in Answers
    BY DEF Answers
  <2>3. old \subseteq Answers
    BY <2>1, <2>2
  <2>4. IsFiniteSet(old)
    <3>. DEFINE f == [a \in answers |-> [a EXCEPT !.fresh = FALSE]]
    <3>1. f \in [answers -> old] /\ \A o \in old : \E a \in answers : f[a] = o
      OBVIOUS
    <3>. HIDE DEF f, old
    <3>2. f \in Surjection(answers, old)
      BY <3>1 DEF Surjection
    <3>. QED  BY <2>1, <3>2, FS_Surjection
  <2>. QED  BY <2>3, <2>4
<1>5. \A kind \in {"success", "error", "unusable"} : Fresh(kind) \in Answers
  <2>1. server \in StunServers
    BY DEF StunUpdate, StunInv, StunTypeOK
  <2>. QED  BY <2>1 DEF Answers
<1>6. answers' \subseteq Answers /\ IsFiniteSet(answers')
  <2>. HIDE DEF old, Fresh
  <2>1. CASE answers' = old
    BY <1>4, <2>1
  <2>2. ASSUME NEW kind \in {"success", "error", "unusable"},
               answers' = old \union {Fresh(kind)}
        PROVE  answers' \subseteq Answers /\ IsFiniteSet(answers')
    <3>1. IsFiniteSet(old \union {Fresh(kind)})
      BY <1>4, FS_AddElement
    <3>. QED  BY <1>4, <1>5, <2>2, <3>1
  <2>. QED  BY <1>3, <2>1, <2>2
<1>7. Cardinality(answers') <= MaxAnswers /\ UNCHANGED <<server, addrFrom, since, feeds>>
  BY DEF StunUpdate
<1>. QED  BY <1>1, <1>2, <1>6, <1>7 DEF StunInv, StunTypeOK

\* An answer that has come may come again.
LEMMA AnswerTypes ==
  ASSUME StunInv, NEW a \in answers, OnPacket(a) \/ LosesAnswer(a)
  PROVE  StunInv'
<1>. USE StunAssumption
<1>0. /\ PowerOf2[MaxShift] \in Nat /\ StunTriesCap \in Nat
      /\ answers \subseteq Answers /\ IsFiniteSet(answers) /\ Cardinality(answers) <= MaxAnswers
  BY CapIsLarge, LongestWait DEF StunInv, StunTypeOK
<1>1. answers' \subseteq Answers /\ IsFiniteSet(answers') /\ Cardinality(answers') <= MaxAnswers
  <2>1. answers' = answers \/ answers' = answers \ {a}
    BY DEF OnPacket, LosesAnswer
  <2>2. IsFiniteSet(answers \ {a}) /\ Cardinality(answers \ {a}) = Cardinality(answers) - 1
    BY <1>0, FS_RemoveElement
  <2>3. Cardinality(answers) \in Nat
    BY <1>0, FS_CardinalityType
  <2>. QED  BY <1>0, <2>1, <2>2, <2>3
<1>2. /\ server' \in StunServers \union {NoServer} /\ addrFrom' \in StunServers \union {NoServer}
      /\ since' \in -1 .. Old /\ nextTry' \in -1 .. PowerOf2[MaxShift]
      /\ tries' \in -1 .. StunTriesCap /\ feeds' \in 0 .. MaxFeeds
  <2>1. a.from \in StunServers
    BY <1>0 DEF Answers
  <2>2. CASE LosesAnswer(a)
    BY <2>2 DEF LosesAnswer, StunInv, StunTypeOK
  <2>3. CASE OnPacket(a)
    <3>. DEFINE P == PowerOf2[MaxShift]
    <3>1. P \in Nat /\ nextTry \in -1 .. P
      BY <1>0 DEF StunInv, StunTypeOK
    <3>. HIDE DEF P
    <3>2. nextTry' \in -1 .. P
      BY <2>3, <3>1 DEF OnPacket
    <3>3. since' \in -1 .. Old /\ tries' \in -1 .. StunTriesCap
          /\ addrFrom' \in StunServers \union {NoServer}
      BY <1>0, <2>1, <2>3 DEF OnPacket, StunInv, StunTypeOK
    <3>. QED  BY <2>3, <3>2, <3>3 DEF OnPacket, StunInv, StunTypeOK, P
  <2>. QED  BY <2>2, <2>3
<1>. QED  BY <1>1, <1>2 DEF StunInv, StunTypeOK

LEMMA StunStep == StunInv /\ [StunNext]_stunVars => StunInv'
<1>. SUFFICES ASSUME StunInv, [StunNext]_stunVars PROVE StunInv'
  OBVIOUS
<1>. USE StunAssumption
<1>. DEFINE P == PowerOf2[MaxShift]
<1>0. P \in Nat /\ StunTriesCap \in Nat /\ nextTry \in -1 .. P
  BY CapIsLarge, LongestWait DEF StunInv, StunTypeOK
<1>. HIDE DEF P
<1>1. CASE UNCHANGED stunVars
  BY <1>1 DEF stunVars, StunInv, StunTypeOK
<1>2. ASSUME NEW s \in StunServers, FeedStunServer(s) PROVE StunInv'
  <2>1. nextTry' \in -1 .. P
    BY <1>0, <1>2 DEF FeedStunServer
  <2>. QED  BY <1>0, <1>2, <2>1 DEF FeedStunServer, StunInv, StunTypeOK, P
<1>3. CASE StunRefresh
  <2>1. nextTry' \in -1 .. P
    BY <1>0, <1>3 DEF StunRefresh
  <2>. QED  BY <1>3, <2>1 DEF StunRefresh, StunInv, StunTypeOK, P
<1>4. CASE SecondPasses
  <2>1. nextTry' \in -1 .. P
    BY <1>0, <1>4 DEF SecondPasses
  <2>2. since' \in -1 .. Old
    BY <1>4 DEF SecondPasses, StunInv, StunTypeOK
  <2>. QED  BY <1>4, <2>1, <2>2 DEF SecondPasses, StunInv, StunTypeOK, P
<1>. QED  BY <1>1, <1>2, <1>3, <1>4, RequestTypes, AnswerTypes DEF StunNext

-----------------------------------------------------------------------------
(***************************************************************************)
(* All parts together.  A behaviour of MCThreads is one of a part; what    *)
(* the others start with keeps its type because nothing changes it.        *)
(***************************************************************************)

\* What KnownInv leaves out of the types of the registration.
RestTyped ==
  /\ gotUpdate \in BOOLEAN /\ faults \in 0 .. MaxFaults
  /\ enabled \subseteq Protocols /\ token \subseteq Protocols

RegisterTypes == KnownInv /\ RestTyped

LEMMA RestStaysTyped == RestTyped /\ [RegisterNext]_registerVars => RestTyped'
<1>. SUFFICES ASSUME RestTyped, [RegisterNext]_registerVars PROVE RestTyped'
  OBVIOUS
<1>. USE RegisterAssumption DEF RestTyped
<1>1. CASE UNCHANGED registerVars
  BY <1>1 DEF registerVars
<1>2. ASSUME NEW p \in Protocols, Update(p) \/ OnToken(p) \/ NextRegisterComes(p)
      PROVE  RestTyped'
  BY <1>2 DEF Update, OnToken, NextRegisterComes
<1>3. ASSUME NEW p \in Protocols, TokenIsLost(p) PROVE RestTyped'
  BY <1>3 DEF TokenIsLost, Fault
<1>4. ASSUME NEW p \in Protocols, NEW i \in DOMAIN flight[p], JobStep(p, i) PROVE RestTyped'
  BY <1>4 DEF JobStep, MasterAnswers, NoteStatus, NoteSerial
<1>5. ASSUME NEW p \in Protocols, NEW i \in DOMAIN flight[p], RequestFails(p, i)
      PROVE  RestTyped'
  BY <1>5 DEF RequestFails, Fault
<1>6. CASE FirstUpdate
  BY <1>6 DEF FirstUpdate
<1>7. CASE OnNewInfo
  BY <1>7 DEF OnNewInfo
<1>8. CASE MasterRestarts
  BY <1>8 DEF MasterRestarts, Fault
<1>9. ASSUME NEW E \in SUBSET Protocols, OnConfigChange(E) PROVE RestTyped'
  BY <1>9 DEF OnConfigChange, Fault
<1>. QED  BY <1>1, <1>2, <1>3, <1>4, <1>5, <1>6, <1>7, <1>8, <1>9 DEF RegisterNext

LEMMA RegisterTyped == RegisterTypes => RegisterTypeOK
<1>. SUFFICES ASSUME RegisterTypes PROVE RegisterTypeOK
  OBVIOUS
<1>1. flight \in [Protocols -> Seq(Jobs)]
  <2>1. ToldJobs(master.told) \subseteq Jobs
    BY DEF ToldJobs
  <2>2. flight \in [Protocols -> Seq(ToldJobs(master.told))]
    BY DEF RegisterTypes, KnownInv
  <2>3. \A p \in Protocols : flight[p] \in Seq(Jobs)
    BY <2>1, <2>2
  <2>. QED  BY <2>2, <2>3
<1>. QED  BY <1>1 DEF RegisterTypes, KnownInv, RestTyped, RegisterTypeOK, Masters, Protos

\* The invariants of the parts, side by side.
ThreadsInv ==
  /\ ReloadTypeOK /\ ChangeInv /\ AccountsTypes
  /\ PoolTypes /\ RegisterTypes /\ StunInv

LEMMA ThreadsBegin == Init => ThreadsInv
<1>1. RegisterInit => RestTyped
  <2>. SUFFICES ASSUME RegisterInit PROVE RestTyped
    OBVIOUS
  <2>1. gotUpdate = FALSE /\ enabled = Protocols /\ token = {} /\ faults = 0
    BY DEF RegisterInit
  <2>2. faults \in 0 .. MaxFaults
    BY <2>1, RegisterAssumption
  <2>. QED  BY <2>1, <2>2 DEF RestTyped
<1>. QED  BY <1>1, ReloadBegins, Initially, AccountsBegin, PoolBegins, RegisterBegins, StunBegins
          DEF Init, ThreadsInv, RegisterTypes

LEMMA ThreadsStep == ThreadsInv /\ [Next]_threadVars => ThreadsInv'
<1>. SUFFICES ASSUME ThreadsInv, [Next]_threadVars PROVE ThreadsInv'
  OBVIOUS
<1>1. /\ [ReloadNext]_reloadVars /\ [ChangeNext]_changeVars /\ [AccountsNext]_accountVars
      /\ [PoolNext]_poolVars /\ [RegisterNext]_registerVars /\ [StunNext]_stunVars
  <2>1. CASE UNCHANGED threadVars
    BY <2>1 DEF threadVars
  <2>2. CASE Next
    BY <2>2 DEF Next, OnlyItMoves, Idle
  <2>. QED  BY <2>1, <2>2
<1>. QED  BY <1>1, ReloadStep, ChangeStep, AccountsStep, PoolStep, RegisterStep, RestStaysTyped,
             StunStep
          DEF ThreadsInv, RegisterTypes

\* Every part keeps to its types, for every number of threads, workers, jobs, protocols
\* and faults: no wait of the STUN client is longer than 1 << 9 seconds, and what the
\* master is believed to know goes back no further than to nothing (network_stun.cpp:30,
\* register.cpp:446).
THEOREM TypesAlwaysHold == Spec => []TypeOK
<1>1. ThreadsInv => TypeOK
  BY RegisterTyped, AccountsTyped DEF ThreadsInv, ChangeInv, PoolTypes, StunInv, TypeOK
<1>. QED  BY ThreadsBegin, ThreadsStep, <1>1, PTL DEF Spec
================================================================================
