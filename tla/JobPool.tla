------------------------------- MODULE JobPool --------------------------------
(***************************************************************************)
(* CJobPool (engine/shared/jobs.cpp), by which CEngine runs jobs: worker    *)
(* threads that sleep on a semaphore and take jobs from a list under a     *)
(* lock.  A job is first put into the list, then the semaphore is raised.  *)
(* Destroy makes the workers return; what is in the list is dropped.       *)
(***************************************************************************)
EXTENDS Integers, Sequences, FiniteSets

CONSTANTS
  Workers,    \* m_apThreads
  PoolJobs    \* the jobs that are added, each at most once

ASSUME JobPoolAssumption ==
  /\ IsFiniteSet(Workers) /\ Workers # {}
  /\ PoolJobs \intersect {"check", "sleep", "fetch", "returned"} = {}

VARIABLES
  list,       \* m_pFirstJob .. m_pLastJob
  raised,     \* jobs in the list for which the semaphore is still to be raised
  semaphore,  \* m_Semaphore
  worker,     \* where each worker is, or the job it took
  jobStatus,  \* m_Status of each job; "new" before it is added
  pool,       \* "runs", "stops" (Destroy signals), "joins", "gone"
  signals,    \* signals that Destroy has still to give
  addedJobs,  \* history: jobs in the order in which they were added,
  takenJobs   \* and in which they were taken from the list

poolVars == <<list, raised, semaphore, worker, jobStatus, pool, signals, addedJobs, takenJobs>>

PoolTypeOK ==
  /\ list \in Seq(PoolJobs)
  /\ raised \subseteq PoolJobs
  /\ semaphore \in Nat
  /\ worker \in [Workers -> {"check", "sleep", "fetch", "returned"} \union PoolJobs]
  /\ jobStatus \in [PoolJobs -> {"new", "pending", "running", "done"}]
  /\ pool \in {"runs", "stops", "joins", "gone"}
  /\ signals \in Nat
  /\ addedJobs \in Seq(PoolJobs) /\ takenJobs \in Seq(PoolJobs)

\* Init starts the workers.
PoolInit ==
  /\ list = <<>> /\ raised = {} /\ semaphore = 0
  /\ worker = [w \in Workers |-> "check"]
  /\ jobStatus = [j \in PoolJobs |-> "new"]
  /\ pool = "runs" /\ signals = 0
  /\ addedJobs = <<>> /\ takenJobs = <<>>

-----------------------------------------------------------------------------
(* Add, by any thread. *)

\* The list, under m_Lock.
AddToList(j) ==
  /\ jobStatus[j] = "new" /\ pool = "runs"
  /\ list' = Append(list, j)
  /\ addedJobs' = Append(addedJobs, j)
  /\ raised' = raised \union {j}
  /\ jobStatus' = [jobStatus EXCEPT ![j] = "pending"]
  /\ UNCHANGED <<semaphore, worker, pool, signals, takenJobs>>

Raise(j) ==
  /\ j \in raised
  /\ raised' = raised \ {j}
  /\ semaphore' = semaphore + 1
  /\ UNCHANGED <<list, worker, jobStatus, pool, signals, addedJobs, takenJobs>>

-----------------------------------------------------------------------------
(* WorkerThread. *)

Shutdown == pool # "runs"

CheckShutdown(w) ==
  /\ worker[w] = "check"
  /\ worker' = [worker EXCEPT ![w] = IF Shutdown THEN "returned" ELSE "sleep"]
  /\ UNCHANGED <<list, raised, semaphore, jobStatus, pool, signals, addedJobs, takenJobs>>

Wake(w) ==
  /\ worker[w] = "sleep"
  /\ semaphore > 0
  /\ semaphore' = semaphore - 1
  /\ worker' = [worker EXCEPT ![w] = "fetch"]
  /\ UNCHANGED <<list, raised, jobStatus, pool, signals, addedJobs, takenJobs>>

\* Mutant of Taken: the list is used as a stack.
TakenLast(l) == [job |-> l[Len(l)], rest |-> SubSeq(l, 1, Len(l) - 1)]

\* The first job, and the list without it.
Taken(l) == [job |-> Head(l), rest |-> Tail(l)]

\* The first job of the list, under m_Lock.
Fetch(w) ==
  /\ worker[w] = "fetch"
  /\ IF list = <<>>
       THEN /\ worker' = [worker EXCEPT ![w] = "check"]
            /\ UNCHANGED <<list, takenJobs>>
       ELSE LET j == Taken(list).job
            IN  /\ list' = Taken(list).rest
                /\ worker' = [worker EXCEPT ![w] = j]
                /\ takenJobs' = Append(takenJobs, j)
  /\ UNCHANGED <<raised, semaphore, jobStatus, pool, signals, addedJobs>>

\* RunBlocking, without the lock: another worker may have begun a later job.
Begin(w) ==
  /\ worker[w] \in PoolJobs /\ jobStatus[worker[w]] = "pending"
  /\ jobStatus' = [jobStatus EXCEPT ![worker[w]] = "running"]
  /\ UNCHANGED <<list, raised, semaphore, worker, pool, signals, addedJobs, takenJobs>>

JobEnds(w) ==
  /\ worker[w] \in PoolJobs /\ jobStatus[worker[w]] = "running"
  /\ jobStatus' = [jobStatus EXCEPT ![worker[w]] = "done"]
  /\ worker' = [worker EXCEPT ![w] = "check"]
  /\ UNCHANGED <<list, raised, semaphore, pool, signals, addedJobs, takenJobs>>

-----------------------------------------------------------------------------
(* Destroy. *)

\* Mutant of SignalsToGive: one signal for all.
OneSignal == 1

\* One for every worker, as each may sleep.
SignalsToGive == Cardinality(Workers)

StopPool ==
  /\ pool = "runs"
  /\ pool' = "stops"
  /\ signals' = SignalsToGive
  /\ UNCHANGED <<list, raised, semaphore, worker, jobStatus, addedJobs, takenJobs>>

Signal ==
  /\ pool = "stops" /\ signals > 0
  /\ semaphore' = semaphore + 1
  /\ signals' = signals - 1
  /\ pool' = IF signals = 1 THEN "joins" ELSE "stops"
  /\ UNCHANGED <<list, raised, worker, jobStatus, addedJobs, takenJobs>>

\* thread_wait for every worker, then the pool is freed with its list.
Join ==
  /\ pool = "joins"
  /\ \A w \in Workers : worker[w] = "returned"
  /\ pool' = "gone"
  /\ list' = <<>>
  /\ UNCHANGED <<raised, semaphore, worker, jobStatus, signals, addedJobs, takenJobs>>

WorkerStep(w) == CheckShutdown(w) \/ Wake(w) \/ Fetch(w) \/ Begin(w) \/ JobEnds(w)

PoolNext ==
  \/ \E j \in PoolJobs : AddToList(j) \/ Raise(j)
  \/ \E w \in Workers : WorkerStep(w)
  \/ StopPool \/ Signal \/ Join

\* Threads run; a job ends.
PoolFairness ==
  /\ \A j \in PoolJobs : WF_poolVars(Raise(j))
  /\ \A w \in Workers : WF_poolVars(WorkerStep(w))
  /\ WF_poolVars(Signal) /\ WF_poolVars(Join)

PoolSpec == PoolInit /\ [][PoolNext]_poolVars /\ PoolFairness

-----------------------------------------------------------------------------
\* A job that was added is done unless the pool is destroyed first: the
\* semaphore is raised once for each and no worker sleeps over a job; and
\* Destroy returns, with whatever worker asleep, fetching or at work.
JobsDoneOrPoolGone ==
  /\ \A j \in PoolJobs : jobStatus[j] = "pending" ~> jobStatus[j] = "done" \/ pool = "gone"
  /\ Shutdown ~> pool = "gone"

\* Jobs leave the list in the order in which they were added, each for one
\* worker, which keeps it until it is done, also while the pool is destroyed.
\* A job may begin before an earlier one, but only before one that is taken.
JobsTakenInOrder ==
  /\ Len(takenJobs) <= Len(addedJobs)
  /\ \A i \in DOMAIN takenJobs :
        /\ takenJobs[i] = addedJobs[i]
        /\ jobStatus[takenJobs[i]] = "done" \/ \E w \in Workers : worker[w] = takenJobs[i]
  /\ \A v, w \in Workers : worker[v] = worker[w] /\ worker[v] \in PoolJobs => v = w
=============================================================================
