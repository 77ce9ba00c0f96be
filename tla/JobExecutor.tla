----------------------------- MODULE JobExecutor -----------------------------
(***************************************************************************)
(* JobExecutor (jobexecutor.py): the thread pool behind every read, write  *)
(* and removal of the storages and of the block devices, with a bounded    *)
(* semaphore that limits what is in memory at one time.                    *)
(*                                                                         *)
(* One thread, the caller, submits jobs and collects results; the threads  *)
(* of concurrent.futures.ThreadPoolExecutor run the jobs.  With            *)
(* blocking_submit the caller takes a permit in submit() and the job gives *)
(* it back; without it the job takes the permit before it runs and the     *)
(* caller gives it back when it collects the result.                       *)
(***************************************************************************)
EXTENDS Naturals, FiniteSets

CONSTANTS
    Jobs,       \* bound: jobs that can be submitted
    Workers     \* max_workers

ASSUME ExecutorAssumption == Jobs \in Nat /\ Workers \in Nat \ {0}

Job == 1..Jobs   \* in the order in which they are submitted

VARIABLES
    blocking,  \* blocking_submit
    job,       \* where a job is
    futures,   \* self._futures: jobs whose result is not collected
    permits,   \* the counter of self._semaphore
    caller,    \* where the calling thread is
    todo       \* futures the loop of shutdown() has not tried to cancel yet

poolVars == <<blocking, job, futures, permits, caller, todo>>

JobState == {"new", "waiting", "queued", "acquiring", "running", "released",
             "done", "cancelled", "notified"}
CallerState == {"idle", "submit", "wait", "cancel", "drain", "join", "closed"}

PoolTypeOK ==
    /\ blocking \in BOOLEAN
    /\ job \in [Job -> JobState]
    /\ futures \subseteq Job
    /\ permits \in Nat
    /\ caller \in CallerState
    /\ todo \subseteq Job

Limit == 2 * Workers + 1

In(S) == {j \in Job : job[j] \in S}

\* Threads of the pool that are busy with a job.
Busy == In({"acquiring", "running", "released"})

Become(j, s) == job' = [job EXCEPT ![j] = s]

-----------------------------------------------------------------------------
(* The caller.                                                             *)

\* submit() is called.
Submit(j) ==
    /\ caller = "idle" /\ job[j] = "new" /\ \A k \in In({"new"}) : j <= k
    /\ Become(j, "waiting")
    /\ caller' = "submit"
    /\ UNCHANGED <<futures, permits, todo, blocking>>

\* submit() has its permit, if it needs one, and hands the job to the pool.
Enqueue(j) ==
    /\ caller = "submit" /\ job[j] = "waiting"
    /\ \/ blocking /\ permits > 0 /\ permits' = permits - 1
       \/ ~blocking /\ UNCHANGED permits
    /\ Become(j, "queued")
    /\ futures' = futures \cup {j}
    /\ caller' = "idle"
    /\ UNCHANGED <<todo, blocking>>

\* Mutant: cancelled jobs, which never took a permit, give one back.
GetCompleted_ReleasesCancelled(j) ==
    /\ caller \in {"idle", "drain"}
    /\ j \in futures /\ job[j] \in {"done", "notified"}
    /\ futures' = futures \ {j}
    /\ permits' = IF blocking THEN permits ELSE permits + 1
    /\ UNCHANGED <<job, caller, todo, blocking>>

\* One turn of the loop of get_completed(), by the user of the executor or by
\* shutdown().
GetCompleted(j) ==
    /\ caller \in {"idle", "drain"}
    /\ j \in futures /\ job[j] \in {"done", "notified"}
    /\ futures' = futures \ {j}
    /\ permits' = IF ~blocking /\ job[j] = "done" THEN permits + 1 ELSE permits
    /\ UNCHANGED <<job, caller, todo, blocking>>

\* wait_for_all(): called on executors of writes and removals, never of reads.
WaitForAll ==
    /\ blocking
    /\ \/ caller = "idle" /\ caller' = "wait"
       \/ /\ caller = "wait" /\ caller' = "idle"
          /\ \A j \in futures : job[j] \in {"done", "notified"}
    /\ UNCHANGED <<job, futures, permits, todo, blocking>>

\* shutdown() is called.
Shutdown ==
    /\ caller = "idle"
    /\ caller' = IF futures = {} THEN "join" ELSE "cancel"
    /\ todo' = futures
    /\ UNCHANGED <<job, futures, permits, blocking>>

\* future.cancel(): only a job no thread has taken can be cancelled.  It counts
\* as completed when a thread has met it in the queue (NotifyCancel).
Cancel(j) ==
    /\ caller = "cancel" /\ j \in todo
    /\ todo' = todo \ {j}
    /\ IF job[j] = "queued" THEN Become(j, "cancelled") ELSE UNCHANGED job
    /\ UNCHANGED <<futures, permits, caller, blocking>>

\* Mutant: the results are not collected before the threads are joined.
AllCancelled_NoDrain ==
    /\ caller = "cancel" /\ todo = {}
    /\ caller' = "join"
    /\ UNCHANGED <<job, futures, permits, todo, blocking>>

\* The loop of cancels is over; reads are collected before the threads are
\* joined.
AllCancelled ==
    /\ caller = "cancel" /\ todo = {}
    /\ caller' = IF blocking THEN "join" ELSE "drain"
    /\ UNCHANGED <<job, futures, permits, todo, blocking>>

Drained ==
    /\ caller = "drain" /\ futures = {}
    /\ caller' = "join"
    /\ UNCHANGED <<job, futures, permits, todo, blocking>>

\* self._executor.shutdown() returns when every thread of the pool has ended.
Join ==
    /\ caller = "join" /\ Busy \cup In({"queued", "cancelled"}) = {}
    /\ caller' = "closed"
    /\ UNCHANGED <<job, futures, permits, todo, blocking>>

-----------------------------------------------------------------------------
(* The threads of the pool.                                                *)

\* The queue of the pool is first in, first out, cancelled jobs included.
AtHead(j) == \A k \in In({"queued", "cancelled"}) : j <= k

\* A thread takes a job from the queue.
Take(j) ==
    /\ job[j] = "queued" /\ AtHead(j)
    /\ Cardinality(Busy) < Workers
    /\ Become(j, IF blocking THEN "running" ELSE "acquiring")
    /\ UNCHANGED <<futures, permits, caller, todo, blocking>>

\* Mutant: the function runs before there is a permit for its result.
Acquire_NoWait(j) ==
    /\ job[j] = "acquiring"
    /\ permits' = IF permits > 0 THEN permits - 1 ELSE 0
    /\ Become(j, "running")
    /\ UNCHANGED <<futures, caller, todo, blocking>>

\* execute_with_acquire gets its permit and runs the function.
Acquire(j) ==
    /\ job[j] = "acquiring" /\ permits > 0
    /\ permits' = permits - 1
    /\ Become(j, "running")
    /\ UNCHANGED <<futures, caller, todo, blocking>>

\* Mutant: a job whose function raises keeps its permit.
Return_NoFinally(j) ==
    /\ job[j] = "running"
    /\ \/ ~blocking /\ Become(j, "done") /\ UNCHANGED permits
       \/ blocking /\ Become(j, "released") /\ permits' = permits + 1
       \/ blocking /\ Become(j, "released") /\ UNCHANGED permits
    /\ UNCHANGED <<futures, caller, todo, blocking>>

\* The function returns or raises; execute_with_release gives its permit back
\* before the result of the future is set.
Return(j) ==
    /\ job[j] = "running"
    /\ \/ ~blocking /\ Become(j, "done") /\ UNCHANGED permits
       \/ blocking /\ Become(j, "released") /\ permits' = permits + 1
    /\ UNCHANGED <<futures, caller, todo, blocking>>

\* The future of a job with execute_with_release gets its result.
SetResult(j) ==
    /\ job[j] = "released"
    /\ Become(j, "done")
    /\ UNCHANGED <<futures, permits, caller, todo, blocking>>

\* A thread takes a cancelled job from the queue, tells those who wait for it,
\* and drops it.
NotifyCancel(j) ==
    /\ job[j] = "cancelled" /\ AtHead(j)
    /\ Cardinality(Busy) < Workers
    /\ Become(j, "notified")
    /\ UNCHANGED <<futures, permits, caller, todo, blocking>>

-----------------------------------------------------------------------------

PoolInit ==
    /\ blocking \in BOOLEAN
    /\ job = [j \in Job |-> "new"]
    /\ futures = {}
    /\ permits = Limit
    /\ caller = "idle"
    /\ todo = {}

\* A step of the caller that needs no decision of the program above it.
CallerStep ==
    \/ \E j \in Job : Enqueue(j) \/ (caller = "drain" /\ GetCompleted(j)) \/ Cancel(j)
    \/ caller = "wait" /\ WaitForAll
    \/ AllCancelled \/ Drained \/ Join

WorkerStep == \E j \in Job : Take(j) \/ Acquire(j) \/ Return(j) \/ SetResult(j)
                            \/ NotifyCancel(j)

PoolNext ==
    \/ CallerStep \/ WorkerStep
    \/ \E j \in Job : Submit(j) \/ (caller = "idle" /\ GetCompleted(j))
    \/ caller = "idle" /\ WaitForAll
    \/ Shutdown

PoolSpec == PoolInit /\ [][PoolNext]_poolVars

\* Threads are scheduled and the functions of jobs end (they are I/O calls with
\* errors or timeouts of their own); the caller goes on inside a method.  What
\* the program does between two calls is not assumed fair.
PoolFairSpec == PoolSpec /\ WF_poolVars(CallerStep) /\ WF_poolVars(WorkerStep)

-----------------------------------------------------------------------------
(* Properties.                                                             *)

\* Jobs that hold a permit.  A cancelled job that took its permit in submit()
\* never gives it back.
Holding ==
    IF blocking THEN In({"queued", "running", "cancelled", "notified"})
                ELSE In({"running"}) \cup (In({"done"}) \cap futures)

\* Every permit is accounted for, whatever is cancelled, raises or is collected
\* late: none is lost while the executor is in use, and none is given back twice
\* (BoundedSemaphore.release would raise ValueError).
PermitsAccounted ==
    /\ PoolTypeOK
    /\ In({"queued", "acquiring", "running", "released"}) \subseteq futures
    /\ ~blocking => In({"released"}) = {}
    /\ permits + Cardinality(Holding) = Limit

\* What the semaphore is for, in the words of the class comment: with blocking
\* submits a limited number of jobs, and the data they carry, is in the queue or
\* running; without them a limited number of results is in memory.
OutstandingBounded ==
    IF blocking THEN Cardinality(In({"queued", "running"})) <= Limit
                ELSE Cardinality(In({"running"}) \cup (In({"done"}) \cap futures)) <= Limit

\* shutdown() ends, also when threads wait for permits that only collecting the
\* results of other jobs can give them.
ShutdownCompletes == caller = "cancel" ~> caller = "closed"

\* A submit() that blocks comes back, and so does wait_for_all().
CallsReturn == caller \in {"submit", "wait"} ~> caller = "idle"

=============================================================================
