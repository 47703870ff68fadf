----------------------------- MODULE ThreadPool -----------------------------
(***************************************************************************)
(* files/stripper/thread_pool.{hpp,cpp}: a list of jobs under jobs_mutex,  *)
(* the condition variable `filled', and workers that wait on it.           *)
(*                                                                         *)
(* Everything the code does while it holds jobs_mutex is one step: the     *)
(* mutex makes the section atomic, and the worker waits only at its        *)
(* boundary.  A worker that is to take the mutex is "ready"; that is also  *)
(* where a notified worker goes, since wait() takes the mutex again before *)
(* it looks at the predicate.  The job itself runs outside the mutex.      *)
(***************************************************************************)
EXTENDS Naturals, Sequences, FiniteSets

CONSTANTS Worker,   \* the threads that the constructor starts
          Task,     \* the tasks that may be posted, each at most once
          None      \* no task

ASSUME WorkerAssumption == IsFiniteSet(Worker)
ASSUME NoneAssumption   == None \notin Task

VARIABLES owner,     \* what the thread that owns the pool is doing
          awaited,   \* the task whose future the owner is waiting for
          threads,   \* what each worker is doing
          front,     \* run_worker's local `front': the job a worker holds
          jobs,      \* the list of jobs
          running,   \* the flag the destructor clears
          future     \* the state of the future that post returned

vars == <<owner, awaited, threads, front, jobs, running, future>>

ThreadState == {"unborn", "ready", "waiting", "busy", "exited"}
OwnerState  == {"constructing", "open", "getting", "joining", "gone"}

Waiting == {w \in Worker : threads[w] = "waiting"}
Ready   == {w \in Worker : threads[w] = "ready"}
Busy    == {w \in Worker : threads[w] = "busy"}

Init ==
    /\ owner = "constructing"
    /\ awaited = None
    /\ threads = [w \in Worker |-> "unborn"]
    /\ front = [w \in Worker |-> None]
    /\ jobs = <<>>
    /\ running = TRUE
    /\ future = [t \in Task |-> "none"]

(* The constructor's loop starts the threads one by one; those it has      *)
(* started are at work while it starts the others.                         *)
StartThread(w) ==
    /\ owner = "constructing"
    /\ threads[w] = "unborn"
    /\ threads' = [threads EXCEPT ![w] = "ready"]
    /\ UNCHANGED <<owner, awaited, front, jobs, running, future>>

Constructed ==
    /\ owner = "constructing"
    /\ \A w \in Worker : threads[w] # "unborn"
    /\ owner' = "open"
    /\ UNCHANGED <<awaited, threads, front, jobs, running, future>>

(* condition_variable::notify_one and notify_all: a notified worker has    *)
(* still to take the mutex.                                                *)
NotifyOnFirst ==                      \* mutation: only when the list was empty
    IF Waiting = {} \/ jobs # <<>>
    THEN threads' = threads
    ELSE \E w \in Waiting : threads' = [threads EXCEPT ![w] = "ready"]

NotifyOne ==
    IF Waiting = {}
    THEN threads' = threads
    ELSE \E w \in Waiting : threads' = [threads EXCEPT ![w] = "ready"]

NotifyAll ==
    threads' = [w \in Worker |-> IF w \in Waiting THEN "ready" ELSE threads[w]]

Post(t) ==
    /\ owner = "open"
    /\ future[t] = "none"
    /\ future' = [future EXCEPT ![t] = "pending"]
    /\ jobs' = Append(jobs, t)
    /\ NotifyOne
    /\ UNCHANGED <<owner, awaited, front, running>>

(* The owner calls get() on a future; it goes on when the value is there.  *)
Get(t) ==
    /\ owner = "open"
    /\ future[t] # "none"
    /\ owner' = "getting"
    /\ awaited' = t
    /\ UNCHANGED <<threads, front, jobs, running, future>>

GetReturns ==
    /\ owner = "getting"
    /\ future[awaited] = "ready"
    /\ owner' = "open"
    /\ awaited' = None
    /\ UNCHANGED <<threads, front, jobs, running, future>>

(* The destructor's critical section, then its loop of joins. *)
Destroy ==
    /\ owner = "open"
    /\ owner' = "joining"
    /\ running' = FALSE
    /\ NotifyAll
    /\ UNCHANGED <<awaited, front, jobs, future>>

Joined ==
    /\ owner = "joining"
    /\ \A w \in Worker : threads[w] = "exited"
    /\ owner' = "gone"
    /\ UNCHANGED <<awaited, threads, front, jobs, running, future>>

(* A worker has the mutex and finds the predicate of filled.wait false ... *)
Wait(w) ==
    /\ threads[w] = "ready"
    /\ running
    /\ jobs = <<>>
    /\ threads' = [threads EXCEPT ![w] = "waiting"]
    /\ UNCHANGED <<owner, awaited, front, jobs, running, future>>

(* ... or true, with nothing left to do ...                                *)
ExitAtOnce(w) ==                      \* mutation of Exit: drops the jobs left
    /\ threads[w] = "ready"
    /\ ~running
    /\ threads' = [threads EXCEPT ![w] = "exited"]
    /\ UNCHANGED <<owner, awaited, front, jobs, running, future>>

Exit(w) ==
    /\ threads[w] = "ready"
    /\ jobs = <<>>
    /\ ~running
    /\ threads' = [threads EXCEPT ![w] = "exited"]
    /\ UNCHANGED <<owner, awaited, front, jobs, running, future>>

(* ... or true, with a job to take.                                        *)
TakeUnlooked(w) ==                    \* mutation of Take: wait without predicate
    /\ threads[w] = "ready"
    /\ running
    /\ front' = [front EXCEPT ![w] = IF jobs = <<>> THEN None ELSE Head(jobs)]
    /\ jobs' = IF jobs = <<>> THEN jobs ELSE Tail(jobs)
    /\ threads' = [threads EXCEPT ![w] = "busy"]
    /\ UNCHANGED <<owner, awaited, running, future>>

TakeKeep(w) ==                        \* mutation of Take: pop_front forgotten
    /\ threads[w] = "ready"
    /\ jobs # <<>>
    /\ front' = [front EXCEPT ![w] = Head(jobs)]
    /\ threads' = [threads EXCEPT ![w] = "busy"]
    /\ UNCHANGED <<owner, awaited, jobs, running, future>>

TakeLast(w) ==                        \* mutation of Take: the newest job
    /\ threads[w] = "ready"
    /\ jobs # <<>>
    /\ front' = [front EXCEPT ![w] = jobs[Len(jobs)]]
    /\ jobs' = SubSeq(jobs, 1, Len(jobs) - 1)
    /\ threads' = [threads EXCEPT ![w] = "busy"]
    /\ UNCHANGED <<owner, awaited, running, future>>

Take(w) ==
    /\ threads[w] = "ready"
    /\ jobs # <<>>
    /\ front' = [front EXCEPT ![w] = Head(jobs)]
    /\ jobs' = Tail(jobs)
    /\ threads' = [threads EXCEPT ![w] = "busy"]
    /\ UNCHANGED <<owner, awaited, running, future>>

(* wait() may return although nobody notified. *)
SpuriousWakeup(w) ==
    /\ threads[w] = "waiting"
    /\ threads' = [threads EXCEPT ![w] = "ready"]
    /\ UNCHANGED <<owner, awaited, front, jobs, running, future>>

(* front() returns: the packaged_task has stored a value or an exception   *)
(* in its future, and the worker goes round its loop.                      *)
Run(w) ==
    /\ threads[w] = "busy"
    /\ future' = [future EXCEPT ![front[w]] = "ready"]
    /\ front' = [front EXCEPT ![w] = None]
    /\ threads' = [threads EXCEPT ![w] = "ready"]
    /\ UNCHANGED <<owner, awaited, jobs, running>>

OwnerStep ==
    \/ \E w \in Worker : StartThread(w)
    \/ Constructed
    \/ \E t \in Task : Post(t) \/ Get(t)
    \/ GetReturns
    \/ Destroy
    \/ Joined

WorkerStep(w) ==
    \/ Wait(w)
    \/ Exit(w)
    \/ Take(w)
    \/ Run(w)

(* Nothing is left to do; the only state without a step of its own. *)
Gone ==
    /\ owner = "gone"
    /\ UNCHANGED vars

Next ==
    \/ OwnerStep
    \/ \E w \in Worker : WorkerStep(w) \/ SpuriousWakeup(w)
    \/ Gone

Spec == Init /\ [][Next]_vars

(* Every worker that can run gets to run, every task returns, and the      *)
(* owner does not stop inside the constructor, get() or the destructor.    *)
(* Whether it posts, gets or destroys is its own affair, and nobody relies *)
(* on a spurious wake-up.                                                  *)
FairSpec ==
    /\ Spec
    /\ \A w \in Worker : WF_vars(WorkerStep(w))
    /\ WF_vars(\E w \in Worker : StartThread(w))
    /\ WF_vars(Constructed)
    /\ WF_vars(GetReturns)
    /\ WF_vars(Joined)
-----------------------------------------------------------------------------
(* Every variable has its type, and a worker executes a job exactly while  *)
(* it has one in hand: whoever was woken, by whatever, looked at the list  *)
(* again before it took the front of it.                                   *)
TypeOK ==
    /\ owner \in OwnerState
    /\ awaited \in Task \cup {None}
    /\ (owner = "getting") <=> (awaited # None)
    /\ threads \in [Worker -> ThreadState]
    /\ front \in [Worker -> Task \cup {None}]
    /\ \A w \in Worker : threads[w] = "busy" <=> front[w] # None
    /\ jobs \in Seq(Task)
    /\ running \in BOOLEAN
    /\ future \in [Task -> {"none", "pending", "ready"}]

Queued(t) == \E i \in DOMAIN jobs : jobs[i] = t
Held(t)   == \E w \in Worker : front[w] = t

(* A task whose future is pending is in exactly one place: once in the     *)
(* list of jobs or in the hands of one worker; no other task is in either. *)
(* Two workers never run one task, and no posted task is dropped.          *)
EachTaskOnce ==
    /\ \A t \in Task :
          /\ (future[t] = "pending") <=> (Queued(t) \/ Held(t))
          /\ ~(Queued(t) /\ Held(t))
    /\ \A i, j \in DOMAIN jobs : jobs[i] = jobs[j] => i = j
    /\ \A v, w \in Worker : front[v] = front[w] /\ front[v] # None => v = w

(* While some worker sleeps on the condition variable, at least as many    *)
(* workers are on their way to the mutex as there are jobs: notify_one per *)
(* push_back is enough, and no job waits for a worker that nobody wakes.   *)
NoLostWakeup ==
    Waiting # {} => Len(jobs) <= Cardinality(Ready)

(* Once the destructor has cleared `running', no worker sleeps again.      *)
NobodySleepsAtShutdown ==
    ~running => Waiting = {}

(* When the destructor returns, nothing that was posted is left undone     *)
(* (provided the pool has a thread at all).                                *)
DestroyedIsDrained ==
    owner = "gone" /\ Worker # {} =>
        /\ jobs = <<>>
        /\ \A t \in Task : future[t] # "pending"

(* What the code's lifecycle adds to make the above inductive: threads are *)
(* all born when the constructor is done, `running' is false exactly while *)
(* the pool is being destroyed, and a worker leaves only an empty pool     *)
(* that is shutting down.                                                  *)
Lifecycle ==
    /\ owner # "constructing" => \A w \in Worker : threads[w] # "unborn"
    /\ running <=> owner \notin {"joining", "gone"}
    /\ \A w \in Worker : threads[w] = "exited" => ~running /\ jobs = <<>>
    /\ owner = "gone" => \A w \in Worker : threads[w] = "exited"

(* The inductive invariant. *)
IInv ==
    /\ TypeOK
    /\ Lifecycle
    /\ EachTaskOnce
    /\ NoLostWakeup
    /\ NobodySleepsAtShutdown

(* The destructor returns. *)
DestructorReturns ==
    owner = "joining" ~> owner = "gone"

(* The pool keeps the promise of Executor: tasks start in the order they   *)
(* were posted, at most one per worker, and the destructor waits for them. *)
Promise == INSTANCE Executor WITH
    Size      <- Cardinality(Worker),
    queue     <- jobs,
    executing <- {front[w] : w \in Busy},
    finished  <- {t \in Task : future[t] = "ready"},
    phase     <- IF owner = "gone" THEN "left"
                 ELSE IF owner = "joining" THEN "closing"
                 ELSE "open"

ImplementsExecutor == Promise!ExecSpec
ImplementsFairExecutor == Promise!ExecFairSpec
=============================================================================
