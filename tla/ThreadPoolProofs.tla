-------------------------- MODULE ThreadPoolProofs --------------------------
(***************************************************************************)
(* Proofs about ThreadPool for every number of workers and tasks.          *)
(***************************************************************************)
EXTENDS ThreadPool, FiniteSetTheorems, SequenceTheorems, TLAPS

USE WorkerAssumption, NoneAssumption

(* The list of jobs after push_back: the new task is behind the others. *)
LEMMA AppendFacts ==
    ASSUME NEW S, NEW s \in Seq(S), NEW x \in S
    PROVE  /\ Append(s, x) \in Seq(S)
           /\ Len(Append(s, x)) = Len(s) + 1
           /\ DOMAIN Append(s, x) = 1 .. Len(s) + 1
           /\ DOMAIN s = 1 .. Len(s)
           /\ Len(s) \in Nat
           /\ \A i \in 1 .. Len(s) : Append(s, x)[i] = s[i]
           /\ Append(s, x)[Len(s) + 1] = x
           /\ Append(s, x) # <<>>
  OBVIOUS

(* The list of jobs after pop_front: every other task one place earlier. *)
LEMMA TailFacts ==
    ASSUME NEW S, NEW s \in Seq(S), s # <<>>
    PROVE  /\ Head(s) \in S
           /\ Head(s) = s[1]
           /\ Tail(s) \in Seq(S)
           /\ Len(s) \in Nat \ {0}
           /\ DOMAIN s = 1 .. Len(s)
           /\ Len(Tail(s)) = Len(s) - 1
           /\ DOMAIN Tail(s) = 1 .. Len(s) - 1
           /\ \A i \in 1 .. Len(s) - 1 : Tail(s)[i] = s[i + 1]
  OBVIOUS

(* The sets of workers are finite, so Cardinality counts them. *)
LEMMA WorkerSetsFinite ==
    ASSUME NEW P \in SUBSET Worker
    PROVE  IsFiniteSet(P) /\ Cardinality(P) \in Nat
  BY FS_Subset, FS_CardinalityType

LEMMA InitIInv == Init => IInv
<1> SUFFICES ASSUME Init PROVE IInv
  OBVIOUS
<1> USE DEF Init
<1>1. TypeOK
  BY DEF TypeOK, OwnerState, ThreadState
<1>2. Lifecycle
  BY DEF Lifecycle
<1>3. EachTaskOnce
  BY DEF EachTaskOnce, Queued, Held
<1>4. NoLostWakeup /\ NobodySleepsAtShutdown
  BY DEF NoLostWakeup, NobodySleepsAtShutdown, Waiting
<1>5. QED
  BY <1>1, <1>2, <1>3, <1>4 DEF IInv

LEMMA TypeStep == TypeOK /\ Lifecycle /\ [Next]_vars => TypeOK'
<1> SUFFICES ASSUME TypeOK, Lifecycle, [Next]_vars PROVE TypeOK'
  OBVIOUS
<1> USE DEF TypeOK, OwnerState, ThreadState
<1>1. CASE \E w \in Worker : StartThread(w)
  BY <1>1 DEF StartThread
<1>2. CASE Constructed
  BY <1>2 DEF Constructed
<1>3. ASSUME NEW t \in Task, Post(t) PROVE TypeOK'
  BY <1>3, AppendFacts DEF Post, NotifyOne, Waiting
<1>4. CASE \E t \in Task : Get(t)
  BY <1>4 DEF Get
<1>5. CASE GetReturns
  BY <1>5 DEF GetReturns
<1>6. CASE Destroy
  BY <1>6 DEF Destroy, NotifyAll, Waiting
<1>7. CASE Joined
  BY <1>7 DEF Joined
<1>8. ASSUME NEW w \in Worker, Wait(w) \/ Exit(w) \/ SpuriousWakeup(w)
      PROVE  TypeOK'
  BY <1>8 DEF Wait, Exit, SpuriousWakeup
<1>9. ASSUME NEW w \in Worker, Take(w) PROVE TypeOK'
  BY <1>9, TailFacts DEF Take
<1>10. ASSUME NEW w \in Worker, Run(w) PROVE TypeOK'
  BY <1>10 DEF Run
<1>11. CASE UNCHANGED vars
  BY <1>11 DEF vars
<1>12. QED
  BY <1>1, <1>2, <1>3, <1>4, <1>5, <1>6, <1>7, <1>8, <1>9, <1>10, <1>11
     DEF Next, OwnerStep, WorkerStep, Gone

LEMMA LifecycleStep ==
    TypeOK /\ Lifecycle /\ NobodySleepsAtShutdown /\ [Next]_vars
      => Lifecycle' /\ NobodySleepsAtShutdown'
<1> SUFFICES ASSUME TypeOK, Lifecycle, NobodySleepsAtShutdown, [Next]_vars
             PROVE  Lifecycle' /\ NobodySleepsAtShutdown'
  OBVIOUS
<1> USE DEF TypeOK, OwnerState, ThreadState, Lifecycle,
            NobodySleepsAtShutdown, Waiting
<1>1. ASSUME NEW w \in Worker, StartThread(w)
      PROVE  Lifecycle' /\ NobodySleepsAtShutdown'
  BY <1>1 DEF StartThread
<1>2. CASE Constructed
  BY <1>2 DEF Constructed
<1>3. ASSUME NEW t \in Task, Post(t)
      PROVE  Lifecycle' /\ NobodySleepsAtShutdown'
  BY <1>3, AppendFacts DEF Post, NotifyOne
<1>4. ASSUME NEW t \in Task, Get(t)
      PROVE  Lifecycle' /\ NobodySleepsAtShutdown'
  BY <1>4 DEF Get
<1>5. CASE GetReturns
  BY <1>5 DEF GetReturns
<1>6. CASE Destroy
  BY <1>6 DEF Destroy, NotifyAll
<1>7. CASE Joined
  BY <1>7 DEF Joined
<1>8. ASSUME NEW w \in Worker, Wait(w)
      PROVE  Lifecycle' /\ NobodySleepsAtShutdown'
  BY <1>8 DEF Wait
<1>9. ASSUME NEW w \in Worker, Exit(w)
      PROVE  Lifecycle' /\ NobodySleepsAtShutdown'
  BY <1>9 DEF Exit
<1>10. ASSUME NEW w \in Worker, Take(w)
       PROVE  Lifecycle' /\ NobodySleepsAtShutdown'
  BY <1>10, TailFacts DEF Take
<1>11. ASSUME NEW w \in Worker, Run(w)
       PROVE  Lifecycle' /\ NobodySleepsAtShutdown'
  BY <1>11 DEF Run
<1>12. ASSUME NEW w \in Worker, SpuriousWakeup(w)
       PROVE  Lifecycle' /\ NobodySleepsAtShutdown'
  BY <1>12 DEF SpuriousWakeup
<1>13. CASE UNCHANGED vars
  BY <1>13 DEF vars
<1>14. QED
  BY <1>1, <1>2, <1>3, <1>4, <1>5, <1>6, <1>7, <1>8, <1>9, <1>10, <1>11,
     <1>12, <1>13
     DEF Next, OwnerStep, WorkerStep, Gone

(* Where the tasks are after each step: Post puts a new one in the list,   *)
(* Take moves the first of the list into a worker's hands, Run takes it    *)
(* out of them; nothing else moves a task.                                 *)
LEMMA EachTaskOnceStep ==
    TypeOK /\ Lifecycle /\ EachTaskOnce /\ [Next]_vars => EachTaskOnce'
<1> SUFFICES ASSUME TypeOK, Lifecycle, EachTaskOnce, [Next]_vars
             PROVE  EachTaskOnce'
  OBVIOUS
<1>1. ASSUME UNCHANGED <<jobs, front, future>> PROVE EachTaskOnce'
  BY <1>1 DEF EachTaskOnce, Queued, Held
<1>2. ASSUME NEW t \in Task, Post(t) PROVE EachTaskOnce'
  <2>1. /\ front' = front
        /\ future' = [future EXCEPT ![t] = "pending"]
        /\ future[t] = "none"
        /\ jobs' = Append(jobs, t)
    BY <1>2 DEF Post
  <2>2. jobs \in Seq(Task) /\ future \in [Task -> {"none", "pending", "ready"}]
    BY DEF TypeOK
  <2>3. ~Queued(t) /\ ~Held(t)
    BY <2>1 DEF EachTaskOnce
  <2>4. \A u \in Task : Queued(u)' <=> Queued(u) \/ u = t
    BY <2>1, <2>2, AppendFacts DEF Queued
  <2>5. \A u \in Task : Held(u)' <=> Held(u)
    BY <2>1 DEF Held
  <2>6. \A i, j \in DOMAIN jobs' : jobs'[i] = jobs'[j] => i = j
    BY <2>1, <2>2, <2>3, AppendFacts DEF EachTaskOnce, Queued
  <2>7. QED
    BY <2>1, <2>2, <2>3, <2>4, <2>5, <2>6 DEF EachTaskOnce
<1>3. ASSUME NEW w \in Worker, Take(w) PROVE EachTaskOnce'
  <2>1. /\ jobs # <<>>
        /\ front' = [front EXCEPT ![w] = Head(jobs)]
        /\ jobs' = Tail(jobs)
        /\ future' = future
        /\ threads[w] = "ready"
    BY <1>3 DEF Take
  <2>2. jobs \in Seq(Task) /\ front \in [Worker -> Task \cup {None}]
    BY DEF TypeOK
  <2>3. front[w] = None
    BY <2>1, <2>2 DEF TypeOK
  <2>4. Head(jobs) \in Task /\ Queued(Head(jobs)) /\ ~Held(Head(jobs))
    BY <2>1, <2>2, TailFacts DEF EachTaskOnce, Queued
  <2>5. \A u \in Task : Held(u)' <=> Held(u) \/ u = Head(jobs)
    BY <2>1, <2>2, <2>3, <2>4 DEF Held
  <2>6. \A i \in DOMAIN jobs' : i + 1 \in DOMAIN jobs /\ jobs'[i] = jobs[i + 1]
    BY <2>1, <2>2, TailFacts
  <2>7. \A i \in DOMAIN jobs : i # 1 => i - 1 \in DOMAIN jobs'
                                        /\ jobs'[i - 1] = jobs[i]
    BY <2>1, <2>2, TailFacts
  <2>8. \A i \in DOMAIN jobs : jobs[i] = Head(jobs) => i = 1
    BY <2>1, <2>2, TailFacts DEF EachTaskOnce
  <2>9. \A i \in DOMAIN jobs' : i \in Nat \ {0}
    BY <2>1, <2>2, TailFacts
  <2>10. \A u \in Task : Queued(u)' <=> Queued(u) /\ u # Head(jobs)
    <3>1. ASSUME NEW u \in Task, Queued(u)' PROVE Queued(u) /\ u # Head(jobs)
      <4>1. PICK i \in DOMAIN jobs' : jobs'[i] = u
        BY <3>1 DEF Queued
      <4>2. i + 1 \in DOMAIN jobs /\ jobs[i + 1] = u /\ i + 1 # 1
        BY <4>1, <2>6, <2>9
      <4>3. QED
        BY <4>2, <2>8 DEF Queued
    <3>2. ASSUME NEW u \in Task, Queued(u), u # Head(jobs) PROVE Queued(u)'
      <4>1. PICK i \in DOMAIN jobs : jobs[i] = u
        BY <3>2 DEF Queued
      <4>2. i # 1
        BY <4>1, <3>2, <2>1, <2>2, TailFacts
      <4>3. QED
        BY <4>1, <4>2, <2>7 DEF Queued
    <3>3. QED
      BY <3>1, <3>2
  <2>11. \A i, j \in DOMAIN jobs' : jobs'[i] = jobs'[j] => i = j
    BY <2>6, <2>9 DEF EachTaskOnce
  <2>12. \A v, x \in Worker : front'[v] = front'[x] /\ front'[v] # None => v = x
    BY <2>1, <2>2, <2>4 DEF EachTaskOnce, Held
  <2>13. QED
    BY <2>1, <2>4, <2>5, <2>10, <2>11, <2>12 DEF EachTaskOnce
<1>4. ASSUME NEW w \in Worker, Run(w) PROVE EachTaskOnce'
  <2>1. /\ threads[w] = "busy"
        /\ future' = [future EXCEPT ![front[w]] = "ready"]
        /\ front' = [front EXCEPT ![w] = None]
        /\ jobs' = jobs
    BY <1>4 DEF Run
  <2>2. /\ front \in [Worker -> Task \cup {None}]
        /\ future \in [Task -> {"none", "pending", "ready"}]
    BY DEF TypeOK
  <2>3. front[w] \in Task /\ Held(front[w]) /\ ~Queued(front[w])
    BY <2>1, <2>2 DEF TypeOK, EachTaskOnce, Held
  <2>4. \A u \in Task : Held(u)' <=> Held(u) /\ u # front[w]
    BY <2>1, <2>2, <2>3 DEF Held, EachTaskOnce
  <2>5. \A u \in Task : Queued(u)' <=> Queued(u)
    BY <2>1 DEF Queued
  <2>6. \A v, x \in Worker : front'[v] = front'[x] /\ front'[v] # None => v = x
    BY <2>1, <2>2 DEF EachTaskOnce
  <2>7. QED
    BY <2>1, <2>2, <2>3, <2>4, <2>5, <2>6 DEF EachTaskOnce
<1>5. QED
  BY <1>1, <1>2, <1>3, <1>4
     DEF Next, OwnerStep, WorkerStep, StartThread, Constructed, Get,
         GetReturns, Destroy, Joined, Wait, Exit, SpuriousWakeup, Gone, vars

(* One more ready worker for every job that is added while one sleeps, and *)
(* one job fewer for every ready worker that goes off to run it.           *)
LEMMA NoLostWakeupStep ==
    TypeOK /\ Lifecycle /\ NobodySleepsAtShutdown /\ NoLostWakeup /\ [Next]_vars
      => NoLostWakeup'
<1> SUFFICES ASSUME TypeOK, Lifecycle, NobodySleepsAtShutdown, NoLostWakeup,
                    [Next]_vars
             PROVE  NoLostWakeup'
  OBVIOUS
<1>types. /\ threads \in [Worker -> ThreadState]
          /\ jobs \in Seq(Task)
          /\ Len(jobs) \in Nat
  BY DEF TypeOK
<1>finite. /\ IsFiniteSet(Ready) /\ Cardinality(Ready) \in Nat
           /\ IsFiniteSet(Ready') /\ Cardinality(Ready') \in Nat
  BY WorkerSetsFinite DEF Ready
<1>1. ASSUME UNCHANGED <<threads, jobs>> PROVE NoLostWakeup'
  BY <1>1 DEF NoLostWakeup, Waiting, Ready
<1>2. ASSUME NEW w \in Worker, threads[w] \in {"unborn", "waiting", "busy"},
             threads' = [threads EXCEPT ![w] = "ready"], jobs' = jobs
      PROVE  NoLostWakeup'
  <2>1. Waiting' \subseteq Waiting
    BY <1>2, <1>types DEF Waiting, ThreadState
  <2>2. Ready' = Ready \cup {w} /\ w \notin Ready
    BY <1>2, <1>types DEF Ready, ThreadState
  <2>3. Cardinality(Ready') = Cardinality(Ready) + 1
    BY <2>2, <1>finite, FS_AddElement
  <2>4. QED
    BY <2>1, <2>3, <1>2, <1>types, <1>finite DEF NoLostWakeup
<1>3. ASSUME NEW t \in Task, Post(t) PROVE NoLostWakeup'
  <2>1. Len(jobs') = Len(jobs) + 1
    BY <1>3, <1>types, AppendFacts DEF Post
  <2>2. CASE Waiting = {}
    <3>1. threads' = threads
      BY <1>3, <2>2 DEF Post, NotifyOne
    <3>2. Waiting' = {}
      BY <3>1, <2>2 DEF Waiting
    <3>3. QED
      BY <3>2 DEF NoLostWakeup
  <2>3. CASE Waiting # {}
    <3>1. PICK w \in Waiting : threads' = [threads EXCEPT ![w] = "ready"]
      BY <1>3, <2>3 DEF Post, NotifyOne
    <3>2. Ready' = Ready \cup {w} /\ w \notin Ready
      BY <3>1, <1>types DEF Ready, Waiting, ThreadState
    <3>3. Cardinality(Ready') = Cardinality(Ready) + 1
      BY <3>2, <1>finite, FS_AddElement
    <3>4. QED
      BY <2>1, <2>3, <3>3, <1>types, <1>finite DEF NoLostWakeup
  <2>4. QED
    BY <2>2, <2>3
<1>4. CASE Destroy
  <2>1. Waiting' = {}
    BY <1>4, <1>types DEF Destroy, NotifyAll, Waiting, ThreadState
  <2>2. QED
    BY <2>1 DEF NoLostWakeup
<1>5. ASSUME NEW w \in Worker, Wait(w) \/ Exit(w) PROVE NoLostWakeup'
  <2>1. jobs' = <<>> /\ Len(jobs') = 0
    BY <1>5 DEF Wait, Exit
  <2>2. QED
    BY <2>1, <1>finite DEF NoLostWakeup
<1>6. ASSUME NEW w \in Worker, Take(w) PROVE NoLostWakeup'
  <2>1. Len(jobs') = Len(jobs) - 1
    BY <1>6, <1>types, TailFacts DEF Take
  <2>2. Waiting' = Waiting
    BY <1>6, <1>types DEF Take, Waiting, ThreadState
  <2>3. Ready' = Ready \ {w} /\ w \in Ready
    BY <1>6, <1>types DEF Take, Ready, ThreadState
  <2>4. Cardinality(Ready') = Cardinality(Ready) - 1
    BY <2>3, <1>finite, FS_RemoveElement
  <2>5. QED
    BY <2>1, <2>2, <2>4, <1>types, <1>finite DEF NoLostWakeup
<1>7. QED
  <2>1. ASSUME NEW w \in Worker, StartThread(w) \/ Run(w) \/ SpuriousWakeup(w)
        PROVE  NoLostWakeup'
    BY <2>1, <1>2 DEF StartThread, Run, SpuriousWakeup
  <2>2. QED
    BY <1>1, <1>3, <1>4, <1>5, <1>6, <2>1
       DEF Next, OwnerStep, WorkerStep, Constructed, Get, GetReturns, Joined,
           Gone, vars

(* The inductive invariant holds in every state of the pool. *)
THEOREM Invariance == Spec => []IInv
<1>1. IInv /\ [Next]_vars => IInv'
  BY TypeStep, LifecycleStep, EachTaskOnceStep, NoLostWakeupStep DEF IInv
<1>2. QED
  BY InitIInv, <1>1, PTL DEF Spec

(* Every variable of the pool has its type. *)
THEOREM TypeCorrect == Spec => []TypeOK
<1>1. IInv => TypeOK
  BY DEF IInv
<1>2. QED
  BY <1>1, Invariance, PTL

(* No posted task is dropped, and no two workers run one task. *)
THEOREM TasksNeitherLostNorRepeated == Spec => []EachTaskOnce
<1>1. IInv => EachTaskOnce
  BY DEF IInv
<1>2. QED
  BY <1>1, Invariance, PTL

(* One notify_one per push_back leaves no job waiting behind a sleeper. *)
THEOREM WakeupsSuffice == Spec => []NoLostWakeup
<1>1. IInv => NoLostWakeup
  BY DEF IInv
<1>2. QED
  BY <1>1, Invariance, PTL

(* The destructor's notify_all reaches every sleeper, and none is added.    *)
THEOREM NobodyMissesShutdown == Spec => []NobodySleepsAtShutdown
<1>1. IInv => NobodySleepsAtShutdown
  BY DEF IInv
<1>2. QED
  BY <1>1, Invariance, PTL

(* The destructor returns only when everything that was posted has run. *)
THEOREM DestructorDrains == Spec => []DestroyedIsDrained
<1>1. IInv => DestroyedIsDrained
  BY DEF IInv, TypeOK, Lifecycle, EachTaskOnce, Queued, Held,
         DestroyedIsDrained
<1>2. QED
  BY <1>1, Invariance, PTL

(* Fewer tasks are executing than there are workers while a worker is free.*)
LEMMA FreeSlot ==
    ASSUME TypeOK, Lifecycle, EachTaskOnce, NEW w \in Worker, w \notin Busy
    PROVE  Cardinality({front[v] : v \in Busy}) < Cardinality(Worker)
<1> DEFINE E == {front[v] : v \in Busy}
           holder == [t \in E |-> CHOOSE v \in Busy : front[v] = t]
<1>1. \A t \in E : holder[t] \in Busy /\ front[holder[t]] = t
  OBVIOUS
<1>2. holder \in Injection(E, Busy)
  <2>1. holder \in [E -> Busy]
    BY <1>1
  <2>2. \A t, u \in E : holder[t] = holder[u] => t = u
    BY <1>1
  <2>3. QED
    BY <2>1, <2>2 DEF Injection, IsInjective
<1>3. IsFiniteSet(Busy) /\ Cardinality(Busy) \in Nat
  BY WorkerSetsFinite DEF Busy
<1>4. Cardinality(E) <= Cardinality(Busy) /\ IsFiniteSet(E)
  BY <1>2, <1>3, FS_Injection
<1>5. Busy \in SUBSET Worker /\ Busy # Worker
  BY DEF Busy
<1>6. Cardinality(Worker) \in Nat /\ Cardinality(E) \in Nat
  BY <1>4, FS_CardinalityType
<1>7. Cardinality(Busy) <= Cardinality(Worker) /\ Cardinality(Busy) # Cardinality(Worker)
  BY <1>5, FS_Subset, Zenon
<1>8. QED
  BY <1>3, <1>4, <1>6, <1>7

(* The two instances of FiniteSets count alike. *)
LEMMA SameCardinality == \A S : Promise!Cardinality(S) = Cardinality(S)
  BY DEF Promise!Cardinality, Cardinality

LEMMA InitRefines == Init => Promise!ExecInit
  BY DEF Init, Promise!ExecInit, Busy

LEMMA StepRefines ==
    IInv /\ IInv' /\ [Next]_vars => [Promise!ExecNext]_(Promise!execVars)
<1> DEFINE executing == {front[v] : v \in Busy}
           finished  == {t \in Task : future[t] = "ready"}
           phase     == IF owner = "gone" THEN "left"
                        ELSE IF owner = "joining" THEN "closing"
                        ELSE "open"
<1> SUFFICES ASSUME IInv, IInv', [Next]_vars
             PROVE  Promise!ExecNext \/ UNCHANGED Promise!execVars
  OBVIOUS
<1>types. /\ TypeOK /\ Lifecycle /\ EachTaskOnce
          /\ threads \in [Worker -> ThreadState]
          /\ front \in [Worker -> Task \cup {None}]
          /\ future \in [Task -> {"none", "pending", "ready"}]
          /\ jobs \in Seq(Task)
  BY DEF IInv, TypeOK
<1>busy. \A t \in Task : t \in executing <=> Held(t)
  BY <1>types DEF TypeOK, Busy, Held
<1>1. ASSUME UNCHANGED <<jobs, front, future>>, phase' = phase, Busy' = Busy
      PROVE  UNCHANGED Promise!execVars
  BY <1>1 DEF Promise!execVars
<1>2. ASSUME NEW t \in Task, Post(t) PROVE Promise!Submit(t)
  <2>1. /\ owner = "open" /\ owner' = owner
        /\ future[t] = "none"
        /\ future' = [future EXCEPT ![t] = "pending"]
        /\ jobs' = Append(jobs, t)
        /\ front' = front
    BY <1>2 DEF Post
  <2>2. Busy' = Busy
    BY <1>2, <1>types DEF Post, NotifyOne, Busy, Waiting, ThreadState
  <2>3. executing' = executing /\ finished' = finished
    BY <2>1, <2>2, <1>types
  <2>4. ~Queued(t) /\ ~Held(t)
    BY <2>1, <1>types DEF EachTaskOnce
  <2>5. t \notin Promise!Submitted
    BY <2>1, <2>4, <1>busy DEF Promise!Submitted, Promise!InQueue, Queued
  <2>6. QED
    BY <2>1, <2>3, <2>5 DEF Promise!Submit
<1>3. ASSUME NEW w \in Worker, Take(w) PROVE Promise!Start
  <2>1. /\ threads[w] = "ready"
        /\ jobs # <<>>
        /\ front' = [front EXCEPT ![w] = Head(jobs)]
        /\ jobs' = Tail(jobs)
        /\ threads' = [threads EXCEPT ![w] = "busy"]
        /\ owner' = owner
        /\ future' = future
    BY <1>3 DEF Take
  <2>2. w \notin Busy /\ Busy' = Busy \cup {w}
    BY <2>1, <1>types DEF Busy, ThreadState
  <2>3. executing' = executing \cup {Head(jobs)}
    BY <2>1, <2>2, <1>types
  <2>4. Cardinality(executing) < Cardinality(Worker)
    BY <2>2, <1>types, FreeSlot
  <2>5. QED
    BY <2>1, <2>3, <2>4, SameCardinality DEF Promise!Start
<1>4. ASSUME NEW w \in Worker, Run(w)
      PROVE  \E t \in Task : Promise!Finish(t)
  <2>1. /\ threads[w] = "busy"
        /\ future' = [future EXCEPT ![front[w]] = "ready"]
        /\ front' = [front EXCEPT ![w] = None]
        /\ threads' = [threads EXCEPT ![w] = "ready"]
        /\ owner' = owner
        /\ jobs' = jobs
    BY <1>4 DEF Run
  <2>2. front[w] \in Task /\ front[w] \in executing
    BY <2>1, <1>types DEF TypeOK, Busy
  <2>3. Busy' = Busy \ {w}
    BY <2>1, <1>types DEF Busy, ThreadState
  <2>4. PICK t \in Task : t = front[w]
    BY <2>2
  <2>5. executing' = executing \ {t}
    BY <2>1, <2>2, <2>3, <2>4, <1>types DEF EachTaskOnce, Busy
  <2>6. finished' = finished \cup {t}
    BY <2>1, <2>2, <2>4, <1>types
  <2>7. Promise!Finish(t)
    BY <2>1, <2>2, <2>4, <2>5, <2>6 DEF Promise!Finish
  <2>8. QED
    BY <2>7
<1>5. CASE Destroy
  <2>1. Busy' = Busy
    BY <1>5, <1>types DEF Destroy, NotifyAll, Busy, Waiting, ThreadState
  <2>2. QED
    BY <1>5, <2>1 DEF Destroy, Promise!Close, Promise!ExecNext
<1>6. CASE Joined
  <2>1. Busy' = Busy
    BY <1>6 DEF Joined, Busy
  <2>2. Cardinality(Worker) > 0 => jobs = <<>> /\ executing = {}
    <3>1. ASSUME NEW w \in Worker PROVE jobs = <<>> /\ executing = {}
      BY <1>6, <1>types DEF Joined, Lifecycle, Busy
    <3>2. CASE Worker = {}
      BY <3>2, FS_EmptySet
    <3>3. QED
      BY <3>1, <3>2
  <2>3. QED
    BY <1>6, <2>1, <2>2 DEF Joined, Promise!Leave, Promise!ExecNext
<1>7. ASSUME NEW w \in Worker,
             StartThread(w) \/ Wait(w) \/ Exit(w) \/ SpuriousWakeup(w)
      PROVE  UNCHANGED Promise!execVars
  <2>1. Busy' = Busy
    BY <1>7, <1>types
       DEF StartThread, Wait, Exit, SpuriousWakeup, Busy, ThreadState
  <2>2. QED
    BY <1>1, <1>7, <2>1 DEF StartThread, Wait, Exit, SpuriousWakeup
<1>8. ASSUME Constructed \/ (\E t \in Task : Get(t)) \/ GetReturns
             \/ UNCHANGED vars
      PROVE  UNCHANGED Promise!execVars
  BY <1>1, <1>8 DEF Constructed, Get, GetReturns, vars, Busy
<1>9. ASSUME NEW w \in Worker, WorkerStep(w)
      PROVE  Promise!ExecNext \/ UNCHANGED Promise!execVars
  <2>1. CASE Take(w)
    BY <2>1, <1>3 DEF Promise!ExecNext
  <2>2. CASE Run(w)
    BY <2>2, <1>4 DEF Promise!ExecNext
  <2>3. CASE Wait(w) \/ Exit(w)
    BY <2>3, <1>7
  <2>4. QED
    BY <1>9, <2>1, <2>2, <2>3 DEF WorkerStep
<1>10. ASSUME OwnerStep
       PROVE  Promise!ExecNext \/ UNCHANGED Promise!execVars
  <2>1. ASSUME NEW t \in Task, Post(t) PROVE Promise!ExecNext
    BY <2>1, <1>2 DEF Promise!ExecNext
  <2>2. QED
    BY <2>1, <1>5, <1>6, <1>7, <1>8, <1>10 DEF OwnerStep
<1>11. QED
  BY <1>7, <1>8, <1>9, <1>10 DEF Next, Gone

(* The pool with its mutex, condition variable and workers implements what *)
(* Executor promises: first in, first started; at most one task per        *)
(* worker; each task once; and leaving waits for all of them.              *)
THEOREM PoolImplementsExecutor == Spec => ImplementsExecutor
<1>1. QED
  BY InitRefines, StepRefines, Invariance, PTL
     DEF Spec, ImplementsExecutor, Promise!ExecSpec
=============================================================================
