------------------------------ MODULE Executor ------------------------------
(***************************************************************************)
(* What the thread pool of files/stripper promises to the code that posts  *)
(* to it, with no threads, mutex or condition variable in sight: tasks are *)
(* started in the order they were submitted, at most Size of them run at   *)
(* once, each runs once, and leaving the pool waits for all of them.       *)
(***************************************************************************)
EXTENDS Naturals, Sequences, FiniteSets

CONSTANTS Task,     \* what may be submitted, each at most once
          Size      \* how many tasks may execute at once

VARIABLES queue,      \* submitted, not started: a sequence, oldest first
          executing,  \* started, not finished
          finished,   \* the task has returned or thrown
          phase       \* "open", "closing" (no more submissions) or "left"

execVars == <<queue, executing, finished, phase>>

InQueue(t) == \E i \in DOMAIN queue : queue[i] = t
Submitted  == {t \in Task : InQueue(t)} \cup executing \cup finished

ExecInit ==
    /\ queue = <<>>
    /\ executing = {}
    /\ finished = {}
    /\ phase = "open"

Submit(t) ==
    /\ phase = "open"
    /\ t \notin Submitted
    /\ queue' = Append(queue, t)
    /\ UNCHANGED <<executing, finished, phase>>

(* The oldest submitted task starts, when a slot is free. *)
Start ==
    /\ queue # <<>>
    /\ Cardinality(executing) < Size
    /\ executing' = executing \cup {Head(queue)}
    /\ queue' = Tail(queue)
    /\ UNCHANGED <<finished, phase>>

Finish(t) ==
    /\ t \in executing
    /\ executing' = executing \ {t}
    /\ finished' = finished \cup {t}
    /\ UNCHANGED <<queue, phase>>

Close ==
    /\ phase = "open"
    /\ phase' = "closing"
    /\ UNCHANGED <<queue, executing, finished>>

(* Only a pool without slots may be left with tasks nobody ran. *)
Leave ==
    /\ phase = "closing"
    /\ Size > 0 => queue = <<>> /\ executing = {}
    /\ phase' = "left"
    /\ UNCHANGED <<queue, executing, finished>>

ExecNext ==
    \/ \E t \in Task : Submit(t) \/ Finish(t)
    \/ Start
    \/ Close
    \/ Leave

ExecSpec == ExecInit /\ [][ExecNext]_execVars

(* The same promise with progress: a pool with slots starts what it was    *)
(* given, finishes what it started, and lets its owner leave.              *)
ExecFairSpec ==
    /\ ExecSpec
    /\ WF_execVars(Start)
    /\ \A t \in Task : WF_execVars(Finish(t))
    /\ WF_execVars(Leave)
=============================================================================
