---------------------------- MODULE StripperProofs -----------------------------
(***************************************************************************)
(* Proofs about Stripper for every tree of files, every set of             *)
(* architectures and every size of the pool.                               *)
(***************************************************************************)
EXTENDS Stripper, FiniteSetTheorems, SequenceTheorems, TLAPS

(* The steps that each kind of task has, and what its future may hold.     *)
Steps(t) ==
    CASE t[1] = "preprocess" -> {"inspect", "debugedit", "decompress"}
      [] t[1] = "dwz"        -> {"dwz"}
      [] t[1] = "copy"       -> {"copy"}
      [] t[1] = "strip"      -> {"symbols", "unlock_minidebug", "minidebug", "restore_minidebug",
                                 "keep_debug", "unlock_strip", "strip", "debuglink", "compress",
                                 "restore_strip"}
Results(t) == IF t[1] = "preprocess" THEN {"value", "null", "error"} ELSE {"value", "error"}

(* A task is posted once, and its future is pending until it has returned. *)
InQueue(t) == Pool!InQueue(t)
TaskOK(t) ==
    /\ future[t] \in {"none", "pending"} \cup Results(t)
    /\ future[t] = "pending" <=> InQueue(t) \/ t \in executing
    /\ ~ (InQueue(t) /\ t \in executing)
    /\ t \in finished => future[t] \in Results(t)
    /\ t \in executing => pc[t] \in Steps(t)
Distinct == \A i, j \in DOMAIN queue : queue[i] = queue[j] => i = j
PoolOK   == Distinct /\ \A t \in Task : TaskOK(t)

(* What preprocess_file lets pass has no other name.                       *)
Unique(f) == \A g \in File : Ino(g) = Ino(f) => g = f
Result(f) == future[Preprocess(f)]
ClassOK(f) ==
    /\ Result(f) = "value" \/ pc[Preprocess(f)] \in {"debugedit", "decompress"} =>
          Unique(f) /\ Node(f).kind = "elf"
    /\ pc[Preprocess(f)] = "decompress" => input.optimize /\ input.compress
    /\ Result(f) = "null" => Node(f).kind \in {"data", "stripped"}

(* The members that classify fills.                                        *)
Found(lists) == {f \in File : \E a \in Arch : f \in lists[a]}
MembersOK ==
    /\ byArch = [a \in Arch |-> {f \in Found(byArch) : Node(f).arch = a}]
    /\ sourceFiles = UNION {input.sources[f] : f \in Found(byArch)}
    /\ main = "classify" => Found(byArch) = {}
    /\ main # "classify" => Found(byArch) = {f \in File : Result(f) = "value"}

(* The main thread is where it is because the futures are what they are.   *)
DwzDone   == \A a \in Arch : future[Dwz(a)] = IF input.optimize /\ byArch[a] # {}
                                              THEN "value" ELSE "none"
StripsDone == \A f \in File : future[StripTask(f)] = IF f \in Found(byArch) THEN "value" ELSE "none"
Classified == \A f \in File : Settled(Preprocess(f))
NoErrors   == \A f \in File : Result(f) # "error"
MainOK ==
    /\ main # "classify" => Classified
    /\ main \in {"classify", "post_copy"} =>
          future[Copy] = "none" /\ \A a \in Arch : future[Dwz(a)] = "none"
    /\ main \in {"classify", "post_copy", "run_opt"} => \A f \in File : future[StripTask(f)] = "none"
    /\ main \in {"post_copy", "run_opt", "strip", "get_copy"} => NoErrors
    /\ main = "run_opt" => input.optimize
    /\ main \in {"strip", "get_copy"} => DwzDone
    /\ main = "get_copy" => StripsDone
    /\ main \in {"classify", "post_copy", "run_opt", "strip", "get_copy"} <=> verdict = "none"
    /\ verdict = "true" => NoErrors /\ DwzDone /\ StripsDone /\ future[Copy] = "value"
    /\ status = "success" => verdict = "true"
    /\ \A a \in Arch : future[Dwz(a)] # "none" => input.optimize /\ byArch[a] # {}
    /\ \A f \in File : future[StripTask(f)] # "none" => f \in Found(byArch) /\ DwzDone

Flow == TypeOK /\ PoolOK /\ MembersOK /\ MainOK /\ \A f \in File : ClassOK(f)

(* What has been done to the files, when no tool was killed.               *)
NoKilledTool == "signal" \notin ToolOutcome
Required  == {"kept", "debugedit"} \cup (IF input.optimize THEN {"dwz"} ELSE {})
Prepared  == {"debugedit"} \cup (IF input.optimize /\ input.compress THEN {"decompress"} ELSE {})
StepOf(f) == pc[StripTask(f)]
Done(f)   == done[Ino(f)]
Unlocked  == {"minidebug", "restore_minidebug", "strip", "debuglink", "compress", "restore_strip"}
PrepOK(f) ==
    /\ Result(f) = "value" => Prepared \subseteq Done(f)
    /\ pc[Preprocess(f)] = "decompress" => "debugedit" \in Done(f)
OptOK(f) == \A a \in Arch : future[Dwz(a)] = "value" /\ f \in byArch[a] => "dwz" \in Done(f)
StripOK(f) ==
    /\ StepOf(f) \notin {"none", "symbols", "unlock_minidebug", "minidebug"} => "minidebug" \in Done(f)
    /\ StepOf(f) \in {"debuglink", "compress", "restore_strip"} => "strip" \in Done(f)
    /\ StepOf(f) \in {"compress", "restore_strip"} => "debuglink" \in Done(f)
    /\ StepOf(f) = "restore_strip" /\ input.compress => "compressed" \in debug[f]
    /\ StepOf(f) \in {"unlock_strip", "strip"} \/ "strip" \in Done(f) => Required \subseteq debug[f]
    /\ StepOf(f) \in Unlocked => saved[f] = "original"
    /\ mode[Ino(f)] = "original" \/ StepOf(f) \in Unlocked \/ future[StripTask(f)] = "error"
    /\ future[StripTask(f)] = "value" =>
          /\ {"minidebug", "strip", "debuglink"} \subseteq Done(f)
          /\ input.compress => "compressed" \in debug[f]
CopyOK ==
    /\ visited \cap input.present \subseteq installed
    /\ future[Copy] = "value" => sourceFiles \subseteq visited

Work == /\ \A f \in File : PrepOK(f) /\ OptOK(f) /\ StripOK(f)
        /\ \A i \in Inode : done[i] \subseteq Stages
        /\ CopyOK
-----------------------------------------------------------------------------
(* The tasks are told apart by their kind and what they are for.           *)
LEMMA Kinds ==
    /\ \A f \in File : Preprocess(f) \in Task /\ StripTask(f) \in Task
    /\ \A a \in Arch : Dwz(a) \in Task
    /\ Copy \in Task
    /\ \A t \in Task : \/ \E f \in File : t = Preprocess(f) \/ t = StripTask(f)
                       \/ \E a \in Arch : t = Dwz(a)
                       \/ t = Copy
    /\ \A f, g \in File : Preprocess(f) = Preprocess(g) => f = g
    /\ \A f, g \in File : StripTask(f) = StripTask(g) => f = g
    /\ \A f, g \in File : Preprocess(f) # StripTask(g)
    /\ \A f \in File, a \in Arch : Dwz(a) # Preprocess(f) /\ Dwz(a) # StripTask(f)
    /\ \A a, b \in Arch : Dwz(a) = Dwz(b) => a = b
    /\ \A f \in File : Copy # Preprocess(f) /\ Copy # StripTask(f)
    /\ \A a \in Arch : Copy # Dwz(a)
<1>1. \A f \in File : Preprocess(f) \in Task /\ StripTask(f) \in Task
  BY DEF Task
<1>2. (\A a \in Arch : Dwz(a) \in Task) /\ Copy \in Task
  BY DEF Task
<1>3. \A t \in Task : \/ \E f \in File : t = Preprocess(f) \/ t = StripTask(f)
                      \/ \E a \in Arch : t = Dwz(a)
                      \/ t = Copy
  <2> TAKE t \in Task
  <2>1. CASE t \in {Preprocess(f) : f \in File} \cup {StripTask(f) : f \in File}
    BY <2>1
  <2>2. CASE t \in {Dwz(a) : a \in Arch}
    BY <2>2
  <2>3. CASE t = Copy
    BY <2>3
  <2>4. QED
    BY <2>1, <2>2, <2>3 DEF Task
<1>4. /\ \A f, g \in File : Preprocess(f) = Preprocess(g) => f = g
      /\ \A f, g \in File : StripTask(f) = StripTask(g) => f = g
      /\ \A f, g \in File : Preprocess(f) # StripTask(g)
  BY DEF Preprocess, StripTask
<1>5. \A f \in File, a \in Arch : Dwz(a) # Preprocess(f) /\ Dwz(a) # StripTask(f)
  BY DEF Preprocess, StripTask, Dwz
<1>6. \A a, b \in Arch : Dwz(a) = Dwz(b) => a = b
  BY DEF Dwz
<1>7. \A f \in File : Copy # Preprocess(f) /\ Copy # StripTask(f)
  BY DEF Preprocess, StripTask, Copy
<1>8. \A a \in Arch : Copy # Dwz(a)
  BY DEF Dwz, Copy
<1>9. QED
  BY <1>1, <1>2, <1>3, <1>4, <1>5, <1>6, <1>7, <1>8

LEMMA KindSteps ==
    /\ \A f \in File : Steps(Preprocess(f)) = {"inspect", "debugedit", "decompress"}
    /\ \A a \in Arch : Steps(Dwz(a)) = {"dwz"}
    /\ Steps(Copy) = {"copy"}
    /\ \A f \in File : Steps(StripTask(f)) =
          {"symbols", "unlock_minidebug", "minidebug", "restore_minidebug", "keep_debug",
           "unlock_strip", "strip", "debuglink", "compress", "restore_strip"}
  BY DEF Steps, Preprocess, StripTask, Dwz, Copy

LEMMA KindResults ==
    /\ \A f \in File : Results(Preprocess(f)) = {"value", "null", "error"}
    /\ \A a \in Arch : Results(Dwz(a)) = {"value", "error"}
    /\ Results(Copy) = {"value", "error"}
    /\ \A f \in File : Results(StripTask(f)) = {"value", "error"}
  BY DEF Results, Preprocess, StripTask, Dwz, Copy

LEMMA FirstSteps ==
    /\ \A f \in File : FirstStep(Preprocess(f)) = "inspect" /\ FirstStep(StripTask(f)) = "symbols"
    /\ \A a \in Arch : FirstStep(Dwz(a)) = "dwz"
    /\ FirstStep(Copy) = "copy"
  BY DEF FirstStep, Preprocess, StripTask, Dwz, Copy

LEMMA StepsOfTasks ==
    \A t \in Task : /\ Steps(t) \subseteq Step /\ FirstStep(t) \in Steps(t)
                    /\ Results(t) \subseteq {"value", "null", "error"}
<1>1. ASSUME NEW f \in File
      PROVE  /\ Steps(Preprocess(f)) \subseteq Step
             /\ FirstStep(Preprocess(f)) \in Steps(Preprocess(f))
             /\ Results(Preprocess(f)) \subseteq {"value", "null", "error"}
             /\ Steps(StripTask(f)) \subseteq Step
             /\ FirstStep(StripTask(f)) \in Steps(StripTask(f))
             /\ Results(StripTask(f)) \subseteq {"value", "null", "error"}
  BY KindSteps, KindResults, FirstSteps DEF Step
<1>2. ASSUME NEW a \in Arch
      PROVE  /\ Steps(Dwz(a)) \subseteq Step /\ FirstStep(Dwz(a)) \in Steps(Dwz(a))
             /\ Results(Dwz(a)) \subseteq {"value", "null", "error"}
  BY KindSteps, KindResults, FirstSteps DEF Step
<1>3. /\ Steps(Copy) \subseteq Step /\ FirstStep(Copy) \in Steps(Copy)
      /\ Results(Copy) \subseteq {"value", "null", "error"}
  BY KindSteps, KindResults, FirstSteps DEF Step
<1>4. QED
  BY <1>1, <1>2, <1>3, Kinds

LEMMA InputFacts ==
    ASSUME TypeOK
    PROVE  \A f \in File : /\ Ino(f) \in Inode /\ Node(f).arch \in Arch /\ Node(f).kind \in Kind
                           /\ Node(f).writable \in BOOLEAN /\ input.sources[f] \subseteq Source
  BY InputsAssumption DEF TypeOK, Input, Ino, Node

(* A file whose link count is 1 has its inode for itself.                  *)
LEMMA NlinkFacts ==
    ASSUME NEW f \in File
    PROVE  /\ Nlink(f) \in Nat \ {0}
           /\ Nlink(f) = 1 => Unique(f)
<1> DEFINE names == {g \in File : Ino(g) = Ino(f)}
<1>1. IsFiniteSet(names)
  BY FileAssumption, FS_Subset
<1>2. f \in names
  OBVIOUS
<1>3. Nlink(f) \in Nat \ {0}
  BY <1>1, <1>2, FS_CardinalityType, FS_EmptySet DEF Nlink
<1>4. ASSUME Nlink(f) = 1 PROVE Unique(f)
  <2>1. PICK x : names = {x}
    BY <1>1, <1>4, FS_Singleton DEF Nlink
  <2>2. QED
    BY <1>2, <2>1 DEF Unique
<1>5. QED
  BY <1>3, <1>4
-----------------------------------------------------------------------------
(***************************************************************************)
(* What happens to a task.                                                 *)
(***************************************************************************)
LEMMA AppendFacts ==
    ASSUME NEW S, NEW s \in Seq(S), NEW x \in S
    PROVE  /\ Append(s, x) \in Seq(S) /\ Len(s) \in Nat
           /\ DOMAIN s = 1 .. Len(s) /\ DOMAIN Append(s, x) = 1 .. Len(s) + 1
           /\ \A i \in 1 .. Len(s) : Append(s, x)[i] = s[i]
           /\ Append(s, x)[Len(s) + 1] = x
  OBVIOUS

LEMMA TailFacts ==
    ASSUME NEW S, NEW s \in Seq(S), s # <<>>
    PROVE  /\ Head(s) \in S /\ Head(s) = s[1] /\ Tail(s) \in Seq(S)
           /\ Len(s) \in Nat \ {0} /\ DOMAIN s = 1 .. Len(s)
           /\ DOMAIN Tail(s) = 1 .. Len(s) - 1
           /\ \A i \in 1 .. Len(s) - 1 : Tail(s)[i] = s[i + 1]
  OBVIOUS

(* It is posted: the newest in the queue.                                  *)
LEMMA PostFacts ==
    ASSUME TypeOK, PoolOK, NEW t \in Task, future[t] = "none", Post(t)
    PROVE  /\ PoolOK' /\ queue' \in Seq(Task)
           /\ future' \in [Task -> {"none", "pending", "value", "null", "error"}]
           /\ future'[t] = "pending" /\ \A u \in Task : u # t => future'[u] = future[u]
<1>1. /\ queue \in Seq(Task) /\ queue' = Append(queue, t)
      /\ executing' = executing /\ finished' = finished /\ pc' = pc
      /\ future' = [future EXCEPT ![t] = "pending"]
      /\ future \in [Task -> {"none", "pending", "value", "null", "error"}]
  BY DEF TypeOK, Post, Pool!Submit
<1>2. /\ queue' \in Seq(Task) /\ future'[t] = "pending"
      /\ future' \in [Task -> {"none", "pending", "value", "null", "error"}]
      /\ \A u \in Task : u # t => future'[u] = future[u]
  BY <1>1, AppendFacts
<1>3. /\ DOMAIN queue = 1 .. Len(queue) /\ DOMAIN queue' = 1 .. Len(queue) + 1
      /\ Len(queue) \in Nat /\ queue'[Len(queue) + 1] = t
      /\ \A i \in 1 .. Len(queue) : queue'[i] = queue[i]
  BY <1>1, AppendFacts
<1>4. \A u \in Task : InQueue(u)' <=> InQueue(u) \/ u = t
  BY <1>3 DEF InQueue, Pool!InQueue
<1>5. TaskOK(t) /\ "none" \notin Results(t)
  BY StepsOfTasks DEF PoolOK
<1>6. ~ InQueue(t) /\ t \notin executing /\ t \notin finished
  BY <1>5 DEF TaskOK
<1>7. TaskOK(t)'
  BY <1>1, <1>2, <1>4, <1>6 DEF TaskOK
<1>8. \A u \in Task : u # t => TaskOK(u)'
  BY <1>1, <1>2, <1>4 DEF PoolOK, TaskOK
<1>9. Distinct'
  <2>1. \A i \in 1 .. Len(queue) : queue[i] # t
    BY <1>3, <1>6 DEF InQueue, Pool!InQueue
  <2>2. \A i, j \in 1 .. Len(queue) : queue[i] = queue[j] => i = j
    BY <1>3 DEF PoolOK, Distinct
  <2>3. QED
    BY <1>3, <2>1, <2>2 DEF Distinct
<1>10. QED
  BY <1>2, <1>7, <1>8, <1>9 DEF PoolOK

(* It starts.                                                              *)
LEMMA StartFacts ==
    ASSUME TypeOK, PoolOK, StartTask
    PROVE  /\ PoolOK' /\ queue' \in Seq(Task) /\ executing' \subseteq Task
           /\ pc' \in [Task -> Step \cup {"none"}]
           /\ \A u \in Task : u \in executing' <=> pc'[u] # "none"
           /\ \A u \in Task : pc'[u] = pc[u] \/ pc'[u] = FirstStep(u)
<1>0. PICK t \in Task : t = Head(queue)
  BY TailFacts DEF TypeOK, StartTask, Pool!Start
<1>1. /\ queue \in Seq(Task) /\ queue # <<>> /\ queue' = Tail(queue)
      /\ executing' = executing \cup {t} /\ finished' = finished /\ future' = future
      /\ pc' = [pc EXCEPT ![t] = FirstStep(t)] /\ pc \in [Task -> Step \cup {"none"}]
  BY <1>0 DEF TypeOK, StartTask, Pool!Start
<1>2. /\ DOMAIN queue = 1 .. Len(queue) /\ DOMAIN queue' = 1 .. Len(queue) - 1
      /\ Len(queue) \in Nat \ {0} /\ queue' \in Seq(Task) /\ t \in Task /\ t = queue[1]
      /\ \A i \in 1 .. Len(queue) - 1 : queue'[i] = queue[i + 1]
  BY <1>0, <1>1, TailFacts
<1>3. FirstStep(t) \in Steps(t) /\ FirstStep(t) \in Step /\ FirstStep(t) # "none"
  BY <1>2, StepsOfTasks DEF Step
<1>4. /\ pc' \in [Task -> Step \cup {"none"}] /\ pc'[t] = FirstStep(t)
      /\ \A u \in Task : u # t => pc'[u] = pc[u]
  BY <1>1, <1>2, <1>3
<1>5. Distinct
  BY DEF PoolOK
<1>6. Distinct'
  <2>1. ASSUME NEW i \in DOMAIN queue', NEW j \in DOMAIN queue', queue'[i] = queue'[j]
        PROVE  i = j
    <3>1. /\ i + 1 \in DOMAIN queue /\ j + 1 \in DOMAIN queue /\ queue[i + 1] = queue[j + 1]
          /\ i \in Int /\ j \in Int
      BY <1>2, <2>1
    <3>2. i + 1 = j + 1
      BY <1>5, <3>1 DEF Distinct
    <3>3. QED
      BY <3>1, <3>2
  <2>2. QED
    BY <2>1 DEF Distinct
<1>7. \A u \in Task : InQueue(u) <=> InQueue(u)' \/ u = t
  <2>1. ASSUME NEW u \in Task, NEW i \in DOMAIN queue, queue[i] = u, u # t
        PROVE  i - 1 \in DOMAIN queue' /\ queue'[i - 1] = u
    BY <1>2, <2>1
  <2>2. ASSUME NEW u \in Task, NEW i \in DOMAIN queue', queue'[i] = u
        PROVE  i + 1 \in DOMAIN queue /\ queue[i + 1] = u
    BY <1>2, <2>2
  <2>3. 1 \in DOMAIN queue /\ queue[1] = t
    BY <1>2
  <2>4. QED
    BY <2>1, <2>2, <2>3 DEF InQueue, Pool!InQueue
<1>8. ~ InQueue(t)'
  <2>1. \A i \in 1 .. Len(queue) - 1 : queue[i + 1] # queue[1]
    BY <1>2, <1>5 DEF Distinct
  <2>2. QED
    BY <1>2, <2>1 DEF InQueue, Pool!InQueue
<1>9. TaskOK(t)'
  <2>1. TaskOK(t) /\ InQueue(t)
    BY <1>2, <1>7 DEF PoolOK
  <2>2. QED
    BY <1>1, <1>3, <1>4, <1>8, <2>1 DEF TaskOK
<1>10. \A u \in Task : u # t => TaskOK(u)'
  BY <1>1, <1>4, <1>7 DEF PoolOK, TaskOK
<1>11. QED
  BY <1>1, <1>2, <1>3, <1>4, <1>6, <1>9, <1>10 DEF PoolOK, TypeOK

(* It goes on.                                                             *)
LEMMA GotoFacts ==
    ASSUME TypeOK, PoolOK, NEW t \in executing, NEW step \in Steps(t), Goto(t, step)
    PROVE  /\ PoolOK'
           /\ pc' \in [Task -> Step \cup {"none"}]
           /\ \A u \in Task : u \in executing' <=> pc'[u] # "none"
           /\ pc'[t] = step /\ \A u \in Task : u # t => pc'[u] = pc[u]
           /\ UNCHANGED <<future, poolVars>>
<1>1. t \in Task /\ pc \in [Task -> Step \cup {"none"}] /\ pc' = [pc EXCEPT ![t] = step]
  BY DEF TypeOK, Goto
<1>2. step \in Step /\ step # "none"
  BY <1>1, StepsOfTasks DEF Step
<1>3. /\ pc' \in [Task -> Step \cup {"none"}] /\ pc'[t] = step
      /\ \A u \in Task : u # t => pc'[u] = pc[u]
  BY <1>1, <1>2
<1>4. PoolOK'
  BY <1>1, <1>3 DEF Goto, poolVars, PoolOK, Distinct, TaskOK, InQueue, Pool!InQueue
<1>5. QED
  BY <1>1, <1>2, <1>3, <1>4 DEF Goto, poolVars, TypeOK

(* It returns or throws.                                                   *)
LEMMA ReturnFacts ==
    ASSUME TypeOK, PoolOK, NEW t \in executing, NEW value \in Results(t), Return(t, value)
    PROVE  /\ PoolOK' /\ executing' \subseteq Task /\ finished' \subseteq Task
           /\ pc' \in [Task -> Step \cup {"none"}]
           /\ \A u \in Task : u \in executing' <=> pc'[u] # "none"
           /\ pc'[t] = "none" /\ \A u \in Task : u # t => pc'[u] = pc[u]
           /\ future' \in [Task -> {"none", "pending", "value", "null", "error"}]
           /\ future[t] = "pending" /\ future'[t] = value
           /\ \A u \in Task : u # t => future'[u] = future[u]
           /\ queue' = queue /\ phase' = phase
<1>1. /\ t \in Task /\ pc \in [Task -> Step \cup {"none"}] /\ pc' = [pc EXCEPT ![t] = "none"]
      /\ future \in [Task -> {"none", "pending", "value", "null", "error"}]
      /\ future' = [future EXCEPT ![t] = value] /\ executing' = executing \ {t}
      /\ finished' = finished \cup {t} /\ queue' = queue /\ phase' = phase
  BY DEF TypeOK, Return, Pool!Finish
<1>2. value \in {"value", "null", "error"}
  BY <1>1, StepsOfTasks
<1>3. /\ pc' \in [Task -> Step \cup {"none"}] /\ pc'[t] = "none"
      /\ \A u \in Task : u # t => pc'[u] = pc[u]
      /\ future' \in [Task -> {"none", "pending", "value", "null", "error"}]
      /\ future'[t] = value /\ \A u \in Task : u # t => future'[u] = future[u]
  BY <1>1, <1>2
<1>4. TaskOK(t)
  BY <1>1 DEF PoolOK
<1>5. \A u \in Task : InQueue(u)' <=> InQueue(u)
  BY <1>1 DEF InQueue, Pool!InQueue
<1>6. TaskOK(t)'
  BY <1>1, <1>2, <1>3, <1>4, <1>5 DEF TaskOK
<1>7. \A u \in Task : u # t => TaskOK(u)'
  BY <1>1, <1>3, <1>5 DEF PoolOK, TaskOK
<1>8. PoolOK'
  BY <1>1, <1>6, <1>7 DEF PoolOK, Distinct
<1>9. QED
  BY <1>1, <1>3, <1>4, <1>8 DEF TaskOK, TypeOK

(* A step that leaves the futures and the main thread where they are       *)
(* disturbs no more than the types, the pool and preprocess_file.          *)
LEMMA SameFutures ==
    ASSUME Flow, TypeOK', PoolOK', UNCHANGED scriptVars, future' = future,
           \A f \in File : pc'[Preprocess(f)] = pc[Preprocess(f)] \/ ClassOK(f)'
    PROVE  Flow'
<1>1. /\ input' = input /\ main' = main /\ verdict' = verdict /\ status' = status
      /\ byArch' = byArch /\ sourceFiles' = sourceFiles
  BY DEF scriptVars, mainVars, memberVars
<1>2. MembersOK'
  BY <1>1 DEF Flow, MembersOK, Result, Node, Ino
<1>3. MainOK'
  BY <1>1 DEF Flow, MainOK, DwzDone, StripsDone, Classified, NoErrors, Settled, Result
<1>4. \A f \in File : ClassOK(f)'
  BY <1>1 DEF Flow, ClassOK, Result, Unique, Node, Ino
<1>5. QED
  BY <1>2, <1>3, <1>4 DEF Flow

(* A future that was pending and gets its result is none of those that     *)
(* brought the main thread where it is.                                    *)
LEMMA SettlesOne ==
    ASSUME Flow, NEW t \in Task, TypeOK', PoolOK', UNCHANGED scriptVars,
           future[t] = "pending", future'[t] \notin {"none", "pending"},
           \A u \in Task : u # t => future'[u] = future[u],
           \A f \in File : \/ Preprocess(f) # t /\ pc'[Preprocess(f)] = pc[Preprocess(f)]
                           \/ ClassOK(f)'
    PROVE  Flow'
<1>1. /\ input' = input /\ main' = main /\ verdict' = verdict /\ status' = status
      /\ byArch' = byArch /\ sourceFiles' = sourceFiles
  BY DEF scriptVars, mainVars, memberVars
<1>2. main # "classify" => \A f \in File : Preprocess(f) # t
  BY DEF Flow, MainOK, Classified, Settled
<1>3. \A f \in File : Preprocess(f) # t => Result(f)' = Result(f)
  BY Kinds DEF Result
<1>4. MembersOK'
  <2>1. CASE main = "classify"
    BY <1>1, <2>1 DEF Flow, MembersOK, Node, Ino
  <2>2. CASE main # "classify"
    BY <1>1, <1>2, <1>3, <2>2 DEF Flow, MembersOK, Node, Ino
  <2>3. QED
    BY <2>1, <2>2
<1>5. DwzDone => DwzDone' /\ \A a \in Arch : Dwz(a) # t
  BY <1>1, Kinds DEF DwzDone
<1>6. StripsDone => StripsDone' /\ \A f \in File : StripTask(f) # t
  BY <1>1, Kinds DEF StripsDone
<1>7. main # "classify" => Classified' /\ (NoErrors => NoErrors')
  BY <1>2, <1>3, Kinds DEF Flow, MainOK, Classified, Settled, NoErrors, Result
<1>8. \A u \in Task : future[u] \in {"none", "value"} => future'[u] = future[u]
  OBVIOUS
<1>9. \A u \in Task : future'[u] # "none" => future[u] # "none"
  OBVIOUS
<1>10. MainOK'
  BY <1>1, <1>5, <1>6, <1>7, <1>8, <1>9, Kinds DEF Flow, MainOK
<1>11. \A f \in File : ClassOK(f)'
  BY <1>1, <1>3 DEF Flow, ClassOK, Unique, Node, Ino
<1>12. QED
  BY <1>4, <1>10, <1>11 DEF Flow

(* What the tools and the copying of sources change.                       *)
DiskTyped == /\ done \in [Inode -> SUBSET Stage] /\ mode \in [Inode -> {"original", "forced"}]
             /\ saved \in [File -> {"original", "forced"}]
             /\ debug \in [File -> SUBSET (Stage \cup {"kept", "compressed"})]
             /\ visited \subseteq Source /\ installed \subseteq Source

LEMMA MarkTyped ==
    ASSUME TypeOK, NEW inodes, NEW stage \in Stage, NEW o, Mark(inodes, stage, o),
           UNCHANGED <<mode, saved, debug, visited, installed>>
    PROVE  DiskTyped'
  BY DEF TypeOK, Mark, DiskTyped

LEMMA SameDisk == TypeOK /\ UNCHANGED diskVars => DiskTyped'
  BY DEF TypeOK, diskVars, DiskTyped

(* A task goes on, or ends, and what it does besides leaves types alone.   *)
LEMMA GoesOn ==
    ASSUME Flow, NEW t \in executing, NEW step \in Steps(t), Goto(t, step), DiskTyped',
           UNCHANGED scriptVars,
           \A f \in File : Preprocess(f) = t => ClassOK(f)'
    PROVE  Flow'
<1>1. /\ PoolOK' /\ UNCHANGED <<future, poolVars>>
      /\ pc' \in [Task -> Step \cup {"none"}]
      /\ \A u \in Task : u \in executing' <=> pc'[u] # "none"
      /\ \A u \in Task : u # t => pc'[u] = pc[u]
  BY GotoFacts DEF Flow
<1>2. TypeOK'
  BY <1>1 DEF Flow, TypeOK, DiskTyped, scriptVars, mainVars, memberVars, poolVars
<1>3. QED
  BY <1>1, <1>2, SameFutures, Kinds

LEMMA Ends ==
    ASSUME Flow, NEW t \in executing, NEW value \in Results(t), Return(t, value), DiskTyped',
           UNCHANGED scriptVars,
           \A f \in File : Preprocess(f) = t => ClassOK(f)'
    PROVE  Flow'
<1>1. /\ PoolOK' /\ executing' \subseteq Task /\ finished' \subseteq Task
      /\ pc' \in [Task -> Step \cup {"none"}]
      /\ \A u \in Task : u \in executing' <=> pc'[u] # "none"
      /\ future' \in [Task -> {"none", "pending", "value", "null", "error"}]
      /\ future[t] = "pending" /\ future'[t] = value /\ t \in Task
      /\ \A u \in Task : u # t => pc'[u] = pc[u] /\ future'[u] = future[u]
      /\ queue' = queue /\ phase' = phase
  BY ReturnFacts DEF Flow, TypeOK
<1>2. value \notin {"none", "pending"}
  BY <1>1, StepsOfTasks
<1>3. TypeOK'
  BY <1>1 DEF Flow, TypeOK, DiskTyped, scriptVars, mainVars, memberVars
<1>4. QED
  BY <1>1, <1>2, <1>3, SettlesOne, Kinds

(* Of a task that is not preprocess_file's, that is all there is to say.   *)
LEMMA OtherTask ==
    ASSUME Flow, NEW t \in executing, \A f \in File : Preprocess(f) # t,
           DiskTyped', UNCHANGED scriptVars,
           \/ \E step \in Steps(t) : Goto(t, step)
           \/ Return(t, "value") \/ Throw(t)
    PROVE  Flow'
<1>1. t \in Task
  BY DEF Flow, TypeOK
<1>2. "value" \in Results(t) /\ "error" \in Results(t)
  BY DEF Results
<1>3. QED
  BY <1>2, GoesOn, Ends DEF Throw
-----------------------------------------------------------------------------
(***************************************************************************)
(* The tasks' steps.                                                       *)
(***************************************************************************)
LEMMA InspectFlow ==
    ASSUME Flow, NEW f \in File, Inspect(f) PROVE Flow'
<1> DEFINE t == Preprocess(f)
<1>1. /\ t \in executing /\ UNCHANGED scriptVars /\ DiskTyped' /\ input' = input
      /\ TypeOK /\ PoolOK /\ ClassOK(f)
  BY SameDisk DEF Inspect, At, Flow, scriptVars
<1>2. /\ Results(t) = {"value", "null", "error"}
      /\ Steps(t) = {"inspect", "debugedit", "decompress"}
  BY KindSteps, KindResults
<1>3. \A g \in File : Preprocess(g) = t => g = f
  BY Kinds
<1>4. Node(f)' = Node(f) /\ Unique(f)' = Unique(f)
  BY <1>1 DEF Node, Ino, Unique
<1>5. CASE Throw(t)
  <2>1. pc'[t] = "none" /\ future'[t] = "error"
    BY <1>1, <1>2, <1>5, ReturnFacts DEF Throw
  <2>2. ClassOK(f)'
    BY <2>1 DEF ClassOK, Result
  <2>3. QED
    BY <1>1, <1>2, <1>3, <1>5, <2>2, Ends DEF Throw
<1>6. CASE Return(t, "null") /\ Node(f).kind \in {"data", "stripped"}
  <2>1. pc'[t] = "none" /\ future'[t] = "null"
    BY <1>1, <1>2, <1>6, ReturnFacts
  <2>2. ClassOK(f)'
    BY <1>4, <1>6, <2>1 DEF ClassOK, Result
  <2>3. QED
    BY <1>1, <1>2, <1>3, <1>6, <2>2, Ends
<1>7. CASE Goto(t, "debugedit") /\ Node(f).kind = "elf" /\ Nlink(f) = 1
  <2>1. pc'[t] = "debugedit" /\ future' = future
    BY <1>1, <1>2, <1>7, GotoFacts
  <2>2. Unique(f)
    BY <1>7, NlinkFacts
  <2>3. Result(f)' = "pending"
    BY <1>1, <2>1, Kinds DEF Result, PoolOK, TaskOK
  <2>4. ClassOK(f)'
    BY <1>4, <1>7, <2>1, <2>2, <2>3 DEF ClassOK, Result
  <2>5. QED
    BY <1>1, <1>2, <1>3, <1>7, <2>4, GoesOn
<1>8. Node(f).kind \in {"data", "stripped", "broken", "elf"}
  BY <1>1, InputFacts DEF Kind
<1>9. QED
  <2>1. CASE Node(f).kind \in {"data", "stripped"}
    BY <1>6, <2>1 DEF Inspect
  <2>2. CASE Node(f).kind = "broken"
    BY <1>5, <2>2 DEF Inspect
  <2>3. CASE Node(f).kind = "elf" /\ Nlink(f) = 1
    BY <1>7, <2>3 DEF Inspect
  <2>4. CASE Node(f).kind = "elf" /\ Nlink(f) # 1
    <3>1. Nlink(f) > 1
      BY <2>4, NlinkFacts
    <3>2. QED
      BY <1>5, <2>4, <3>1 DEF Inspect
  <2>5. QED
    BY <1>8, <2>1, <2>2, <2>3, <2>4

(* Past its inspection, preprocess_file keeps what it has found.           *)
LEMMA PreprocessEnds ==
    ASSUME Flow, NEW f \in File, Preprocess(f) \in executing, DiskTyped', UNCHANGED scriptVars,
           \/ Throw(Preprocess(f))
           \/ /\ Unique(f) /\ Node(f).kind = "elf"
              /\ \/ Return(Preprocess(f), "value")
                 \/ Goto(Preprocess(f), "decompress") /\ input.optimize /\ input.compress
    PROVE  Flow'
<1> DEFINE t == Preprocess(f)
<1>1. /\ Results(t) = {"value", "null", "error"} /\ TypeOK /\ PoolOK /\ input' = input
      /\ Steps(t) = {"inspect", "debugedit", "decompress"}
      /\ \A g \in File : Preprocess(g) = t => g = f
  BY Kinds, KindSteps, KindResults DEF Flow, scriptVars
<1>2. Node(f)' = Node(f) /\ Unique(f)' = Unique(f)
  BY <1>1 DEF Node, Ino, Unique
<1>3. CASE Throw(t)
  <2>1. pc'[t] = "none" /\ future'[t] = "error"
    BY <1>1, <1>3, ReturnFacts DEF Throw
  <2>2. ClassOK(f)'
    BY <2>1 DEF ClassOK, Result
  <2>3. QED
    BY <1>1, <1>3, <2>2, Ends DEF Throw
<1>4. CASE Return(t, "value") /\ Unique(f) /\ Node(f).kind = "elf"
  <2>1. pc'[t] = "none" /\ future'[t] = "value"
    BY <1>1, <1>4, ReturnFacts
  <2>2. ClassOK(f)'
    BY <1>2, <1>4, <2>1 DEF ClassOK, Result
  <2>3. QED
    BY <1>1, <1>4, <2>2, Ends
<1>5. CASE /\ Goto(t, "decompress") /\ input.optimize /\ input.compress
           /\ Unique(f) /\ Node(f).kind = "elf"
  <2>1. pc'[t] = "decompress" /\ future' = future
    BY <1>1, <1>5, GotoFacts
  <2>2. Result(f)' = "pending"
    BY <1>1, <2>1, Kinds DEF Result, PoolOK, TaskOK
  <2>3. ClassOK(f)'
    BY <1>1, <1>2, <1>5, <2>1, <2>2 DEF ClassOK, Result
  <2>4. QED
    BY <1>1, <1>5, <2>3, GoesOn
<1>6. QED
  BY <1>3, <1>4, <1>5

LEMMA PreprocessFlow ==
    ASSUME Flow, NEW f \in File, NEW o \in ToolOutcome, DebugEdit(f, o) \/ Decompress(f, o)
    PROVE  Flow'
<1>1. /\ Preprocess(f) \in executing /\ UNCHANGED scriptVars
      /\ pc[Preprocess(f)] \in {"debugedit", "decompress"}
  BY DEF DebugEdit, Decompress, AfterTool, At
<1>2. DiskTyped'
  BY MarkTyped DEF DebugEdit, Decompress, Stage, Flow
<1>3. Unique(f) /\ Node(f).kind = "elf"
  BY <1>1 DEF Flow, ClassOK
<1>4. \/ Throw(Preprocess(f)) \/ Return(Preprocess(f), "value")
      \/ Goto(Preprocess(f), "decompress") /\ input.optimize /\ input.compress
  BY DEF DebugEdit, Decompress, AfterTool
<1>5. QED
  BY <1>1, <1>2, <1>3, <1>4, PreprocessEnds

(* The actions of strip_and_compress_file.                                 *)
StripAction(f) ==
    \/ \E o \in ToolOutcome : Symbols(f, o) \/ AddMinidebug(f, o) \/ KeepDebug(f, o)
                            \/ StripSections(f, o) \/ AddDebuglink(f, o) \/ CompressDebug(f, o)
    \/ Unlock(f, "unlock_minidebug", "minidebug")
    \/ Restore(f, "restore_minidebug", Goto(StripTask(f), "keep_debug"))
    \/ Unlock(f, "unlock_strip", "strip")
    \/ Restore(f, "restore_strip", Return(StripTask(f), "value"))

LEMMA StripTaskFlow ==
    ASSUME Flow, NEW f \in File, StripAction(f)
    PROVE  Flow'
<1>1. /\ StripTask(f) \in Task /\ \A g \in File : Preprocess(g) # StripTask(f)
      /\ Steps(StripTask(f)) =
           {"symbols", "unlock_minidebug", "minidebug", "restore_minidebug", "keep_debug",
            "unlock_strip", "strip", "debuglink", "compress", "restore_strip"}
      /\ TypeOK /\ Ino(f) \in Inode
  BY Kinds, KindSteps, InputFacts DEF Flow
<1> DEFINE Moves == /\ StripTask(f) \in executing /\ UNCHANGED scriptVars
                    /\ \/ \E step \in Steps(StripTask(f)) : Goto(StripTask(f), step)
                       \/ Return(StripTask(f), "value") \/ Throw(StripTask(f))
<1>2. Moves
  <2>1. ASSUME NEW o \in ToolOutcome, Symbols(f, o) \/ AddMinidebug(f, o) \/ KeepDebug(f, o)
        PROVE  Moves
    BY <1>1, <2>1 DEF Symbols, AddMinidebug, KeepDebug, AfterTool, At
  <2>2. ASSUME NEW o \in ToolOutcome,
               StripSections(f, o) \/ AddDebuglink(f, o) \/ CompressDebug(f, o)
        PROVE  Moves
    BY <1>1, <2>2 DEF StripSections, AddDebuglink, CompressDebug, AfterTool, At
  <2>3. CASE \/ Unlock(f, "unlock_minidebug", "minidebug") \/ Unlock(f, "unlock_strip", "strip")
    BY <1>1, <2>3 DEF Unlock, At
  <2>4. CASE \/ Restore(f, "restore_minidebug", Goto(StripTask(f), "keep_debug"))
             \/ Restore(f, "restore_strip", Return(StripTask(f), "value"))
    BY <1>1, <2>4 DEF Restore, At
  <2>5. QED
    BY <2>1, <2>2, <2>3, <2>4 DEF StripAction
<1>3. DiskTyped'
  <2>1. ASSUME NEW o \in ToolOutcome,
               AddMinidebug(f, o) \/ StripSections(f, o) \/ AddDebuglink(f, o)
        PROVE  DiskTyped'
    BY <1>1, <2>1, MarkTyped DEF AddMinidebug, StripSections, AddDebuglink, Stage
  <2>2. ASSUME NEW o \in ToolOutcome, Symbols(f, o) PROVE DiskTyped'
    BY <1>1, <2>2, SameDisk DEF Symbols
  <2>3. ASSUME NEW o \in ToolOutcome, KeepDebug(f, o) PROVE DiskTyped'
    <3>1. {"kept"} \cup (done[Ino(f)] \ {"minidebug"}) \in SUBSET (Stage \cup {"kept", "compressed"})
      BY <1>1 DEF TypeOK
    <3>2. debug' \in [File -> SUBSET (Stage \cup {"kept", "compressed"})]
      BY <1>1, <2>3, <3>1 DEF KeepDebug, TypeOK
    <3>3. QED
      BY <1>1, <2>3, <3>2 DEF KeepDebug, TypeOK, DiskTyped
  <2>4. ASSUME NEW o \in ToolOutcome, CompressDebug(f, o) PROVE DiskTyped'
    <3>1. debug' \in [File -> SUBSET (Stage \cup {"kept", "compressed"})]
      BY <1>1, <2>4 DEF CompressDebug, TypeOK
    <3>2. QED
      BY <1>1, <2>4, <3>1 DEF CompressDebug, TypeOK, DiskTyped
  <2>5. CASE \/ Unlock(f, "unlock_minidebug", "minidebug") \/ Unlock(f, "unlock_strip", "strip")
    <3>1. /\ saved' = [saved EXCEPT ![f] = mode[Ino(f)]]
          /\ mode' = [mode EXCEPT ![Ino(f)] = IF Node(f).writable THEN @ ELSE "forced"]
          /\ UNCHANGED <<done, debug, visited, installed>>
      BY <2>5 DEF Unlock
    <3>2. mode[Ino(f)] \in {"original", "forced"}
      BY <1>1 DEF TypeOK
    <3>3. QED
      BY <1>1, <3>1, <3>2 DEF TypeOK, DiskTyped
  <2>6. CASE \/ Restore(f, "restore_minidebug", Goto(StripTask(f), "keep_debug"))
             \/ Restore(f, "restore_strip", Return(StripTask(f), "value"))
    BY <1>1, <2>6 DEF Restore, TypeOK, DiskTyped
  <2>7. QED
    BY <2>1, <2>2, <2>3, <2>4, <2>5, <2>6 DEF StripAction
<1>4. QED
  BY <1>1, <1>2, <1>3, OtherTask

LEMMA DwzFlow ==
    ASSUME Flow, NEW a \in Arch, NEW o \in ToolOutcome, DoOptimize(a, o)
    PROVE  Flow'
<1>1. Dwz(a) \in executing /\ \A f \in File : Preprocess(f) # Dwz(a)
  BY Kinds DEF DoOptimize, AfterTool, At
<1>2. DiskTyped'
  BY MarkTyped, SameDisk DEF DoOptimize, Stage, Flow, diskVars
<1>3. UNCHANGED scriptVars /\ (Return(Dwz(a), "value") \/ Throw(Dwz(a)))
  BY DEF DoOptimize, AfterTool
<1>4. QED
  BY <1>1, <1>2, <1>3, OtherTask

LEMMA CopyFlow ==
    ASSUME Flow, (\E s \in Source : CopyOne(s)) \/ CopyDone
    PROVE  Flow'
<1>1. /\ Copy \in executing /\ UNCHANGED scriptVars /\ \A f \in File : Preprocess(f) # Copy
      /\ Steps(Copy) = {"copy"} /\ TypeOK
  BY Kinds, KindSteps DEF CopyOne, CopyDone, At, Flow
<1>2. DiskTyped'
  BY <1>1, SameDisk DEF CopyOne, CopyDone, TypeOK, DiskTyped
<1>3. Goto(Copy, "copy") \/ Return(Copy, "value") \/ Throw(Copy)
  BY DEF CopyOne, CopyDone
<1>4. QED
  BY <1>1, <1>2, <1>3, OtherTask

LEMMA TaskStepFlow == Flow /\ TaskStep => Flow'
<1>1. ASSUME NEW f \in File, FileStep(f)
      PROVE  \/ Inspect(f) \/ StripAction(f)
             \/ \E o \in ToolOutcome : DebugEdit(f, o) \/ Decompress(f, o)
  BY <1>1 DEF FileStep, StripAction
<1>2. QED
  BY <1>1, InspectFlow, PreprocessFlow, StripTaskFlow, DwzFlow, CopyFlow DEF TaskStep
-----------------------------------------------------------------------------
(***************************************************************************)
(* The main thread's steps.                                                *)
(***************************************************************************)
(* What a step that posts task t leaves alone.                             *)
LEMMA PostsType ==
    ASSUME Flow, NEW t \in Task, Post(t), future[t] = "none",
           main' \in {"classify", "post_copy", "run_opt", "strip", "get_copy"},
           UNCHANGED <<input, verdict, alive, memberVars>>
    PROVE  /\ TypeOK' /\ PoolOK' /\ status' = status /\ pc' = pc
           /\ future'[t] = "pending" /\ \A u \in Task : u # t => future'[u] = future[u]
<1>1. /\ PoolOK' /\ queue' \in Seq(Task) /\ status' = status /\ UNCHANGED diskVars
      /\ executing' = executing /\ finished' = finished /\ phase' = phase /\ pc' = pc
      /\ future' \in [Task -> {"none", "pending", "value", "null", "error"}]
      /\ future'[t] = "pending" /\ \A u \in Task : u # t => future'[u] = future[u]
  BY PostFacts DEF Flow, Post, Pool!Submit
<1>2. TypeOK'
  BY <1>1 DEF Flow, TypeOK, memberVars, diskVars
<1>3. QED
  BY <1>1, <1>2

LEMMA PostPreprocessFlow ==
    ASSUME Flow, NEW f \in File, PostPreprocess(f) PROVE Flow'
<1> DEFINE t == Preprocess(f)
<1>1. /\ t \in Task /\ Post(t) /\ future[t] = "none" /\ main = "classify" /\ main' = main
      /\ UNCHANGED <<input, verdict, alive, memberVars>>
  BY Kinds DEF PostPreprocess, MainAt, mainVars
<1> HIDE DEF t
<1>2. /\ TypeOK' /\ PoolOK' /\ status' = status /\ pc' = pc
      /\ future'[t] = "pending" /\ \A u \in Task : u # t => future'[u] = future[u]
  BY <1>1, PostsType
<1>3. /\ future'[Copy] = future[Copy] /\ \A a \in Arch : future'[Dwz(a)] = future[Dwz(a)]
      /\ \A g \in File : future'[StripTask(g)] = future[StripTask(g)]
      /\ \A g \in File : future'[Preprocess(g)] = future[Preprocess(g)]
                         \/ future'[Preprocess(g)] = "pending"
  BY <1>2, Kinds DEF t
<1>4. MembersOK'
  BY <1>1 DEF Flow, MembersOK, memberVars, Node, Ino
<1>5. MainOK'
  <2>1. verdict = "none" /\ status # "success" /\ verdict' = "none" /\ main' = "classify"
    BY <1>1 DEF Flow, MainOK
  <2>2. QED
    BY <1>1, <1>2, <1>3, <2>1 DEF Flow, MainOK, memberVars
<1>6. \A g \in File : ClassOK(g)'
  BY <1>1, <1>2, <1>3 DEF Flow, ClassOK, Result, Unique, Node, Ino
<1>7. QED
  BY <1>2, <1>4, <1>5, <1>6 DEF Flow

LEMMA PostCopyFlow ==
    ASSUME Flow, PostCopy PROVE Flow'
<1>1. /\ Copy \in Task /\ Post(Copy) /\ future[Copy] = "none" /\ main = "post_copy"
      /\ main' = IF input.optimize THEN "run_opt" ELSE "strip"
      /\ UNCHANGED <<input, verdict, alive, memberVars>>
  BY Kinds DEF PostCopy, MainAt, Go, Flow, MainOK
<1>2. /\ TypeOK' /\ PoolOK' /\ status' = status /\ pc' = pc
      /\ future'[Copy] = "pending" /\ \A u \in Task : u # Copy => future'[u] = future[u]
  BY <1>1, PostsType
<1>3. /\ \A a \in Arch : future'[Dwz(a)] = "none"
      /\ \A g \in File : future'[StripTask(g)] = "none"
      /\ \A g \in File : future'[Preprocess(g)] = future[Preprocess(g)]
  BY <1>1, <1>2, Kinds DEF Flow, MainOK
<1>4. MembersOK'
  BY <1>1, <1>3 DEF Flow, MembersOK, memberVars, Node, Ino, Result
<1>5. MainOK'
  <2>1. verdict = "none" /\ status # "success" /\ Classified /\ NoErrors
    BY <1>1 DEF Flow, MainOK
  <2>2. Classified' /\ NoErrors'
    BY <1>3, <2>1 DEF Classified, NoErrors, Settled, Result
  <2>3. main' = "strip" => DwzDone'
    BY <1>1, <1>3 DEF DwzDone
  <2>4. QED
    BY <1>1, <1>2, <1>3, <2>1, <2>2, <2>3 DEF MainOK
<1>6. \A g \in File : ClassOK(g)'
  BY <1>1, <1>2, <1>3 DEF Flow, ClassOK, Result, Unique, Node, Ino
<1>7. QED
  BY <1>2, <1>4, <1>5, <1>6 DEF Flow

LEMMA PostDwzFlow ==
    ASSUME Flow, NEW a \in Arch, PostDwz(a) PROVE Flow'
<1>1. /\ Dwz(a) \in Task /\ Post(Dwz(a)) /\ main = "run_opt" /\ main' = main
      /\ UNCHANGED <<input, verdict, alive, memberVars>>
  BY Kinds DEF PostDwz, MainAt, mainVars
<1>2. future[Dwz(a)] = "none" /\ byArch[a] # {}
  <2>1. \E t \in DwzTasks[a] : future[t] = "none"
    BY DEF PostDwz, NextArch
  <2>2. DwzTasks[a] = IF byArch[a] = {} THEN {} ELSE {Dwz(a)}
    BY DEF DwzTasks
  <2>3. QED
    BY <2>1, <2>2
<1>3. /\ TypeOK' /\ PoolOK' /\ status' = status /\ pc' = pc
      /\ future'[Dwz(a)] = "pending" /\ \A u \in Task : u # Dwz(a) => future'[u] = future[u]
  BY <1>1, <1>2, PostsType
<1>4. /\ \A b \in Arch : b # a => future'[Dwz(b)] = future[Dwz(b)]
      /\ \A g \in File : future'[StripTask(g)] = "none"
      /\ \A g \in File : future'[Preprocess(g)] = future[Preprocess(g)]
  BY <1>1, <1>3, Kinds DEF Flow, MainOK
<1>5. MembersOK'
  BY <1>1, <1>4 DEF Flow, MembersOK, memberVars, Node, Ino, Result
<1>6. MainOK'
  <2>1. /\ verdict = "none" /\ status # "success" /\ Classified /\ NoErrors /\ input.optimize
        /\ \A b \in Arch : future[Dwz(b)] # "none" => byArch[b] # {}
    BY <1>1 DEF Flow, MainOK
  <2>2. Classified' /\ NoErrors'
    BY <1>4, <2>1 DEF Classified, NoErrors, Settled, Result
  <2>3. \A b \in Arch : future'[Dwz(b)] # "none" => byArch[b] # {}
    BY <1>2, <1>4, <2>1
  <2>4. QED
    BY <1>1, <1>3, <1>4, <2>1, <2>2, <2>3 DEF MainOK, memberVars
<1>7. \A g \in File : ClassOK(g)'
  BY <1>1, <1>3, <1>4 DEF Flow, ClassOK, Result, Unique, Node, Ino
<1>8. QED
  BY <1>3, <1>5, <1>6, <1>7 DEF Flow

LEMMA PostStripFlow ==
    ASSUME Flow, NEW f \in File, PostStrip(f) PROVE Flow'
<1>1. /\ StripTask(f) \in Task /\ Post(StripTask(f)) /\ main = "strip" /\ main' = main
      /\ UNCHANGED <<input, verdict, alive, memberVars>> /\ future[StripTask(f)] = "none"
  BY Kinds DEF PostStrip, MainAt, mainVars
<1>2. f \in Found(byArch)
  BY InputFacts DEF PostStrip, Flow, MembersOK
<1>3. /\ TypeOK' /\ PoolOK' /\ status' = status /\ pc' = pc
      /\ \A u \in Task : u # StripTask(f) => future'[u] = future[u]
  BY <1>1, PostsType
<1>4. /\ \A b \in Arch : future'[Dwz(b)] = future[Dwz(b)]
      /\ \A g \in File : g # f => future'[StripTask(g)] = future[StripTask(g)]
      /\ \A g \in File : future'[Preprocess(g)] = future[Preprocess(g)]
  BY <1>1, <1>3, Kinds
<1>5. MembersOK'
  BY <1>1, <1>4 DEF Flow, MembersOK, memberVars, Node, Ino, Result
<1>6. MainOK'
  <2>1. /\ verdict = "none" /\ status # "success" /\ Classified /\ NoErrors /\ DwzDone
        /\ \A g \in File : future[StripTask(g)] # "none" => g \in Found(byArch)
        /\ \A a \in Arch : future[Dwz(a)] # "none" => input.optimize /\ byArch[a] # {}
    BY <1>1 DEF Flow, MainOK
  <2>2. Classified' /\ NoErrors' /\ DwzDone'
    BY <1>1, <1>4, <2>1 DEF Classified, NoErrors, Settled, Result, DwzDone, memberVars
  <2>3. \A g \in File : future'[StripTask(g)] # "none" => g \in Found(byArch)
    BY <1>2, <1>4, <2>1
  <2>4. QED
    BY <1>1, <1>3, <1>4, <2>1, <2>2, <2>3 DEF MainOK, memberVars
<1>7. \A g \in File : ClassOK(g)'
  BY <1>1, <1>3, <1>4 DEF Flow, ClassOK, Result, Unique, Node, Ino
<1>8. QED
  BY <1>3, <1>5, <1>6, <1>7 DEF Flow
-----------------------------------------------------------------------------
(* What a step of the main thread that posts nothing leaves alone.         *)
LEMMA LocalFacts ==
    ASSUME Flow, UNCHANGED <<input, queue, executing, finished, future, pc, diskVars>>,
           phase' \in {"open", "closing", "left"}, alive' \in BOOLEAN,
           main' \in {"classify", "post_copy", "run_opt", "strip", "get_copy",
                      "return", "destroy_pool", "join", "exit"},
           verdict' \in {"none", "true", "false"},
           status' \in {"running", "success", "failure", "aborted", "crashed"},
           byArch' \in [Arch -> SUBSET File], sourceFiles' \subseteq Source,
           \A a \in Arch : byArch'[a] \subseteq ElfFiles(input)
    PROVE  TypeOK' /\ PoolOK' /\ \A f \in File : ClassOK(f)'
<1>1. PoolOK'
  BY DEF Flow, PoolOK, Distinct, TaskOK, InQueue, Pool!InQueue
<1>2. \A f \in File : ClassOK(f)'
  BY DEF Flow, ClassOK, Result, Unique, Node, Ino
<1>3. TypeOK'
  BY DEF Flow, TypeOK, diskVars
<1>4. QED
  BY <1>1, <1>2, <1>3

LEMMA CollectFlow ==
    ASSUME Flow, Collect PROVE Flow'
<1> DEFINE found == {f \in File : Result(f) = "value"}
<1>1. /\ main = "classify" /\ verdict = "none" /\ status = "running" /\ status' = status
      /\ Classified /\ future[Copy] = "none" /\ \A a \in Arch : future[Dwz(a)] = "none"
      /\ \A f \in File : future[StripTask(f)] = "none"
      /\ byArch' = [a \in Arch |-> {f \in found : Node(f).arch = a}]
      /\ sourceFiles' = UNION {input.sources[f] : f \in found}
      /\ UNCHANGED <<input, alive, poolVars, future, pc, diskVars>>
      /\ Unless(~ NoErrors, "post_copy")
  BY DEF Collect, MainAt, Flow, MainOK, Classified, NoErrors, Result, Local, diskVars
<1>2. \/ main' = "return" /\ verdict' = "false"
      \/ main' = "post_copy" /\ verdict' = "none" /\ NoErrors
  BY <1>1 DEF Unless, Fail, Go
<1>found. /\ byArch' \in [Arch -> SUBSET File] /\ Found(byArch') = found
          /\ \A a \in Arch : byArch'[a] \subseteq ElfFiles(input)
          /\ sourceFiles' \subseteq Source
  <2>1. \A f \in File : /\ Node(f).arch \in Arch /\ input.sources[f] \subseteq Source
                        /\ Result(f) = "value" => f \in ElfFiles(input)
    BY InputFacts DEF Flow, ClassOK, ElfFiles, Node, Ino
  <2>2. \A f \in found : f \in byArch'[Node(f).arch]
    BY <1>1, <2>1
  <2>3. Found(byArch') = found
    BY <1>1, <2>1, <2>2 DEF Found
  <2>4. QED
    BY <1>1, <2>1, <2>3
<1>3. TypeOK' /\ PoolOK' /\ \A f \in File : ClassOK(f)'
  BY <1>1, <1>2, <1>found, LocalFacts DEF Flow, TypeOK, poolVars
<1>4. MembersOK'
  BY <1>1, <1>2, <1>found DEF MembersOK, Result, Node, Ino
<1>5. Classified' /\ (NoErrors => NoErrors')
  BY <1>1 DEF Classified, NoErrors, Settled, Result
<1>6. MainOK'
  BY <1>1, <1>2, <1>5 DEF MainOK
<1>7. QED
  BY <1>3, <1>4, <1>6 DEF Flow

(* After classify the members stay what they are, and a step that changes  *)
(* no future is right when main goes where the futures let it.             *)
Quiet == UNCHANGED <<input, byArch, sourceFiles, queue, executing, finished, future, pc, diskVars>>

LEMMA QuietFlow ==
    ASSUME Flow, Quiet, phase' \in {"open", "closing", "left"}, alive' \in BOOLEAN,
           main # "classify",
           main' \in {"run_opt", "strip", "get_copy", "return", "destroy_pool", "join", "exit"},
           verdict' \in {"none", "true", "false"},
           status' \in {"running", "success", "failure", "aborted", "crashed"},
           main' = "run_opt" => main = "run_opt",
           main' \in {"strip", "get_copy"} => NoErrors /\ DwzDone,
           main' = "get_copy" => StripsDone,
           main' \in {"run_opt", "strip", "get_copy"} <=> verdict' = "none",
           verdict' = "true" => NoErrors /\ DwzDone /\ StripsDone /\ future[Copy] = "value",
           status' = "success" => verdict' = "true"
    PROVE  Flow'
<1>1. TypeOK' /\ PoolOK' /\ \A f \in File : ClassOK(f)'
  BY LocalFacts DEF Quiet, Flow, TypeOK
<1>2. MembersOK'
  BY DEF Quiet, Flow, MembersOK, Result, Node, Ino
<1>3. /\ Classified' /\ (NoErrors => NoErrors') /\ (DwzDone => DwzDone')
      /\ (StripsDone => StripsDone')
  BY DEF Quiet, Flow, MainOK, Classified, NoErrors, Settled, Result, DwzDone, StripsDone
<1>4. MainOK'
  BY <1>3 DEF Quiet, Flow, MainOK
<1>5. QED
  BY <1>1, <1>2, <1>4 DEF Flow

LEMMA OptDoneFlow ==
    ASSUME Flow, OptDone PROVE Flow'
<1>1. /\ main = "run_opt" /\ status = "running" /\ status' = status /\ Quiet
      /\ phase' = phase /\ alive' = alive /\ TypeOK /\ NoErrors /\ input.optimize /\ verdict = "none"
      /\ Unless(\E a \in Arch : future[Dwz(a)] = "error", "strip")
  BY DEF OptDone, MainAt, Flow, MainOK, Local, poolVars, Quiet, memberVars
<1>2. ASSUME \A a \in Arch : future[Dwz(a)] # "error" PROVE DwzDone
  <2> SUFFICES ASSUME NEW a \in Arch
               PROVE  future[Dwz(a)] = IF byArch[a] # {} THEN "value" ELSE "none"
    BY <1>1 DEF DwzDone
  <2>1. future[Dwz(a)] # "none" => byArch[a] # {}
    BY DEF Flow, MainOK
  <2>2. byArch[a] # {} => Settled(Dwz(a))
    BY DEF OptDone, DwzTasks
  <2>3. future[Dwz(a)] \in {"none", "pending", "value", "error"}
    BY Kinds, KindResults DEF Flow, PoolOK, TaskOK
  <2>4. QED
    BY <1>2, <2>1, <2>2, <2>3 DEF Settled
<1>3. \/ main' = "return" /\ verdict' = "false"
      \/ main' = "strip" /\ verdict' = "none" /\ DwzDone
  BY <1>1, <1>2 DEF Unless, Fail, Go
<1>4. QED
  BY <1>1, <1>3, QuietFlow DEF TypeOK

LEMMA NoToolchainFlow ==
    ASSUME Flow, NoToolchain PROVE Flow'
<1>1. /\ main = "strip" /\ status = "running" /\ status' = status /\ Quiet
      /\ phase' = phase /\ alive' = alive /\ TypeOK /\ main' = "return" /\ verdict' = "false"
  BY DEF NoToolchain, MainAt, Flow, Local, poolVars, Quiet, memberVars, Fail
<1>2. QED
  BY <1>1, QuietFlow DEF TypeOK

LEMMA StripDoneFlow ==
    ASSUME Flow, StripDone PROVE Flow'
<1>1. /\ main = "strip" /\ status = "running" /\ status' = status /\ Quiet
      /\ phase' = phase /\ alive' = alive /\ TypeOK /\ NoErrors /\ DwzDone /\ verdict = "none"
      /\ Unless(\E f \in File : future[StripTask(f)] = "error", "get_copy")
  BY DEF StripDone, MainAt, Flow, MainOK, Local, poolVars, Quiet, memberVars
<1>2. ASSUME \A f \in File : future[StripTask(f)] # "error" PROVE StripsDone
  <2> SUFFICES ASSUME NEW f \in File
               PROVE  future[StripTask(f)] = IF f \in Found(byArch) THEN "value" ELSE "none"
    BY DEF StripsDone
  <2>1. future[StripTask(f)] # "none" => f \in Found(byArch)
    BY DEF Flow, MainOK
  <2>2. f \in Found(byArch) => Settled(StripTask(f))
    <3>1. Node(f).arch \in Arch
      BY <1>1, InputFacts
    <3>2. f \in Found(byArch) => f \in byArch[Node(f).arch]
      BY <3>1 DEF Flow, MembersOK
    <3>3. f \in byArch[Node(f).arch] => StripTask(f) \in StripTasks[Node(f).arch]
      BY <3>1 DEF StripTasks
    <3>4. QED
      BY <3>1, <3>2, <3>3 DEF StripDone
  <2>3. future[StripTask(f)] \in {"none", "pending", "value", "error"}
    BY Kinds, KindResults DEF Flow, PoolOK, TaskOK
  <2>4. QED
    BY <1>2, <2>1, <2>2, <2>3 DEF Settled
<1>3. \/ main' = "return" /\ verdict' = "false"
      \/ main' = "get_copy" /\ verdict' = "none" /\ StripsDone
  BY <1>1, <1>2 DEF Unless, Fail, Go
<1>4. QED
  BY <1>1, <1>3, QuietFlow DEF TypeOK

LEMMA GetCopyFlow ==
    ASSUME Flow, GetCopy PROVE Flow'
<1>1. /\ main = "get_copy" /\ status = "running" /\ Quiet
      /\ phase' = phase /\ alive' = alive /\ TypeOK /\ NoErrors /\ DwzDone /\ StripsDone
      /\ verdict = "none"
  BY DEF GetCopy, MainAt, Flow, MainOK, Local, poolVars, Quiet, memberVars
<1>2. CASE future[Copy] = "error"
  <2>1. status' = "aborted" /\ main' = main /\ verdict' = verdict
    BY <1>2 DEF GetCopy
  <2>2. QED
    BY <1>1, <2>1, QuietFlow DEF TypeOK
<1>3. CASE future[Copy] # "error"
  <2>1. status' = status /\ main' = "return" /\ verdict' = "true"
    BY <1>3 DEF GetCopy
  <2>2. future[Copy] = "value"
    BY <1>3, Kinds, KindResults DEF GetCopy, Settled, Flow, PoolOK, TaskOK
  <2>3. QED
    BY <1>1, <2>1, <2>2, QuietFlow DEF TypeOK
<1>4. QED
  BY <1>2, <1>3

LEMMA LeaveFlow ==
    ASSUME Flow, DestroyMembers \/ DestroyPool \/ Exit PROVE Flow'
<1>1. /\ main \in {"return", "destroy_pool", "join"} /\ verdict' = verdict /\ Quiet
      /\ main' \in {"destroy_pool", "join", "exit"} /\ status = "running"
      /\ status' \in {"running", "success", "failure"}
      /\ status' = "success" => verdict = "true"
      /\ phase' \in {"open", "closing", "left"} /\ alive' \in BOOLEAN
  <2>1. CASE DestroyMembers
    BY <2>1 DEF DestroyMembers, MainAt, Local, Quiet, poolVars, memberVars, Flow, TypeOK
  <2>2. CASE DestroyPool
    BY <2>2 DEF DestroyPool, MainAt, Pool!Close, Quiet, memberVars, Flow, TypeOK
  <2>3. CASE Exit
    BY <2>3 DEF Exit, MainAt, Pool!Leave, Quiet, memberVars, Flow, TypeOK
  <2>4. QED
    BY <2>1, <2>2, <2>3
<1>2. /\ verdict \in {"true", "false"}
      /\ verdict = "true" => NoErrors /\ DwzDone /\ StripsDone /\ future[Copy] = "value"
  BY <1>1 DEF Flow, MainOK, TypeOK
<1>3. QED
  BY <1>1, <1>2, QuietFlow

LEMMA StartFlow ==
    ASSUME Flow, StartTask PROVE Flow'
<1>1. /\ PoolOK' /\ queue' \in Seq(Task) /\ executing' \subseteq Task
      /\ pc' \in [Task -> Step \cup {"none"}]
      /\ \A u \in Task : u \in executing' <=> pc'[u] # "none"
      /\ \A u \in Task : pc'[u] = pc[u] \/ pc'[u] = FirstStep(u)
      /\ finished' = finished /\ phase' = phase /\ future' = future
      /\ UNCHANGED scriptVars /\ UNCHANGED diskVars
  BY StartFacts DEF Flow, StartTask, Pool!Start
<1>2. TypeOK'
  BY <1>1 DEF Flow, TypeOK, scriptVars, mainVars, memberVars, diskVars
<1>3. ASSUME NEW f \in File, pc'[Preprocess(f)] = "inspect" PROVE ClassOK(f)'
  BY <1>1, <1>3 DEF Flow, ClassOK, scriptVars, Result, Unique, Node, Ino
<1>4. QED
  BY <1>1, <1>2, <1>3, SameFutures, Kinds, FirstSteps

LEMMA GoneFlow ==
    ASSUME Flow, Crash \/ Ended \/ UNCHANGED vars PROVE Flow'
<1>1. /\ UNCHANGED <<input, main, verdict, alive, byArch, sourceFiles, queue, executing, finished,
                     phase, future, pc, diskVars>>
      /\ status' \in {"crashed", status}
  BY DEF Crash, Ended, vars, scriptVars, mainVars, memberVars, poolVars
<1>2. TypeOK' /\ PoolOK' /\ \A f \in File : ClassOK(f)'
  BY <1>1, LocalFacts DEF Flow, TypeOK
<1>3. MembersOK'
  BY <1>1 DEF Flow, MembersOK, Result, Node, Ino
<1>4. MainOK'
  BY <1>1 DEF Flow, MainOK, Classified, NoErrors, Settled, Result, DwzDone, StripsDone
<1>5. QED
  BY <1>2, <1>3, <1>4 DEF Flow
-----------------------------------------------------------------------------
LEMMA InitFlow == Init => Flow
<1> SUFFICES ASSUME Init PROVE Flow
  OBVIOUS
<1>1. /\ queue = <<>> /\ executing = {} /\ finished = {} /\ phase = "open"
      /\ \A t \in Task : future[t] = "none" /\ pc[t] = "none"
      /\ queue \in Seq(Task) /\ DOMAIN queue = {}
  BY DEF Init, Pool!ExecInit
<1>2. TypeOK
  <2>1. /\ done \in [Inode -> SUBSET Stage]
        /\ debug \in [File -> SUBSET (Stage \cup {"kept", "compressed"})]
        /\ pc \in [Task -> Step \cup {"none"}]
        /\ future \in [Task -> {"none", "pending", "value", "null", "error"}]
        /\ byArch \in [Arch -> SUBSET File] /\ \A a \in Arch : byArch[a] = {}
    BY DEF Init
  <2>2. installed \subseteq Source
    BY InputsAssumption DEF Init, Input
  <2>3. /\ mode \in [Inode -> {"original", "forced"}]
        /\ saved \in [File -> {"original", "forced"}]
        /\ \A a \in Arch : byArch[a] \subseteq ElfFiles(input)
    BY <2>1 DEF Init
  <2>4. QED
    BY <1>1, <2>1, <2>2, <2>3 DEF Init, TypeOK
<1>3. PoolOK
  BY <1>1 DEF PoolOK, Distinct, TaskOK, InQueue, Pool!InQueue
<1>4. MembersOK
  <2>1. Found(byArch) = {}
    BY DEF Init, Found
  <2>2. QED
    BY <2>1 DEF Init, MembersOK
<1>5. MainOK
  BY <1>1, Kinds DEF Init, MainOK
<1>6. \A f \in File : ClassOK(f)
  BY <1>1, Kinds DEF ClassOK, Result
<1>7. QED
  BY <1>2, <1>3, <1>4, <1>5, <1>6 DEF Flow

LEMMA NextFlow == Flow /\ [Next]_vars => Flow'
<1> SUFFICES ASSUME Flow, [Next]_vars PROVE Flow'
  OBVIOUS
<1>1. CASE MainStep
  BY <1>1, PostPreprocessFlow, PostStripFlow, PostDwzFlow, CollectFlow, PostCopyFlow, OptDoneFlow,
     NoToolchainFlow, StripDoneFlow, GetCopyFlow, LeaveFlow DEF MainStep
<1>2. QED
  BY <1>1, StartFlow, TaskStepFlow, GoneFlow DEF Next

LEMMA FlowInvariance == Spec => []Flow
  BY InitFlow, NextFlow, PTL DEF Spec

(* Every variable keeps its type, whatever the tools do.                   *)
THEOREM TypeCorrect == Spec => []TypeOK
<1>1. Flow => TypeOK
  BY DEF Flow
<1>2. QED
  BY <1>1, FlowInvariance, PTL

(* operator() has got every future there is when it returns true: no task  *)
(* is left that could read the members about to be destroyed.              *)
LEMMA QuietSuccess == Flow => SuccessLeavesNoTask
<1> SUFFICES ASSUME Flow, verdict = "true" PROVE queue = <<>> /\ executing = {}
  BY DEF SuccessLeavesNoTask
<1>1. /\ DwzDone /\ StripsDone /\ future[Copy] = "value" /\ Classified
      /\ queue \in Seq(Task) /\ executing \subseteq Task
  BY DEF Flow, MainOK, TypeOK
<1>2. \A t \in Task : future[t] # "pending"
  BY <1>1, Kinds DEF DwzDone, StripsDone, Classified, Settled
<1>3. \A t \in Task : ~ InQueue(t) /\ t \notin executing
  BY <1>2 DEF Flow, PoolOK, TaskOK
<1>4. queue = <<>>
  <2> SUFFICES ASSUME queue # <<>> PROVE FALSE
    OBVIOUS
  <2>1. Head(queue) \in Task /\ Head(queue) = queue[1] /\ 1 \in DOMAIN queue
    BY <1>1, TailFacts
  <2>2. QED
    BY <1>3, <2>1 DEF InQueue, Pool!InQueue
<1>5. QED
  BY <1>1, <1>3, <1>4

(* When the stripper ends with status 0, every task that was submitted to  *)
(* the pool has returned.                                                  *)
THEOREM SuccessIsQuiet == Spec => []SuccessLeavesNoTask
  BY QuietSuccess, FlowInvariance, PTL
-----------------------------------------------------------------------------
(* The files that a task is about, and those that it may rewrite.          *)
About(t) ==
    {f \in File : \/ t = Preprocess(f) \/ t = StripTask(f)
                  \/ \E a \in Arch : t = Dwz(a) /\ f \in byArch[a]}

(* No file has two tasks at work on it: classify ends before dwz, which    *)
(* ends before strip, and a file has one architecture.                     *)
LEMMA OneAtWork ==
    ASSUME Flow, NEW t \in executing, NEW u \in executing, NEW f \in About(t), f \in About(u)
    PROVE  t = u
<1>1. /\ f \in File /\ t \in Task /\ u \in Task
      /\ future[t] = "pending" /\ future[u] = "pending"
  BY DEF About, Flow, TypeOK, PoolOK, TaskOK
<1>2. ASSUME future[Preprocess(f)] = "pending"
      PROVE  /\ future[StripTask(f)] = "none"
             /\ \A a \in Arch : future[Dwz(a)] = "none"
  BY <1>1, <1>2 DEF Flow, MainOK, Classified, Settled
<1>3. ASSUME future[StripTask(f)] = "pending"
      PROVE  \A a \in Arch : future[Dwz(a)] # "pending"
  BY <1>1, <1>3 DEF Flow, MainOK, DwzDone
<1>4. \A a, b \in Arch : f \in byArch[a] /\ f \in byArch[b] => a = b
  BY DEF Flow, MembersOK
<1>5. QED
  BY <1>1, <1>2, <1>3, <1>4 DEF About

(* What is rewritten has one name and belongs to the rewriting task.       *)
LEMMA RewritesItsOwn ==
    ASSUME Flow, NEW t \in executing, NEW i \in Rewrites(t)
    PROVE  \E f \in About(t) : i = Ino(f) /\ Unique(f)
<1>1. t \in Task /\ pc[t] \in Steps(t) /\ future[t] = "pending"
  BY DEF Flow, TypeOK, PoolOK, TaskOK
<1>2. ASSUME NEW f \in File, t = Preprocess(f)
      PROVE  \E g \in About(t) : i = Ino(g) /\ Unique(g)
  <2>1. /\ pc[t] \in {"inspect", "debugedit", "decompress"} /\ t[1] # "strip" /\ t[2] = f
        /\ f \in About(t)
    BY <1>1, <1>2, KindSteps DEF Preprocess, About
  <2>2. pc[t] \in {"debugedit", "decompress"} /\ i = Ino(f)
    BY <2>1 DEF Rewrites
  <2>3. Unique(f)
    BY <1>2, <2>2 DEF Flow, ClassOK
  <2>4. QED
    BY <2>1, <2>2, <2>3
<1>3. ASSUME NEW f \in File, t = StripTask(f)
      PROVE  \E g \in About(t) : i = Ino(g) /\ Unique(g)
  <2>1. /\ pc[t] \notin {"debugedit", "decompress", "dwz"} /\ t[2] = f /\ f \in About(t)
    BY <1>1, <1>3, KindSteps DEF StripTask, About
  <2>2. i = Ino(f)
    BY <2>1 DEF Rewrites
  <2>3. Result(f) = "value"
    BY <1>1, <1>3 DEF Flow, MainOK, MembersOK
  <2>4. QED
    BY <2>1, <2>2, <2>3 DEF Flow, ClassOK
<1>4. ASSUME NEW a \in Arch, t = Dwz(a)
      PROVE  \E g \in About(t) : i = Ino(g) /\ Unique(g)
  <2>1. pc[t] = "dwz" /\ t[1] = "dwz" /\ t[2] = a
    BY <1>1, <1>4, KindSteps DEF Dwz
  <2>2. PICK g \in byArch[a] : i = Ino(g)
    BY <2>1 DEF Rewrites
  <2>3. g \in Found(byArch) /\ g \in File
    BY DEF Flow, TypeOK, MembersOK
  <2>4. Result(g) = "value"
    BY <2>3 DEF Flow, MembersOK
  <2>5. g \in About(t)
    BY <1>4, <2>3 DEF About
  <2>6. QED
    BY <2>2, <2>3, <2>4, <2>5 DEF Flow, ClassOK
<1>5. t # Copy
  BY <1>1, KindSteps DEF Rewrites, Copy
<1>6. QED
  BY <1>1, <1>2, <1>3, <1>4, <1>5, Kinds

LEMMA UsesItsOwn ==
    ASSUME Flow, NEW t \in executing, NEW i \in Uses(t)
    PROVE  \E f \in About(t) : i = Ino(f)
<1>1. CASE i \in Rewrites(t)
  BY <1>1, RewritesItsOwn
<1>2. CASE t[1] \in {"preprocess", "strip"}
  <2>1. i = Ino(t[2])
    BY <1>2 DEF Uses
  <2>2. \E f \in File : t = Preprocess(f) \/ t = StripTask(f)
    <3>1. (\A a \in Arch : Dwz(a)[1] = "dwz") /\ Copy[1] = "copy"
      BY DEF Dwz, Copy
    <3>2. QED
      BY <1>2, <3>1, Kinds DEF Flow, TypeOK
  <2>3. QED
    BY <2>1, <2>2 DEF About, Preprocess, StripTask
<1>3. QED
  BY <1>1, <1>2 DEF Uses

(* No tool works on a file while the tool of another thread rewrites it.   *)
THEOREM Exclusive == Spec => []ExclusiveRewrite
<1>1. Flow => ExclusiveRewrite
  <2> SUFFICES ASSUME Flow, NEW t \in executing, NEW u \in executing, t # u,
                      NEW i \in Rewrites(t), i \in Uses(u)
               PROVE  FALSE
    BY DEF ExclusiveRewrite
  <2>1. PICK f \in About(t) : i = Ino(f) /\ Unique(f)
    BY RewritesItsOwn
  <2>2. PICK g \in About(u) : i = Ino(g)
    BY UsesItsOwn
  <2>3. f = g
    BY <2>1, <2>2 DEF Unique, About
  <2>4. QED
    BY <2>2, <2>3, OneAtWork
<1>2. QED
  BY <1>1, FlowInvariance, PTL
-----------------------------------------------------------------------------
(***************************************************************************)
(* The work on the files, when the tools are not killed.                   *)
(***************************************************************************)
LEMMA ToolFacts ==
    ASSUME NoKilledTool, NEW o \in ToolOutcome
    PROVE  (o = "ok" /\ Status(o) = 0) \/ (o = "exit" /\ Status(o) # 0)
  BY OutcomeAssumption DEF NoKilledTool, Status

LEMMA MarkFacts ==
    ASSUME TypeOK, NEW inodes, NEW stage, NEW o, Mark(inodes, stage, o)
    PROVE  /\ \A i \in Inode : /\ done[i] \subseteq done'[i]
                               /\ done'[i] \subseteq done[i] \cup {stage}
                               /\ i \in inodes /\ o = "ok" => stage \in done'[i]
                               /\ i \notin inodes => done'[i] = done[i]
           /\ o # "ok" => done' = done
<1>1. done = [i \in Inode |-> done[i]]
  BY DEF TypeOK
<1>2. done' = [i \in Inode |-> IF i \in inodes /\ o = "ok" THEN done[i] \cup {stage} ELSE done[i]]
  BY DEF Mark
<1>3. o # "ok" => done' = done
  BY <1>1, <1>2
<1>4. QED
  BY <1>2, <1>3

(* What a file has been through does not get lost.                         *)
LEMMA PrepStays ==
    ASSUME NEW f \in File, PrepOK(f), input' = input, Done(f) \subseteq Done(f)',
           Result(f)' = "value" => Result(f) = "value",
           pc'[Preprocess(f)] = "decompress" => pc[Preprocess(f)] = "decompress"
    PROVE  PrepOK(f)'
<1>1. Prepared' = Prepared
  BY DEF Prepared
<1>2. QED
  BY <1>1 DEF PrepOK

LEMMA OptStays ==
    ASSUME NEW f \in File, OptOK(f), Done(f) \subseteq Done(f)',
           \A a \in Arch : /\ future'[Dwz(a)] = "value" => future[Dwz(a)] = "value"
                           /\ byArch'[a] = byArch[a] \/ future[Dwz(a)] = "none"
    PROVE  OptOK(f)'
  BY DEF OptOK

LEMMA StripStays ==
    ASSUME NEW f \in File, StripOK(f), input' = input, Done(f) \subseteq Done(f)',
           "strip" \in Done(f)' => "strip" \in Done(f),
           debug'[f] = debug[f], saved'[f] = saved[f], mode'[Ino(f)] = mode[Ino(f)],
           \/ StepOf(f)' = StepOf(f)
           \/ StepOf(f)' \in {"none", "symbols"}
              /\ (StepOf(f) \in Unlocked => future'[StripTask(f)] = "error"),
           future'[StripTask(f)] = "value" => future[StripTask(f)] = "value",
           future[StripTask(f)] = "error" => future'[StripTask(f)] = "error"
    PROVE  StripOK(f)'
<1>1. Required' = Required /\ Unlocked' = Unlocked /\ Ino(f)' = Ino(f)
  BY DEF Required, Unlocked, Ino
<1>2. "none" \notin Unlocked /\ "symbols" \notin Unlocked
  BY DEF Unlocked
<1>3. mode'[Ino(f)'] = mode[Ino(f)]
  BY <1>1
<1>4. CASE StepOf(f)' = StepOf(f)
  BY <1>1, <1>3, <1>4 DEF StripOK
<1>5. CASE /\ StepOf(f)' \in {"none", "symbols"}
           /\ StepOf(f) \in Unlocked => future'[StripTask(f)] = "error"
  BY <1>1, <1>2, <1>3, <1>5 DEF StripOK
<1>6. QED
  BY <1>4, <1>5

(* A step that touches no file, and settles no future but with an error    *)
(* or with `null'.                                                         *)
LEMMA IdleWork ==
    ASSUME Flow, Work, UNCHANGED <<input, done, mode, saved, debug>>,
           \/ UNCHANGED <<visited, installed>>
           \/ visited \subseteq visited' /\ visited' \cap input.present \subseteq installed',
           \A u \in Task : /\ future'[u] = "value" => future[u] = "value"
                           /\ future[u] = "error" => future'[u] = "error",
           \/ byArch' = byArch /\ sourceFiles' = sourceFiles
           \/ future[Copy] = "none" /\ \A a \in Arch : future[Dwz(a)] = "none",
           \A f \in File : pc'[Preprocess(f)] = "decompress" => pc[Preprocess(f)] = "decompress",
           \A f \in File :
              \/ StepOf(f)' = StepOf(f)
              \/ StepOf(f)' \in {"none", "symbols"}
                 /\ (StepOf(f) \in Unlocked => future'[StripTask(f)] = "error")
    PROVE  Work'
<1>1. ASSUME NEW f \in File PROVE PrepOK(f)' /\ OptOK(f)' /\ StripOK(f)'
  <2>1. PrepOK(f) /\ OptOK(f) /\ StripOK(f)
    BY DEF Work
  <2>2. Done(f)' = Done(f)
    BY DEF Done, Ino
  <2>3. PrepOK(f)'
    BY <2>1, <2>2, PrepStays, Kinds DEF Result
  <2>4. OptOK(f)'
    BY <2>1, <2>2, OptStays, Kinds
  <2>5. StripOK(f)'
    BY <2>1, <2>2, StripStays, Kinds
  <2>6. QED
    BY <2>3, <2>4, <2>5
<1>2. Stages' = Stages
  BY DEF Stages
<1>3. CopyOK'
  BY Kinds DEF Work, CopyOK
<1>4. QED
  BY <1>1, <1>2, <1>3 DEF Work

(* A task that throws and touches no file.                                 *)
LEMMA ThrowWork ==
    ASSUME Flow, Work, NEW t \in executing, Throw(t), UNCHANGED <<scriptVars, diskVars>>
    PROVE  Work'
<1>1. /\ t \in Task /\ pc'[t] = "none" /\ future'[t] = "error" /\ future[t] = "pending"
      /\ \A u \in Task : u # t => pc'[u] = pc[u] /\ future'[u] = future[u]
  <2>1. "error" \in Results(t)
    BY DEF Results
  <2>2. QED
    BY <2>1, ReturnFacts DEF Throw, Flow, TypeOK
<1>2. UNCHANGED <<input, done, mode, saved, debug, byArch, sourceFiles, visited, installed>>
  BY DEF scriptVars, memberVars, diskVars
<1>3. \A u \in Task : pc'[u] = pc[u] \/ (pc'[u] = "none" /\ future'[u] = "error")
  BY <1>1
<1>4. /\ \A u \in Task : /\ future'[u] = "value" => future[u] = "value"
                         /\ future[u] = "error" => future'[u] = "error"
      /\ \A f \in File : pc'[Preprocess(f)] = "decompress" => pc[Preprocess(f)] = "decompress"
      /\ \A f \in File : \/ StepOf(f)' = StepOf(f)
                         \/ StepOf(f)' = "none" /\ future'[StripTask(f)] = "error"
  BY <1>1, <1>3, Kinds DEF StepOf
<1>5. QED
  BY <1>2, <1>4, IdleWork

(* The steps that touch no file.                                           *)
LEMMA StartWork ==
    ASSUME Flow, Work, StartTask PROVE Work'
<1>1. /\ \A u \in Task : pc'[u] = pc[u] \/ pc'[u] = FirstStep(u)
      /\ UNCHANGED <<input, done, mode, saved, debug, visited, installed, byArch, sourceFiles, future>>
  BY StartFacts DEF Flow, StartTask, scriptVars, memberVars, diskVars
<1>2. ASSUME NEW f \in File, pc'[StripTask(f)] # pc[StripTask(f)]
      PROVE  pc'[StripTask(f)] = "symbols" /\ StepOf(f) \notin Unlocked
  <2>1. pc'[StripTask(f)] = "symbols"
    BY <1>1, <1>2, Kinds, FirstSteps
  <2>2. pc[StripTask(f)] = "none"
    <3>1. PICK t \in Task : t = Head(queue)
      BY TailFacts DEF Flow, TypeOK, StartTask, Pool!Start
    <3>2. InQueue(t)
      BY <3>1, TailFacts DEF Flow, TypeOK, StartTask, Pool!Start, InQueue, Pool!InQueue
    <3>3. pc[t] = "none"
      BY <3>2 DEF Flow, TypeOK, PoolOK, TaskOK
    <3>4. pc' = [pc EXCEPT ![t] = FirstStep(t)] /\ pc \in [Task -> Step \cup {"none"}]
      BY <3>1 DEF StartTask, Flow, TypeOK
    <3>5. QED
      BY <1>2, <3>3, <3>4, Kinds
  <2>3. QED
    BY <2>1, <2>2 DEF StepOf, Unlocked
<1>3. /\ \A f \in File : pc'[Preprocess(f)] = "decompress" => pc[Preprocess(f)] = "decompress"
      /\ \A f \in File : \/ StepOf(f)' = StepOf(f)
                         \/ StepOf(f)' = "symbols" /\ StepOf(f) \notin Unlocked
  <2>1. \A f \in File : pc'[Preprocess(f)] \in {pc[Preprocess(f)], "inspect"}
    BY <1>1, Kinds, FirstSteps
  <2>2. QED
    BY <1>2, <2>1 DEF StepOf
<1>4. QED
  BY <1>1, <1>3, IdleWork

LEMMA PostWork ==
    ASSUME Flow, Work, NEW t \in Task, Post(t), future[t] = "none", UNCHANGED <<input, memberVars>>
    PROVE  Work'
<1>1. /\ future'[t] = "pending" /\ \A u \in Task : u # t => future'[u] = future[u]
      /\ UNCHANGED <<input, done, mode, saved, debug, visited, installed, byArch, sourceFiles, pc>>
  BY PostFacts DEF Flow, Post, diskVars, memberVars
<1>2. \A f \in File : StepOf(f)' = StepOf(f)
  BY <1>1 DEF StepOf
<1>3. QED
  BY <1>1, <1>2, IdleWork

LEMMA MainWork == Flow /\ Work /\ MainStep => Work'
<1> SUFFICES ASSUME Flow, Work, MainStep PROVE Work'
  OBVIOUS
<1>1. ASSUME NEW f \in File, PostPreprocess(f) PROVE Work'
  BY <1>1, PostWork, Kinds DEF PostPreprocess
<1>2. ASSUME NEW f \in File, PostStrip(f) PROVE Work'
  BY <1>2, PostWork, Kinds DEF PostStrip
<1>3. ASSUME NEW a \in Arch, PostDwz(a) PROVE Work'
  <2>1. \E t \in DwzTasks[a] : future[t] = "none"
    BY <1>3 DEF PostDwz, NextArch
  <2>2. DwzTasks[a] = IF byArch[a] = {} THEN {} ELSE {Dwz(a)}
    BY DEF DwzTasks
  <2>3. future[Dwz(a)] = "none"
    BY <2>1, <2>2
  <2>4. QED
    BY <1>3, <2>3, PostWork, Kinds DEF PostDwz
<1>4. CASE PostCopy
  BY <1>4, PostWork, Kinds DEF PostCopy, MainAt, Flow, MainOK
<1>5. CASE Collect \/ OptDone \/ NoToolchain \/ StripDone \/ GetCopy \/ DestroyMembers
           \/ DestroyPool \/ Exit
  <2>1. UNCHANGED <<input, done, mode, saved, debug, visited, installed, future, pc>>
    BY <1>5 DEF Collect, OptDone, NoToolchain, StripDone, GetCopy, DestroyMembers, DestroyPool,
                Exit, Local, diskVars
  <2>2. \/ UNCHANGED <<byArch, sourceFiles>>
        \/ future[Copy] = "none" /\ \A a \in Arch : future[Dwz(a)] = "none"
    BY <1>5 DEF Collect, OptDone, NoToolchain, StripDone, GetCopy, DestroyMembers, DestroyPool,
                Exit, memberVars, MainAt, Flow, MainOK
  <2>3. \A f \in File : StepOf(f)' = StepOf(f)
    BY <2>1 DEF StepOf
  <2>4. QED
    BY <2>1, <2>2, <2>3, IdleWork
<1>6. QED
  BY <1>1, <1>2, <1>3, <1>4, <1>5 DEF MainStep

LEMMA GoneWork ==
    ASSUME Flow, Work, Crash \/ Ended \/ UNCHANGED vars PROVE Work'
<1>1. UNCHANGED <<input, done, mode, saved, debug, visited, installed, future, pc, byArch, sourceFiles>>
  BY DEF Crash, Ended, vars, scriptVars, memberVars, diskVars
<1>2. \A f \in File : StepOf(f)' = StepOf(f)
  BY <1>1 DEF StepOf
<1>3. QED
  BY <1>1, <1>2, IdleWork

LEMMA InspectWork ==
    ASSUME Flow, Work, NEW f \in File, Inspect(f) PROVE Work'
<1> DEFINE t == Preprocess(f)
<1>1. /\ t \in executing /\ UNCHANGED <<scriptVars, diskVars>> /\ t \in Task
      /\ Results(t) = {"value", "null", "error"}
      /\ Steps(t) = {"inspect", "debugedit", "decompress"} /\ TypeOK /\ PoolOK
      /\ UNCHANGED <<input, done, mode, saved, debug, visited, installed, byArch, sourceFiles>>
  BY Kinds, KindSteps, KindResults DEF Inspect, At, Flow, scriptVars, memberVars, diskVars
<1>2. Throw(t) \/ Return(t, "null") \/ Goto(t, "debugedit")
  <2>1. /\ Node(f).kind \in {"data", "stripped", "broken", "elf"}
        /\ Nlink(f) > 1 \/ Nlink(f) = 1
    BY <1>1, InputFacts, NlinkFacts DEF Kind
  <2>2. QED
    BY <2>1 DEF Inspect
<1> HIDE DEF t
<1>3. CASE Throw(t)
  BY <1>1, <1>3, ThrowWork
<1>4. CASE Return(t, "null")
  <2>1. /\ pc'[t] = "none" /\ future'[t] = "null" /\ future[t] = "pending"
        /\ \A u \in Task : u # t => pc'[u] = pc[u] /\ future'[u] = future[u]
    BY <1>1, <1>4, ReturnFacts
  <2>2. \A g \in File : StepOf(g)' = StepOf(g)
    BY <2>1, Kinds DEF StepOf, t
  <2>3. QED
    BY <1>1, <2>1, <2>2, IdleWork, Kinds
<1>5. CASE Goto(t, "debugedit")
  <2>1. /\ pc'[t] = "debugedit" /\ future' = future
        /\ \A u \in Task : u # t => pc'[u] = pc[u]
    BY <1>1, <1>5, GotoFacts
  <2>2. \A g \in File : StepOf(g)' = StepOf(g)
    BY <2>1, Kinds DEF StepOf, t
  <2>3. \A g \in File : pc'[Preprocess(g)] = "decompress" => pc[Preprocess(g)] = "decompress"
    BY <2>1, Kinds
  <2>4. QED
    BY <1>1, <2>1, <2>2, <2>3, IdleWork
<1>6. QED
  BY <1>2, <1>3, <1>4, <1>5

LEMMA CopyWork ==
    ASSUME Flow, Work, (\E s \in Source : CopyOne(s)) \/ CopyDone PROVE Work'
<1>1. /\ Copy \in executing /\ Copy \in Task /\ TypeOK /\ PoolOK
      /\ "value" \in Results(Copy) /\ "copy" \in Steps(Copy)
      /\ UNCHANGED scriptVars
      /\ UNCHANGED <<input, done, mode, saved, debug, byArch, sourceFiles>>
  BY Kinds, KindSteps, KindResults
     DEF CopyOne, CopyDone, At, Flow, scriptVars, memberVars, diskVars
<1>2. CASE Throw(Copy) /\ UNCHANGED <<visited, installed>>
  BY <1>1, <1>2, ThrowWork DEF diskVars
<1>3. CASE /\ Goto(Copy, "copy") /\ visited \subseteq visited'
           /\ visited' \cap input.present \subseteq installed'
  <2>1. future' = future /\ \A u \in Task : u # Copy => pc'[u] = pc[u]
    BY <1>1, <1>3, GotoFacts
  <2>2. /\ \A g \in File : StepOf(g)' = StepOf(g)
        /\ \A g \in File : pc'[Preprocess(g)] = pc[Preprocess(g)]
    BY <2>1, Kinds DEF StepOf
  <2>3. QED
    BY <1>1, <1>3, <2>1, <2>2, IdleWork
<1>4. CASE CopyDone
  <2>1. /\ \A u \in Task : u # Copy => pc'[u] = pc[u] /\ future'[u] = future[u]
        /\ UNCHANGED <<visited, installed>> /\ sourceFiles \subseteq visited
    BY <1>1, <1>4, ReturnFacts DEF CopyDone, diskVars
  <2>2. ASSUME NEW g \in File PROVE PrepOK(g)' /\ OptOK(g)' /\ StripOK(g)'
    <3>1. PrepOK(g) /\ OptOK(g) /\ StripOK(g)
      BY DEF Work
    <3>2. /\ Done(g)' = Done(g) /\ StepOf(g)' = StepOf(g)
          /\ future'[StripTask(g)] = future[StripTask(g)] /\ Result(g)' = Result(g)
          /\ pc'[Preprocess(g)] = pc[Preprocess(g)]
          /\ \A a \in Arch : future'[Dwz(a)] = future[Dwz(a)]
      BY <1>1, <2>1, Kinds DEF Done, Ino, StepOf, Result
    <3>3. QED
      BY <1>1, <3>1, <3>2, PrepStays, OptStays, StripStays
  <2>3. Stages' = Stages
    BY <1>1 DEF Stages
  <2>4. QED
    BY <1>1, <2>1, <2>2, <2>3 DEF Work, CopyOK
<1>5. ASSUME NEW s \in Source, CopyOne(s)
      PROVE  \/ Throw(Copy) /\ UNCHANGED <<visited, installed>>
             \/ /\ Goto(Copy, "copy") /\ visited \subseteq visited'
                /\ visited' \cap input.present \subseteq installed'
  BY <1>5 DEF CopyOne, Work, CopyOK
<1>6. QED
  BY <1>2, <1>3, <1>4, <1>5

(* A step of task t that marks some inodes with a stage other than the     *)
(* stripping, and does not concern the task that strips.                   *)
LEMMA EarlyWork ==
    ASSUME Flow, Work, NEW t \in Task, \A f \in File : t # StripTask(f), t # Copy,
           UNCHANGED scriptVars, UNCHANGED <<mode, saved, debug, visited, installed>>,
           NEW stage \in Stages, stage # "strip",
           \A i \in Inode : done[i] \subseteq done'[i] /\ done'[i] \subseteq done[i] \cup {stage},
           \A u \in Task : u # t => pc'[u] = pc[u] /\ future'[u] = future[u],
           \A f \in File : Preprocess(f) = t => PrepOK(f)',
           \A a \in Arch : Dwz(a) = t => \A f \in byArch[a] : "dwz" \in Done(f)'
    PROVE  Work'
<1>1. /\ UNCHANGED <<input, byArch, sourceFiles>> /\ Stages' = Stages
      /\ \A f \in File : Ino(f)' = Ino(f) /\ Ino(f) \in Inode
  BY InputFacts DEF scriptVars, memberVars, Ino, Stages, Flow
<1>2. ASSUME NEW f \in File PROVE PrepOK(f)' /\ OptOK(f)' /\ StripOK(f)'
  <2>1. PrepOK(f) /\ OptOK(f) /\ StripOK(f)
    BY DEF Work
  <2>2. Done(f) \subseteq Done(f)' /\ ("strip" \in Done(f)' => "strip" \in Done(f))
    BY <1>1 DEF Done
  <2>3. PrepOK(f)'
    BY <1>1, <2>1, <2>2, PrepStays, Kinds DEF Result
  <2>4. OptOK(f)'
    BY <1>1, <2>1, <2>2, Kinds DEF OptOK
  <2>5. StripOK(f)'
    BY <1>1, <2>1, <2>2, StripStays, Kinds DEF StepOf
  <2>6. QED
    BY <2>3, <2>4, <2>5
<1>3. \A i \in Inode : done'[i] \subseteq Stages'
  BY <1>1 DEF Work
<1>4. CopyOK'
  BY <1>1, Kinds DEF Work, CopyOK
<1>5. QED
  BY <1>2, <1>3, <1>4 DEF Work

LEMMA PreprocessWork ==
    ASSUME Flow, Work, NoKilledTool, NEW f \in File, NEW o \in ToolOutcome,
           DebugEdit(f, o) \/ Decompress(f, o)
    PROVE  Work'
<1> DEFINE t == Preprocess(f)
<1>1. /\ t \in executing /\ t \in Task /\ TypeOK /\ PoolOK
      /\ UNCHANGED scriptVars /\ UNCHANGED <<mode, saved, debug, visited, installed>>
      /\ "value" \in Results(t) /\ "decompress" \in Steps(t) /\ input' = input
      /\ \A g \in File : Preprocess(g) = t => g = f
      /\ \A g \in File : t # StripTask(g)
      /\ t # Copy /\ \A a \in Arch : Dwz(a) # t
  BY Kinds, KindSteps, KindResults DEF DebugEdit, Decompress, AfterTool, At, Flow, scriptVars
<1>2. PICK stage \in {"debugedit", "decompress"} : Mark({Ino(f)}, stage, o) /\ pc[t] = stage
        /\ (stage = "debugedit" => DebugEdit(f, o)) /\ (stage = "decompress" => Decompress(f, o))
  BY DEF DebugEdit, Decompress, AfterTool, At
<1>3. Ino(f) \in Inode /\ PrepOK(f) /\ ClassOK(f) /\ Prepared' = Prepared /\ Done(f)' = done'[Ino(f)]
  BY <1>1, InputFacts DEF Flow, Work, Prepared, Done, Ino
<1>4. stage \in Stages
  BY <1>2, <1>3 DEF ClassOK, Stages
<1>5. CASE o = "exit"
  <2>1. done' = done
    BY <1>1, <1>2, <1>5, MarkFacts
  <2>2. Throw(t)
    BY <1>5, ToolFacts DEF DebugEdit, Decompress, AfterTool
  <2>3. QED
    BY <1>1, <2>1, <2>2, ThrowWork DEF diskVars
<1>6. CASE o = "ok"
  <2>1. /\ \A i \in Inode : done[i] \subseteq done'[i] /\ done'[i] \subseteq done[i] \cup {stage}
        /\ stage \in Done(f)' /\ Done(f) \subseteq Done(f)'
    BY <1>1, <1>2, <1>3, <1>6, MarkFacts DEF Done
  <2>2. \/ Goto(t, "decompress") /\ stage = "debugedit" /\ input.optimize /\ input.compress
        \/ Return(t, "value") /\ stage = "debugedit" /\ ~ (input.optimize /\ input.compress)
        \/ Return(t, "value") /\ stage = "decompress"
    BY <1>2, <1>6, ToolFacts DEF DebugEdit, Decompress, AfterTool
  <2> HIDE DEF t
  <2>3. CASE Goto(t, "decompress") /\ stage = "debugedit"
    <3>1. /\ pc'[t] = "decompress" /\ future' = future
          /\ \A u \in Task : u # t => pc'[u] = pc[u]
      BY <1>1, <2>3, GotoFacts
    <3>2. Result(f)' = "pending"
      BY <1>1, <3>1 DEF Result, PoolOK, TaskOK, t
    <3>3. PrepOK(f)'
      BY <2>1, <2>3, <3>1, <3>2 DEF PrepOK, t
    <3>4. QED
      BY <1>1, <1>4, <2>1, <2>3, <3>1, <3>3, EarlyWork
  <2>4. CASE /\ Return(t, "value")
             /\ \/ stage = "decompress"
                \/ stage = "debugedit" /\ ~ (input.optimize /\ input.compress)
    <3>1. /\ pc'[t] = "none" /\ future'[t] = "value"
          /\ \A u \in Task : u # t => pc'[u] = pc[u] /\ future'[u] = future[u]
      BY <1>1, <2>4, ReturnFacts
    <3>2. Prepared \subseteq Done(f)'
      <4>1. stage = "decompress" => "debugedit" \in Done(f)
        BY <1>2, <1>3 DEF PrepOK, t
      <4>2. QED
        BY <2>1, <2>4, <4>1 DEF Prepared
    <3>3. PrepOK(f)'
      BY <1>3, <3>1, <3>2 DEF PrepOK, t
    <3>4. QED
      BY <1>1, <1>4, <2>1, <2>4, <3>1, <3>3, EarlyWork
  <2>5. QED
    BY <2>2, <2>3, <2>4
<1>7. QED
  BY <1>5, <1>6, ToolFacts

LEMMA DwzWork ==
    ASSUME Flow, Work, NoKilledTool, NEW a \in Arch, NEW o \in ToolOutcome, DoOptimize(a, o)
    PROVE  Work'
<1>1. /\ Dwz(a) \in executing /\ Dwz(a) \in Task /\ TypeOK /\ PoolOK
      /\ UNCHANGED scriptVars /\ UNCHANGED <<mode, saved, debug, visited, installed>>
      /\ "value" \in Results(Dwz(a))
      /\ \A f \in File : Dwz(a) # StripTask(f) /\ Preprocess(f) # Dwz(a)
      /\ Dwz(a) # Copy /\ \A b \in Arch : Dwz(b) = Dwz(a) => b = a
  BY Kinds, KindResults DEF DoOptimize, AfterTool, At, Flow
<1>2. CASE Throw(Dwz(a)) /\ done' = done
  BY <1>1, <1>2, ThrowWork DEF diskVars
<1>3. CASE a # "unknown" /\ o = "exit"
  <2>1. Throw(Dwz(a)) /\ Mark({Ino(f) : f \in byArch[a]}, "dwz", o)
    BY <1>3, ToolFacts DEF DoOptimize, AfterTool
  <2>2. done' = done
    BY <1>1, <1>3, <2>1, MarkFacts
  <2>3. QED
    BY <1>2, <2>1, <2>2
<1>4. CASE a # "unknown" /\ o = "ok"
  <2>1. Return(Dwz(a), "value") /\ Mark({Ino(f) : f \in byArch[a]}, "dwz", o)
    BY <1>4, ToolFacts DEF DoOptimize, AfterTool
  <2>2. \A u \in Task : u # Dwz(a) => pc'[u] = pc[u] /\ future'[u] = future[u]
    BY <1>1, <2>1, ReturnFacts
  <2>3. \A i \in Inode : done[i] \subseteq done'[i] /\ done'[i] \subseteq done[i] \cup {"dwz"}
    BY <1>1, <2>1, MarkFacts
  <2>4. ASSUME NEW f \in byArch[a] PROVE "dwz" \in Done(f)'
    <3>1. Ino(f) \in Inode /\ Ino(f)' = Ino(f) /\ Ino(f) \in {Ino(g) : g \in byArch[a]}
      BY <1>1, InputFacts DEF TypeOK, Ino, scriptVars
    <3>2. QED
      BY <1>1, <1>4, <2>1, <3>1, MarkFacts DEF Done
  <2>5. "dwz" \in Stages
    <3>1. future[Dwz(a)] # "none"
      BY <1>1 DEF PoolOK, TaskOK
    <3>2. input.optimize
      BY <3>1 DEF Flow, MainOK
    <3>3. QED
      BY <3>2 DEF Stages
  <2>6. QED
    BY <1>1, <2>2, <2>3, <2>4, <2>5, EarlyWork
<1>5. QED
  BY <1>2, <1>3, <1>4, ToolFacts DEF DoOptimize

(* A file that is being stripped: it was prepared and optimised, and has   *)
(* its inode for itself.                                                   *)
LEMMA BeingStripped ==
    ASSUME Flow, Work, NEW f \in File, StripTask(f) \in executing
    PROVE  /\ future[StripTask(f)] = "pending" /\ StripOK(f) /\ Ino(f) \in Inode
           /\ \A g \in File : g # f => Ino(g) # Ino(f)
           /\ Required \ {"kept"} \subseteq Done(f)
<1>1. /\ future[StripTask(f)] = "pending" /\ StripOK(f) /\ PrepOK(f) /\ OptOK(f)
      /\ Ino(f) \in Inode /\ Node(f).arch \in Arch
  BY Kinds, InputFacts DEF Flow, PoolOK, TaskOK, Work
<1>2. f \in Found(byArch) /\ DwzDone /\ main # "classify"
  BY <1>1 DEF Flow, MainOK, MembersOK
<1>3. Result(f) = "value" /\ f \in byArch[Node(f).arch]
  BY <1>1, <1>2 DEF Flow, MembersOK
<1>4. Unique(f) /\ "debugedit" \in Done(f)
  BY <1>1, <1>3 DEF Flow, ClassOK, PrepOK, Prepared
<1>5. input.optimize => "dwz" \in Done(f)
  BY <1>1, <1>2, <1>3 DEF DwzDone, OptOK
<1>6. QED
  BY <1>1, <1>4, <1>5 DEF Required, Unique

(* A step of the task that strips file f concerns no other file.           *)
LEMMA StripTaskWork ==
    ASSUME Flow, Work, NEW f \in File, StripTask(f) \in executing,
           UNCHANGED scriptVars, UNCHANGED <<visited, installed>>,
           \A u \in Task : u # StripTask(f) => pc'[u] = pc[u] /\ future'[u] = future[u],
           \A i \in Inode : /\ done[i] \subseteq done'[i]
                            /\ done'[i] \subseteq done[i] \cup {"minidebug", "strip", "debuglink"},
           \A i \in Inode : i # Ino(f) => done'[i] = done[i] /\ mode'[i] = mode[i],
           \A g \in File : g # f => debug'[g] = debug[g] /\ saved'[g] = saved[g],
           StripOK(f)'
    PROVE  Work'
<1>1. /\ UNCHANGED <<input, byArch, sourceFiles>> /\ Stages' = Stages
      /\ {"minidebug", "strip", "debuglink"} \subseteq Stages
      /\ \A g \in File : Ino(g)' = Ino(g) /\ Ino(g) \in Inode
  BY InputFacts DEF scriptVars, memberVars, Ino, Stages, Flow
<1>2. ASSUME NEW g \in File PROVE PrepOK(g)' /\ OptOK(g)' /\ StripOK(g)'
  <2>1. PrepOK(g) /\ OptOK(g) /\ StripOK(g) /\ Done(g) \subseteq Done(g)'
    BY <1>1 DEF Work, Done
  <2>2. PrepOK(g)'
    BY <1>1, <2>1, PrepStays, Kinds DEF Result
  <2>3. OptOK(g)'
    BY <1>1, <2>1, OptStays, Kinds
  <2>4. ASSUME g # f PROVE StripOK(g)'
    <3>1. Ino(g) # Ino(f)
      BY <2>4, BeingStripped
    <3>2. Done(g)' = Done(g) /\ mode'[Ino(g)] = mode[Ino(g)]
      BY <1>1, <3>1 DEF Done
    <3>3. /\ StepOf(g)' = StepOf(g) /\ future'[StripTask(g)] = future[StripTask(g)]
      BY <2>4, Kinds DEF StepOf
    <3>4. QED
      BY <1>1, <2>1, <2>4, <3>2, <3>3, StripStays
  <2>5. QED
    BY <2>2, <2>3, <2>4
<1>3. \A i \in Inode : done'[i] \subseteq Stages'
  BY <1>1 DEF Work
<1>4. CopyOK'
  BY <1>1, Kinds DEF Work, CopyOK
<1>5. QED
  BY <1>2, <1>3, <1>4 DEF Work

(* What moving from step to step means for StripOK.                        *)
LEMMA StripGoto ==
    ASSUME Flow, Work, NEW f \in File, StripTask(f) \in executing, UNCHANGED scriptVars,
           NEW step \in Steps(StripTask(f)), Goto(StripTask(f), step)
    PROVE  /\ StepOf(f)' = step /\ future'[StripTask(f)] = "pending"
           /\ \A u \in Task : u # StripTask(f) => pc'[u] = pc[u] /\ future'[u] = future[u]
           /\ input' = input /\ Ino(f)' = Ino(f) /\ Done(f)' = done'[Ino(f)] /\ Required' = Required
<1>1. TypeOK /\ PoolOK
  BY DEF Flow
<1>2. /\ pc'[StripTask(f)] = step /\ future' = future
      /\ \A u \in Task : u # StripTask(f) => pc'[u] = pc[u]
  BY <1>1, GotoFacts
<1>3. future[StripTask(f)] = "pending"
  BY BeingStripped
<1>4. input' = input
  BY DEF scriptVars
<1>5. QED
  BY <1>2, <1>3, <1>4 DEF StepOf, Ino, Done, Required

(* A tool of the task that strips f fails: the task throws, and the files  *)
(* are as they were.                                                       *)
LEMMA StripToolFails ==
    ASSUME Flow, Work, NoKilledTool, NEW f \in File, NEW o \in ToolOutcome, o # "ok",
           \/ Symbols(f, o) \/ AddMinidebug(f, o) \/ KeepDebug(f, o)
           \/ StripSections(f, o) \/ AddDebuglink(f, o) \/ CompressDebug(f, o)
    PROVE  Work'
<1>1. Status(o) # 0 /\ TypeOK
  BY ToolFacts DEF Flow
<1>2. StripTask(f) \in executing /\ Throw(StripTask(f)) /\ UNCHANGED scriptVars
  <2>1. CASE Symbols(f, o) \/ AddMinidebug(f, o) \/ KeepDebug(f, o)
    BY <1>1, <2>1 DEF Symbols, AddMinidebug, KeepDebug, AfterTool, At
  <2>2. CASE StripSections(f, o) \/ AddDebuglink(f, o) \/ CompressDebug(f, o)
    BY <1>1, <2>2 DEF StripSections, AddDebuglink, CompressDebug, AfterTool, At
  <2>3. QED
    BY <2>1, <2>2
<1>3. UNCHANGED diskVars
  <2>1. CASE Symbols(f, o) \/ KeepDebug(f, o) \/ CompressDebug(f, o)
    BY <2>1 DEF Symbols, KeepDebug, CompressDebug, diskVars
  <2>2. CASE AddMinidebug(f, o) \/ StripSections(f, o) \/ AddDebuglink(f, o)
    <3>1. \E stage : Mark({Ino(f)}, stage, o)
      BY <2>2 DEF AddMinidebug, StripSections, AddDebuglink
    <3>2. done' = done
      BY <1>1, <3>1, MarkFacts
    <3>3. QED
      BY <2>2, <3>2 DEF AddMinidebug, StripSections, AddDebuglink, diskVars
  <2>3. QED
    BY <2>1, <2>2
<1>4. QED
  BY <1>2, <1>3, ThrowWork

(* The first half of the task, create_minidebug.                           *)
LEMMA MinidebugWork ==
    ASSUME Flow, Work, NoKilledTool, NEW f \in File,
           \/ Symbols(f, "ok")
           \/ Unlock(f, "unlock_minidebug", "minidebug") \/ Unlock(f, "unlock_strip", "strip")
           \/ AddMinidebug(f, "ok")
           \/ Restore(f, "restore_minidebug", Goto(StripTask(f), "keep_debug"))
    PROVE  Work'
<1> DEFINE t == StripTask(f)
<1>1. /\ t \in executing /\ UNCHANGED scriptVars /\ TypeOK
      /\ UNCHANGED <<visited, installed>> /\ debug' = debug
  BY DEF Symbols, Unlock, AddMinidebug, Restore, AfterTool, At, Flow, diskVars
<1>2. /\ StripOK(f) /\ Ino(f) \in Inode /\ future[t] = "pending"
      /\ mode \in [Inode -> {"original", "forced"}] /\ saved \in [File -> {"original", "forced"}]
  BY <1>1, BeingStripped DEF TypeOK
<1>3. CASE Symbols(f, "ok")
  <2>1. Goto(t, "unlock_minidebug") /\ pc[t] = "symbols" /\ UNCHANGED diskVars
    BY <1>3 DEF Symbols, AfterTool, At, Status
  <2>2. UNCHANGED <<done, mode, saved, debug>>
    BY <2>1 DEF diskVars
  <2>3. "unlock_minidebug" \in Steps(t)
    BY KindSteps
  <2>4. StripOK(f)'
    BY <1>1, <1>2, <2>1, <2>2, <2>3, StripGoto DEF StripOK, Unlocked, Done, StepOf
  <2>5. QED
    BY <1>1, <2>1, <2>2, <2>3, <2>4, StripGoto, StripTaskWork
<1>4. ASSUME NEW here \in {"unlock_minidebug", "unlock_strip"},
             NEW then \in {"minidebug", "strip"}, Unlock(f, here, then),
             here = "unlock_strip" <=> then = "strip"
      PROVE  Work'
  <2>1. /\ Goto(t, then) /\ pc[t] = here /\ done' = done
        /\ saved' = [saved EXCEPT ![f] = mode[Ino(f)]]
        /\ mode' = [mode EXCEPT ![Ino(f)] = IF Node(f).writable THEN @ ELSE "forced"]
    BY <1>4 DEF Unlock, At
  <2>2. mode[Ino(f)] = "original"
    BY <1>2, <2>1 DEF StripOK, StepOf, Unlocked
  <2>3. /\ saved'[f] = "original" /\ \A g \in File : g # f => saved'[g] = saved[g]
        /\ \A i \in Inode : i # Ino(f) => mode'[i] = mode[i]
    BY <1>2, <2>1, <2>2
  <2>4. then \in Steps(t)
    BY KindSteps
  <2>5. StripOK(f)'
    BY <1>1, <1>2, <1>4, <2>1, <2>3, <2>4, StripGoto DEF StripOK, Unlocked, Done, StepOf
  <2>6. QED
    BY <1>1, <2>1, <2>3, <2>4, <2>5, StripGoto, StripTaskWork
<1>5. CASE AddMinidebug(f, "ok")
  <2>1. /\ Goto(t, "restore_minidebug") /\ pc[t] = "minidebug" /\ UNCHANGED <<mode, saved>>
        /\ Mark({Ino(f)}, "minidebug", "ok")
    BY <1>5 DEF AddMinidebug, AfterTool, At, Status
  <2>2. /\ \A i \in Inode : /\ done[i] \subseteq done'[i]
                            /\ done'[i] \subseteq done[i] \cup {"minidebug"}
                            /\ i # Ino(f) => done'[i] = done[i]
        /\ "minidebug" \in done'[Ino(f)]
    BY <1>1, <1>2, <2>1, MarkFacts
  <2>3. "restore_minidebug" \in Steps(t)
    BY KindSteps
  <2>4. StripOK(f)'
    BY <1>1, <1>2, <2>1, <2>2, <2>3, StripGoto DEF StripOK, Unlocked, Done, StepOf
  <2>5. QED
    BY <1>1, <2>1, <2>2, <2>3, <2>4, StripGoto, StripTaskWork
<1>6. CASE Restore(f, "restore_minidebug", Goto(StripTask(f), "keep_debug"))
  <2>1. /\ Goto(t, "keep_debug") /\ pc[t] = "restore_minidebug" /\ UNCHANGED <<done, saved>>
        /\ mode' = [mode EXCEPT ![Ino(f)] = saved[f]]
    BY <1>6 DEF Restore, At
  <2>2. /\ mode'[Ino(f)] = "original"
        /\ \A i \in Inode : i # Ino(f) => mode'[i] = mode[i]
    BY <1>2, <2>1 DEF StripOK, StepOf, Unlocked
  <2>3. "keep_debug" \in Steps(t)
    BY KindSteps
  <2>4. StripOK(f)'
    BY <1>1, <1>2, <2>1, <2>2, <2>3, StripGoto DEF StripOK, Unlocked, Done, StepOf
  <2>5. QED
    BY <1>1, <2>1, <2>2, <2>3, <2>4, StripGoto, StripTaskWork
<1>7. QED
  BY <1>3, <1>4, <1>5, <1>6

(* The second half: keep the debug file, strip, link, compress.            *)
LEMMA SplitWork ==
    ASSUME Flow, Work, NoKilledTool, NEW f \in File,
           \/ KeepDebug(f, "ok") \/ StripSections(f, "ok") \/ AddDebuglink(f, "ok")
           \/ CompressDebug(f, "ok") \/ Restore(f, "restore_strip", Return(StripTask(f), "value"))
    PROVE  Work'
<1> DEFINE t == StripTask(f)
<1>1. /\ t \in executing /\ UNCHANGED scriptVars /\ TypeOK /\ PoolOK /\ UNCHANGED <<visited, installed>>
  BY DEF KeepDebug, StripSections, AddDebuglink, CompressDebug, Restore, AfterTool, At, Flow
<1>2. /\ StripOK(f) /\ Ino(f) \in Inode /\ future[t] = "pending"
      /\ mode \in [Inode -> {"original", "forced"}] /\ done \in [Inode -> SUBSET Stage]
      /\ debug \in [File -> SUBSET (Stage \cup {"kept", "compressed"})]
  BY <1>1, BeingStripped DEF TypeOK
<1>3. CASE KeepDebug(f, "ok")
  <2>1. /\ Goto(t, "unlock_strip") /\ pc[t] = "keep_debug" /\ UNCHANGED <<done, mode, saved>>
        /\ debug' = [debug EXCEPT ![f] = {"kept"} \cup (done[Ino(f)] \ {"minidebug"})]
    BY <1>3 DEF KeepDebug, AfterTool, At, Status
  <2>2. /\ debug'[f] = {"kept"} \cup (Done(f) \ {"minidebug"})
        /\ \A g \in File : g # f => debug'[g] = debug[g]
    BY <1>2, <2>1 DEF Done
  <2>3. Required \subseteq debug'[f]
    BY <1>1, <2>2, BeingStripped DEF Required
  <2>4. "unlock_strip" \in Steps(t)
    BY KindSteps
  <2>5. StripOK(f)'
    BY <1>1, <1>2, <2>1, <2>3, <2>4, StripGoto DEF StripOK, Unlocked, Done, StepOf
  <2>6. QED
    BY <1>1, <2>1, <2>2, <2>4, <2>5, StripGoto, StripTaskWork
<1>4. CASE StripSections(f, "ok") \/ AddDebuglink(f, "ok")
  <2>1. PICK stage \in {"strip", "debuglink"}, step \in {"debuglink", "compress", "restore_strip"} :
           /\ Goto(t, step) /\ pc[t] = stage /\ UNCHANGED <<mode, saved, debug>>
           /\ Mark({Ino(f)}, stage, "ok")
           /\ stage = "strip" <=> step = "debuglink"
           /\ input.compress => step # "restore_strip"
    BY <1>4 DEF StripSections, AddDebuglink, AfterTool, At, Status
  <2>2. /\ \A i \in Inode : /\ done[i] \subseteq done'[i]
                            /\ done'[i] \subseteq done[i] \cup {stage}
                            /\ i # Ino(f) => done'[i] = done[i]
        /\ stage \in done'[Ino(f)]
    BY <1>1, <1>2, <2>1, MarkFacts
  <2>3. step \in Steps(t)
    BY KindSteps
  <2>4. StripOK(f)'
    BY <1>1, <1>2, <2>1, <2>2, <2>3, StripGoto DEF StripOK, Unlocked, Done, StepOf
  <2>5. QED
    BY <1>1, <2>1, <2>2, <2>3, <2>4, StripGoto, StripTaskWork
<1>5. CASE CompressDebug(f, "ok")
  <2>1. /\ Goto(t, "restore_strip") /\ pc[t] = "compress" /\ UNCHANGED <<done, mode, saved>>
        /\ debug' = [debug EXCEPT ![f] = @ \cup {"compressed"}]
    BY <1>5 DEF CompressDebug, AfterTool, At, Status
  <2>2. /\ debug'[f] = debug[f] \cup {"compressed"}
        /\ \A g \in File : g # f => debug'[g] = debug[g]
    BY <1>2, <2>1
  <2>3. "restore_strip" \in Steps(t)
    BY KindSteps
  <2>4. StripOK(f)'
    BY <1>1, <1>2, <2>1, <2>2, <2>3, StripGoto DEF StripOK, Unlocked, Done, StepOf
  <2>5. QED
    BY <1>1, <2>1, <2>2, <2>3, <2>4, StripGoto, StripTaskWork
<1>6. CASE Restore(f, "restore_strip", Return(StripTask(f), "value"))
  <2>1. /\ Return(t, "value") /\ pc[t] = "restore_strip" /\ UNCHANGED <<done, saved, debug>>
        /\ mode' = [mode EXCEPT ![Ino(f)] = saved[f]]
    BY <1>6 DEF Restore, At
  <2>2. /\ mode'[Ino(f)] = "original"
        /\ \A i \in Inode : i # Ino(f) => mode'[i] = mode[i]
    BY <1>2, <2>1 DEF StripOK, StepOf, Unlocked
  <2>3. "value" \in Results(t)
    BY KindResults
  <2>4. /\ pc'[t] = "none" /\ future'[t] = "value"
        /\ \A u \in Task : u # t => pc'[u] = pc[u] /\ future'[u] = future[u]
    BY <1>1, <2>1, <2>3, ReturnFacts
  <2>5. /\ input' = input /\ Ino(f)' = Ino(f) /\ Done(f)' = Done(f) /\ Required' = Required
        /\ StepOf(f) = "restore_strip" /\ StepOf(f)' = "none"
    BY <1>1, <2>1, <2>4 DEF scriptVars, Ino, Done, Required, StepOf
  <2>6. StripOK(f)'
    BY <1>2, <2>1, <2>2, <2>4, <2>5 DEF StripOK, Unlocked
  <2>7. QED
    BY <1>1, <2>1, <2>2, <2>4, <2>6, StripTaskWork
<1>7. QED
  BY <1>3, <1>4, <1>5, <1>6

LEMMA TaskStepWork ==
    ASSUME Flow, Work, NoKilledTool, TaskStep PROVE Work'
<1>1. ASSUME NEW f \in File, StripAction(f) PROVE Work'
  <2>1. CASE \E o \in ToolOutcome \ {"ok"} :
                \/ Symbols(f, o) \/ AddMinidebug(f, o) \/ KeepDebug(f, o)
                \/ StripSections(f, o) \/ AddDebuglink(f, o) \/ CompressDebug(f, o)
    BY <2>1, StripToolFails
  <2>2. QED
    BY <1>1, <2>1, MinidebugWork, SplitWork DEF StripAction
<1>2. ASSUME NEW f \in File, FileStep(f)
      PROVE  \/ Inspect(f) \/ StripAction(f)
             \/ \E o \in ToolOutcome : DebugEdit(f, o) \/ Decompress(f, o)
  BY <1>2 DEF FileStep, StripAction
<1>3. QED
  BY <1>1, <1>2, InspectWork, PreprocessWork, DwzWork, CopyWork DEF TaskStep

LEMMA InitWork == Init => Work
<1> SUFFICES ASSUME Init PROVE Work
  OBVIOUS
<1>1. /\ \A t \in Task : future[t] = "none" /\ pc[t] = "none"
      /\ \A f \in File : Ino(f) \in Inode
      /\ \A i \in Inode : done[i] = {} /\ mode[i] = "original"
  BY InputFacts, InitFlow DEF Init, Flow
<1>2. ASSUME NEW f \in File PROVE PrepOK(f) /\ OptOK(f) /\ StripOK(f)
  BY <1>1, Kinds DEF PrepOK, OptOK, StripOK, Result, StepOf, Done, Unlocked
<1>3. CopyOK
  BY <1>1, Kinds DEF Init, CopyOK
<1>4. \A i \in Inode : done[i] \subseteq Stages
  BY <1>1
<1>5. QED
  BY <1>2, <1>3, <1>4 DEF Work

LEMMA NextWork ==
    ASSUME NoKilledTool PROVE Flow /\ Work /\ [Next]_vars => Work'
  BY StartWork, TaskStepWork, MainWork, GoneWork DEF Next

LEMMA WorkInvariance ==
    ASSUME NoKilledTool PROVE Spec => [](Flow /\ Work)
<1>1. Flow /\ Work /\ [Next]_vars => (Flow /\ Work)'
  BY NextFlow, NextWork
<1>2. QED
  BY <1>1, InitFlow, InitWork, PTL DEF Spec

(* The debug sections of a binary are thrown away only when its .debug     *)
(* file holds them as debugedit and dwz left them, whatever fails or is    *)
(* abandoned; no tool being killed by a signal, which StripperKilledTool   *)
(* shows to be necessary.                                                  *)
THEOREM DebugKept ==
    ASSUME NoKilledTool PROVE Spec => []DebugInfoKept
<1>1. Flow /\ Work => DebugInfoKept
  BY DEF Work, StripOK, Done, Required, DebugInfoKept
<1>2. QED
  BY <1>1, WorkInvariance, PTL

(* Exit status 0 means that every ELF file went through every stage, has   *)
(* its permissions back, and has in DESTDIR those of its sources that the  *)
(* build root has.                                                         *)
THEOREM Complete ==
    ASSUME NoKilledTool PROVE Spec => []SuccessIsComplete
<1>1. Flow /\ Work => SuccessIsComplete
  <2> SUFFICES ASSUME Flow, Work, status = "success", NEW f \in File, Node(f).kind = "elf"
               PROVE  /\ done[Ino(f)] = Stages /\ mode[Ino(f)] = "original"
                      /\ input.sources[f] \cap input.present \subseteq installed
                      /\ input.compress => "compressed" \in debug[f]
    BY DEF SuccessIsComplete
  <2>1. /\ Classified /\ NoErrors /\ DwzDone /\ StripsDone /\ future[Copy] = "value"
        /\ verdict = "true" /\ main # "classify"
    BY DEF Flow, MainOK
  <2>2. Result(f) \in {"value", "null"}
    BY <2>1, Kinds, KindResults DEF Flow, PoolOK, TaskOK, Classified, Settled, NoErrors, Result
  <2>3. Result(f) = "value"
    BY <2>2 DEF Flow, ClassOK
  <2>4. /\ f \in Found(byArch) /\ Ino(f) \in Inode /\ Node(f).arch \in Arch
        /\ f \in byArch[Node(f).arch]
    BY <2>1, <2>3, InputFacts DEF Flow, MembersOK
  <2>5. future[StripTask(f)] = "value" /\ StepOf(f) = "none"
    <3>1. future[StripTask(f)] = "value"
      BY <2>1, <2>4 DEF StripsDone
    <3>2. StripTask(f) \notin executing
      BY <3>1, Kinds DEF Flow, PoolOK, TaskOK
    <3>3. QED
      BY <3>1, <3>2, Kinds DEF Flow, TypeOK, StepOf
  <2>6. mode[Ino(f)] = "original" /\ (input.compress => "compressed" \in debug[f])
    BY <2>5 DEF Work, StripOK, Unlocked
  <2>7. Stages \subseteq done[Ino(f)]
    <3>1. {"minidebug", "strip", "debuglink"} \subseteq done[Ino(f)]
      BY <2>5 DEF Work, StripOK, Done
    <3>2. Prepared \subseteq done[Ino(f)]
      BY <2>3 DEF Work, PrepOK, Done
    <3>3. input.optimize => "dwz" \in done[Ino(f)]
      BY <2>1, <2>4 DEF DwzDone, Work, OptOK, Done
    <3>4. QED
      BY <3>1, <3>2, <3>3 DEF Stages, Prepared
  <2>8. /\ input.sources[f] \cap input.present \subseteq installed
        /\ done[Ino(f)] \subseteq Stages
    <3>1. input.sources[f] \subseteq sourceFiles
      BY <2>4 DEF Flow, MembersOK
    <3>2. QED
      BY <2>1, <2>4, <3>1 DEF Work, CopyOK
  <2>9. QED
    BY <2>6, <2>7, <2>8
<1>2. QED
  BY <1>1, WorkInvariance, PTL
=============================================================================
