------------------------------ MODULE Stripper ------------------------------
(***************************************************************************)
(* files/stripper/main.cpp: the script object that splits the debug        *)
(* information out of every ELF file of an install tree.                   *)
(*                                                                         *)
(* The main thread runs operator(): classify, copy_source, run_opt, strip. *)
(* Each of these posts tasks to the thread pool and waits for futures; the *)
(* pool is the one Executor specifies, which ThreadPool implements.  The   *)
(* external tools (debugedit, dwz, objcopy, ...) rewrite files in place;   *)
(* what a file has been through is recorded as a set of stages.            *)
(***************************************************************************)
EXTENDS Naturals, Sequences, FiniteSets

CONSTANTS File,          \* regular files of install_root that may be ELF
          Inode,         \* their inodes: hard links share one
          Source,        \* source paths, relative to the build root
          ArchOrder,     \* known_arch, in the order of the enumeration
          Jobs,          \* the size of the pool
          ToolOutcome,   \* how a tool may end: see Status
          Inputs         \* the trees, toolchains and options considered

Arch == {ArchOrder[k] : k \in DOMAIN ArchOrder}

Kind == {"data", "stripped", "broken", "elf"}

(* A tree, what debugedit lists for each file, the sources that the build  *)
(* root has (files or directories) and those that DESTDIR has already.     *)
Input == [link       : [File -> Inode],
          node       : [Inode -> [kind : Kind, arch : Arch, writable : BOOLEAN]],
          sources    : [File -> SUBSET Source],
          present    : SUBSET Source,
          there      : SUBSET Source,
          toolchains : SUBSET (Arch \ {"unknown"}),
          optimize   : BOOLEAN,
          compress   : BOOLEAN]

ASSUME FileAssumption    == IsFiniteSet(File)
ASSUME JobsAssumption    == Jobs \in Nat
ASSUME OutcomeAssumption == ToolOutcome \subseteq {"ok", "exit", "signal"}
ASSUME InputsAssumption  == Inputs \subseteq Input

Preprocess(f) == <<"preprocess", f>>
Dwz(a)        == <<"dwz", a>>
StripTask(f)  == <<"strip", f>>
Copy          == <<"copy", "sources">>

Task == {Preprocess(f) : f \in File} \cup {StripTask(f) : f \in File}
          \cup {Dwz(a) : a \in Arch} \cup {Copy}

VARIABLES
    input,                                \* constant during a run
    main,                                 \* where the main thread is
    verdict,                              \* what operator() returned
    status,                               \* how the process ended
    alive,                                \* the members of script exist
    byArch, sourceFiles,                  \* the two members classify fills
    queue, executing, finished, phase,    \* the pool, as in Executor
    future,                               \* the future of each task
    pc,                                   \* where each executing task is
    done,                                 \* the stages each inode went through
    mode, saved,                          \* permissions, and status(binary)
    debug,                                \* what each .debug file contains
    visited,                              \* the sources copy_source has seen
    installed                             \* the sources that are in DESTDIR

poolVars   == <<queue, executing, finished, phase>>
memberVars == <<byArch, sourceFiles>>
mainVars   == <<main, verdict, alive>>
diskVars   == <<done, mode, saved, debug, visited, installed>>
scriptVars == <<input, mainVars, status, memberVars>>
vars == <<scriptVars, poolVars, future, pc, diskVars>>

Pool == INSTANCE Executor WITH Size <- Jobs

Ino(f)   == input.link[f]
Node(f)  == input.node[Ino(f)]
Nlink(f) == Cardinality({g \in File : Ino(g) = Ino(f)})

Init ==
    /\ input \in Inputs
    /\ main = "classify" /\ verdict = "none" /\ status = "running"
    /\ alive = TRUE
    /\ byArch = [a \in Arch |-> {}]
    /\ sourceFiles = {}
    /\ Pool!ExecInit
    /\ future = [t \in Task |-> "none"]
    /\ pc = [t \in Task |-> "none"]
    /\ done = [i \in Inode |-> {}]
    /\ mode = [i \in Inode |-> "original"]
    /\ saved = [f \in File |-> "original"]
    /\ debug = [f \in File |-> {}]
    /\ visited = {}
    /\ installed = input.there
-----------------------------------------------------------------------------
(***************************************************************************)
(* Tasks.                                                                  *)
(***************************************************************************)
FirstStep(t) ==
    CASE t[1] = "preprocess" -> "inspect"
      [] t[1] = "dwz"        -> "dwz"
      [] t[1] = "strip"      -> "symbols"
      [] t[1] = "copy"       -> "copy"

At(t, step) == status = "running" /\ t \in executing /\ pc[t] = step

(* A worker takes the oldest task. *)
StartTask ==
    /\ status = "running"
    /\ Pool!Start
    /\ pc' = [pc EXCEPT ![Head(queue)] = FirstStep(Head(queue))]
    /\ UNCHANGED <<scriptVars, future, diskVars>>

Goto(t, step) ==
    /\ pc' = [pc EXCEPT ![t] = step]
    /\ UNCHANGED <<future, poolVars>>

(* The packaged_task stores what the task returned, or the exception.      *)
Return(t, value) ==
    /\ Pool!Finish(t)
    /\ pc' = [pc EXCEPT ![t] = "none"]
    /\ future' = [future EXCEPT ![t] = value]

Throw(t) == Return(t, "error")

(* What run() returns for a tool that did its work ("ok"), that exited     *)
(* with a failure ("exit") or that a signal killed: WEXITSTATUS of the     *)
(* wait status, which is 0 when there was no exit.                         *)
Status(o) == IF o = "exit" THEN 1 ELSE 0

(* Task t, at step `here', has run a tool that ended with o. *)
AfterTool(t, here, o, continue) ==
    /\ At(t, here)
    /\ IF Status(o) # 0 THEN Throw(t) ELSE continue

(* A tool leaves its mark on the files it was given when it did its work.  *)
Mark(inodes, stage, o) ==
    done' = [i \in Inode |-> IF i \in inodes /\ o = "ok"
                             THEN done[i] \cup {stage} ELSE done[i]]

(* preprocess_file up to the first tool: the file is left alone when it is *)
(* no ELF file or already has a debug link, and refused when its section   *)
(* headers make no sense or another name shares its inode.                 *)
InspectAnyLinks(f) ==                 \* mutation of Inspect: st_nlink ignored
    LET t == Preprocess(f) IN
    /\ At(t, "inspect")
    /\ CASE Node(f).kind \in {"data", "stripped"}   -> Return(t, "null")
         [] Node(f).kind = "broken"                 -> Throw(t)
         [] Node(f).kind = "elf"                    -> Goto(t, "debugedit")
    /\ UNCHANGED <<scriptVars, diskVars>>

InspectAgain(f) ==                    \* mutation: has_debuglink not asked
    LET t == Preprocess(f) IN
    /\ At(t, "inspect")
    /\ CASE Node(f).kind = "data"                  -> Return(t, "null")
         [] Node(f).kind = "broken" \/ Nlink(f) > 1 -> Throw(t)
         [] OTHER                                   -> Goto(t, "debugedit")
    /\ UNCHANGED <<scriptVars, diskVars>>

Inspect(f) ==
    LET t == Preprocess(f) IN
    /\ At(t, "inspect")
    /\ CASE Node(f).kind \in {"data", "stripped"}   -> Return(t, "null")
         [] Node(f).kind = "broken"                 -> Throw(t)
         [] Node(f).kind = "elf" /\ Nlink(f) > 1    -> Throw(t)
         [] Node(f).kind = "elf" /\ Nlink(f) = 1    -> Goto(t, "debugedit")
    /\ UNCHANGED <<scriptVars, diskVars>>

DebugEdit(f, o) ==
    /\ AfterTool(Preprocess(f), "debugedit", o,
                 IF input.optimize /\ input.compress
                 THEN Goto(Preprocess(f), "decompress")
                 ELSE Return(Preprocess(f), "value"))
    /\ Mark({Ino(f)}, "debugedit", o)
    /\ UNCHANGED <<scriptVars, mode, saved, debug, visited, installed>>

Decompress(f, o) ==
    /\ AfterTool(Preprocess(f), "decompress", o, Return(Preprocess(f), "value"))
    /\ Mark({Ino(f)}, "decompress", o)
    /\ UNCHANGED <<scriptVars, mode, saved, debug, visited, installed>>

(* One dwz over all binaries of an architecture, which it rewrites. *)
DoOptimize(a, o) ==
    /\ IF a = "unknown"
       THEN At(Dwz(a), "dwz") /\ Throw(Dwz(a)) /\ UNCHANGED done
       ELSE /\ AfterTool(Dwz(a), "dwz", o, Return(Dwz(a), "value"))
            /\ Mark({Ino(f) : f \in byArch[a]}, "dwz", o)
    /\ UNCHANGED <<scriptVars, mode, saved, debug, visited, installed>>

(* create_minidebug up to the section it will add: nm twice, objcopy       *)
(* twice, xz.  The list of symbols always holds the empty line read at the *)
(* end of nm's output, so the early return for no symbols is never taken.  *)
Symbols(f, o) ==
    /\ AfterTool(StripTask(f), "symbols", o, Goto(StripTask(f), "unlock_minidebug"))
    /\ UNCHANGED <<scriptVars, diskVars>>

(* status(binary), then chmod 0755 when the file cannot be written. *)
Unlock(f, here, then) ==
    /\ At(StripTask(f), here)
    /\ Goto(StripTask(f), then)
    /\ saved' = [saved EXCEPT ![f] = mode[Ino(f)]]
    /\ mode' = [mode EXCEPT ![Ino(f)] = IF Node(f).writable THEN @ ELSE "forced"]
    /\ UNCHANGED <<scriptVars, done, debug, visited, installed>>

(* chmod back to what status(binary) said: not reached after an exception. *)
RestoreNothing(f, here, continue) ==  \* mutation of Restore: no chmod
    /\ At(StripTask(f), here)
    /\ continue
    /\ UNCHANGED <<scriptVars, diskVars>>

Restore(f, here, continue) ==
    /\ At(StripTask(f), here)
    /\ continue
    /\ mode' = [mode EXCEPT ![Ino(f)] = saved[f]]
    /\ UNCHANGED <<scriptVars, done, saved, debug, visited, installed>>

AddMinidebug(f, o) ==
    /\ AfterTool(StripTask(f), "minidebug", o, Goto(StripTask(f), "restore_minidebug"))
    /\ Mark({Ino(f)}, "minidebug", o)
    /\ UNCHANGED <<scriptVars, mode, saved, debug, visited, installed>>

(* objcopy --only-keep-debug: the .debug file has the binary's debug       *)
(* information as it is at this moment.                                    *)
KeepDebug(f, o) ==
    /\ AfterTool(StripTask(f), "keep_debug", o, Goto(StripTask(f), "unlock_strip"))
    /\ debug' = IF o = "ok"
                THEN [debug EXCEPT ![f] = {"kept"} \cup (done[Ino(f)] \ {"minidebug"})]
                ELSE debug
    /\ UNCHANGED <<scriptVars, done, mode, saved, visited, installed>>

StripSections(f, o) ==
    /\ AfterTool(StripTask(f), "strip", o, Goto(StripTask(f), "debuglink"))
    /\ Mark({Ino(f)}, "strip", o)
    /\ UNCHANGED <<scriptVars, mode, saved, debug, visited, installed>>

AddDebuglink(f, o) ==
    /\ AfterTool(StripTask(f), "debuglink", o,
                 Goto(StripTask(f), IF input.compress THEN "compress"
                                    ELSE "restore_strip"))
    /\ Mark({Ino(f)}, "debuglink", o)
    /\ UNCHANGED <<scriptVars, mode, saved, debug, visited, installed>>

CompressDebug(f, o) ==
    /\ AfterTool(StripTask(f), "compress", o, Goto(StripTask(f), "restore_strip"))
    /\ debug' = IF o = "ok" THEN [debug EXCEPT ![f] = @ \cup {"compressed"}]
                ELSE debug
    /\ UNCHANGED <<scriptVars, done, mode, saved, visited, installed>>

(* copy_source walks over source_files (the order of the set is left       *)
(* open).  What DESTDIR has is left as it is, what the build root does not *)
(* have is passed over in silence, and the rest is copied, or created when *)
(* it is a directory; each of these may throw.                             *)
CopyOne(s) ==
    /\ At(Copy, "copy")
    /\ s \in sourceFiles \ visited
    /\ \/ /\ installed' = IF s \notin installed /\ s \in input.present
                           THEN installed \cup {s} ELSE installed
          /\ visited' = visited \cup {s}
          /\ Goto(Copy, "copy")
       \/ UNCHANGED <<visited, installed>> /\ Throw(Copy)
    /\ UNCHANGED <<scriptVars, done, mode, saved, debug>>

CopyDone ==
    /\ At(Copy, "copy")
    /\ sourceFiles \subseteq visited
    /\ Return(Copy, "value")
    /\ UNCHANGED <<scriptVars, diskVars>>

FileStep(f) ==
    \/ Inspect(f)
    \/ \E o \in ToolOutcome :
          \/ DebugEdit(f, o)
          \/ Decompress(f, o)
          \/ Symbols(f, o)
          \/ AddMinidebug(f, o)
          \/ KeepDebug(f, o)
          \/ StripSections(f, o)
          \/ AddDebuglink(f, o)
          \/ CompressDebug(f, o)
    \/ Unlock(f, "unlock_minidebug", "minidebug")
    \/ Restore(f, "restore_minidebug", Goto(StripTask(f), "keep_debug"))
    \/ Unlock(f, "unlock_strip", "strip")
    \/ Restore(f, "restore_strip", Return(StripTask(f), "value"))

TaskStep ==
    \/ \E f \in File : FileStep(f)
    \/ \E a \in Arch : \E o \in ToolOutcome : DoOptimize(a, o)
    \/ \E s \in Source : CopyOne(s)
    \/ CopyDone

(* The steps that read members with a destructor: copy_source reads        *)
(* source_files and four paths, strip_and_compress_file computes the name  *)
(* of the debug file.  Reading a destroyed member is undefined: the step   *)
(* may find the old bytes still there and go on, or the process may die.   *)
ReadsMembers(t) == pc[t] \in {"copy", "keep_debug"}

Crash ==
    /\ status = "running"
    /\ ~alive
    /\ \E t \in executing : ReadsMembers(t)
    /\ status' = "crashed"
    /\ UNCHANGED <<input, mainVars, memberVars, poolVars, future, pc, diskVars>>
-----------------------------------------------------------------------------
(***************************************************************************)
(* The main thread.                                                        *)
(***************************************************************************)
MainAt(place) == status = "running" /\ main = place

Post(t) ==
    /\ Pool!Submit(t)
    /\ future' = [future EXCEPT ![t] = "pending"]
    /\ UNCHANGED <<pc, status, diskVars>>

Local == UNCHANGED <<poolVars, future, pc, diskVars>>

Settled(t) == future[t] \notin {"none", "pending"}

(* operator() returns v, or goes on at `next'. *)
Fail       == main' = "return" /\ verdict' = "false"
Go(next)   == main' = next /\ UNCHANGED verdict
Unless(failed, next) == IF failed THEN Fail ELSE Go(next)

(* classify posts a task per file while the workers already run. *)
PostPreprocess(f) ==
    /\ MainAt("classify")
    /\ future[Preprocess(f)] = "none"
    /\ Post(Preprocess(f))
    /\ UNCHANGED <<input, mainVars, memberVars>>

(* ... and, when all are posted and all futures have been got, has filled  *)
(* by_arch and source_files from those that returned a result.             *)
Collect ==
    /\ MainAt("classify")
    /\ \A f \in File : Settled(Preprocess(f))
    /\ LET found == {f \in File : future[Preprocess(f)] = "value"} IN
       /\ byArch' = [a \in Arch |-> {f \in found : Node(f).arch = a}]
       /\ sourceFiles' = UNION {input.sources[f] : f \in found}
    /\ Unless(\E f \in File : future[Preprocess(f)] = "error", "post_copy")
    /\ Local
    /\ UNCHANGED <<input, status, alive>>

PostCopy ==
    /\ MainAt("post_copy")
    /\ Post(Copy)
    /\ Go(IF input.optimize THEN "run_opt" ELSE "strip")
    /\ UNCHANGED <<input, alive, memberVars>>

(* The tasks that each key of by_arch gives, in the two phases.            *)
DwzTasks   == [a \in Arch |-> IF byArch[a] = {} THEN {} ELSE {Dwz(a)}]
StripTasks == [a \in Arch |-> {StripTask(f) : f \in byArch[a]}]

(* a is the first key of by_arch, in the order of known_arch, whose tasks  *)
(* are not all posted.                                                     *)
NextArch(tasks, a) ==
    LET Unposted(k) == \E t \in tasks[ArchOrder[k]] : future[t] = "none" IN
    \E k \in DOMAIN ArchOrder :
        ArchOrder[k] = a /\ Unposted(k) /\ \A l \in 1 .. k - 1 : ~Unposted(l)

PostDwz(a) ==
    /\ MainAt("run_opt")
    /\ NextArch(DwzTasks, a)
    /\ Post(Dwz(a))
    /\ UNCHANGED <<input, mainVars, memberVars>>

OptDoneEarly ==                       \* mutation of OptDone: futures not got
    /\ MainAt("run_opt")
    /\ \A a \in Arch : \A t \in DwzTasks[a] : future[t] # "none"
    /\ Unless(\E a \in Arch : future[Dwz(a)] = "error", "strip")
    /\ Local
    /\ UNCHANGED <<input, status, alive, memberVars>>

OptDoneAll ==                         \* mutation: waits for tasks never posted
    /\ MainAt("run_opt")
    /\ \A a \in Arch : Settled(Dwz(a))
    /\ Unless(\E a \in Arch : future[Dwz(a)] = "error", "strip")
    /\ Local
    /\ UNCHANGED <<input, status, alive, memberVars>>

OptDone ==
    /\ MainAt("run_opt")
    /\ \A a \in Arch : \A t \in DwzTasks[a] : Settled(t)
    /\ Unless(\E a \in Arch : future[Dwz(a)] = "error", "strip")
    /\ Local
    /\ UNCHANGED <<input, status, alive, memberVars>>

PostStrip(f) ==
    /\ MainAt("strip")
    /\ NextArch(StripTasks, Node(f).arch)
    /\ Node(f).arch \in input.toolchains
    /\ f \in byArch[Node(f).arch] /\ future[StripTask(f)] = "none"
    /\ Post(StripTask(f))
    /\ UNCHANGED <<input, mainVars, memberVars>>

(* get_toolchain throws: strip returns at once, whatever it has posted.    *)
NoToolchain ==
    /\ MainAt("strip")
    /\ \E a \in Arch \ input.toolchains : NextArch(StripTasks, a)
    /\ Fail
    /\ Local
    /\ UNCHANGED <<input, status, alive, memberVars>>

StripDone ==
    /\ MainAt("strip")
    /\ \A a \in Arch : \A t \in StripTasks[a] : Settled(t)
    /\ Unless(\E f \in File : future[StripTask(f)] = "error", "get_copy")
    /\ Local
    /\ UNCHANGED <<input, status, alive, memberVars>>

GetCopyUnwaited ==                    \* mutation of GetCopy: get() forgotten
    /\ MainAt("get_copy")
    /\ status' = status /\ main' = "return" /\ verdict' = "true"
    /\ Local
    /\ UNCHANGED <<input, alive, memberVars>>

(* source_copy_res.get() rethrows what copy_source threw, and nobody       *)
(* catches it: std::terminate.                                             *)
GetCopy ==
    /\ MainAt("get_copy")
    /\ Settled(Copy)
    /\ IF future[Copy] = "error"
       THEN status' = "aborted" /\ UNCHANGED <<main, verdict>>
       ELSE status' = status /\ main' = "return" /\ verdict' = "true"
    /\ Local
    /\ UNCHANGED <<input, alive, memberVars>>

(* main returns: the members of script are destroyed in the reverse of     *)
(* their declaration, so `pool', the first, outlives by_arch, source_files *)
(* and the paths; its destructor then waits for the tasks.                 *)
DestroyMembers ==
    /\ MainAt("return")
    /\ main' = "destroy_pool" /\ alive' = FALSE
    /\ Local
    /\ UNCHANGED <<input, verdict, status, memberVars>>

DestroyPool ==
    /\ MainAt("destroy_pool")
    /\ Pool!Close
    /\ main' = "join"
    /\ UNCHANGED <<input, verdict, status, alive, memberVars, future, pc, diskVars>>

Exit ==
    /\ MainAt("join")
    /\ Pool!Leave
    /\ main' = "exit"
    /\ status' = IF verdict = "true" THEN "success" ELSE "failure"
    /\ UNCHANGED <<input, verdict, alive, memberVars, future, pc, diskVars>>

MainStep ==
    \/ \E f \in File : PostPreprocess(f) \/ PostStrip(f)
    \/ \E a \in Arch : PostDwz(a)
    \/ Collect
    \/ PostCopy
    \/ OptDone
    \/ NoToolchain
    \/ StripDone
    \/ GetCopy
    \/ DestroyMembers
    \/ DestroyPool
    \/ Exit

(* The process is gone; the only states without a step of their own. *)
Ended ==
    /\ status # "running"
    /\ UNCHANGED vars

Next ==
    \/ StartTask
    \/ TaskStep
    \/ Crash
    \/ MainStep
    \/ Ended

Spec == Init /\ [][Next]_vars

(* The main thread runs whenever it can; the pool starts what it was given *)
(* (ThreadPool: PostedTasksRun); every tool, and so every task, ends.      *)
FairSpec ==
    /\ Spec
    /\ WF_vars(MainStep)
    /\ WF_vars(StartTask)
    /\ WF_vars(TaskStep)
-----------------------------------------------------------------------------
Step  == {"inspect", "debugedit", "decompress", "dwz", "copy", "symbols", "unlock_minidebug",
          "minidebug", "restore_minidebug", "keep_debug", "unlock_strip", "strip", "debuglink",
          "compress", "restore_strip"}
Stage == {"debugedit", "decompress", "dwz", "minidebug", "strip", "debuglink"}

(* The files of a tree that are stripped: those that have no debug link.   *)
ElfFiles(in) == {f \in File : in.node[in.link[f]].kind = "elf"}

(* Every variable has its type, and by_arch lists ELF files without debug  *)
(* link only: what was stripped before, whose debug information is in its  *)
(* .debug file, is never taken through the stages again.                   *)
TypeOK ==
    /\ input \in Inputs
    /\ main \in {"classify", "post_copy", "run_opt", "strip", "get_copy",
                 "return", "destroy_pool", "join", "exit"}
    /\ verdict \in {"none", "true", "false"}
    /\ status \in {"running", "success", "failure", "aborted", "crashed"}
    /\ alive \in BOOLEAN
    /\ byArch \in [Arch -> SUBSET File]
    /\ \A a \in Arch : byArch[a] \subseteq ElfFiles(input)
    /\ sourceFiles \subseteq Source
    /\ queue \in Seq(Task)
    /\ executing \subseteq Task /\ finished \subseteq Task
    /\ phase \in {"open", "closing", "left"}
    /\ future \in [Task -> {"none", "pending", "value", "null", "error"}]
    /\ pc \in [Task -> Step \cup {"none"}]
    /\ \A t \in Task : t \in executing <=> pc[t] # "none"
    /\ done \in [Inode -> SUBSET Stage]
    /\ mode \in [Inode -> {"original", "forced"}]
    /\ saved \in [File -> {"original", "forced"}]
    /\ debug \in [File -> SUBSET (Stage \cup {"kept", "compressed"})]
    /\ visited \subseteq Source /\ installed \subseteq Source

(* The inodes a task's current step reads, and those it rewrites. *)
Rewrites(t) ==
    CASE pc[t] \in {"debugedit", "decompress"} -> {Ino(t[2])}
      [] pc[t] = "dwz"                         -> {Ino(f) : f \in byArch[t[2]]}
      [] t[1] = "strip" /\ pc[t] \notin {"symbols", "keep_debug", "compress"}
                                               -> {Ino(t[2])}
      [] OTHER                                 -> {}

Uses(t) ==
    IF t[1] \in {"preprocess", "strip"} THEN {Ino(t[2])} ELSE Rewrites(t)

(* No tool works on a file that another thread's tool is rewriting: the    *)
(* phases are separated by futures, each file has one task per phase, and  *)
(* preprocess_file refuses hard links.                                     *)
ExclusiveRewrite ==
    \A t, u \in executing : t # u => Rewrites(t) \cap Uses(u) = {}

(* The debug sections of a binary are thrown away only when its .debug     *)
(* file holds them, with the source paths debugedit rewrote and, with      *)
(* optimisation, as dwz left them; whatever fails or is abandoned.         *)
DebugInfoKept ==
    \A f \in File :
        "strip" \in done[Ino(f)] =>
            {"kept", "debugedit"} \cup (IF input.optimize THEN {"dwz"} ELSE {})
                \subseteq debug[f]

(* What exit status 0 promises: every ELF file went through every stage,   *)
(* its permissions are what they were, and DESTDIR has those of its        *)
(* sources that the build root has.  It does not promise all of them: a    *)
(* source that debugedit names and that the build root lacks is left out   *)
(* without a word (main.cpp:367-374).                                      *)
Stages ==
    {"debugedit", "minidebug", "strip", "debuglink"}
        \cup (IF input.optimize THEN {"dwz"} ELSE {})
        \cup (IF input.optimize /\ input.compress THEN {"decompress"} ELSE {})

SuccessIsComplete ==
    status = "success" =>
        \A f \in File : Node(f).kind = "elf" =>
            /\ done[Ino(f)] = Stages
            /\ mode[Ino(f)] = "original"
            /\ input.compress => "compressed" \in debug[f]
            /\ input.sources[f] \cap input.present \subseteq installed

(* When operator() returns true, nothing is left in the pool that could    *)
(* still read the members about to be destroyed.                           *)
SuccessLeavesNoTask ==
    verdict = "true" => queue = <<>> /\ executing = {}

(* The stripper comes to an end. *)
Termination == <>(status # "running")
=============================================================================
