--------------------------- MODULE MirrorCreation ---------------------------
(***************************************************************************)
(* create_mirrors_from_problem_list.py run by several operators, each with *)
(* a copy of the tarball repository of their own, against the same GitLab, *)
(* on the list that the nightly check_mirrors job makes.                   *)
(*                                                                         *)
(* A git mirror is a project in nested groups; GroupOf gives the path of   *)
(* its group below the top group.  A file mirror is a file of the tarball  *)
(* repository; commits are told apart by the run that made them.           *)
(***************************************************************************)
EXTENDS Naturals, MirrorManifest

CONSTANTS Operator,
          Declared,      \* the sources that the elements of the project declare
          Lists,         \* problem lists that jobs left before the elements changed
          GroupOf,       \* GroupOf[m]: the names of the groups around project m
          Existing,      \* projects there are at the start
          MaxRuns,       \* bound on the runs of the script
          MaxFaults      \* bound on refused prompts, failed calls and interruptions

GitMirror  == DOMAIN GroupOf
FileMirror == Ours \ GitMirror

ASSUME ExistingAssumption == Existing # {} /\ Existing \subseteq GitMirror
ASSUME BoundsAssumption   == MaxRuns \in Nat /\ MaxFaults \in Nat
ASSUME OursAssumption     == GitMirror \subseteq Ours /\ None \notin Ours
ASSUME GroupsAssumption   == \A m \in GitMirror : GroupOf[m] \in Seq(STRING)

(* The lists there can be, and their entries.  mirrors.yml gives projects  *)
(* for mirrors to git sources, and files of the tarball repository to the  *)
(* others; create_git_mirror and create_file_mirror take it for granted.   *)
ProblemLists == Lists \cup {Unmirrored(Manifest(Declared), seen) : seen \in SUBSET Ours}
Problems     == UNION {Range(entries) : entries \in ProblemLists}

ASSUME ListsAssumption ==
    /\ ProblemLists \subseteq Seq(Problems)
    /\ None \notin ProblemLists
    /\ \A e \in Problems : e.mirror # None =>
          /\ e.kind \in GitKinds => e.mirror \in GitMirror
          /\ e.kind \in FileKinds => e.mirror \in FileMirror

VARIABLES groups, projects,  \* GitLab: paths of groups, projects
          synced,            \* projects whose import of the upstream repository is done
          remote,            \* commits of master of tarball-lfs-mirror
          job,               \* the check_mirrors job
          list,              \* unmirrored_sources_list.json of the last job, or None
          repo,              \* each operator's copy of the tarball repository
          run,               \* each operator's run of the script
          runs,              \* how many runs were started
          faults

gitlab == <<groups, projects, synced>>
vars   == <<groups, projects, synced, remote, job, list, repo, run, runs, faults>>

File(m, whole)   == [mirror |-> m, whole |-> whole]
Names(files)     == {f.mirror : f \in files}
FilesOf(commits) == UNION {commits[i].files : i \in DOMAIN commits}

(* dir: "none", "broken" (git init ran, nothing was fetched), "fetched"    *)
(* (master was not checked out) or "ready"; head is local master, origin   *)
(* what origin/master was last seen to be; untracked and staged files.     *)
NewRepo(dir, commits) ==
    [dir |-> dir, head |-> commits, origin |-> commits, untracked |-> {}, staged |-> {}]

(* at: the group reached; tar: tar_repo_initialized; clean: nothing was    *)
(* refused; pc is "idle" before the first run, "done" after a run that     *)
(* came to the end of main, "died" or "conflict" after one that did not.   *)
NewRun == [id |-> 0, pc |-> "idle", entries |-> <<>>, todo |-> <<>>, at |-> <<>>,
           tar |-> FALSE, clean |-> TRUE]
Ended  == {"idle", "done", "died", "conflict"}

Init ==
    /\ projects = Existing /\ synced = Existing
    /\ groups = UNION {Prefixes(GroupOf[m]) : m \in Existing}
    /\ remote = <<>>
    /\ job = [pc |-> "idle", seen |-> {}, ok |-> TRUE, passed |-> FALSE]
    /\ list \in Lists \cup {None}
    /\ repo \in [Operator -> {NewRepo("none", <<>>), NewRepo("ready", <<>>)}]
    /\ run = [o \in Operator |-> NewRun]
    /\ runs = 0
    /\ faults = 0
-----------------------------------------------------------------------------
(***************************************************************************)
(* The nightly job: the definitions and commits first, then the existence  *)
(* of the mirrors, for which GitLab is asked twice.                        *)
(***************************************************************************)
CheckDefinitions ==
    /\ job.pc = "idle"
    /\ job' = [pc |-> "projects", seen |-> {}, passed |-> FALSE,
               ok |-> \A e \in Range(Manifest(Declared)) : ~ DefinitionProblem(e, synced)]
    /\ UNCHANGED <<gitlab, remote, list, repo, run, runs, faults>>

GetRepoList ==
    /\ job.pc = "projects"
    /\ job' = [job EXCEPT !.pc = "files", !.seen = projects]
    /\ UNCHANGED <<gitlab, remote, list, repo, run, runs, faults>>

GetFileMirrorList ==
    /\ job.pc = "files"
    /\ LET manifest == Manifest(Declared)
           seen     == job.seen \cup Names(FilesOf(remote))
       IN  /\ list' = Unmirrored(manifest, seen)
           /\ job' = [job EXCEPT !.pc = "idle", !.seen = {}, !.ok = TRUE,
                        !.passed = job.ok /\ \A e \in Range(manifest) : ~ MissingMirror(e, seen)]
    /\ UNCHANGED <<gitlab, remote, repo, run, runs, faults>>

(* GitLab fills a new project from its import_url in its own time.         *)
Import(m) ==
    /\ m \in projects \ synced
    /\ synced' = synced \cup {m}
    /\ UNCHANGED <<groups, projects, remote, job, list, repo, run, runs, faults>>
-----------------------------------------------------------------------------
At(o, pc)    == run[o].pc = pc
Become(o, r) == run' = [run EXCEPT ![o] = r]
GoTo(o, pc)  == Become(o, [run[o] EXCEPT !.pc = pc])
NextEntry(o) == Become(o, [run[o] EXCEPT !.pc = "next", !.todo = Tail(@)])
Fault        == faults < MaxFaults /\ faults' = faults + 1
Quiet        == UNCHANGED <<job, list, runs>>
OnlyRun      == Quiet /\ UNCHANGED <<gitlab, remote, repo>>
Current(o)   == Head(run[o].todo).mirror

Start(o) ==
    /\ run[o].pc \in Ended /\ list # None /\ runs < MaxRuns
    /\ runs' = runs + 1
    /\ Become(o, [NewRun EXCEPT !.id = runs', !.pc = "next", !.entries = list, !.todo = list])
    /\ UNCHANGED <<gitlab, remote, job, list, repo, faults>>

(* get_mirror_url_and_proceed says no, or the kind is not implemented.     *)
Skip(o) ==
    /\ At(o, "next") /\ run[o].todo # <<>>
    /\ Current(o) = None \/ Head(run[o].todo).kind \notin GitKinds \cup FileKinds
    /\ NextEntry(o)
    /\ OnlyRun /\ UNCHANGED faults

Decline(o) ==
    /\ At(o, "next") /\ run[o].todo # <<>> /\ Current(o) # None
    /\ Fault
    /\ Become(o, [run[o] EXCEPT !.todo = Tail(@), !.clean = FALSE])
    /\ OnlyRun

Dispatch(o) ==
    /\ At(o, "next") /\ run[o].todo # <<>> /\ Current(o) # None
    /\ LET kind == Head(run[o].todo).kind
       IN  \/ /\ kind \in GitKinds
              /\ Become(o, [run[o] EXCEPT !.pc = "group", !.at = <<>>])
           \/ /\ kind \in FileKinds
              /\ GoTo(o, IF run[o].tar THEN "file" ELSE "init")
    /\ OnlyRun /\ UNCHANGED faults

(* An exception that nobody catches, sys.exit or the operator's Ctrl-C.    *)
Die(o) ==
    /\ run[o].pc \notin Ended
    /\ Fault
    /\ GoTo(o, "died")
    /\ OnlyRun
-----------------------------------------------------------------------------
(***************************************************************************)
(* create_git_mirror.  Finding and creating are two calls to GitLab, which *)
(* refuses to create what is there.                                        *)
(***************************************************************************)
Daughter(o) == SubSeq(GroupOf[Current(o)], 1, Len(run[o].at) + 1)

(* mutation of FindGroup: a nested project is put into the top group.      *)
FindTopGroup(o) ==
    /\ At(o, "group")
    /\ GoTo(o, "project")
    /\ OnlyRun /\ UNCHANGED faults

FindGroup(o) ==
    /\ At(o, "group")
    /\ IF run[o].at = GroupOf[Current(o)] THEN GoTo(o, "project")
       ELSE IF Daughter(o) \in groups THEN Become(o, [run[o] EXCEPT !.at = Daughter(o)])
       ELSE GoTo(o, "mkgroup")
    /\ OnlyRun /\ UNCHANGED faults

CreateGroup(o) ==
    /\ At(o, "mkgroup")
    /\ IF Daughter(o) \in groups
       THEN GoTo(o, "conflict") /\ UNCHANGED groups
       ELSE /\ groups' = groups \cup {Daughter(o)}
            /\ Become(o, [run[o] EXCEPT !.pc = "group", !.at = Daughter(o)])
    /\ Quiet /\ UNCHANGED <<projects, synced, remote, repo, faults>>

FindProject(o) ==
    /\ At(o, "project")
    /\ IF Current(o) \in projects THEN NextEntry(o) ELSE GoTo(o, "mkproject")
    /\ OnlyRun /\ UNCHANGED faults

CreateProject(o) ==
    /\ At(o, "mkproject")
    /\ IF Current(o) \in projects
       THEN GoTo(o, "conflict") /\ UNCHANGED projects
       ELSE projects' = projects \cup {Current(o)} /\ NextEntry(o)
    /\ Quiet /\ UNCHANGED <<groups, synced, remote, repo, faults>>
-----------------------------------------------------------------------------
(***************************************************************************)
(* initialize_tar_repo.                                                    *)
(***************************************************************************)
Keep(o, r) == repo' = [repo EXCEPT ![o] = r]

(* A clone is git init, git fetch, git checkout; any of them may fail.     *)
Clone(o) ==
    /\ At(o, "init") /\ repo[o].dir = "none"
    /\ \/ /\ Keep(o, NewRepo("ready", remote))
          /\ Become(o, [run[o] EXCEPT !.pc = "file", !.tar = TRUE])
          /\ UNCHANGED faults
       \/ /\ Fault /\ GoTo(o, "died")
          /\ \E dir \in {"broken", "fetched"} : Keep(o, NewRepo(dir, remote))
    /\ Quiet /\ UNCHANGED <<gitlab, remote>>

(* mutation of Fetch: local commits of earlier runs are not looked for.    *)
FetchAnyway(o) ==
    /\ At(o, "init") /\ repo[o].dir # "none"
    /\ IF repo[o].dir = "broken"
       THEN GoTo(o, "died") /\ UNCHANGED repo
       ELSE /\ Keep(o, [repo[o] EXCEPT !.dir = "ready", !.origin = remote])
            /\ Become(o, [run[o] EXCEPT !.pc = "file", !.tar = TRUE])
    /\ Quiet /\ UNCHANGED <<gitlab, remote, faults>>

(* git checkout master, git fetch and git merge-base --is-ancestor.        *)
Fetch(o) ==
    /\ At(o, "init") /\ repo[o].dir # "none"
    /\ IF repo[o].dir = "broken"
       THEN GoTo(o, "died") /\ UNCHANGED repo
       ELSE /\ Keep(o, [repo[o] EXCEPT !.dir = "ready", !.origin = remote])
            /\ GoTo(o, IF IsPrefix(repo[o].head, remote) THEN "pull" ELSE "died")
    /\ Quiet /\ UNCHANGED <<gitlab, remote, faults>>

(* git pull refuses to overwrite an untracked file; a staged file that     *)
(* arrives with the merge is no longer staged.                             *)
Pull(o) ==
    /\ At(o, "pull")
    /\ LET arriving == Names(FilesOf(remote)) \ Names(FilesOf(repo[o].head))
       IN  IF Names(repo[o].untracked) \cap arriving # {}
           THEN GoTo(o, "died") /\ Keep(o, [repo[o] EXCEPT !.origin = remote])
           ELSE /\ Keep(o, [repo[o] EXCEPT !.head = remote, !.origin = remote,
                               !.staged = {f \in @ : f.mirror \notin arriving}])
                /\ Become(o, [run[o] EXCEPT !.pc = "file", !.tar = TRUE])
    /\ Quiet /\ UNCHANGED <<gitlab, remote, faults>>
-----------------------------------------------------------------------------
(***************************************************************************)
(* create_file_mirror: an existing file is taken for a mirror; otherwise   *)
(* wget, git add, git commit, and the script exits when one of them fails. *)
(***************************************************************************)
Present(o) == Names(FilesOf(repo[o].head) \cup repo[o].untracked \cup repo[o].staged)

FindFile(o) ==
    /\ At(o, "file")
    /\ IF Current(o) \in Present(o) THEN NextEntry(o) ELSE GoTo(o, "wget")
    /\ OnlyRun /\ UNCHANGED faults

(* mutation of Wget: its exit status is not looked at.                     *)
WgetUnchecked(o) ==
    /\ At(o, "wget")
    /\ \E whole \in BOOLEAN :
          /\ Keep(o, [repo[o] EXCEPT !.untracked = @ \cup {File(Current(o), whole)}])
          /\ IF whole THEN UNCHANGED faults ELSE Fault
    /\ GoTo(o, "add")
    /\ Quiet /\ UNCHANGED <<gitlab, remote>>

Wget(o) ==
    /\ At(o, "wget")
    /\ \/ /\ Keep(o, [repo[o] EXCEPT !.untracked = @ \cup {File(Current(o), TRUE)}])
          /\ GoTo(o, "add") /\ UNCHANGED faults
       \/ /\ Keep(o, [repo[o] EXCEPT !.untracked = @ \cup {File(Current(o), FALSE)}])
          /\ GoTo(o, "died") /\ Fault
    /\ Quiet /\ UNCHANGED <<gitlab, remote>>

Add(o) ==
    /\ At(o, "add")
    /\ LET added == {f \in repo[o].untracked : f.mirror = Current(o)}
       IN  Keep(o, [repo[o] EXCEPT !.untracked = @ \ added, !.staged = @ \cup added])
    /\ GoTo(o, "commit")
    /\ Quiet /\ UNCHANGED <<gitlab, remote, faults>>

Commit(o) ==
    /\ At(o, "commit")
    /\ Keep(o, [repo[o] EXCEPT !.staged = {},
                   !.head = Append(@, [files |-> repo[o].staged, run |-> run[o].id])])
    /\ NextEntry(o)
    /\ Quiet /\ UNCHANGED <<gitlab, remote, faults>>
-----------------------------------------------------------------------------
(***************************************************************************)
(* push_tar_repo: whatever comes of the push, main returns normally.       *)
(***************************************************************************)
(* mutation of Ahead: the arguments of --is-ancestor swapped.              *)
AheadSwapped(o) == ~ IsPrefix(repo[o].origin, repo[o].head)
Ahead(o) == ~ IsPrefix(repo[o].head, repo[o].origin)

Finish(o) ==
    /\ At(o, "next") /\ run[o].todo = <<>> /\ ~ (run[o].tar /\ Ahead(o))
    /\ GoTo(o, "done")
    /\ OnlyRun /\ UNCHANGED faults

(* mutation of Push: git push --force.                                     *)
PushForce(o) ==
    /\ At(o, "next") /\ run[o].todo = <<>> /\ run[o].tar /\ Ahead(o)
    /\ remote' = repo[o].head
    /\ Keep(o, [repo[o] EXCEPT !.origin = repo[o].head])
    /\ GoTo(o, "done")
    /\ Quiet /\ UNCHANGED <<gitlab, faults>>

Push(o) ==
    /\ At(o, "next") /\ run[o].todo = <<>> /\ run[o].tar /\ Ahead(o)
    /\ IF IsPrefix(remote, repo[o].head)
       THEN /\ remote' = repo[o].head
            /\ Keep(o, [repo[o] EXCEPT !.origin = repo[o].head])
            /\ GoTo(o, "done")
       ELSE /\ Become(o, [run[o] EXCEPT !.pc = "done", !.clean = FALSE])
            /\ UNCHANGED <<remote, repo>>
    /\ Quiet /\ UNCHANGED <<gitlab, faults>>

DeclinePush(o) ==
    /\ At(o, "next") /\ run[o].todo = <<>> /\ run[o].tar /\ Ahead(o)
    /\ Fault
    /\ Become(o, [run[o] EXCEPT !.pc = "done", !.clean = FALSE])
    /\ OnlyRun
-----------------------------------------------------------------------------
Step(o) == \/ Start(o) \/ Skip(o) \/ Decline(o) \/ Dispatch(o) \/ Die(o)
           \/ FindGroup(o) \/ CreateGroup(o) \/ FindProject(o) \/ CreateProject(o)
           \/ Clone(o) \/ Fetch(o) \/ Pull(o)
           \/ FindFile(o) \/ Wget(o) \/ Add(o) \/ Commit(o)
           \/ Finish(o) \/ Push(o) \/ DeclinePush(o)
Next == \/ CheckDefinitions \/ GetRepoList \/ GetFileMirrorList
        \/ \E m \in GitMirror : Import(m)
        \/ \E o \in Operator : Step(o)
Spec == Init /\ [][Next]_vars
-----------------------------------------------------------------------------
Files    == SUBSET [mirror : FileMirror, whole : BOOLEAN]
Commits  == Seq([files : Files, run : 1 .. MaxRuns])
Repo     == [dir : {"none", "broken", "fetched", "ready"}, head : Commits,
             origin : Commits, untracked : Files, staged : Files]
RunState == [id : 0 .. MaxRuns, entries : Seq(Problems), todo : Seq(Problems),
             at : Seq(STRING), tar : BOOLEAN, clean : BOOLEAN,
             pc : Ended \cup {"next", "group", "mkgroup", "project", "mkproject",
                              "init", "pull", "file", "wget", "add", "commit"}]
JobState == [pc : {"idle", "projects", "files"}, seen : SUBSET GitMirror,
             ok : BOOLEAN, passed : BOOLEAN]

TypeOK ==
    /\ projects \subseteq GitMirror /\ synced \subseteq projects
    /\ \A m \in projects : Prefixes(GroupOf[m]) \subseteq groups
    /\ remote \in Commits /\ job \in JobState /\ list \in ProblemLists \cup {None}
    /\ repo \in [Operator -> Repo] /\ run \in [Operator -> RunState]
    /\ faults \in 0 .. MaxFaults /\ runs \in 0 .. MaxRuns

Published == projects \cup Names(FilesOf(remote))
Wanted(e) == e.mirror # None /\ e.kind \in GitKinds \cup FileKinds

(* A download that was cut short is never published, whatever was left     *)
(* lying around by runs that were interrupted (lines 454-477).             *)
PublishedWhole == \A f \in FilesOf(remote) : f.whole

(* However operators race, no file is published in two commits: a mirror   *)
(* that exists is never overwritten (README-Create-mirrors-script.md:59).  *)
PublishedOnce ==
    \A i, j \in DOMAIN remote :
        i # j => Names(remote[i].files) \cap Names(remote[j].files) = {}

(* What is published stays fit to be downloaded: whole, and in one place.  *)
PublishedIntact == PublishedWhole /\ PublishedOnce

(* A run that came to its end, and in which nothing was refused, has       *)
(* mirrored everything that was on its list and can be mirrored, unless a  *)
(* file left by an interrupted run was taken for the mirror (line 454).    *)
DoneMeansMirrored ==
    \A o \in Operator : run[o].pc = "done" /\ run[o].clean =>
        \A i \in DOMAIN run[o].entries :
            LET e == run[o].entries[i]
            IN  Wanted(e) => \/ e.mirror \in Published
                             \/ e.mirror \in Names(repo[o].untracked \cup repo[o].staged)

(* When the nightly job passes, every source it lists and does not ignore  *)
(* has a mirror from then on, and a git source's mirror its commit -- if a *)
(* mirror is defined: the commit test leaves that to the other tests, which*)
(* may ignore the source (mirror_management.py, line 125).                 *)
PassedMeansMirrored ==
    job.passed =>
        \A e \in Range(Manifest(Declared)) :
            /\ Tested(e, "mirror_exists_test") => e.mirror \in Published
            /\ /\ e.mirror # None /\ e.kind \in {"git", "git_tag"}
               /\ Tested(e, "mirror_commit_exists_test")
               => e.mirror \in synced

(* "We don't want the script to automatically push any changes other than  *)
(* the changes created by the script itself" (499-500): master of the      *)
(* remote only grows, by commits of the very run that pushes.              *)
PushesOwnWorkOnly ==
    [][/\ IsPrefix(remote, remote')
       /\ \A i \in DOMAIN remote' \ DOMAIN remote :
            \E o \in Operator : /\ run[o].pc = "next" /\ run'[o].pc = "done"
                                /\ remote'[i].run = run[o].id]_vars

(* The detailed system implements the promise made to those who download.  *)
Promise == INSTANCE Mirrors WITH
    Mirror   <- Ours,
    mirrored <- projects \cup {f.mirror : f \in {g \in FilesOf(remote) : g.whole}}
ImplementsMirrors == Promise!Spec

(* README-Create-mirrors-script.md:59-62: "If you ask the script to create *)
(* a mirror that already exists, it will report that the mirror exists     *)
(* [...] there won't be any conflicts if two people both try to create the *)
(* missing mirrors."  Lines 374-393 and 406-419 look first and create then.*)
NoConflicts == \A o \in Operator : run[o].pc # "conflict"
=============================================================================
