----------------------- MODULE MirrorCreationProofs -------------------------
(***************************************************************************)
(* Proofs about MirrorCreation for every number of operators, every set of *)
(* mirrors and lists of problems, and every number of runs and faults.     *)
(***************************************************************************)
EXTENDS MirrorCreation, SequenceTheorems, TLAPS


Active(o) == run[o].pc \notin Ended
Held(o)   == repo[o].staged \cup repo[o].untracked
Group(o)  == GroupOf[Current(o)]

(* Commits that may be published: whole files, each in one commit.         *)
Sound(commits) ==
    /\ \A f \in FilesOf(commits) : f.whole
    /\ \A i, j \in DOMAIN commits :
          i # j => Names(commits[i].files) \cap Names(commits[j].files) = {}

(* An operator's copy: what waits for a commit is not in one yet; what is  *)
(* staged was downloaded to its end, and is staged once; origin/master is  *)
(* a master that the remote had.                                           *)
RepoOK(o) ==
    /\ Sound(repo[o].head)
    /\ \A f \in repo[o].staged : f.whole
    /\ Names(Held(o)) \cap Names(FilesOf(repo[o].head)) = {}
    /\ Names(repo[o].staged) \cap Names(repo[o].untracked) = {}
    /\ IsPrefix(repo[o].origin, remote)

(* Once a run has the copy initialised, master is ahead of origin/master   *)
(* by the run's own commits.                                               *)
AheadByOwn(o) ==
    Active(o) /\ run[o].tar =>
        /\ IsPrefix(repo[o].origin, repo[o].head)
        /\ \A i \in DOMAIN repo[o].head \ DOMAIN repo[o].origin :
              repo[o].head[i].run = run[o].id

(* What a run knows at each of its places.                                 *)
PlaceOK(o) ==
    /\ run[o].pc # "idle" => run[o].id \in 1 .. MaxRuns
    /\ Active(o) /\ run[o].pc # "next" => run[o].todo # <<>>
    /\ run[o].pc \in {"group", "mkgroup", "project", "mkproject"} => Current(o) \in GitMirror
    /\ run[o].pc \in {"group", "mkgroup"} =>
          /\ IsPrefix(run[o].at, Group(o))
          /\ Prefixes(run[o].at) \subseteq groups
    /\ run[o].pc = "mkgroup" => run[o].at # Group(o)
    /\ run[o].pc \in {"project", "mkproject"} => Prefixes(Group(o)) \subseteq groups
    /\ run[o].pc \in {"init", "pull", "file", "wget", "add", "commit"} => Current(o) \in FileMirror
    /\ run[o].pc \in {"init", "pull"} => ~ run[o].tar
    /\ run[o].pc \in {"file", "wget", "add", "commit"} => run[o].tar
    /\ run[o].pc = "wget" => Current(o) \notin Present(o)
    /\ run[o].pc = "add" => /\ Current(o) \in Names(repo[o].untracked)
                            /\ \A f \in repo[o].untracked : f.mirror = Current(o) => f.whole
    /\ run[o].pc = "commit" => Current(o) \in Names(repo[o].staged)

(* The entries that a run has behind it have their mirror, there already   *)
(* or in the operator's copy, as long as nothing was refused.              *)
Behind(o) == Len(run[o].entries) - Len(run[o].todo)
TodoIsRest(o) ==
    Active(o) => /\ Behind(o) >= 0
                 /\ \A i \in 1 .. Len(run[o].todo) : run[o].todo[i] = run[o].entries[Behind(o) + i]
Handled(o, m) == \/ m \in projects
                 \/ run[o].tar /\ m \in Present(o)
BehindIsHandled(o) ==
    Active(o) /\ run[o].clean =>
        \A i \in 1 .. Behind(o) :
            Wanted(run[o].entries[i]) => Handled(o, run[o].entries[i].mirror)

(* DoneMeansMirrored, of one operator.                                     *)
DoneIsMirrored(o) ==
    run[o].pc = "done" /\ run[o].clean =>
        \A i \in DOMAIN run[o].entries :
            Wanted(run[o].entries[i]) => \/ run[o].entries[i].mirror \in Published
                                         \/ run[o].entries[i].mirror \in Names(Held(o))

OperatorOK(o) == /\ RepoOK(o) /\ AheadByOwn(o) /\ PlaceOK(o)
                 /\ TodoIsRest(o) /\ BehindIsHandled(o) /\ DoneIsMirrored(o)

IInv == TypeOK /\ <<>> \in groups /\ Sound(remote) /\ \A o \in Operator : OperatorOK(o)
-----------------------------------------------------------------------------
(* A prefix is shorter and agrees element by element.                      *)
LEMMA PrefixFacts ==
    ASSUME NEW S, NEW s \in Seq(S), NEW t \in Seq(S)
    PROVE  IsPrefix(s, t) <=> Len(s) <= Len(t) /\ \A i \in 1 .. Len(s) : s[i] = t[i]
<1>1. Len(s) \in Nat /\ Len(t) \in Nat
  OBVIOUS
<1>2. CASE Len(s) <= Len(t)
  <2>1. /\ SubSeq(s, 1, Len(s)) \in Seq(S) /\ SubSeq(t, 1, Len(s)) \in Seq(S)
        /\ Len(SubSeq(s, 1, Len(s))) = Len(s) /\ Len(SubSeq(t, 1, Len(s))) = Len(s)
        /\ \A i \in 1 .. Len(s) : /\ SubSeq(s, 1, Len(s))[i] = s[i]
                                  /\ SubSeq(t, 1, Len(s))[i] = t[i]
    BY <1>1, <1>2
  <2>2. QED
    BY <1>2, <2>1, SeqEqual DEF IsPrefix
<1>3. CASE ~ (Len(s) <= Len(t))
  BY <1>3 DEF IsPrefix
<1>4. QED
  BY <1>2, <1>3

LEMMA PrefixOrder ==
    ASSUME NEW S, NEW s \in Seq(S), NEW t \in Seq(S), NEW u \in Seq(S)
    PROVE  /\ IsPrefix(s, s)
           /\ IsPrefix(<<>>, s)
           /\ IsPrefix(s, t) /\ IsPrefix(t, u) => IsPrefix(s, u)
<1>1. Len(s) \in Nat /\ Len(t) \in Nat /\ Len(u) \in Nat /\ <<>> \in Seq(S) /\ Len(<<>>) = 0
  OBVIOUS
<1>2. IsPrefix(s, s)
  BY <1>1, PrefixFacts
<1>3. IsPrefix(<<>>, s)
  <2>1. SubSeq(s, 1, 0) = <<>> /\ SubSeq(<<>>, 1, 0) = <<>>
    BY SubSeqEmpty
  <2>2. QED
    BY <1>1, <2>1 DEF IsPrefix
<1>4. ASSUME IsPrefix(s, t), IsPrefix(t, u) PROVE IsPrefix(s, u)
  <2>1. /\ Len(s) <= Len(t) /\ \A i \in 1 .. Len(s) : s[i] = t[i]
        /\ Len(t) <= Len(u) /\ \A i \in 1 .. Len(t) : t[i] = u[i]
    BY <1>4, PrefixFacts
  <2>2. Len(s) <= Len(u) /\ \A i \in 1 .. Len(s) : s[i] = u[i]
    BY <1>1, <2>1
  <2>3. QED
    BY <2>2, PrefixFacts
<1>5. QED
  BY <1>2, <1>3, <1>4

(* Tasks after the first: every other one place earlier.                   *)
LEMMA TailFacts ==
    ASSUME NEW S, NEW s \in Seq(S), s # <<>>
    PROVE  /\ Head(s) \in S /\ Head(s) = s[1]
           /\ Tail(s) \in Seq(S)
           /\ Len(s) \in Nat \ {0}
           /\ Len(Tail(s)) = Len(s) - 1
           /\ \A i \in 1 .. Len(s) - 1 : Tail(s)[i] = s[i + 1]
  OBVIOUS

LEMMA AppendFacts ==
    ASSUME NEW S, NEW s \in Seq(S), NEW x \in S
    PROVE  /\ Append(s, x) \in Seq(S)
           /\ Len(s) \in Nat
           /\ DOMAIN s = 1 .. Len(s)
           /\ Len(Append(s, x)) = Len(s) + 1
           /\ DOMAIN Append(s, x) = 1 .. Len(s) + 1
           /\ \A i \in 1 .. Len(s) : Append(s, x)[i] = s[i]
           /\ Append(s, x)[Len(s) + 1] = x
  OBVIOUS

LEMMA CommitsOrder ==
    ASSUME NEW s \in Commits, NEW t \in Commits, NEW u \in Commits
    PROVE  /\ IsPrefix(s, s)
           /\ IsPrefix(s, t) /\ IsPrefix(t, u) => IsPrefix(s, u)
  BY PrefixOrder DEF Commits

(* What later commits add: files of a prefix stay.                         *)
LEMMA FilesOfPrefix ==
    ASSUME NEW s \in Commits, NEW t \in Commits, IsPrefix(s, t)
    PROVE  FilesOf(s) \subseteq FilesOf(t)
<1>1. Len(s) <= Len(t) /\ \A i \in 1 .. Len(s) : s[i] = t[i]
  BY PrefixFacts DEF Commits
<1>2. DOMAIN s = 1 .. Len(s) /\ DOMAIN t = 1 .. Len(t) /\ Len(s) \in Nat /\ Len(t) \in Nat
  BY DEF Commits
<1>3. QED
  BY <1>1, <1>2 DEF FilesOf

LEMMA FilesOfAppend ==
    ASSUME NEW s \in Commits, NEW c \in [files : Files, run : 1 .. MaxRuns]
    PROVE  /\ Append(s, c) \in Commits
           /\ FilesOf(Append(s, c)) = FilesOf(s) \cup c.files
           /\ IsPrefix(s, Append(s, c))
<1>1. /\ Append(s, c) \in Commits /\ DOMAIN s = 1 .. Len(s) /\ Len(s) \in Nat
      /\ DOMAIN Append(s, c) = 1 .. Len(s) + 1
      /\ \A i \in 1 .. Len(s) : Append(s, c)[i] = s[i]
      /\ Append(s, c)[Len(s) + 1] = c
      /\ Len(Append(s, c)) = Len(s) + 1
  BY AppendFacts DEF Commits
<1>2. FilesOf(Append(s, c)) = FilesOf(s) \cup c.files
  BY <1>1 DEF FilesOf
<1>3. IsPrefix(s, Append(s, c))
  <2>1. Len(s) <= Len(Append(s, c)) /\ \A i \in 1 .. Len(s) : s[i] = Append(s, c)[i]
    BY <1>1
  <2>2. QED
    BY <1>1, <2>1, PrefixFacts DEF Commits
<1>4. QED
  BY <1>1, <1>2, <1>3

LEMMA FilesOfType ==
    ASSUME NEW s \in Commits
    PROVE  FilesOf(s) \in Files /\ Names(FilesOf(s)) \subseteq FileMirror
<1>1. \A i \in DOMAIN s : s[i] \in [files : Files, run : 1 .. MaxRuns]
  BY LenProperties, ElementOfSeq DEF Commits
<1>2. \A i \in DOMAIN s : s[i].files \in Files
  BY <1>1
<1>3. FilesOf(s) \in Files
  BY <1>2 DEF FilesOf, Files
<1>4. Names(FilesOf(s)) \subseteq FileMirror
  BY <1>3 DEF Files, Names
<1>5. QED
  BY <1>3, <1>4

(* A commit of whole files that no earlier commit has keeps the sequence   *)
(* fit to be published.                                                    *)
LEMMA SoundAppend ==
    ASSUME NEW s \in Commits, NEW c \in [files : Files, run : 1 .. MaxRuns], Sound(s),
           \A f \in c.files : f.whole, Names(c.files) \cap Names(FilesOf(s)) = {}
    PROVE  Sound(Append(s, c))
<1>1. /\ DOMAIN s = 1 .. Len(s) /\ Len(s) \in Nat
      /\ DOMAIN Append(s, c) = 1 .. Len(s) + 1
      /\ \A i \in 1 .. Len(s) : Append(s, c)[i] = s[i]
      /\ Append(s, c)[Len(s) + 1] = c
  BY AppendFacts DEF Commits
<1>2. \A f \in FilesOf(Append(s, c)) : f.whole
  BY FilesOfAppend DEF Sound
<1>3. \A i \in 1 .. Len(s) : Names(s[i].files) \subseteq Names(FilesOf(s))
  BY <1>1 DEF FilesOf, Names
<1>4. \A i \in 1 .. Len(s) : Names(s[i].files) \cap Names(c.files) = {}
  BY <1>3
<1>5. \A i, j \in 1 .. Len(s) : i # j => Names(s[i].files) \cap Names(s[j].files) = {}
  BY <1>1 DEF Sound
<1>6. QED
  BY <1>1, <1>2, <1>4, <1>5 DEF Sound
-----------------------------------------------------------------------------
(***************************************************************************)
(* What the steps do to the runs.  Become gives one run another state; the *)
(* other operators' runs stay.                                             *)
(***************************************************************************)
Place == {"idle", "done", "died", "conflict", "next", "group", "mkgroup", "project",
          "mkproject", "init", "pull", "file", "wget", "add", "commit"}

LEMMA BecomeFacts ==
    ASSUME run \in [Operator -> RunState], NEW o \in Operator, NEW r \in RunState, Become(o, r)
    PROVE  /\ run' \in [Operator -> RunState]
           /\ run'[o] = r
           /\ \A p \in Operator : p # o => run'[p] = run[p]
  BY DEF Become

LEMMA GoToFacts ==
    ASSUME run \in [Operator -> RunState], NEW o \in Operator, NEW pc \in Place, GoTo(o, pc)
    PROVE  /\ run' \in [Operator -> RunState]
           /\ run'[o].pc = pc /\ run'[o].id = run[o].id
           /\ run'[o].entries = run[o].entries /\ run'[o].todo = run[o].todo
           /\ run'[o].at = run[o].at /\ run'[o].tar = run[o].tar /\ run'[o].clean = run[o].clean
           /\ \A p \in Operator : p # o => run'[p] = run[p]
<1>1. [run[o] EXCEPT !.pc = pc] \in RunState
  BY DEF RunState, Place, Ended
<1>2. QED
  BY <1>1, BecomeFacts DEF GoTo, RunState

LEMMA NextEntryFacts ==
    ASSUME run \in [Operator -> RunState], NEW o \in Operator, run[o].todo # <<>>, NextEntry(o)
    PROVE  /\ run' \in [Operator -> RunState]
           /\ run'[o].pc = "next" /\ run'[o].id = run[o].id
           /\ run'[o].entries = run[o].entries /\ run'[o].todo = Tail(run[o].todo)
           /\ run'[o].at = run[o].at /\ run'[o].tar = run[o].tar /\ run'[o].clean = run[o].clean
           /\ \A p \in Operator : p # o => run'[p] = run[p]
<1>1. run[o].todo \in Seq(Problems) /\ run[o] \in RunState
  BY DEF RunState
<1>2. Tail(run[o].todo) \in Seq(Problems)
  BY <1>1, TailFacts
<1> DEFINE r == [run[o] EXCEPT !.pc = "next", !.todo = Tail(@)]
<1>3. /\ r \in RunState /\ r.pc = "next" /\ r.id = run[o].id /\ r.entries = run[o].entries
      /\ r.todo = Tail(run[o].todo) /\ r.at = run[o].at /\ r.tar = run[o].tar
      /\ r.clean = run[o].clean
  BY <1>1, <1>2 DEF RunState
<1>4. Become(o, r)
  BY DEF NextEntry
<1> HIDE DEF r
<1>5. QED
  BY <1>3, <1>4, BecomeFacts

LEMMA KeepFacts ==
    ASSUME repo \in [Operator -> Repo], NEW o \in Operator, NEW r \in Repo, Keep(o, r)
    PROVE  /\ repo' \in [Operator -> Repo]
           /\ repo'[o] = r
           /\ \A p \in Operator : p # o => repo'[p] = repo[p]
  BY DEF Keep
-----------------------------------------------------------------------------
(***************************************************************************)
(* The type invariant.                                                     *)
(***************************************************************************)
LEMMA NewTypes ==
    /\ NewRun \in RunState
    /\ \A dir \in {"none", "broken", "fetched", "ready"}, c \in Commits : NewRepo(dir, c) \in Repo
    /\ <<>> \in Commits
<1>1. <<>> \in Seq(Problems) /\ <<>> \in Seq(STRING) /\ <<>> \in Commits
  BY DEF Commits
<1>2. 0 \in 0 .. MaxRuns
  BY BoundsAssumption
<1>3. NewRun \in RunState
  BY <1>1, <1>2 DEF NewRun, RunState, Ended
<1>4. {} \in Files
  BY DEF Files
<1>5. QED
  BY <1>1, <1>3, <1>4 DEF NewRepo, Repo

LEMMA InitType == Init => TypeOK
<1> SUFFICES ASSUME Init PROVE TypeOK
  OBVIOUS
<1>1. \A m \in projects : Prefixes(GroupOf[m]) \subseteq groups
  BY DEF Init
<1>2. remote \in Commits /\ repo \in [Operator -> Repo] /\ run \in [Operator -> RunState]
  BY NewTypes DEF Init
<1>3. job \in JobState
  BY DEF Init, JobState
<1>4. QED
  BY <1>1, <1>2, <1>3, ExistingAssumption, BoundsAssumption DEF Init, TypeOK, ProblemLists

(* Parts of the type invariant that a step of a run leaves alone, and the  *)
(* entry that the run is at.                                               *)
LEMMA HeadFacts ==
    ASSUME TypeOK, NEW o \in Operator, run[o].todo # <<>>
    PROVE  /\ Head(run[o].todo) \in Problems
           /\ Current(o) = Head(run[o].todo).mirror
           /\ Head(run[o].todo) = run[o].todo[1]
           /\ Tail(run[o].todo) \in Seq(Problems)
           /\ Len(run[o].todo) \in Nat \ {0}
           /\ Len(Tail(run[o].todo)) = Len(run[o].todo) - 1
           /\ \A i \in 1 .. Len(run[o].todo) - 1 : Tail(run[o].todo)[i] = run[o].todo[i + 1]
<1>1. run[o].todo \in Seq(Problems)
  BY DEF TypeOK, RunState
<1>2. QED
  BY <1>1, TailFacts DEF Current

(* The nightly job's steps.                                                *)
LEMMA JobType ==
    ASSUME TypeOK, CheckDefinitions \/ GetRepoList \/ GetFileMirrorList
    PROVE  TypeOK'
<1>1. CASE CheckDefinitions
  <2>1. job' \in JobState
    BY <1>1 DEF CheckDefinitions, JobState
  <2>2. QED
    BY <1>1, <2>1 DEF CheckDefinitions, gitlab, TypeOK
<1>2. CASE GetRepoList
  <2>1. job' \in JobState
    BY <1>2 DEF GetRepoList, JobState, TypeOK
  <2>2. QED
    BY <1>2, <2>1 DEF GetRepoList, gitlab, TypeOK
<1>3. CASE GetFileMirrorList
  <2> DEFINE seen == job.seen \cup Names(FilesOf(remote))
  <2>1. seen \in SUBSET Ours
    BY FilesOfType, OursAssumption DEF TypeOK, JobState, FileMirror
  <2>2. list' \in ProblemLists
    BY <1>3, <2>1 DEF GetFileMirrorList, ProblemLists
  <2>3. PICK passed \in BOOLEAN : job' = [job EXCEPT !.pc = "idle", !.seen = {},
                                              !.ok = TRUE, !.passed = passed]
    BY <1>3 DEF GetFileMirrorList
  <2>4. job' \in JobState
    BY <2>3 DEF JobState, TypeOK
  <2>5. QED
    BY <1>3, <2>2, <2>4 DEF GetFileMirrorList, gitlab, TypeOK
<1>4. QED
  BY <1>1, <1>2, <1>3

(* The steps of a run that change only the run.                            *)
LEMMA OnlyRunType ==
    ASSUME TypeOK, NEW o \in Operator, OnlyRun, run' \in [Operator -> RunState],
           faults' \in 0 .. MaxFaults
    PROVE  TypeOK'
  BY DEF TypeOK, OnlyRun, Quiet, gitlab

LEMMA FaultType == TypeOK /\ Fault => faults' \in 0 .. MaxFaults
  BY BoundsAssumption DEF TypeOK, Fault

(* The steps of a run between its entries.                                 *)
LEMMA EntryType ==
    ASSUME TypeOK, NEW o \in Operator,
           \/ Start(o) \/ Skip(o) \/ Decline(o) \/ Dispatch(o) \/ Die(o)
           \/ Finish(o) \/ DeclinePush(o)
    PROVE  TypeOK'
<1>0. run \in [Operator -> RunState] /\ run[o] \in RunState /\ faults \in 0 .. MaxFaults
  BY DEF TypeOK
<1>1. CASE Start(o)
  <2>1. list \in Seq(Problems)
    BY <1>1, ListsAssumption DEF Start, TypeOK
  <2>2. runs + 1 \in 0 .. MaxRuns
    BY <1>1, BoundsAssumption DEF Start, TypeOK
  <2> DEFINE r == [NewRun EXCEPT !.id = runs + 1, !.pc = "next", !.entries = list, !.todo = list]
  <2>3. r \in RunState
    BY <2>1, <2>2, NewTypes DEF RunState
  <2>4. Become(o, r) /\ runs' = runs + 1
    BY <1>1 DEF Start
  <2> HIDE DEF r
  <2>5. run' \in [Operator -> RunState]
    BY <1>0, <2>3, <2>4, BecomeFacts
  <2>6. QED
    BY <1>1, <2>2, <2>4, <2>5 DEF Start, TypeOK, gitlab
<1>2. CASE Skip(o)
  BY <1>0, <1>2, NextEntryFacts, OnlyRunType DEF Skip
<1>3. CASE Decline(o)
  <2> DEFINE r == [run[o] EXCEPT !.todo = Tail(@), !.clean = FALSE]
  <2>1. r \in RunState
    BY <1>0, <1>3, HeadFacts DEF Decline, RunState
  <2>2. Become(o, r)
    BY <1>3 DEF Decline
  <2>3. QED
    BY <1>0, <1>3, <2>1, <2>2, BecomeFacts, FaultType, OnlyRunType DEF Decline
<1>4. CASE Dispatch(o)
  <2>1. CASE Become(o, [run[o] EXCEPT !.pc = "group", !.at = <<>>])
    <3>1. <<>> \in Seq(STRING)
      OBVIOUS
    <3>2. [run[o] EXCEPT !.pc = "group", !.at = <<>>] \in RunState
      BY <1>0, <3>1 DEF RunState
    <3>3. QED
      BY <1>0, <1>4, <2>1, <3>2, BecomeFacts, OnlyRunType DEF Dispatch
  <2>2. CASE GoTo(o, "file") \/ GoTo(o, "init")
    BY <1>0, <1>4, <2>2, GoToFacts, OnlyRunType DEF Dispatch, Place
  <2>3. QED
    BY <1>4, <2>1, <2>2 DEF Dispatch
<1>5. CASE Die(o)
  BY <1>0, <1>5, GoToFacts, FaultType, OnlyRunType DEF Die, Place
<1>6. CASE Finish(o)
  BY <1>0, <1>6, GoToFacts, OnlyRunType DEF Finish, Place
<1>7. CASE DeclinePush(o)
  <2>1. [run[o] EXCEPT !.pc = "done", !.clean = FALSE] \in RunState
    BY <1>0 DEF RunState, Ended
  <2>2. QED
    BY <1>0, <1>7, <2>1, BecomeFacts, FaultType, OnlyRunType DEF DeclinePush
<1>8. QED
  BY <1>1, <1>2, <1>3, <1>4, <1>5, <1>6, <1>7

(* Prefixes of a path, and the path to the group one step further down.    *)
LEMMA PathFacts ==
    ASSUME NEW g \in Seq(STRING), NEW at \in Seq(STRING), IsPrefix(at, g)
    PROVE  /\ at # g => /\ SubSeq(g, 1, Len(at) + 1) \in Seq(STRING)
                        /\ IsPrefix(SubSeq(g, 1, Len(at) + 1), g)
                        /\ Prefixes(SubSeq(g, 1, Len(at) + 1))
                             \subseteq Prefixes(at) \cup {SubSeq(g, 1, Len(at) + 1)}
<1>1. /\ Len(at) \in Nat /\ Len(g) \in Nat /\ Len(at) <= Len(g)
      /\ \A i \in 1 .. Len(at) : at[i] = g[i]
  BY PrefixFacts
<1>2. SUFFICES ASSUME at # g
               PROVE  /\ SubSeq(g, 1, Len(at) + 1) \in Seq(STRING)
                      /\ IsPrefix(SubSeq(g, 1, Len(at) + 1), g)
                      /\ Prefixes(SubSeq(g, 1, Len(at) + 1))
                             \subseteq Prefixes(at) \cup {SubSeq(g, 1, Len(at) + 1)}
  OBVIOUS
<1>3. Len(at) + 1 <= Len(g)
  BY <1>1, <1>2, SeqEqual
<1> DEFINE d == SubSeq(g, 1, Len(at) + 1)
<1>4. /\ d \in Seq(STRING) /\ Len(d) = Len(at) + 1
      /\ \A i \in 1 .. Len(at) + 1 : d[i] = g[i]
  BY <1>1, <1>3
<1>5. IsPrefix(d, g)
  BY <1>1, <1>3, <1>4, PrefixFacts
<1>6. ASSUME NEW l \in 0 .. Len(at) PROVE SubSeq(d, 1, l) = SubSeq(at, 1, l)
  <2>1. /\ SubSeq(d, 1, l) \in Seq(STRING) /\ SubSeq(at, 1, l) \in Seq(STRING)
        /\ Len(SubSeq(d, 1, l)) = l /\ Len(SubSeq(at, 1, l)) = l
        /\ \A i \in 1 .. l : SubSeq(d, 1, l)[i] = d[i] /\ SubSeq(at, 1, l)[i] = at[i]
    BY <1>1, <1>4
  <2>2. QED
    BY <1>1, <1>4, <2>1, SeqEqual
<1>7. SubSeq(d, 1, Len(d)) = d
  BY <1>4, SubSeqFull
<1> HIDE DEF d
<1>8. Prefixes(d) \subseteq Prefixes(at) \cup {d}
  <2>1. SUFFICES ASSUME NEW l \in 0 .. Len(d) PROVE SubSeq(d, 1, l) \in Prefixes(at) \cup {d}
    BY DEF Prefixes
  <2>2. CASE l = Len(d)
    BY <1>7, <2>2
  <2>3. CASE l # Len(d)
    <3>1. l \in 0 .. Len(at)
      BY <1>1, <1>4, <2>3
    <3>2. QED
      BY <1>6, <3>1 DEF Prefixes
  <2>4. QED
    BY <2>2, <2>3
<1>9. QED
  BY <1>4, <1>5, <1>8 DEF d

(* The steps of a run that look for and make groups and projects.          *)
LEMMA GitLabType ==
    ASSUME TypeOK, NEW o \in Operator, PlaceOK(o),
           FindGroup(o) \/ CreateGroup(o) \/ FindProject(o) \/ CreateProject(o)
    PROVE  TypeOK'
<1>0. run \in [Operator -> RunState] /\ run[o] \in RunState /\ faults \in 0 .. MaxFaults
  BY DEF TypeOK
<1>1. ASSUME FindGroup(o) \/ CreateGroup(o), run[o].at # Group(o)
      PROVE  Daughter(o) \in Seq(STRING) /\ [run[o] EXCEPT !.at = Daughter(o)] \in RunState
             /\ [run[o] EXCEPT !.pc = "group", !.at = Daughter(o)] \in RunState
  <2>1. Current(o) \in GitMirror /\ IsPrefix(run[o].at, Group(o))
    BY <1>1 DEF PlaceOK, FindGroup, CreateGroup, At
  <2>2. Group(o) \in Seq(STRING) /\ run[o].at \in Seq(STRING)
    BY <1>0, <2>1, GroupsAssumption DEF Group, RunState
  <2>3. Daughter(o) \in Seq(STRING)
    BY <1>1, <2>1, <2>2, PathFacts DEF Daughter, Group
  <2>4. QED
    BY <1>0, <2>3 DEF RunState
<1>2. CASE FindGroup(o)
  <2>1. CASE run[o].at = Group(o)
    <3>1. GoTo(o, "project")
      BY <1>2, <2>1 DEF FindGroup, Group
    <3>2. QED
      BY <1>0, <1>2, <3>1, GoToFacts, OnlyRunType DEF FindGroup, Place
  <2>2. CASE run[o].at # Group(o) /\ Daughter(o) \in groups
    <3>1. Become(o, [run[o] EXCEPT !.at = Daughter(o)])
      BY <1>2, <2>2 DEF FindGroup, Group
    <3>2. QED
      BY <1>0, <1>1, <1>2, <2>2, <3>1, BecomeFacts, OnlyRunType DEF FindGroup
  <2>3. CASE run[o].at # Group(o) /\ Daughter(o) \notin groups
    <3>1. GoTo(o, "mkgroup")
      BY <1>2, <2>3 DEF FindGroup, Group
    <3>2. QED
      BY <1>0, <1>2, <3>1, GoToFacts, OnlyRunType DEF FindGroup, Place
  <2>4. QED
    BY <2>1, <2>2, <2>3
<1>3. CASE CreateGroup(o)
  <2>1. run' \in [Operator -> RunState]
    <3>1. CASE GoTo(o, "conflict")
      BY <1>0, <3>1, GoToFacts DEF Place
    <3>2. CASE Become(o, [run[o] EXCEPT !.pc = "group", !.at = Daughter(o)])
      BY <1>0, <1>1, <1>3, <3>2, BecomeFacts DEF CreateGroup, At, PlaceOK
    <3>3. QED
      BY <1>3, <3>1, <3>2 DEF CreateGroup
  <2>2. groups \subseteq groups'
    BY <1>3 DEF CreateGroup
  <2>3. QED
    BY <1>3, <2>1, <2>2 DEF CreateGroup, TypeOK, Quiet
<1>4. CASE FindProject(o)
  <2>1. run[o].todo # <<>>
    BY <1>4 DEF FindProject, At, PlaceOK, Active, Ended
  <2>2. QED
    BY <1>0, <1>4, <2>1, NextEntryFacts, GoToFacts, OnlyRunType DEF FindProject, Place
<1>5. CASE CreateProject(o)
  <2>1. /\ run[o].todo # <<>> /\ Current(o) \in GitMirror
        /\ Prefixes(GroupOf[Current(o)]) \subseteq groups
    BY <1>5 DEF CreateProject, At, PlaceOK, Active, Ended, Group
  <2>2. run' \in [Operator -> RunState]
    BY <1>0, <1>5, <2>1, NextEntryFacts, GoToFacts DEF CreateProject, Place
  <2>3. projects' = projects \/ projects' = projects \cup {Current(o)}
    BY <1>5 DEF CreateProject
  <2>4. QED
    BY <1>5, <2>1, <2>2, <2>3 DEF CreateProject, TypeOK, Quiet
<1>6. QED
  BY <1>2, <1>3, <1>4, <1>5

(* What a commit holds.                                                    *)
LEMMA CommitType ==
    ASSUME TypeOK, NEW o \in Operator, PlaceOK(o), run[o].pc # "idle"
    PROVE  [files |-> repo[o].staged, run |-> run[o].id] \in [files : Files, run : 1 .. MaxRuns]
  BY DEF TypeOK, PlaceOK, Repo

(* The steps of a run that work on the tarball repository.                 *)
LEMMA RepoStepType ==
    ASSUME TypeOK, NEW o \in Operator, PlaceOK(o),
           \/ Clone(o) \/ Fetch(o) \/ Pull(o) \/ FindFile(o) \/ Wget(o) \/ Add(o)
           \/ Commit(o) \/ Push(o)
    PROVE  TypeOK'
<1>0. /\ run \in [Operator -> RunState] /\ run[o] \in RunState /\ faults \in 0 .. MaxFaults
      /\ repo \in [Operator -> Repo] /\ repo[o] \in Repo /\ remote \in Commits
  BY DEF TypeOK
<1>1. ASSUME repo' \in [Operator -> Repo], run' \in [Operator -> RunState],
             remote' \in Commits, faults' \in 0 .. MaxFaults, Quiet, UNCHANGED gitlab
      PROVE  TypeOK'
  BY <1>1 DEF TypeOK, Quiet, gitlab
<1>2. [run[o] EXCEPT !.pc = "file", !.tar = TRUE] \in RunState
  BY <1>0 DEF RunState, Ended
<1>3. ASSUME run[o].pc \in {"wget", "add"}, NEW whole \in BOOLEAN
      PROVE  [repo[o] EXCEPT !.untracked = @ \cup {File(Current(o), whole)}] \in Repo
  <2>1. Current(o) \in FileMirror
    BY <1>3 DEF PlaceOK
  <2>2. repo[o].untracked \cup {File(Current(o), whole)} \in Files
    BY <1>0, <2>1 DEF Repo, Files, File
  <2>3. QED
    BY <1>0, <2>2 DEF Repo
<1>4. CASE Clone(o)
  <2>1. repo' \in [Operator -> Repo]
    BY <1>0, <1>4, NewTypes, KeepFacts DEF Clone
  <2>2. run' \in [Operator -> RunState]
    BY <1>0, <1>2, <1>4, GoToFacts, BecomeFacts DEF Clone, Place
  <2>3. QED
    BY <1>0, <1>1, <1>4, <2>1, <2>2, FaultType DEF Clone
<1>5. CASE Fetch(o)
  <2>1. repo' \in [Operator -> Repo]
    <3>1. [repo[o] EXCEPT !.dir = "ready", !.origin = remote] \in Repo
      BY <1>0 DEF Repo
    <3>2. QED
      BY <1>0, <1>5, <3>1, KeepFacts DEF Fetch
  <2>2. run' \in [Operator -> RunState]
    BY <1>0, <1>5, GoToFacts DEF Fetch, Place
  <2>3. QED
    BY <1>0, <1>1, <1>5, <2>1, <2>2 DEF Fetch
<1>6. CASE Pull(o)
  <2> DEFINE arriving == Names(FilesOf(remote)) \ Names(FilesOf(repo[o].head))
             r == [repo[o] EXCEPT !.head = remote, !.origin = remote,
                                  !.staged = {f \in @ : f.mirror \notin arriving}]
  <2>1. repo' \in [Operator -> Repo]
    <3>1. [repo[o] EXCEPT !.origin = remote] \in Repo
      BY <1>0 DEF Repo
    <3>2. {f \in repo[o].staged : f.mirror \notin arriving} \in Files
      BY <1>0 DEF Repo, Files
    <3>3. r \in Repo
      BY <1>0, <3>2 DEF Repo
    <3>4. Keep(o, [repo[o] EXCEPT !.origin = remote]) \/ Keep(o, r)
      BY <1>6 DEF Pull
    <3> HIDE DEF r
    <3>5. QED
      BY <1>0, <3>1, <3>3, <3>4, KeepFacts
  <2>2. run' \in [Operator -> RunState]
    BY <1>0, <1>2, <1>6, GoToFacts, BecomeFacts DEF Pull, Place
  <2>3. QED
    BY <1>0, <1>1, <1>6, <2>1, <2>2 DEF Pull
<1>7. CASE FindFile(o)
  <2>1. run[o].todo # <<>>
    BY <1>7 DEF FindFile, At, PlaceOK, Active, Ended
  <2>2. QED
    BY <1>0, <1>7, <2>1, NextEntryFacts, GoToFacts, OnlyRunType DEF FindFile, Place
<1>8. CASE Wget(o)
  <2>1. repo' \in [Operator -> Repo]
    BY <1>0, <1>3, <1>8, KeepFacts DEF Wget, At
  <2>2. run' \in [Operator -> RunState]
    BY <1>0, <1>8, GoToFacts DEF Wget, Place
  <2>3. QED
    BY <1>0, <1>1, <1>8, <2>1, <2>2, FaultType DEF Wget
<1>9. CASE Add(o)
  <2> DEFINE added == {f \in repo[o].untracked : f.mirror = Current(o)}
             r == [repo[o] EXCEPT !.untracked = @ \ added, !.staged = @ \cup added]
  <2>1. /\ repo[o].untracked \ added \in Files
        /\ repo[o].staged \cup added \in Files
    BY <1>0 DEF Repo, Files
  <2>2. r \in Repo
    BY <1>0, <2>1 DEF Repo
  <2>3. Keep(o, r)
    BY <1>9 DEF Add
  <2> HIDE DEF r
  <2>4. repo' \in [Operator -> Repo]
    BY <1>0, <2>2, <2>3, KeepFacts
  <2>5. QED
    BY <1>0, <1>1, <1>9, <2>4, GoToFacts DEF Add, Place
<1>10. CASE Commit(o)
  <2> DEFINE c == [files |-> repo[o].staged, run |-> run[o].id]
             r == [repo[o] EXCEPT !.staged = {}, !.head = Append(@, c)]
  <2>1. run[o].todo # <<>> /\ run[o].pc # "idle"
    BY <1>10 DEF Commit, At, PlaceOK, Active, Ended
  <2>2. Append(repo[o].head, c) \in Commits /\ {} \in Files
    BY <1>0, <2>1, CommitType, FilesOfAppend DEF Repo, Files
  <2>3. r \in Repo
    BY <1>0, <2>2 DEF Repo
  <2>4. Keep(o, r)
    BY <1>10 DEF Commit
  <2> HIDE DEF r
  <2>5. repo' \in [Operator -> Repo]
    BY <1>0, <2>3, <2>4, KeepFacts
  <2>6. QED
    BY <1>0, <1>1, <1>10, <2>1, <2>5, NextEntryFacts DEF Commit
<1>11. CASE Push(o)
  <2>1. /\ [repo[o] EXCEPT !.origin = repo[o].head] \in Repo /\ repo[o].head \in Commits
        /\ [run[o] EXCEPT !.pc = "done", !.clean = FALSE] \in RunState
    BY <1>0 DEF Repo, RunState, Ended
  <2>2. repo' \in [Operator -> Repo] /\ remote' \in Commits
    BY <1>0, <1>11, <2>1, KeepFacts DEF Push
  <2>3. run' \in [Operator -> RunState]
    BY <1>0, <1>11, <2>1, GoToFacts, BecomeFacts DEF Push, Place
  <2>4. QED
    BY <1>0, <1>1, <1>11, <2>2, <2>3 DEF Push
<1>12. QED
  BY <1>4, <1>5, <1>6, <1>7, <1>8, <1>9, <1>10, <1>11

LEMMA TypeStep ==
    TypeOK /\ (\A o \in Operator : PlaceOK(o)) /\ [Next]_vars => TypeOK'
<1> SUFFICES ASSUME TypeOK, \A o \in Operator : PlaceOK(o), [Next]_vars PROVE TypeOK'
  OBVIOUS
<1>1. ASSUME NEW m \in GitMirror, Import(m) PROVE TypeOK'
  BY <1>1 DEF Import, TypeOK
<1>2. ASSUME NEW o \in Operator, Step(o) PROVE TypeOK'
  BY <1>2, EntryType, GitLabType, RepoStepType DEF Step
<1>3. CASE UNCHANGED vars
  BY <1>3 DEF vars, gitlab, TypeOK
<1>4. QED
  BY <1>1, <1>2, <1>3, JobType DEF Next
-----------------------------------------------------------------------------
(***************************************************************************)
(* What others do to an operator: GitLab and the remote only grow.         *)
(***************************************************************************)
LEMMA RestKeeps ==
    ASSUME TypeOK, TypeOK', NEW p \in Operator, OperatorOK(p),
           run'[p] = run[p], repo'[p] = repo[p],
           groups \subseteq groups', projects \subseteq projects', IsPrefix(remote, remote')
    PROVE  OperatorOK(p)'
<1>0. /\ remote \in Commits /\ remote' \in Commits /\ repo[p] \in Repo
      /\ Published \subseteq Published'
  <2>1. FilesOf(remote) \subseteq FilesOf(remote')
    BY FilesOfPrefix DEF TypeOK
  <2>2. QED
    BY <2>1 DEF TypeOK, Published, Names
<1>1. RepoOK(p)'
  <2>1. IsPrefix(repo'[p].origin, remote')
    BY <1>0, PrefixOrder DEF OperatorOK, RepoOK, Repo, Commits
  <2>2. QED
    BY <2>1 DEF OperatorOK, RepoOK, Held
<1>2. AheadByOwn(p)'
  BY DEF OperatorOK, AheadByOwn, Active
<1>3. PlaceOK(p)'
  BY DEF OperatorOK, PlaceOK, Active, Current, Group, Present
<1>4. TodoIsRest(p)' /\ BehindIsHandled(p)'
  BY DEF OperatorOK, TodoIsRest, BehindIsHandled, Behind, Handled, Active, Present
<1>5. DoneIsMirrored(p)'
  BY <1>0 DEF OperatorOK, DoneIsMirrored, Held
<1>6. QED
  BY <1>1, <1>2, <1>3, <1>4, <1>5 DEF OperatorOK

(* A run that goes on to its next entry has one more behind it.            *)
LEMMA Advance ==
    ASSUME TypeOK, NEW o \in Operator, Active(o), run[o].todo # <<>>, TodoIsRest(o),
           BehindIsHandled(o), run'[o].todo = Tail(run[o].todo),
           run'[o].entries = run[o].entries, run'[o].clean => run[o].clean,
           \A m : m = Current(o) /\ run'[o].clean /\ Wanted(Head(run[o].todo)) => Handled(o, m)',
           \A m : Handled(o, m) => Handled(o, m)'
    PROVE  TodoIsRest(o)' /\ BehindIsHandled(o)'
<1>1. /\ Len(run[o].todo) \in Nat \ {0} /\ Len(run[o].entries) \in Nat
      /\ Len(Tail(run[o].todo)) = Len(run[o].todo) - 1
      /\ \A i \in 1 .. Len(run[o].todo) - 1 : Tail(run[o].todo)[i] = run[o].todo[i + 1]
      /\ Head(run[o].todo) = run[o].todo[1]
  BY HeadFacts DEF TypeOK, RunState
<1>2. /\ Behind(o) >= 0 /\ Behind(o) \in Int /\ Behind(o)' = Behind(o) + 1
      /\ \A i \in 1 .. Len(run[o].todo) : run[o].todo[i] = run[o].entries[Behind(o) + i]
  <2>1. Behind(o)' = Len(run[o].entries) - Len(Tail(run[o].todo))
    BY DEF Behind
  <2>2. Behind(o) = Len(run[o].entries) - Len(run[o].todo)
    BY DEF Behind
  <2>3. Behind(o) \in Int /\ Behind(o)' = Behind(o) + 1
    <3>1. PICK x \in Nat, y \in Nat : /\ Len(run[o].entries) = x /\ Len(run[o].todo) = y
                                      /\ Len(Tail(run[o].todo)) = y - 1
      BY <1>1
    <3>2. Behind(o) = x - y /\ Behind(o)' = x - (y - 1)
      BY <2>1, <2>2, <3>1
    <3>3. x - y \in Int /\ x - (y - 1) = (x - y) + 1
      OBVIOUS
    <3>4. QED
      BY <3>2, <3>3
  <2>4. QED
    BY <2>3 DEF TodoIsRest
<1>3. TodoIsRest(o)'
  <2>1. \A i \in 1 .. Len(run[o].todo) - 1 :
           Tail(run[o].todo)[i] = run[o].entries[Behind(o) + (i + 1)]
    BY <1>1, <1>2
  <2>2. \A i \in 1 .. Len(run[o].todo) - 1 : Behind(o) + (i + 1) = Behind(o) + 1 + i
    BY <1>1, <1>2
  <2>3. QED
    BY <1>1, <1>2, <2>1, <2>2 DEF TodoIsRest
<1>4. run[o].entries[Behind(o) + 1] = Head(run[o].todo)
  BY <1>1, <1>2
<1>5. BehindIsHandled(o)'
  <2>1. SUFFICES ASSUME run'[o].clean, NEW i \in 1 .. Behind(o) + 1,
                        Wanted(run[o].entries[i]), NEW m, m = run[o].entries[i].mirror
                 PROVE  Handled(o, m)'
    BY <1>2 DEF BehindIsHandled
  <2>2. CASE i = Behind(o) + 1
    BY <1>4, <2>1, <2>2 DEF Current
  <2>3. CASE i # Behind(o) + 1
    <3>1. i \in 1 .. Behind(o)
      BY <1>2, <2>3
    <3>2. QED
      BY <2>1, <3>1 DEF BehindIsHandled
  <2>4. QED
    BY <2>2, <2>3
<1>6. QED
  BY <1>3, <1>5

(* A run that stays at its entry.                                          *)
LEMMA Stay ==
    ASSUME NEW o \in Operator, Active(o), TodoIsRest(o), BehindIsHandled(o),
           run'[o].todo = run[o].todo, run'[o].entries = run[o].entries,
           run'[o].clean => run[o].clean, \A m : Handled(o, m) => Handled(o, m)'
    PROVE  TodoIsRest(o)' /\ BehindIsHandled(o)'
<1>1. Behind(o)' = Behind(o)
  BY DEF Behind
<1>2. QED
  BY <1>1 DEF TodoIsRest, BehindIsHandled

(* A step that leaves the copy and the remote alone.                       *)
LEMMA SameRepo ==
    ASSUME TypeOK, NEW o \in Operator, OperatorOK(o), repo' = repo, remote' = remote,
           projects \subseteq projects'
    PROVE  /\ RepoOK(o)' /\ Present(o)' = Present(o) /\ Held(o)' = Held(o)
           /\ Published \subseteq Published'
           /\ (Active(o)' /\ run'[o].tar => Active(o) /\ run[o].tar /\ run'[o].id = run[o].id)
                => AheadByOwn(o)'
           /\ (run[o].tar => run'[o].tar) => \A m : Handled(o, m) => Handled(o, m)'
<1>1. RepoOK(o)' /\ Present(o)' = Present(o) /\ Held(o)' = Held(o)
  BY DEF OperatorOK, RepoOK, Held, Present
<1>2. Published \subseteq Published'
  BY DEF Published
<1>3. ASSUME Active(o)' /\ run'[o].tar => Active(o) /\ run[o].tar /\ run'[o].id = run[o].id
      PROVE  AheadByOwn(o)'
  BY <1>3 DEF OperatorOK, AheadByOwn
<1>4. ASSUME run[o].tar => run'[o].tar PROVE \A m : Handled(o, m) => Handled(o, m)'
  BY <1>1, <1>4 DEF Handled
<1>5. QED
  BY <1>1, <1>2, <1>3, <1>4

LEMMA OnlyRunFacts ==
    OnlyRun => repo' = repo /\ remote' = remote /\ projects' = projects /\ groups' = groups
  BY DEF OnlyRun, gitlab

-----------------------------------------------------------------------------
(***************************************************************************)
(* Each step of an operator keeps what is known of it.                     *)
(***************************************************************************)
LEMMA StartOK ==
    ASSUME TypeOK, NEW o \in Operator, OperatorOK(o), Start(o)
    PROVE  OperatorOK(o)'
<1>1. /\ run[o] \in RunState /\ run \in [Operator -> RunState]
      /\ repo' = repo /\ remote' = remote /\ projects' = projects
  BY DEF TypeOK, Start, gitlab
<1>2. list \in Seq(Problems)
  BY ListsAssumption DEF Start, TypeOK
<1>3. runs + 1 \in 1 .. MaxRuns /\ runs + 1 \in 0 .. MaxRuns
  BY BoundsAssumption DEF Start, TypeOK
<1> DEFINE r == [NewRun EXCEPT !.id = runs + 1, !.pc = "next", !.entries = list, !.todo = list]
<1>4. /\ r \in RunState /\ r.id = runs + 1 /\ r.pc = "next" /\ r.entries = list /\ r.todo = list
      /\ r.tar = FALSE
  <2>1. r \in RunState
    BY <1>2, <1>3, NewTypes DEF RunState
  <2>2. QED
    BY <2>1 DEF NewRun
<1>5. Become(o, r)
  BY DEF Start
<1> HIDE DEF r
<1>6. run'[o] = r
  BY <1>1, <1>4, <1>5, BecomeFacts
<1>7. RepoOK(o)' /\ AheadByOwn(o)'
  BY <1>1, <1>4, <1>6, SameRepo
<1>8. PlaceOK(o)'
  BY <1>3, <1>4, <1>6 DEF PlaceOK
<1>9. TodoIsRest(o)' /\ BehindIsHandled(o)'
  <2>1. Len(list) \in Nat
    BY <1>2
  <2>2. Behind(o)' = 0
    BY <1>4, <1>6, <2>1 DEF Behind
  <2>3. QED
    BY <1>4, <1>6, <2>1, <2>2 DEF TodoIsRest, BehindIsHandled
<1>10. DoneIsMirrored(o)'
  BY <1>4, <1>6 DEF DoneIsMirrored
<1>11. QED
  BY <1>7, <1>8, <1>9, <1>10 DEF OperatorOK

(* A run that goes on without having touched its copy.                     *)
LEMMA NextOK ==
    ASSUME TypeOK, NEW o \in Operator, OperatorOK(o), Active(o), run[o].todo # <<>>,
           repo' = repo, remote' = remote, projects \subseteq projects',
           run'[o].pc = "next", run'[o].id = run[o].id, run'[o].tar = run[o].tar,
           run'[o].entries = run[o].entries, run'[o].todo = Tail(run[o].todo),
           run'[o].clean => run[o].clean,
           \A m : m = Current(o) /\ run'[o].clean /\ Wanted(Head(run[o].todo)) => Handled(o, m)'
    PROVE  OperatorOK(o)'
<1>1. RepoOK(o)' /\ AheadByOwn(o)' /\ \A m : Handled(o, m) => Handled(o, m)'
  BY SameRepo DEF Active, Ended
<1>2. PlaceOK(o)'
  BY DEF PlaceOK, OperatorOK, Active, Ended
<1>3. TodoIsRest(o)' /\ BehindIsHandled(o)'
  BY <1>1, Advance DEF OperatorOK
<1>4. DoneIsMirrored(o)'
  BY DEF DoneIsMirrored
<1>5. QED
  BY <1>1, <1>2, <1>3, <1>4 DEF OperatorOK

LEMMA SkipOK ==
    ASSUME TypeOK, NEW o \in Operator, OperatorOK(o), Skip(o) \/ Decline(o)
    PROVE  OperatorOK(o)'
<1>1. /\ run \in [Operator -> RunState] /\ run[o] \in RunState
      /\ Active(o) /\ run[o].pc = "next" /\ run[o].todo # <<>> /\ OnlyRun
  BY DEF TypeOK, Skip, Decline, At, Active, Ended
<1>2. CASE Skip(o)
  <2>1. ~ Wanted(Head(run[o].todo))
    BY <1>2 DEF Skip, Wanted, Current
  <2>2. QED
    BY <1>1, <1>2, <2>1, NextEntryFacts, NextOK, OnlyRunFacts DEF Skip
<1>3. CASE Decline(o)
  <2> DEFINE r == [run[o] EXCEPT !.todo = Tail(@), !.clean = FALSE]
  <2>1. /\ r \in RunState /\ r.pc = "next" /\ r.id = run[o].id /\ r.tar = run[o].tar
        /\ r.entries = run[o].entries /\ r.todo = Tail(run[o].todo) /\ r.clean = FALSE
    BY <1>1, HeadFacts DEF RunState
  <2>2. Become(o, r)
    BY <1>3 DEF Decline
  <2> HIDE DEF r
  <2>3. run'[o] = r
    BY <1>1, <2>1, <2>2, BecomeFacts
  <2>4. QED
    BY <1>1, <2>1, <2>3, NextOK, OnlyRunFacts
<1>4. QED
  BY <1>2, <1>3

(* A run that goes to another place for the same entry.                    *)
LEMMA SameEntryOK ==
    ASSUME TypeOK, NEW o \in Operator, OperatorOK(o), Active(o),
           repo' = repo, remote' = remote, projects \subseteq projects',
           run'[o].id = run[o].id, run'[o].tar = run[o].tar,
           run'[o].entries = run[o].entries, run'[o].todo = run[o].todo,
           run'[o].clean => run[o].clean, run'[o].pc # "done", PlaceOK(o)'
    PROVE  OperatorOK(o)'
<1>1. RepoOK(o)' /\ AheadByOwn(o)' /\ \A m : Handled(o, m) => Handled(o, m)'
  BY SameRepo
<1>2. TodoIsRest(o)' /\ BehindIsHandled(o)'
  BY <1>1, Stay DEF OperatorOK
<1>3. DoneIsMirrored(o)'
  BY DEF DoneIsMirrored
<1>4. QED
  BY <1>1, <1>2, <1>3 DEF OperatorOK

LEMMA DispatchOK ==
    ASSUME TypeOK, <<>> \in groups, NEW o \in Operator, OperatorOK(o), Dispatch(o)
    PROVE  OperatorOK(o)'
<1>1. /\ run \in [Operator -> RunState] /\ run[o] \in RunState
      /\ Active(o) /\ run[o].pc = "next" /\ run[o].todo # <<>> /\ OnlyRun /\ Current(o) # None
      /\ run[o].id \in 1 .. MaxRuns
  BY DEF TypeOK, Dispatch, At, Active, Ended, OperatorOK, PlaceOK
<1>2. /\ Head(run[o].todo).kind \in GitKinds => Current(o) \in GitMirror
      /\ Head(run[o].todo).kind \in FileKinds => Current(o) \in FileMirror
  BY <1>1, HeadFacts, ListsAssumption
<1>3. CASE /\ Head(run[o].todo).kind \in GitKinds
           /\ Become(o, [run[o] EXCEPT !.pc = "group", !.at = <<>>])
  <2> DEFINE r == [run[o] EXCEPT !.pc = "group", !.at = <<>>]
  <2>1. <<>> \in Seq(STRING)
    OBVIOUS
  <2>2. /\ r \in RunState /\ r.pc = "group" /\ r.id = run[o].id /\ r.tar = run[o].tar
        /\ r.entries = run[o].entries /\ r.todo = run[o].todo /\ r.clean = run[o].clean
        /\ r.at = <<>>
    BY <1>1, <2>1 DEF RunState
  <2>3. run'[o] = r
    BY <1>1, <1>3, <2>2, BecomeFacts
  <2> HIDE DEF r
  <2>4. Current(o) \in GitMirror /\ Group(o) \in Seq(STRING)
    BY <1>2, <1>3, GroupsAssumption DEF Group
  <2>5. IsPrefix(<<>>, Group(o))
    BY <2>1, <2>4, PrefixOrder
  <2>6. Prefixes(<<>>) \subseteq groups
    <3>1. \A l \in 0 .. 0 : SubSeq(<<>>, 1, l) = <<>>
      BY SubSeqEmpty
    <3>2. Len(<<>>) = 0
      OBVIOUS
    <3>3. QED
      BY <3>1, <3>2 DEF Prefixes
  <2>7. Current(o)' = Current(o) /\ Group(o)' = Group(o)
    BY <2>2, <2>3 DEF Current, Group
  <2>8. PlaceOK(o)'
    BY <1>1, <2>2, <2>3, <2>4, <2>5, <2>6, <2>7, OnlyRunFacts DEF PlaceOK
  <2>9. QED
    BY <1>1, <2>2, <2>3, <2>8, SameEntryOK, OnlyRunFacts
<1>4. CASE /\ Head(run[o].todo).kind \in FileKinds
           /\ GoTo(o, IF run[o].tar THEN "file" ELSE "init")
  <2> DEFINE pc == IF run[o].tar THEN "file" ELSE "init"
  <2>1. pc \in Place
    BY DEF Place
  <2>2. /\ run'[o].pc = pc /\ run'[o].id = run[o].id /\ run'[o].tar = run[o].tar
        /\ run'[o].entries = run[o].entries /\ run'[o].todo = run[o].todo
        /\ run'[o].clean = run[o].clean
    BY <1>1, <1>4, <2>1, GoToFacts
  <2>3. Current(o)' = Current(o)
    BY <2>2 DEF Current
  <2>4. PlaceOK(o)'
    BY <1>1, <1>2, <1>4, <2>2, <2>3 DEF PlaceOK
  <2>5. QED
    BY <1>1, <2>2, <2>4, SameEntryOK, OnlyRunFacts
<1>5. QED
  BY <1>3, <1>4 DEF Dispatch

(* A run that ends has nothing more to keep, except what DoneMeansMirrored *)
(* asks of one that comes to its end.                                      *)
LEMMA EndOK ==
    ASSUME TypeOK, NEW o \in Operator, OperatorOK(o), run[o].pc # "idle", repo' = repo,
           remote' = remote, projects \subseteq projects', run'[o].id = run[o].id,
           run'[o].pc \in {"done", "died", "conflict"}, DoneIsMirrored(o)'
    PROVE  OperatorOK(o)'
<1>1. RepoOK(o)' /\ AheadByOwn(o)'
  BY SameRepo DEF Active, Ended
<1>2. PlaceOK(o)'
  BY DEF OperatorOK, PlaceOK, Active, Ended
<1>3. TodoIsRest(o)' /\ BehindIsHandled(o)'
  BY DEF TodoIsRest, BehindIsHandled, Active, Ended
<1>4. QED
  BY <1>1, <1>2, <1>3 DEF OperatorOK

LEMMA DieOK ==
    ASSUME TypeOK, NEW o \in Operator, OperatorOK(o), Die(o) \/ DeclinePush(o)
    PROVE  OperatorOK(o)'
<1>1. /\ run \in [Operator -> RunState] /\ run[o] \in RunState /\ run[o].pc # "idle" /\ OnlyRun
  BY DEF TypeOK, Die, DeclinePush, At, Ended
<1>2. CASE Die(o)
  <2>1. run'[o].pc = "died" /\ run'[o].id = run[o].id
    BY <1>1, <1>2, GoToFacts DEF Die, Place
  <2>2. QED
    BY <1>1, <2>1, EndOK, OnlyRunFacts DEF DoneIsMirrored
<1>3. CASE DeclinePush(o)
  <2> DEFINE r == [run[o] EXCEPT !.pc = "done", !.clean = FALSE]
  <2>1. r \in RunState /\ r.pc = "done" /\ r.id = run[o].id /\ r.clean = FALSE
    BY <1>1 DEF RunState, Ended
  <2>2. Become(o, r)
    BY <1>3 DEF DeclinePush
  <2> HIDE DEF r
  <2>3. run'[o] = r
    BY <1>1, <2>1, <2>2, BecomeFacts
  <2>4. QED
    BY <1>1, <2>1, <2>3, EndOK, OnlyRunFacts DEF DoneIsMirrored
<1>4. QED
  BY <1>2, <1>3

(* At the end of the list everything is behind the run, and what is in the *)
(* copy's master is on the remote when master is not ahead.                *)
LEMMA EndOfList ==
    ASSUME TypeOK, NEW o \in Operator, OperatorOK(o), Active(o), run[o].clean,
           run[o].todo = <<>>
    PROVE  \A i \in DOMAIN run[o].entries :
              Wanted(run[o].entries[i]) => Handled(o, run[o].entries[i].mirror)
<1>1. run[o].entries \in Seq(Problems)
  BY DEF TypeOK, RunState
<1>2. DOMAIN run[o].entries = 1 .. Len(run[o].entries) /\ Len(run[o].entries) \in Nat
  BY <1>1
<1>3. Behind(o) = Len(run[o].entries)
  BY <1>2 DEF Behind
<1>4. QED
  BY <1>2, <1>3 DEF OperatorOK, BehindIsHandled

LEMMA FinishOK ==
    ASSUME TypeOK, NEW o \in Operator, OperatorOK(o), Finish(o)
    PROVE  OperatorOK(o)'
<1>1. /\ run \in [Operator -> RunState] /\ run[o] \in RunState /\ run[o].pc # "idle"
      /\ Active(o) /\ run[o].todo = <<>> /\ OnlyRun /\ ~ (run[o].tar /\ Ahead(o))
  BY DEF TypeOK, Finish, At, Ended, Active
<1>2. /\ run'[o].pc = "done" /\ run'[o].id = run[o].id /\ run'[o].clean = run[o].clean
      /\ run'[o].entries = run[o].entries
  BY <1>1, GoToFacts DEF Finish, Place
<1>3. run[o].tar => FilesOf(repo[o].head) \subseteq FilesOf(remote)
  <2>1. /\ repo[o].head \in Commits /\ repo[o].origin \in Commits /\ remote \in Commits
        /\ IsPrefix(repo[o].origin, remote)
    BY DEF TypeOK, Repo, OperatorOK, RepoOK
  <2>2. QED
    BY <1>1, <2>1, FilesOfPrefix DEF Ahead
<1>4. \A m : Handled(o, m) => m \in Published \/ m \in Names(Held(o))
  BY <1>3 DEF Handled, Present, Published, Held, Names
<1>5. /\ repo' = repo /\ remote' = remote /\ projects' = projects
  BY <1>1, OnlyRunFacts
<1>6. DoneIsMirrored(o)'
  BY <1>1, <1>2, <1>4, <1>5, EndOfList DEF DoneIsMirrored, Published, Held
<1>7. QED
  BY <1>1, <1>2, <1>5, <1>6, EndOK

-----------------------------------------------------------------------------
LEMMA FindGroupOK ==
    ASSUME TypeOK, NEW o \in Operator, OperatorOK(o), FindGroup(o) \/ CreateGroup(o)
    PROVE  OperatorOK(o)'
<1>1. /\ run \in [Operator -> RunState] /\ run[o] \in RunState /\ Active(o)
      /\ run[o].pc \in {"group", "mkgroup"} /\ run[o].todo # <<>> /\ Current(o) \in GitMirror
      /\ IsPrefix(run[o].at, Group(o)) /\ Prefixes(run[o].at) \subseteq groups
      /\ run[o].id \in 1 .. MaxRuns /\ run[o].at \in Seq(STRING)
  BY DEF TypeOK, RunState, FindGroup, CreateGroup, At, OperatorOK, PlaceOK, Active, Ended
<1>2. Group(o) \in Seq(STRING)
  BY <1>1, GroupsAssumption DEF Group
<1>3. /\ repo' = repo /\ remote' = remote /\ projects' = projects /\ groups \subseteq groups'
  BY OnlyRunFacts DEF FindGroup, CreateGroup
<1>4. ASSUME run[o].at # Group(o)
      PROVE  /\ Daughter(o) \in Seq(STRING) /\ IsPrefix(Daughter(o), Group(o))
             /\ Prefixes(Daughter(o)) \subseteq Prefixes(run[o].at) \cup {Daughter(o)}
  BY <1>1, <1>2, <1>4, PathFacts DEF Daughter, Group
<1>5. ASSUME run[o].at # Group(o), Daughter(o) \in groups',
             run'[o].pc = "group", run'[o].at = Daughter(o), run'[o].id = run[o].id,
             run'[o].entries = run[o].entries, run'[o].todo = run[o].todo,
             run'[o].tar = run[o].tar, run'[o].clean = run[o].clean
      PROVE  OperatorOK(o)'
  <2>1. Current(o)' = Current(o) /\ Group(o)' = Group(o)
    BY <1>5 DEF Current, Group
  <2>2. PlaceOK(o)'
    BY <1>1, <1>3, <1>4, <1>5, <2>1 DEF PlaceOK
  <2>3. QED
    BY <1>1, <1>3, <1>5, <2>2, SameEntryOK
<1>6. CASE FindGroup(o)
  <2>1. CASE run[o].at = Group(o)
    <3>1. GoTo(o, "project")
      BY <1>6, <2>1 DEF FindGroup, Group
    <3>2. /\ run'[o].pc = "project" /\ run'[o].id = run[o].id /\ run'[o].entries = run[o].entries
          /\ run'[o].todo = run[o].todo /\ run'[o].tar = run[o].tar /\ run'[o].clean = run[o].clean
      BY <1>1, <3>1, GoToFacts DEF Place
    <3>3. Current(o)' = Current(o) /\ Group(o)' = Group(o)
      BY <3>2 DEF Current, Group
    <3>4. PlaceOK(o)'
      BY <1>1, <1>3, <2>1, <3>2, <3>3 DEF PlaceOK
    <3>5. QED
      BY <1>1, <1>3, <3>2, <3>4, SameEntryOK
  <2>2. CASE run[o].at # Group(o) /\ Daughter(o) \in groups
    <3> DEFINE r == [run[o] EXCEPT !.at = Daughter(o)]
    <3>1. /\ r \in RunState /\ r.pc = run[o].pc /\ r.at = Daughter(o) /\ r.id = run[o].id
          /\ r.entries = run[o].entries /\ r.todo = run[o].todo /\ r.tar = run[o].tar
          /\ r.clean = run[o].clean
      BY <1>1, <1>4, <2>2 DEF RunState
    <3>2. Become(o, r) /\ run[o].pc = "group"
      BY <1>6, <2>2 DEF FindGroup, Group, At
    <3> HIDE DEF r
    <3>3. run'[o] = r
      BY <1>1, <3>1, <3>2, BecomeFacts
    <3>4. QED
      BY <1>3, <1>5, <2>2, <3>1, <3>2, <3>3
  <2>3. CASE run[o].at # Group(o) /\ Daughter(o) \notin groups
    <3>1. GoTo(o, "mkgroup")
      BY <1>6, <2>3 DEF FindGroup, Group
    <3>2. /\ run'[o].pc = "mkgroup" /\ run'[o].id = run[o].id /\ run'[o].entries = run[o].entries
          /\ run'[o].todo = run[o].todo /\ run'[o].tar = run[o].tar /\ run'[o].clean = run[o].clean
          /\ run'[o].at = run[o].at
      BY <1>1, <3>1, GoToFacts DEF Place
    <3>3. Current(o)' = Current(o) /\ Group(o)' = Group(o)
      BY <3>2 DEF Current, Group
    <3>4. PlaceOK(o)'
      BY <1>1, <1>3, <2>3, <3>2, <3>3 DEF PlaceOK
    <3>5. QED
      BY <1>1, <1>3, <3>2, <3>4, SameEntryOK
  <2>4. QED
    BY <2>1, <2>2, <2>3
<1>7. CASE CreateGroup(o)
  <2>1. run[o].at # Group(o) /\ run[o].pc = "mkgroup"
    BY <1>7 DEF CreateGroup, At, OperatorOK, PlaceOK
  <2>2. CASE Daughter(o) \in groups
    <3>1. run'[o].pc = "conflict" /\ run'[o].id = run[o].id
      BY <1>1, <1>7, <2>2, GoToFacts DEF CreateGroup, Place
    <3>2. QED
      BY <1>1, <1>3, <2>1, <3>1, EndOK DEF DoneIsMirrored
  <2>3. CASE Daughter(o) \notin groups
    <3> DEFINE r == [run[o] EXCEPT !.pc = "group", !.at = Daughter(o)]
    <3>1. /\ r \in RunState /\ r.pc = "group" /\ r.at = Daughter(o) /\ r.id = run[o].id
          /\ r.entries = run[o].entries /\ r.todo = run[o].todo /\ r.tar = run[o].tar
          /\ r.clean = run[o].clean
      BY <1>1, <1>4, <2>1 DEF RunState
    <3>2. Become(o, r) /\ groups' = groups \cup {Daughter(o)}
      BY <1>7, <2>3 DEF CreateGroup
    <3> HIDE DEF r
    <3>3. run'[o] = r
      BY <1>1, <3>1, <3>2, BecomeFacts
    <3>4. QED
      BY <1>3, <1>5, <2>1, <3>1, <3>2, <3>3
  <2>4. QED
    BY <2>2, <2>3
<1>8. QED
  BY <1>6, <1>7

LEMMA FindProjectOK ==
    ASSUME TypeOK, NEW o \in Operator, OperatorOK(o), FindProject(o) \/ CreateProject(o)
    PROVE  OperatorOK(o)'
<1>1. /\ run \in [Operator -> RunState] /\ run[o] \in RunState /\ Active(o)
      /\ run[o].pc \in {"project", "mkproject"} /\ run[o].todo # <<>> /\ Current(o) \in GitMirror
      /\ Prefixes(Group(o)) \subseteq groups /\ run[o].id \in 1 .. MaxRuns
  BY DEF TypeOK, FindProject, CreateProject, At, OperatorOK, PlaceOK, Active, Ended
<1>2. /\ repo' = repo /\ remote' = remote /\ projects \subseteq projects' /\ groups' = groups
  BY OnlyRunFacts DEF FindProject, CreateProject
<1>3. ASSUME NextEntry(o), Current(o) \in projects' PROVE OperatorOK(o)'
  <2>1. \A m : m = Current(o) => Handled(o, m)'
    BY <1>3 DEF Handled
  <2>2. QED
    BY <1>1, <1>2, <1>3, <2>1, NextEntryFacts, NextOK
<1>4. CASE FindProject(o)
  <2>1. CASE Current(o) \in projects
    BY <1>2, <1>3, <1>4, <2>1 DEF FindProject
  <2>2. CASE Current(o) \notin projects
    <3>1. GoTo(o, "mkproject")
      BY <1>4, <2>2 DEF FindProject
    <3>2. /\ run'[o].pc = "mkproject" /\ run'[o].id = run[o].id
          /\ run'[o].entries = run[o].entries /\ run'[o].todo = run[o].todo
          /\ run'[o].tar = run[o].tar /\ run'[o].clean = run[o].clean
      BY <1>1, <3>1, GoToFacts DEF Place
    <3>3. Current(o)' = Current(o) /\ Group(o)' = Group(o)
      BY <3>2 DEF Current, Group
    <3>4. PlaceOK(o)'
      BY <1>1, <1>2, <3>2, <3>3 DEF PlaceOK
    <3>5. QED
      BY <1>1, <1>2, <3>2, <3>4, SameEntryOK
  <2>3. QED
    BY <2>1, <2>2
<1>5. CASE CreateProject(o)
  <2>1. CASE Current(o) \in projects
    <3>1. run'[o].pc = "conflict" /\ run'[o].id = run[o].id
      BY <1>1, <1>5, <2>1, GoToFacts DEF CreateProject, Place
    <3>2. QED
      BY <1>1, <1>2, <3>1, EndOK DEF DoneIsMirrored
  <2>2. CASE Current(o) \notin projects
    BY <1>3, <1>5, <2>2 DEF CreateProject
  <2>3. QED
    BY <2>1, <2>2
<1>6. QED
  BY <1>4, <1>5

-----------------------------------------------------------------------------
(* A run whose copy becomes ready for files.                               *)
LEMMA ReadyOK ==
    ASSUME TypeOK, NEW o \in Operator, OperatorOK(o), run[o].pc \in {"init", "pull"},
           RepoOK(o)', repo'[o].head = remote, repo'[o].origin = remote,
           Become(o, [run[o] EXCEPT !.pc = "file", !.tar = TRUE]), projects' = projects
    PROVE  OperatorOK(o)'
<1>1. /\ run \in [Operator -> RunState] /\ run[o] \in RunState /\ Active(o)
      /\ run[o].todo # <<>> /\ Current(o) \in FileMirror /\ run[o].id \in 1 .. MaxRuns
      /\ ~ run[o].tar /\ remote \in Commits
  BY DEF TypeOK, OperatorOK, PlaceOK, Active, Ended
<1> DEFINE r == [run[o] EXCEPT !.pc = "file", !.tar = TRUE]
<1>2. /\ r \in RunState /\ r.pc = "file" /\ r.tar = TRUE /\ r.id = run[o].id
      /\ r.entries = run[o].entries /\ r.todo = run[o].todo /\ r.clean = run[o].clean
  BY <1>1 DEF RunState, Ended
<1>3. run'[o] = r
  BY <1>1, <1>2, BecomeFacts
<1> HIDE DEF r
<1>4. AheadByOwn(o)'
  <2>1. IsPrefix(remote, remote)
    BY <1>1, PrefixOrder DEF Commits
  <2>2. QED
    BY <2>1 DEF AheadByOwn
<1>5. Current(o)' = Current(o)
  BY <1>2, <1>3 DEF Current
<1>6. PlaceOK(o)'
  BY <1>1, <1>2, <1>3, <1>5 DEF PlaceOK
<1>7. \A m : Handled(o, m) => Handled(o, m)'
  BY <1>1 DEF Handled
<1>8. TodoIsRest(o)' /\ BehindIsHandled(o)'
  BY <1>1, <1>2, <1>3, <1>7, Stay DEF OperatorOK
<1>9. DoneIsMirrored(o)'
  BY <1>2, <1>3 DEF DoneIsMirrored
<1>10. QED
  BY <1>4, <1>6, <1>8, <1>9 DEF OperatorOK

(* A run that ends while it works on its copy.                             *)
LEMMA FailOK ==
    ASSUME TypeOK, NEW o \in Operator, OperatorOK(o), Active(o), RepoOK(o)',
           GoTo(o, "died")
    PROVE  OperatorOK(o)'
<1>1. run'[o].pc = "died" /\ run'[o].id = run[o].id /\ run[o].pc # "idle"
  BY GoToFacts DEF TypeOK, Place, Active, Ended
<1>2. PlaceOK(o)'
  BY <1>1 DEF OperatorOK, PlaceOK, Active, Ended
<1>3. QED
  BY <1>1, <1>2 DEF OperatorOK, AheadByOwn, TodoIsRest, BehindIsHandled, DoneIsMirrored,
                    Active, Ended

LEMMA CloneOK ==
    ASSUME TypeOK, NEW o \in Operator, Sound(remote), OperatorOK(o), Clone(o)
    PROVE  OperatorOK(o)'
<1>1. /\ repo \in [Operator -> Repo] /\ remote \in Commits /\ run[o].pc = "init" /\ Active(o)
      /\ remote' = remote /\ projects' = projects
  BY DEF TypeOK, Clone, At, Active, Ended, gitlab
<1>2. PICK dir \in {"broken", "fetched", "ready"} :
         /\ Keep(o, NewRepo(dir, remote))
         /\ \/ Become(o, [run[o] EXCEPT !.pc = "file", !.tar = TRUE])
            \/ GoTo(o, "died")
  BY DEF Clone
<1>3. repo'[o] = NewRepo(dir, remote)
  BY <1>1, <1>2, NewTypes, KeepFacts
<1>4. RepoOK(o)'
  <2>1. IsPrefix(remote, remote)
    BY <1>1, PrefixOrder DEF Commits
  <2>2. QED
    BY <1>1, <1>3, <2>1 DEF RepoOK, NewRepo, Held, Names
<1>5. repo'[o].head = remote /\ repo'[o].origin = remote
  BY <1>3 DEF NewRepo
<1>6. QED
  BY <1>1, <1>2, <1>4, <1>5, ReadyOK, FailOK

LEMMA FetchOK ==
    ASSUME TypeOK, NEW o \in Operator, OperatorOK(o), Fetch(o)
    PROVE  OperatorOK(o)'
<1>1. /\ repo \in [Operator -> Repo] /\ repo[o] \in Repo /\ remote \in Commits
      /\ run \in [Operator -> RunState] /\ run[o].pc = "init" /\ Active(o)
      /\ remote' = remote /\ projects' = projects /\ IsPrefix(remote, remote)
      /\ run[o].todo # <<>> /\ Current(o) \in FileMirror /\ run[o].id \in 1 .. MaxRuns
      /\ ~ run[o].tar
  BY PrefixOrder DEF TypeOK, Fetch, At, Active, Ended, gitlab, Commits, OperatorOK, PlaceOK
<1>2. RepoOK(o)'
  <2>1. CASE repo' = repo
    BY <1>1, <2>1 DEF OperatorOK, RepoOK, Held
  <2>2. CASE Keep(o, [repo[o] EXCEPT !.dir = "ready", !.origin = remote])
    <3> DEFINE r == [repo[o] EXCEPT !.dir = "ready", !.origin = remote]
    <3>1. /\ r \in Repo /\ r.head = repo[o].head /\ r.origin = remote
          /\ r.staged = repo[o].staged /\ r.untracked = repo[o].untracked
      BY <1>1 DEF Repo
    <3>2. repo'[o] = r
      BY <1>1, <2>2, <3>1, KeepFacts
    <3> HIDE DEF r
    <3>3. QED
      BY <1>1, <3>1, <3>2 DEF OperatorOK, RepoOK, Held
  <2>3. QED
    BY <2>1, <2>2 DEF Fetch
<1>3. CASE GoTo(o, "died")
  BY <1>1, <1>2, <1>3, FailOK
<1>4. CASE GoTo(o, "pull")
  <2>1. /\ run'[o].pc = "pull" /\ run'[o].id = run[o].id
        /\ run'[o].entries = run[o].entries /\ run'[o].todo = run[o].todo
        /\ run'[o].tar = run[o].tar /\ run'[o].clean = run[o].clean
    BY <1>1, <1>4, GoToFacts DEF Place
  <2>2. Current(o)' = Current(o)
    BY <2>1 DEF Current
  <2>3. PlaceOK(o)' /\ AheadByOwn(o)' /\ DoneIsMirrored(o)'
    BY <1>1, <2>1, <2>2 DEF PlaceOK, AheadByOwn, DoneIsMirrored
  <2>4. \A m : Handled(o, m) => Handled(o, m)'
    BY <1>1 DEF Handled
  <2>5. TodoIsRest(o)' /\ BehindIsHandled(o)'
    BY <1>1, <2>1, <2>4, Stay DEF OperatorOK
  <2>6. QED
    BY <1>2, <2>3, <2>5 DEF OperatorOK
<1>5. QED
  BY <1>3, <1>4 DEF Fetch

(* The files that git pull brings are neither untracked nor staged.        *)
LEMMA PullOK ==
    ASSUME TypeOK, NEW o \in Operator, Sound(remote), OperatorOK(o), Pull(o)
    PROVE  OperatorOK(o)'
<1>1. /\ repo \in [Operator -> Repo] /\ repo[o] \in Repo /\ remote \in Commits
      /\ run \in [Operator -> RunState] /\ run[o].pc = "pull" /\ Active(o)
      /\ remote' = remote /\ projects' = projects /\ IsPrefix(remote, remote)
  BY PrefixOrder DEF TypeOK, Pull, At, Active, Ended, gitlab, Commits
<1> DEFINE arriving == Names(FilesOf(remote)) \ Names(FilesOf(repo[o].head))
           kept     == {f \in repo[o].staged : f.mirror \notin arriving}
           r        == [repo[o] EXCEPT !.head = remote, !.origin = remote, !.staged = kept]
           q        == [repo[o] EXCEPT !.origin = remote]
<1>2. CASE Names(repo[o].untracked) \cap arriving # {}
  <2>1. Keep(o, q) /\ GoTo(o, "died")
    BY <1>2 DEF Pull
  <2>2. /\ q \in Repo /\ q.head = repo[o].head /\ q.origin = remote
        /\ q.staged = repo[o].staged /\ q.untracked = repo[o].untracked
    BY <1>1 DEF Repo
  <2> HIDE DEF q
  <2>3. repo'[o] = q
    BY <1>1, <2>1, <2>2, KeepFacts
  <2>4. RepoOK(o)'
    BY <1>1, <2>2, <2>3 DEF OperatorOK, RepoOK, Held
  <2>5. QED
    BY <1>1, <2>1, <2>4, FailOK
<1>3. CASE Names(repo[o].untracked) \cap arriving = {}
  <2>1. Keep(o, r) /\ Become(o, [run[o] EXCEPT !.pc = "file", !.tar = TRUE])
    BY <1>3 DEF Pull
  <2>2. kept \in Files /\ kept \subseteq repo[o].staged
    BY <1>1 DEF Repo, Files
  <2>3. /\ r \in Repo /\ r.head = remote /\ r.origin = remote
        /\ r.staged = kept /\ r.untracked = repo[o].untracked
    BY <1>1, <2>2 DEF Repo
  <2>4. Names(kept \cup repo[o].untracked) \cap Names(FilesOf(remote)) = {}
    <3>1. SUFFICES ASSUME NEW f \in kept \cup repo[o].untracked, f.mirror \in Names(FilesOf(remote))
                   PROVE  FALSE
      BY DEF Names
    <3>2. f.mirror \notin Names(FilesOf(repo[o].head))
      BY <2>2 DEF OperatorOK, RepoOK, Held, Names
    <3>3. f.mirror \in arriving
      BY <3>1, <3>2
    <3>4. f \in repo[o].untracked
      BY <3>3
    <3>5. QED
      BY <1>3, <3>3, <3>4 DEF Names
  <2> HIDE DEF r, kept
  <2>5. repo'[o] = r
    BY <1>1, <2>1, <2>3, KeepFacts
  <2>6. RepoOK(o)'
    BY <1>1, <2>2, <2>3, <2>4, <2>5 DEF OperatorOK, RepoOK, Held, Names
  <2>7. QED
    BY <1>1, <2>1, <2>3, <2>5, <2>6, ReadyOK
<1>4. QED
  BY <1>2, <1>3

-----------------------------------------------------------------------------
LEMMA FindFileOK ==
    ASSUME TypeOK, NEW o \in Operator, OperatorOK(o), FindFile(o)
    PROVE  OperatorOK(o)'
<1>1. /\ run \in [Operator -> RunState] /\ run[o].pc = "file" /\ Active(o)
      /\ run[o].todo # <<>> /\ Current(o) \in FileMirror /\ run[o].id \in 1 .. MaxRuns
      /\ run[o].tar
      /\ repo' = repo /\ remote' = remote /\ projects' = projects
  BY OnlyRunFacts DEF TypeOK, FindFile, At, Active, Ended, OperatorOK, PlaceOK
<1>2. CASE Current(o) \in Present(o)
  <2>1. NextEntry(o)
    BY <1>2 DEF FindFile
  <2>2. run'[o].tar = run[o].tar
    BY <1>1, <2>1, NextEntryFacts
  <2>3. \A m : m = Current(o) => Handled(o, m)'
    BY <1>1, <1>2, <2>2 DEF Handled, Present
  <2>4. QED
    BY <1>1, <2>1, <2>3, NextEntryFacts, NextOK
<1>3. CASE Current(o) \notin Present(o)
  <2>1. GoTo(o, "wget")
    BY <1>3 DEF FindFile
  <2>2. /\ run'[o].pc = "wget" /\ run'[o].id = run[o].id
        /\ run'[o].entries = run[o].entries /\ run'[o].todo = run[o].todo
        /\ run'[o].tar = run[o].tar /\ run'[o].clean = run[o].clean
    BY <1>1, <2>1, GoToFacts DEF Place
  <2>3. Current(o)' = Current(o) /\ Present(o)' = Present(o)
    BY <1>1, <2>2 DEF Current, Present
  <2>4. PlaceOK(o)'
    BY <1>1, <1>3, <2>2, <2>3 DEF PlaceOK
  <2>5. QED
    BY <1>1, <2>2, <2>4, SameEntryOK
<1>4. QED
  BY <1>2, <1>3

(* A run that goes on with its file, having kept it in the copy.           *)
LEMMA SameFileOK ==
    ASSUME TypeOK, NEW o \in Operator, OperatorOK(o), Active(o), run[o].tar,
           repo'[o].head = repo[o].head, repo'[o].origin = repo[o].origin,
           RepoOK(o)', projects' = projects, Names(Held(o)) \subseteq Names(Held(o))',
           run'[o].id = run[o].id, run'[o].tar = run[o].tar,
           run'[o].entries = run[o].entries, run'[o].todo = run[o].todo,
           run'[o].clean = run[o].clean, run'[o].pc # "done", PlaceOK(o)'
    PROVE  OperatorOK(o)'
<1>1. AheadByOwn(o)' /\ DoneIsMirrored(o)'
  BY DEF OperatorOK, AheadByOwn, DoneIsMirrored
<1>2. \A m : Handled(o, m) => Handled(o, m)'
  BY DEF Handled, Present, Held, Names
<1>3. TodoIsRest(o)' /\ BehindIsHandled(o)'
  BY <1>2, Stay DEF OperatorOK
<1>4. QED
  BY <1>1, <1>3 DEF OperatorOK

LEMMA WgetOK ==
    ASSUME TypeOK, NEW o \in Operator, OperatorOK(o), Wget(o)
    PROVE  OperatorOK(o)'
<1>1. /\ repo \in [Operator -> Repo] /\ repo[o] \in Repo
      /\ run \in [Operator -> RunState] /\ run[o].pc = "wget" /\ Active(o)
      /\ run[o].todo # <<>> /\ Current(o) \in FileMirror /\ run[o].id \in 1 .. MaxRuns
      /\ run[o].tar /\ Current(o) \notin Present(o)
      /\ remote' = remote /\ projects' = projects
  BY DEF TypeOK, Wget, At, Active, Ended, gitlab, OperatorOK, PlaceOK
<1>2. PICK whole \in BOOLEAN :
         /\ Keep(o, [repo[o] EXCEPT !.untracked = @ \cup {File(Current(o), whole)}])
         /\ GoTo(o, IF whole THEN "add" ELSE "died")
  BY DEF Wget
<1> DEFINE file == File(Current(o), whole)
           r    == [repo[o] EXCEPT !.untracked = @ \cup {file}]
<1>3. file.mirror = Current(o) /\ file.whole = whole
  BY DEF File
<1>4. repo[o].untracked \cup {file} \in Files
  BY <1>1 DEF Repo, Files, File
<1>5. /\ r \in Repo /\ r.head = repo[o].head /\ r.origin = repo[o].origin
      /\ r.staged = repo[o].staged /\ r.untracked = repo[o].untracked \cup {file}
  BY <1>1, <1>4 DEF Repo
<1>6. repo'[o] = r
  BY <1>1, <1>2, <1>5, KeepFacts
<1> HIDE DEF r, file
<1>7. RepoOK(o)'
  <2>1. /\ file.mirror \notin Names(FilesOf(repo[o].head))
        /\ file.mirror \notin Names(repo[o].staged)
        /\ file.mirror \notin Names(repo[o].untracked)
    BY <1>1, <1>3 DEF Present, Names
  <2>2. Names(repo[o].staged) \cap Names(repo[o].untracked \cup {file}) = {}
    BY <2>1 DEF OperatorOK, RepoOK, Names
  <2>3. Names(repo[o].staged \cup (repo[o].untracked \cup {file}))
          \cap Names(FilesOf(repo[o].head)) = {}
    BY <2>1 DEF OperatorOK, RepoOK, Held, Names
  <2>4. QED
    BY <1>1, <1>5, <1>6, <2>2, <2>3 DEF OperatorOK, RepoOK, Held
<1>8. CASE GoTo(o, "died")
  BY <1>1, <1>7, <1>8, FailOK
<1>9. CASE GoTo(o, "add") /\ whole
  <2>1. /\ run'[o].pc = "add" /\ run'[o].id = run[o].id
        /\ run'[o].entries = run[o].entries /\ run'[o].todo = run[o].todo
        /\ run'[o].tar = run[o].tar /\ run'[o].clean = run[o].clean
    BY <1>1, <1>9, GoToFacts DEF Place
  <2>2. Current(o)' = Current(o)
    BY <2>1 DEF Current
  <2>3. /\ Current(o) \in Names(repo[o].untracked \cup {file})
        /\ \A f \in repo[o].untracked \cup {file} : f.mirror = Current(o) => f.whole
    BY <1>1, <1>3, <1>9 DEF Present, Names
  <2>4. PlaceOK(o)'
    BY <1>1, <1>5, <1>6, <2>1, <2>2, <2>3 DEF PlaceOK
  <2>5. Names(Held(o)) \subseteq Names(Held(o))'
    BY <1>5, <1>6 DEF Held, Names
  <2>6. QED
    BY <1>1, <1>5, <1>6, <1>7, <2>1, <2>4, <2>5, SameFileOK
<1>10. QED
  BY <1>2, <1>8, <1>9

LEMMA AddOK ==
    ASSUME TypeOK, NEW o \in Operator, OperatorOK(o), Add(o)
    PROVE  OperatorOK(o)'
<1>1. /\ repo \in [Operator -> Repo] /\ repo[o] \in Repo
      /\ run \in [Operator -> RunState] /\ run[o].pc = "add" /\ Active(o)
      /\ run[o].todo # <<>> /\ Current(o) \in FileMirror /\ run[o].id \in 1 .. MaxRuns
      /\ run[o].tar /\ Current(o) \in Names(repo[o].untracked)
      /\ \A f \in repo[o].untracked : f.mirror = Current(o) => f.whole
      /\ remote' = remote /\ projects' = projects
  BY DEF TypeOK, Add, At, Active, Ended, gitlab, OperatorOK, PlaceOK
<1> DEFINE added == {f \in repo[o].untracked : f.mirror = Current(o)}
           r == [repo[o] EXCEPT !.untracked = @ \ added, !.staged = @ \cup added]
<1>2. repo[o].untracked \ added \in Files /\ repo[o].staged \cup added \in Files
  BY <1>1 DEF Repo, Files
<1>3. /\ r \in Repo /\ r.head = repo[o].head /\ r.origin = repo[o].origin
      /\ r.staged = repo[o].staged \cup added /\ r.untracked = repo[o].untracked \ added
  BY <1>1, <1>2 DEF Repo
<1>4. repo'[o] = r
  BY <1>1, <1>3, KeepFacts DEF Add
<1>5. /\ run'[o].pc = "commit" /\ run'[o].id = run[o].id
      /\ run'[o].entries = run[o].entries /\ run'[o].todo = run[o].todo
      /\ run'[o].tar = run[o].tar /\ run'[o].clean = run[o].clean
  BY <1>1, GoToFacts DEF Add, Place
<1> HIDE DEF r
<1>6. Held(o)' = Held(o)
  BY <1>3, <1>4 DEF Held
<1>7. RepoOK(o)'
  <2>1. \A f \in repo[o].staged \cup added : f.whole
    BY <1>1 DEF OperatorOK, RepoOK
  <2>2. Names(repo[o].staged \cup added) \cap Names(repo[o].untracked \ added) = {}
    BY DEF OperatorOK, RepoOK, Names
  <2>3. QED
    BY <1>1, <1>3, <1>4, <1>6, <2>1, <2>2 DEF OperatorOK, RepoOK
<1>8. Current(o)' = Current(o)
  BY <1>5 DEF Current
<1>9. Current(o) \in Names(repo[o].staged \cup added)
  BY <1>1 DEF Names
<1>10. PlaceOK(o)'
  BY <1>1, <1>3, <1>4, <1>5, <1>8, <1>9 DEF PlaceOK
<1>11. QED
  BY <1>1, <1>3, <1>4, <1>5, <1>6, <1>7, <1>10, SameFileOK

(* The new commit is the run's own, and holds what was staged.             *)
LEMMA CommitOK ==
    ASSUME TypeOK, NEW o \in Operator, OperatorOK(o), Commit(o)
    PROVE  OperatorOK(o)'
<1>1. /\ repo \in [Operator -> Repo] /\ repo[o] \in Repo
      /\ run \in [Operator -> RunState] /\ run[o].pc = "commit" /\ Active(o)
      /\ run[o].todo # <<>> /\ run[o].id \in 1 .. MaxRuns /\ run[o].tar
      /\ Current(o) \in Names(repo[o].staged)
      /\ remote' = remote /\ projects' = projects /\ NextEntry(o)
  BY DEF TypeOK, Commit, At, Active, Ended, gitlab, OperatorOK, PlaceOK
<1> DEFINE head == repo[o].head
           c == [files |-> repo[o].staged, run |-> run[o].id]
           r == [repo[o] EXCEPT !.staged = {}, !.head = Append(@, c)]
<1>2. /\ c \in [files : Files, run : 1 .. MaxRuns] /\ c.files = repo[o].staged
      /\ c.run = run[o].id /\ head \in Commits /\ repo[o].origin \in Commits
  BY <1>1 DEF Repo
<1> HIDE DEF c
<1>3. /\ Append(head, c) \in Commits /\ FilesOf(Append(head, c)) = FilesOf(head) \cup c.files
      /\ IsPrefix(head, Append(head, c)) /\ {} \in Files
  BY <1>2, FilesOfAppend DEF Files
<1>4. /\ r \in Repo /\ r.head = Append(head, c) /\ r.origin = repo[o].origin
      /\ r.staged = {} /\ r.untracked = repo[o].untracked
  BY <1>1, <1>3 DEF Repo
<1>5. repo'[o] = r
  BY <1>1, <1>4, KeepFacts DEF Commit, c
<1> HIDE DEF r, head
<1>6. RepoOK(o)'
  <2>1. Sound(Append(head, c))
    BY <1>2, SoundAppend DEF OperatorOK, RepoOK, Held, Names, head
  <2>2. Names(repo[o].untracked) \cap Names(FilesOf(Append(head, c))) = {}
    BY <1>2, <1>3 DEF OperatorOK, RepoOK, Held, Names, head
  <2>3. Names({}) = {} /\ Held(o)' = repo[o].untracked
    BY <1>4, <1>5 DEF Names, Held
  <2>4. QED
    BY <1>1, <1>4, <1>5, <2>1, <2>2, <2>3 DEF OperatorOK, RepoOK
<1>7. /\ run'[o].pc = "next" /\ run'[o].id = run[o].id /\ run'[o].tar = run[o].tar
      /\ run'[o].entries = run[o].entries /\ run'[o].todo = Tail(run[o].todo)
      /\ run'[o].clean = run[o].clean
  BY <1>1, NextEntryFacts
<1>8. AheadByOwn(o)'
  <2>1. /\ IsPrefix(repo[o].origin, head)
        /\ \A i \in DOMAIN head \ DOMAIN repo[o].origin : head[i].run = run[o].id
    BY <1>1 DEF OperatorOK, AheadByOwn, head
  <2>2. IsPrefix(repo[o].origin, Append(head, c))
    BY <1>2, <1>3, <2>1, CommitsOrder
  <2>3. /\ DOMAIN head = 1 .. Len(head) /\ Len(head) \in Nat
        /\ DOMAIN Append(head, c) = 1 .. Len(head) + 1
        /\ \A i \in 1 .. Len(head) : Append(head, c)[i] = head[i]
        /\ Append(head, c)[Len(head) + 1] = c
    BY <1>2, AppendFacts DEF Commits
  <2>4. \A i \in DOMAIN Append(head, c) \ DOMAIN repo[o].origin :
           Append(head, c)[i].run = run[o].id
    BY <1>2, <2>1, <2>3
  <2>5. QED
    BY <1>4, <1>5, <1>7, <2>2, <2>4 DEF AheadByOwn
<1>9. PlaceOK(o)' /\ DoneIsMirrored(o)'
  BY <1>1, <1>7 DEF PlaceOK, DoneIsMirrored, Active, Ended
<1>10. \A m : Handled(o, m) => Handled(o, m)'
  <2>1. /\ FilesOf(repo[o].head) \cup repo[o].untracked \cup repo[o].staged
              \subseteq FilesOf(repo'[o].head) \cup repo'[o].untracked \cup repo'[o].staged
        /\ run'[o].tar
    BY <1>1, <1>2, <1>3, <1>4, <1>5, <1>7 DEF head
  <2>2. Present(o) \subseteq Present(o)'
    BY <2>1 DEF Present, Names
  <2>3. QED
    BY <1>1, <2>1, <2>2 DEF Handled
<1>11. \A m : m = Current(o) => Handled(o, m)'
  <2>1. repo[o].staged \subseteq FilesOf(repo'[o].head) /\ run'[o].tar
    BY <1>1, <1>2, <1>3, <1>4, <1>5, <1>7
  <2>2. Names(repo[o].staged) \subseteq Present(o)'
    BY <2>1 DEF Present, Names
  <2>3. QED
    BY <1>1, <2>1, <2>2 DEF Handled
<1>12. TodoIsRest(o)' /\ BehindIsHandled(o)'
  BY <1>1, <1>7, <1>10, <1>11, Advance DEF OperatorOK
<1>13. QED
  BY <1>6, <1>8, <1>9, <1>12 DEF OperatorOK

(* A push that succeeds makes the copy's master the remote's.              *)
LEMMA PushOK ==
    ASSUME TypeOK, NEW o \in Operator, OperatorOK(o), Push(o)
    PROVE  OperatorOK(o)'
<1>1. /\ repo \in [Operator -> Repo] /\ repo[o] \in Repo /\ repo[o].head \in Commits
      /\ run \in [Operator -> RunState] /\ run[o] \in RunState /\ Active(o)
      /\ run[o].pc # "idle" /\ run[o].todo = <<>> /\ run[o].tar /\ projects' = projects
  BY DEF TypeOK, Repo, Push, At, Active, Ended, gitlab
<1>2. CASE IsPrefix(remote, repo[o].head)
  <2> DEFINE r == [repo[o] EXCEPT !.origin = repo[o].head]
  <2>1. remote' = repo[o].head /\ Keep(o, r) /\ GoTo(o, "done")
    BY <1>2 DEF Push
  <2>2. /\ r \in Repo /\ r.head = repo[o].head /\ r.origin = repo[o].head
        /\ r.staged = repo[o].staged /\ r.untracked = repo[o].untracked
    BY <1>1 DEF Repo
  <2> HIDE DEF r
  <2>3. repo'[o] = r
    BY <1>1, <2>1, <2>2, KeepFacts
  <2>4. /\ run'[o].pc = "done" /\ run'[o].id = run[o].id /\ run'[o].clean = run[o].clean
        /\ run'[o].entries = run[o].entries
    BY <1>1, <2>1, GoToFacts DEF Place
  <2>5. RepoOK(o)'
    <3>1. IsPrefix(repo[o].head, repo[o].head)
      BY <1>1, CommitsOrder
    <3>2. QED
      BY <2>1, <2>2, <2>3, <3>1 DEF OperatorOK, RepoOK, Held
  <2>6. DoneIsMirrored(o)'
    <3>1. \A m : Handled(o, m) => m \in Published' \/ m \in Names(Held(o)')
      BY <1>1, <2>1, <2>2, <2>3 DEF Handled, Present, Published, Held, Names
    <3>2. QED
      BY <1>1, <2>4, <3>1, EndOfList DEF DoneIsMirrored
  <2>7. PlaceOK(o)'
    BY <1>1, <2>4 DEF OperatorOK, PlaceOK, Active, Ended
  <2>8. QED
    BY <2>4, <2>5, <2>6, <2>7
       DEF OperatorOK, AheadByOwn, TodoIsRest, BehindIsHandled, Active, Ended
<1>3. CASE ~ IsPrefix(remote, repo[o].head)
  <2> DEFINE r == [run[o] EXCEPT !.pc = "done", !.clean = FALSE]
  <2>1. Become(o, r) /\ remote' = remote /\ repo' = repo
    BY <1>3 DEF Push
  <2>2. r \in RunState /\ r.pc = "done" /\ r.id = run[o].id /\ r.clean = FALSE
    BY <1>1 DEF RunState, Ended
  <2> HIDE DEF r
  <2>3. run'[o] = r
    BY <1>1, <2>1, <2>2, BecomeFacts
  <2>4. QED
    BY <1>1, <2>1, <2>2, <2>3, EndOK DEF DoneIsMirrored
<1>4. QED
  BY <1>2, <1>3

-----------------------------------------------------------------------------
(***************************************************************************)
(* The inductive invariant.                                                *)
(***************************************************************************)
LEMMA InitIInv == Init => IInv
<1> SUFFICES ASSUME Init PROVE IInv
  OBVIOUS
<1>1. <<>> \in groups
  <2>1. PICK m : m \in Existing
    BY ExistingAssumption
  <2>2. GroupOf[m] \in Seq(STRING)
    BY <2>1, ExistingAssumption, GroupsAssumption
  <2>3. SubSeq(GroupOf[m], 1, 0) = <<>> /\ 0 \in 0 .. Len(GroupOf[m])
    BY <2>2, SubSeqEmpty
  <2>4. <<>> \in Prefixes(GroupOf[m])
    BY <2>3 DEF Prefixes
  <2>5. QED
    BY <2>1, <2>4 DEF Init
<1>2. FilesOf(<<>>) = {} /\ Sound(<<>>) /\ IsPrefix(<<>>, <<>>)
  <2>1. DOMAIN <<>> = {}
    OBVIOUS
  <2>2. FilesOf(<<>>) = {}
    BY <2>1 DEF FilesOf
  <2>3. QED
    BY <2>1, <2>2, NewTypes, CommitsOrder DEF Sound
<1>3. ASSUME NEW o \in Operator PROVE OperatorOK(o)
  <2>1. /\ repo[o].head = <<>> /\ repo[o].origin = <<>> /\ repo[o].untracked = {}
        /\ repo[o].staged = {} /\ remote = <<>>
    BY <1>3 DEF Init, NewRepo
  <2>2. run[o].pc = "idle" /\ ~ Active(o)
    BY <1>3 DEF Init, NewRun, Active, Ended
  <2>3. RepoOK(o)
    BY <1>2, <2>1 DEF RepoOK, Held, Names
  <2>4. QED
    BY <2>2, <2>3 DEF OperatorOK, AheadByOwn, PlaceOK, TodoIsRest, BehindIsHandled, DoneIsMirrored
<1>4. QED
  BY <1>1, <1>2, <1>3, InitType DEF Init, IInv

(* A step of an operator, of which the others see GitLab and the remote.   *)
LEMMA OperatorStep ==
    ASSUME IInv, NEW o \in Operator, Step(o)
    PROVE  OperatorOK(o)'
  BY StartOK, SkipOK, DispatchOK, DieOK, FindGroupOK, FindProjectOK, CloneOK, FetchOK, PullOK,
     FindFileOK, WgetOK, AddOK, CommitOK, FinishOK, PushOK DEF Step, IInv

LEMMA RemoteGrows ==
    ASSUME TypeOK, [Next]_vars
    PROVE  \/ remote' = remote
           \/ \E o \in Operator : Push(o) /\ IsPrefix(remote, repo[o].head) /\ remote' = repo[o].head
<1>1. CASE CheckDefinitions \/ GetRepoList \/ GetFileMirrorList \/ UNCHANGED vars
  BY <1>1 DEF CheckDefinitions, GetRepoList, GetFileMirrorList, vars
<1>2. ASSUME NEW m \in GitMirror, Import(m) PROVE remote' = remote
  BY <1>2 DEF Import
<1>3. ASSUME NEW o \in Operator, Step(o), ~ Push(o) PROVE remote' = remote
  BY <1>3 DEF Step, Start, Skip, Decline, Dispatch, Die, FindGroup, CreateGroup, FindProject,
              CreateProject, Clone, Fetch, Pull, FindFile, Wget, Add, Commit, Finish,
              DeclinePush, OnlyRun
<1>4. ASSUME NEW o \in Operator, Push(o)
      PROVE  \/ remote' = remote
             \/ IsPrefix(remote, repo[o].head) /\ remote' = repo[o].head
  BY <1>4 DEF Push
<1>5. QED
  BY <1>1, <1>2, <1>3, <1>4 DEF Next

LEMMA GitLabGrows ==
    ASSUME [Next]_vars
    PROVE  groups \subseteq groups' /\ projects \subseteq projects' /\ synced \subseteq synced'
<1>1. CASE CheckDefinitions \/ GetRepoList \/ GetFileMirrorList \/ UNCHANGED vars
  BY <1>1 DEF CheckDefinitions, GetRepoList, GetFileMirrorList, vars, gitlab
<1>2. ASSUME NEW m \in GitMirror, Import(m)
      PROVE  groups \subseteq groups' /\ projects \subseteq projects' /\ synced \subseteq synced'
  BY <1>2 DEF Import
<1>3. ASSUME NEW o \in Operator, Step(o)
      PROVE  groups \subseteq groups' /\ projects \subseteq projects' /\ synced \subseteq synced'
  BY <1>3 DEF Step, Start, Skip, Decline, Dispatch, Die, FindGroup, CreateGroup, FindProject,
              CreateProject, Clone, Fetch, Pull, FindFile, Wget, Add, Commit, Finish, Push,
              DeclinePush, OnlyRun, gitlab
<1>4. QED
  BY <1>1, <1>2, <1>3 DEF Next

(* The copies and runs of the other operators are theirs.                  *)
LEMMA OthersStay ==
    ASSUME TypeOK, NEW o \in Operator, Step(o), NEW p \in Operator, p # o
    PROVE  run'[p] = run[p] /\ repo'[p] = repo[p]
<1>1. run \in [Operator -> RunState] /\ repo \in [Operator -> Repo]
  BY DEF TypeOK
<1>2. run'[p] = run[p]
  BY <1>1 DEF Step, Start, Skip, Decline, Dispatch, Die, FindGroup, CreateGroup, FindProject,
              CreateProject, Clone, Fetch, Pull, FindFile, Wget, Add, Commit, Finish, Push,
              DeclinePush, Become, GoTo, NextEntry
<1>3. repo'[p] = repo[p]
  BY <1>1 DEF Step, Start, Skip, Decline, Dispatch, Die, FindGroup, CreateGroup, FindProject,
              CreateProject, Clone, Fetch, Pull, FindFile, Wget, Add, Commit, Finish, Push,
              DeclinePush, Keep, OnlyRun
<1>4. QED
  BY <1>2, <1>3

LEMMA NextIInv == IInv /\ [Next]_vars => IInv'
<1> SUFFICES ASSUME IInv, [Next]_vars PROVE IInv'
  OBVIOUS
<1>1. TypeOK'
  BY TypeStep DEF IInv, OperatorOK
<1>2. <<>> \in groups'
  BY GitLabGrows DEF IInv
<1>3. Sound(remote) /\ Sound(remote')
  BY RemoteGrows DEF IInv, OperatorOK, RepoOK
<1>4. IsPrefix(remote, remote')
  BY RemoteGrows, CommitsOrder DEF IInv, TypeOK
<1>5. ASSUME NEW p \in Operator PROVE OperatorOK(p)'
  <2>1. ASSUME run'[p] = run[p], repo'[p] = repo[p] PROVE OperatorOK(p)'
    BY <1>1, <1>4, <2>1, RestKeeps, GitLabGrows DEF IInv
  <2>2. CASE CheckDefinitions \/ GetRepoList \/ GetFileMirrorList \/ UNCHANGED vars
    BY <2>1, <2>2 DEF CheckDefinitions, GetRepoList, GetFileMirrorList, vars
  <2>3. ASSUME NEW m \in GitMirror, Import(m) PROVE OperatorOK(p)'
    BY <2>1, <2>3 DEF Import
  <2>4. ASSUME NEW o \in Operator, Step(o) PROVE OperatorOK(p)'
    BY <2>1, <2>4, OperatorStep, OthersStay DEF IInv
  <2>5. QED
    BY <2>2, <2>3, <2>4 DEF Next
<1>6. QED
  BY <1>1, <1>2, <1>3, <1>5 DEF IInv

LEMMA IInvariance == Spec => []IInv
  BY InitIInv, NextIInv, PTL DEF Spec
-----------------------------------------------------------------------------
(***************************************************************************)
(* What a reader relies on.                                                *)
(***************************************************************************)
(* The variables keep their types; in particular the groups around every   *)
(* project exist, and a project whose import is done is one there is.      *)
THEOREM TypeCorrect == Spec => []TypeOK
<1>1. IInv => TypeOK
  BY DEF IInv
<1>2. QED
  BY <1>1, IInvariance, PTL

(* However many operators run the script, and wherever they are            *)
(* interrupted, what master of the remote has is whole and in one commit.  *)
THEOREM Intact == Spec => []PublishedIntact
<1>1. IInv => PublishedIntact
  BY DEF IInv, Sound, PublishedIntact, PublishedWhole, PublishedOnce
<1>2. QED
  BY <1>1, IInvariance, PTL

(* A run that came to its end, and in which nothing was refused, leaves    *)
(* none of its entries without a mirror, but for the operator's own files. *)
THEOREM DoneMirrored == Spec => []DoneMeansMirrored
<1>1. IInv => DoneMeansMirrored
  <2> SUFFICES ASSUME IInv, NEW o \in Operator, run[o].pc = "done" /\ run[o].clean,
                      NEW i \in DOMAIN run[o].entries, Wanted(run[o].entries[i])
               PROVE  \/ run[o].entries[i].mirror \in Published
                      \/ run[o].entries[i].mirror \in Names(repo[o].untracked \cup repo[o].staged)
    BY DEF DoneMeansMirrored
  <2>1. DoneIsMirrored(o)
    BY DEF IInv, OperatorOK
  <2>2. Held(o) = repo[o].untracked \cup repo[o].staged
    BY DEF Held
  <2>3. QED
    BY <2>1, <2>2 DEF DoneIsMirrored
<1>2. QED
  BY <1>1, IInvariance, PTL

(* Nobody's push rewrites what others pushed, and the commits that it adds *)
(* are those of the run that pushes: local work of earlier, interrupted    *)
(* runs makes initialize_tar_repo exit before there is anything to push.   *)
LEMMA PushIsOwn ==
    ASSUME IInv, [Next]_vars
    PROVE  /\ IsPrefix(remote, remote')
           /\ \A i \in DOMAIN remote' \ DOMAIN remote :
                \E o \in Operator : /\ run[o].pc = "next" /\ run'[o].pc = "done"
                                    /\ remote'[i].run = run[o].id
<1>1. remote \in Commits /\ IsPrefix(remote, remote)
  BY CommitsOrder DEF IInv, TypeOK
<1>2. CASE remote' = remote
  BY <1>1, <1>2
<1>3. ASSUME NEW o \in Operator, Push(o), IsPrefix(remote, repo[o].head),
             remote' = repo[o].head
      PROVE  /\ run[o].pc = "next" /\ run'[o].pc = "done"
             /\ \A i \in DOMAIN remote' \ DOMAIN remote : remote'[i].run = run[o].id
  <2>1. /\ run \in [Operator -> RunState] /\ repo[o] \in Repo
        /\ run[o].pc = "next" /\ run[o].tar /\ Active(o) /\ GoTo(o, "done")
    BY <1>3 DEF IInv, TypeOK, Push, At, Active, Ended
  <2>2. run'[o].pc = "done"
    BY <2>1, GoToFacts DEF Place
  <2>3. /\ \A i \in DOMAIN repo[o].head \ DOMAIN repo[o].origin :
              repo[o].head[i].run = run[o].id
        /\ IsPrefix(repo[o].origin, remote)
    BY <2>1 DEF IInv, OperatorOK, AheadByOwn, RepoOK
  <2>4. DOMAIN repo[o].origin \subseteq DOMAIN remote
    <3>1. repo[o].origin \in Commits
      BY <2>1 DEF Repo
    <3>2. /\ DOMAIN repo[o].origin = 1 .. Len(repo[o].origin)
          /\ DOMAIN remote = 1 .. Len(remote)
          /\ Len(repo[o].origin) \in Nat /\ Len(remote) \in Nat
      BY <1>1, <3>1 DEF Commits
    <3>3. Len(repo[o].origin) <= Len(remote)
      BY <1>1, <2>3, <3>1, PrefixFacts DEF Commits
    <3>4. QED
      BY <3>2, <3>3
  <2>5. QED
    BY <1>3, <2>1, <2>2, <2>3, <2>4
<1>4. QED
  BY <1>2, <1>3, RemoteGrows DEF IInv

(* What an operator's push adds to the remote tarball repository are       *)
(* commits of the run that pushes, and nothing is taken away from it.      *)
THEOREM OwnWorkOnly == Spec => PushesOwnWorkOnly
<1>1. IInv /\ [Next]_vars =>
        [/\ IsPrefix(remote, remote')
         /\ \A i \in DOMAIN remote' \ DOMAIN remote :
              \E o \in Operator : /\ run[o].pc = "next" /\ run'[o].pc = "done"
                                  /\ remote'[i].run = run[o].id]_vars
  BY PushIsOwn
<1>2. QED
  BY <1>1, IInvariance, PTL DEF Spec, PushesOwnWorkOnly
-----------------------------------------------------------------------------
(***************************************************************************)
(* The nightly job.  Between its calls mirrors are created and none goes,  *)
(* so that what it saw is still there when it has passed.                  *)
(***************************************************************************)
JobOK ==
    /\ job.seen \subseteq projects
    /\ job.pc # "idle" /\ job.ok =>
          \A e \in Range(Manifest(Declared)) : ~ DefinitionProblem(e, synced)

LEMMA JobIsTheJobs ==
    ASSUME [Next]_vars, ~ (CheckDefinitions \/ GetRepoList \/ GetFileMirrorList)
    PROVE  job' = job
<1>1. CASE UNCHANGED vars
  BY <1>1 DEF vars
<1>2. ASSUME NEW m \in GitMirror, Import(m) PROVE job' = job
  BY <1>2 DEF Import
<1>3. ASSUME NEW o \in Operator, Step(o) PROVE job' = job
  BY <1>3 DEF Step, Start, Skip, Decline, Dispatch, Die, FindGroup, CreateGroup, FindProject,
              CreateProject, Clone, Fetch, Pull, FindFile, Wget, Add, Commit, Finish, Push,
              DeclinePush, OnlyRun, Quiet
<1>4. QED
  BY <1>1, <1>2, <1>3 DEF Next

(* A problem with a definition does not come up when an import is done.    *)
LEMMA ProblemsShrink ==
    ASSUME NEW e, NEW has, NEW more, has \subseteq more, DefinitionProblem(e, more)
    PROVE  DefinitionProblem(e, has)
  BY DEF DefinitionProblem, MirrorCommitTest

LEMMA JobStep ==
    ASSUME IInv, JobOK, PassedMeansMirrored, [Next]_vars
    PROVE  JobOK' /\ PassedMeansMirrored'
<1> DEFINE manifest == Range(Manifest(Declared))
<1>1. projects \subseteq projects' /\ synced \subseteq synced' /\ job \in JobState
  BY GitLabGrows DEF IInv, TypeOK
<1>2. Names(FilesOf(remote)) \subseteq Names(FilesOf(remote'))
  <2>1. IsPrefix(remote, remote') /\ remote \in Commits
    BY PushIsOwn DEF IInv, TypeOK
  <2>2. TypeOK'
    BY NextIInv DEF IInv
  <2>3. remote' \in Commits
    BY <2>2 DEF TypeOK
  <2>4. QED
    BY <2>1, <2>3, FilesOfPrefix DEF Names
<1>3. Published \subseteq Published'
  BY <1>1, <1>2 DEF Published
<1> HIDE DEF manifest
<1>4. CASE CheckDefinitions
  <2>1. /\ job' = [pc |-> "projects", seen |-> {}, passed |-> FALSE,
                   ok |-> \A e \in manifest : ~ DefinitionProblem(e, synced)]
        /\ synced' = synced
    BY <1>4 DEF CheckDefinitions, gitlab, manifest
  <2>2. /\ job'.seen = {} /\ ~ job'.passed
        /\ job'.ok => \A e \in manifest : ~ DefinitionProblem(e, synced)
    BY <2>1
  <2>3. QED
    BY <2>1, <2>2 DEF JobOK, PassedMeansMirrored, manifest
<1>5. CASE GetRepoList
  <2>1. /\ job'.seen = projects /\ job'.ok = job.ok /\ job'.passed = job.passed
        /\ job.pc # "idle" /\ projects' = projects /\ synced' = synced
    BY <1>1, <1>5 DEF GetRepoList, JobState, gitlab
  <2>2. JobOK'
    BY <2>1 DEF JobOK
  <2>3. PassedMeansMirrored'
    BY <1>3, <2>1 DEF PassedMeansMirrored
  <2>4. QED
    BY <2>2, <2>3
<1>6. CASE GetFileMirrorList
  <2> DEFINE seen == job.seen \cup Names(FilesOf(remote))
  <2>1. /\ job'.pc = "idle" /\ job'.seen = {} /\ projects' = projects /\ synced' = synced
        /\ remote' = remote /\ job.pc # "idle"
    BY <1>1, <1>6 DEF GetFileMirrorList, JobState, gitlab
  <2>2. job'.passed => job.ok /\ \A e \in manifest : ~ MissingMirror(e, seen)
    BY <1>1, <1>6 DEF GetFileMirrorList, JobState, manifest
  <2>3. seen \subseteq Published'
    BY <2>1 DEF JobOK, Published
  <2>4. ASSUME job'.passed, NEW e \in manifest
        PROVE  /\ Tested(e, "mirror_exists_test") => e.mirror \in Published'
               /\ /\ e.mirror # None /\ e.kind \in {"git", "git_tag"}
                  /\ Tested(e, "mirror_commit_exists_test")
                  => e.mirror \in synced'
    <3>1. ~ MissingMirror(e, seen) /\ ~ DefinitionProblem(e, synced)
      BY <2>1, <2>2, <2>4 DEF JobOK, manifest
    <3>2. QED
      BY <2>1, <2>3, <3>1 DEF MissingMirror, MirrorExistsTest, DefinitionProblem, MirrorCommitTest
  <2>5. PassedMeansMirrored'
    BY <2>4 DEF PassedMeansMirrored, manifest
  <2>6. QED
    BY <2>1, <2>5 DEF JobOK
<1>7. CASE ~ (CheckDefinitions \/ GetRepoList \/ GetFileMirrorList)
  <2>1. job' = job
    BY <1>7, JobIsTheJobs
  <2>2. JobOK'
    BY <1>1, <2>1, ProblemsShrink DEF JobOK
  <2>3. PassedMeansMirrored'
    BY <1>1, <1>3, <2>1 DEF PassedMeansMirrored
  <2>4. QED
    BY <2>2, <2>3
<1>8. QED
  BY <1>4, <1>5, <1>6, <1>7

(* When the nightly job has passed, what it lists and was not told to      *)
(* ignore has its mirror, and its commit, from then on.                    *)
THEOREM PassedIsMirrored == Spec => []PassedMeansMirrored
<1>1. Init => JobOK /\ PassedMeansMirrored
  BY DEF Init, JobOK, PassedMeansMirrored
<1>2. QED
  BY <1>1, IInvariance, JobStep, PTL DEF Spec
-----------------------------------------------------------------------------
(***************************************************************************)
(* The refinement of Mirrors.                                              *)
(***************************************************************************)
Mirrored == projects \cup {f.mirror : f \in {g \in FilesOf(remote) : g.whole}}

LEMMA MirroredFacts ==
    ASSUME IInv
    PROVE  /\ Mirrored = projects \cup Names(FilesOf(remote)) /\ Mirrored \subseteq Ours
           /\ projects \subseteq GitMirror
           /\ Names(FilesOf(remote)) \subseteq FileMirror
<1>1. \A f \in FilesOf(remote) : f.whole
  BY DEF IInv, Sound
<1>2. /\ projects \subseteq GitMirror
      /\ Names(FilesOf(remote)) \subseteq FileMirror
  BY FilesOfType DEF IInv, TypeOK
<1>3. Mirrored = projects \cup Names(FilesOf(remote))
  BY <1>1 DEF Mirrored, Names
<1>4. QED
  BY <1>2, <1>3, OursAssumption DEF FileMirror

(* One project at a time joins the others, and never with a push.          *)
LEMMA ProjectsGrow ==
    ASSUME IInv, [Next]_vars
    PROVE  \/ projects' = projects
           \/ /\ remote' = remote
              /\ \E m \in GitMirror \ projects : projects' = projects \cup {m}
<1>1. CASE CheckDefinitions \/ GetRepoList \/ GetFileMirrorList \/ UNCHANGED vars
  BY <1>1 DEF CheckDefinitions, GetRepoList, GetFileMirrorList, vars, gitlab
<1>2. ASSUME NEW m \in GitMirror, Import(m) PROVE projects' = projects
  BY <1>2 DEF Import
<1>3. ASSUME NEW o \in Operator, Step(o), ~ CreateProject(o) PROVE projects' = projects
  BY <1>3 DEF Step, Start, Skip, Decline, Dispatch, Die, FindGroup, CreateGroup, FindProject,
              Clone, Fetch, Pull, FindFile, Wget, Add, Commit, Finish, Push,
              DeclinePush, OnlyRun, gitlab
<1>4. ASSUME NEW o \in Operator, CreateProject(o)
      PROVE  \/ projects' = projects
             \/ /\ remote' = remote
                /\ \E m \in GitMirror \ projects : projects' = projects \cup {m}
  <2>1. Current(o) \in GitMirror
    BY <1>4 DEF CreateProject, At, IInv, OperatorOK, PlaceOK
  <2>2. QED
    BY <1>4, <2>1 DEF CreateProject
<1>5. QED
  BY <1>1, <1>2, <1>3, <1>4 DEF Next

(* Every step publishes mirrors that were not there, or nothing.           *)
LEMMA StepPublishes ==
    ASSUME IInv, [Next]_vars
    PROVE  Mirrored' = Mirrored \/ \E new \in SUBSET Ours : /\ new # {} /\ new \cap Mirrored = {}
                                                            /\ Mirrored' = Mirrored \cup new
<1>1. /\ Mirrored = projects \cup Names(FilesOf(remote)) /\ Mirrored \subseteq Ours
      /\ projects \subseteq GitMirror /\ Names(FilesOf(remote)) \subseteq FileMirror
  BY MirroredFacts
<1>2. IInv'
  BY NextIInv
<1>3. /\ Mirrored' = projects' \cup Names(FilesOf(remote')) /\ Mirrored' \subseteq Ours
      /\ projects' \subseteq GitMirror /\ Names(FilesOf(remote')) \subseteq FileMirror
  <2>1. (/\ Mirrored = projects \cup Names(FilesOf(remote)) /\ Mirrored \subseteq Ours
         /\ projects \subseteq GitMirror /\ Names(FilesOf(remote)) \subseteq FileMirror)'
    BY <1>2, MirroredFacts, PTL
  <2>2. QED
    BY <2>1
<1>4. GitMirror \cap FileMirror = {} /\ GitMirror \subseteq Ours
  BY OursAssumption DEF FileMirror
<1>5. CASE remote' = remote /\ projects' = projects
  BY <1>1, <1>3, <1>5
<1>6. ASSUME remote' = remote, NEW m \in GitMirror \ projects, projects' = projects \cup {m}
      PROVE  {m} \cap Mirrored = {} /\ {m} # {} /\ Mirrored' = Mirrored \cup {m}
             /\ {m} \in SUBSET Ours
  BY <1>1, <1>3, <1>4, <1>6
<1>7. ASSUME projects' = projects, IsPrefix(remote, remote')
      PROVE  Mirrored' = Mirrored \/ \E new \in SUBSET Ours :
                /\ new # {} /\ new \cap Mirrored = {} /\ Mirrored' = Mirrored \cup new
  <2> DEFINE new == Mirrored' \ Mirrored
  <2>1. remote \in Commits /\ remote' \in Commits
    BY <1>2 DEF IInv, TypeOK
  <2>2. Names(FilesOf(remote)) \subseteq Names(FilesOf(remote'))
    BY <1>7, <2>1, FilesOfPrefix DEF Names
  <2>3. Mirrored \subseteq Mirrored'
    BY <1>1, <1>3, <1>7, <2>2
  <2>4. new \in SUBSET Ours /\ new \cap Mirrored = {} /\ Mirrored' = Mirrored \cup new
    BY <1>3, <2>3
  <2>5. CASE new = {}
    BY <2>4, <2>5
  <2>6. CASE new # {}
    BY <2>4, <2>6
  <2>7. QED
    BY <2>5, <2>6
<1>8. IsPrefix(remote, remote')
  BY PushIsOwn
<1>9. QED
  BY <1>5, <1>6, <1>7, <1>8, ProjectsGrow

(* For those who download, GitLab and the tarball repository together are  *)
(* a set of complete mirrors that only ever grows.                         *)
THEOREM Refinement == Spec => ImplementsMirrors
<1>1. Init => Promise!Init
  BY InitIInv, MirroredFacts DEF Promise!Init, Mirrored
<1>2. IInv /\ [Next]_vars => [Promise!Next]_Mirrored
  BY StepPublishes DEF Promise!Next, Promise!Publish, Mirrored
<1>3. QED
  BY <1>1, <1>2, IInvariance, PTL DEF Spec, ImplementsMirrors, Promise!Spec, Mirrored
=============================================================================
