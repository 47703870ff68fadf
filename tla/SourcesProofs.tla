---------------------------- MODULE SourcesProofs ------------------------------
(***************************************************************************)
(* Proofs about Sources for every number of sources and releases, and      *)
(* every number of faults.                                                 *)
(***************************************************************************)
EXTENDS Sources, FiniteSetTheorems, WellFoundedInduction, TLAPS

(* A reference agrees: its checksum is that of the release it names, and   *)
(* of the whole file unless cpan pinned what it downloaded.                *)
Agrees(ref) == ref.sha.release = ref.url /\ (ref.sha.whole \/ kind = "cpan")

(* A plugin's object has its reference from the element or from track, and *)
(* never half of one.                                                      *)
ObjectFits(object) ==
    /\ object.url = None <=> object.sha = None
    /\ object.url # None => Agrees(object)

(* What is downloaded is the release of the translated url.  Only cpan     *)
(* tracks by downloading, and then it is the release that it will pin.     *)
Busy == {"download", "isdir", "makedirs", "rename"}
JobFits(j) ==
    /\ j.pc = "set" => j.ref \in Refs /\ Agrees(j.ref)
    /\ j.pc \in Busy => j.task \in {"track", "fetch"} /\ j.self.translated \in Release
    /\ j.pc \in Busy /\ j.task = "track" => kind = "cpan" /\ j.self.url = j.self.translated
    /\ j.pc \in Busy \ {"download"} => j.file \in Files /\ j.file.release = j.self.translated

NamedByChecksum == \A f \in mirror : f.name = f.file

(* Nothing is renamed into the mirror directory before it is there.        *)
DirMade == \A s \in Source : At(s, "rename") => dir

IInv == /\ TypeOK /\ NamedByChecksum /\ DirMade /\ RefsAgree /\ StagedIsReferenced
        /\ \A s \in Source : ObjectFits(self[s]) /\ JobFits(job[s])
-----------------------------------------------------------------------------
(* The reference that an object has, if it has one.                        *)
LEMMA GetRef ==
    ASSUME NEW object \in Object, ObjectFits(object)
    PROVE  \/ get_ref(object) = None /\ object.url = None /\ object.sha = None
           \/ /\ object.url \in Release /\ object.sha \in Files
              /\ get_ref(object) \in Refs /\ Agrees(get_ref(object))
              /\ get_ref(object).url = object.url /\ get_ref(object).sha = object.sha
<1>1. CASE object.url = None
  BY <1>1 DEF ObjectFits, get_ref
<1>2. CASE object.url # None
  <2>1. object.sha # None /\ object.url \in Release /\ object.sha \in Files /\ Agrees(object)
    BY <1>2 DEF ObjectFits, Object
  <2>2. get_ref(object) = [url |-> object.url, sha |-> object.sha]
    BY <1>2, <2>1 DEF get_ref
  <2>3. QED
    BY <2>1, <2>2 DEF Refs, Agrees
<1>3. QED
  BY <1>1, <1>2

LEMMA LoadRef ==
    ASSUME TypeOK, RefsAgree, NEW s \in Source
    PROVE  load_ref(node[s]) \in Object /\ ObjectFits(load_ref(node[s]))
<1>1. CASE node[s] = None
  BY <1>1 DEF load_ref, Unset, Object, ObjectFits
<1>2. CASE node[s] # None
  <2>1. node[s] \in Refs /\ node[s].url \in Release /\ node[s].sha \in Files
    BY <1>2 DEF TypeOK, Refs
  <2>2. node[s].sha.release = node[s].url /\ (node[s].sha.whole \/ kind = "cpan")
    BY <1>2 DEF RefsAgree
  <2>3. node[s].url # None /\ node[s].sha # None
    BY <2>1, NoneAssumption
  <2>4. QED
    BY <1>2, <2>1, <2>2, <2>3 DEF load_ref, Object, ObjectFits, Agrees
<1>3. QED
  BY <1>1, <1>2

(* Setting a reference leaves the translated url, and agrees again.        *)
LEMMA SetRefFacts ==
    ASSUME NEW object \in Object, NEW ref \in Refs, Agrees(ref)
    PROVE  /\ set_ref(object, ref) \in Object /\ ObjectFits(set_ref(object, ref))
           /\ get_ref(set_ref(object, ref)) \in Refs /\ Agrees(get_ref(set_ref(object, ref)))
<1>1. ref.url \in Release /\ ref.sha \in Files
  BY DEF Refs
<1>2. ref.url # None /\ ref.sha # None
  BY <1>1, NoneAssumption
<1>3. /\ set_ref(object, ref) \in Object
      /\ set_ref(object, ref).url = ref.url /\ set_ref(object, ref).sha = ref.sha
  BY <1>1 DEF Object, set_ref
<1>4. ObjectFits(set_ref(object, ref))
  BY <1>2, <1>3 DEF ObjectFits, Agrees
<1>5. QED
  BY <1>2, <1>3, <1>4, GetRef

LEMMA UnsetFacts == /\ Unset \in Object /\ ObjectFits(Unset)
                    /\ NoJob \in JobState /\ JobFits(NoJob) /\ NoJob.pc = "out"
                    /\ Loaded \in JobState /\ JobFits(Loaded) /\ Loaded.pc = "loaded"
<1>1. Unset \in Object /\ ObjectFits(Unset)
  BY DEF Unset, Object, ObjectFits
<1>2. NoJob \in JobState /\ NoJob.pc = "out"
  BY <1>1 DEF NoJob, JobState
<1>3. Loaded \in JobState /\ Loaded.pc = "loaded"
  BY <1>2 DEF Loaded, JobState
<1>4. QED
  BY <1>1, <1>2, <1>3 DEF JobFits, Busy

(* What a step of source s does to objects and jobs, of which all others   *)
(* stay, is seen in its new object and job.                                *)
LEMMA Frame ==
    ASSUME IInv, NEW s \in Source, UNCHANGED choice,
           NEW j \in JobState, JobFits(j), job' = [job EXCEPT ![s] = j],
           NEW object \in Object, ObjectFits(object), self' = [self EXCEPT ![s] = object],
           dir => dir', j.pc = "rename" => dir'
    PROVE  /\ job' \in [Source -> JobState] /\ self' \in [Source -> Object]
           /\ \A p \in Source : ObjectFits(self[p])' /\ JobFits(job[p])'
           /\ DirMade'
<1>1. job \in [Source -> JobState] /\ self \in [Source -> Object] /\ kind' = kind
  BY DEF IInv, TypeOK, choice
<1>2. job'[s] = j /\ self'[s] = object
  BY <1>1
<1>3. \A p \in Source : p # s => job'[p] = job[p] /\ self'[p] = self[p]
  BY <1>1
<1>4. ASSUME NEW p \in Source PROVE ObjectFits(self[p])' /\ JobFits(job[p])'
  <2>1. (self'[p] = object \/ self'[p] = self[p]) /\ (job'[p] = j \/ job'[p] = job[p])
    BY <1>2, <1>3
  <2>2. ObjectFits(self[p]) /\ JobFits(job[p])
    BY DEF IInv
  <2>3. ObjectFits(self[p])'
    BY <1>1, <2>1, <2>2 DEF ObjectFits, Agrees
  <2>4. JobFits(job[p])'
    BY <1>1, <2>1, <2>2 DEF JobFits, Agrees
  <2>5. QED
    BY <2>3, <2>4
<1>5. DirMade'
  BY <1>2, <1>3 DEF DirMade, At, IInv
<1>6. QED
  BY <1>1, <1>4, <1>5

(* Most steps change only a job, and no more than the number of faults     *)
(* besides.                                                                *)
LEMMA JobStep ==
    ASSUME IInv, NEW s \in Source, NEW j \in JobState, JobFits(j),
           job' = [job EXCEPT ![s] = j], j.pc = "rename" => dir, Quiet \/ Fault,
           UNCHANGED <<choice, published, node, self, dir, mirror, staged>>
    PROVE  IInv'
<1>1. /\ job \in [Source -> JobState] /\ self \in [Source -> Object] /\ self[s] \in Object
      /\ ObjectFits(self[s]) /\ UNCHANGED choice
  BY DEF IInv, TypeOK
<1>2. self' = [self EXCEPT ![s] = self[s]]
  BY <1>1
<1>3. /\ job' \in [Source -> JobState] /\ self' \in [Source -> Object]
      /\ \A p \in Source : ObjectFits(self[p])' /\ JobFits(job[p])'
      /\ DirMade'
  BY <1>1, <1>2, Frame
<1>4. faults' \in 0 .. MaxFaults
  BY BoundsAssumption DEF IInv, TypeOK, Quiet, Fault
<1>5. TypeOK'
  BY <1>3, <1>4 DEF IInv, TypeOK, choice, JobFits, Busy, At
<1>6. NamedByChecksum' /\ RefsAgree' /\ StagedIsReferenced'
  BY DEF IInv, NamedByChecksum, RefsAgree, StagedIsReferenced, choice
<1>7. QED
  BY <1>3, <1>5, <1>6 DEF IInv
-----------------------------------------------------------------------------
(***************************************************************************)
(* The steps.                                                              *)
(***************************************************************************)
LEMMA JobOf ==
    ASSUME IInv, NEW s \in Source
    PROVE  /\ job \in [Source -> JobState] /\ job[s] \in JobState /\ JobFits(job[s])
           /\ self \in [Source -> Object] /\ self[s] \in Object /\ ObjectFits(self[s])
           /\ node \in [Source -> Refs \cup {None}]
  BY DEF IInv, TypeOK

LEMMA LoadStep ==
    ASSUME IInv, NEW s \in Source, Load(s) PROVE IInv'
<1>1. /\ load_ref(node[s]) \in Object /\ ObjectFits(load_ref(node[s]))
      /\ self' = [self EXCEPT ![s] = load_ref(node[s])] /\ job' = [job EXCEPT ![s] = Loaded]
      /\ UNCHANGED choice /\ dir' = dir
  BY LoadRef DEF IInv, Load, Back, Same, Mirror
<1>2. /\ job' \in [Source -> JobState] /\ self' \in [Source -> Object]
      /\ \A p \in Source : ObjectFits(self[p])' /\ JobFits(job[p])'
      /\ DirMade'
  BY <1>1, UnsetFacts, Frame
<1>3. TypeOK'
  BY <1>2 DEF Load, Same, Mirror, Quiet, IInv, TypeOK, choice, JobFits, Busy, At
<1>4. QED
  BY <1>2, <1>3 DEF Load, Same, Mirror, Quiet, IInv, NamedByChecksum, RefsAgree,
                    StagedIsReferenced, choice

LEMMA QuitStep ==
    ASSUME IInv, NEW s \in Source, Quit(s) PROVE IInv'
<1>1. /\ self' = [self EXCEPT ![s] = Unset] /\ job' = [job EXCEPT ![s] = NoJob]
      /\ UNCHANGED choice /\ dir' = dir
  BY DEF Quit, Same, Mirror
<1>2. /\ job' \in [Source -> JobState] /\ self' \in [Source -> Object]
      /\ \A p \in Source : ObjectFits(self[p])' /\ JobFits(job[p])'
      /\ DirMade'
  BY <1>1, UnsetFacts, Frame
<1>3. faults' \in 0 .. MaxFaults
  BY BoundsAssumption DEF IInv, TypeOK, Quit, Quiet, Fault
<1>4. TypeOK'
  BY <1>2, <1>3 DEF Quit, Same, Mirror, IInv, TypeOK, choice, JobFits, Busy, At
<1>5. QED
  BY <1>2, <1>4 DEF Quit, Same, Mirror, IInv, NamedByChecksum, RefsAgree,
                    StagedIsReferenced, choice

LEMMA TrackedFacts == TypeOK /\ Tracked(published) # None => Tracked(published) \in Release
  BY ReleaseAssumption DEF Tracked

LEMMA TrackPypiStep ==
    ASSUME IInv, NEW s \in Source, TrackPypi(s) PROVE IInv'
<1> DEFINE r   == Tracked(published)
           ref == [url |-> r, sha |-> Whole(r)]
           j   == [job[s] EXCEPT !.pc = "set", !.ref = ref]
<1>1. r \in Release
  BY TrackedFacts DEF IInv, TrackPypi
<1>2. job' = [job EXCEPT ![s] = j]
  BY JobOf DEF TrackPypi
<1> HIDE DEF r
<1>3. ref \in Refs /\ Agrees(ref)
  BY <1>1 DEF Refs, Files, Whole, Agrees
<1> HIDE DEF ref
<1>4. j \in JobState /\ j.pc = "set" /\ j.ref = ref
  BY <1>3, JobOf DEF JobState
<1> HIDE DEF j
<1>5. JobFits(j)
  BY <1>3, <1>4 DEF JobFits, Busy
<1>6. QED
  BY <1>2, <1>4, <1>5, JobStep DEF TrackPypi, Same, Mirror

LEMMA TrackCpanStep ==
    ASSUME IInv, NEW s \in Source, TrackCpan(s) PROVE IInv'
<1> DEFINE object == [self[s] EXCEPT !.url = published, !.translated = published]
           j      == [job[s] EXCEPT !.pc = "download", !.task = "track", !.self = object]
<1>1. published \in Release /\ kind = "cpan"
  BY ReleaseAssumption, FS_CardinalityType DEF IInv, TypeOK, TrackCpan
<1>2. job' = [job EXCEPT ![s] = j]
  BY JobOf DEF TrackCpan
<1>3. object \in Object /\ object.url = published /\ object.translated = published
  BY <1>1, JobOf DEF Object
<1> HIDE DEF object
<1>4. j \in JobState /\ j.pc = "download" /\ j.task = "track" /\ j.self = object
  BY <1>3, JobOf DEF JobState
<1> HIDE DEF j
<1>5. JobFits(j)
  BY <1>1, <1>3, <1>4 DEF JobFits, Busy
<1>6. QED
  BY <1>2, <1>4, <1>5, JobStep DEF TrackCpan, Same, Mirror

LEMMA FetchStep ==
    ASSUME IInv, NEW s \in Source, Fetch(s) PROVE IInv'
<1> DEFINE j == [job[s] EXCEPT !.pc = "download", !.task = "fetch", !.self = self[s]]
<1>1. job' = [job EXCEPT ![s] = j]
  BY JobOf DEF Fetch
<1>2. self[s].translated \in Release
  BY JobOf DEF Fetch, Object
<1>3. j \in JobState /\ j.pc = "download" /\ j.task = "fetch" /\ j.self = self[s]
  BY JobOf DEF JobState
<1> HIDE DEF j
<1>4. JobFits(j)
  BY <1>2, <1>3 DEF JobFits, Busy
<1>5. QED
  BY <1>1, <1>3, <1>4, JobStep DEF Fetch, Same, Mirror

LEMMA DownloadStep ==
    ASSUME IInv, NEW s \in Source, Download(s) PROVE IInv'
<1>1. CASE Fault /\ Back(s)
  BY <1>1, UnsetFacts, JobStep DEF Download, Same, Mirror, Back
<1>2. ASSUME NEW whole \in BOOLEAN, Quiet \/ Fault,
             job' = [job EXCEPT ![s].pc = "isdir",
                       ![s].file = [release |-> job[s].self.translated, whole |-> whole]]
      PROVE  IInv'
  <2> DEFINE file == [release |-> job[s].self.translated, whole |-> whole]
             j    == [job[s] EXCEPT !.pc = "isdir", !.file = file]
  <2>1. job[s].pc = "download" /\ job[s].self.translated \in Release
    BY JobOf DEF Download, At, JobFits, Busy
  <2>2. job' = [job EXCEPT ![s] = j]
    BY <1>2, JobOf
  <2>3. file \in Files /\ file.release = job[s].self.translated
    BY <2>1 DEF Files
  <2> HIDE DEF file
  <2>4. /\ j \in JobState /\ j.pc = "isdir" /\ j.file = file
        /\ j.self = job[s].self /\ j.task = job[s].task
    BY <2>3, JobOf DEF JobState
  <2> HIDE DEF j
  <2>5. JobFits(j)
    BY <2>1, <2>3, <2>4, JobOf DEF JobFits, Busy
  <2>6. QED
    BY <1>2, <2>2, <2>4, <2>5, JobStep DEF Download, Same, Mirror
<1>3. QED
  BY <1>1, <1>2 DEF Download

(* A job that goes on with what it has downloaded.                         *)
LEMMA GotoFacts ==
    ASSUME IInv, NEW s \in Source, job[s].pc \in Busy \ {"download"},
           NEW pc \in Busy \ {"download"}, Goto(s, pc)
    PROVE  \E j \in JobState : JobFits(j) /\ job' = [job EXCEPT ![s] = j] /\ j.pc = pc
<1> DEFINE j == [job[s] EXCEPT !.pc = pc]
<1>1. job' = [job EXCEPT ![s] = j]
  BY JobOf DEF Goto
<1>2. /\ j \in JobState /\ j.pc = pc /\ j.file = job[s].file
      /\ j.self = job[s].self /\ j.task = job[s].task
  BY JobOf DEF JobState, Busy
<1> HIDE DEF j
<1>3. JobFits(j)
  BY <1>2, JobOf DEF JobFits, Busy
<1>4. QED
  BY <1>1, <1>2, <1>3

LEMMA IsDirStep ==
    ASSUME IInv, NEW s \in Source, IsDir(s) PROVE IInv'
<1>1. PICK pc \in Busy \ {"download"} : Goto(s, pc) /\ (pc = "rename" => dir)
  BY DEF IsDir, Busy
<1>2. PICK j \in JobState : JobFits(j) /\ job' = [job EXCEPT ![s] = j] /\ j.pc = pc
  BY <1>1, GotoFacts DEF IsDir, At, Busy
<1>3. QED
  BY <1>1, <1>2, JobStep DEF IsDir, Same, Mirror

LEMMA MakeDirsStep ==
    ASSUME IInv, NEW s \in Source, MakeDirs(s) PROVE IInv'
<1>1. PICK j \in JobState : JobFits(j) /\ job' = [job EXCEPT ![s] = j]
  BY GotoFacts, UnsetFacts DEF MakeDirs, At, Busy, Back
<1>2. self' = [self EXCEPT ![s] = self[s]] /\ UNCHANGED choice /\ dir'
  BY JobOf DEF MakeDirs, Same
<1>3. /\ job' \in [Source -> JobState] /\ self' \in [Source -> Object]
      /\ \A p \in Source : ObjectFits(self[p])' /\ JobFits(job[p])'
      /\ DirMade'
  BY <1>1, <1>2, JobOf, Frame
<1>4. TypeOK'
  BY <1>3 DEF MakeDirs, Same, Quiet, IInv, TypeOK, choice, JobFits, Busy, At
<1>5. QED
  BY <1>3, <1>4 DEF MakeDirs, Same, Quiet, IInv, NamedByChecksum, RefsAgree,
                    StagedIsReferenced, choice

LEMMA PublishStep ==
    ASSUME IInv, Publish PROVE IInv'
<1>1. published' \in 0 .. Cardinality(Release)
  BY ReleaseAssumption, FS_CardinalityType DEF Publish, IInv, TypeOK
<1>2. TypeOK'
  BY <1>1 DEF Publish, Mirror, Quiet, IInv, TypeOK, choice, At
<1>3. \A p \in Source : ObjectFits(self[p])' /\ JobFits(job[p])'
  BY DEF Publish, choice, IInv, ObjectFits, JobFits, Agrees
<1>4. QED
  BY <1>2, <1>3 DEF Publish, Mirror, IInv, NamedByChecksum, DirMade, At, RefsAgree, StagedIsReferenced, choice

(* BuildStream gives the object the reference that was tracked, and saves  *)
(* in the element what the object has then.                                *)
LEMMA SetRefStep ==
    ASSUME IInv, NEW s \in Source, SetRef(s) PROVE IInv'
<1> DEFINE object == set_ref(self[s], job[s].ref)
<1>1. job[s].ref \in Refs /\ Agrees(job[s].ref)
  BY JobOf DEF SetRef, At, JobFits
<1>2. /\ object \in Object /\ ObjectFits(object)
      /\ get_ref(object) \in Refs /\ Agrees(get_ref(object))
  BY <1>1, JobOf, SetRefFacts
<1>3. /\ self' = [self EXCEPT ![s] = object] /\ job' = [job EXCEPT ![s] = Loaded]
      /\ UNCHANGED choice /\ dir' = dir
  BY DEF SetRef, Back, Same, Mirror
<1>4. self'[s] = object
  BY <1>3, JobOf
<1>5. node' = [node EXCEPT ![s] = get_ref(object)]
  BY <1>4 DEF SetRef
<1> HIDE DEF object
<1>6. /\ job' \in [Source -> JobState] /\ self' \in [Source -> Object]
      /\ \A p \in Source : ObjectFits(self[p])' /\ JobFits(job[p])'
      /\ DirMade'
  BY <1>2, <1>3, UnsetFacts, Frame
<1>7. /\ node' \in [Source -> Refs \cup {None}] /\ node'[s] = get_ref(object)
      /\ \A p \in Source : p # s => node'[p] = node[p]
  BY <1>2, <1>5, JobOf
<1>8. RefsAgree'
  BY <1>2, <1>3, <1>7 DEF IInv, RefsAgree, Agrees, choice
<1>9. TypeOK'
  BY <1>6, <1>7 DEF SetRef, Same, Mirror, Quiet, IInv, TypeOK, choice, JobFits, Busy, At
<1>10. QED
  BY <1>6, <1>8, <1>9 DEF SetRef, Same, Mirror, Quiet, IInv, NamedByChecksum,
                          StagedIsReferenced, choice

LEMMA RenameStep ==
    ASSUME IInv, NEW s \in Source, Rename(s) PROVE IInv'
<1> DEFINE file    == job[s].file
           object  == [job[s].self EXCEPT !.sha = file]
           ref     == get_ref(object)
           tracked == [job[s] EXCEPT !.pc = "set", !.ref = ref]
<1>1. /\ file \in Files /\ file.release = job[s].self.translated
      /\ job[s].self \in Object /\ job[s].task \in {"track", "fetch"}
      /\ job[s].self.translated \in Release
  BY JobOf DEF Rename, At, JobFits, Busy, JobState
<1>2. PICK j \in JobState : JobFits(j) /\ job' = [job EXCEPT ![s] = j]
  <2>1. CASE job[s].task = "fetch"
    BY <2>1, UnsetFacts DEF Rename
  <2>2. CASE job[s].task = "track"
    <3>1. kind = "cpan" /\ job[s].self.url = job[s].self.translated
      BY <2>2, JobOf DEF Rename, At, JobFits, Busy
    <3>2. object.url = file.release /\ object.sha = file
      BY <1>1, <3>1 DEF Object
    <3>3. ref = [url |-> file.release, sha |-> file]
      BY <1>1, <3>1, <3>2, NoneAssumption DEF get_ref
    <3>4. ref \in Refs /\ Agrees(ref)
      BY <1>1, <3>1, <3>3 DEF Refs, Agrees
    <3>5. job' = [job EXCEPT ![s] = tracked]
      BY <2>2, JobOf DEF Rename
    <3> HIDE DEF ref
    <3>6. tracked \in JobState /\ tracked.pc = "set" /\ tracked.ref = ref
      BY <3>4, JobOf DEF JobState
    <3> HIDE DEF tracked
    <3>7. JobFits(tracked)
      BY <3>4, <3>6 DEF JobFits, Busy
    <3>8. QED
      BY <3>5, <3>6, <3>7
  <2>3. QED
    BY <1>1, <2>1, <2>2
<1>3. self' = [self EXCEPT ![s] = self[s]] /\ UNCHANGED choice /\ dir /\ dir' = dir
  BY JobOf DEF Rename, Same, IInv, DirMade
<1>4. /\ job' \in [Source -> JobState] /\ self' \in [Source -> Object]
      /\ \A p \in Source : ObjectFits(self[p])' /\ JobFits(job[p])'
      /\ DirMade'
  BY <1>2, <1>3, JobOf, Frame
<1>6. mirror' = {f \in mirror : f.name # file} \cup {[name |-> file, file |-> file]}
  BY DEF Rename
<1>7. mirror' \subseteq [name : Files, file : Files] /\ NamedByChecksum'
  BY <1>1, <1>6 DEF IInv, TypeOK, NamedByChecksum
<1>8. TypeOK'
  BY <1>3, <1>4, <1>7 DEF Rename, Same, Quiet, IInv, TypeOK, choice, JobFits, Busy, At
<1>9. QED
  BY <1>4, <1>7, <1>8 DEF Rename, Same, Quiet, IInv, RefsAgree, StagedIsReferenced, choice

(* The file that is staged is the one that bears the checksum's name.      *)
LEMMA StageableFacts ==
    ASSUME IInv, NEW object \in Object, ObjectFits(object), Stageable(object)
    PROVE  /\ get_ref(object) \in Refs
           /\ {f.file : f \in MirrorFile(object)} = {Whole(get_ref(object).url)}
<1>1. PICK f \in mirror : f.name = object.sha /\ f.file.whole
  BY DEF Stageable, MirrorFile, Opens
<1>2. f.file \in Files /\ f.file = object.sha
  BY <1>1 DEF IInv, TypeOK, NamedByChecksum
<1>3. /\ get_ref(object) \in Refs /\ Agrees(get_ref(object))
      /\ get_ref(object).sha = object.sha
  BY <1>2, GetRef, NoneAssumption
<1>4. object.sha = Whole(get_ref(object).url)
  BY <1>1, <1>2, <1>3 DEF Agrees, Files, Whole
<1>5. {g.file : g \in MirrorFile(object)} = {object.sha}
  BY <1>1, <1>2 DEF MirrorFile, IInv, NamedByChecksum
<1>6. QED
  BY <1>3, <1>4, <1>5

LEMMA StageStep ==
    ASSUME IInv, NEW s \in Source, Stage(s) PROVE IInv'
<1> DEFINE ref   == get_ref(self[s])
           files == {f.file : f \in MirrorFile(self[s])}
<1>1. ref \in Refs /\ files = {Whole(ref.url)}
  BY JobOf, StageableFacts DEF Stage
<1>2. files \in SUBSET Files
  <2>1. ref.url \in Release
    BY <1>1 DEF Refs
  <2>2. Whole(ref.url) \in Files
    BY <2>1 DEF Files, Whole
  <2>3. QED
    BY <1>1, <2>2
<1>3. staged' = [staged EXCEPT ![s] = [ref |-> ref, files |-> files]]
  BY DEF Stage
<1> HIDE DEF ref, files
<1>4. staged' \in [Source -> [ref : Refs, files : SUBSET Files] \cup {None}]
  BY <1>1, <1>2, <1>3 DEF IInv, TypeOK
<1>5. TypeOK'
  BY <1>4 DEF Stage, Mirror, Quiet, IInv, TypeOK, choice, At
<1>6. StagedIsReferenced'
  BY <1>1, <1>3 DEF IInv, TypeOK, StagedIsReferenced
<1>7. \A p \in Source : ObjectFits(self[p])' /\ JobFits(job[p])'
  BY DEF Stage, choice, IInv, ObjectFits, JobFits, Agrees
<1>8. QED
  BY <1>5, <1>6, <1>7 DEF Stage, Mirror, IInv, NamedByChecksum, DirMade, At, RefsAgree, choice

LEMMA InitIInv == Init => IInv
<1> SUFFICES ASSUME Init PROVE IInv
  OBVIOUS
<1>1. Cardinality(Release) \in Nat
  BY ReleaseAssumption, FS_CardinalityType
<1>2. published \in 0 .. Cardinality(Release) /\ 1 .. published \subseteq Release
  BY <1>1, ReleaseAssumption DEF Init
<1>3. ASSUME NEW s \in Source
      PROVE  /\ node[s] \in Refs \cup {None}
             /\ node[s] # None => Agrees(node[s])
  <2>1. CASE node[s] = None
    BY <2>1
  <2>2. CASE node[s] # None
    <3>1. PICK r \in 1 .. published : node[s] = [url |-> r, sha |-> Whole(r)]
      BY <2>2 DEF Init
    <3>2. QED
      BY <1>2, <3>1 DEF Refs, Files, Whole, Agrees
  <2>3. QED
    BY <2>1, <2>2
<1>4. node \in [Source -> Refs \cup {None}]
  <2>1. node = [s \in Source |-> node[s]]
    BY DEF Init
  <2>2. QED
    BY <1>3, <2>1
<1>5. \A s \in Source : /\ self[s] = Unset /\ job[s] = NoJob /\ staged[s] = None
  BY DEF Init
<1>6. self \in [Source -> Object] /\ job \in [Source -> JobState]
  BY UnsetFacts DEF Init
<1>7. TypeOK
  <2>1. staged \in [Source -> [ref : Refs, files : SUBSET Files] \cup {None}]
    BY DEF Init
  <2>2. \A s \in Source : job[s].pc = "out"
    BY <1>5, UnsetFacts
  <2>3. faults \in 0 .. MaxFaults
    BY BoundsAssumption DEF Init
  <2>4. dir \in BOOLEAN /\ mirror = {}
    BY DEF Init
  <2>5. QED
    BY <1>2, <1>4, <1>6, <2>1, <2>2, <2>3, <2>4 DEF Init, TypeOK, At
<1>8. RefsAgree /\ StagedIsReferenced
  BY <1>3, <1>5 DEF RefsAgree, StagedIsReferenced, Agrees
<1>9. NamedByChecksum /\ DirMade /\ \A s \in Source : ObjectFits(self[s]) /\ JobFits(job[s])
  BY <1>5, UnsetFacts DEF Init, NamedByChecksum, DirMade, At
<1>10. QED
  BY <1>7, <1>8, <1>9 DEF IInv

LEMMA NextIInv == IInv /\ [Next]_vars => IInv'
<1> SUFFICES ASSUME IInv, [Next]_vars PROVE IInv'
  OBVIOUS
<1>1. ASSUME NEW s \in Source, Step(s) PROVE IInv'
  BY <1>1, LoadStep, QuitStep, TrackPypiStep, TrackCpanStep, SetRefStep, FetchStep, DownloadStep,
     IsDirStep, MakeDirsStep, RenameStep, StageStep DEF Step
<1>2. CASE UNCHANGED vars
  <2>1. \A p \in Source : ObjectFits(self[p])' /\ JobFits(job[p])'
    BY <1>2 DEF vars, choice, IInv, ObjectFits, JobFits, Agrees
  <2>2. TypeOK'
    BY <1>2 DEF vars, choice, IInv, TypeOK, At
  <2>3. QED
    BY <1>2, <2>1, <2>2 DEF vars, choice, IInv, NamedByChecksum, DirMade, At, RefsAgree,
                            StagedIsReferenced
<1>3. QED
  BY <1>1, <1>2, PublishStep DEF Next

LEMMA IInvariance == Spec => []IInv
  BY InitIInv, NextIInv, PTL DEF Spec
-----------------------------------------------------------------------------
(***************************************************************************)
(* What a reader relies on.                                                *)
(***************************************************************************)
(* The variables keep their types, and nothing is in the mirror directory  *)
(* before it is made.                                                      *)
THEOREM TypeCorrect == Spec => []TypeOK
<1>1. IInv => TypeOK
  BY DEF IInv
<1>2. QED
  BY <1>1, IInvariance, PTL

(* Whatever is tracked, interrupted and published meanwhile, the reference *)
(* that an element has pins the file of the release it names.              *)
THEOREM ReferencesAgree == Spec => []RefsAgree
<1>1. IInv => RefsAgree
  BY DEF IInv
<1>2. QED
  BY <1>1, IInvariance, PTL

(* Nothing is ever staged but the whole file that the reference names.     *)
THEOREM StagesReferenced == Spec => []StagedIsReferenced
<1>1. IInv => StagedIsReferenced
  BY DEF IInv
<1>2. QED
  BY <1>1, IInvariance, PTL

(* A source that says it is cached can be staged, but in the session that  *)
(* tracked it, and when cpan pinned a body that ended early.               *)
THEOREM CachedStages == Spec => []CachedMeansStageable
<1>1. ASSUME IInv, NEW s \in Source, get_consistency(self[s]) = "cached", Fresh(self[s]),
             self[s].sha.whole \/ kind # "cpan"
      PROVE  Stageable(self[s])
  <2>1. get_ref(self[s]) # None /\ MirrorFile(self[s]) # {}
    BY <1>1 DEF get_consistency
  <2>2. PICK f \in mirror : f.name = self[s].sha
    BY <2>1 DEF MirrorFile
  <2>3. f.file = self[s].sha
    BY <1>1, <2>2 DEF IInv, NamedByChecksum
  <2>4. /\ self[s].url \in Release /\ self[s].sha.release = self[s].url
        /\ self[s].sha.whole \/ kind = "cpan"
    BY <1>1, <2>1, JobOf, GetRef DEF Agrees
  <2>5. self[s].translated = self[s].url /\ self[s].translated # None
    BY <1>1, <2>4, NoneAssumption DEF Fresh
  <2>6. Opens(self[s], f.file)
    BY <1>1, <2>3, <2>4, <2>5 DEF Opens
  <2>7. QED
    BY <2>2, <2>6 DEF Stageable, MirrorFile
<1>2. IInv => CachedMeansStageable
  BY <1>1 DEF CachedMeansStageable
<1>3. QED
  BY <1>2, IInvariance, PTL
-----------------------------------------------------------------------------
(***************************************************************************)
(* Tracking on PyPI.                                                       *)
(***************************************************************************)
LEMMA MaximumExists ==
    ASSUME NEW n \in Nat, NEW S \in SUBSET (1 .. n), S # {}
    PROVE  \E r \in S : \A q \in S : q <= r
<1> DEFINE T == {n - r : r \in S}
<1>1. T \subseteq Nat /\ T # {}
  <2>1. \A r \in S : r \in 1 .. n
    OBVIOUS
  <2>2. \A r \in S : n - r \in Nat
    BY <2>1
  <2>3. QED
    BY <2>2
<1>2. PICK x \in T : \A y \in T : ~ (<<y, x>> \in OpToRel(<, Nat))
  BY <1>1, WFMin, NatLessThanWellFounded
<1>3. \A y \in T : ~ (y < x)
  BY <1>1, <1>2 DEF OpToRel
<1>4. PICK r \in S : x = n - r
  OBVIOUS
<1>5. ASSUME NEW q \in S PROVE q <= r
  <2>1. n - q \in T
    OBVIOUS
  <2>2. ~ (n - q < n - r)
    BY <1>3, <1>4, <2>1
  <2>3. QED
    BY <2>2
<1>6. QED
  BY <1>5

LEMMA MakeKeyFacts == \A r \in Release : make_key(r) \in Nat
  BY ReleaseAssumption, FS_CardinalityType DEF make_key

(* The newest release by make_key is the newest that has sources, if there *)
(* is one that has.                                                        *)
Latest(releases) == CHOOSE r \in releases : \A q \in releases : q <= r

LEMMA NewestFacts ==
    ASSUME NEW n \in 0 .. Cardinality(Release), NEW offered \in SUBSET (1 .. n),
           offered \cap Sdist # {}
    PROVE  Newest(offered) = Latest(offered \cap Sdist) /\ Newest(offered) \in Sdist
<1> DEFINE candidates == offered \cap Sdist
           latest     == Latest(candidates)
           newest     == Newest(offered)
<1>1. n \in Nat /\ offered \subseteq Release
  BY ReleaseAssumption, FS_CardinalityType
<1>2. candidates \in SUBSET (1 .. n) /\ candidates # {}
  OBVIOUS
<1>3. \E r \in candidates : \A q \in candidates : q <= r
  BY <1>1, <1>2, MaximumExists
<1>4. latest \in candidates /\ \A q \in candidates : q <= latest
  BY <1>3 DEF Latest
<1>5. latest \in 1 .. n /\ make_key(latest) = latest /\ latest \in offered /\ latest \in Sdist
  BY <1>2, <1>4 DEF make_key
<1> HIDE DEF latest
<1>6. \A q \in offered : make_key(q) <= make_key(latest)
  BY <1>1, <1>4, <1>5 DEF make_key
<1>7. newest \in offered /\ \A q \in offered : make_key(q) <= make_key(newest)
  BY <1>5, <1>6 DEF Newest
<1> HIDE DEF newest
<1>8. make_key(newest) >= latest /\ newest \in 1 .. n
  BY <1>1, <1>5, <1>7, MakeKeyFacts
<1>9. newest \in Sdist /\ make_key(newest) = newest
  BY <1>1, <1>5, <1>8 DEF make_key
<1>10. newest = latest
  BY <1>1, <1>4, <1>5, <1>7, <1>8, <1>9
<1>11. QED
  BY <1>5, <1>10 DEF latest, newest

(* Without any, the newest is one that has none.                           *)
LEMMA NoneNewest ==
    ASSUME NEW offered \in SUBSET Release, offered # {}, offered \cap Sdist = {}
    PROVE  Newest(offered) \notin Sdist
<1>1. \A r \in offered : make_key(r) = 0
  BY DEF make_key
<1>2. \E r \in offered : \A q \in offered : make_key(q) <= make_key(r)
  BY <1>1
<1>3. Newest(offered) \in offered
  BY <1>2 DEF Newest
<1>4. QED
  BY <1>3

(* With include or exclude, track finds the newest release that they let   *)
(* pass and that has sources, whatever was uploaded since without any.     *)
THEOREM TracksLatest == Spec => []TrackIsLatest
<1>1. TypeOK => TrackIsLatest
  <2> DEFINE offered    == Admitted \cap 1 .. published
             candidates == Admitted \cap Sdist \cap 1 .. published
  <2> SUFFICES ASSUME TypeOK, filtered
               PROVE  Tracked(published) = IF candidates = {} THEN None ELSE Latest(candidates)
    BY DEF TrackIsLatest, Latest
  <2>1. /\ published \in 0 .. Cardinality(Release) /\ offered \in SUBSET (1 .. published)
        /\ candidates = offered \cap Sdist /\ offered \subseteq Release
    BY ReleaseAssumption DEF TypeOK
  <2>2. Tracked(published) = IF offered # {} /\ Newest(offered) \in Sdist
                             THEN Newest(offered) ELSE None
    BY DEF Tracked
  <2> HIDE DEF offered, candidates
  <2>3. CASE candidates = {}
    BY <2>1, <2>2, <2>3, NoneNewest
  <2>4. CASE candidates # {}
    <3>1. Newest(offered) = Latest(candidates) /\ Newest(offered) \in Sdist
      BY <2>1, <2>4, NewestFacts
    <3>2. QED
      BY <2>1, <2>2, <2>4, <3>1
  <2>5. QED
    BY <2>3, <2>4
<1>2. QED
  BY <1>1, TypeCorrect, PTL
=============================================================================
