------------------------------ MODULE Sources -------------------------------
(***************************************************************************)
(* The source plugins pypi and cpan (plugins/sources): what a reference    *)
(* names, how it is tracked, fetched into the mirror directory and staged. *)
(* The two differ in track alone.  Every source here is of one package, so *)
(* all share a directory of the mirror, and their jobs run concurrently.   *)
(*                                                                         *)
(* A release is a number, in the order of upload.  A file is a release and *)
(* whether it is whole: its sha256 is modelled by the file itself, and the *)
(* reference [url, sha] by a release and a file.                           *)
(*                                                                         *)
(* BuildStream is modelled from how the plugins use it: it loads a source, *)
(* runs track and fetch in a process of their own, whose changes to the    *)
(* source are lost, hands the result of track to set_ref, fetches what is  *)
(* not CACHED, and stages what is.  A session may end anywhere.            *)
(***************************************************************************)
EXTENDS Integers, FiniteSets

CONSTANTS Source,        \* the elements' sources
          Release,       \* the releases, as 1 .. N
          Sdist,         \* the releases that have a source distribution
          Final,         \* those that the index may call the current version
          Admitted,      \* those that include and exclude let pass
          Zip,           \* those whose file is a .zip
          MaxFaults,     \* bound on failures, short bodies and killed sessions
          None

ASSUME ReleaseAssumption == /\ IsFiniteSet(Release) /\ Release # {}
                            /\ Release = 1 .. Cardinality(Release)
                            /\ Sdist \cup Final \cup Admitted \cup Zip \subseteq Release
ASSUME BoundsAssumption  == MaxFaults \in Nat

VARIABLES kind, filtered,  \* chosen once
          published,       \* the releases 1 .. published are on the index
          node,            \* the element's reference in its file, or None
          self,            \* the plugin's object: [url, translated, sha]
          job,             \* what is done with it: [pc, task, self, file, ref]
          dir, mirror,     \* the mirror directory: there or not, and its files
          staged,          \* history: what each source has staged last
          faults

choice == <<kind, filtered>>
vars   == <<choice, published, node, self, job, dir, mirror, staged, faults>>

Files == [release : Release, whole : BOOLEAN]
Refs  == [url : Release, sha : Files]
Whole(r) == [release |-> r, whole |-> TRUE]

ASSUME NoneAssumption == None \notin Release \cup Files \cup Refs

Unset   == [url |-> None, translated |-> None, sha |-> None]
NoJob   == [pc |-> "out", task |-> None, self |-> Unset, file |-> None, ref |-> None]
Loaded  == [NoJob EXCEPT !.pc = "loaded"]

Init ==
    /\ kind \in {"pypi", "cpan"} /\ filtered \in BOOLEAN
    /\ published \in 0 .. 1
    /\ node \in [Source -> {None} \cup {[url |-> r, sha |-> Whole(r)] : r \in 1 .. published}]
    /\ self = [s \in Source |-> Unset] /\ job = [s \in Source |-> NoJob]
    /\ dir = FALSE /\ mirror = {} /\ staged = [s \in Source |-> None]
    /\ faults = 0

At(s, pc)  == job[s].pc = pc
Goto(s, pc) == job' = [job EXCEPT ![s].pc = pc]
Back(s)    == job' = [job EXCEPT ![s] = Loaded]
Fault      == faults < MaxFaults /\ faults' = faults + 1
Quiet      == UNCHANGED faults
Mirror     == UNCHANGED <<dir, mirror>>
Same       == UNCHANGED <<choice, published, staged>>
-----------------------------------------------------------------------------
(* load_ref: the only place where the url is translated.                   *)
load_ref(ref) == IF ref = None THEN Unset
                 ELSE [url |-> ref.url, translated |-> ref.url, sha |-> ref.sha]

(* mutation of set_ref: the checksum is left as it was.                    *)
set_ref_url(object, ref) == [object EXCEPT !.url = ref.url]

(* set_ref: the translated url stays that of the old reference.            *)
set_ref(object, ref) == [object EXCEPT !.url = ref.url, !.sha = ref.sha]

get_ref(object) == IF None \in {object.url, object.sha} THEN None
                   ELSE [url |-> object.url, sha |-> object.sha]

MirrorFile(object) == {f \in mirror : f.name = object.sha}

(* mutation of get_consistency: a mirror directory is enough.              *)
get_consistency_dir(object) ==
    CASE get_ref(object) = None -> "inconsistent"
      [] get_ref(object) # None /\ dir -> "cached"
      [] OTHER -> "resolved"

get_consistency(object) ==
    CASE get_ref(object) = None -> "inconsistent"
      [] get_ref(object) # None /\ MirrorFile(object) # {} -> "cached"
      [] OTHER -> "resolved"

(* mutation of make_key: the date of any file of the release.              *)
make_key_any(r) == r

(* A release without a source distribution is older than all others.       *)
make_key(r) == IF r \in Sdist THEN r ELSE 0

Newest(releases) == CHOOSE r \in releases : \A q \in releases : make_key(q) <= make_key(r)

(* The release that pypi's track takes, or None when it raises.            *)
Tracked(n) ==
    LET offered == IF filtered THEN Admitted \cap 1 .. n ELSE Final \cap 1 .. n
        version == IF filtered THEN Newest(offered)
                   ELSE CHOOSE r \in offered : \A q \in offered : q <= r
    IN  IF offered # {} /\ version \in Sdist THEN version ELSE None
-----------------------------------------------------------------------------
Publish ==
    /\ published < Cardinality(Release)
    /\ published' = published + 1
    /\ Mirror /\ Quiet /\ UNCHANGED <<choice, node, self, job, staged>>

Load(s) ==
    /\ At(s, "out")
    /\ self' = [self EXCEPT ![s] = load_ref(node[s])]
    /\ Back(s)
    /\ Same /\ Mirror /\ Quiet /\ UNCHANGED node

Quit(s) ==
    /\ job[s].pc # "out"
    /\ IF job[s].pc = "loaded" THEN Quiet ELSE Fault
    /\ job' = [job EXCEPT ![s] = NoJob]
    /\ self' = [self EXCEPT ![s] = Unset]
    /\ Same /\ Mirror /\ UNCHANGED node

(* pypi believes the index's checksum.                                     *)
TrackPypi(s) ==
    /\ At(s, "loaded") /\ kind = "pypi" /\ Tracked(published) # None
    /\ LET r == Tracked(published)
       IN  job' = [job EXCEPT ![s].pc = "set", ![s].ref = [url |-> r, sha |-> Whole(r)]]
    /\ Same /\ Mirror /\ Quiet /\ UNCHANGED <<node, self>>

(* cpan looks its package up in the index, and has to fetch the file to    *)
(* know its checksum: it changes itself, in the process that tracks.       *)
TrackCpan(s) ==
    /\ At(s, "loaded") /\ kind = "cpan" /\ published > 0
    /\ job' = [job EXCEPT ![s].pc = "download", ![s].task = "track",
                          ![s].self = [self[s] EXCEPT !.url = published, !.translated = published]]
    /\ Same /\ Mirror /\ Quiet /\ UNCHANGED <<node, self>>

SetRef(s) ==
    /\ At(s, "set")
    /\ self' = [self EXCEPT ![s] = set_ref(@, job[s].ref)]
    /\ node' = [node EXCEPT ![s] = get_ref(self'[s])]
    /\ Back(s)
    /\ Same /\ Mirror /\ Quiet

(* A source without a translated url raises at once.                       *)
Fetch(s) ==
    /\ At(s, "loaded") /\ get_consistency(self[s]) = "resolved" /\ self[s].translated # None
    /\ job' = [job EXCEPT ![s].pc = "download", ![s].task = "fetch", ![s].self = self[s]]
    /\ Same /\ Mirror /\ Quiet /\ UNCHANGED <<node, self>>

(* A body that ends early looks like any other.                            *)
Download(s) ==
    /\ At(s, "download")
    /\ \/ \E whole \in BOOLEAN :
             /\ IF whole THEN Quiet ELSE Fault
             /\ job' = [job EXCEPT ![s].pc = "isdir",
                          ![s].file = [release |-> job[s].self.translated, whole |-> whole]]
       \/ Fault /\ Back(s)
    /\ Same /\ Mirror /\ UNCHANGED <<node, self>>

(* mutation of IsDir: the directory is taken to be there.                  *)
IsDirAssumed(s) ==
    /\ At(s, "isdir")
    /\ Goto(s, "rename")
    /\ Same /\ Mirror /\ Quiet /\ UNCHANGED <<node, self>>

IsDir(s) ==
    /\ At(s, "isdir")
    /\ Goto(s, IF dir THEN "rename" ELSE "makedirs")
    /\ Same /\ Mirror /\ Quiet /\ UNCHANGED <<node, self>>

(* Another source made the directory in the meantime: an OSError, and so a *)
(* temporary SourceError.                                                  *)
MakeDirs(s) ==
    /\ At(s, "makedirs")
    /\ IF dir THEN Back(s) ELSE Goto(s, "rename")
    /\ dir' = TRUE
    /\ Same /\ Quiet /\ UNCHANGED <<node, self, mirror>>

(* mutation of Rename: the file is named after the reference.              *)
RenameToRef(s) ==
    /\ At(s, "rename")
    /\ LET file == job[s].file
           name == IF job[s].self.sha = None THEN file ELSE job[s].self.sha
       IN  /\ mirror' = {f \in mirror : f.name # name} \cup {[name |-> name, file |-> file]}
           /\ job' = IF job[s].task = "fetch" THEN [job EXCEPT ![s] = Loaded]
                     ELSE [job EXCEPT ![s].pc = "set",
                                      ![s].ref = get_ref([job[s].self EXCEPT !.sha = file])]
    /\ Same /\ Quiet /\ UNCHANGED <<node, self, dir>>

(* The file is named after its own checksum, which replaces one of that    *)
(* name; nobody compares the checksum with the reference.                  *)
Rename(s) ==
    /\ At(s, "rename")
    /\ LET file == job[s].file
       IN  /\ mirror' = {f \in mirror : f.name # file} \cup {[name |-> file, file |-> file]}
           /\ job' = IF job[s].task = "fetch" THEN [job EXCEPT ![s] = Loaded]
                     ELSE [job EXCEPT ![s].pc = "set",
                                      ![s].ref = get_ref([job[s].self EXCEPT !.sha = file])]
    /\ Same /\ Quiet /\ UNCHANGED <<node, self, dir>>

(* The url's suffix says how to open the file.                             *)
Opens(object, file) == /\ object.translated # None /\ file.whole
                       /\ object.translated \in Zip <=> file.release \in Zip
Stageable(object)   == \E f \in MirrorFile(object) : Opens(object, f.file)

Stage(s) ==
    /\ At(s, "loaded") /\ get_consistency(self[s]) = "cached" /\ Stageable(self[s])
    /\ staged' = [staged EXCEPT ![s] =
                    [ref |-> get_ref(self[s]), files |-> {f.file : f \in MirrorFile(self[s])}]]
    /\ Mirror /\ Quiet /\ UNCHANGED <<choice, published, node, self, job>>

Step(s) == \/ Load(s) \/ Quit(s) \/ TrackPypi(s) \/ TrackCpan(s) \/ SetRef(s) \/ Fetch(s)
           \/ Download(s) \/ IsDir(s) \/ MakeDirs(s) \/ Rename(s) \/ Stage(s)
Next == Publish \/ \E s \in Source : Step(s)
Spec == Init /\ [][Next]_vars
-----------------------------------------------------------------------------
Object   == [url : Release \cup {None}, translated : Release \cup {None},
             sha : Files \cup {None}]
JobState == [pc : {"out", "loaded", "set", "download", "isdir", "makedirs", "rename"},
             task : {"track", "fetch", None}, self : Object, file : Files \cup {None},
             ref : Refs \cup {None}]

TypeOK ==
    /\ kind \in {"pypi", "cpan"} /\ filtered \in BOOLEAN
    /\ published \in 0 .. Cardinality(Release) /\ faults \in 0 .. MaxFaults
    /\ node \in [Source -> Refs \cup {None}] /\ self \in [Source -> Object]
    /\ job \in [Source -> JobState]
    /\ \A s \in Source :
          /\ At(s, "set") => job[s].ref \in Refs
          /\ job[s].pc \in {"isdir", "makedirs", "rename"} => job[s].file \in Files
    /\ dir \in BOOLEAN /\ mirror \subseteq [name : Files, file : Files] /\ (mirror # {} => dir)
    /\ staged \in [Source -> [ref : Refs, files : SUBSET Files] \cup {None}]

(* A reference names one thing: its checksum is that of the release its    *)
(* url names, and of the whole file -- except that cpan, which takes the   *)
(* checksum from its own download, pins a body that ended early (line 99). *)
RefsAgree ==
    \A s \in Source : node[s] # None =>
        /\ node[s].sha.release = node[s].url
        /\ node[s].sha.whole \/ kind = "cpan"

(* What a source stages is the file that its reference names, whatever     *)
(* other sources of the package, cut downloads and killed sessions have    *)
(* left in the mirror directory that they share.                           *)
StagedIsReferenced ==
    \A s \in Source : staged[s] # None =>
        staged[s].files = {Whole(staged[s].ref.url)}

(* CACHED promises that stage works.  It does, but for two cases: in the   *)
(* session that tracked the source the url is still the old one (pypi 81,  *)
(* cpan 66), and what cpan pinned was cut.                                 *)
Fresh(object) == object.translated = object.url
CachedMeansStageable ==
    \A s \in Source : get_consistency(self[s]) = "cached" =>
        \/ Stageable(self[s])
        \/ ~ Fresh(self[s])
        \/ ~ self[s].sha.whole /\ kind = "cpan"

(* With include or exclude, track finds the newest release that they let   *)
(* pass and that has sources, and raises only when there is none; a newer  *)
(* release without sources does not hide it.                               *)
TrackIsLatest ==
    kind = "pypi" /\ filtered =>
        LET candidates == Admitted \cap Sdist \cap 1 .. published
        IN  Tracked(published) = IF candidates = {} THEN None
                                 ELSE CHOOSE r \in candidates : \A q \in candidates : q <= r
=============================================================================
