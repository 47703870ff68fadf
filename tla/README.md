# A TLA+ model of freedesktop-sdk's own programs

freedesktop-sdk is a BuildStream project. Most of the repository is data: about
nine hundred `.bst` elements and a set of third-party patches, which describe
what to build. The programs that belong to the project are small tools that run
during a build, in CI or by hand. This directory models them.

## 1. Inventory

| Component | Code | State it keeps | Operations | Interacts with |
|---|---|---|---|---|
| Thread pool | `files/stripper/thread_pool.*` | list of jobs, `running`, condition variable, threads | construct, post, run a job, destroy | the script that owns it; workers |
| Stripper script | `files/stripper/main.cpp`, `run.cpp`, `arch.cpp`, `elfutils.*` | `by_arch`, `source_files`, options, pool; the ELF files on disk | classify, run_opt, strip, copy_source, destruction | thread pool, debugedit, dwz, objcopy, strip, eu-elfcompress; `include/strip.yml` runs it on every element |
| Stripper file helpers | `files/stripper/{fd,mapped_file,named_tmp_file}.*` | descriptors, mappings, temporary files | open, map, unlink | the script |
| OCI layer builder | `files/oci/oci_builder/layer_builder.py` | members of lower tars, contents of directories | analyze_lowers, create_layer | image builder |
| OCI image builder | `files/oci/oci_builder/{image_builder,blob,cmd}.py` | blobs in the output directory, manifest, layer and diff-id lists | import a parent, build a layer, write config, manifest and index | layer builder, images built before |
| Mirror creation | `utils/mirror-management-scripts/create_mirrors_from_problem_list.py` | GitLab groups and projects, the local and the remote tar repository | create git mirror, create file mirror, push | GitLab, other operators running the same script |
| Mirror checks | `utils/mirror-management-scripts/{check_mirrors,mirror_management,update_manifest_with_mirrors}.py`, `utils/url_manifest.py` | list of mirrors and problems | list, test, report, rewrite manifest | GitLab, manifest |
| CVE database | `utils/update_local_cve_database.py` | `nvdcve-*.json.gz` and its etag file per year | update a year | NVD server; itself after an interrupted run |
| CVE report | `utils/generate_cve_report.py` | the map of vulnerabilities | extract, match versions, report | the CVE database, the manifest |
| Boot test | `utils/test_minimal_system.py` | read buffer, dialog, timer, child process | await_line, run_test, timeout | qemu |
| Reproducibility test | `utils/test_reproducibility.py` | artifact caches, checkouts, results | pull, build, remove, checkout, compare | BuildStream |
| OSTree publication | `utils/update-repo.sh` | the ostree repository: refs, deltas, summary | commit, prune, static-delta, summary | itself after a failure |
| Source plugins | `plugins/sources/{pypi,cpan,ostree_mirror,patch_queue}.py` | ref in the project, url, mirror directory | track, set_ref, fetch, stage, get_consistency | BuildStream's scheduler; other elements sharing a mirror |
| Element plugins | `plugins/elements/{check_forbidden,collect_initial_scripts,snap_image}.py` | none beyond one assemble | assemble | the dependency graph; `files/vm/prepare-image.sh` runs the collected scripts |
| Firmware compression | `files/linux-firmware/compress.py` | the firmware tree, `WHENCE` | compress files, rewrite links | itself after a failure |
| Checkers and generators | `utils/{find-rpath,check-static-libraries,yaml_diff,jsontomd,parse_review,get_remote_digest,preresolve}.py`, `utils/check-abi`, `utils/scan-for-dev-files.sh`, `files/iana-config`, `files/dictionaries` | none | filters from input to output | CI |
| Build description | `elements/`, `patches/`, `include/`, `project.conf`, `Makefile`, `.gitlab-ci.yml` | data | | BuildStream |

Where the difficulty lies:

* **Stripper.** The only multi-threaded program, and the one that runs on every
  element of every release. Threads and external processes rewrite files in
  place; phases are separated by futures; several exits leave work behind.
  Correct means: no tool works on a file while another rewrites it, debug
  information is saved before it is removed, exit status 0 means every file
  went through every stage, and the program ends.
* **OCI builder.** A layer is a difference: applying the layers of an image in
  order must give the tree the last one was built from. The chain of images
  matters, since each image is imported by the next.
* **Mirror creation, CVE database, OSTree publication.** Check-then-act on
  shared state and multi-step updates that may be interrupted; the question is
  what a second run makes of a half-done first one.
* **Boot test.** A timer that races with the dialog; a reader that must not
  lose a line.
* **Reproducibility test.** A sequence of BuildStream calls whose failures are
  partly ignored, so that a comparison may compare an artifact with itself.
* **Source plugins.** A lifecycle (track, set ref, fetch, stage) with values
  cached in the object, and directories shared by several sources.

`PROJECT.json` lists the hazards one by one, with the line where each bites and
the properties that cover it.

## 2. Modules

| Module | What it is |
|---|---|
| `Executor` | what a pool of `Size` threads promises: tasks start in the order of submission, at most `Size` at once, each once; leaving waits for all |
| `ThreadPool` | `thread_pool.{hpp,cpp}`: the list of jobs, the flag, the condition variable, the workers, the futures; refines `Executor` |
| `ThreadPoolProofs` | TLAPS proofs about `ThreadPool` for any number of workers and tasks |
| `MCThreadPool` | instance for TLC |
| `Stripper` | `main.cpp`, `run.cpp`, `arch.cpp`: the script on top of `Executor` |
| `StripperProofs` | proofs about `Stripper` for any trees, toolchains and number of threads |
| `MCStripper` | trees, toolchains and options for TLC |
| `LayerBuilder` | `layer_builder.py`: `analyze_lowers` and `create_layer`, entry by entry, what a container runtime makes of the entries, and a chain of images |
| `MCLayerBuilder` | trees and an image of another builder for TLC |
| `ImageBuilder` | `cmd.py`, `image_builder.py`, `blob.py`: runs of `build-oci` with parents from earlier runs |
| `OciProofs` | proofs about `ImageBuilder` and `LayerBuilder` for any trees, settings, runs, layers and chains of images |
| `MCImageBuilder` | settings for TLC |
| `Mirrors` | what those who download from the mirrors are promised: what is there stays, complete |
| `MirrorManifest` | `url_manifest.py`, `update_manifest_with_mirrors.py` and the tests of `mirror_management.py`, as operators |
| `MirrorCreation` | `create_mirrors_from_problem_list.py` run by several operators, next to the nightly `check_mirrors.py`; composes `MirrorManifest`, refines `Mirrors` |
| `MirrorCreationProofs` | proofs about `MirrorCreation`, with the refinement of `Mirrors` |
| `MCMirrorCreation` | sources, lists of problems and groups for TLC |
| `CveReport` | `generate_cve_report.py` as operators on the contents of the files |
| `CveDatabase` | `update_local_cve_database.py`, the job around it and CI's cache; composes `CveReport` |
| `CveDatabaseProofs` | proofs about `CveDatabase` for any number of years and versions |
| `MCCveDatabase` | feeds and manifests for TLC |
| `Reproducibility` | `test_reproducibility.py` |
| `ReproducibilityProofs` | proofs about `Reproducibility` for any graph of elements |
| `MCReproducibility` | a graph of four elements and three configurations for TLC |
| `BootTest` | `test_minimal_system.py` against a machine on a console |
| `BootTestProofs` | proofs about `BootTest` for any dialog and chunks of any size |
| `MCBootTest` | what the machine prints besides prompts, for TLC |
| `Sources` | the source plugins `pypi.py` and `cpan.py` |
| `SourcesProofs` | proofs about `Sources` for any number of sources and releases |
| `MCSources` | the symmetry of the sources |

Operators whose comment begins with "mutation of" are wrong variants of the
operation that follows them. No specification uses them: they show that a
property fails when the code has that mistake.

### ThreadPool

One step is one critical section of `jobs_mutex`; the mutex makes it atomic, and
`wait` gives the mutex back only at its boundary. `threads[w]` says where worker
`w` is: `ready` (about to take the mutex), `waiting` (on the condition
variable), `busy` (running `front[w]` without the mutex), `exited`. `jobs`,
`running` and `front` are the code's; `future[t]` is the shared state of the
future `post` returned. `Post` is `post` with its `notify_one`, `Destroy` the
destructor's critical section with `notify_all`, `Joined` its joins; `Wait`,
`Exit` and `Take` are the three outcomes of the worker's critical section and
`Run` the call of the job. The owner may post, wait for any future, or destroy
the pool at any time; `SpuriousWakeup` is what the standard allows of `wait`.

### Stripper

The pool's variables are those of `Executor`: the script's tasks are submitted,
started and finished by its actions, which is sound because `ThreadPool`
implements it. The main thread's position is `main`, that of a running task
`pc[t]`. External tools are atomic and end in one of `ToolOutcome`; what they do
to a file is a set of stages in `done`, what the `.debug` file holds is `debug`,
and permissions are `original` or `forced`. A tool that fails is taken to leave
its file as it was. Each `Input` is a tree with its hard links, the kinds and
architectures of its files, the toolchains installed and the options; it is
chosen in the initial state.

Undefined behaviour is modelled where the program has it: the members of
`script` are destroyed before `pool` (which is declared first), and a task that
reads one of them afterwards may go on or may kill the process (`Crash`).

Left out: how long a classification of one file takes, the walk over the
directory (the set of candidate files is fixed), the text of messages, the
symbol lists of the mini debug information, the extra empty path that
`preprocess_file` reads at the end of debugedit's list (copying it creates the
directory below which the sources go).

`copy_source` is one task. `visited` is how far it is, `installed` what DESTDIR
has of the sources, and each source is copied, left as DESTDIR has it, or passed
over in silence because the build root does not have it (`CopyOne`). An input
says what debugedit lists for each file (`sources`), what the build root has of
it (`present`) and what DESTDIR has before (`there`), so that lists may overlap
and name files that are missing.

### LayerBuilder

A path is a sequence of names and a tree a function from paths to nodes; `attr`
stands for the five attributes the code compares besides the type, `data` for
contents or target. The names of members are spelled as the code spells them,
which matters: a file of the root is `./f`, a directory of the root `d`.
A `special` file is a device or pipe; a `socket` is none, because `tarfile` has no
members for sockets.

One step is one turn of a loop of `create_layer`: `AddDirectory` takes a
directory from the stack, writes its member and lists it, `AddWhiteout` writes
one whiteout, and `LeaveOut`, `AddFile`, `RaiseUnexpectedType` and
`RaiseNoTarInfo` (for a socket `gettarinfo` returns `None`) are the four ways a
turn of the loop over the files can end, with `tarfile`'s cache of inodes
(`GetTarInfo`, `Cached`, `Uncached`). `here` is the directory in hand with what
is left of the two lists. `stack` is a set; `Pop` chooses what the list would
have at its end. The order of names is a constant, since only its being fixed
matters, and whiteouts are written in any order, as the names of a directory are
in the order of the members of the lower tars.

Every entry that is written (`Write`) is also read. `read` is what
`analyze_lowers` makes of the entries and is copied to `lower` when the next
layer begins; `image` is external, what the OCI image format says of applying
them. Both go over the entries in the order in which they were written, so they
may keep pace with the writer, and the properties speak of the times when no
layer is being written. A layer that raised an exception ends the chain.

A chain may begin with an image of another builder, whose entries `Import` reads
one by one. `Fits` is what is required of them: that they make a tree, that names
are spelled as in this program, that a whiteout is for something an earlier layer
has, and that a link is to a file that is there.

The two history variables name the places where the code does not give the tree
back, so that `NothingLost` and `NothingLeftBehind` can say that these are the
only ones.

### ImageBuilder

`StartRun` reads the settings and `FinishRun` writes index or manifest; between
them, `StartImage` begins a turn of the loop, a step copies one layer of the
parent (`ImportDockerLayer`, `ImportOciLayer`: a turn of the loops in
`extract_docker_image_info` and `extract_oci_image_info`), and `BuildLayer` or
`AddNoLayer` completes the image. `build` holds the locals of `build_image`.
`Inherited` is what there is to copy, which is where an image without a layer
loses one. The three actions `Fail...` are the places where the code raises an
exception; the history variable `failure` keeps what the layer was that could not
be written and whether an image of the run has it. A layer is a tar, how many
times it is compressed (`gzip`), and the media type it is described as, which are
kept apart because the code is not always right about it: an import from the
docker layout copies the bytes and describes them as plain (`Copied`), while an
import from the OCI layout believes the description when it compresses or expands
(`Recompressed`), and `build_layer` opens the layers below by the settings of the
run (`CanRead`). `relabelled` remembers of an image that it, or an ancestor, was
copied from compressed layers of the docker layout. All layers of a run have the
media type of its settings, so that it tells no blobs apart. The tar
`create_layer` writes is a function of the tree and the layers below, so it is
that pair, and `LayersStack` is the link to `LayerBuilder`: the layers an image
has are exactly those `create_layer` took the difference from. Digests are
injective. Because a tar is taken for what it was made from, two layers that
happen to have equal bytes (two layers that add nothing) are told apart here,
which in a docker directory they would not be.

### MirrorManifest and MirrorCreation

A source is a record of what the two scripts look at: its url (an identity, as
`source_url` is), its kind, whether BuildStream recognised an alias, and the
mirrors that `mirrors.yml` gives for the alias. `Listed`, `HasAlias`,
`MirrorUrl` and `Entry` are the two passes that make an entry of the manifest;
`AliasTest` to `MirrorCommitTest` are the four tests.

The nightly job has three steps, because it asks GitLab twice and mirrors are
created in between: `CheckDefinitions` (the first call of `check_mirrors.py`,
with the commits), `GetRepoList`, and `GetFileMirrorList`, which writes the list
of problems. An operator's run is `run[o]`: the rest of the list, the group
reached so far, whether the tarball repository was prepared. One step is one
call to GitLab, one prompt or one git or wget command, so that operators
interleave between looking and creating. `repo[o]` is the operator's copy of the
tarball repository (local master, `origin/master`, untracked and staged files)
and survives the run. A commit holds its files, each whole or cut, and the run
that made it. Faults are one budget, `MaxFaults`: a prompt answered with no, a
command that fails, an interruption anywhere (`Die`), a download that was cut.
A rejected push is no fault; it happens when somebody else pushed first.

Left out: the askpass script, the token, `chmod` of the git configuration; a
group is created with the path asked for, so the `ValueError` of line 396 cannot
come up. `git pull` is modelled to the point that matters here: it refuses to
overwrite untracked files, and what arrives is no longer staged.

### CveDatabase and CveReport

A file is the version of the feed it holds, whole or torn; an etag is a version.
A step is one request, one body, or one write that reaches the disk, and a crash
(`Die`) may come between any two. Opening the data file empties it; the etag is
written before the data file is closed, as in the code. The server publishes new
versions at any time. With `ci` the directory of a job is what the last
successful job saved, otherwise it stays as the last job left it. When the years
are done, `NextFile` goes over the files in order and `JudgeMatch` over the
matches of a file, one round of the main loop each; `Report` sorts and ends the
job, or `ReportFails` stands for the exception of a torn file, which comes before
its first match, or of an entry without a score.

`CveReport` has the look-up of modules, the comparison of versions and what one
match does to the map. Versions are numbers: `LegacyVersion` is a total
order, and nothing else is used of it. `summary` follows the CVE everywhere and
is left out.

### Reproducibility

The script is sequential; what varies is everything around it: which elements
the artifact server has, which an earlier run left in the cache, which sources
are there, what the user's configuration says of the cache's place, and which
commands fail. One step is one BuildStream command. BuildStream is external and
modelled from how the script uses it: an artifact is stamped with where it is
from, and with the stamps of what it was built with, so that "rebuilt",
"published" and "left over" can be told apart. `MustEqual` says when diffoscope
has to find no difference: equal artifacts, or a deterministic element built
from equal inputs.

### BootTest

`console` is everything the machine printed, `test.read` how much of it the task
has read, `test.at` the prompt it waits for. Text is a sequence of tokens coarse
enough to be checked and fine enough for a chunk to cut a marker or a character:
a newline, the halves of a marker, the bytes of a character that is not ASCII.
`Lines` (the lines, each under the position where it begins), `Answers` and
`NextBuf` are `await_line`; one step, `Read`, is one
chunk, of any size up to the buffer's. The machine is external: it waits for the
reply to a prompt before it prints the next (except for those in `Impatient`),
may throw away what was typed before its prompt, as `login` does, and prints
`Chatter` in between, which may hold a marker (`'#'` is one). `group` is the
process group; its leader may go before the rest, as when `make run-vm` is killed
and qemu is not, and is then waited for by asyncio's child watcher (`Reap`),
after which `getpgid` does not find it. `FailTimeout` is the timer together with
the `CancelledError` at the `await` where the task is. A process keeps the
console open as long as it lives. Left out: the timer firing while the process is
being created, 300 seconds after the start.

### Sources

`self[s]` is the plugin's object, `node[s]` the element's file, `mirror` the
directory of the package, which sources of the same package share. BuildStream
runs `track` and `fetch` in processes of their own: they work on a copy of the
object (`job[s].self`), and only what `track` returns comes back, through
`set_ref`. `Download`, `IsDir`, `MakeDirs` and `Rename` are the steps of `fetch`
between which another source may act. A checksum is modelled by the file it is
of, so a cut body has a checksum of its own. cpan's `track` fetches
(`TrackCpan`); pypi's believes the index (`TrackPypi`, `Tracked`).

## 3. Runs

| Run | Bounds | What it shows |
|---|---|---|
| `pool` | 3 workers, 4 tasks | every interleaving of posting, waiting, waking, running and destroying: no task lost or repeated, no wake-up lost, the destroyed pool is drained, no deadlock; the destructor returns; refinement of `Executor` with fairness |
| `stripper` | 3 files, 3 sources (shared, missing in the build root, or in DESTDIR before), 2 jobs, 5 trees, 2 sets of toolchains, 4 combinations of options, tools succeed or exit with a failure | no two tools on one file, debug information kept, status 0 means every stage done and the sources of the build root installed, and leaves no task, and the stripper ends |
| `stripper_killed_tool` | one job, tools may be killed | finding: a killed tool counts as successful |
| `layers` | 59 trees of at most four paths (files with two contents and two attributes, links with two targets, hard links, a special file, a socket, directories that are files elsewhere), up to three layers, from nothing or from an image of another builder with a hard link, an opaque directory and a whiteout | the layers give a tree, the one they were built from except in the named places; unchanged files are not repeated; only sockets, and special files that a layer below has in the same place, fail |
| `images` | three runs with two images each, all four settings, one tree | manifest, configuration, history, metadata, blobs and lower layers agree over chains of parents; a run fails only on a layer that two images of a docker directory share, or on compressed layers of the docker layout, refused or described as plain |
| `images_without_layer` | the same | finding: an image without a layer loses one |
| `mirrors` | 2 operators, 3 runs, 1 fault; two git projects of which one is there, a tarball, a crate, an ostree source; an old list with a doubled entry or none | nothing cut or doubled is published, the remote grows by the pusher's own commits only, a clean run has mirrored its list, a job that passed is right, refinement of `Mirrors` |
| `mirrors_two_operators` | 2 operators, 2 runs, no fault, two projects below one group | finding: two operators do conflict |
| `cve` | 2 years, 2 versions each, 2 faults, 4 sets of feeds, 2 manifests, CI or not | no torn file in CI's cache, fresh and exact reports, recovery in CI |
| `reproducibility` | 4 elements of which 2 are tested, any state of server, cache and sources, 3 configurations, 2 faults | what is called reproducible was rebuilt; no false alarm but one; the script gives up only after a fault |
| `boot` | a dialog of 3 prompts, the last printed without waiting or not, 2 pieces of other text, chunks of up to 3 tokens, 1 or 2 processes | status 0 means that the whole dialog was shown, no prompt is missed and the script ends and leaves no process, but in the named cases |
| `sources` | 2 sources, 3 releases (one without sources, one pre-release, one `.zip`), 2 faults, both plugins, filtered or not | references are consistent, what is staged is what they name, `CACHED` means stageable but in two named cases, track finds the latest |

Why these bounds: a lost wake-up needs one sleeper and two jobs, a task run
twice two workers; three workers and four tasks leave room for one of each to be
in every state. In the script, tasks interact only through an inode, the
per-architecture dwz and the phases, so two files of one architecture and one of
another, with one hard link, give every kind of pair.

For layers, depth three is the least at which a directory that is not in the
root has contents that can go and come back, and three layers the least for
"gone and back". Two images in a run are enough for blobs to collide, three runs
for a parent of a parent. A second tree adds only colours.

For mirrors, a conflict takes two operators, and what a fault leaves behind
shows in the next run of the same operator, or in the one after that when
another operator pushes in between: three runs. Operators are symmetric. For the
database, a torn file must be met by a second job, with the server at the same
version (304) and at a newer one: two versions; a second year is needed so that
one can fail while the other succeeds. For the reproducibility test, the
interesting graph has an element whose dependency needs an element that is not
tested itself, and two faults allow one that is swallowed and one that is seen.
For the boot test, the third prompt is the one that a
dropped chunk or a reply typed too early can lose, and three tokens are a marker
with something before or behind it. For sources, two suffice for a race in a directory; with three releases the
newest may be without sources while two others are left to choose from.

The runs of the OCI builder and of the mirrors do not check for deadlock: a chain
of images ends when it has the number the bound allows or when the program
failed, and the operators stop when no run is left to start. All others do.

Fairness: every thread of the pool is scheduled when it can run (the operating
system's), every external tool ends, and the main thread goes on when a future
it waits for is there. Nothing is assumed of posting, of destroying and of
spurious wake-ups. In `CveDatabase` the job's commands end and the job is
started again (it is a scheduled job); nothing is assumed of the server, and
faults are bounded, so `CiRecovers` says that faults end, not that they are rare.
In `BootTest` the event loop runs and the timer fires; nothing is assumed of the
machine.

## 4. Proofs

Eight modules hold theorems, each for every value of the constants of the module
it is about. Every one follows the same argument: an inductive invariant (`IInv`;
in `StripperProofs` `Flow` and `Work`, for the layer builder `LayerInv`), a lemma that it holds initially, one
lemma or named step per action that the action keeps it, and the theorems as
consequences. The invariants below are the strengthenings that make the
properties of the runs inductive.

**ThreadPool** (any finite set of workers, any set of tasks). `NoLostWakeup`
says that while someone sleeps there are at least as many workers on their way
to the mutex as there are jobs. It is inductive: `Post` adds a job and wakes a
sleeper, `Take` uses up one ready worker and one job, and a worker goes to sleep
only when there is no job. `DestroyedIsDrained` needs `Lifecycle` (a worker
leaves only an empty pool that is shutting down) and `EachTaskOnce` (a pending
task is in the list or in somebody's hands). `NobodySleepsAtShutdown` is a conjunct
of `IInv` that no run checks by itself. The refinement of `Executor`
(`PoolImplementsExecutor`) also needs that the tasks in hand are fewer than the
workers when one is free, which is an injection from tasks to busy workers.

**Stripper** (any finite set of files, any inputs, any number of threads).
`Flow` is about who is where: the type invariant, `PoolOK` (a task is posted once
and its future is pending until it has returned), `MembersOK` (what `classify`
has filled in), `MainOK` (which futures the main thread has got at each of its
places) and `ClassOK` (a file that `preprocess_file` lets through has no other
name). `TypeCorrect`, `SuccessIsQuiet` and `Exclusive` follow from it: two tasks
that touch one inode would have to be of phases that a future separates.
`Work` is about what is done to the files: `PrepOK`, `OptOK`, `StripOK`, `CopyOK`
say which stages a file has when a task is at a step. It is inductive only when
no tool is killed by a signal, so `DebugKept` and `Complete` have the hypothesis
`NoKilledTool`; the run `stripper_killed_tool` shows that it is needed.

**MirrorCreation** (any operators, sources, lists and groups; the project's
mirror definitions give projects for git sources and files for the others,
`ListsAssumption`). For each operator: `RepoOK` (what waits for a commit is whole
and not in one yet; `origin/master` is a prefix of the remote), `AheadByOwn` (an
initialised copy is ahead of it by the run's own commits only, since
`initialize_tar_repo` exits otherwise), `PlaceOK`, `TodoIsRest` and
`BehindIsHandled` (the entries behind a clean run have their mirror) and
`DoneIsMirrored`. `Intact`, `DoneMirrored`, `OwnWorkOnly` and the refinement of
`Mirrors` (every step publishes new, complete mirrors or nothing) follow.
`PassedIsMirrored` adds `JobOK`: nothing that the nightly job has seen goes away
between its calls.

**CveDatabase** (any number of years, versions and faults; any feeds).
`WholeHasItsEtag` (a whole file has the etag of its version), `UpdateInProgress`
(the file being written is torn, and of a version not older than the feed was
when the job began), `BeginIsPast`, `ProcessedIsFresh` and `DoneIsWhole`. The
first is where the order of writes in the code matters: the etag is there before
the data file is closed.

`Exact` adds the loop of the report. `VulnerableMeansAffected` compares the
script's four comparisons with the definition of a range, for every version and
every kind of end; `LookupFinds` says that what is looked up is a module of that
product, with a version. `Founded` and `MissingWasOverruled` are the two halves
of `ReportIsExact` for the matches gone over so far (`Seen`): an entry leaves the
map only for a match that overrules it, and that match is later than all that
were seen. The feeds are any sequences of matches and the manifest any sequence
of modules whose versions can be compared (`FeedsAssumption`,
`ManifestsAssumption`); that the versions of a match and of a module are
different from the mark `*` is `AnyVersionAssumption`.

**Sources** (any number of sources and releases). `ObjectFits` (an object has a
whole reference or none), `JobFits` (what is downloaded is the release of the
translated url), `NamedByChecksum` (a file of the mirror directory is named
after itself, whoever put it there) and `DirMade`. `TracksLatest` is about the
index alone and uses that a finite set of releases has a latest.

**Reproducibility** (any graph in which no element is in its own build scope,
any list of dependencies, any state of caches and server). `CacheOK` says what
the artifact of the current element was built from at each step of the loop,
`ResultOK` what a line of the report rests on, and `Progress` holds the
invariant of the search for sources: what lies behind an element it is done with
has been seen, and what was seen has its sources or will be fetched. At the end
of the search the queue is empty, so that the set of seen elements that are not
cached is closed, and the build's plan, the least closed set, is within it.

**BootTest** (a dialog of any length, chunks of any size, any chatter).
`BufferOK`: the buffer is what was read after the last newline. `SearchOK`: if
the prompt that is searched for was read, then a line that cannot be decoded, or
cannot yet, is to blame. `DialogOK`: the prompts found so far are in the output,
in order. `MachineOK` and `RepliesOK` count what the machine printed and took
against what was typed. `NoOtherWait` is where they meet: reader and machine wait
for each other only if a line could not be decoded, a prompt came too early, or
typed input was thrown away.

**ImageBuilder** (any trees and settings, any number of runs and images).
`ImageFits` says of every image that each layer is over exactly the layers before
it, that manifest and configuration agree unless an import left a layer out, and
that the history counts the diff ids. `BuildFit` carries it through an import:
what has been copied follows the parent's list, with the bytes of the docker
layout, and from the OCI layout compressed as this run compresses if it was as it
was described (`IsAsDescribed`). That a layer described as compressed is
compressed at least once is part of the invariant (`LayerOf`), so an import can
always expand it (`RecompressedFacts`); that a layer is compressed exactly as
described holds as long as nothing was relabelled (`CopiesAsDescribed`), and then
`build_layer` can read it back. `Directory` says that the directory holds the layers of its images and
of the one being built and no others; since a layer is never below itself
(`NewIsNotBelow`: the layer at place i is over i - 1 layers), one that is there
already is one of an earlier image, which is why `FailuresAreKnown` holds.
`LinkedSoFar` is `LegacyChain` of the run that is going on. Nothing is assumed
of the parents but that they are images of earlier runs.

**LayerBuilder** (any trees, any image of another builder that `Fits`, chains of
any length). `LayerInv` relates the last tree, the image, and what is read of the
layers. Between two layers (`Idle`) every path of the tree is `Kept` in the
image, and every entry read is `Told`: the tree has the node that the entry
describes, but below a directory that was taken away and for a file that a
directory of the root replaced, which has another name in the tar (`Stale`).
`Told` is the strengthening that matters: `LeaveOut` compares a file with an
entry, not with the image, and the theorem needs that the entry does not
describe something the image has lost. That it fails below a directory that was
taken away is what `OnlyKnownDifferences` names as an exception.

While a layer is written (`Walk`), a path is either `Unpacked`, and then the
image has it as the new tree does (`AsUpper`), or it remains from below
(`Remains`, `AsTree`). `StackFits` says that the stack is the border of the part
of the tree the walk has reached, `FilesDone` and `GoneDone` that every file and
whiteout of the directories behind it is dealt with. When stack and lists are
empty the whole tree has been reached (`AllDirsDone`, with the first path on the
way down that is missing, `FirstMissing`), and `FinishStep` concludes: a path
that was not unpacked was left out, so it is in the last tree as it is in the
new one (`LeftOutWasInTree`); what the image has beyond the tree has a first
directory that the tree has not, and that one had its whiteout, unless it is a
directory of the root (`FinishLeft`). `FailsOnlyOnDevices` needs that every
whiteout is for a name the lower layers have (`GoneFacts`), and that an entry has
the name it is looked up by (`LowerFits`);
`LayersAreDifferences` that a file of the last tree has an entry with its name
(`FilesListed`).

The assumptions are the named ones of the modules, which TLC evaluates for the
instances: finite sets where the program's data is finite, `None` being no value
of the data, and those just mentioned. Two attempts at a proof corrected the
model: several `CASE` expressions had overlapping arms, of which TLC takes the
first and the logic any; and
`PassedMeansMirrored` was true of the instance only, because the commit test
passes a source without a mirror and leaves it to a test that may be told to
ignore it.

Only model-checked: liveness (`Termination`, `DestructorReturns`, `CiRecovers`,
`EndsInTime` and the fairness part of `ImplementsFairExecutor`), which is out of
the prover's reach. Every safety property and every action property of a passing run is
stated by a theorem. What a recursive definition or a fold computes for every
input is out of the prover's reach too, which is why `LayerBuilder` writes a
layer, `ImageBuilder` copies a parent's layers, and `CveDatabase` goes over the
matches, step by step and not in a fold.

## 5. Findings

Shown by a run that expects a violation:

* `run` returns `WEXITSTATUS` of a child that a signal killed, which is 0. An
  `objcopy` killed while it saves the debug information is taken for a success,
  and `strip` removes the sections (`stripper_killed_tool`).
* An image with an OCI parent and no layer of its own has one layer less than its
  configuration says (`images_without_layer`).
* Two operators who create mirrors at the same time do get conflicts
  (`mirrors_two_operators`).

Met while modelling, and part of the models as the code has them (the properties
name them as exceptions, or they are outside what a run instantiates):

* `-j 0` (or `hardware_concurrency()` returning 0) makes a pool without threads;
  the first `get()` never returns.
* When `run_opt` or `strip` fails, `operator()` returns with tasks still in the
  pool. `pool` is the first member, so the others are destroyed before it, and
  those tasks read them.
* `mapped_file` never unmaps (the condition at `mapped_file.cpp:38` is
  inverted), and `named_tmp_file` tries again for ever when `open` cannot succeed
  (`named_tmp_file.cpp:35`). Neither is in a module.
* `create_minidebug` takes the second column of a dynamic symbol with its position
  for a length (`main.cpp:224`), so the type is compared with its tail and no
  dynamic symbol is ever left out; the empty line that `getline` yields at the end
  of the list makes `symbols.empty()` (`main.cpp:240`) always false. Outside the
  models.
* When `update-repo.sh` ends between its commit and its summary, the next run of
  the same element finds the commit unchanged (`update-repo.sh:97`) and passes
  over the prune, the delta and the summary; they wait for the element to change.
  Outside the models.
* A source that debugedit lists and the build root does not have is left out of
  DESTDIR without a word, and the status is 0 all the same (`main.cpp:367-374`;
  `SuccessIsComplete` promises only what the build root has).
* A socket in the tree makes `create_layer` raise an `AttributeError`, whatever
  the layers below have: `tarfile.gettarinfo` returns `None` for it
  (`layer_builder.py:115-116`, `FailsOnlyOnSpecial`).
* An image of the docker layout with compressed layers that is imported without
  gzip gets layers described as plain (`image_builder.py:74-78`). A later run
  believes that (lines 128-140): it compresses them a second time or copies them,
  and then cannot open them as layers below (`FailsOnlyWhereKnown`,
  `relabelled`).
* A symbolic link that changed only its target keeps the old one in the image:
  `layer_builder.py:143` compares the new target with itself (`retargeted` in
  `OnlyKnownDifferences`).
* A directory of the root that an image no longer has stays in it, and a file
  that comes back with the directory it was in is missing in the image
  (`OnlyKnownDifferences`).
* A file left by an interrupted `wget`, or added but not committed, is taken for
  the mirror by the operator's next run (`DoneMeansMirrored`). After a rejected
  or refused push the operator's copy is ahead, and every later run that needs
  it exits.
* `url_manifest.py` lists no `cpan` source, though `mirrors.yml` has a mirror for
  them and elements use them, so nothing ever checks or creates their mirrors.
* A match that does not concern the module's version deletes what another match
  of the same CVE reported (`generate_cve_report.py:144`, `ReportIsExact`): a CVE
  with two ranges is reported or not depending on their order. The script calls
  itself "all current CVEs" (line 2).
* `by_score` is ready for a `ValueError`, but a CVE without a score has `None`,
  which is a `TypeError` and ends the report (`CiRecovers` assumes scores).
* Outside CI, a crash after the etag is written and before the data file is
  closed leaves a file that no later job can read or replace, until the server
  has a newer one.
* `artifactdir` is used as it is written, though BuildStream expands `~` and
  variables; then nothing is ever removed and every element is compared with
  itself (`CacheFound`). `--config=FILE` in `BST` ends the script.
* When an element was pulled and one of its dependencies was not, the "rebuild"
  finds nothing to do, and the element is then compared with a build on other inputs
  (`NoFalseAlarm`).
* `set_ref` leaves the translated url as it was: in the session that tracked a
  source, `fetch` downloads the old release and `stage` opens the new one by the
  old suffix (`CachedMeansStageable`).
* The boot test sends its reply to any line that holds the marker; when `login`
  then throws it away, or when the prompt is in a line that is not UTF-8, both
  sides wait until the timer (`WaitsOnlyWhereKnown`). When the timer fires after
  "Test successful", the status is 1. When the leader of the group is gone and
  was waited for, the rest of the group is not killed, and after the timer
  nothing ends the wait for it (`EndsInTime`).
* cpan's `track` takes the checksum from its own download and pins a body that
  was cut (`RefsAgree`).

## 6. Plan

Done: `Executor`, `ThreadPool`, `Stripper`, `LayerBuilder`, `ImageBuilder`,
`MirrorManifest`, `MirrorCreation`, `CveDatabase`, `CveReport`,
`Reproducibility`, `BootTest`, `Sources`, and the proofs of section 4.

What is left is in section 7, with the reasons; every safety property and every
action property of the passing runs is proved.

## 7. Not modelled

* The OSTree publication (`update-repo.sh`): an example script that is run by hand;
  its state is the ostree repository's, and what its commands do is external.
* The element plugins: one pass over a graph that BuildStream gives them; the
  firmware compression: a sequential rewrite of a directory that is thrown away
  when it fails.
* `ostree_mirror` (every operation is a call of libostree) and `patch_queue`
  (keeps no state).
* The checkers and generators: filters without state.
* The build description and third-party patches: data for BuildStream.
