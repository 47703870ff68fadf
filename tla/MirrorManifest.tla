--------------------------- MODULE MirrorManifest ---------------------------
(***************************************************************************)
(* utils/url_manifest.py, update_manifest_with_mirrors.py and the tests of *)
(* mirror_management.py: from the sources that the elements declare to the *)
(* problems with their mirrors.  A declared source is a record             *)
(*   url      its identity: the original source url                        *)
(*   kind     the BuildStream plugin                                       *)
(*   aliased  whether BuildStream recognised and translated an alias       *)
(*   mirrors  what mirrors.yml gives for the alias, in order               *)
(* and a url that is itself one of our mirrors is its own mirror.          *)
(***************************************************************************)
EXTENDS Sequences, SequencesExt

CONSTANTS Ours,          \* urls below MIRROR_GROUP_URL or TAR_URL_PREFIX
          None,          \* null in the JSON files
          Ignored        \* Ignored[test]: the urls that ignore_dict.json lists

GitKinds  == {"git", "git_tag", "git_module"}
FileKinds == {"tar", "zip", "remote", "cargo", "pypi"}

(* get_source_locations: which sources are listed.  For cargo the part     *)
(* before the colon is taken for an alias whatever it is.                  *)
Listed(source) == source.kind \in GitKinds \cup FileKinds \cup {"ostree"}
HasAlias(source) == source.kind = "cargo" \/ source.aliased

(* update_manifest_with_mirrors: the last of our mirrors wins.  For a      *)
(* cargo source without an alias, mirror_alias_dict has no entry.          *)
MirrorUrl(source) ==
    LET defined == IF source.aliased
                   THEN SelectSeq(source.mirrors, LAMBDA m : m \in Ours)
                   ELSE <<>>
    IN  IF source.url \in Ours THEN source.url
        ELSE IF defined # <<>> THEN Last(defined) ELSE None

Entry(source) == [url |-> source.url, kind |-> source.kind,
                  alias |-> HasAlias(source), mirror |-> MirrorUrl(source)]

(* The elements are visited once each; a source that two elements declare  *)
(* is listed twice.                                                        *)
Manifest(declared) ==
    LET located == SelectSeq(declared, Listed)
    IN  [i \in DOMAIN located |-> Entry(located[i])]
-----------------------------------------------------------------------------
AliasTest(e) == ~ e.alias
MirrorDefinedTest(e) == e.mirror = None /\ e.alias
MirrorExistsTest(e, seen) == e.mirror \notin seen

(* mutation of MirrorCommitTest: git_tag sources are left out.             *)
MirrorCommitGitOnly(e, has) == e.mirror # None /\ e.kind = "git" /\ e.mirror \notin has

MirrorCommitTest(e, has) ==
    e.mirror # None /\ e.kind \in {"git", "git_tag"} /\ e.mirror \notin has

(* test_sources runs a test over the entries it is not told to ignore.     *)
Tested(e, name) == e.url \notin Ignored[name]

(* The two calls of check_mirrors.py in the nightly job: with the tests of *)
(* definitions and commits, and with the one that saves a list of problems.*)
DefinitionProblem(e, has) ==
    \/ Tested(e, "alias_test") /\ AliasTest(e)
    \/ Tested(e, "mirror_defined_test") /\ MirrorDefinedTest(e)
    \/ Tested(e, "mirror_commit_exists_test") /\ MirrorCommitTest(e, has)
MissingMirror(e, seen) == Tested(e, "mirror_exists_test") /\ MirrorExistsTest(e, seen)
Unmirrored(manifest, seen) == SelectSeq(manifest, LAMBDA e : MissingMirror(e, seen))
=============================================================================
