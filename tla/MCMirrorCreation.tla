-------------------------- MODULE MCMirrorCreation --------------------------
EXTENDS MirrorCreation, FiniteSets, TLC

CONSTANTS lib, tool, old, tar, crate, upstream   \* urls, of which the first five are ours

MCOurs     == {lib, tool, old, tar, crate}
MCGroupOf  == lib :> <<"a">> @@ tool :> <<"a", "b">> @@ old :> <<>>
MCIgnored  == [alias_test |-> {}, mirror_commit_exists_test |-> {},
               mirror_defined_test |-> {upstream}, mirror_exists_test |-> {upstream}]

Source(url, kind, aliased, mirrors) ==
    [url |-> url, kind |-> kind, aliased |-> aliased, mirrors |-> mirrors]

(* A patch has no url; one source is a mirror of ours; the ostree          *)
(* repository is in ignore_dict.json now, but was not in an earlier list,  *)
(* when two elements had the same tarball and there was a crate.           *)
Tarball == Source("tar.org", "tar", TRUE, <<tar>>)
Ostree  == Source(upstream, "ostree", TRUE, <<>>)
MCDeclared ==
    << Source("lib.org", "git_tag", TRUE, <<upstream, lib>>),
       Tarball,
       Source("none", "patch", FALSE, <<>>),
       Ostree,
       Source(old, "git", TRUE, <<>>) >>
Crate   == Source("crates.io", "cargo", TRUE, <<crate>>)
MCLists == {Manifest(<<Tarball, Ostree, Tarball, Crate>>)}

(* Two projects below one group, as for the promise of the guide.          *)
MCGitOnly ==
    << Source("tool.org", "git", TRUE, <<tool>>), Source("lib.org", "git", TRUE, <<lib>>) >>

MCSymmetry == Permutations(Operator)
=============================================================================
