----------------------------- MODULE MCStripper -----------------------------
EXTENDS Stripper, TLC

CONSTANTS f1, f2, f3, i1, i2, i3, s1, s2, s3

MCArchOrder == <<"x86_64", "i686", "unknown">>

Elf(a, w)  == [kind |-> "elf", arch |-> a, writable |-> w]
NotElf(k)  == [kind |-> k, arch |-> "x86_64", writable |-> TRUE]

Separate == (f1 :> i1) @@ (f2 :> i2) @@ (f3 :> i3)
Linked   == (f1 :> i1) @@ (f2 :> i1) @@ (f3 :> i3)
Nodes(a, b, c) == (i1 :> a) @@ (i2 :> b) @@ (i3 :> c)
Lists(a, b, c) == (f1 :> a) @@ (f2 :> b) @@ (f3 :> c)

(* Two architectures, a read-only binary, a hard link, files that are left *)
(* alone, a file of an architecture without a triplet, a damaged file;     *)
(* sources that two files share, that the build root lacks, that DESTDIR   *)
(* has before, and a file without any.                                     *)
Tree(link, node, sources, present, there) ==
    [link |-> link, node |-> node, sources |-> sources, present |-> present,
     there |-> there]

Trees ==
    {Tree(Separate,
          Nodes(Elf("x86_64", TRUE), Elf("x86_64", FALSE), Elf("i686", TRUE)),
          Lists({s1, s2}, {s1}, {s3}), {s1, s2}, {}),
     Tree(Separate,
          Nodes(Elf("x86_64", FALSE), NotElf("data"), NotElf("stripped")),
          Lists({s1, s2, s3}, {}, {}), {s1, s2}, {s1, s3}),
     Tree(Separate,
          Nodes(Elf("x86_64", TRUE), Elf("unknown", TRUE), NotElf("data")),
          Lists({s1}, {s2}, {}), {s1, s2}, {s2}),
     Tree(Separate,
          Nodes(Elf("x86_64", TRUE), NotElf("broken"), NotElf("stripped")),
          Lists({s1}, {s2}, {s3}), {s1, s2, s3}, {}),
     Tree(Linked,
          Nodes(Elf("x86_64", TRUE), Elf("x86_64", TRUE), Elf("i686", FALSE)),
          Lists({}, {}, {s1}), {s1}, {})}

MCInputs ==
    {[link |-> tree.link, node |-> tree.node, sources |-> tree.sources,
      present |-> tree.present, there |-> tree.there, toolchains |-> tc,
      optimize |-> opt, compress |-> comp] :
        tree \in Trees, tc \in {{"x86_64"}, {"x86_64", "i686"}},
        opt \in BOOLEAN, comp \in BOOLEAN}
=============================================================================
