--------------------------- MODULE MCLayerBuilder ---------------------------
(***************************************************************************)
(* Trees with a file f, a directory d, d/e inside it and d/e/x inside that,*)
(* each of which may be missing or something else.                         *)
(***************************************************************************)
EXTENDS LayerBuilder, TLC

F == <<"f">>
D == <<"d">>
E == <<"d", "e">>
X == <<"d", "e", "x">>

MCNameOrder == <<"d", "e", "f", "x">>

Directory(attr)      == [type |-> "dir", attr |-> attr, data |-> "", ino |-> ""]
File(attr, data, i)  == [type |-> "file", attr |-> attr, data |-> data, ino |-> i]
Link(target)         == [type |-> "symlink", attr |-> "a1", data |-> target, ino |-> ""]
Special              == [type |-> "special", attr |-> "a1", data |-> "", ino |-> ""]
Socket               == [type |-> "socket", attr |-> "a1", data |-> "", ino |-> ""]

Root == {<<>> :> Directory("a1")}

(* t with node n at path p, for every tree in ts and node in nodes. *)
With(ts, p, nodes) == {(p :> n) @@ t : t \in ts, n \in nodes}

WithX == With(With(With(Root, D, {Directory("a1")}), E, {Directory("a1")}), X,
             {File("a1", "one", "x"), File("a1", "two", "x")})

WithE == With(With(Root, D, {Directory("a1"), Directory("a2")}), E,
             {Directory("a1"), File("a1", "one", "e"), Link("t1"), Link("t2")})

WithoutF == Root \cup WithE \cup WithX
              \cup With(Root, D, {Directory("a1"), File("a1", "one", "d")})

Full == WithoutF
          \cup With(WithoutF, F, {File("a1", "one", "f"), File("a1", "two", "f"),
                                 File("a2", "one", "f")})

(* f and d/e/x, or f and d/e, are one inode. *)
HardLinked ==
    {(F :> File("a1", "one", "shared")) @@ (X :> File("a1", "one", "shared")) @@ t : t \in WithX}
      \cup {(F :> File("a1", "one", "shared")) @@ (E :> File("a1", "one", "shared")) @@ t :
              t \in With(Root, D, {Directory("a1")})}

(* d or f is something else than usual. *)
Unusual == With(Root, F, {Directory("a1"), Link("t1"), Link("t2"), Special, Socket})

MCTrees == Full \cup HardLinked \cup Unusual

(* An image of another builder: f is one inode with d/e/x, and the second  *)
(* layer hides what d/e had, and d/x.                                      *)
Foreign(name, node) == Member(name, node.type, node, node.data, <<>>)

ForeignBase ==
    << Foreign(<<".">>, Directory("a1")), Foreign(D, Directory("a1")),
       Foreign(E, Directory("a1")), Foreign(X, File("a1", "one", "x")),
       Foreign(<<"d", "x">>, File("a1", "one", "y")),
       Member(<<".", "f">>, "link", File("a1", "one", "x"), "", X),
       [kind |-> "layer"],
       Foreign(E, Directory("a1")), [kind |-> "opaque", name |-> E],
       [kind |-> "whiteout", name |-> <<"d", "x">>] >>

NoBase  == {<<>>}
MCBases == NoBase \cup {ForeignBase}
=============================================================================
