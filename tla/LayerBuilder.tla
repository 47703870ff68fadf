---------------------------- MODULE LayerBuilder ----------------------------
(***************************************************************************)
(* files/oci/oci_builder/layer_builder.py: the layer that turns an image   *)
(* into a given tree, as a difference from the layers the image already    *)
(* has; and a chain of images, each built on the one before.               *)
(*                                                                         *)
(* A path is a sequence of names.  Names of entries are spelled as the     *)
(* code spells them: os.path.relpath gives "." for the root, so a file of  *)
(* the root is "./f" while a directory of the root is "d".                 *)
(***************************************************************************)
EXTENDS Naturals, Sequences, SequencesExt, Functions

CONSTANTS NameOrder,     \* the names, in the order sorted() gives them
          Trees,         \* the trees an image may be built from
          Bases,         \* images of other builders to start from: their entries
          MaxLayers      \* bound on the length of a chain

(* A tree maps each of its paths to a node.  attr stands for the uid, gid, *)
(* mode, mtime and size; data for the contents of a file or the target of  *)
(* a symbolic link; files with the same ino are hard links.  "special"     *)
(* stands for a device or a pipe, which a tar has members for, as it has   *)
(* none for a socket.                                                      *)
Node == [type : {"dir", "file", "symlink", "special", "socket"},
         attr : STRING, data : STRING, ino : STRING]
Path == Seq(ToSet(NameOrder))

IsTree(t) ==
    /\ <<>> \in DOMAIN t /\ t[<<>>].type = "dir"
    /\ \A p \in DOMAIN t : /\ p \in Path /\ t[p] \in Node
                           /\ t[p].type = "dir" => t[p].data = ""
                           /\ p # <<>> => /\ Front(p) \in DOMAIN t
                                          /\ t[Front(p)].type = "dir"
    /\ \A p, q \in DOMAIN t :
          t[p].type = "file" /\ t[q].type = "file" /\ t[p].ino = t[q].ino => t[p] = t[q]

ASSUME NamesAssumption == "." \notin ToSet(NameOrder)
ASSUME TreesAssumption == \A t \in Trees : IsTree(t)
ASSUME MaxLayersAssumption == MaxLayers \in Nat

RelPath(dir) == IF dir = <<>> THEN <<".">> ELSE dir
Join(dir, n) == Append(RelPath(dir), n)

Entries(t, dir) == {Last(p) : p \in {q \in DOMAIN t \ {<<>>} : Front(q) = dir}}
Dirs(t, dir)    == {n \in Entries(t, dir) : t[Append(dir, n)].type = "dir"}
Files(t, dir)   == Entries(t, dir) \ Dirs(t, dir)

IsDir(t, p) == p \in DOMAIN t /\ t[p].type = "dir"
View(t)     == [p \in DOMAIN t |-> [type |-> t[p].type, attr |-> t[p].attr, data |-> t[p].data]]

Forget(f, keys) == Restrict(f, DOMAIN f \ keys)
Set(f, key, to) == [k \in DOMAIN f \cup {key} |-> IF k = key THEN to ELSE f[k]]

VARIABLES pc,            \* "import", "idle", "create_layer" or "failed"
          base,          \* what is to be read of an image of another builder
          count,         \* the layers built
          below,         \* the entries of the layers that create_layer is given
          written,       \* the entries of the layer being written, or of the last
          read,          \* what analyze_lowers makes of both
          image,         \* what a container runtime makes of both
          tree,          \* the tree that the last image was built from
          upper,         \* the tree that this one is built from
          lower,         \* lower_files
          stack,         \* the directories to go to, as a set
          here,          \* the directory in hand: its whiteouts and files to come
          inodes,        \* tarfile's cache: from an inode to the name written for it
          dropped,       \* history: directories that some image took away
          retargeted     \* history: links that got another target and kept their attr

locals    == <<upper, lower, stack, here, inodes>>
layerVars == <<pc, base, count, below, written, read, image, tree, locals, dropped, retargeted>>
-----------------------------------------------------------------------------
(***************************************************************************)
(* analyze_lowers.  An entry is a member of a tar; "whiteout" stands for   *)
(* the member ".wh.name" of its directory, "opaque" for ".wh..wh..opq".    *)
(***************************************************************************)
(* Deletes the entry of that name and no other; a name that is not there   *)
(* raises KeyError.                                                        *)
AnalyzeWhiteout(r, m) == [files |-> Forget(r.files, {m.name}),
                          known |-> r.known /\ m.name \in DOMAIN r.files]

AnalyzeOpaque(r, m) ==
    LET hidden == {k \in DOMAIN r.files : IsStrictPrefix(m.name, k)}
    IN  [files |-> Forget(r.files, hidden), known |-> r.known]

AnalyzeMember(r, m) == [files |-> Set(r.files, m.name, m), known |-> r.known]

Analyze(r, m) == IF m.kind = "whiteout" THEN AnalyzeWhiteout(r, m)
                 ELSE IF m.kind = "opaque" THEN AnalyzeOpaque(r, m) ELSE AnalyzeMember(r, m)

LowerDirContents(files, relPath) ==
    {Last(k) : k \in {name \in DOMAIN files : Front(name) = relPath}}
-----------------------------------------------------------------------------
(***************************************************************************)
(* What a container runtime makes of the entries (the OCI image format):   *)
(* whiteouts hide what lower layers have, members are unpacked in order,   *)
(* directories being merged and anything else replaced.                    *)
(***************************************************************************)
Normal(name) == IF Head(name) = "." THEN Tail(name) ELSE name
Unpacked     == {Normal(m.name) : m \in {w \in written : w.kind = "member"}}

Hidden(m) == {p \in DOMAIN image \ Unpacked :
                \/ m.kind = "whiteout" /\ IsPrefix(Normal(m.name), p)
                \/ m.kind = "opaque" /\ IsStrictPrefix(Normal(m.name), p)}

Below(p) == {q \in DOMAIN image : IsStrictPrefix(p, q)}

Put(p, n) == Set(IF n.type = "dir" THEN image ELSE Forget(image, Below(p)), p, n)

Unpack(m) ==
    IF m.type # "link"
    THEN Put(Normal(m.name), [type |-> m.type, attr |-> m.attr, data |-> m.data])
    ELSE IF Normal(m.link) \in DOMAIN image
         THEN Put(Normal(m.name), image[Normal(m.link)]) ELSE image

Extract(m) == IF m.kind = "member" THEN Unpack(m) ELSE Forget(image, Hidden(m))

(* The next entry of a layer, and what its readers make of it: both go     *)
(* over the entries in their order, so they may keep pace with the writer. *)
Write(m) == /\ written' = written \cup {m}
            /\ read' = Analyze(read, m)
            /\ image' = Extract(m)
-----------------------------------------------------------------------------
(***************************************************************************)
(* An image of another builder, of which is required that it is a tree,    *)
(* that names are spelled as in this program, that a whiteout is for what  *)
(* an earlier layer has, and that a link is to a file that is there.       *)
(***************************************************************************)
Spelled(p, type) == IF type = "dir" \/ p = <<>> THEN RelPath(p) ELSE Join(Front(p), Last(p))

Fits(m) ==
    LET p == Normal(m.name) IN
    /\ m.kind \in {"member", "whiteout", "opaque"} /\ p \in Path
    /\ m.kind = "member" =>
          /\ m.name = Spelled(p, m.type)
          /\ m = [kind |-> "member", name |-> m.name, type |-> m.type, attr |-> m.attr,
                  data |-> m.data, link |-> m.link]
          /\ IF p = <<>> THEN m.type = "dir" ELSE IsDir(image, Front(p))
          /\ m.type = "link" => /\ Normal(m.link) \in DOMAIN image
                                /\ image[Normal(m.link)].type = "file"
    /\ m.kind = "whiteout" =>
          /\ p # <<>> /\ m.name = Join(Front(p), Last(p)) /\ m.name \in DOMAIN read.files
          /\ ~ \E q \in Unpacked : IsPrefix(p, q)
    /\ m.kind = "opaque" =>
          m.name = RelPath(p) /\ ~ \E q \in Unpacked : IsStrictPrefix(p, q)

Gone(t, u) == {p \in DOMAIN t : IsDir(t, p) /\ ~IsDir(u, p)}

Import ==
    /\ pc = "import" /\ base # <<>>
    /\ LET m == Head(base) IN
       /\ m.kind # "layer" /\ Fits(m)
       /\ Write(m)
       /\ dropped' = dropped \cup Gone(image, image')
    /\ tree' = image'
    /\ base' = Tail(base)
    /\ UNCHANGED <<pc, count, below, locals, retargeted>>

ImportLayer ==
    /\ pc = "import" /\ base # <<>> /\ Head(base).kind = "layer"
    /\ below' = below \cup written /\ written' = {}
    /\ base' = Tail(base)
    /\ UNCHANGED <<pc, count, read, image, tree, locals, dropped, retargeted>>
-----------------------------------------------------------------------------
(***************************************************************************)
(* create_layer.                                                           *)
(***************************************************************************)
Member(name, type, node, data, link) ==
    [kind |-> "member", name |-> name, type |-> type, attr |-> node.attr,
     data |-> data, link |-> link]

Nowhere == [dir |-> <<>>, gone |-> {}, files |-> {}]

CreateLayer(t) ==
    /\ pc \in {"import", "idle"} /\ base = <<>> /\ count < MaxLayers
    /\ pc' = IF read.known THEN "create_layer" ELSE "failed"
    /\ below' = below \cup written /\ written' = {}
    /\ upper' = t /\ lower' = read.files
    /\ stack' = {<<>>} /\ here' = Nowhere /\ inodes' = <<>>
    /\ UNCHANGED <<base, count, read, image, tree, dropped, retargeted>>

Before(m, n) == \E i, j \in DOMAIN NameOrder : i < j /\ NameOrder[i] = m /\ NameOrder[j] = n
First(n, names) == n \in names /\ \A m \in names : ~ Before(m, n)

(* stack.pop(-1), after the directories of each directory were pushed in   *)
(* reverse order: the first in the order of the paths.                     *)
Pop(dir) ==
    dir \in stack /\ \A d \in stack : ~ \E i \in DOMAIN d \cap DOMAIN dir :
        SubSeq(d, 1, i - 1) = SubSeq(dir, 1, i - 1) /\ Before(d[i], dir[i])

GoneUnrelative(dir) == LowerDirContents(lower, dir) \ Entries(upper, dir) \* mutation of GoneFrom

(* What the lower layers have in this directory and the tree has not.      *)
GoneFrom(dir) == LowerDirContents(lower, RelPath(dir)) \ Entries(upper, dir)

Working == pc = "create_layer"
Rest    == UNCHANGED <<base, count, below, tree, upper, lower, dropped, retargeted>>

AddDirectory(dir) ==
    /\ Working /\ here.gone = {} /\ here.files = {} /\ Pop(dir)
    /\ Write(Member(RelPath(dir), "dir", upper[dir], "", <<>>))
    /\ stack' = (stack \ {dir}) \cup {Append(dir, n) : n \in Dirs(upper, dir)}
    /\ here' = [dir |-> dir, gone |-> GoneFrom(dir), files |-> Files(upper, dir)]
    /\ Rest /\ UNCHANGED <<pc, inodes>>

WhiteoutUnrelative(dir, n) == [kind |-> "whiteout", name |-> Append(dir, n)] \* mutation of Whiteout

Whiteout(dir, n) == [kind |-> "whiteout", name |-> Join(dir, n)]

AddWhiteout(n) ==
    /\ Working /\ n \in here.gone
    /\ Write(Whiteout(here.dir, n))
    /\ here' = [here EXCEPT !.gone = @ \ {n}]
    /\ Rest /\ UNCHANGED <<pc, stack, inodes>>

(* TarFile.gettarinfo: the second name of an inode becomes a link.  For a  *)
(* socket it returns None: see RaiseNoTarInfo.                             *)
GetTarInfo(node, name) ==
    IF node.type = "file" /\ node.ino \in DOMAIN inodes
    THEN Member(name, "link", node, "", inodes[node.ino])
    ELSE Member(name, node.type, node, node.data, <<>>)

Cached(node, info) == IF info.type = "file" THEN Set(inodes, node.ino, info.name) ELSE inodes

(* A file that is left out must not be the target of a link.               *)
Uncached(cache, info) == Forget(cache, {i \in DOMAIN cache : cache[i] = info.name})

SameInfo(info) ==
    /\ info.name \in DOMAIN lower
    /\ info.type = lower[info.name].type /\ info.attr = lower[info.name].attr

SameNothing(info, node) == FALSE \* mutation of SameContents

(* For a symbolic link the code compares the target with itself.           *)
SameContents(info, node) ==
    \/ info.type = "file" /\ lower[info.name].data = node.data
    \/ info.type = "symlink" /\ info.data = node.data

Comes(n)   == Working /\ here.gone = {} /\ First(n, here.files)
Done(n)    == here' = [here EXCEPT !.files = @ \ {n}]
NodeOf(n)  == upper[Append(here.dir, n)]
Info(n)    == GetTarInfo(NodeOf(n), Join(here.dir, n))
Judging(n) == Comes(n) /\ NodeOf(n).type # "socket"

LeaveOut(n) ==
    /\ Judging(n) /\ SameInfo(Info(n)) /\ SameContents(Info(n), NodeOf(n))
    /\ inodes' = Uncached(Cached(NodeOf(n), Info(n)), Info(n))
    /\ Done(n) /\ Rest /\ UNCHANGED <<pc, written, read, image, stack>>

AddFile(n) ==
    /\ Judging(n)
    /\ SameInfo(Info(n)) => Info(n).type # "special" /\ ~ SameContents(Info(n), NodeOf(n))
    /\ Write(Info(n))
    /\ inodes' = Cached(NodeOf(n), Info(n))
    /\ Done(n) /\ Rest /\ UNCHANGED <<pc, stack>>

RaiseUnexpectedType(n) ==
    /\ Judging(n) /\ SameInfo(Info(n)) /\ Info(n).type = "special"
    /\ pc' = "failed"
    /\ Rest /\ UNCHANGED <<written, read, image, stack, here, inodes>>

(* The next line sets an attribute of what gettarinfo returned. *)
RaiseNoTarInfo(n) ==
    /\ Comes(n) /\ NodeOf(n).type = "socket"
    /\ pc' = "failed"
    /\ Rest /\ UNCHANGED <<written, read, image, stack, here, inodes>>

Retargeted(old, new) ==
    {p \in DOMAIN old \cap DOMAIN new :
        /\ old[p].type = "symlink" /\ new[p].type = "symlink"
        /\ old[p].attr = new[p].attr /\ old[p].data # new[p].data}

Finish ==
    /\ Working /\ stack = {} /\ here.gone = {} /\ here.files = {}
    /\ pc' = "idle" /\ count' = count + 1
    /\ tree' = View(upper)
    /\ dropped' = dropped \cup Gone(tree, upper)
    /\ retargeted' = retargeted \cup Retargeted(tree, upper)
    /\ UNCHANGED <<base, below, written, read, image, locals>>
-----------------------------------------------------------------------------
LayerInit ==
    /\ pc = "import" /\ base \in Bases /\ count = 0
    /\ below = {} /\ written = {} /\ read = [files |-> <<>>, known |-> TRUE]
    /\ image = <<>> /\ tree = <<>>
    /\ upper = <<>> /\ lower = <<>> /\ stack = {} /\ here = Nowhere /\ inodes = <<>>
    /\ dropped = {} /\ retargeted = {}

LayerNext ==
    \/ Import \/ ImportLayer
    \/ \E t \in Trees : CreateLayer(t)
    \/ \E dir \in stack : AddDirectory(dir)
    \/ \E n \in here.gone : AddWhiteout(n)
    \/ \E n \in here.files : LeaveOut(n) \/ AddFile(n) \/ RaiseUnexpectedType(n)
                           \/ RaiseNoTarInfo(n)
    \/ Finish

LayerSpec == LayerInit /\ [][LayerNext]_layerVars
-----------------------------------------------------------------------------
Complete           == pc \in {"import", "idle"}
UnderDropped(p)    == \E d \in dropped : IsPrefix(d, p)
UnderDroppedAtRoot(p) == \E d \in dropped : Len(d) = 1 /\ IsPrefix(d, p)

(* The image is a tree: what it has below a directory is never left        *)
(* without that directory (line 89).                                       *)
ImageIsTree == \A p \in DOMAIN image \ {<<>>} : IsDir(image, Front(p))

(* Removing, replacing or emptying anything but a directory of the root    *)
(* leaves nothing behind in the image (whiteouts, lines 103-110).          *)
NothingLeftBehind == Complete => \A p \in DOMAIN image \ DOMAIN tree : UnderDroppedAtRoot(p)

(* Everything the tree has is in the image as it is in the tree, unless it *)
(* is where a directory was taken away before, or is a symbolic link that  *)
(* only changed its target: what create_layer leaves out (lines 119-144)   *)
(* is what the lower layers provide.                                       *)
NothingLost == Complete =>
    \A p \in DOMAIN tree : \/ p \in DOMAIN image /\ image[p] = tree[p]
                           \/ UnderDropped(p)
                           \/ p \in retargeted

(* The image is a tree, and the one it was built from but for what the two *)
(* name.                                                                   *)
OnlyKnownDifferences == ImageIsTree /\ NothingLeftBehind /\ NothingLost

SharesInode(p) == \E l \in below \cup written :
    l.kind = "member" /\ l.type = "link" /\ p \in {Normal(l.name), Normal(l.link)}

IsNew(p) == \/ p \notin DOMAIN tree \/ tree[p] # tree'[p]
            \/ UnderDropped(p)
            \/ SharesInode(p)

(* A layer is a difference: a file that is as it was, and whose inode has  *)
(* one name in both trees, is not in it (lines 129-138).                   *)
NothingRepeated ==
    [][count' # count => \A m \in written :
          m.kind = "member" /\ m.type = "file" => IsNew(Normal(m.name))]_layerVars

(* create_layer fails only on a device or pipe that the tree and a layer   *)
(* below have in the same place (line 146), or on a socket of the tree,    *)
(* whatever the layers below have (lines 115-116); the lower names it      *)
(* looks up and deletes (lines 50 and 106) are always there.               *)
FailsOnlyOnSpecial ==
    pc = "failed" =>
        \E p \in DOMAIN upper :
            \/ upper[p].type = "socket"
            \/ /\ upper[p].type = "special"
               /\ \E m \in below : /\ m.kind = "member" /\ m.type = "special"
                                   /\ Normal(m.name) = p
=============================================================================
