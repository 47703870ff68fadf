---------------------------- MODULE ImageBuilder ----------------------------
(***************************************************************************)
(* files/oci/oci_builder/{cmd,image_builder,blob}.py: runs of `build-oci', *)
(* each of which writes a directory with images in the OCI or the docker   *)
(* layout; an image may have a parent, an image of an earlier run.         *)
(*                                                                         *)
(* A layer is a tar, compressed any number of times, and the media type    *)
(* it is given, which need not say the same.  The tar that create_layer    *)
(* writes is a function of the tree and of the layers below it, so it is   *)
(* taken to be that pair; LayerBuilder says what is in it.  Digests are    *)
(* taken to be injective: a blob is its own name (a run gives all its      *)
(* layers one media type, which therefore tells no blobs apart).           *)
(***************************************************************************)
EXTENDS Naturals, Sequences, SequencesExt

CONSTANTS Tree,          \* trees that images are built from
          None,          \* stands for what a description leaves out
          Confs,         \* the settings considered: [mode, gzip]
          Layers,        \* the trees or None an image may add
          MaxRuns,       \* bound on the runs of build-oci
          MaxImages      \* bound on the images of one run

ASSUME ConfsAssumption  == Confs \subseteq [mode : {"oci", "docker"}, gzip : BOOLEAN]
ASSUME LayersAssumption == Layers \subseteq Tree \cup {None} /\ None \notin Tree
ASSUME BoundsAssumption == MaxRuns \in Nat /\ MaxImages \in Nat

VARIABLES outputs,       \* what the finished runs wrote
          conf,          \* global_conf of the run that is going on, or None
          build,         \* where build_images is, and the locals of build_image
          blobs,         \* the layers in its output directory
          legacy,        \* "parent" in the docker metadata of each of them
          images,        \* the images it has built
          failure        \* history: the run that raised an exception, or None

vars == <<outputs, conf, build, blobs, legacy, images, failure>>

(* diff_ids and the history of the parent are read at the beginning. *)
Locals(pc, parent, upper) ==
    [pc |-> pc, parent |-> parent, upper |-> upper, layers |-> <<>>, legacyParent |-> None,
     diffIds |-> IF parent = None THEN <<>> ELSE parent.diffIds,
     history |-> IF parent = None THEN <<>> ELSE parent.history]

NoImage == Locals("build_images", None, None)

Init ==
    /\ outputs = <<>> /\ conf = None /\ build = NoImage
    /\ blobs = {} /\ legacy = <<>> /\ images = <<>>
    /\ failure = None

Tar(upper, lowers) == [upper |-> upper, lowers |-> lowers]
Tars(layers)       == [i \in DOMAIN layers |-> layers[i].tar]

(* Compressed gzip times, and described as mediaType. *)
Layer(tar, gzip, mediaType) == [tar |-> tar, gzip |-> gzip, mediaType |-> mediaType]

(* What the layers of this run are described as, and should be. *)
MediaType == IF conf.gzip THEN "tar+gzip" ELSE "tar"
Gzip      == IF conf.gzip THEN 1 ELSE 0
-----------------------------------------------------------------------------
(***************************************************************************)
(* The beginning and the end of a run and of an image.                     *)
(***************************************************************************)
(* main reads the settings. *)
StartRun(c) ==
    /\ conf = None /\ failure = None /\ Len(outputs) < MaxRuns
    /\ conf' = c
    /\ blobs' = {} /\ legacy' = <<>> /\ images' = <<>>
    /\ UNCHANGED <<outputs, build, failure>>

Finished == UNION {ToSet(outputs[k].images) : k \in DOMAIN outputs}
Parents  == {None} \cup Finished

(* A turn of the loop of build_images begins. *)
StartImage(parent, upper) ==
    /\ conf # None /\ build.pc = "build_images" /\ Len(images) < MaxImages
    /\ build' = Locals("build_image", parent, upper)
    /\ UNCHANGED <<outputs, conf, blobs, legacy, images, failure>>

(* The docker layout lists the tag of an image with its legacy parent.     *)
(* fromDocker, incomplete and relabelled are remembered for the            *)
(* properties: that the parent was in the docker layout; that the last     *)
(* layer of an OCI parent was left out in the image or in an ancestor; and *)
(* that compressed layers of the docker layout were copied in one of them, *)
(* and described as plain.                                                 *)
Image(b) ==
    [mode |-> conf.mode, layers |-> b.layers, diffIds |-> b.diffIds,
     history |-> b.history, tag |-> b.legacyParent,
     fromDocker |-> b.parent # None /\ b.parent.mode = "docker",
     incomplete |-> /\ b.parent # None
                    /\ b.parent.incomplete \/ (b.parent.mode = "oci" /\ b.upper = None),
     relabelled |-> /\ b.parent # None
                    /\ \/ b.parent.relabelled
                       \/ /\ b.parent.mode = "docker"
                          /\ \E l \in ToSet(b.parent.layers) : l.gzip > 0]

HistoryEntry(upper) == IF upper = None THEN "empty" ELSE "layer"

(* The configuration and the manifest of the image. *)
CompleteImage(b) ==
    /\ images' = Append(images, Image([b EXCEPT !.history = Append(@, HistoryEntry(b.upper))]))
    /\ build' = NoImage
    /\ UNCHANGED <<outputs, conf, failure>>

(* build_images writes index.json, or manifest.json and repositories. *)
FinishRun ==
    /\ conf # None /\ build.pc = "build_images" /\ images # <<>>
    /\ outputs' = Append(outputs, [mode |-> conf.mode, images |-> images, legacy |-> legacy])
    /\ conf' = None /\ blobs' = {} /\ legacy' = <<>> /\ images' = <<>>
    /\ UNCHANGED <<build, failure>>
-----------------------------------------------------------------------------
(***************************************************************************)
(* Blob.create for a layer: in the docker layout os.makedirs refuses a     *)
(* directory that exists; only that layout has legacy identifiers.         *)
(***************************************************************************)
CanCreate(layer) == conf.mode = "docker" => layer \notin blobs

(* The metadata of a layer: a file json in a directory of its own. *)
WithParent(layer, parent) ==
    [l \in DOMAIN legacy \cup {layer} |-> IF l = layer THEN parent ELSE legacy[l]]

CreateBlob(layer, parent) ==
    /\ CanCreate(layer)
    /\ blobs' = blobs \cup {layer}
    /\ legacy' = IF conf.mode = "docker" THEN WithParent(layer, parent) ELSE legacy

LegacyId(layer) == IF conf.mode = "docker" THEN layer ELSE None

(* legacy_config['parent'], which a compressed layer does not get. *)
LegacyParent == IF conf.gzip THEN None ELSE build.legacyParent

InheritedFront(b) ==                  \* mutation of Inherited: never the last layer
    IF b.parent = None THEN <<>> ELSE Front(b.parent.layers)

(* The layers of the parent that the image takes over: without a new layer *)
(* the last one of an OCI parent gets a new configuration, and is not      *)
(* copied.                                                                 *)
Inherited(b) ==
    CASE b.parent = None                                   -> <<>>
      [] b.parent # None /\ b.parent.mode = "oci" /\ b.upper = None
                                                           -> Front(b.parent.layers)
      [] OTHER                                             -> b.parent.layers

Importing == build.pc = "build_image" /\ Len(build.layers) < Len(Inherited(build))
Imported  == build.pc = "build_image" /\ Len(build.layers) = Len(Inherited(build))
NextLayer == Inherited(build)[Len(build.layers) + 1]

AddDescriptor(layer) ==
    /\ build' = [build EXCEPT !.layers = Append(@, layer), !.legacyParent = LegacyId(layer)]
    /\ UNCHANGED <<outputs, conf, images, failure>>

(* A turn of extract_docker_image_info: the layer is copied as it is,      *)
(* described as plain, and the parent computed for its metadata is not     *)
(* passed on.  With gzip a variable is read that is not set.               *)
Copied(layer) == Layer(layer.tar, layer.gzip, "tar")

ImportDockerLayer ==
    /\ Importing /\ build.parent.mode = "docker" /\ ~conf.gzip
    /\ CreateBlob(Copied(NextLayer), None)
    /\ AddDescriptor(Copied(NextLayer))

CopiedAsIs(layer) ==                  \* mutation of Recompressed: not compressed, not expanded
    Layer(layer.tar, layer.gzip, MediaType)

(* It is the media type that says whether a layer has to be compressed or  *)
(* expanded.                                                               *)
Recompressed(layer) ==
    Layer(layer.tar,
          CASE layer.mediaType = MediaType               -> layer.gzip
            [] layer.mediaType # MediaType /\ conf.gzip  -> layer.gzip + 1
            [] layer.mediaType # MediaType /\ ~conf.gzip -> layer.gzip - 1,
          MediaType)

(* gzip.open refuses a plain file. *)
CanExpand(layer) == layer.mediaType = "tar+gzip" /\ ~conf.gzip => layer.gzip > 0

(* A turn of extract_oci_image_info. *)
ImportOciLayer ==
    /\ Importing /\ build.parent.mode = "oci" /\ CanExpand(NextLayer)
    /\ CreateBlob(Recompressed(NextLayer), LegacyParent)
    /\ AddDescriptor(Recompressed(NextLayer))

LowerLast(b) ==                       \* mutation of Lowers: the last layer only
    IF b.layers = <<>> THEN <<>> ELSE <<Last(b.layers).tar>>

(* layer_files: what create_layer compares the tree with. *)
Lowers(b) == Tars(b.layers)

NewLayer == Layer(Tar(build.upper, Lowers(build)), Gzip, MediaType)

(* The lower layers are opened as compressed once, or as plain. *)
CanRead == \A l \in ToSet(build.layers) : l.gzip = Gzip

(* build_layer and the rest of build_image: with gzip the metadata has no  *)
(* parent and the identifier is not used.                                  *)
BuildLayer ==
    /\ Imported /\ build.upper # None /\ CanRead
    /\ CreateBlob(NewLayer, LegacyParent)
    /\ CompleteImage([build EXCEPT
           !.layers = Append(@, NewLayer), !.diffIds = Append(@, NewLayer.tar),
           !.legacyParent = IF conf.gzip THEN @ ELSE LegacyId(NewLayer)])

(* build_image for an image without a layer. *)
AddNoLayer ==
    /\ Imported /\ build.upper = None
    /\ CompleteImage(build)
    /\ UNCHANGED <<blobs, legacy>>

(* An exception ends the run, whose directory is not used; nothing is      *)
(* followed after it.  The layer is the one that was to be written.        *)
Fail(layer) ==
    /\ failure' = [conf |-> conf, parent |-> build.parent,
                   shared |-> \E im \in ToSet(images) : layer \in ToSet(im.layers)]
    /\ conf' = None /\ build' = NoImage
    /\ blobs' = {} /\ legacy' = <<>> /\ images' = <<>>
    /\ UNCHANGED outputs

FailDockerImport ==
    /\ Importing /\ build.parent.mode = "docker"
    /\ conf.gzip \/ ~CanCreate(Copied(NextLayer))
    /\ Fail(Copied(NextLayer))

FailOciImport ==
    /\ Importing /\ build.parent.mode = "oci"
    /\ ~CanExpand(NextLayer) \/ ~CanCreate(Recompressed(NextLayer))
    /\ Fail(Recompressed(NextLayer))

FailBuildLayer ==
    /\ Imported /\ build.upper # None
    /\ ~CanRead \/ ~CanCreate(NewLayer)
    /\ Fail(NewLayer)

Next ==
    \/ \E c \in Confs : StartRun(c)
    \/ \E parent \in Parents, upper \in Layers : StartImage(parent, upper)
    \/ ImportDockerLayer \/ ImportOciLayer
    \/ BuildLayer \/ AddNoLayer
    \/ FailDockerImport \/ FailOciImport \/ FailBuildLayer
    \/ FinishRun

Spec == Init /\ [][Next]_vars
-----------------------------------------------------------------------------
AllImages == Finished \cup ToSet(images)

(* Every layer that an image names is in its directory (Blob.create,       *)
(* descriptor and os.rename), and in the docker layout has metadata.       *)
LayersAreThere ==
    /\ \A im \in ToSet(images) : ToSet(im.layers) \subseteq blobs
    /\ conf # None /\ conf.mode = "docker" => DOMAIN legacy = blobs

(* The manifest and the configuration of an image speak of the same        *)
(* layers, in the same order (layer_descs and diff_ids, lines 101-146 and  *)
(* 232-238), unless it or an ancestor left out the last layer of an OCI    *)
(* parent.                                                                 *)
ManifestMatchesConfig ==
    \A im \in AllImages : ~im.incomplete => Tars(im.layers) = im.diffIds

(* A layer was computed as the difference from exactly the layers below it *)
(* (layer_files, lines 156-167), over any chain of images, so that         *)
(* extracting the image gives the tree of its last layer as far as         *)
(* create_layer does.                                                      *)
LayersStack ==
    \A im \in AllImages : \A i \in DOMAIN im.layers :
        im.layers[i].tar.lowers = SubSeq(Tars(im.layers), 1, i - 1)

(* The history has one entry that is not empty_layer for each diff id      *)
(* (lines 240-253), as the OCI image format demands.                       *)
HistoryMatches ==
    \A im \in AllImages :
        Cardinality({i \in DOMAIN im.history : im.history[i] = "layer"}) = Len(im.diffIds)

(* The metadata of the layers links the tag of an image to all its layers, *)
(* from the top down.                                                      *)
Chained(layers, tag, parentOf) ==
    /\ tag = IF layers = <<>> THEN None ELSE Last(layers)
    /\ \A i \in DOMAIN layers :
          parentOf[layers[i]] = IF i = 1 THEN None ELSE layers[i - 1]

(* So it does in a docker directory (legacy_parent, lines 108-144, 227-238 *)
(* and 268-272), unless the run compresses or the parent was in the docker *)
(* layout (whose layers get no parent).                                    *)
LegacyChain ==
    \A k \in DOMAIN outputs : \A im \in ToSet(outputs[k].images) :
        /\ outputs[k].mode = "docker" /\ ~im.fromDocker
        /\ \A l \in ToSet(im.layers) : l.mediaType = "tar"
        => Chained(im.layers, im.tag, outputs[k].legacy)

(* The places that speak of an image's layers -- directory, manifest,      *)
(* configuration, history and docker metadata -- agree on every image.     *)
MetadataAgree ==
    LayersAreThere /\ ManifestMatchesConfig /\ HistoryMatches /\ LegacyChain

(* A run fails only when it writes into a docker directory a layer that an *)
(* earlier image of the run has (blob.py, line 82); when it imports an     *)
(* image of the docker layout with gzip or compressed layers; or when the  *)
(* parent, or an ancestor, got such layers from the docker layout          *)
(* described as plain (lines 67-79).  The layers of any other OCI parent   *)
(* can be expanded and read back (lines 128-140 and 164-166).              *)
FailsOnlyWhereKnown ==
    failure # None =>
        \/ failure.conf.mode = "docker" /\ failure.shared
        \/ /\ failure.parent # None /\ failure.parent.mode = "docker"
           /\ failure.conf.gzip \/ \E l \in ToSet(failure.parent.layers) : l.gzip > 0
        \/ failure.parent # None /\ failure.parent.relabelled

(* Without a new layer, too, the image has all the layers of its parent:   *)
(* "the last imported layer has to be fully reconfigured" (lines 106-107). *)
ManifestNamesEveryLayer == \A im \in AllImages : Tars(im.layers) = im.diffIds
=============================================================================
