------------------------------ MODULE OciProofs ------------------------------
(***************************************************************************)
(* Proofs about ImageBuilder and LayerBuilder, for all trees, settings and *)
(* images of other builders, and for any number of runs, images and layers.*)
(***************************************************************************)
EXTENDS ImageBuilder, LayerBuilder, FiniteSetTheorems, SequenceTheorems, NaturalsInduction,
        WellFoundedInduction, TLAPS

(***************************************************************************)
(* The invariant of the image builder.                                     *)
(***************************************************************************)
IsSeq(s) == s \in Seq(ToSet(s))

(* A layer is over the layers before it: LayersStack of one list. *)
Stacked(layers) ==
    \A i \in DOMAIN layers : layers[i].tar.lowers = SubSeq(Tars(layers), 1, i - 1)

LayerOf(l) == /\ l = Layer(l.tar, l.gzip, l.mediaType)
              /\ l.gzip \in Nat /\ l.mediaType \in {"tar", "tar+gzip"}
              /\ l.mediaType = "tar+gzip" => l.gzip > 0

(* The media type says how often the layer is compressed. *)
IsAsDescribed(l) == l.gzip = IF l.mediaType = "tar+gzip" THEN 1 ELSE 0

LayerEntries(history) == {i \in DOMAIN history : history[i] = "layer"}

ImageFits(im) ==
    /\ im.mode \in {"oci", "docker"}
    /\ IsSeq(im.layers) /\ Stacked(im.layers)
    /\ \A i \in DOMAIN im.layers : LayerOf(im.layers[i])
    /\ ~im.relabelled => \A i \in DOMAIN im.layers : IsAsDescribed(im.layers[i])
    /\ IsSeq(im.diffIds) /\ (~im.incomplete => Tars(im.layers) = im.diffIds)
    /\ IsSeq(im.history) /\ Cardinality(LayerEntries(im.history)) = Len(im.diffIds)

(* What has been copied follows what the parent has: as it is, from the    *)
(* docker layout; and from the OCI layout, as this run compresses, if that *)
(* is as it is described.                                                  *)
Follows(b, c) ==
    /\ IsSeq(b.layers) /\ Len(b.layers) <= Len(Inherited(b))
    /\ \A i \in DOMAIN b.layers :
          /\ LayerOf(b.layers[i]) /\ b.layers[i].tar = Inherited(b)[i].tar
          /\ b.layers[i].mediaType = IF c.gzip THEN "tar+gzip" ELSE "tar"
          /\ b.parent.mode = "docker" => ~c.gzip /\ b.layers[i].gzip = Inherited(b)[i].gzip
          /\ b.parent.mode = "oci" /\ IsAsDescribed(Inherited(b)[i])
                => IsAsDescribed(b.layers[i])

IsBuild(b) == b = [pc |-> b.pc, parent |-> b.parent, upper |-> b.upper, layers |-> b.layers,
                   legacyParent |-> b.legacyParent, diffIds |-> b.diffIds, history |-> b.history]

BuildFits(b, c) ==
    /\ IsBuild(b) /\ Follows(b, c)
    /\ b.parent = None => b.diffIds = <<>> /\ b.history = <<>>
    /\ b.parent # None => /\ ImageFits(b.parent)
                          /\ b.diffIds = b.parent.diffIds /\ b.history = b.parent.history

(* LegacyChain of one image. *)
Linked(layers, tag, parentOf) ==
    (\A l \in ToSet(layers) : l.mediaType = "tar") => Chained(layers, tag, parentOf)

FromDocker(b) == b.parent # None /\ b.parent.mode = "docker"

(* What makes an image relabelled. *)
Relabels(b) == /\ b.parent # None
               /\ \/ b.parent.relabelled
                  \/ /\ b.parent.mode = "docker"
                     /\ \E l \in ToSet(b.parent.layers) : l.gzip > 0

ImageLayers == UNION {ToSet(im.layers) : im \in ToSet(images)}

AreSequences == /\ IsSeq(outputs) /\ IsSeq(images)
                /\ \A k \in DOMAIN outputs : IsSeq(outputs[k].images)
Settings == /\ conf = None => build = NoImage /\ images = <<>>
            /\ conf # None => conf \in Confs
            /\ build.pc = "build_images" => build = NoImage
ImagesFit == \A im \in AllImages : ImageFits(im)
BuildFit  == BuildFits(build, conf)

(* The directory of the run has the layers of its images and of the one    *)
(* that is being built, and no others.                                     *)
Directory ==
    /\ ImageLayers \subseteq blobs
    /\ ToSet(build.layers) \subseteq blobs
    /\ \A l \in blobs : l \in ImageLayers \/ l \in ToSet(build.layers)
    /\ conf # None /\ conf.mode = "docker" => DOMAIN legacy = blobs

LinkedSoFar ==
    conf # None /\ conf.mode = "docker" =>
        /\ \A im \in ToSet(images) : ~im.fromDocker => Linked(im.layers, im.tag, legacy)
        /\ ~FromDocker(build) => Linked(build.layers, build.legacyParent, legacy)

IInv == /\ AreSequences /\ Settings /\ ImagesFit /\ BuildFit /\ Directory /\ LinkedSoFar
        /\ LegacyChain /\ FailsOnlyWhereKnown
-----------------------------------------------------------------------------
(***************************************************************************)
(* Sequences.                                                              *)
(***************************************************************************)
LEMMA SeqFacts ==
    ASSUME NEW s, IsSeq(s)
    PROVE  /\ Len(s) \in Nat /\ DOMAIN s = 1 .. Len(s)
           /\ \A i \in DOMAIN s : s[i] \in ToSet(s)
           /\ \A x \in ToSet(s) : \E i \in DOMAIN s : x = s[i]
  BY LenProperties DEF IsSeq, ToSet

LEMMA SeqIn ==
    ASSUME NEW S, NEW s \in Seq(S)
    PROVE  IsSeq(s) /\ ToSet(s) \subseteq S
<1>1. Len(s) \in Nat /\ DOMAIN s = 1 .. Len(s) /\ s \in [1 .. Len(s) -> S]
  BY LenProperties
<1>2. s \in [1 .. Len(s) -> ToSet(s)]
  BY <1>1 DEF ToSet
<1>3. ToSet(s) \subseteq S
  BY <1>1 DEF ToSet
<1>4. s \in Seq(ToSet(s))
  BY <1>1, <1>2
<1>5. QED
  BY <1>3, <1>4 DEF IsSeq

LEMMA EmptyFacts == IsSeq(<<>>) /\ Len(<<>>) = 0 /\ DOMAIN <<>> = {} /\ ToSet(<<>>) = {}
  BY EmptySeq, SeqIn DEF IsSeq, ToSet

LEMMA AppendFacts ==
    ASSUME NEW s, IsSeq(s), NEW e
    PROVE  /\ IsSeq(Append(s, e)) /\ Append(s, e) # <<>>
           /\ Len(Append(s, e)) = Len(s) + 1 /\ DOMAIN Append(s, e) = 1 .. Len(s) + 1
           /\ \A i \in DOMAIN s : Append(s, e)[i] = s[i]
           /\ Append(s, e)[Len(s) + 1] = e
           /\ ToSet(Append(s, e)) = ToSet(s) \cup {e}
<1> DEFINE S == ToSet(s) \cup {e}
<1>1. s \in Seq(S) /\ e \in S
  BY SeqMonotonic DEF IsSeq
<1>2. /\ Append(s, e) \in Seq(S) /\ Append(s, e) # <<>>
      /\ Len(Append(s, e)) = Len(s) + 1
      /\ \A i \in 1 .. Len(s) : Append(s, e)[i] = s[i]
      /\ Append(s, e)[Len(s) + 1] = e
  BY <1>1, AppendProperties
<1> HIDE DEF S
<1>3. Len(s) \in Nat /\ DOMAIN s = 1 .. Len(s)
  BY SeqFacts
<1>4. DOMAIN Append(s, e) = 1 .. Len(s) + 1
  BY <1>2, LenProperties
<1>5. ToSet(Append(s, e)) = ToSet(s) \cup {e}
  <2>1. ASSUME NEW x \in ToSet(Append(s, e)) PROVE x \in ToSet(s) \cup {e}
    <3>1. PICK i \in 1 .. Len(s) + 1 : x = Append(s, e)[i]
      BY <1>4 DEF ToSet
    <3>2. CASE i \in 1 .. Len(s)
      BY <1>2, <1>3, <3>1, <3>2 DEF ToSet
    <3>3. CASE i = Len(s) + 1
      BY <1>2, <3>1, <3>3
    <3>4. QED
      BY <1>3, <3>2, <3>3
  <2>2. ASSUME NEW i \in DOMAIN s PROVE s[i] \in ToSet(Append(s, e))
    <3>1. i \in DOMAIN Append(s, e) /\ Append(s, e)[i] = s[i]
      BY <1>2, <1>3, <1>4
    <3>2. QED
      BY <3>1 DEF ToSet
  <2>3. e \in ToSet(Append(s, e))
    <3>1. Len(s) + 1 \in DOMAIN Append(s, e)
      BY <1>3, <1>4
    <3>2. QED
      BY <1>2, <3>1 DEF ToSet
  <2>4. ToSet(s) \subseteq ToSet(Append(s, e))
    BY <2>2 DEF ToSet
  <2>5. QED
    BY <2>1, <2>3, <2>4
<1>6. QED
  BY <1>2, <1>3, <1>4, <1>5, SeqIn

LEMMA FrontFacts ==
    ASSUME NEW s, IsSeq(s)
    PROVE  /\ IsSeq(Front(s)) /\ Len(Front(s)) <= Len(s)
           /\ \A i \in DOMAIN Front(s) : i \in DOMAIN s /\ Front(s)[i] = s[i]
<1>1. Len(s) \in Nat /\ DOMAIN s = 1 .. Len(s) /\ \A i \in DOMAIN s : s[i] \in ToSet(s)
  BY SeqFacts
<1>2. \A i \in 1 .. Len(s) - 1 : s[i] \in ToSet(s)
  BY <1>1
<1>3. 1 \in Int /\ Len(s) - 1 \in Int
  BY <1>1
<1>4. /\ Front(s) \in Seq(ToSet(s))
      /\ Len(Front(s)) = IF 1 <= Len(s) - 1 THEN (Len(s) - 1) - 1 + 1 ELSE 0
      /\ \A i \in 1 .. (Len(s) - 1) - 1 + 1 : Front(s)[i] = s[1 + i - 1]
  BY <1>2, <1>3, SubSeqProperties DEF Front
<1>5. IsSeq(Front(s)) /\ DOMAIN Front(s) = 1 .. Len(Front(s))
  BY <1>4, SeqIn, LenProperties
<1>6. CASE Len(s) <= 1
  <2>1. ~(1 <= Len(s) - 1)
    BY <1>1, <1>6
  <2>2. Len(Front(s)) = 0
    BY <1>4, <2>1
  <2>3. QED
    BY <1>1, <1>5, <2>2
<1>7. CASE Len(s) > 1
  <2>1. 1 <= Len(s) - 1 /\ (Len(s) - 1) - 1 + 1 = Len(s) - 1
    BY <1>1, <1>7
  <2>2. Len(Front(s)) = Len(s) - 1
    BY <1>4, <2>1
  <2>3. ASSUME NEW i \in 1 .. Len(s) - 1 PROVE i \in DOMAIN s /\ Front(s)[i] = s[i]
    <3>1. 1 + i - 1 = i /\ i \in 1 .. (Len(s) - 1) - 1 + 1 /\ i \in 1 .. Len(s)
      BY <1>1, <2>1
    <3>2. Front(s)[i] = s[1 + i - 1]
      BY <1>4, <3>1
    <3>3. QED
      BY <1>1, <3>1, <3>2
  <2>4. Len(Front(s)) <= Len(s)
    BY <1>1, <2>2
  <2>5. DOMAIN Front(s) = 1 .. Len(s) - 1
    BY <1>5, <2>2
  <2>6. QED
    BY <1>5, <2>3, <2>4, <2>5
<1>8. QED
  BY <1>1, <1>6, <1>7

LEMMA SeqExtensional ==
    ASSUME NEW s, NEW t, IsSeq(s), IsSeq(t), Len(s) = Len(t), \A i \in DOMAIN s : s[i] = t[i]
    PROVE  s = t
<1> DEFINE S == ToSet(s) \cup ToSet(t)
<1>1. s \in Seq(S) /\ t \in Seq(S)
  BY SeqMonotonic DEF IsSeq
<1>2. \A i \in 1 .. Len(s) : s[i] = t[i]
  BY SeqFacts
<1> HIDE DEF S
<1>3. QED
  BY <1>1, <1>2, SeqEqual
-----------------------------------------------------------------------------
(***************************************************************************)
(* Lists of layers.                                                        *)
(***************************************************************************)
LEMMA TarsFacts ==
    ASSUME NEW s, IsSeq(s)
    PROVE  /\ IsSeq(Tars(s)) /\ Len(Tars(s)) = Len(s) /\ DOMAIN Tars(s) = DOMAIN s
           /\ \A i \in DOMAIN s : Tars(s)[i] = s[i].tar
<1> DEFINE S == {s[i].tar : i \in DOMAIN s}
<1>1. Len(s) \in Nat /\ DOMAIN s = 1 .. Len(s)
  BY SeqFacts
<1>2. Tars(s) = [i \in 1 .. Len(s) |-> s[i].tar]
  BY <1>1 DEF Tars
<1>3. \A i \in 1 .. Len(s) : s[i].tar \in S
  BY <1>1
<1>4. Tars(s) \in Seq(S)
  <2> HIDE DEF S
  <2>1. Tars(s) \in [1 .. Len(s) -> S]
    BY <1>2, <1>3
  <2>2. QED
    BY <1>1, <2>1
<1>5. IsSeq(Tars(s))
  BY <1>4, SeqIn
<1>6. DOMAIN Tars(s) = 1 .. Len(s) /\ Len(Tars(s)) = Len(s)
  BY <1>1, <1>2, <1>5, SeqFacts
<1>7. QED
  BY <1>1, <1>2, <1>5, <1>6

LEMMA PrefixEqual ==
    ASSUME NEW s, NEW t, IsSeq(s), IsSeq(t), NEW n \in Nat, n <= Len(s), n <= Len(t),
           \A i \in 1 .. n : s[i] = t[i]
    PROVE  SubSeq(s, 1, n) = SubSeq(t, 1, n) /\ Len(SubSeq(s, 1, n)) = n
<1>1. /\ Len(s) \in Nat /\ DOMAIN s = 1 .. Len(s) /\ \A i \in DOMAIN s : s[i] \in ToSet(s)
      /\ Len(t) \in Nat /\ DOMAIN t = 1 .. Len(t) /\ \A i \in DOMAIN t : t[i] \in ToSet(t)
  BY SeqFacts
<1>2. 1 \in Int /\ n \in Int
  OBVIOUS
<1>3. (\A i \in 1 .. n : s[i] \in ToSet(s)) /\ (\A i \in 1 .. n : t[i] \in ToSet(t))
  BY <1>1
<1>4. /\ SubSeq(s, 1, n) \in Seq(ToSet(s))
      /\ Len(SubSeq(s, 1, n)) = IF 1 <= n THEN n - 1 + 1 ELSE 0
      /\ \A i \in 1 .. n - 1 + 1 : SubSeq(s, 1, n)[i] = s[1 + i - 1]
  BY <1>2, <1>3, SubSeqProperties
<1>5. /\ SubSeq(t, 1, n) \in Seq(ToSet(t))
      /\ Len(SubSeq(t, 1, n)) = IF 1 <= n THEN n - 1 + 1 ELSE 0
      /\ \A i \in 1 .. n - 1 + 1 : SubSeq(t, 1, n)[i] = t[1 + i - 1]
  BY <1>2, <1>3, SubSeqProperties
<1>6. Len(SubSeq(s, 1, n)) = n /\ Len(SubSeq(t, 1, n)) = n
  BY <1>4, <1>5
<1>7. IsSeq(SubSeq(s, 1, n)) /\ IsSeq(SubSeq(t, 1, n)) /\ DOMAIN SubSeq(s, 1, n) = 1 .. n
  BY <1>4, <1>5, <1>6, SeqIn, SeqFacts
<1>8. \A i \in 1 .. n : SubSeq(s, 1, n)[i] = SubSeq(t, 1, n)[i]
  BY <1>4, <1>5
<1>9. QED
  BY <1>6, <1>7, <1>8, SeqExtensional

(* The layer at place i is over i - 1 layers. *)
LEMMA LowersLength ==
    ASSUME NEW s, IsSeq(s), Stacked(s), NEW i \in DOMAIN s
    PROVE  Len(s[i].tar.lowers) = i - 1
<1>1. IsSeq(Tars(s)) /\ Len(Tars(s)) = Len(s) /\ Len(s) \in Nat /\ DOMAIN s = 1 .. Len(s)
  BY TarsFacts, SeqFacts
<1>2. i - 1 \in Nat /\ i - 1 <= Len(Tars(s))
  BY <1>1
<1>3. Len(SubSeq(Tars(s), 1, i - 1)) = i - 1
  BY <1>1, <1>2, PrefixEqual
<1>4. QED
  BY <1>3 DEF Stacked

(* So a layer over all of the list is not one of it. *)
LEMMA NewIsNotBelow ==
    ASSUME NEW s, IsSeq(s), Stacked(s), NEW l, Len(l.tar.lowers) = Len(s)
    PROVE  l \notin ToSet(s)
<1> SUFFICES ASSUME l \in ToSet(s) PROVE FALSE
  OBVIOUS
<1>1. PICK i \in DOMAIN s : l = s[i]
  BY SeqFacts
<1>2. Len(l.tar.lowers) = i - 1
  BY <1>1, LowersLength
<1>3. i \in 1 .. Len(s) /\ Len(s) \in Nat
  BY SeqFacts
<1>4. QED
  BY <1>2, <1>3

LEMMA StackedFollower ==
    ASSUME NEW s, NEW t, IsSeq(s), IsSeq(t), Stacked(t), Len(s) <= Len(t),
           \A i \in DOMAIN s : s[i].tar = t[i].tar
    PROVE  Stacked(s)
<1>1. /\ IsSeq(Tars(s)) /\ Len(Tars(s)) = Len(s) /\ \A i \in DOMAIN s : Tars(s)[i] = s[i].tar
      /\ IsSeq(Tars(t)) /\ Len(Tars(t)) = Len(t) /\ \A i \in DOMAIN t : Tars(t)[i] = t[i].tar
  BY TarsFacts
<1>2. Len(s) \in Nat /\ DOMAIN s = 1 .. Len(s) /\ Len(t) \in Nat /\ DOMAIN t = 1 .. Len(t)
  BY SeqFacts
<1>3. ASSUME NEW i \in DOMAIN s
      PROVE  s[i].tar.lowers = SubSeq(Tars(s), 1, i - 1)
  <2>1. i - 1 \in Nat /\ i - 1 <= Len(Tars(s)) /\ i - 1 <= Len(Tars(t))
    BY <1>1, <1>2
  <2>2. \A j \in 1 .. i - 1 : Tars(s)[j] = Tars(t)[j]
    BY <1>1, <1>2
  <2>3. SubSeq(Tars(s), 1, i - 1) = SubSeq(Tars(t), 1, i - 1)
    BY <1>1, <2>1, <2>2, PrefixEqual
  <2>4. i \in DOMAIN t
    BY <1>2
  <2>5. QED
    BY <2>3, <2>4 DEF Stacked
<1>4. QED
  BY <1>3 DEF Stacked

LEMMA StackedAppend ==
    ASSUME NEW s, IsSeq(s), Stacked(s), NEW l, l.tar.lowers = Tars(s)
    PROVE  Stacked(Append(s, l)) /\ Tars(Append(s, l)) = Append(Tars(s), l.tar)
<1> DEFINE t == Append(s, l)
<1>1. /\ IsSeq(t) /\ Len(t) = Len(s) + 1 /\ DOMAIN t = 1 .. Len(s) + 1
      /\ \A i \in DOMAIN s : t[i] = s[i]
      /\ t[Len(s) + 1] = l
  BY AppendFacts
<1>2. Len(s) \in Nat /\ DOMAIN s = 1 .. Len(s)
  BY SeqFacts
<1> HIDE DEF t
<1>3. /\ IsSeq(Tars(s)) /\ Len(Tars(s)) = Len(s) /\ DOMAIN Tars(s) = DOMAIN s
      /\ \A i \in DOMAIN s : Tars(s)[i] = s[i].tar
  BY TarsFacts
<1>4. /\ IsSeq(Tars(t)) /\ Len(Tars(t)) = Len(t) /\ DOMAIN Tars(t) = DOMAIN t
      /\ \A i \in DOMAIN t : Tars(t)[i] = t[i].tar
  BY <1>1, TarsFacts
<1>5. \A i \in DOMAIN s : Tars(t)[i] = Tars(s)[i]
  BY <1>1, <1>2, <1>3, <1>4
<1>6. ASSUME NEW i \in 1 .. Len(s) + 1
      PROVE  SubSeq(Tars(t), 1, i - 1) = SubSeq(Tars(s), 1, i - 1)
  <2>1. i - 1 \in Nat /\ i - 1 <= Len(Tars(s)) /\ i - 1 <= Len(Tars(t))
    BY <1>1, <1>2, <1>3, <1>4
  <2>2. \A j \in 1 .. i - 1 : Tars(t)[j] = Tars(s)[j]
    BY <1>2, <1>5
  <2>3. QED
    BY <1>3, <1>4, <2>1, <2>2, PrefixEqual
<1>7. SubSeq(Tars(s), 1, Len(s)) = Tars(s)
  BY <1>3, SubSeqFull DEF IsSeq
<1>8. ASSUME NEW i \in DOMAIN t PROVE t[i].tar.lowers = SubSeq(Tars(t), 1, i - 1)
  <2>1. i \in 1 .. Len(s) + 1
    BY <1>1
  <2>2. CASE i \in DOMAIN s
    BY <1>1, <1>6, <2>1, <2>2 DEF Stacked
  <2>3. CASE i = Len(s) + 1
    <3>1. i - 1 = Len(s)
      BY <1>2, <2>3
    <3>2. t[i] = l
      BY <1>1, <2>3
    <3>3. QED
      BY <1>6, <1>7, <2>1, <3>1, <3>2
  <2>4. QED
    BY <1>2, <2>1, <2>2, <2>3
<1>9. Tars(t) = Append(Tars(s), l.tar)
  <2> DEFINE u == Append(Tars(s), l.tar)
  <2>1. /\ IsSeq(u) /\ Len(u) = Len(s) + 1
        /\ \A i \in DOMAIN s : u[i] = Tars(s)[i]
        /\ u[Len(s) + 1] = l.tar
    BY <1>3, AppendFacts
  <2> HIDE DEF u
  <2>2. ASSUME NEW i \in DOMAIN Tars(t) PROVE Tars(t)[i] = u[i]
    <3>1. i \in 1 .. Len(s) + 1
      BY <1>1, <1>4
    <3>2. CASE i \in DOMAIN s
      BY <1>5, <2>1, <3>2
    <3>3. CASE i = Len(s) + 1
      BY <1>1, <1>4, <2>1, <3>3
    <3>4. QED
      BY <1>2, <3>1, <3>2, <3>3
  <2>3. Tars(t) = u
    BY <1>1, <1>4, <2>1, <2>2, SeqExtensional
  <2>4. QED
    BY <2>3 DEF u
<1>10. Stacked(t)
  BY <1>8 DEF Stacked
<1>11. QED
  BY <1>9, <1>10 DEF t
-----------------------------------------------------------------------------
(***************************************************************************)
(* One image.                                                              *)
(***************************************************************************)
LEMMA InheritedFacts ==
    ASSUME NEW b, b.parent # None => ImageFits(b.parent)
    PROVE  /\ IsSeq(Inherited(b)) /\ Stacked(Inherited(b))
           /\ b.parent = None => Inherited(b) = <<>>
           /\ \A i \in DOMAIN Inherited(b) :
                 /\ b.parent # None /\ LayerOf(Inherited(b)[i])
                 /\ i \in DOMAIN b.parent.layers /\ Inherited(b)[i] = b.parent.layers[i]
           /\ b.parent # None /\ b.upper # None => Inherited(b) = b.parent.layers
<1>1. CASE b.parent = None
  <2>1. Inherited(b) = <<>>
    BY <1>1 DEF Inherited
  <2>2. QED
    BY <1>1, <2>1, EmptyFacts DEF Stacked
<1>2. CASE b.parent # None /\ b.parent.mode = "oci" /\ b.upper = None
  <2>1. Inherited(b) = Front(b.parent.layers)
    BY <1>2 DEF Inherited
  <2>2. /\ IsSeq(b.parent.layers) /\ Stacked(b.parent.layers)
        /\ \A i \in DOMAIN b.parent.layers : LayerOf(b.parent.layers[i])
    BY <1>2 DEF ImageFits
  <2>3. /\ IsSeq(Inherited(b)) /\ Len(Inherited(b)) <= Len(b.parent.layers)
        /\ \A i \in DOMAIN Inherited(b) : /\ i \in DOMAIN b.parent.layers
                                           /\ Inherited(b)[i] = b.parent.layers[i]
    BY <2>1, <2>2, FrontFacts
  <2>4. \A i \in DOMAIN Inherited(b) : Inherited(b)[i].tar = b.parent.layers[i].tar
    BY <2>3
  <2>5. Stacked(Inherited(b))
    BY <2>2, <2>3, <2>4, StackedFollower
  <2>6. QED
    BY <1>2, <2>2, <2>3, <2>5
<1>3. CASE b.parent # None /\ ~(b.parent.mode = "oci" /\ b.upper = None)
  <2>1. Inherited(b) = b.parent.layers
    BY <1>3 DEF Inherited
  <2>2. QED
    BY <1>3, <2>1 DEF ImageFits
<1>4. QED
  BY <1>1, <1>2, <1>3

(* What has been copied is a list of layers, each over those before it.    *)
LEMMA FollowerFacts ==
    ASSUME NEW b, NEW c, BuildFits(b, c)
    PROVE  /\ IsSeq(b.layers) /\ Stacked(b.layers)
           /\ Len(b.layers) = Len(Inherited(b)) => Tars(b.layers) = Tars(Inherited(b))
<1>1. b.parent # None => ImageFits(b.parent)
  BY DEF BuildFits
<1>2. IsSeq(Inherited(b)) /\ Stacked(Inherited(b))
  BY <1>1, InheritedFacts
<1>3. /\ IsSeq(b.layers) /\ Len(b.layers) <= Len(Inherited(b))
      /\ \A i \in DOMAIN b.layers : b.layers[i].tar = Inherited(b)[i].tar
  BY DEF BuildFits, Follows
<1>4. Stacked(b.layers)
  BY <1>2, <1>3, StackedFollower
<1>5. ASSUME Len(b.layers) = Len(Inherited(b)) PROVE Tars(b.layers) = Tars(Inherited(b))
  <2>1. /\ IsSeq(Tars(b.layers)) /\ Len(Tars(b.layers)) = Len(b.layers)
        /\ DOMAIN Tars(b.layers) = DOMAIN b.layers
        /\ \A i \in DOMAIN b.layers : Tars(b.layers)[i] = b.layers[i].tar
    BY <1>3, TarsFacts
  <2>2. /\ IsSeq(Tars(Inherited(b))) /\ Len(Tars(Inherited(b))) = Len(Inherited(b))
        /\ \A i \in DOMAIN Inherited(b) : Tars(Inherited(b))[i] = Inherited(b)[i].tar
    BY <1>2, TarsFacts
  <2>3. DOMAIN b.layers = DOMAIN Inherited(b)
    BY <1>2, <1>3, <1>5, SeqFacts
  <2>4. \A i \in DOMAIN Tars(b.layers) : Tars(b.layers)[i] = Tars(Inherited(b))[i]
    BY <1>3, <2>1, <2>2, <2>3
  <2>5. QED
    BY <1>5, <2>1, <2>2, <2>4, SeqExtensional
<1>6. QED
  BY <1>3, <1>4, <1>5

(* If no image was relabelled, what has been copied is as it is described. *)
LEMMA CopiesAsDescribed ==
    ASSUME NEW b, NEW c, BuildFits(b, c), ~Relabels(b), NEW i \in DOMAIN b.layers
    PROVE  IsAsDescribed(b.layers[i])
<1>1. /\ IsSeq(b.layers) /\ Len(b.layers) <= Len(Inherited(b)) /\ LayerOf(b.layers[i])
      /\ b.layers[i].mediaType = IF c.gzip THEN "tar+gzip" ELSE "tar"
      /\ b.parent.mode = "docker" => ~c.gzip /\ b.layers[i].gzip = Inherited(b)[i].gzip
      /\ b.parent.mode = "oci" /\ IsAsDescribed(Inherited(b)[i]) => IsAsDescribed(b.layers[i])
  BY DEF BuildFits, Follows
<1>2. /\ IsSeq(Inherited(b))
      /\ \A j \in DOMAIN Inherited(b) :
            /\ b.parent # None /\ LayerOf(Inherited(b)[j])
            /\ j \in DOMAIN b.parent.layers /\ Inherited(b)[j] = b.parent.layers[j]
  BY InheritedFacts DEF BuildFits
<1>3. i \in DOMAIN Inherited(b)
  BY <1>1, <1>2, SeqFacts
<1>4. /\ b.parent # None /\ ImageFits(b.parent) /\ i \in DOMAIN b.parent.layers
      /\ Inherited(b)[i] = b.parent.layers[i] /\ LayerOf(b.parent.layers[i])
  BY <1>2, <1>3 DEF BuildFits
<1>5. b.parent.mode \in {"oci", "docker"} /\ IsAsDescribed(b.parent.layers[i])
  BY <1>4 DEF ImageFits, Relabels
<1>6. CASE b.parent.mode = "docker"
  <2>1. ~ b.parent.layers[i].gzip > 0
    BY <1>4, <1>6 DEF Relabels, ToSet
  <2>2. b.layers[i].gzip = 0
    BY <1>1, <1>4, <1>6, <2>1 DEF LayerOf
  <2>3. b.layers[i].mediaType = "tar"
    BY <1>1, <1>6
  <2>4. QED
    BY <2>2, <2>3 DEF IsAsDescribed
<1>7. CASE b.parent.mode = "oci"
  BY <1>1, <1>4, <1>5, <1>7
<1>8. QED
  BY <1>5, <1>6, <1>7

(* The history gets one entry, and an entry of a layer where the image     *)
(* gets a diff id.                                                         *)
LEMMA HistoryFacts ==
    ASSUME NEW h, IsSeq(h), NEW e
    PROVE  /\ IsSeq(Append(h, e))
           /\ Cardinality(LayerEntries(h)) \in Nat
           /\ Cardinality(LayerEntries(Append(h, e))) =
                 Cardinality(LayerEntries(h)) + IF e = "layer" THEN 1 ELSE 0
<1> DEFINE g == Append(h, e)
           n == Len(h) + 1
<1>1. /\ IsSeq(g) /\ DOMAIN g = 1 .. n /\ (\A i \in DOMAIN h : g[i] = h[i]) /\ g[n] = e
  BY AppendFacts
<1>2. Len(h) \in Nat /\ DOMAIN h = 1 .. Len(h)
  BY SeqFacts
<1> HIDE DEF g
<1>3. DOMAIN g = DOMAIN h \cup {n} /\ n \notin DOMAIN h
  BY <1>1, <1>2
<1>4. IsFiniteSet(LayerEntries(h))
  <2>1. IsFiniteSet(1 .. Len(h))
    BY <1>2, FS_Interval
  <2>2. LayerEntries(h) \in SUBSET (1 .. Len(h))
    BY <1>2 DEF LayerEntries
  <2>3. QED
    BY <2>1, <2>2, FS_Subset
<1>5. n \notin LayerEntries(h) /\ Cardinality(LayerEntries(h)) \in Nat
  BY <1>3, <1>4, FS_CardinalityType DEF LayerEntries
<1>6. CASE e = "layer"
  <2>1. LayerEntries(g) = LayerEntries(h) \cup {n}
    BY <1>1, <1>3, <1>6 DEF LayerEntries
  <2>2. Cardinality(LayerEntries(h) \cup {n}) = Cardinality(LayerEntries(h)) + 1
    BY <1>4, <1>5, FS_AddElement
  <2>3. QED
    BY <1>1, <1>5, <1>6, <2>1, <2>2 DEF g
<1>7. CASE e # "layer"
  <2>1. LayerEntries(g) = LayerEntries(h)
    BY <1>1, <1>3, <1>7 DEF LayerEntries
  <2>2. QED
    BY <1>1, <1>5, <1>7, <2>1 DEF g
<1>8. QED
  BY <1>6, <1>7

(* Writing the metadata of a new layer leaves the links of others alone.   *)
LEMMA LinkedKept ==
    ASSUME NEW layers, NEW tag, NEW e, NEW p, ToSet(layers) \subseteq DOMAIN legacy,
           e \notin DOMAIN legacy, Linked(layers, tag, legacy)
    PROVE  Linked(layers, tag, WithParent(e, p))
<1>1. \A l \in DOMAIN legacy : WithParent(e, p)[l] = legacy[l]
  BY DEF WithParent
<1>2. \A i \in DOMAIN layers : WithParent(e, p)[layers[i]] = legacy[layers[i]]
  BY <1>1 DEF ToSet
<1>3. QED
  BY <1>2 DEF Linked, Chained

(* A new layer whose parent is the tag of the layers below continues them. *)
LEMMA LinkedAppend ==
    ASSUME NEW layers, IsSeq(layers), ToSet(layers) \subseteq DOMAIN legacy,
           NEW tag, Linked(layers, tag, legacy),
           NEW e, e \notin DOMAIN legacy, NEW p, NEW new,
           e.mediaType = "tar" => p = tag /\ new = e
    PROVE  Linked(Append(layers, e), new, WithParent(e, p))
<1> DEFINE longer == Append(layers, e)
           n == Len(layers) + 1
<1>1. /\ longer # <<>> /\ Len(longer) = n /\ DOMAIN longer = 1 .. n
      /\ (\A i \in DOMAIN layers : longer[i] = layers[i]) /\ longer[n] = e
      /\ ToSet(longer) = ToSet(layers) \cup {e}
  BY AppendFacts
<1>2. Len(layers) \in Nat /\ DOMAIN layers = 1 .. Len(layers)
  BY SeqFacts
<1> HIDE DEF longer
<1>3. SUFFICES ASSUME \A l \in ToSet(longer) : l.mediaType = "tar"
               PROVE  Chained(longer, new, WithParent(e, p))
  BY DEF Linked, longer
<1>4. Chained(layers, tag, WithParent(e, p)) /\ p = tag /\ new = e
  <2>1. Linked(layers, tag, WithParent(e, p))
    BY LinkedKept
  <2>2. QED
    BY <1>1, <1>3, <2>1 DEF Linked
<1>5. new = Last(longer)
  BY <1>1, <1>4 DEF Last
<1>6. WithParent(e, p)[e] = p
  BY DEF WithParent
<1>7. ASSUME NEW i \in DOMAIN longer
      PROVE  WithParent(e, p)[longer[i]] = IF i = 1 THEN None ELSE longer[i - 1]
  <2>1. CASE i \in DOMAIN layers
    <3>1. i = 1 \/ i - 1 \in DOMAIN layers
      BY <1>2, <2>1
    <3>2. QED
      BY <1>1, <1>4, <2>1, <3>1 DEF Chained
  <2>2. CASE i = n
    <3>1. p = IF layers = <<>> THEN None ELSE Last(layers)
      BY <1>4 DEF Chained
    <3>2. CASE Len(layers) = 0
      <4>1. layers = <<>>
        BY <1>2, <3>2, EmptyFacts, SeqExtensional
      <4>2. QED
        BY <1>1, <1>6, <2>2, <3>1, <3>2, <4>1
    <3>3. CASE Len(layers) > 0
      <4>1. layers # <<>> /\ i # 1 /\ i - 1 = Len(layers) /\ i - 1 \in DOMAIN layers
        BY <1>2, <2>2, <3>3, EmptyFacts
      <4>2. longer[i - 1] = Last(layers)
        BY <1>1, <4>1 DEF Last
      <4>3. QED
        BY <1>1, <1>6, <2>2, <3>1, <4>1, <4>2
    <3>4. QED
      BY <1>2, <3>2, <3>3
  <2>3. QED
    BY <1>1, <1>2, <2>1, <2>2
<1>8. QED
  BY <1>1, <1>5, <1>7 DEF Chained
-----------------------------------------------------------------------------
(***************************************************************************)
(* The steps of a run.                                                     *)
(***************************************************************************)
(* What CreateBlob needs of the directory, and what it does to the links.  *)
LEMMA CreateFacts ==
    ASSUME IInv, conf # None, NEW l, NEW p, CreateBlob(l, p)
    PROVE  /\ blobs' = blobs \cup {l}
           /\ conf.mode = "docker" => /\ DOMAIN legacy = blobs /\ l \notin DOMAIN legacy
                                      /\ legacy' = WithParent(l, p)
                                      /\ DOMAIN legacy' = blobs'
  BY DEF IInv, Directory, CreateBlob, CanCreate, WithParent

(* The links of the images of the run survive CreateBlob. *)
LEMMA ImagesStayLinked ==
    ASSUME IInv, conf # None, conf.mode = "docker", NEW l, NEW p, CreateBlob(l, p),
           NEW im \in ToSet(images), ~im.fromDocker
    PROVE  Linked(im.layers, im.tag, legacy')
<1>1. ToSet(im.layers) \subseteq blobs /\ Linked(im.layers, im.tag, legacy)
  BY DEF IInv, Directory, ImageLayers, LinkedSoFar
<1>2. QED
  BY <1>1, CreateFacts, LinkedKept

(* One layer of the parent is copied. *)
LEMMA CopyStep ==
    ASSUME IInv, Importing, NEW l, NEW p, CreateBlob(l, p), AddDescriptor(l), LayerOf(l),
           l.tar = NextLayer.tar, l.mediaType = MediaType,
           build.parent.mode = "docker" => ~conf.gzip /\ l.gzip = NextLayer.gzip,
           build.parent.mode = "oci" => p = LegacyParent,
           IsAsDescribed(NextLayer) /\ build.parent.mode = "oci" => IsAsDescribed(l)
    PROVE  IInv'
<1> DEFINE b == build
           n == Len(build.layers) + 1
<1>1. conf # None /\ conf \in Confs /\ BuildFits(b, conf) /\ build.pc = "build_image"
  BY DEF IInv, Settings, NoImage, Locals, BuildFit, Importing
<1>2. /\ build' = [build EXCEPT !.layers = Append(@, l), !.legacyParent = LegacyId(l)]
      /\ UNCHANGED <<outputs, conf, images, failure>>
  BY DEF AddDescriptor
<1>3. /\ IsBuild(build') /\ build'.layers = Append(b.layers, l)
      /\ build'.legacyParent = LegacyId(l)
      /\ build'.pc = b.pc /\ build'.parent = b.parent /\ build'.upper = b.upper
      /\ build'.diffIds = b.diffIds /\ build'.history = b.history
  BY <1>1, <1>2 DEF BuildFits, IsBuild
<1>4. Inherited(build') = Inherited(b)
  BY <1>3 DEF Inherited
<1>5. /\ IsSeq(b.layers) /\ IsSeq(Inherited(b)) /\ Len(b.layers) < Len(Inherited(b))
      /\ \A i \in DOMAIN Inherited(b) : b.parent # None
  BY <1>1, InheritedFacts DEF BuildFits, Follows, Importing
<1>6. /\ Len(b.layers) \in Nat /\ DOMAIN b.layers = 1 .. Len(b.layers)
      /\ Len(Inherited(b)) \in Nat /\ DOMAIN Inherited(b) = 1 .. Len(Inherited(b))
  BY <1>5, SeqFacts
<1>7. n \in DOMAIN Inherited(b) /\ NextLayer = Inherited(b)[n] /\ n <= Len(Inherited(b))
  BY <1>5, <1>6 DEF NextLayer
<1>8. b.parent # None /\ b.parent.mode \in {"oci", "docker"}
  BY <1>1, <1>5, <1>7 DEF BuildFits, ImageFits
<1>9. /\ IsSeq(build'.layers) /\ Len(build'.layers) = n /\ DOMAIN build'.layers = 1 .. n
      /\ (\A i \in DOMAIN b.layers : build'.layers[i] = b.layers[i]) /\ build'.layers[n] = l
      /\ ToSet(build'.layers) = ToSet(b.layers) \cup {l}
  BY <1>3, <1>5, AppendFacts
<1>10. ASSUME NEW i \in DOMAIN build'.layers
       PROVE  /\ LayerOf(build'.layers[i]) /\ build'.layers[i].tar = Inherited(b)[i].tar
              /\ build'.layers[i].mediaType = IF conf.gzip THEN "tar+gzip" ELSE "tar"
              /\ b.parent.mode = "docker" =>
                    ~conf.gzip /\ build'.layers[i].gzip = Inherited(b)[i].gzip
              /\ b.parent.mode = "oci" /\ IsAsDescribed(Inherited(b)[i])
                    => IsAsDescribed(build'.layers[i])
  <2>1. CASE i \in DOMAIN b.layers
    <3>1. build'.layers[i] = b.layers[i]
      BY <1>9, <2>1
    <3>2. QED
      BY <1>1, <2>1, <3>1 DEF BuildFits, Follows
  <2>2. CASE i = n
    BY <1>7, <1>9, <2>2 DEF MediaType
  <2>3. QED
    BY <1>6, <1>9, <2>1, <2>2
<1> HIDE DEF b, n
<1>11. Follows(build', conf)
  BY <1>3, <1>4, <1>7, <1>9, <1>10 DEF Follows
<1>12. BuildFits(build', conf)
  BY <1>1, <1>3, <1>8, <1>11 DEF BuildFits, b
<1>13. BuildFit' /\ Settings' /\ AreSequences' /\ ImagesFit'
  BY <1>1, <1>2, <1>3, <1>12 DEF BuildFit, Settings, IInv, AreSequences, ImagesFit, AllImages, Finished
<1>15. Directory'
  BY <1>1, <1>2, <1>9, CreateFacts DEF IInv, Directory, ImageLayers, b
<1>16. ASSUME conf.mode = "docker", ~FromDocker(build')
       PROVE  Linked(build'.layers, build'.legacyParent, legacy')
  <2>1. b.parent.mode = "oci"
    BY <1>3, <1>8, <1>16 DEF FromDocker
  <2>2. Linked(b.layers, b.legacyParent, legacy)
    BY <1>1, <1>16, <2>1 DEF IInv, LinkedSoFar, FromDocker, b
  <2>3. ToSet(b.layers) \subseteq DOMAIN legacy
    BY <1>1, <1>16, CreateFacts DEF IInv, Directory, b
  <2>4. l.mediaType = "tar" => p = b.legacyParent
    BY <2>1 DEF LegacyParent, MediaType, b
  <2>5. build'.legacyParent = l
    BY <1>3, <1>16 DEF LegacyId
  <2>6. QED
    BY <1>1, <1>3, <1>5, <1>16, <2>2, <2>3, <2>4, <2>5, CreateFacts, LinkedAppend
<1>17. LinkedSoFar'
  BY <1>1, <1>2, <1>16, ImagesStayLinked DEF LinkedSoFar, FromDocker
<1>18. LegacyChain' /\ FailsOnlyWhereKnown'
  BY <1>2 DEF IInv, LegacyChain, FailsOnlyWhereKnown
<1>19. QED
  BY <1>13, <1>15, <1>17, <1>18 DEF IInv

LEMMA NextLayerOf ==
    ASSUME IInv, Importing
    PROVE  LayerOf(NextLayer)
<1>1. BuildFits(build, conf)
  BY DEF IInv, BuildFit
<1>2. /\ IsSeq(build.layers) /\ IsSeq(Inherited(build))
      /\ \A i \in DOMAIN Inherited(build) : LayerOf(Inherited(build)[i])
  BY <1>1, InheritedFacts DEF BuildFits, Follows
<1>3. Len(build.layers) + 1 \in DOMAIN Inherited(build)
  BY <1>2, SeqFacts DEF Importing
<1>4. QED
  BY <1>2, <1>3 DEF NextLayer

LEMMA ImportDockerStep == IInv /\ ImportDockerLayer => IInv'
<1> SUFFICES ASSUME IInv, ImportDockerLayer PROVE IInv'
  OBVIOUS
<1> DEFINE l == Copied(NextLayer)
<1>1. /\ Importing /\ build.parent.mode = "docker" /\ ~conf.gzip
      /\ CreateBlob(l, None) /\ AddDescriptor(l)
  BY DEF ImportDockerLayer
<1>2. LayerOf(NextLayer)
  BY <1>1, NextLayerOf
<1>3. /\ LayerOf(l) /\ l.tar = NextLayer.tar /\ l.gzip = NextLayer.gzip
      /\ l.mediaType = MediaType
  BY <1>1, <1>2 DEF LayerOf, Layer, Copied, MediaType
<1>4. build.parent.mode # "oci"
  BY <1>1
<1> HIDE DEF l
<1>5. QED
  BY <1>1, <1>3, <1>4, CopyStep

(* A layer that is as described is so again. *)
LEMMA RecompressedFacts ==
    ASSUME NEW layer, LayerOf(layer), conf.gzip \in BOOLEAN
    PROVE  /\ CanExpand(layer)
           /\ LayerOf(Recompressed(layer)) /\ Recompressed(layer).tar = layer.tar
           /\ Recompressed(layer).mediaType = MediaType
           /\ IsAsDescribed(layer) => IsAsDescribed(Recompressed(layer))
<1>1. layer.gzip \in Nat /\ layer.mediaType \in {"tar", "tar+gzip"}
      /\ (layer.mediaType = "tar+gzip" => layer.gzip > 0)
  BY DEF LayerOf
<1>2. CanExpand(layer)
  BY <1>1 DEF CanExpand
<1>3. CASE layer.mediaType = MediaType
  <2>1. Recompressed(layer) = Layer(layer.tar, layer.gzip, MediaType)
    BY <1>3 DEF Recompressed
  <2>2. QED
    BY <1>1, <1>2, <1>3, <2>1 DEF Layer, LayerOf, IsAsDescribed
<1>4. CASE layer.mediaType # MediaType /\ conf.gzip
  <2>1. Recompressed(layer) = Layer(layer.tar, layer.gzip + 1, MediaType)
    BY <1>4 DEF Recompressed
  <2>2. MediaType = "tar+gzip" /\ layer.mediaType = "tar"
    BY <1>1, <1>4 DEF MediaType
  <2>3. QED
    BY <1>1, <1>2, <2>1, <2>2 DEF Layer, LayerOf, IsAsDescribed
<1>5. CASE layer.mediaType # MediaType /\ ~conf.gzip
  <2>1. Recompressed(layer) = Layer(layer.tar, layer.gzip - 1, MediaType)
    BY <1>5 DEF Recompressed
  <2>2. MediaType = "tar" /\ layer.mediaType = "tar+gzip"
    BY <1>1, <1>5 DEF MediaType
  <2>3. QED
    BY <1>1, <1>2, <2>1, <2>2 DEF Layer, LayerOf, IsAsDescribed
<1>6. QED
  BY <1>3, <1>4, <1>5

LEMMA ImportOciStep == IInv /\ ImportOciLayer => IInv'
<1> SUFFICES ASSUME IInv, ImportOciLayer PROVE IInv'
  OBVIOUS
<1> DEFINE l == Recompressed(NextLayer)
<1>1. /\ Importing /\ build.parent.mode = "oci"
      /\ CreateBlob(l, LegacyParent) /\ AddDescriptor(l)
  BY DEF ImportOciLayer
<1>2. conf.gzip \in BOOLEAN
  BY <1>1, ConfsAssumption DEF IInv, Settings, NoImage, Locals, Importing
<1>3. /\ LayerOf(l) /\ l.tar = NextLayer.tar /\ l.mediaType = MediaType
      /\ IsAsDescribed(NextLayer) => IsAsDescribed(l)
  BY <1>1, <1>2, NextLayerOf, RecompressedFacts
<1>4. build.parent.mode # "docker"
  BY <1>1
<1> HIDE DEF l
<1>5. QED
  BY <1>1, <1>3, <1>4, CopyStep

LEMMA NoImageFacts ==
    /\ NoImage.pc = "build_images" /\ NoImage.parent = None /\ NoImage.layers = <<>>
    /\ NoImage.legacyParent = None
    /\ \A c : BuildFits(NoImage, c)
<1>1. NoImage = [pc |-> "build_images", parent |-> None, upper |-> None, layers |-> <<>>,
                 legacyParent |-> None, diffIds |-> <<>>, history |-> <<>>]
  BY DEF NoImage, Locals
<1>2. IsBuild(NoImage) /\ Inherited(NoImage) = <<>>
  BY <1>1 DEF IsBuild, Inherited
<1>3. \A c : Follows(NoImage, c)
  BY <1>1, <1>2, EmptyFacts DEF Follows
<1>4. QED
  BY <1>1, <1>2, <1>3 DEF BuildFits

LEMMA EmptyLinked == \A parentOf : Linked(<<>>, None, parentOf)
  BY EmptyFacts DEF Linked, Chained

(* A directory without images. *)
LEMMA FreshDirectory ==
    ASSUME build' = NoImage, blobs' = {}, legacy' = <<>>, images' = <<>>
    PROVE  Directory' /\ LinkedSoFar' /\ BuildFit' /\ IsSeq(images')
<1>1. ToSet(images') = {} /\ ToSet(build'.layers) = {} /\ DOMAIN legacy' = {} /\ IsSeq(images')
  BY NoImageFacts, EmptyFacts
<1>2. ImageLayers' = {}
  BY <1>1 DEF ImageLayers
<1>3. Directory'
  BY <1>1, <1>2 DEF Directory
<1>4. Linked(build'.layers, build'.legacyParent, legacy')
  BY NoImageFacts, EmptyLinked
<1>5. LinkedSoFar'
  BY <1>1, <1>4 DEF LinkedSoFar
<1>6. BuildFit'
  BY NoImageFacts DEF BuildFit
<1>7. QED
  BY <1>1, <1>3, <1>5, <1>6

LEMMA StartRunStep == ASSUME IInv, NEW c \in Confs, StartRun(c) PROVE IInv'
<1>1. /\ conf = None /\ conf' = c /\ blobs' = {} /\ legacy' = <<>> /\ images' = <<>>
      /\ UNCHANGED <<outputs, build, failure>>
  BY DEF StartRun
<1>2. build' = NoImage
  BY <1>1 DEF IInv, Settings
<1>3. Directory' /\ LinkedSoFar' /\ BuildFit' /\ IsSeq(images')
  BY <1>1, <1>2, FreshDirectory
<1>4. Settings' /\ AreSequences'
  BY <1>1, <1>2, <1>3 DEF IInv, Settings, AreSequences
<1>5. ImagesFit'
  BY <1>1, EmptyFacts DEF IInv, ImagesFit, AllImages, Finished
<1>6. LegacyChain' /\ FailsOnlyWhereKnown'
  BY <1>1 DEF IInv, LegacyChain, FailsOnlyWhereKnown
<1>7. QED
  BY <1>3, <1>4, <1>5, <1>6 DEF IInv

LEMMA StartImageStep ==
    ASSUME IInv, NEW parent \in Parents, NEW added, StartImage(parent, added)
    PROVE  IInv'
<1>1. /\ conf # None /\ build.pc = "build_images" /\ build' = Locals("build_image", parent, added)
      /\ UNCHANGED <<outputs, conf, blobs, legacy, images, failure>>
  BY DEF StartImage
<1>2. parent # None => ImageFits(parent)
  BY DEF IInv, ImagesFit, AllImages, Parents
<1>3. /\ IsBuild(build') /\ build'.pc = "build_image" /\ build'.parent = parent
      /\ build'.layers = <<>> /\ build'.legacyParent = None
      /\ parent = None => build'.diffIds = <<>> /\ build'.history = <<>>
      /\ parent # None => build'.diffIds = parent.diffIds /\ build'.history = parent.history
  BY <1>1 DEF Locals, IsBuild
<1>4. Follows(build', conf)
  <2>1. IsSeq(Inherited(build')) /\ Len(Inherited(build')) \in Nat
    BY <1>2, <1>3, InheritedFacts, SeqFacts
  <2>2. QED
    BY <1>3, <2>1, EmptyFacts DEF Follows
<1>5. BuildFit'
  BY <1>1, <1>2, <1>3, <1>4 DEF BuildFit, BuildFits
<1>6. Linked(build'.layers, build'.legacyParent, legacy)
  BY <1>3, EmptyLinked
<1>7. ToSet(build.layers) = {} /\ ToSet(build'.layers) = {}
  BY <1>1, <1>3, NoImageFacts, EmptyFacts DEF IInv, Settings
<1>8. Directory' /\ LinkedSoFar'
  BY <1>1, <1>6, <1>7 DEF IInv, Directory, ImageLayers, LinkedSoFar
<1>9. Settings' /\ AreSequences' /\ ImagesFit' /\ LegacyChain' /\ FailsOnlyWhereKnown'
  BY <1>1, <1>3 DEF IInv, Settings, AreSequences, ImagesFit, AllImages, Finished, LegacyChain,
                    FailsOnlyWhereKnown
<1>10. QED
  BY <1>5, <1>8, <1>9 DEF IInv

LEMMA FinishRunStep == IInv /\ FinishRun => IInv'
<1> SUFFICES ASSUME IInv, FinishRun PROVE IInv'
  OBVIOUS
<1> DEFINE out == [mode |-> conf.mode, images |-> images, legacy |-> legacy]
           n   == Len(outputs) + 1
<1>1. /\ conf # None /\ build.pc = "build_images" /\ outputs' = Append(outputs, out)
      /\ conf' = None /\ blobs' = {} /\ legacy' = <<>> /\ images' = <<>>
      /\ UNCHANGED <<build, failure>>
  BY DEF FinishRun
<1>2. build' = NoImage
  BY <1>1 DEF IInv, Settings
<1>3. Directory' /\ LinkedSoFar' /\ BuildFit' /\ IsSeq(images') /\ ToSet(images') = {}
  BY <1>1, <1>2, FreshDirectory, EmptyFacts
<1>4. IsSeq(outputs) /\ Len(outputs) \in Nat /\ DOMAIN outputs = 1 .. Len(outputs)
  BY SeqFacts DEF IInv, AreSequences
<1>5. /\ IsSeq(outputs') /\ DOMAIN outputs' = DOMAIN outputs \cup {n}
      /\ (\A k \in DOMAIN outputs : outputs'[k] = outputs[k])
      /\ outputs'[n].images = images /\ outputs'[n].mode = conf.mode
      /\ outputs'[n].legacy = legacy
  <2>1. /\ IsSeq(outputs') /\ DOMAIN outputs' = 1 .. n
        /\ (\A k \in DOMAIN outputs : outputs'[k] = outputs[k]) /\ outputs'[n] = out
    BY <1>1, <1>4, AppendFacts
  <2>2. QED
    BY <1>4, <2>1
<1> HIDE DEF out, n
<1>6. AreSequences' /\ Settings'
  BY <1>1, <1>2, <1>3, <1>5 DEF IInv, AreSequences, Settings
<1>7. ASSUME NEW im \in AllImages' PROVE im \in AllImages
  <2>1. PICK k \in DOMAIN outputs' : im \in ToSet(outputs'[k].images)
    BY <1>3 DEF AllImages, Finished
  <2>2. CASE k \in DOMAIN outputs
    BY <1>5, <2>1, <2>2 DEF AllImages, Finished
  <2>3. CASE k = n
    <3>1. im \in ToSet(images)
      BY <1>5, <2>1, <2>3
    <3>2. QED
      BY <3>1 DEF AllImages
  <2>4. QED
    BY <1>5, <2>2, <2>3
<1>8. ImagesFit'
  BY <1>7 DEF IInv, ImagesFit
<1>9. ASSUME NEW im \in ToSet(images), conf.mode = "docker", ~im.fromDocker,
             \A l \in ToSet(im.layers) : l.mediaType = "tar"
      PROVE  Chained(im.layers, im.tag, legacy)
  BY <1>1, <1>9 DEF IInv, LinkedSoFar, Linked
<1>10. ASSUME NEW k \in DOMAIN outputs', NEW im \in ToSet(outputs'[k].images),
              outputs'[k].mode = "docker", ~im.fromDocker,
              \A l \in ToSet(im.layers) : l.mediaType = "tar"
       PROVE  Chained(im.layers, im.tag, outputs'[k].legacy)
  <2>1. CASE k \in DOMAIN outputs
    BY <1>5, <1>10, <2>1 DEF IInv, LegacyChain
  <2>2. CASE k = n
    BY <1>5, <1>9, <1>10, <2>2
  <2>3. QED
    BY <1>5, <2>1, <2>2
<1>11. LegacyChain'
  BY <1>10 DEF LegacyChain
<1>12. FailsOnlyWhereKnown'
  BY <1>1 DEF IInv, FailsOnlyWhereKnown
<1>13. QED
  BY <1>3, <1>6, <1>8, <1>11, <1>12 DEF IInv
(* An image is added that fits, over the directory of its layers. *)
LEMMA ImageAdded ==
    ASSUME IInv, conf # None, NEW im, ImageFits(im),
           images' = Append(images, im), build' = NoImage, UNCHANGED <<outputs, conf, failure>>,
           ToSet(build.layers) \subseteq ToSet(im.layers),
           blobs' = blobs \cup ToSet(im.layers),
           conf.mode = "docker" =>
               /\ DOMAIN legacy' = blobs'
               /\ \A other \in ToSet(images) :
                     ~other.fromDocker => Linked(other.layers, other.tag, legacy')
               /\ ~im.fromDocker => Linked(im.layers, im.tag, legacy')
    PROVE  IInv'
<1>1. IsSeq(images') /\ ToSet(images') = ToSet(images) \cup {im}
  BY AppendFacts DEF IInv, AreSequences
<1>2. AllImages' = AllImages \cup {im}
  <2>1. Finished' = Finished
    BY DEF Finished
  <2>2. QED
    BY <1>1, <2>1 DEF AllImages
<1>3. ImagesFit'
  BY <1>2 DEF IInv, ImagesFit
<1>4. AreSequences' /\ Settings' /\ BuildFit'
  BY <1>1, NoImageFacts DEF IInv, AreSequences, Settings, BuildFit
<1>5. ImageLayers' = ImageLayers \cup ToSet(im.layers)
  BY <1>1 DEF ImageLayers
<1>6. ToSet(build'.layers) = {} /\ Linked(build'.layers, build'.legacyParent, legacy')
  BY NoImageFacts, EmptyFacts, EmptyLinked
<1>7. Directory'
  <2>1. ASSUME NEW l \in blobs' PROVE l \in ImageLayers'
    BY <1>5 DEF IInv, Directory
  <2>2. ImageLayers' \subseteq blobs'
    BY <1>5 DEF IInv, Directory
  <2>3. QED
    BY <1>6, <2>1, <2>2 DEF Directory
<1>8. LinkedSoFar'
  BY <1>1, <1>6 DEF LinkedSoFar
<1>9. LegacyChain' /\ FailsOnlyWhereKnown'
  BY DEF IInv, LegacyChain, FailsOnlyWhereKnown
<1>10. QED
  BY <1>3, <1>4, <1>7, <1>8, <1>9 DEF IInv

LEMMA BuildFacts ==
    ASSUME IInv, Imported
    PROVE  /\ conf # None /\ conf \in Confs /\ conf.mode \in {"oci", "docker"}
           /\ conf.gzip \in BOOLEAN /\ IsBuild(build) /\ BuildFits(build, conf)
           /\ IsSeq(build.layers) /\ Stacked(build.layers)
           /\ \A i \in DOMAIN build.layers : LayerOf(build.layers[i])
           /\ ~Relabels(build) => \A i \in DOMAIN build.layers : IsAsDescribed(build.layers[i])
           /\ IsSeq(build.diffIds) /\ IsSeq(build.history)
           /\ Cardinality(LayerEntries(build.history)) = Len(build.diffIds)
           /\ (build.parent # None => build.upper # None /\ ~build.parent.incomplete)
                => Tars(build.layers) = build.diffIds
<1>1. conf # None /\ conf \in Confs /\ BuildFits(build, conf) /\ build.pc = "build_image"
  BY DEF IInv, Settings, NoImage, Locals, BuildFit, Imported
<1>2. conf.mode \in {"oci", "docker"} /\ conf.gzip \in BOOLEAN
  BY <1>1, ConfsAssumption
<1>3. /\ IsSeq(build.layers) /\ Stacked(build.layers)
      /\ Tars(build.layers) = Tars(Inherited(build))
  BY <1>1, FollowerFacts DEF Imported
<1>4. /\ IsBuild(build) /\ \A i \in DOMAIN build.layers : LayerOf(build.layers[i])
      /\ ~Relabels(build) => \A i \in DOMAIN build.layers : IsAsDescribed(build.layers[i])
  BY <1>1, CopiesAsDescribed DEF BuildFits, Follows
<1>5. CASE build.parent = None
  <2>1. build.diffIds = <<>> /\ build.history = <<>> /\ Inherited(build) = <<>>
    BY <1>1, <1>5 DEF BuildFits, Inherited
  <2>2. LayerEntries(<<>>) = {} /\ IsSeq(<<>>)
    BY EmptyFacts DEF LayerEntries
  <2>3. Cardinality(LayerEntries(build.history)) = Len(build.diffIds)
    BY <2>1, <2>2, FS_EmptySet, EmptyFacts
  <2>4. Tars(<<>>) = <<>>
    BY EmptyFacts, TarsFacts, SeqExtensional
  <2>5. QED
    BY <1>1, <1>2, <1>3, <1>4, <2>1, <2>2, <2>3, <2>4
<1>6. CASE build.parent # None
  <2>1. /\ ImageFits(build.parent)
        /\ build.diffIds = build.parent.diffIds /\ build.history = build.parent.history
    BY <1>1, <1>6 DEF BuildFits
  <2>2. build.upper # None => Inherited(build) = build.parent.layers
    BY <1>6 DEF Inherited
  <2>3. QED
    BY <1>1, <1>2, <1>3, <1>4, <1>6, <2>1, <2>2 DEF ImageFits
<1>7. QED
  BY <1>5, <1>6

LEMMA BuildLayerStep == IInv /\ BuildLayer => IInv'
<1> SUFFICES ASSUME IInv, BuildLayer PROVE IInv'
  OBVIOUS
<1> DEFINE l  == NewLayer
           b  == [build EXCEPT !.layers = Append(@, l), !.diffIds = Append(@, l.tar),
                               !.legacyParent = IF conf.gzip THEN @ ELSE LegacyId(l)]
           im == Image([b EXCEPT !.history = Append(@, HistoryEntry(b.upper))])
<1>1. /\ Imported /\ build.upper # None /\ CreateBlob(l, LegacyParent) /\ CompleteImage(b)
  BY DEF BuildLayer
<1>2. /\ l.tar.lowers = Tars(build.layers) /\ l.gzip = Gzip /\ l.mediaType = MediaType
      /\ l = Layer(l.tar, l.gzip, l.mediaType)
  BY DEF NewLayer, Layer, Tar, Lowers
<1>3. /\ conf # None /\ conf \in Confs /\ conf.mode \in {"oci", "docker"}
      /\ conf.gzip \in BOOLEAN /\ IsBuild(build) /\ BuildFits(build, conf)
      /\ IsSeq(build.layers) /\ Stacked(build.layers)
      /\ \A i \in DOMAIN build.layers : LayerOf(build.layers[i])
      /\ ~Relabels(build) => \A i \in DOMAIN build.layers : IsAsDescribed(build.layers[i])
      /\ IsSeq(build.diffIds) /\ IsSeq(build.history)
      /\ Cardinality(LayerEntries(build.history)) = Len(build.diffIds)
      /\ (build.parent # None => ~build.parent.incomplete) => Tars(build.layers) = build.diffIds
  BY <1>1, BuildFacts
<1> HIDE DEF l
<1>4. /\ b.layers = Append(build.layers, l) /\ b.diffIds = Append(build.diffIds, l.tar)
      /\ b.history = build.history /\ b.parent = build.parent /\ b.upper = build.upper
      /\ b.legacyParent = IF conf.gzip THEN build.legacyParent ELSE LegacyId(l)
      /\ IsBuild(b)
  <2>1. build = [pc |-> build.pc, parent |-> build.parent, upper |-> build.upper,
                 layers |-> build.layers, legacyParent |-> build.legacyParent,
                 diffIds |-> build.diffIds, history |-> build.history]
    BY <1>3 DEF IsBuild
  <2> DEFINE tag    == IF conf.gzip THEN build.legacyParent ELSE LegacyId(l)
             layers == Append(build.layers, l)
             ids    == Append(build.diffIds, l.tar)
  <2>2. b = [build EXCEPT !.layers = layers, !.diffIds = ids, !.legacyParent = tag]
    BY DEF b
  <2> HIDE DEF b, tag, layers, ids
  <2>3. b = [pc |-> build.pc, parent |-> build.parent, upper |-> build.upper,
             layers |-> layers, legacyParent |-> tag, diffIds |-> ids,
             history |-> build.history]
    BY <2>1, <2>2
  <2>4. QED
    BY <2>3 DEF IsBuild, tag, layers, ids
<1>5. CompleteImage(b)
  BY <1>1
<1> HIDE DEF b
<1>6. HistoryEntry(b.upper) = "layer"
  BY <1>1, <1>4 DEF HistoryEntry
<1>7. /\ im.mode = conf.mode /\ im.layers = Append(build.layers, l)
      /\ im.diffIds = Append(build.diffIds, l.tar)
      /\ im.history = Append(build.history, "layer")
      /\ im.tag = IF conf.gzip THEN build.legacyParent ELSE LegacyId(l)
      /\ im.fromDocker = FromDocker(build) /\ (im.relabelled <=> Relabels(build))
      /\ ~im.incomplete => (build.parent # None => ~build.parent.incomplete)
  BY <1>4, <1>6 DEF Image, IsBuild, FromDocker, Relabels
<1>8. /\ images' = Append(images, im) /\ build' = NoImage
      /\ UNCHANGED <<outputs, conf, failure>>
  BY <1>5 DEF CompleteImage
<1> HIDE DEF im
<1>9. ImageFits(im)
  <2>1. /\ IsSeq(im.layers) /\ DOMAIN im.layers = 1 .. Len(build.layers) + 1
        /\ \A i \in DOMAIN build.layers : im.layers[i] = build.layers[i]
        /\ im.layers[Len(build.layers) + 1] = l
    BY <1>3, <1>7, AppendFacts
  <2>2. Len(build.layers) \in Nat /\ DOMAIN build.layers = 1 .. Len(build.layers)
    BY <1>3, SeqFacts
  <2>3. LayerOf(l) /\ IsAsDescribed(l)
    BY <1>2, <1>3 DEF LayerOf, IsAsDescribed, Gzip, MediaType
  <2>4. ASSUME NEW i \in DOMAIN im.layers
        PROVE  LayerOf(im.layers[i]) /\ (~im.relabelled => IsAsDescribed(im.layers[i]))
    BY <1>3, <1>7, <2>1, <2>2, <2>3
  <2>5. Stacked(im.layers) /\ Tars(im.layers) = Append(Tars(build.layers), l.tar)
    BY <1>2, <1>3, <1>7, StackedAppend
  <2>6. ~im.incomplete => Tars(im.layers) = im.diffIds
    BY <1>3, <1>7, <2>5
  <2>7. IsSeq(im.diffIds) /\ Len(im.diffIds) = Len(build.diffIds) + 1
    BY <1>3, <1>7, AppendFacts
  <2>8. /\ IsSeq(im.history)
        /\ Cardinality(LayerEntries(im.history)) = Cardinality(LayerEntries(build.history)) + 1
    BY <1>3, <1>7, HistoryFacts
  <2>9. QED
    BY <1>3, <1>7, <2>1, <2>4, <2>5, <2>6, <2>7, <2>8 DEF ImageFits
<1>10. ToSet(im.layers) = ToSet(build.layers) \cup {l}
  BY <1>3, <1>7, AppendFacts
<1>11. CreateBlob(l, LegacyParent)
  BY <1>1 DEF l
<1>12. blobs' = blobs \cup ToSet(im.layers)
  BY <1>3, <1>10, <1>11, CreateFacts DEF IInv, Directory
<1>13. ASSUME conf.mode = "docker", ~im.fromDocker
       PROVE  Linked(im.layers, im.tag, legacy')
  <2>1. Linked(build.layers, build.legacyParent, legacy)
    BY <1>3, <1>7, <1>13 DEF IInv, LinkedSoFar
  <2>2. /\ DOMAIN legacy = blobs /\ l \notin DOMAIN legacy
        /\ legacy' = WithParent(l, LegacyParent)
    BY <1>3, <1>11, <1>13, CreateFacts
  <2>3. ToSet(build.layers) \subseteq DOMAIN legacy
    BY <2>2 DEF IInv, Directory
  <2>4. l.mediaType = "tar" => LegacyParent = build.legacyParent /\ im.tag = l
    BY <1>2, <1>7, <1>13 DEF LegacyParent, LegacyId, MediaType
  <2>5. QED
    BY <1>3, <1>7, <2>1, <2>2, <2>3, <2>4, LinkedAppend
<1>14. conf.mode = "docker" =>
          /\ DOMAIN legacy' = blobs'
          /\ \A other \in ToSet(images) :
                ~other.fromDocker => Linked(other.layers, other.tag, legacy')
          /\ ~im.fromDocker => Linked(im.layers, im.tag, legacy')
  BY <1>3, <1>11, <1>13, CreateFacts, ImagesStayLinked
<1>15. QED
  BY <1>3, <1>8, <1>9, <1>10, <1>12, <1>14, ImageAdded

LEMMA AddNoLayerStep == IInv /\ AddNoLayer => IInv'
<1> SUFFICES ASSUME IInv, AddNoLayer PROVE IInv'
  OBVIOUS
<1> DEFINE im == Image([build EXCEPT !.history = Append(@, HistoryEntry(build.upper))])
<1>1. Imported /\ build.upper = None /\ CompleteImage(build) /\ UNCHANGED <<blobs, legacy>>
  BY DEF AddNoLayer
<1>2. /\ conf # None /\ conf.mode \in {"oci", "docker"}
      /\ IsBuild(build) /\ BuildFits(build, conf)
      /\ IsSeq(build.layers) /\ Stacked(build.layers)
      /\ \A i \in DOMAIN build.layers : LayerOf(build.layers[i])
      /\ ~Relabels(build) => \A i \in DOMAIN build.layers : IsAsDescribed(build.layers[i])
      /\ IsSeq(build.diffIds) /\ IsSeq(build.history)
      /\ Cardinality(LayerEntries(build.history)) = Len(build.diffIds)
      /\ build.parent = None => Tars(build.layers) = build.diffIds
  BY <1>1, BuildFacts
<1>3. HistoryEntry(build.upper) = "empty"
  BY <1>1 DEF HistoryEntry
<1>4. /\ im.mode = conf.mode /\ im.layers = build.layers /\ im.diffIds = build.diffIds
      /\ im.history = Append(build.history, "empty") /\ im.tag = build.legacyParent
      /\ im.fromDocker = FromDocker(build) /\ (im.relabelled <=> Relabels(build))
      /\ ~im.incomplete => \/ build.parent = None
                           \/ ~build.parent.incomplete /\ build.parent.mode # "oci"
  BY <1>1, <1>2, <1>3 DEF Image, IsBuild, FromDocker, Relabels
<1>5. /\ images' = Append(images, im) /\ build' = NoImage
      /\ UNCHANGED <<outputs, conf, failure>>
  BY <1>1 DEF CompleteImage
<1> HIDE DEF im
<1>6. ~im.incomplete => Tars(im.layers) = im.diffIds
  <2>1. SUFFICES ASSUME build.parent # None, ~build.parent.incomplete, build.parent.mode # "oci"
                 PROVE  Tars(build.layers) = build.diffIds
    BY <1>2, <1>4
  <2>2. /\ Tars(build.parent.layers) = build.parent.diffIds
        /\ build.diffIds = build.parent.diffIds
    BY <1>2, <2>1 DEF BuildFits, ImageFits
  <2>3. Inherited(build) = build.parent.layers
    BY <2>1 DEF Inherited
  <2>4. Tars(build.layers) = Tars(Inherited(build))
    BY <1>1, <1>2, FollowerFacts DEF Imported
  <2>5. QED
    BY <2>2, <2>3, <2>4
<1>7. /\ IsSeq(im.history) /\ Cardinality(LayerEntries(build.history)) \in Nat
      /\ Cardinality(LayerEntries(im.history)) = Cardinality(LayerEntries(build.history)) + 0
  BY <1>2, <1>4, HistoryFacts
<1>8. ImageFits(im)
  BY <1>2, <1>4, <1>6, <1>7 DEF ImageFits
<1>9. blobs' = blobs \cup ToSet(im.layers) /\ ToSet(build.layers) \subseteq ToSet(im.layers)
  BY <1>1, <1>4 DEF IInv, Directory
<1>10. conf.mode = "docker" =>
          /\ DOMAIN legacy' = blobs'
          /\ \A other \in ToSet(images) :
                ~other.fromDocker => Linked(other.layers, other.tag, legacy')
          /\ ~im.fromDocker => Linked(im.layers, im.tag, legacy')
  BY <1>1, <1>2, <1>4 DEF IInv, Directory, LinkedSoFar
<1>11. QED
  BY <1>2, <1>5, <1>8, <1>9, <1>10, ImageAdded
-----------------------------------------------------------------------------
(***************************************************************************)
(* The ends of a run that fails.                                           *)
(***************************************************************************)
LEMMA FailStep ==
    ASSUME IInv, NEW l, Fail(l), FailsOnlyWhereKnown'
    PROVE  IInv'
<1>1. /\ conf' = None /\ build' = NoImage /\ blobs' = {} /\ legacy' = <<>> /\ images' = <<>>
      /\ UNCHANGED outputs
  BY DEF Fail
<1>2. Directory' /\ LinkedSoFar' /\ BuildFit' /\ IsSeq(images') /\ ToSet(images') = {}
  BY <1>1, FreshDirectory, EmptyFacts
<1>3. AreSequences' /\ Settings'
  BY <1>1, <1>2 DEF IInv, AreSequences, Settings
<1>4. ImagesFit'
  BY <1>1, <1>2 DEF IInv, ImagesFit, AllImages, Finished
<1>5. LegacyChain'
  BY <1>1 DEF IInv, LegacyChain
<1>6. QED
  BY <1>2, <1>3, <1>4, <1>5 DEF IInv

(* A layer that is not below itself and cannot be created is one of an     *)
(* earlier image of the run, and the run writes a docker directory.        *)
LEMMA SharedLayer ==
    ASSUME IInv, NEW l, Len(l.tar.lowers) = Len(build.layers), ~CanCreate(l), Fail(l)
    PROVE  FailsOnlyWhereKnown'
<1>1. IsSeq(build.layers) /\ Stacked(build.layers)
  BY FollowerFacts DEF IInv, BuildFit
<1>2. l \notin ToSet(build.layers)
  BY <1>1, NewIsNotBelow
<1>3. conf.mode = "docker" /\ l \in ImageLayers
  BY <1>2 DEF CanCreate, IInv, Directory
<1>4. \E im \in ToSet(images) : l \in ToSet(im.layers)
  BY <1>3 DEF ImageLayers
<1>5. failure'.conf = conf /\ failure'.shared
  BY <1>4 DEF Fail
<1>6. QED
  BY <1>3, <1>5 DEF FailsOnlyWhereKnown

(* The layer that is to be copied. *)
LEMMA NextLayerFacts ==
    ASSUME IInv, Importing
    PROVE  build.parent # None /\ Len(NextLayer.tar.lowers) = Len(build.layers)
<1> DEFINE n == Len(build.layers) + 1
<1>1. BuildFits(build, conf)
  BY DEF IInv, BuildFit
<1>2. /\ IsSeq(build.layers) /\ IsSeq(Inherited(build)) /\ Stacked(Inherited(build))
      /\ \A i \in DOMAIN Inherited(build) : build.parent # None
  BY <1>1, InheritedFacts DEF BuildFits, Follows
<1>3. n \in DOMAIN Inherited(build) /\ n - 1 = Len(build.layers)
  BY <1>2, SeqFacts DEF Importing
<1> HIDE DEF n
<1>4. Len(Inherited(build)[n].tar.lowers) = n - 1
  BY <1>2, <1>3, LowersLength
<1>5. QED
  BY <1>2, <1>3, <1>4 DEF NextLayer, n

LEMMA FailDockerImportStep == IInv /\ FailDockerImport => IInv'
<1> SUFFICES ASSUME IInv, FailDockerImport PROVE IInv'
  OBVIOUS
<1> DEFINE l == Copied(NextLayer)
<1>1. /\ Importing /\ build.parent.mode = "docker" /\ Fail(l)
      /\ conf.gzip \/ ~CanCreate(l)
  BY DEF FailDockerImport
<1>2. build.parent # None /\ Len(l.tar.lowers) = Len(build.layers)
  BY <1>1, NextLayerFacts DEF Copied, Layer
<1> HIDE DEF l
<1>3. CASE conf.gzip
  <2>1. failure'.conf = conf /\ failure'.parent = build.parent
    BY <1>1 DEF Fail
  <2>2. QED
    BY <1>1, <1>2, <1>3, <2>1, FailStep DEF FailsOnlyWhereKnown
<1>4. CASE ~CanCreate(l)
  BY <1>1, <1>2, <1>4, SharedLayer, FailStep
<1>5. QED
  BY <1>1, <1>3, <1>4

LEMMA FailOciImportStep == IInv /\ FailOciImport => IInv'
<1> SUFFICES ASSUME IInv, FailOciImport PROVE IInv'
  OBVIOUS
<1> DEFINE l == Recompressed(NextLayer)
<1>1. Importing /\ ~CanCreate(l) /\ Fail(l)
  <2>1. Importing /\ Fail(l) /\ (~CanExpand(NextLayer) \/ ~CanCreate(l))
    BY DEF FailOciImport
  <2>2. conf.gzip \in BOOLEAN
    BY <2>1, ConfsAssumption DEF IInv, Settings, NoImage, Locals, Importing
  <2>3. QED
    BY <2>1, <2>2, NextLayerOf, RecompressedFacts
<1>2. Len(l.tar.lowers) = Len(build.layers)
  BY <1>1, NextLayerFacts DEF Recompressed, Layer
<1> HIDE DEF l
<1>3. QED
  BY <1>1, <1>2, SharedLayer, FailStep

LEMMA FailBuildLayerStep == IInv /\ FailBuildLayer => IInv'
<1> SUFFICES ASSUME IInv, FailBuildLayer PROVE IInv'
  OBVIOUS
<1>1. Imported /\ Fail(NewLayer) /\ (~CanRead \/ ~CanCreate(NewLayer))
  BY DEF FailBuildLayer
<1>2. /\ conf.gzip \in BOOLEAN /\ BuildFits(build, conf) /\ IsSeq(build.layers)
  BY <1>1, BuildFacts
<1>3. CASE ~CanCreate(NewLayer)
  <2>1. Len(NewLayer.tar.lowers) = Len(build.layers)
    BY <1>2, TarsFacts DEF NewLayer, Layer, Tar, Lowers
  <2>2. QED
    BY <1>1, <1>3, <2>1, SharedLayer, FailStep
<1>4. CASE ~CanRead
  <2>1. PICK i \in DOMAIN build.layers : build.layers[i].gzip # Gzip
    BY <1>2, <1>4, SeqFacts DEF CanRead
  <2>2. build.layers[i].mediaType = MediaType
    BY <1>2 DEF BuildFits, Follows, MediaType
  <2>3. ~IsAsDescribed(build.layers[i])
    BY <1>2, <2>1, <2>2 DEF IsAsDescribed, Gzip, MediaType
  <2>4. Relabels(build)
    BY <1>2, <2>3, CopiesAsDescribed
  <2>5. failure'.parent = build.parent
    BY <1>1 DEF Fail
  <2>6. FailsOnlyWhereKnown'
    BY <2>4, <2>5 DEF FailsOnlyWhereKnown, Relabels
  <2>7. QED
    BY <1>1, <2>6, FailStep
<1>5. QED
  BY <1>1, <1>3, <1>4
-----------------------------------------------------------------------------
LEMMA InitIInv == Init => IInv
<1> SUFFICES ASSUME Init PROVE IInv
  OBVIOUS
<1>1. /\ outputs = <<>> /\ conf = None /\ build = NoImage /\ blobs = {} /\ legacy = <<>>
      /\ images = <<>> /\ failure = None
  BY DEF Init
<1>2. /\ ToSet(images) = {} /\ ToSet(build.layers) = {} /\ DOMAIN legacy = {}
      /\ DOMAIN outputs = {} /\ IsSeq(outputs) /\ IsSeq(images)
  BY <1>1, NoImageFacts, EmptyFacts
<1>3. AreSequences /\ Settings /\ LegacyChain /\ FailsOnlyWhereKnown
  BY <1>1, <1>2 DEF AreSequences, Settings, LegacyChain, FailsOnlyWhereKnown
<1>4. ImagesFit
  BY <1>2 DEF ImagesFit, AllImages, Finished
<1>5. BuildFit
  BY <1>1, NoImageFacts DEF BuildFit
<1>6. Directory /\ LinkedSoFar
  BY <1>1, <1>2 DEF Directory, ImageLayers, LinkedSoFar
<1>7. QED
  BY <1>3, <1>4, <1>5, <1>6 DEF IInv

LEMMA NextIInv == IInv /\ [Next]_vars => IInv'
<1> SUFFICES ASSUME IInv, [Next]_vars PROVE IInv'
  OBVIOUS
<1>1. ASSUME NEW c \in Confs, StartRun(c) PROVE IInv'
  BY <1>1, StartRunStep
<1>2. ASSUME NEW parent \in Parents, NEW added \in Layers, StartImage(parent, added) PROVE IInv'
  BY <1>2, StartImageStep
<1>3. CASE ImportDockerLayer
  BY <1>3, ImportDockerStep
<1>4. CASE ImportOciLayer
  BY <1>4, ImportOciStep
<1>5. CASE BuildLayer
  BY <1>5, BuildLayerStep
<1>6. CASE AddNoLayer
  BY <1>6, AddNoLayerStep
<1>7. CASE FailDockerImport
  BY <1>7, FailDockerImportStep
<1>8. CASE FailOciImport
  BY <1>8, FailOciImportStep
<1>9. CASE FailBuildLayer
  BY <1>9, FailBuildLayerStep
<1>10. CASE FinishRun
  BY <1>10, FinishRunStep
<1>11. CASE UNCHANGED vars
  BY <1>11 DEF vars, IInv, AreSequences, Settings, ImagesFit, AllImages, Finished, BuildFit, Directory,
              ImageLayers, LinkedSoFar, LegacyChain, FailsOnlyWhereKnown
<1>12. QED
  BY <1>1, <1>2, <1>3, <1>4, <1>5, <1>6, <1>7, <1>8, <1>9, <1>10, <1>11 DEF Next

LEMMA IInvariance == Spec => []IInv
  BY InitIInv, NextIInv, PTL DEF Spec
-----------------------------------------------------------------------------
(***************************************************************************)
(* What a reader relies on.                                                *)
(***************************************************************************)
(* For any chain of images, in any settings: a layer is a difference from  *)
(* exactly the layers below it.                                            *)
THEOREM LayersAreStacked == Spec => []LayersStack
<1>1. IInv => LayersStack
  BY DEF IInv, ImagesFit, ImageFits, Stacked, LayersStack
<1>2. QED
  BY <1>1, IInvariance, PTL

(* Directory, manifest, configuration, history and docker metadata agree   *)
(* on the layers of every image.                                           *)
THEOREM MetadataAgrees == Spec => []MetadataAgree
<1>1. IInv => LayersAreThere
  BY DEF IInv, Directory, ImageLayers, LayersAreThere
<1>2. IInv => ManifestMatchesConfig
  BY DEF IInv, ImagesFit, ImageFits, ManifestMatchesConfig
<1>3. IInv => HistoryMatches
  BY DEF IInv, ImagesFit, ImageFits, LayerEntries, HistoryMatches
<1>4. IInv => MetadataAgree
  BY <1>1, <1>2, <1>3 DEF IInv, MetadataAgree
<1>5. QED
  BY <1>4, IInvariance, PTL

(* A run fails for no other reason than a layer that an earlier image of   *)
(* the same docker directory has, or compressed layers of that layout,     *)
(* which it cannot import or which an ancestor described as plain.         *)
THEOREM FailuresAreKnown == Spec => []FailsOnlyWhereKnown
<1>1. IInv => FailsOnlyWhereKnown
  BY DEF IInv
<1>2. QED
  BY <1>1, IInvariance, PTL
-----------------------------------------------------------------------------
(***************************************************************************)
(* The invariant of the layer builder.                                     *)
(*                                                                         *)
(* It relates four things: the last tree, the image that the layers make,  *)
(* the entries read of them, and, while a layer is being written, the tree *)
(* it is written for.  First what one entry, or one path, says of another. *)
(***************************************************************************)
(* An entry of that name, spelled as create_layer spells it. *)
IsEntry(k, m) == /\ m.kind = "member" /\ m.name = k /\ Normal(k) \in Path
                 /\ k = Spelled(Normal(k), m.type)

Stands(m, type) == m.type = type \/ (m.type = "link" /\ type = "file")

(* The files have an entry for a node of that type at p. *)
Lists(files, p, type) ==
    LET k == Spelled(p, type) IN k \in DOMAIN files /\ Stands(files[k], type)

(* The entry is what create_layer would write for the node. *)
Tells(m, n, excused) ==
    IF m.type = "link" THEN n.type = "file"
    ELSE /\ n.type = m.type /\ n.attr = m.attr
         /\ m.type = "file" => n.data = m.data
         /\ m.type = "symlink" => n.data = m.data \/ excused

(* A file "./d" is not replaced in what is read when a directory d takes   *)
(* its place.                                                              *)
Stale(p) == Len(p) = 1 /\ IsDir(tree, p)

Told(m, p) == \/ m.type = "dir" \/ UnderDropped(p)
              \/ p \in DOMAIN tree /\ Tells(m, tree[p], p \in retargeted)
              \/ Stale(p)

AllTold(files) == \A k \in DOMAIN files : Told(files[k], Normal(k))

(* What NothingLost says of a path, with what else is known of a link.     *)
Kept(p) == \/ p \in DOMAIN image /\ image[p] = tree[p]
           \/ UnderDropped(p)
           \/ p \in retargeted /\ p \in DOMAIN image /\ image[p].type = "symlink"

FilesListed(files) == \A p \in DOMAIN tree :
    tree[p].type = "file" => UnderDropped(p) \/ Lists(files, p, "file")

Rooted(t) == \A p \in DOMAIN t : p \in Path /\ (p # <<>> => IsDir(t, Front(p)))

IsNode(n) == n = [type |-> n.type, attr |-> n.attr, data |-> n.data]

(***************************************************************************)
(* At any time: the trees are trees, every entry read has its name, and    *)
(* the image has nothing that was not read.                                *)
(***************************************************************************)
Paths     == /\ Rooted(tree) /\ Rooted(image) /\ dropped \subseteq Path \ {<<>>}
             /\ \A p \in DOMAIN tree : IsNode(tree[p])
ReadFits  == read.known /\ \A k \in DOMAIN read.files :
                IsEntry(k, read.files[k]) /\ read.files[k] \in below \cup written
ImageRead == \A p \in DOMAIN image : Lists(read.files, p, image[p].type)

ImportsWhole == pc = "import" => tree = image

(* Between two layers: what is read is told by the tree.                   *)
Idle == Complete => /\ AllTold(read.files) /\ NothingLeftBehind
                    /\ \A p \in DOMAIN tree : Kept(p)

(***************************************************************************)
(* While a layer is written: what the lower layers have, what of the image *)
(* remains of them, what is written, and how far the walk is.              *)
(***************************************************************************)
DoneDirs == {p \in Unpacked : IsDir(upper, p)}
Whited   == {m.name : m \in {w \in written : w.kind = "whiteout"}}
Named    == {m.name : m \in {w \in written : w.kind = "member"}}

(* The entry is for a node of the tree that the layer is written for. *)
IsOfUpper(m) == LET p == Normal(m.name) IN
    /\ IsEntry(m.name, m) /\ p \in DOMAIN upper
    /\ IF m.type = "link" THEN upper[p].type = "file"
       ELSE m.type = upper[p].type /\ m.attr = upper[p].attr /\ m.data = upper[p].data

IsWhiteout(m) == \E d \in DoneDirs : \E n \in GoneFrom(d) : m = Whiteout(d, n)

(* What LeaveOut found of a file or a link. *)
LeftOut(p) == LET k == Join(Front(p), Last(p)) IN
    /\ k \in DOMAIN lower /\ lower[k].type = upper[p].type /\ lower[k].attr = upper[p].attr
    /\ \/ upper[p].type = "symlink"
       \/ upper[p].type = "file" /\ lower[k].data = upper[p].data

Differs(m) == ~ /\ m.name \in DOMAIN lower /\ lower[m.name].type = "file"
                /\ lower[m.name].attr = m.attr /\ lower[m.name].data = m.data

LowerFits == /\ \A k \in DOMAIN lower : IsEntry(k, lower[k]) /\ lower[k] \in below
             /\ AllTold(lower) /\ FilesListed(lower)

(* What the layer has not unpacked is of the lower layers. *)
Remains == \A p \in DOMAIN image \ Unpacked :
    /\ Lists(lower, p, image[p].type)
    /\ \/ UnderDroppedAtRoot(p)
       \/ p \in DOMAIN tree /\ (Len(p) = 1 /\ image[p].type = "dir" => IsDir(tree, p))

AsUpper == \A p \in Unpacked : p \in DOMAIN upper /\ p \in DOMAIN image /\ image[p] = View(upper)[p]
AsTree  == \A p \in (DOMAIN tree \cap DOMAIN upper) \ Unpacked : Kept(p)

WrittenFits == \A m \in written :
    \/ m.kind = "member" /\ IsOfUpper(m) /\ (m.type = "file" => Differs(m))
    \/ m.kind = "whiteout" /\ IsWhiteout(m)

ReadSoFar ==
    /\ \A k \in DOMAIN lower : k \in DOMAIN read.files \/ k \in Whited
    /\ \A k \in DOMAIN read.files : \/ read.files[k] \in written
                                   \/ /\ k \notin Named /\ k \notin Whited
                                      /\ k \in DOMAIN lower /\ read.files[k] = lower[k]

Hides == \A m \in written : m.kind = "whiteout" =>
            \A p \in DOMAIN image : ~IsPrefix(Normal(m.name), p)

(* The files and the whiteouts of every directory but the one in hand are  *)
(* dealt with.                                                             *)
FilesDone == \A p \in DOMAIN upper : p # <<>> /\ ~IsDir(upper, p) /\ Front(p) \in DoneDirs =>
    p \in Unpacked \/ LeftOut(p) \/ (here.dir = Front(p) /\ Last(p) \in here.files)
GoneDone == \A d \in DoneDirs : \A n \in GoneFrom(d) :
    Join(d, n) \in Whited \/ (here.dir = d /\ n \in here.gone)

IsRecord(h) == h = [dir |-> h.dir, gone |-> h.gone, files |-> h.files]

HereFits ==
    /\ IsRecord(here)
    /\ here.gone # {} \/ here.files # {} => here.dir \in DoneDirs
    /\ here.gone \subseteq GoneFrom(here.dir) /\ \A n \in here.gone : Join(here.dir, n) \notin Whited
    /\ here.files \subseteq Files(upper, here.dir)

(* The stack is the border of what the walk has reached. *)
StackFits ==
    /\ \A d \in stack : IsDir(upper, d) /\ d \notin DoneDirs
    /\ \A d \in stack \cup DoneDirs : d # <<>> => Front(d) \in DoneDirs
    /\ \A d \in DOMAIN upper : IsDir(upper, d) =>
          d \in stack \/ d \in DoneDirs \/ (d # <<>> /\ Front(d) \notin DoneDirs)

(* tarfile's cache names files that are in the layer. *)
InodesFit == \A i \in DOMAIN inodes : \E p \in Unpacked :
    inodes[i] = Spelled(p, "file") /\ upper[p].type = "file" /\ upper[p].ino = i

Walk == /\ upper \in Trees /\ LowerFits
        /\ Remains /\ AsUpper /\ AsTree /\ WrittenFits /\ ReadSoFar /\ Hides
        /\ FilesDone /\ GoneDone /\ HereFits /\ StackFits /\ InodesFit

LayerInv == /\ Paths /\ ReadFits /\ ImageRead /\ ImportsWhole /\ Idle /\ (Working => Walk)
            /\ FailsOnlyOnSpecial
-----------------------------------------------------------------------------
(***************************************************************************)
(* Sequences and paths.                                                    *)
(***************************************************************************)
LEMMA AppendLast ==
    ASSUME NEW S, NEW s \in Seq(S), NEW e \in S
    PROVE  /\ Append(s, e) \in Seq(S) /\ Append(s, e) # <<>>
           /\ Len(Append(s, e)) = Len(s) + 1
           /\ Front(Append(s, e)) = s /\ Last(Append(s, e)) = e
<1> DEFINE t == Append(s, e)
<1>1. /\ t \in Seq(S) /\ t # <<>> /\ Len(t) = Len(s) + 1
      /\ \A i \in 1 .. Len(s) : t[i] = s[i]
      /\ t[Len(s) + 1] = e
  BY AppendProperties
<1> HIDE DEF t
<1>2. Len(s) \in Nat /\ \A i \in 1 .. Len(t) : t[i] \in S
  BY <1>1, LenProperties
<1>3. Last(t) = e
  BY <1>1 DEF Last
<1>4. Len(t) - 1 = Len(s) /\ Len(s) \in Int /\ 1 \in Int /\ Len(s) - 1 + 1 = Len(s)
  BY <1>1, <1>2
<1>5. \A i \in 1 .. Len(s) : t[i] \in S
  BY <1>1, <1>2
<1>6. /\ SubSeq(t, 1, Len(s)) \in Seq(S)
      /\ Len(SubSeq(t, 1, Len(s))) = IF 1 <= Len(s) THEN Len(s) - 1 + 1 ELSE 0
      /\ \A i \in 1 .. Len(s) - 1 + 1 : SubSeq(t, 1, Len(s))[i] = t[1 + i - 1]
  BY <1>4, <1>5, SubSeqProperties
<1>7. Len(SubSeq(t, 1, Len(s))) = Len(s)
  BY <1>2, <1>6
<1>8. \A i \in 1 .. Len(s) : SubSeq(t, 1, Len(s))[i] = s[i]
  BY <1>1, <1>2, <1>4, <1>6
<1>9. SubSeq(t, 1, Len(s)) = s
  BY <1>6, <1>7, <1>8, SeqEqual
<1>10. Front(t) = s
  BY <1>4, <1>9 DEF Front
<1>11. QED
  BY <1>1, <1>3, <1>10 DEF t

LEMMA FrontLast ==
    ASSUME NEW S, NEW s \in Seq(S), s # <<>>
    PROVE  /\ Len(s) \in Nat \ {0} /\ Front(s) \in Seq(S) /\ Len(Front(s)) = Len(s) - 1
           /\ \A i \in 1 .. Len(s) - 1 : Front(s)[i] = s[i]
           /\ Last(s) \in S /\ s = Append(Front(s), Last(s))
<1>1. Len(s) \in Nat \ {0} /\ \A i \in 1 .. Len(s) : s[i] \in S
  BY EmptySeq, LenProperties
<1>2. Last(s) \in S
  BY <1>1 DEF Last
<1>3. 1 \in Int /\ Len(s) - 1 \in Int /\ (Len(s) - 1) - 1 + 1 = Len(s) - 1
  BY <1>1
<1>4. \A i \in 1 .. Len(s) - 1 : s[i] \in S
  BY <1>1
<1>5. /\ Front(s) \in Seq(S)
      /\ Len(Front(s)) = IF 1 <= Len(s) - 1 THEN (Len(s) - 1) - 1 + 1 ELSE 0
      /\ \A i \in 1 .. (Len(s) - 1) - 1 + 1 : Front(s)[i] = s[1 + i - 1]
  BY <1>3, <1>4, SubSeqProperties DEF Front
<1>6. Len(Front(s)) = Len(s) - 1
  <2>1. CASE 1 <= Len(s) - 1
    BY <1>3, <1>5, <2>1
  <2>2. CASE ~ (1 <= Len(s) - 1)
    <3>1. Len(s) - 1 = 0
      BY <1>1, <2>2
    <3>2. Len(Front(s)) = 0
      BY <1>5, <2>2
    <3>3. QED
      BY <3>1, <3>2
  <2>3. QED
    BY <2>1, <2>2
<1>7. ASSUME NEW i \in 1 .. Len(s) - 1 PROVE Front(s)[i] = s[i]
  <2>1. 1 + i - 1 = i /\ i \in 1 .. (Len(s) - 1) - 1 + 1
    BY <1>1
  <2>2. Front(s)[i] = s[1 + i - 1]
    BY <1>5, <2>1
  <2>3. QED
    BY <2>1, <2>2
<1> DEFINE t == Append(Front(s), Last(s))
<1>8. /\ t \in Seq(S) /\ Len(t) = Len(Front(s)) + 1
      /\ \A i \in 1 .. Len(Front(s)) : t[i] = Front(s)[i]
      /\ t[Len(Front(s)) + 1] = Last(s)
  BY <1>2, <1>5, AppendProperties
<1> HIDE DEF t
<1>9. Len(t) = Len(s) /\ t[Len(s)] = s[Len(s)]
  BY <1>1, <1>6, <1>8 DEF Last
<1>10. \A i \in 1 .. Len(s) : s[i] = t[i]
  BY <1>1, <1>6, <1>7, <1>8, <1>9
<1>11. s = t
  BY <1>8, <1>9, <1>10, SeqEqual
<1>12. QED
  BY <1>1, <1>2, <1>5, <1>6, <1>7, <1>11 DEF t

(* IsPrefix, element by element. *)
LEMMA PrefixByElement ==
    ASSUME NEW S, NEW s \in Seq(S), NEW t \in Seq(S)
    PROVE  IsPrefix(s, t) <=> Len(s) <= Len(t) /\ \A i \in 1 .. Len(s) : s[i] = t[i]
<1>1. /\ Len(s) \in Nat /\ Len(t) \in Nat
      /\ \A i \in 1 .. Len(s) : s[i] \in S
      /\ \A i \in 1 .. Len(t) : t[i] \in S
  BY LenProperties
<1>2. SubSeq(s, 1, Len(s)) = s
  BY SubSeqFull
<1>3. ASSUME Len(s) <= Len(t)
      PROVE  /\ SubSeq(t, 1, Len(s)) \in Seq(S) /\ Len(SubSeq(t, 1, Len(s))) = Len(s)
             /\ \A i \in 1 .. Len(s) : SubSeq(t, 1, Len(s))[i] = t[i]
  <2>1. 1 \in Int /\ Len(s) \in Int /\ Len(s) - 1 + 1 = Len(s)
    BY <1>1
  <2>2. \A i \in 1 .. Len(s) : t[i] \in S
    BY <1>1, <1>3
  <2>3. /\ SubSeq(t, 1, Len(s)) \in Seq(S)
        /\ Len(SubSeq(t, 1, Len(s))) = IF 1 <= Len(s) THEN Len(s) - 1 + 1 ELSE 0
        /\ \A i \in 1 .. Len(s) - 1 + 1 : SubSeq(t, 1, Len(s))[i] = t[1 + i - 1]
    BY <2>1, <2>2, SubSeqProperties
  <2>4. Len(SubSeq(t, 1, Len(s))) = Len(s)
    BY <1>1, <2>3
  <2>5. \A i \in 1 .. Len(s) : 1 + i - 1 = i
    BY <1>1
  <2>6. QED
    BY <2>1, <2>3, <2>4, <2>5
<1>4. ASSUME IsPrefix(s, t)
      PROVE  Len(s) <= Len(t) /\ \A i \in 1 .. Len(s) : s[i] = t[i]
  BY <1>2, <1>3, <1>4 DEF IsPrefix
<1>5. ASSUME Len(s) <= Len(t), \A i \in 1 .. Len(s) : s[i] = t[i]
      PROVE  IsPrefix(s, t)
  <2>1. s = SubSeq(t, 1, Len(s))
    BY <1>3, <1>5, SeqEqual
  <2>2. QED
    BY <1>2, <1>5, <2>1 DEF IsPrefix
<1>6. QED
  BY <1>4, <1>5

(* A prefix is the whole or a prefix of the front. *)
LEMMA PrefixOfFront ==
    ASSUME NEW S, NEW s \in Seq(S), NEW t \in Seq(S), t # <<>>
    PROVE  IsPrefix(s, t) <=> s = t \/ IsPrefix(s, Front(t))
<1>1. /\ Len(t) \in Nat \ {0} /\ Front(t) \in Seq(S) /\ Len(Front(t)) = Len(t) - 1
      /\ \A i \in 1 .. Len(t) - 1 : Front(t)[i] = t[i]
  BY FrontLast
<1>2. Len(s) \in Nat
  BY LenProperties
<1>3. IsPrefix(s, t) <=> Len(s) <= Len(t) /\ \A i \in 1 .. Len(s) : s[i] = t[i]
  BY PrefixByElement
<1>4. IsPrefix(s, Front(t)) <=>
        Len(s) <= Len(Front(t)) /\ \A i \in 1 .. Len(s) : s[i] = Front(t)[i]
  <2>1. \A u \in Seq(S) : IsPrefix(s, u) <=> Len(s) <= Len(u) /\ \A i \in 1 .. Len(s) : s[i] = u[i]
    BY PrefixByElement
  <2>2. QED
    BY <1>1, <2>1
<1>5. ASSUME IsPrefix(s, t), s # t PROVE IsPrefix(s, Front(t))
  <2>1. Len(s) # Len(t)
    BY <1>3, <1>5, SeqEqual
  <2>2. Len(s) <= Len(t) - 1
    BY <1>1, <1>2, <1>3, <1>5, <2>1
  <2>3. \A i \in 1 .. Len(s) : i \in 1 .. Len(t) - 1
    BY <1>1, <1>2, <2>2
  <2>4. \A i \in 1 .. Len(s) : s[i] = Front(t)[i]
    BY <1>1, <1>3, <1>5, <2>3
  <2>5. QED
    BY <1>1, <1>4, <2>2, <2>4
<1>6. ASSUME IsPrefix(s, Front(t)) PROVE IsPrefix(s, t)
  <2>1. Len(s) <= Len(t) - 1
    BY <1>1, <1>4, <1>6
  <2>2. \A i \in 1 .. Len(s) : i \in 1 .. Len(t) - 1
    BY <1>1, <1>2, <2>1
  <2>3. Len(s) <= Len(t) /\ \A i \in 1 .. Len(s) : s[i] = t[i]
    BY <1>1, <1>2, <1>4, <1>6, <2>1, <2>2
  <2>4. QED
    BY <1>3, <2>3
<1>7. s = t => IsPrefix(s, t)
  BY <1>1, <1>3
<1>8. QED
  BY <1>5, <1>6, <1>7

LEMMA PrefixFacts ==
    ASSUME NEW S, NEW s \in Seq(S), NEW t \in Seq(S)
    PROVE  /\ IsPrefix(<<>>, t) /\ IsPrefix(t, t)
           /\ IsPrefix(s, t) => /\ Len(s) <= Len(t) /\ (Len(s) = Len(t) => s = t)
                                /\ \A u \in Seq(S) : IsPrefix(t, u) => IsPrefix(s, u)
<1>1. /\ <<>> \in Seq(S) /\ Len(<<>>) = 0 /\ Len(s) \in Nat /\ Len(t) \in Nat
  BY EmptySeq, LenProperties
<1>2. IsPrefix(<<>>, t)
  <2>1. IsPrefix(<<>>, t) <=> Len(<<>>) <= Len(t) /\ \A i \in 1 .. Len(<<>>) : <<>>[i] = t[i]
    <3>1. \A u \in Seq(S) : IsPrefix(u, t) <=> Len(u) <= Len(t) /\ \A i \in 1 .. Len(u) : u[i] = t[i]
      BY PrefixByElement
    <3>2. QED
      BY <1>1, <3>1
  <2>2. QED
    BY <1>1, <2>1
<1>3. IsPrefix(t, t)
  <2>1. IsPrefix(t, t) <=> Len(t) <= Len(t) /\ \A i \in 1 .. Len(t) : t[i] = t[i]
    BY PrefixByElement
  <2>2. QED
    BY <1>1, <2>1
<1>4. ASSUME IsPrefix(s, t)
      PROVE  /\ Len(s) <= Len(t) /\ (Len(s) = Len(t) => s = t)
             /\ \A u \in Seq(S) : IsPrefix(t, u) => IsPrefix(s, u)
  <2>1. Len(s) <= Len(t) /\ \A i \in 1 .. Len(s) : s[i] = t[i]
    BY <1>4, PrefixByElement
  <2>2. Len(s) = Len(t) => s = t
    BY <2>1, SeqEqual
  <2>3. ASSUME NEW u \in Seq(S), IsPrefix(t, u) PROVE IsPrefix(s, u)
    <3>1. Len(t) <= Len(u) /\ \A i \in 1 .. Len(t) : t[i] = u[i]
      BY <2>3, PrefixByElement
    <3>2. Len(u) \in Nat
      BY LenProperties
    <3>3. Len(s) <= Len(u) /\ \A i \in 1 .. Len(s) : s[i] = u[i]
      BY <1>1, <2>1, <3>1, <3>2
    <3>4. QED
      BY <3>3, PrefixByElement
  <2>4. QED
    BY <2>1, <2>2, <2>3
<1>5. QED
  BY <1>2, <1>3, <1>4

(* A set of paths has a shortest one. *)
LEMMA LeastLength ==
    ASSUME NEW P \in SUBSET Path, P # {}
    PROVE  \E p \in P : \A q \in P : Len(p) <= Len(q)
<1> DEFINE T == {Len(p) : p \in P}
<1>1. T \subseteq Nat /\ T # {}
  <2>1. \A p \in P : p \in Path
    OBVIOUS
  <2>2. \A p \in P : Len(p) \in Nat
    BY <2>1, LenProperties DEF Path
  <2>3. QED
    BY <2>2
<1>2. PICK n \in T : \A m \in T : ~ (<<m, n>> \in OpToRel(<, Nat))
  BY <1>1, WFMin, NatLessThanWellFounded
<1>3. \A m \in T : ~ (m < n)
  BY <1>1, <1>2 DEF OpToRel
<1>4. PICK p \in P : n = Len(p)
  OBVIOUS
<1>5. \A q \in P : ~ (Len(q) < Len(p)) /\ Len(q) \in Nat /\ Len(p) \in Nat
  BY <1>1, <1>3, <1>4
<1>6. QED
  BY <1>5

(* What is not in a set of paths that has the root is under a first path   *)
(* that is not.                                                            *)
LEMMA FirstMissing ==
    ASSUME NEW P, <<>> \in P, NEW p \in Path, p \notin P
    PROVE  \E q \in Path : IsPrefix(q, p) /\ q # <<>> /\ q \notin P /\ Front(q) \in P
<1> DEFINE Q == {q \in Path : IsPrefix(q, p) /\ q \notin P}
<1>1. p \in Q
  BY PrefixFacts DEF Path
<1>2. PICK q \in Q : \A r \in Q : Len(q) <= Len(r)
  BY <1>1, LeastLength
<1>3. q # <<>> /\ q \in Path
  OBVIOUS
<1>4. Front(q) \in Path /\ Len(Front(q)) = Len(q) - 1 /\ Len(q) \in Nat
  BY <1>3, FrontLast DEF Path
<1>5. IsPrefix(Front(q), Front(q))
  BY <1>4, PrefixFacts DEF Path
<1>6. IsPrefix(Front(q), q)
  BY <1>3, <1>4, <1>5, PrefixOfFront DEF Path
<1>7. IsPrefix(Front(q), p)
  BY <1>3, <1>4, <1>6, PrefixFacts DEF Path
<1>8. Front(q) \notin Q
  BY <1>2, <1>4
<1>9. QED
  BY <1>3, <1>4, <1>7, <1>8

(* In a tree, what is above a path is a directory. *)
LEMMA RootedFacts ==
    ASSUME NEW t, Rooted(t), NEW p \in DOMAIN t, NEW q \in Path, IsStrictPrefix(q, p)
    PROVE  IsDir(t, q)
<1> SUFFICES ASSUME ~ IsDir(t, q) PROVE FALSE
  OBVIOUS
<1> DEFINE P == {r \in DOMAIN t : IsStrictPrefix(q, r)}
<1>1. P \subseteq Path /\ P # {}
  BY DEF Rooted
<1>2. PICK r \in P : \A s \in P : Len(r) <= Len(s)
  BY <1>1, LeastLength
<1>3. r \in Path /\ IsPrefix(q, r) /\ q # r
  BY <1>1 DEF IsStrictPrefix
<1>4. r # <<>>
  <2>1. Len(<<>>) = 0 /\ Len(q) \in Nat /\ <<>> \in Path
    BY EmptySeq, LenProperties DEF Path
  <2>2. IsPrefix(q, r) => Len(q) <= Len(r) /\ (Len(q) = Len(r) => q = r)
    BY <1>3, PrefixFacts DEF Path
  <2>3. QED
    BY <1>3, <2>1, <2>2
<1>5. IsDir(t, Front(r)) /\ Front(r) \in DOMAIN t
  BY <1>4 DEF Rooted, IsDir
<1>6. IsPrefix(q, Front(r))
  BY <1>3, <1>4, PrefixOfFront DEF Path
<1>7. Front(r) \in P
  BY <1>5, <1>6 DEF IsStrictPrefix
<1>8. Len(Front(r)) = Len(r) - 1 /\ Len(r) \in Nat
  BY <1>3, <1>4, FrontLast DEF Path
<1>9. QED
  BY <1>2, <1>7, <1>8
-----------------------------------------------------------------------------
(***************************************************************************)
(* Paths and the names that entries have for them.                         *)
(***************************************************************************)
PathNames == ToSet(NameOrder)
AllNames  == PathNames \cup {"."}

(* Facts of arithmetic that the provers do not find for lengths. *)
LEMMA SmallNumbers ==
    \A m, n \in Nat : /\ n <= 1 => n = 0 \/ n = 1
                      /\ n < m /\ n >= 1 => m # 1
  OBVIOUS

LEMMA PathIsSeq ==
    /\ Path = Seq(PathNames) /\ <<>> \in Path /\ "." \notin PathNames
    /\ \A p \in Path : p \in Seq(AllNames) /\ Len(p) \in Nat
<1>1. Path = Seq(PathNames) /\ "." \notin PathNames
  BY NamesAssumption DEF Path, PathNames
<1>2. <<>> \in Path
  BY <1>1, EmptySeq
<1>3. PathNames \subseteq AllNames
  BY DEF AllNames
<1>4. ASSUME NEW p \in Path PROVE p \in Seq(AllNames) /\ Len(p) \in Nat
  BY <1>1, <1>3, SeqMonotonic, LenProperties
<1>5. QED
  BY <1>1, <1>2, <1>4

LEMMA PathEnds ==
    ASSUME NEW p \in Path, p # <<>>
    PROVE  /\ Len(p) \in Nat \ {0} /\ Front(p) \in Path /\ Len(Front(p)) = Len(p) - 1
           /\ Last(p) \in PathNames /\ p = Append(Front(p), Last(p))
  BY PathIsSeq, FrontLast

LEMMA PathAppend ==
    ASSUME NEW d \in Path, NEW n \in PathNames
    PROVE  /\ Append(d, n) \in Path /\ Append(d, n) # <<>>
           /\ Len(Append(d, n)) = Len(d) + 1
           /\ Front(Append(d, n)) = d /\ Last(Append(d, n)) = n
  BY PathIsSeq, AppendLast

LEMMA HeadOfPath ==
    ASSUME NEW p \in Path, p # <<>>
    PROVE  Head(p) # "."
  BY PathIsSeq, HeadTailProperties

LEMMA RootName ==
    /\ <<".">> \in Seq(AllNames) /\ <<".">> # <<>> /\ <<".">> \notin Path
    /\ Head(<<".">>) = "." /\ Tail(<<".">>) = <<>>
<1>1. "." \in AllNames
  BY DEF AllNames
<1>2. Append(<<>>, ".") = <<".">>
  OBVIOUS
<1>3. <<>> \in Seq(AllNames) /\ Len(<<>>) = 0
  BY EmptySeq
<1>4. <<".">> \in Seq(AllNames) /\ <<".">> # <<>> /\ Len(<<".">>) = 1 /\ <<".">>[1] = "."
  BY <1>1, <1>3
<1>5. Head(<<".">>) = "."
  OBVIOUS
<1>6. <<".">> \notin Path
  BY <1>4, <1>5, HeadOfPath
<1>7. Tail(<<".">>) \in Seq(AllNames) /\ Len(Tail(<<".">>)) = 0
  BY <1>4, HeadTailProperties
<1>8. Tail(<<".">>) = <<>>
  BY <1>7, EmptySeq
<1>9. QED
  BY <1>4, <1>5, <1>6, <1>8

(* A directory's name gives the directory back. *)
LEMMA RelPathFacts ==
    ASSUME NEW d \in Path
    PROVE  /\ RelPath(d) \in Seq(AllNames) /\ RelPath(d) # <<>> /\ Normal(RelPath(d)) = d
           /\ d # <<>> => RelPath(d) = d
<1>1. CASE d = <<>>
  BY <1>1, RootName DEF RelPath, Normal
<1>2. CASE d # <<>>
  <2>1. d \in Seq(AllNames) /\ Head(d) # "."
    BY <1>2, PathIsSeq, HeadOfPath
  <2>2. QED
    BY <1>2, <2>1 DEF RelPath, Normal
<1>3. QED
  BY <1>1, <1>2

(* The name of an entry of a directory gives the path back. *)
LEMMA JoinFacts ==
    ASSUME NEW d \in Path, NEW n \in PathNames
    PROVE  /\ Join(d, n) \in Seq(AllNames)
           /\ Front(Join(d, n)) = RelPath(d) /\ Last(Join(d, n)) = n
           /\ Normal(Join(d, n)) = Append(d, n)
           /\ d # <<>> => Join(d, n) = Append(d, n)
<1>1. n \in AllNames
  BY DEF AllNames
<1>2. RelPath(d) \in Seq(AllNames)
  BY RelPathFacts
<1>3. /\ Join(d, n) \in Seq(AllNames)
      /\ Front(Join(d, n)) = RelPath(d) /\ Last(Join(d, n)) = n
  BY <1>1, <1>2, AppendLast DEF Join
<1>4. CASE d = <<>>
  <2> DEFINE s == Append(<<".">>, n)
  <2>1. Join(d, n) = s
    BY <1>4 DEF Join, RelPath
  <2>2. /\ s \in Seq(AllNames) /\ s # <<>> /\ Len(s) = 2 /\ s[1] = "." /\ s[2] = n
    <3>1. <<".">> \in Seq(AllNames) /\ Len(<<".">>) = 1 /\ <<".">>[1] = "."
      BY RootName
    <3>2. QED
      BY <1>1, <3>1, AppendProperties
  <2> HIDE DEF s
  <2>3. Head(s) = "."
    BY <2>2
  <2> DEFINE u == Tail(s)
  <2>4. /\ u \in Seq(AllNames) /\ Len(u) = Len(s) - 1
        /\ \A i \in 1 .. Len(u) : u[i] = s[i + 1]
    BY <2>2, HeadTailProperties
  <2>5. Append(d, n) \in Seq(AllNames) /\ Len(Append(d, n)) = 1 /\ Append(d, n)[1] = n
    <3>1. <<>> \in Seq(AllNames) /\ Len(<<>>) = 0
      BY EmptySeq
    <3>2. QED
      BY <1>1, <1>4, <3>1, AppendProperties
  <2>6. u = Append(d, n)
    <3> HIDE DEF u
    <3>1. Len(u) = 1
      BY <2>2, <2>4
    <3>2. u[1] = n
      BY <2>2, <2>4, <3>1
    <3>3. \A i \in 1 .. Len(u) : i = 1
      BY <3>1
    <3>4. QED
      BY <2>4, <2>5, <3>1, <3>2, <3>3, SeqEqual
  <2>7. QED
    BY <1>3, <1>4, <2>1, <2>3, <2>6 DEF Normal
<1>5. CASE d # <<>>
  <2>1. Join(d, n) = Append(d, n)
    BY <1>5 DEF Join, RelPath
  <2>2. Head(Append(d, n)) # "."
    BY PathAppend, HeadOfPath
  <2>3. QED
    BY <1>3, <2>1, <2>2 DEF Normal
<1>6. QED
  BY <1>4, <1>5

(* So does the name of any node; only below the root does it depend on     *)
(* the type.                                                               *)
LEMMA SpelledFacts ==
    ASSUME NEW p \in Path, NEW type
    PROVE  /\ Normal(Spelled(p, type)) = p /\ Spelled(p, type) # <<>>
           /\ type # "dir" /\ p # <<>> => Spelled(p, type) = Join(Front(p), Last(p))
           /\ Len(p) # 1 => Spelled(p, type) = RelPath(p)
           /\ Spelled(p, "dir") = RelPath(p)
<1>1. RelPath(p) # <<>> /\ Normal(RelPath(p)) = p
  BY RelPathFacts
<1>2. CASE type = "dir" \/ p = <<>>
  BY <1>1, <1>2 DEF Spelled
<1>3. CASE type # "dir" /\ p # <<>>
  <2>1. /\ Len(p) \in Nat \ {0} /\ Front(p) \in Path /\ Len(Front(p)) = Len(p) - 1
        /\ Last(p) \in PathNames /\ p = Append(Front(p), Last(p))
    BY <1>3, PathEnds
  <2>2. Spelled(p, type) = Join(Front(p), Last(p)) /\ Spelled(p, "dir") = RelPath(p)
    BY <1>3 DEF Spelled
  <2>3. /\ Normal(Join(Front(p), Last(p))) = p
        /\ Front(Join(Front(p), Last(p))) = RelPath(Front(p))
        /\ Join(Front(p), Last(p)) \in Seq(AllNames)
        /\ Front(p) # <<>> => Join(Front(p), Last(p)) = p
    BY <2>1, JoinFacts
  <2>4. Len(p) # 1 => Front(p) # <<>>
    <3>1. Len(<<>>) = 0
      BY EmptySeq
    <3>2. QED
      BY <2>1, <3>1
  <2>5. RelPath(p) = p
    BY <1>3 DEF RelPath
  <2>6. Join(Front(p), Last(p)) # <<>>
    <3>1. Last(p) \in AllNames /\ RelPath(Front(p)) \in Seq(AllNames)
      BY <2>1, RelPathFacts DEF AllNames
    <3>2. QED
      BY <3>1, AppendLast DEF Join
  <2>7. QED
    BY <2>2, <2>3, <2>4, <2>5, <2>6
<1>4. QED
  BY <1>2, <1>3

(* The entry of a directory's contents is the name that is joined to it.   *)
LEMMA ContentsAreJoined ==
    ASSUME NEW d \in Path, NEW p \in Path, NEW type, Front(Spelled(p, type)) = RelPath(d)
    PROVE  /\ p # <<>> /\ Front(p) = d
           /\ Spelled(p, type) = Join(d, Last(Spelled(p, type)))
           /\ Last(Spelled(p, type)) = Last(p)
<1> DEFINE k == Spelled(p, type)
<1>1. RelPath(d) # <<>> /\ RelPath(d) \in Seq(AllNames) /\ (d # <<>> => RelPath(d) = d)
  BY RelPathFacts
<1>2. p # <<>>
  <2>1. SUFFICES ASSUME p = <<>> PROVE FALSE
    OBVIOUS
  <2>2. k = <<".">>
    BY <2>1 DEF Spelled, RelPath
  <2>3. Len(<<".">>) = 1
    OBVIOUS
  <2>4. Len(Front(<<".">>)) = 0 /\ Front(<<".">>) \in Seq(AllNames)
    <3>1. Front(<<".">>) \in Seq(AllNames) /\ Len(Front(<<".">>)) = Len(<<".">>) - 1
      BY RootName, FrontLast
    <3>2. QED
      BY <2>3, <3>1
  <2>5. Front(<<".">>) = <<>>
    BY <2>4, EmptySeq
  <2>6. QED
    BY <1>1, <2>2, <2>5
<1>3. /\ Front(p) \in Path /\ Last(p) \in PathNames /\ p = Append(Front(p), Last(p))
  BY <1>2, PathEnds
<1>4. CASE type = "dir"
  <2>1. k = p
    BY <1>2, <1>4 DEF Spelled, RelPath
  <2>2. Front(p) = RelPath(d)
    BY <2>1
  <2>3. d # <<>>
    BY <1>3, <2>2, RootName DEF RelPath
  <2>4. Front(p) = d
    BY <1>1, <2>2, <2>3
  <2>5. Join(d, Last(p)) = p
    BY <1>3, <2>3, <2>4, JoinFacts
  <2>6. QED
    BY <1>2, <2>1, <2>4, <2>5
<1>5. CASE type # "dir"
  <2>1. k = Join(Front(p), Last(p))
    BY <1>2, <1>5 DEF Spelled
  <2>2. Front(k) = RelPath(Front(p)) /\ Last(k) = Last(p)
    BY <1>3, <2>1, JoinFacts
  <2>3. Normal(RelPath(Front(p))) = Front(p) /\ Normal(RelPath(d)) = d
    BY <1>3, RelPathFacts
  <2>4. Front(p) = d
    BY <2>2, <2>3
  <2>5. QED
    BY <1>2, <2>1, <2>2, <2>4
<1>6. QED
  BY <1>4, <1>5
-----------------------------------------------------------------------------
(***************************************************************************)
(* Functions, and one entry more.                                          *)
(***************************************************************************)
LEMMA SetFacts ==
    ASSUME NEW f, NEW key, NEW to
    PROVE  /\ DOMAIN Set(f, key, to) = DOMAIN f \cup {key} /\ Set(f, key, to)[key] = to
           /\ \A k \in DOMAIN f : k # key => Set(f, key, to)[k] = f[k]
  BY DEF Set

LEMMA ForgetFacts ==
    ASSUME NEW f, NEW keys
    PROVE  /\ DOMAIN Forget(f, keys) = DOMAIN f \ keys
           /\ \A k \in DOMAIN f \ keys : Forget(f, keys)[k] = f[k]
  BY DEF Forget, Restrict

(* What an entry that is not for a whiteout or an opaque directory does.   *)
LEMMA PutFacts ==
    ASSUME NEW p, NEW n, image' = Put(p, n)
    PROVE  /\ p \in DOMAIN image' /\ image'[p] = n
           /\ \A q \in DOMAIN image' : q # p =>
                /\ q \in DOMAIN image /\ image'[q] = image[q]
                /\ n.type = "dir" \/ ~ IsStrictPrefix(p, q)
           /\ \A q \in DOMAIN image : \/ q \in DOMAIN image' 
                                      \/ n.type # "dir" /\ IsStrictPrefix(p, q)
<1> DEFINE rest == IF n.type = "dir" THEN image ELSE Forget(image, Below(p))
<1>1. image' = Set(rest, p, n)
  BY DEF Put
<1>2. /\ \A q \in DOMAIN rest : /\ q \in DOMAIN image /\ rest[q] = image[q]
                                /\ n.type = "dir" \/ ~ IsStrictPrefix(p, q)
      /\ \A q \in DOMAIN image : q \in DOMAIN rest \/ (n.type # "dir" /\ IsStrictPrefix(p, q))
  <2>1. CASE n.type = "dir"
    <3>1. rest = image
      BY <2>1
    <3> HIDE DEF rest
    <3>2. QED
      BY <2>1, <3>1
  <2>2. CASE n.type # "dir"
    <3>1. DOMAIN rest = DOMAIN image \ Below(p) /\ \A q \in DOMAIN rest : rest[q] = image[q]
      BY <2>2 DEF Forget, Restrict
    <3> HIDE DEF rest
    <3>2. \A q \in DOMAIN image : q \in DOMAIN rest <=> ~ IsStrictPrefix(p, q)
      BY <3>1 DEF Below
    <3>3. \A q \in DOMAIN rest : q \in DOMAIN image
      BY <3>1
    <3>4. QED
      BY <2>2, <3>1, <3>2, <3>3
  <2>3. QED
    BY <2>1, <2>2
<1> HIDE DEF rest
<1>3. /\ DOMAIN image' = DOMAIN rest \cup {p} /\ image'[p] = n
      /\ \A q \in DOMAIN rest : q # p => image'[q] = rest[q]
  BY <1>1 DEF Set
<1>4. QED
  BY <1>2, <1>3

LEMMA UnpackedFacts ==
    ASSUME NEW m, written' = written \cup {m}
    PROVE  Unpacked' = IF m.kind = "member" THEN Unpacked \cup {Normal(m.name)} ELSE Unpacked
<1>1. CASE m.kind = "member"
  BY <1>1 DEF Unpacked
<1>2. CASE m.kind # "member"
  BY <1>2 DEF Unpacked
<1>3. QED
  BY <1>1, <1>2

LEMMA ReadMember ==
    ASSUME NEW m, m.kind = "member", Write(m)
    PROVE  /\ read'.known = read.known
           /\ DOMAIN read'.files = DOMAIN read.files \cup {m.name} /\ read'.files[m.name] = m
           /\ \A k \in DOMAIN read.files : k # m.name => read'.files[k] = read.files[k]
<1>1. read' = [files |-> Set(read.files, m.name, m), known |-> read.known]
  BY DEF Write, Analyze, AnalyzeMember
<1>2. read'.files = Set(read.files, m.name, m) /\ read'.known = read.known
  BY <1>1
<1>3. QED
  BY <1>2 DEF Set

LEMMA ReadWhiteout ==
    ASSUME NEW m, m.kind = "whiteout", Write(m), m.name \in DOMAIN read.files
    PROVE  /\ read.known => read'.known
           /\ DOMAIN read'.files = DOMAIN read.files \ {m.name}
           /\ \A k \in DOMAIN read'.files : read'.files[k] = read.files[k]
<1>1. read' = [files |-> Forget(read.files, {m.name}),
               known |-> read.known /\ m.name \in DOMAIN read.files]
  BY DEF Write, Analyze, AnalyzeWhiteout
<1>2. read'.files = Forget(read.files, {m.name})
  BY <1>1
<1>3. read'.known = (read.known /\ m.name \in DOMAIN read.files)
  BY <1>1
<1>4. read.known => read'.known
  BY <1>3
<1>5. QED
  BY <1>2, <1>4 DEF Forget, Restrict

LEMMA ReadOpaque ==
    ASSUME NEW m, m.kind = "opaque", Write(m)
    PROVE  /\ read'.known = read.known
           /\ DOMAIN read'.files = {k \in DOMAIN read.files : ~ IsStrictPrefix(m.name, k)}
           /\ \A k \in DOMAIN read'.files : read'.files[k] = read.files[k]
<1> DEFINE hidden == {k \in DOMAIN read.files : IsStrictPrefix(m.name, k)}
<1>1. read' = [files |-> Forget(read.files, hidden), known |-> read.known]
  BY DEF Write, Analyze, AnalyzeOpaque
<1>2. read'.files = Forget(read.files, hidden) /\ read'.known = read.known
  BY <1>1
<1>3. DOMAIN read.files \ hidden = {k \in DOMAIN read.files : ~ IsStrictPrefix(m.name, k)}
  OBVIOUS
<1> HIDE DEF hidden
<1>4. /\ DOMAIN Forget(read.files, hidden) = DOMAIN read.files \ hidden
      /\ \A k \in DOMAIN read.files \ hidden : Forget(read.files, hidden)[k] = read.files[k]
  BY ForgetFacts
<1>5. QED
  BY <1>2, <1>3, <1>4

LEMMA ImageWhiteout ==
    ASSUME NEW m, m.kind = "whiteout", Write(m),
           \A q \in Unpacked : ~ IsPrefix(Normal(m.name), q)
    PROVE  /\ DOMAIN image' = {q \in DOMAIN image : ~ IsPrefix(Normal(m.name), q)}
           /\ \A q \in DOMAIN image' : image'[q] = image[q]
<1>1. image' = Forget(image, Hidden(m))
  BY DEF Write, Extract
<1>2. Hidden(m) = {q \in DOMAIN image : IsPrefix(Normal(m.name), q)}
  BY DEF Hidden
<1>3. DOMAIN image \ Hidden(m) = {q \in DOMAIN image : ~ IsPrefix(Normal(m.name), q)}
  BY <1>2
<1>4. QED
  BY <1>1, <1>3 DEF Forget, Restrict

LEMMA ImageOpaque ==
    ASSUME NEW m, m.kind = "opaque", Write(m),
           \A q \in Unpacked : ~ IsStrictPrefix(Normal(m.name), q)
    PROVE  /\ DOMAIN image' = {q \in DOMAIN image : ~ IsStrictPrefix(Normal(m.name), q)}
           /\ \A q \in DOMAIN image' : image'[q] = image[q]
<1>1. image' = Forget(image, Hidden(m))
  BY DEF Write, Extract
<1>2. Hidden(m) = {q \in DOMAIN image : IsStrictPrefix(Normal(m.name), q)}
  BY DEF Hidden
<1>3. DOMAIN image \ Hidden(m) = {q \in DOMAIN image : ~ IsStrictPrefix(Normal(m.name), q)}
  BY <1>2
<1>4. QED
  BY <1>1, <1>3 DEF Forget, Restrict

(***************************************************************************)
(* An entry keeps the image a tree, and what is read of it.                *)
(***************************************************************************)
Reads == ReadFits /\ ImageRead

(* Unpacking a member into a directory that is there keeps a tree. *)
LEMMA PutRooted ==
    ASSUME Rooted(image), NEW p \in Path, NEW n, image' = Put(p, n),
           IF p = <<>> THEN n.type = "dir" ELSE IsDir(image, Front(p))
    PROVE  Rooted(image') /\ (IsDir(image, <<>>) => IsDir(image', <<>>))
                          /\ (p = <<>> => IsDir(image', <<>>))
<1>1. /\ p \in DOMAIN image' /\ image'[p] = n
      /\ \A q \in DOMAIN image' : q # p =>
           /\ q \in DOMAIN image /\ image'[q] = image[q]
           /\ n.type = "dir" \/ ~ IsStrictPrefix(p, q)
      /\ \A q \in DOMAIN image : q \in DOMAIN image' \/ (n.type # "dir" /\ IsStrictPrefix(p, q))
  BY PutFacts
<1>2. ASSUME NEW q \in DOMAIN image', q # <<>>
      PROVE  IsDir(image', Front(q))
  <2>1. CASE q = p
    <3>1. /\ Len(p) \in Nat \ {0} /\ Front(p) \in Path /\ Len(Front(p)) = Len(p) - 1
      BY <1>2, <2>1, PathEnds
    <3>2. Front(p) # p /\ ~ IsStrictPrefix(p, Front(p))
      <4>1. IsPrefix(p, Front(p)) => Len(p) <= Len(Front(p))
        BY <3>1, PathIsSeq, PrefixFacts
      <4>2. QED
        BY <3>1, <4>1 DEF IsStrictPrefix
    <3>3. IsDir(image, Front(p))
      BY <1>2, <2>1
    <3>4. QED
      BY <1>1, <2>1, <3>2, <3>3 DEF IsDir
  <2>2. CASE q # p
    <3>1. /\ q \in DOMAIN image /\ q \in Path /\ IsDir(image, Front(q))
          /\ n.type = "dir" \/ ~ IsStrictPrefix(p, q)
      BY <1>1, <1>2, <2>2 DEF Rooted
    <3>2. Front(q) \in DOMAIN image /\ image[Front(q)].type = "dir"
      BY <3>1 DEF IsDir
    <3>3. IsPrefix(p, Front(q)) => IsStrictPrefix(p, q)
      BY <1>2, <2>2, <3>1, PathIsSeq, PrefixOfFront DEF IsStrictPrefix
    <3>4. CASE Front(q) = p
      <4>1. IsPrefix(p, Front(q))
        BY <3>4, PathIsSeq, PrefixFacts
      <4>2. n.type = "dir"
        BY <3>1, <3>3, <4>1
      <4>3. QED
        BY <1>1, <3>4, <4>2 DEF IsDir
    <3>5. CASE Front(q) # p
      <4>1. Front(q) \in DOMAIN image'
        BY <1>1, <3>1, <3>2, <3>3 DEF IsStrictPrefix
      <4>2. QED
        BY <1>1, <3>2, <3>5, <4>1 DEF IsDir
    <3>6. QED
      BY <3>4, <3>5
  <2>3. QED
    BY <2>1, <2>2
<1>3. \A q \in DOMAIN image' : q \in Path
  BY <1>1 DEF Rooted
<1>4. ASSUME IsDir(image, <<>>) PROVE IsDir(image', <<>>)
  <2>1. ~ IsStrictPrefix(p, <<>>)
    <3>1. IsPrefix(p, <<>>) => Len(p) <= Len(<<>>)
      BY PathIsSeq, PrefixFacts
    <3>2. QED
      BY <3>1, PathIsSeq, EmptySeq DEF IsStrictPrefix
  <2>2. QED
    BY <1>1, <1>4, <2>1 DEF IsDir
<1>5. p = <<>> => IsDir(image', <<>>)
  BY <1>1 DEF IsDir
<1>6. QED
  BY <1>2, <1>3, <1>4, <1>5 DEF Rooted

LEMMA StandsSpelled ==
    ASSUME NEW m, NEW type, NEW p, Stands(m, type)
    PROVE  Spelled(p, m.type) = Spelled(p, type)
  BY DEF Stands, Spelled

(* A member is read under its name, and the image has nothing that is not  *)
(* read.                                                                   *)
LEMMA MemberRead ==
    ASSUME NEW m, NEW n, Write(m), IsEntry(m.name, m), Stands(m, n.type), below' = below,
           image' = Put(Normal(m.name), n), Rooted(image), Reads
    PROVE  Reads'
<1> DEFINE p == Normal(m.name)
<1>1. m.kind = "member" /\ p \in Path /\ m.name = Spelled(p, m.type)
  BY DEF IsEntry
<1>2. /\ read'.known = read.known
      /\ DOMAIN read'.files = DOMAIN read.files \cup {m.name} /\ read'.files[m.name] = m
      /\ \A k \in DOMAIN read.files : k # m.name => read'.files[k] = read.files[k]
  BY <1>1, ReadMember
<1>3. written' = written \cup {m}
  BY DEF Write
<1>4. ReadFits'
  BY <1>2, <1>3 DEF Reads, ReadFits
<1>5. /\ image'[p] = n
      /\ \A q \in DOMAIN image' : q # p => q \in DOMAIN image /\ image'[q] = image[q]
  BY PutFacts
<1>6. ASSUME NEW q \in DOMAIN image'
      PROVE  Lists(read'.files, q, image'[q].type)
  <2>1. CASE q = p
    <3>1. Spelled(p, n.type) = m.name
      BY <1>1, StandsSpelled
    <3>2. QED
      BY <1>2, <1>5, <2>1, <3>1 DEF Lists
  <2>2. CASE q # p
    <3>1. q \in DOMAIN image /\ image'[q] = image[q] /\ q \in Path
      BY <1>5, <2>2 DEF Rooted
    <3> DEFINE k == Spelled(q, image[q].type)
    <3>2. k \in DOMAIN read.files /\ Stands(read.files[k], image[q].type)
      BY <3>1 DEF Reads, ImageRead, Lists
    <3>3. Normal(k) = q
      BY <3>1, SpelledFacts
    <3>4. k # m.name
      BY <2>2, <3>3
    <3>5. k \in DOMAIN read'.files /\ Stands(read'.files[k], image'[q].type)
      BY <1>2, <3>1, <3>2, <3>4
    <3>6. QED
      BY <3>1, <3>5 DEF Lists
  <2>3. QED
    BY <2>1, <2>2
<1>7. QED
  BY <1>4, <1>6 DEF Reads, ImageRead

(* A subset of the image that takes what is under a path along with it.    *)
LEMMA LessRooted ==
    ASSUME Rooted(image), DOMAIN image' \subseteq DOMAIN image,
           \A q \in DOMAIN image' : image'[q] = image[q],
           \A q \in DOMAIN image' : q # <<>> => Front(q) \in DOMAIN image'
    PROVE  Rooted(image')
  BY DEF Rooted, IsDir

LEMMA WhiteoutRooted ==
    ASSUME Rooted(image), NEW r \in Path, r # <<>>,
           DOMAIN image' = {q \in DOMAIN image : ~ IsPrefix(r, q)},
           \A q \in DOMAIN image' : image'[q] = image[q]
    PROVE  Rooted(image') /\ (IsDir(image, <<>>) => IsDir(image', <<>>))
<1>1. ASSUME NEW q \in DOMAIN image', q # <<>> PROVE Front(q) \in DOMAIN image'
  <2>1. q \in Path /\ Front(q) \in DOMAIN image /\ ~ IsPrefix(r, q)
    BY <1>1 DEF Rooted, IsDir
  <2>2. IsPrefix(r, Front(q)) => IsPrefix(r, q)
    BY <1>1, <2>1, PathIsSeq, PrefixOfFront
  <2>3. QED
    BY <2>1, <2>2
<1>2. ~ IsPrefix(r, <<>>)
  <2>1. IsPrefix(r, <<>>) => Len(r) <= Len(<<>>)
    BY PathIsSeq, PrefixFacts
  <2>2. Len(r) # 0
    BY PathEnds
  <2>3. QED
    BY <2>1, <2>2, PathIsSeq, EmptySeq
<1>3. Rooted(image')
  BY <1>1, LessRooted
<1>4. QED
  BY <1>2, <1>3 DEF IsDir

(* A whiteout takes the same out of the image and of what is read, as far  *)
(* as the image goes.                                                      *)
LEMMA WhiteoutRead ==
    ASSUME NEW m, Write(m), m.kind = "whiteout", NEW d \in Path, NEW c \in PathNames,
           m.name = Join(d, c), m.name \in DOMAIN read.files, below' = below,
           DOMAIN image' = {q \in DOMAIN image : ~ IsPrefix(Append(d, c), q)},
           \A q \in DOMAIN image' : image'[q] = image[q], Rooted(image), Reads
    PROVE  Reads'
<1>1. /\ read.known => read'.known
      /\ DOMAIN read'.files = DOMAIN read.files \ {m.name}
      /\ \A k \in DOMAIN read'.files : read'.files[k] = read.files[k]
  BY ReadWhiteout
<1>2. written' = written \cup {m}
  BY DEF Write
<1>3. ReadFits'
  BY <1>1, <1>2 DEF Reads, ReadFits
<1>4. Normal(m.name) = Append(d, c) /\ Append(d, c) \in Path
  BY JoinFacts, PathAppend
<1>5. ASSUME NEW q \in DOMAIN image'
      PROVE  Lists(read'.files, q, image'[q].type)
  <2>1. q \in DOMAIN image /\ image'[q] = image[q] /\ q \in Path /\ ~ IsPrefix(Append(d, c), q)
    BY DEF Rooted
  <2> DEFINE k == Spelled(q, image[q].type)
  <2>2. k \in DOMAIN read.files /\ Stands(read.files[k], image[q].type)
    BY <2>1 DEF Reads, ImageRead, Lists
  <2>3. Normal(k) = q
    BY <2>1, SpelledFacts
  <2>4. q # Append(d, c)
    BY <1>4, <2>1, PathIsSeq, PrefixFacts
  <2>5. k # m.name
    BY <1>4, <2>3, <2>4
  <2>6. k \in DOMAIN read'.files /\ Stands(read'.files[k], image'[q].type)
    BY <1>1, <2>1, <2>2, <2>5
  <2>7. QED
    BY <2>1, <2>6 DEF Lists
<1>6. QED
  BY <1>3, <1>5 DEF Reads, ImageRead
-----------------------------------------------------------------------------
(***************************************************************************)
(* An image of another builder.                                            *)
(***************************************************************************)
LEMMA PrefixIsUnder ==
    ASSUME NEW d \in dropped, NEW p, IsPrefix(d, p)
    PROVE  UnderDropped(p)
  BY DEF UnderDropped

(* An entry is told by the new tree if its node is still there, or a       *)
(* directory above it went, or one of the root took its place.             *)
LEMMA ToldAfterImport ==
    ASSUME NEW e, NEW p \in Path, Told(e, p), tree = image, tree' = image',
           dropped' = dropped \cup Gone(image, image'), retargeted' = retargeted,
           e.type # "dir" /\ p \in DOMAIN image =>
              \/ p \in DOMAIN image' /\ image'[p] = image[p]
              \/ Len(p) = 1 /\ IsDir(image', p)
              \/ \E r \in Gone(image, image') : IsPrefix(r, p)
    PROVE  Told(e, p)'
<1>1. CASE e.type = "dir"
  BY <1>1 DEF Told
<1>2. CASE UnderDropped(p)
  <2>1. UnderDropped(p)'
    BY <1>2 DEF UnderDropped
  <2>2. QED
    BY <2>1 DEF Told
<1>3. ASSUME NEW r \in Gone(image, image'), IsPrefix(r, p) PROVE Told(e, p)'
  <2>1. UnderDropped(p)'
    BY <1>3 DEF UnderDropped
  <2>2. QED
    BY <2>1 DEF Told
<1>4. CASE Stale(p)
  <2>1. Len(p) = 1 /\ IsDir(image, p)
    BY <1>4 DEF Stale
  <2>2. CASE IsDir(image', p)
    BY <2>1, <2>2 DEF Told, Stale
  <2>3. CASE ~ IsDir(image', p)
    <3>1. p \in Gone(image, image')
      BY <2>1, <2>3 DEF Gone, IsDir
    <3>2. IsPrefix(p, p)
      BY PathIsSeq, PrefixFacts
    <3>3. QED
      BY <1>3, <3>1, <3>2
  <2>4. QED
    BY <2>2, <2>3
<1>5. CASE e.type # "dir" /\ p \in DOMAIN tree /\ Tells(e, tree[p], p \in retargeted)
  <2>1. CASE p \in DOMAIN image' /\ image'[p] = image[p]
    <3>1. Tells(e, tree'[p], p \in retargeted')
      BY <1>5, <2>1 DEF Tells
    <3>2. QED
      BY <2>1, <3>1 DEF Told
  <2>2. CASE Len(p) = 1 /\ IsDir(image', p)
    BY <2>2 DEF Told, Stale
  <2>3. QED
    BY <1>3, <1>5, <2>1, <2>2
<1>6. QED
  BY <1>1, <1>2, <1>4, <1>5 DEF Told

ImportStart == /\ Paths /\ Reads /\ ImportsWhole /\ Idle /\ pc = "import"
               /\ tree' = image' /\ dropped' = dropped \cup Gone(image, image')
               /\ below' = below /\ retargeted' = retargeted

LEMMA ImportStartFacts ==
    ASSUME ImportStart
    PROVE  /\ tree = image /\ Rooted(image) /\ AllTold(read.files)
           /\ \A k \in DOMAIN read.files :
                /\ IsEntry(k, read.files[k]) /\ Normal(k) \in Path
                /\ k = Spelled(Normal(k), read.files[k].type)
                /\ Told(read.files[k], Normal(k))
<1>1. tree = image /\ Rooted(image) /\ AllTold(read.files)
  BY DEF ImportStart, ImportsWhole, Paths, Idle, Complete
<1>2. \A k \in DOMAIN read.files : IsEntry(k, read.files[k]) /\ Told(read.files[k], Normal(k))
  BY <1>1 DEF ImportStart, Reads, ReadFits, AllTold
<1>3. QED
  BY <1>1, <1>2 DEF IsEntry

LEMMA ImportedMember ==
    ASSUME ImportStart, NEW m, Fits(m), Write(m), m.kind = "member"
    PROVE  /\ Rooted(image') /\ (IsDir(image, <<>>) => IsDir(image', <<>>)) /\ Reads'
           /\ AllTold(read.files)'
<1> DEFINE r == Normal(m.name)
<1>1. /\ r \in Path /\ m.name = Spelled(r, m.type)
      /\ IF r = <<>> THEN m.type = "dir" ELSE IsDir(image, Front(r))
      /\ m.type = "link" => /\ Normal(m.link) \in DOMAIN image
                            /\ image[Normal(m.link)].type = "file"
  BY DEF Fits
<1>2. PICK n : /\ image' = Put(r, n) /\ Stands(m, n.type)
               /\ m.type # "link" => n.type = m.type /\ n.attr = m.attr /\ n.data = m.data
               /\ m.type = "link" => n.type = "file"
  <2>1. image' = Unpack(m)
    BY DEF Write, Extract
  <2>2. CASE m.type = "link"
    <3>1. image' = Put(r, image[Normal(m.link)])
      BY <1>1, <2>1, <2>2 DEF Unpack
    <3>2. QED
      BY <1>1, <2>2, <3>1 DEF Stands
  <2>3. CASE m.type # "link"
    <3>1. image' = Put(r, [type |-> m.type, attr |-> m.attr, data |-> m.data])
      BY <2>1, <2>3 DEF Unpack
    <3>2. QED
      BY <2>3, <3>1 DEF Stands
  <2>4. QED
    BY <2>2, <2>3
<1>3. /\ tree = image /\ Rooted(image)
      /\ \A k \in DOMAIN read.files :
           /\ Normal(k) \in Path /\ k = Spelled(Normal(k), read.files[k].type)
           /\ Told(read.files[k], Normal(k))
  BY ImportStartFacts
<1>4. Rooted(image') /\ (IsDir(image, <<>>) => IsDir(image', <<>>))
  <2>1. IF r = <<>> THEN n.type = "dir" ELSE IsDir(image, Front(r))
    BY <1>1, <1>2
  <2> HIDE DEF r
  <2>2. QED
    BY <1>1, <1>2, <1>3, <2>1, PutRooted
<1>5. Reads'
  <2>1. IsEntry(m.name, m)
    BY <1>1 DEF IsEntry
  <2>2. QED
    BY <1>2, <1>3, <2>1, MemberRead DEF ImportStart
<1>6. /\ r \in DOMAIN image' /\ image'[r] = n
      /\ \A q \in DOMAIN image : q # r =>
           \/ q \in DOMAIN image' /\ image'[q] = image[q]
           \/ n.type # "dir" /\ IsStrictPrefix(r, q)
  BY <1>2, PutFacts
<1>7. /\ DOMAIN read'.files = DOMAIN read.files \cup {m.name} /\ read'.files[m.name] = m
      /\ \A k \in DOMAIN read.files : k # m.name => read'.files[k] = read.files[k]
  BY ReadMember
<1>8. ASSUME NEW k \in DOMAIN read'.files, NEW f, f = read'.files[k]
      PROVE  Told(f, Normal(k))'
  <2> DEFINE p == Normal(k)
  <2>1. CASE k = m.name
    <3>1. CASE m.type = "dir"
      BY <1>7, <1>8, <2>1, <3>1 DEF Told
    <3>2. CASE m.type # "dir"
      <4>1. Tells(m, image'[r], r \in retargeted')
        BY <1>2, <1>6 DEF Tells
      <4>2. r \in DOMAIN tree' /\ Tells(m, tree'[r], r \in retargeted')
        BY <1>6, <4>1 DEF ImportStart
      <4>3. Told(m, r)'
        BY <4>2 DEF Told
      <4>4. QED
        BY <1>7, <1>8, <2>1, <4>3
    <3>3. QED
      BY <3>1, <3>2
  <2>2. CASE k # m.name
    <3>1. k \in DOMAIN read.files /\ f = read.files[k]
      BY <1>7, <1>8, <2>2
    <3>2. p \in Path /\ k = Spelled(p, f.type) /\ Told(f, p)
      BY <1>3, <3>1
    <3>3. ASSUME f.type # "dir", p \in DOMAIN image
          PROVE  \/ p \in DOMAIN image' /\ image'[p] = image[p]
                 \/ Len(p) = 1 /\ IsDir(image', p)
                 \/ \E q \in Gone(image, image') : IsPrefix(q, p)
      <4>1. CASE p = r
        <5>1. Len(p) = 1
          BY <1>1, <2>2, <3>2, <4>1, SpelledFacts
        <5>2. p # <<>>
          BY <5>1, EmptySeq
        <5>3. m.type = "dir"
          BY <1>1, <2>2, <3>2, <3>3, <4>1, <5>2, SpelledFacts
        <5>4. n.type = "dir"
          BY <1>2, <5>3
        <5>5. QED
          BY <1>6, <4>1, <5>1, <5>4 DEF IsDir
      <4>2. CASE p # r /\ n.type # "dir" /\ IsStrictPrefix(r, p)
        <5>1. IsDir(image, r)
          BY <1>1, <1>3, <3>3, <4>2, RootedFacts
        <5>2. r \in Gone(image, image')
          BY <1>6, <4>2, <5>1 DEF Gone, IsDir
        <5>3. IsPrefix(r, p)
          BY <4>2 DEF IsStrictPrefix
        <5>4. QED
          BY <5>2, <5>3
      <4>3. QED
        BY <1>6, <3>3, <4>1, <4>2
    <3>4. QED
      BY <1>3, <3>2, <3>3, ToldAfterImport DEF ImportStart
  <2>3. QED
    BY <2>1, <2>2
<1>9. AllTold(read.files)'
  BY <1>8 DEF AllTold
<1>10. QED
  BY <1>4, <1>5, <1>9

(* What an import takes out of the image it takes out of what is read, or  *)
(* it took a directory that it was in.                                     *)
LEMMA ImportedLess ==
    ASSUME ImportStart, DOMAIN read'.files \subseteq DOMAIN read.files,
           \A k \in DOMAIN read'.files : read'.files[k] = read.files[k],
           \A q \in DOMAIN image' : image'[q] = image[q],
           \A k \in DOMAIN read'.files :
              read.files[k].type # "dir" /\ Normal(k) \in DOMAIN image =>
                 \/ Normal(k) \in DOMAIN image'
                 \/ \E r \in Gone(image, image') : IsPrefix(r, Normal(k))
    PROVE  AllTold(read.files)'
<1>1. ASSUME NEW k \in DOMAIN read'.files, NEW e, e = read'.files[k]
      PROVE  Told(e, Normal(k))'
  <2>1. k \in DOMAIN read.files /\ e = read.files[k]
    BY <1>1
  <2>2. Normal(k) \in Path /\ Told(e, Normal(k)) /\ tree = image
    BY <2>1, ImportStartFacts
  <2>3. e.type # "dir" /\ Normal(k) \in DOMAIN image =>
           \/ Normal(k) \in DOMAIN image' /\ image'[Normal(k)] = image[Normal(k)]
           \/ \E r \in Gone(image, image') : IsPrefix(r, Normal(k))
    BY <2>1
  <2>4. QED
    BY <2>2, <2>3, ToldAfterImport DEF ImportStart
<1>2. QED
  BY <1>1 DEF AllTold

LEMMA ImportedWhiteout ==
    ASSUME ImportStart, NEW m, Fits(m), Write(m), m.kind = "whiteout"
    PROVE  /\ Rooted(image') /\ (IsDir(image, <<>>) => IsDir(image', <<>>)) /\ Reads'
           /\ AllTold(read.files)'
<1> DEFINE r == Normal(m.name)
<1>1. /\ r \in Path /\ r # <<>> /\ m.name = Join(Front(r), Last(r)) /\ m.name \in DOMAIN read.files
      /\ \A q \in Unpacked : ~ IsPrefix(r, q)
  BY DEF Fits
<1>2. Front(r) \in Path /\ Last(r) \in PathNames /\ r = Append(Front(r), Last(r))
  BY <1>1, PathEnds
<1>3. /\ DOMAIN image' = {q \in DOMAIN image : ~ IsPrefix(r, q)}
      /\ \A q \in DOMAIN image' : image'[q] = image[q]
  BY <1>1, ImageWhiteout
<1>4. /\ tree = image /\ Rooted(image)
      /\ \A k \in DOMAIN read.files :
           /\ Normal(k) \in Path /\ k = Spelled(Normal(k), read.files[k].type)
  BY ImportStartFacts
<1> HIDE DEF r
<1>5. Rooted(image') /\ (IsDir(image, <<>>) => IsDir(image', <<>>))
  BY <1>1, <1>3, <1>4, WhiteoutRooted
<1>6. Reads'
  <2>1. DOMAIN image' = {q \in DOMAIN image : ~ IsPrefix(Append(Front(r), Last(r)), q)}
    BY <1>2, <1>3
  <2>2. QED
    BY <1>1, <1>2, <1>3, <1>4, <2>1, WhiteoutRead DEF ImportStart
<1>7. /\ DOMAIN read'.files = DOMAIN read.files \ {m.name}
      /\ \A k \in DOMAIN read'.files : read'.files[k] = read.files[k]
  BY <1>1, ReadWhiteout
<1>8. ASSUME NEW k \in DOMAIN read'.files, read.files[k].type # "dir", Normal(k) \in DOMAIN image
      PROVE  \/ Normal(k) \in DOMAIN image'
             \/ \E d \in Gone(image, image') : IsPrefix(d, Normal(k))
  <2> DEFINE p == Normal(k)
  <2>1. k \in DOMAIN read.files /\ k # m.name /\ p \in Path /\ k = Spelled(p, read.files[k].type)
    BY <1>4, <1>7
  <2>2. CASE ~ IsPrefix(r, p)
    BY <1>3, <1>8, <2>2
  <2>3. CASE IsPrefix(r, p)
    <3>1. r # p
      <4>1. SUFFICES ASSUME r = p PROVE FALSE
        OBVIOUS
      <4>2. Spelled(p, read.files[k].type) = Join(Front(p), Last(p))
        BY <1>1, <1>8, <2>1, <4>1, SpelledFacts
      <4>3. QED
        BY <1>1, <2>1, <4>1, <4>2
    <3>2. IsDir(image, r)
      BY <1>1, <1>4, <1>8, <2>3, <3>1, RootedFacts DEF IsStrictPrefix
    <3>3. IsPrefix(r, r)
      BY <1>1, PathIsSeq, PrefixFacts
    <3>4. r \in Gone(image, image')
      BY <1>3, <3>2, <3>3 DEF Gone, IsDir
    <3>5. QED
      BY <2>3, <3>4
  <2>4. QED
    BY <2>2, <2>3
<1>9. AllTold(read.files)'
  BY <1>3, <1>7, <1>8, ImportedLess
<1>10. QED
  BY <1>5, <1>6, <1>9

LEMMA OpaqueNames ==
    ASSUME NEW r \in Path, NEW p \in Path, NEW type, IsStrictPrefix(r, p),
           r # <<>> \/ (Len(p) = 1 /\ type # "dir")
    PROVE  IsStrictPrefix(RelPath(r), Spelled(p, type))
<1>1. IsPrefix(r, p) /\ r # p /\ Len(r) <= Len(p) /\ Len(r) # Len(p) /\ Len(r) \in Nat /\ Len(p) \in Nat
  BY PathIsSeq, PrefixFacts DEF IsStrictPrefix
<1>2. CASE r # <<>>
  <2>1. Len(r) # 0
    BY <1>2, PathEnds
  <2>2. Len(p) # 1
    <3>1. Len(r) < Len(p) /\ Len(r) >= 1
      BY <1>1, <2>1
    <3>2. QED
      BY <1>1, <3>1, SmallNumbers
  <2>3. p # <<>>
    BY <1>1, <2>1, EmptySeq
  <2>4. Spelled(p, type) = p /\ RelPath(r) = r
    BY <1>2, <2>2, <2>3, SpelledFacts DEF RelPath
  <2>5. QED
    BY <2>4
<1>3. CASE r = <<>> /\ Len(p) = 1 /\ type # "dir"
  <2>1. p # <<>>
    BY <1>3, <1>1
  <2>2. Front(p) \in Path /\ Len(Front(p)) = 0 /\ Last(p) \in PathNames
    BY <1>3, <2>1, PathEnds
  <2>3. Front(p) = <<>>
    BY <2>2, PathEnds
  <2> DEFINE k == Spelled(p, type)
  <2>4. k = Join(<<>>, Last(p))
    BY <1>3, <2>1, <2>3, SpelledFacts
  <2>5. k \in Seq(AllNames) /\ Front(k) = RelPath(<<>>) /\ k # <<>>
    <3>1. <<>> \in Path /\ Last(p) \in PathNames
      BY <2>2, PathIsSeq
    <3>2. /\ Join(<<>>, Last(p)) \in Seq(AllNames)
          /\ Front(Join(<<>>, Last(p))) = RelPath(<<>>)
      BY <3>1, JoinFacts
    <3>3. k # <<>>
      BY SpelledFacts
    <3> HIDE DEF k
    <3>4. QED
      BY <2>4, <3>2, <3>3
  <2> HIDE DEF k
  <2>6. RelPath(<<>>) \in Seq(AllNames)
    BY PathIsSeq, RelPathFacts
  <2>7. IsPrefix(RelPath(<<>>), Front(k))
    BY <2>5, <2>6, PrefixFacts
  <2>8. IsPrefix(RelPath(<<>>), k)
    BY <2>5, <2>6, <2>7, PrefixOfFront
  <2>9. RelPath(<<>>) # k
    <3>1. Len(Front(k)) = Len(k) - 1 /\ Len(k) \in Nat
      BY <2>5, FrontLast
    <3>2. QED
      BY <2>5, <3>1
  <2>10. QED
    BY <1>3, <2>8, <2>9 DEF IsStrictPrefix, k
<1>4. QED
  BY <1>2, <1>3

LEMMA ImportedOpaque ==
    ASSUME ImportStart, NEW m, Fits(m), Write(m), m.kind = "opaque"
    PROVE  /\ Rooted(image') /\ (IsDir(image, <<>>) => IsDir(image', <<>>)) /\ Reads'
           /\ AllTold(read.files)'
<1> DEFINE r == Normal(m.name)
<1>1. /\ r \in Path /\ m.name = RelPath(r) /\ \A q \in Unpacked : ~ IsStrictPrefix(r, q)
  BY DEF Fits
<1>2. /\ DOMAIN image' = {q \in DOMAIN image : ~ IsStrictPrefix(r, q)}
      /\ \A q \in DOMAIN image' : image'[q] = image[q]
  BY <1>1, ImageOpaque
<1>3. /\ read.known => read'.known
      /\ DOMAIN read'.files = {k \in DOMAIN read.files : ~ IsStrictPrefix(RelPath(r), k)}
      /\ \A k \in DOMAIN read'.files : read'.files[k] = read.files[k]
  BY <1>1, ReadOpaque
<1>4. /\ tree = image /\ Rooted(image)
      /\ \A k \in DOMAIN read.files :
           /\ Normal(k) \in Path /\ k = Spelled(Normal(k), read.files[k].type)
  BY ImportStartFacts
<1> HIDE DEF r
<1>5. ASSUME NEW q \in DOMAIN image', q # <<>> PROVE Front(q) \in DOMAIN image'
  <2>1. q \in Path /\ Front(q) \in DOMAIN image /\ Front(q) \in Path /\ ~ IsStrictPrefix(r, q)
    BY <1>2, <1>4, <1>5, PathEnds DEF Rooted, IsDir
  <2>2. IsStrictPrefix(r, Front(q)) => IsPrefix(r, q) /\ r # q
    <3>1. ASSUME IsStrictPrefix(r, Front(q)) PROVE IsPrefix(r, q) /\ r # q
      <4>1. IsPrefix(r, q) /\ Len(r) <= Len(Front(q))
        BY <1>1, <1>5, <2>1, <3>1, PathIsSeq, PrefixOfFront, PrefixFacts DEF IsStrictPrefix
      <4>2. Len(Front(q)) = Len(q) - 1 /\ Len(q) \in Nat
        BY <1>5, <2>1, PathEnds
      <4>3. QED
        BY <4>1, <4>2
    <3>2. QED
      BY <3>1
  <2>3. QED
    BY <1>2, <2>1, <2>2 DEF IsStrictPrefix
<1>6. Rooted(image')
  BY <1>2, <1>4, <1>5, LessRooted
<1>7. ASSUME IsDir(image, <<>>) PROVE IsDir(image', <<>>)
  <2>1. ~ IsStrictPrefix(r, <<>>)
    <3>1. IsPrefix(r, <<>>) => Len(r) <= Len(<<>>)
      BY <1>1, PathIsSeq, PrefixFacts
    <3>2. r # <<>> => Len(r) # 0 /\ Len(r) \in Nat
      BY <1>1, PathEnds
    <3>3. Len(<<>>) = 0
      BY EmptySeq
    <3>4. QED
      BY <3>1, <3>2, <3>3 DEF IsStrictPrefix
  <2>2. QED
    BY <1>2, <1>7, <2>1 DEF IsDir
<1>8. Reads'
  <2>1. written' = written \cup {m} /\ below' = below
    BY DEF Write, ImportStart
  <2>2. ReadFits'
    BY <1>3, <2>1 DEF ImportStart, Reads, ReadFits
  <2>3. ASSUME NEW q \in DOMAIN image' PROVE Lists(read'.files, q, image'[q].type)
    <3>1. q \in DOMAIN image /\ image'[q] = image[q] /\ q \in Path /\ ~ IsStrictPrefix(r, q)
      BY <1>2, <1>4 DEF Rooted
    <3> DEFINE k == Spelled(q, image[q].type)
    <3>2. k \in DOMAIN read.files /\ Stands(read.files[k], image[q].type)
      BY <3>1 DEF ImportStart, Reads, ImageRead, Lists
    <3>3. ~ IsStrictPrefix(RelPath(r), k)
      <4>1. SUFFICES ASSUME IsStrictPrefix(RelPath(r), k) PROVE FALSE
        OBVIOUS
      <4>2. CASE q = <<>>
        <5>1. k = <<".">> /\ Len(<<".">>) = 1
          BY <4>2 DEF Spelled, RelPath
        <5>2. RelPath(r) \in Seq(AllNames) /\ RelPath(r) # <<>> /\ <<".">> \in Seq(AllNames)
          BY <1>1, RelPathFacts, RootName
        <5> DEFINE l == RelPath(r)
        <5> HIDE DEF l
        <5>3. Len(l) <= 1 /\ Len(l) # 1
          BY <4>1, <5>1, <5>2, PrefixFacts DEF IsStrictPrefix, l
        <5>4. Len(l) \in Nat \ {0}
          BY <5>2, EmptySeq DEF l
        <5>5. QED
          BY <5>3, <5>4, SmallNumbers
      <4>3. CASE q # <<>> /\ r = <<>>
        <5>1. IsPrefix(<<>>, q)
          BY <3>1, PathIsSeq, PrefixFacts
        <5>2. QED
          BY <3>1, <4>3, <5>1 DEF IsStrictPrefix
      <4>4. CASE q # <<>> /\ r # <<>>
        <5>1. RelPath(r) = r
          BY <4>4 DEF RelPath
        <5>2. CASE k = q
          BY <3>1, <4>1, <5>1, <5>2
        <5>3. CASE k # q
          <6>1. k = Join(Front(q), Last(q)) /\ Front(q) \in Path /\ Last(q) \in PathNames
                /\ q = Append(Front(q), Last(q))
            BY <3>1, <4>4, <5>3, PathEnds, SpelledFacts DEF RelPath
          <6>2. Front(q) = <<>>
            BY <5>3, <6>1, JoinFacts
          <6>3. /\ k \in Seq(AllNames) /\ Front(k) = <<".">> /\ k # <<>>
            BY <3>1, <6>1, <6>2, JoinFacts, SpelledFacts DEF RelPath
          <6>4. IsPrefix(r, <<".">>) /\ r \in Seq(AllNames)
            BY <1>1, <4>1, <5>1, <6>3, PathIsSeq, PrefixOfFront DEF IsStrictPrefix
          <6>5. Len(r) <= Len(<<".">>) /\ (Len(r) = Len(<<".">>) => r = <<".">>)
            BY <6>4, RootName, PrefixFacts
          <6>6. Len(<<".">>) = 1 /\ Len(r) \in Nat \ {0}
            BY <1>1, <4>4, PathEnds
          <6>7. r = <<".">>
            <7>1. Len(r) <= 1
              BY <6>5, <6>6
            <7>2. Len(r) = 1
              BY <6>6, <7>1, SmallNumbers
            <7>3. QED
              BY <6>5, <6>6, <7>2
          <6>8. QED
            BY <1>1, <6>7, RootName
        <5>4. QED
          BY <5>2, <5>3
      <4>5. QED
        BY <4>2, <4>3, <4>4
    <3>4. k \in DOMAIN read'.files /\ Stands(read'.files[k], image'[q].type)
      BY <1>3, <3>1, <3>2, <3>3
    <3>5. QED
      BY <3>1, <3>4 DEF Lists
  <2>4. QED
    BY <2>2, <2>3 DEF Reads, ImageRead
<1>9. ASSUME NEW k \in DOMAIN read'.files, read.files[k].type # "dir", Normal(k) \in DOMAIN image
      PROVE  \/ Normal(k) \in DOMAIN image'
             \/ \E d \in Gone(image, image') : IsPrefix(d, Normal(k))
  <2> DEFINE p == Normal(k)
  <2>1. /\ k \in DOMAIN read.files /\ p \in Path /\ k = Spelled(p, read.files[k].type)
        /\ ~ IsStrictPrefix(RelPath(r), k)
    BY <1>3, <1>4
  <2>2. CASE ~ IsStrictPrefix(r, p)
    BY <1>2, <1>9, <2>2
  <2>3. CASE IsStrictPrefix(r, p)
    <3>1. r = <<>> /\ Len(p) # 1
      BY <1>1, <1>9, <2>1, <2>3, OpaqueNames
    <3>2. p \notin {<<>>}
      BY <2>3, <3>1 DEF IsStrictPrefix
    <3>3. PICK q \in Path : IsPrefix(q, p) /\ q # <<>> /\ q \notin {<<>>} /\ Front(q) \in {<<>>}
      BY <2>1, <3>2, FirstMissing
    <3>4. Len(q) = 1
      <4>1. Len(Front(q)) = Len(q) - 1 /\ Len(q) \in Nat
        BY <3>3, PathEnds
      <4>2. Len(Front(q)) = 0
        BY <3>3, EmptySeq
      <4>3. QED
        BY <4>1, <4>2
    <3>5. IsStrictPrefix(q, p)
      BY <3>1, <3>3, <3>4 DEF IsStrictPrefix
    <3>6. IsDir(image, q)
      BY <1>4, <1>9, <3>3, <3>5, RootedFacts
    <3>7. IsStrictPrefix(r, q)
      BY <3>1, <3>3, PathIsSeq, PrefixFacts DEF IsStrictPrefix
    <3>8. q \in Gone(image, image')
      BY <1>2, <3>6, <3>7 DEF Gone, IsDir
    <3>9. QED
      BY <3>3, <3>8
  <2>4. QED
    BY <2>2, <2>3
<1>10. AllTold(read.files)'
  BY <1>2, <1>3, <1>9, ImportedLess
<1>11. QED
  BY <1>6, <1>7, <1>8, <1>10
-----------------------------------------------------------------------------
(***************************************************************************)
(* The directory in hand and what the walk has done.                       *)
(***************************************************************************)
LEMMA UpperFacts ==
    ASSUME NEW t \in Trees
    PROVE  /\ Rooted(t) /\ IsDir(t, <<>>) /\ \A p \in DOMAIN t : t[p] \in Node
           /\ \A p \in DOMAIN t : t[p].type = "dir" => t[p].data = ""
           /\ \A p, q \in DOMAIN t :
                 t[p].type = "file" /\ t[q].type = "file" /\ t[p].ino = t[q].ino => t[p] = t[q]
<1>1. IsTree(t)
  BY TreesAssumption
<1>2. QED
  BY <1>1 DEF IsTree, Rooted, IsDir

LEMMA ViewFacts ==
    ASSUME NEW t
    PROVE  /\ DOMAIN View(t) = DOMAIN t
           /\ \A p \in DOMAIN t : /\ View(t)[p].type = t[p].type /\ View(t)[p].attr = t[p].attr
                                  /\ View(t)[p].data = t[p].data
                                  /\ View(t)[p] = [type |-> t[p].type, attr |-> t[p].attr,
                                                   data |-> t[p].data]
  BY DEF View

LEMMA EntriesFacts ==
    ASSUME NEW t, Rooted(t), NEW d \in Path, NEW n
    PROVE  /\ n \in Entries(t, d) => n \in PathNames /\ Append(d, n) \in DOMAIN t
           /\ n \in PathNames /\ Append(d, n) \in DOMAIN t => n \in Entries(t, d)
<1>1. ASSUME n \in Entries(t, d) PROVE n \in PathNames /\ Append(d, n) \in DOMAIN t
  <2>1. PICK p \in DOMAIN t : p # <<>> /\ Front(p) = d /\ n = Last(p)
    BY <1>1 DEF Entries
  <2>2. p \in Path
    BY DEF Rooted
  <2>3. QED
    BY <2>1, <2>2, PathEnds
<1>2. ASSUME n \in PathNames, Append(d, n) \in DOMAIN t PROVE n \in Entries(t, d)
  <2> DEFINE p == Append(d, n)
  <2>1. p # <<>> /\ Front(p) = d /\ Last(p) = n
    BY <1>2, PathAppend
  <2> HIDE DEF p
  <2>2. p \in {q \in DOMAIN t \ {<<>>} : Front(q) = d}
    BY <1>2, <2>1 DEF p
  <2>3. QED
    BY <2>1, <2>2 DEF Entries
<1>3. QED
  BY <1>1, <1>2

(* What is under a path that a tree does not have is not in the tree.      *)
LEMMA NotUnder ==
    ASSUME NEW t, Rooted(t), NEW r \in Path, r \notin DOMAIN t, NEW q \in DOMAIN t
    PROVE  ~ IsPrefix(r, q)
<1>1. SUFFICES ASSUME IsPrefix(r, q) PROVE FALSE
  OBVIOUS
<1>2. IsStrictPrefix(r, q)
  BY <1>1 DEF IsStrictPrefix
<1>3. IsDir(t, r)
  BY <1>2, RootedFacts
<1>4. QED
  BY <1>3 DEF IsDir

GoneFits(d, n) ==
    /\ n \in PathNames /\ Append(d, n) \in Path /\ Append(d, n) \notin DOMAIN upper
    /\ Join(d, n) \in DOMAIN lower /\ Normal(Join(d, n)) = Append(d, n)

(* A whiteout is for a name of the lower layers, and for a path that the   *)
(* tree does not have.                                                     *)
LEMMA GoneFacts ==
    ASSUME upper \in Trees, LowerFits, NEW d \in Path, NEW n \in GoneFrom(d)
    PROVE  GoneFits(d, n)
<1>1. n \in LowerDirContents(lower, RelPath(d)) /\ n \notin Entries(upper, d)
  BY DEF GoneFrom
<1>2. PICK k \in DOMAIN lower : Front(k) = RelPath(d) /\ n = Last(k)
  BY <1>1 DEF LowerDirContents
<1> DEFINE p == Normal(k)
<1>3. p \in Path /\ k = Spelled(p, lower[k].type)
  BY DEF LowerFits, IsEntry
<1> HIDE DEF p
<1>4. p # <<>> /\ Front(p) = d /\ k = Join(d, Last(k)) /\ Last(k) = Last(p)
  BY <1>2, <1>3, ContentsAreJoined
<1>5. n \in PathNames /\ k = Join(d, n)
  BY <1>2, <1>3, <1>4, PathEnds
<1>6. Append(d, n) \in Path /\ Normal(Join(d, n)) = Append(d, n)
  BY <1>5, PathAppend, JoinFacts
<1>7. Append(d, n) \notin DOMAIN upper
  BY <1>1, <1>5, UpperFacts, EntriesFacts
<1>8. QED
  BY <1>5, <1>6, <1>7 DEF GoneFits

(* Any entry that the lower layers have for what is not a directory here,  *)
(* and that the tree does not have.                                        *)
LEMMA GoneWhenMissing ==
    ASSUME upper \in Trees, NEW p \in Path, p # <<>>, p \notin DOMAIN upper,
           Join(Front(p), Last(p)) \in DOMAIN lower
    PROVE  Last(p) \in GoneFrom(Front(p))
<1>1. Front(p) \in Path /\ Last(p) \in PathNames /\ p = Append(Front(p), Last(p))
  BY PathEnds
<1> DEFINE k == Join(Front(p), Last(p))
<1>2. Front(k) = RelPath(Front(p)) /\ Last(k) = Last(p)
  BY <1>1, JoinFacts
<1>3. Last(p) \in LowerDirContents(lower, RelPath(Front(p)))
  <2> HIDE DEF k
  <2>1. k \in {name \in DOMAIN lower : Front(name) = RelPath(Front(p))}
    BY <1>2 DEF k
  <2>2. QED
    BY <1>2, <2>1 DEF LowerDirContents
<1>4. Last(p) \notin Entries(upper, Front(p))
  BY <1>1, UpperFacts, EntriesFacts
<1>5. QED
  BY <1>3, <1>4 DEF GoneFrom

LEMMA DonePaths ==
    ASSUME upper \in Trees, NEW d \in DoneDirs
    PROVE  d \in Path /\ d \in DOMAIN upper /\ IsDir(upper, d) /\ d \in Unpacked
  BY UpperFacts DEF DoneDirs, IsDir, Rooted

LEMMA WhiteoutFacts ==
    ASSUME Walk, NEW m \in written, m.kind = "whiteout"
    PROVE  \E d \in DoneDirs : \E n \in GoneFrom(d) :
              m = Whiteout(d, n) /\ m.name = Join(d, n) /\ d \in Path /\ GoneFits(d, n)
<1>1. IsWhiteout(m)
  BY DEF Walk, WrittenFits
<1>2. PICK d \in DoneDirs : \E n \in GoneFrom(d) : m = Whiteout(d, n)
  BY <1>1 DEF IsWhiteout
<1>3. PICK n \in GoneFrom(d) : m = Whiteout(d, n)
  BY <1>2
<1>4. d \in Path
  BY DonePaths DEF Walk
<1>5. GoneFits(d, n)
  BY <1>4, GoneFacts DEF Walk
<1>6. m.name = Join(d, n)
  BY <1>3 DEF Whiteout
<1>7. QED
  BY <1>3, <1>4, <1>5, <1>6

(* Whiteouts are written for what directories no longer have. *)
LEMMA WhitedFacts ==
    ASSUME Walk, NEW k \in Whited
    PROVE  \E d \in DoneDirs : \E n \in GoneFrom(d) : k = Join(d, n) /\ d \in Path /\ GoneFits(d, n)
<1>1. PICK m \in written : m.kind = "whiteout" /\ k = m.name
  BY DEF Whited
<1>2. QED
  BY <1>1, WhiteoutFacts

LEMMA WrittenMore ==
    ASSUME NEW m, written' = written \cup {m}
    PROVE  /\ Named' = IF m.kind = "member" THEN Named \cup {m.name} ELSE Named
           /\ Whited' = IF m.kind = "whiteout" THEN Whited \cup {m.name} ELSE Whited
<1>1. CASE m.kind = "member"
  BY <1>1 DEF Named, Whited
<1>2. CASE m.kind = "whiteout"
  BY <1>2 DEF Named, Whited
<1>3. CASE m.kind # "member" /\ m.kind # "whiteout"
  BY <1>3 DEF Named, Whited
<1>4. QED
  BY <1>1, <1>2, <1>3
-----------------------------------------------------------------------------
(***************************************************************************)
(* What an entry that create_layer writes does to the readers' side.       *)
(***************************************************************************)
WrittenWalk == LowerFits /\ Remains /\ AsUpper /\ AsTree /\ WrittenFits /\ ReadSoFar /\ Hides

LEMMA LowerKept == ASSUME LowerFits, Rest PROVE LowerFits'
<1>1. /\ lower' = lower /\ tree' = tree /\ below' = below
      /\ dropped' = dropped /\ retargeted' = retargeted
  BY DEF Rest
<1>2. (\A p : UnderDropped(p)' <=> UnderDropped(p)) /\ (\A p : Stale(p)' <=> Stale(p))
  BY <1>1 DEF UnderDropped, Stale
<1>3. AllTold(lower)'
  BY <1>1, <1>2 DEF LowerFits, AllTold, Told
<1>4. FilesListed(lower)'
  BY <1>1, <1>2 DEF LowerFits, FilesListed
<1>5. QED
  BY <1>1, <1>3, <1>4 DEF LowerFits

LEMMA KeptStill ==
    ASSUME NEW p, Kept(p), Rest, p \in DOMAIN image => p \in DOMAIN image' /\ image'[p] = image[p]
    PROVE  Kept(p)'
  BY DEF Kept, Rest, UnderDropped

LEMMA RemainsStill ==
    ASSUME Remains, Rest, \A p \in DOMAIN image' \ Unpacked' :
              p \in DOMAIN image \ Unpacked /\ image'[p] = image[p]
    PROVE  Remains'
  BY DEF Remains, Rest, UnderDroppedAtRoot

LEMMA WrittenStill ==
    ASSUME WrittenFits, Rest, NEW m, written' = written \cup {m}, DoneDirs \subseteq DoneDirs',
           \/ m.kind = "member" /\ IsOfUpper(m) /\ (m.type = "file" => Differs(m))
           \/ m.kind = "whiteout" /\ IsWhiteout(m)
    PROVE  WrittenFits'
<1>1. upper' = upper /\ lower' = lower
  BY DEF Rest
<1>2. \A w : (IsOfUpper(w)' <=> IsOfUpper(w)) /\ (Differs(w)' <=> Differs(w))
  BY <1>1 DEF IsOfUpper, Differs
<1>3. \A d : GoneFrom(d)' = GoneFrom(d)
  BY <1>1 DEF GoneFrom
<1>4. \A w : IsWhiteout(w) => IsWhiteout(w)'
  BY <1>3 DEF IsWhiteout
<1>5. QED
  BY <1>2, <1>4 DEF WrittenFits

(* Writing the member of a node of the tree keeps what the walk knows. *)
LEMMA WalkMember ==
    ASSUME Paths, Reads, Walk, Rest, NEW p \in DOMAIN upper, NEW m, Write(m),
           IsOfUpper(m), Normal(m.name) = p, Stands(m, upper[p].type),
           m.type = "file" => Differs(m),
           image' = Put(p, View(upper)[p]),
           p # <<>> => Front(p) \in DoneDirs
    PROVE  /\ Rooted(image') /\ Reads' /\ WrittenWalk' /\ Unpacked' = Unpacked \cup {p}
           /\ Whited' = Whited
<1>1. /\ Rooted(image) /\ Rooted(upper) /\ upper \in Trees /\ IsDir(upper, <<>>)
      /\ upper' = upper /\ lower' = lower /\ tree' = tree /\ below' = below
  BY UpperFacts DEF Paths, Walk, Rest
<1>2. m.kind = "member" /\ IsEntry(m.name, m) /\ p \in Path
  BY DEF IsOfUpper, IsEntry
<1>3. written' = written \cup {m}
  BY DEF Write
<1>4. Unpacked' = Unpacked \cup {p} /\ Named' = Named \cup {m.name} /\ Whited' = Whited
  BY <1>2, <1>3, UnpackedFacts, WrittenMore
<1> DEFINE n == View(upper)[p]
<1>5. n.type = upper[p].type
  BY ViewFacts
<1>6. IF p = <<>> THEN n.type = "dir" ELSE IsDir(image, Front(p))
  <2>1. CASE p = <<>>
    BY <1>1, <1>5, <2>1 DEF IsDir
  <2>2. CASE p # <<>>
    <3>1. Front(p) \in Unpacked /\ IsDir(upper, Front(p)) /\ Front(p) \in DOMAIN upper
      BY <1>1, <2>2, DonePaths
    <3>2. Front(p) \in DOMAIN image /\ image[Front(p)] = View(upper)[Front(p)]
      BY <3>1 DEF Walk, AsUpper
    <3>3. image[Front(p)].type = "dir"
      <4>1. View(upper)[Front(p)].type = upper[Front(p)].type
        BY <3>1, ViewFacts
      <4>2. QED
        BY <3>1, <3>2, <4>1 DEF IsDir
    <3>4. QED
      BY <2>2, <3>2, <3>3 DEF IsDir
  <2>3. QED
    BY <2>1, <2>2
<1> HIDE DEF n
<1>7. image' = Put(p, n)
  BY DEF n
<1>8. Rooted(image')
  BY <1>1, <1>2, <1>6, <1>7, PutRooted
<1>9. Reads'
  BY <1>1, <1>2, <1>5, <1>7, MemberRead
<1>10. /\ p \in DOMAIN image' /\ image'[p] = n
       /\ \A q \in DOMAIN image' : q # p => q \in DOMAIN image /\ image'[q] = image[q]
       /\ \A q \in DOMAIN image : \/ q \in DOMAIN image'
                                  \/ n.type # "dir" /\ IsStrictPrefix(p, q)
  BY <1>7, PutFacts
<1>11. ASSUME NEW q \in DOMAIN upper, q # p, q \in DOMAIN image
       PROVE  q \in DOMAIN image' /\ image'[q] = image[q]
  <2>1. IsStrictPrefix(p, q) => upper[p].type = "dir"
    BY <1>1, <1>2, RootedFacts DEF IsDir
  <2>2. QED
    BY <1>5, <1>10, <1>11, <2>1
<1>12. LowerFits'
  BY LowerKept DEF Walk
<1>13. Remains'
  <2>1. \A q \in DOMAIN image' \ Unpacked' : q \in DOMAIN image \ Unpacked /\ image'[q] = image[q]
    BY <1>4, <1>10
  <2>2. QED
    BY <2>1, RemainsStill DEF Walk
<1>14. AsUpper'
  <2>1. ASSUME NEW q \in Unpacked'
        PROVE  q \in DOMAIN upper /\ q \in DOMAIN image' /\ image'[q] = View(upper)[q]
    <3>1. CASE q = p
      BY <1>10, <3>1 DEF n
    <3>2. CASE q # p
      <4>1. q \in DOMAIN upper /\ q \in DOMAIN image /\ image[q] = View(upper)[q]
        BY <1>4, <2>1, <3>2 DEF Walk, AsUpper
      <4>2. QED
        BY <1>11, <3>2, <4>1
    <3>3. QED
      BY <3>1, <3>2
  <2>2. QED
    BY <1>1, <2>1 DEF AsUpper
<1>15. AsTree'
  <2>1. ASSUME NEW q \in (DOMAIN tree \cap DOMAIN upper) \ Unpacked' PROVE Kept(q)'
    <3>1. Kept(q) /\ q # p /\ q \in DOMAIN upper
      BY <1>4, <2>1 DEF Walk, AsTree
    <3>2. q \in DOMAIN image => q \in DOMAIN image' /\ image'[q] = image[q]
      BY <1>11, <3>1
    <3>3. QED
      BY <3>1, <3>2, KeptStill
  <2>2. QED
    BY <1>1, <2>1 DEF AsTree
<1>16. WrittenFits'
  <2>1. DoneDirs \subseteq DoneDirs'
    BY <1>1, <1>4 DEF DoneDirs
  <2>2. QED
    BY <1>2, <1>3, <2>1, WrittenStill DEF Walk
<1>17. ReadSoFar'
  <2>1. /\ DOMAIN read'.files = DOMAIN read.files \cup {m.name} /\ read'.files[m.name] = m
        /\ \A k \in DOMAIN read.files : k # m.name => read'.files[k] = read.files[k]
    BY <1>2, ReadMember
  <2>2. \A k \in DOMAIN lower : k \in DOMAIN read'.files \/ k \in Whited
    BY <2>1 DEF Walk, ReadSoFar
  <2>3. ASSUME NEW k \in DOMAIN read'.files
        PROVE  \/ read'.files[k] \in written'
               \/ /\ k \notin Named' /\ k \notin Whited'
                  /\ k \in DOMAIN lower /\ read'.files[k] = lower[k]
    <3>1. CASE k = m.name
      BY <1>3, <2>1, <3>1
    <3>2. CASE k # m.name
      <4>1. k \in DOMAIN read.files /\ read'.files[k] = read.files[k]
        BY <2>1, <2>3, <3>2
      <4>2. \/ read.files[k] \in written
            \/ /\ k \notin Named /\ k \notin Whited
               /\ k \in DOMAIN lower /\ read.files[k] = lower[k]
        BY <4>1 DEF Walk, ReadSoFar
      <4>3. QED
        BY <1>3, <1>4, <3>2, <4>1, <4>2
    <3>3. QED
      BY <3>1, <3>2
  <2>4. QED
    BY <1>1, <1>4, <2>2, <2>3 DEF ReadSoFar
<1>18. Hides'
  <2>1. ASSUME NEW w \in written', w.kind = "whiteout", NEW q \in DOMAIN image'
        PROVE  ~ IsPrefix(Normal(w.name), q)
    <3>1. w \in written
      BY <1>2, <1>3, <2>1
    <3>2. CASE q = p
      <4>1. Normal(w.name) \in Path /\ Normal(w.name) \notin DOMAIN upper
        BY <2>1, <3>1, WhiteoutFacts DEF GoneFits
      <4>2. QED
        BY <1>1, <3>2, <4>1, NotUnder
    <3>3. CASE q # p
      BY <1>10, <2>1, <3>1, <3>3 DEF Walk, Hides
    <3>4. QED
      BY <3>2, <3>3
  <2>2. QED
    BY <2>1 DEF Hides
<1>19. QED
  BY <1>4, <1>8, <1>9, <1>12, <1>13, <1>14, <1>15, <1>16, <1>17, <1>18 DEF WrittenWalk

(* Writing a whiteout for what a directory no longer has does as well. *)
LEMMA WalkWhiteout ==
    ASSUME Paths, Reads, Walk, Rest, NEW d \in DoneDirs, NEW n \in GoneFrom(d),
           NEW m, m = Whiteout(d, n), Write(m), Join(d, n) \notin Whited
    PROVE  /\ Rooted(image') /\ Reads' /\ WrittenWalk' /\ Unpacked' = Unpacked
           /\ Whited' = Whited \cup {Join(d, n)}
<1>1. /\ Rooted(image) /\ Rooted(upper) /\ upper \in Trees
      /\ upper' = upper /\ lower' = lower /\ tree' = tree /\ below' = below
  BY UpperFacts DEF Paths, Walk, Rest
<1>2. m.kind = "whiteout" /\ m.name = Join(d, n)
  BY DEF Whiteout
<1>3. d \in Path /\ GoneFits(d, n)
  BY DonePaths, GoneFacts DEF Walk
<1> DEFINE r == Append(d, n)
<1>4. /\ n \in PathNames /\ r \in Path /\ r # <<>> /\ r \notin DOMAIN upper
      /\ m.name \in DOMAIN lower /\ Normal(m.name) = r
  BY <1>2, <1>3, PathAppend DEF GoneFits
<1>5. m.name \in DOMAIN read.files
  BY <1>2, <1>4 DEF Walk, ReadSoFar
<1>6. written' = written \cup {m}
  BY DEF Write
<1>7. Unpacked' = Unpacked /\ Named' = Named /\ Whited' = Whited \cup {m.name}
  BY <1>2, <1>6, UnpackedFacts, WrittenMore
<1> HIDE DEF r
<1>8. \A q \in DOMAIN upper : ~ IsPrefix(r, q)
  BY <1>1, <1>4, NotUnder
<1>9. \A q \in Unpacked : ~ IsPrefix(r, q)
  BY <1>8 DEF Walk, AsUpper
<1>10. /\ DOMAIN image' = {q \in DOMAIN image : ~ IsPrefix(r, q)}
       /\ \A q \in DOMAIN image' : image'[q] = image[q]
  <2>1. \A q \in Unpacked : ~ IsPrefix(Normal(m.name), q)
    BY <1>4, <1>9
  <2>2. QED
    BY <1>2, <1>4, <2>1, ImageWhiteout
<1>11. Rooted(image')
  BY <1>1, <1>4, <1>10, WhiteoutRooted
<1>12. Reads'
  <2>1. DOMAIN image' = {q \in DOMAIN image : ~ IsPrefix(Append(d, n), q)}
    BY <1>10 DEF r
  <2>2. QED
    BY <1>1, <1>2, <1>3, <1>4, <1>5, <1>10, <2>1, WhiteoutRead
<1>13. ASSUME NEW q \in DOMAIN upper, q \in DOMAIN image
       PROVE  q \in DOMAIN image' /\ image'[q] = image[q]
  BY <1>8, <1>10, <1>13
<1>14. LowerFits'
  BY LowerKept DEF Walk
<1>15. Remains'
  <2>1. \A q \in DOMAIN image' \ Unpacked' : q \in DOMAIN image \ Unpacked /\ image'[q] = image[q]
    BY <1>7, <1>10
  <2>2. QED
    BY <2>1, RemainsStill DEF Walk
<1>16. AsUpper'
  BY <1>1, <1>7, <1>13 DEF Walk, AsUpper
<1>17. AsTree'
  <2>1. ASSUME NEW q \in (DOMAIN tree \cap DOMAIN upper) \ Unpacked' PROVE Kept(q)'
    <3>1. Kept(q) /\ q \in DOMAIN upper
      BY <1>7, <2>1 DEF Walk, AsTree
    <3>2. QED
      BY <1>13, <3>1, KeptStill
  <2>2. QED
    BY <1>1, <2>1 DEF AsTree
<1>18. WrittenFits'
  <2>1. DoneDirs \subseteq DoneDirs'
    BY <1>1, <1>7 DEF DoneDirs
  <2>2. IsWhiteout(m)
    BY DEF IsWhiteout
  <2>3. QED
    BY <1>2, <1>6, <2>1, <2>2, WrittenStill DEF Walk
<1>19. ReadSoFar'
  <2>1. /\ DOMAIN read'.files = DOMAIN read.files \ {m.name}
        /\ \A k \in DOMAIN read'.files : read'.files[k] = read.files[k]
    BY <1>2, <1>5, ReadWhiteout
  <2>2. \A k \in DOMAIN lower : k \in DOMAIN read'.files \/ k \in Whited'
    BY <1>7, <2>1 DEF Walk, ReadSoFar
  <2>3. ASSUME NEW k \in DOMAIN read'.files
        PROVE  \/ read'.files[k] \in written'
               \/ /\ k \notin Named' /\ k \notin Whited'
                  /\ k \in DOMAIN lower /\ read'.files[k] = lower[k]
    <3>1. k \in DOMAIN read.files /\ read'.files[k] = read.files[k] /\ k # m.name
      BY <2>1
    <3>2. \/ read.files[k] \in written
          \/ /\ k \notin Named /\ k \notin Whited
             /\ k \in DOMAIN lower /\ read.files[k] = lower[k]
      BY <3>1 DEF Walk, ReadSoFar
    <3>3. QED
      BY <1>6, <1>7, <3>1, <3>2
  <2>4. QED
    BY <1>1, <2>2, <2>3 DEF ReadSoFar
<1>20. Hides'
  <2>1. ASSUME NEW w \in written', w.kind = "whiteout", NEW q \in DOMAIN image'
        PROVE  ~ IsPrefix(Normal(w.name), q)
    <3>1. CASE w = m
      BY <1>4, <1>10, <3>1
    <3>2. CASE w \in written
      BY <1>10, <2>1, <3>2 DEF Walk, Hides
    <3>3. QED
      BY <1>6, <3>1, <3>2
  <2>2. QED
    BY <2>1 DEF Hides
<1>21. QED
  BY <1>2, <1>7, <1>11, <1>12, <1>14, <1>15, <1>16, <1>17, <1>18, <1>19, <1>20 DEF WrittenWalk
-----------------------------------------------------------------------------
(***************************************************************************)
(* The steps of create_layer.                                              *)
(***************************************************************************)
LEMMA WalkFromParts ==
    ASSUME WrittenWalk', Walk, Rest,
           FilesDone', GoneDone', HereFits', StackFits', InodesFit'
    PROVE  Walk'
  BY DEF WrittenWalk, Walk, Rest

LEMMA LeftOutKept == ASSUME Rest PROVE \A p : LeftOut(p)' <=> LeftOut(p)
  BY DEF Rest, LeftOut

LEMMA PathsKept == ASSUME Paths, Rest, Rooted(image') PROVE Paths'
  BY DEF Paths, Rest

(* A directory is taken from the stack, written and listed. *)
LEMMA AddDirectoryWalk ==
    ASSUME Paths, Reads, Walk, NEW dir \in stack, AddDirectory(dir)
    PROVE  Rooted(image') /\ Reads' /\ Walk'
<1> DEFINE m == Member(RelPath(dir), "dir", upper[dir], "", <<>>)
<1>1. /\ here.gone = {} /\ here.files = {} /\ Write(m) /\ Rest /\ inodes' = inodes
      /\ stack' = (stack \ {dir}) \cup {Append(dir, n) : n \in Dirs(upper, dir)}
      /\ here' = [dir |-> dir, gone |-> GoneFrom(dir), files |-> Files(upper, dir)]
  BY DEF AddDirectory
<1>2. /\ Rooted(upper) /\ upper \in Trees /\ upper' = upper /\ lower' = lower
  BY <1>1, UpperFacts DEF Walk, Rest
<1>3. IsDir(upper, dir) /\ dir \notin DoneDirs /\ (dir # <<>> => Front(dir) \in DoneDirs)
  BY DEF Walk, StackFits
<1>4. dir \in DOMAIN upper /\ upper[dir].type = "dir" /\ upper[dir].data = "" /\ dir \in Path
  BY <1>2, <1>3, UpperFacts DEF IsDir, Rooted
<1>5. /\ m.kind = "member" /\ m.name = RelPath(dir) /\ m.type = "dir"
      /\ m.attr = upper[dir].attr /\ m.data = ""
  BY DEF Member
<1>6. Normal(m.name) = dir /\ m.name = Spelled(dir, "dir")
  BY <1>4, <1>5, RelPathFacts, SpelledFacts
<1> HIDE DEF m
<1>7. image' = Put(dir, View(upper)[dir])
  <2>1. image' = Unpack(m)
    BY <1>1, <1>5 DEF Write, Extract
  <2>2. image' = Put(dir, [type |-> m.type, attr |-> m.attr, data |-> m.data])
    BY <1>5, <1>6, <2>1 DEF Unpack
  <2>3. View(upper)[dir] = [type |-> m.type, attr |-> m.attr, data |-> m.data]
    <3>1. View(upper)[dir] = [type |-> upper[dir].type, attr |-> upper[dir].attr,
                              data |-> upper[dir].data]
      BY <1>4, ViewFacts
    <3>2. QED
      BY <1>4, <1>5, <3>1
  <2>4. QED
    BY <2>2, <2>3
<1>8. IsOfUpper(m)
  BY <1>4, <1>5, <1>6 DEF IsOfUpper, IsEntry
<1>9. Stands(m, upper[dir].type)
  BY <1>4, <1>5 DEF Stands
<1>10. m.type # "file"
  BY <1>5
<1>11. /\ Rooted(image') /\ Reads' /\ WrittenWalk' /\ Unpacked' = Unpacked \cup {dir}
       /\ Whited' = Whited
  BY <1>1, <1>3, <1>4, <1>6, <1>7, <1>8, <1>9, <1>10, WalkMember
<1>12. DoneDirs' = DoneDirs \cup {dir}
  BY <1>2, <1>3, <1>11 DEF DoneDirs
<1>13. here'.dir = dir /\ here'.gone = GoneFrom(dir) /\ here'.files = Files(upper, dir)
  BY <1>1
<1>14. \A d : GoneFrom(d)' = GoneFrom(d)
  BY <1>2 DEF GoneFrom
<1>15. FilesDone'
  <2>1. ASSUME NEW p \in DOMAIN upper, p # <<>>, ~ IsDir(upper, p), Front(p) \in DoneDirs'
        PROVE  \/ p \in Unpacked' \/ LeftOut(p)'
               \/ here'.dir = Front(p) /\ Last(p) \in here'.files
    <3>1. p \in Path /\ Last(p) \in PathNames /\ p = Append(Front(p), Last(p))
      BY <1>2, <2>1, PathEnds DEF Rooted
    <3>2. CASE Front(p) = dir
      <4>1. Last(p) \in Entries(upper, dir)
        BY <1>2, <1>4, <3>1, <3>2, EntriesFacts
      <4>2. Last(p) \in Files(upper, dir)
        BY <2>1, <3>1, <3>2, <4>1 DEF Files, Dirs, IsDir
      <4>3. QED
        BY <1>13, <3>2, <4>2
    <3>3. CASE Front(p) # dir
      <4>1. Front(p) \in DoneDirs
        BY <1>12, <2>1, <3>3
      <4>2. p \in Unpacked \/ LeftOut(p)
        BY <1>1, <2>1, <4>1 DEF Walk, FilesDone
      <4>3. QED
        BY <1>1, <1>11, <4>2, LeftOutKept
    <3>4. QED
      BY <3>2, <3>3
  <2>2. QED
    BY <1>2, <2>1 DEF FilesDone
<1>16. GoneDone'
  <2>1. ASSUME NEW d \in DoneDirs', NEW n \in GoneFrom(d)
        PROVE  Join(d, n) \in Whited' \/ (here'.dir = d /\ n \in here'.gone)
    BY <1>1, <1>11, <1>12, <1>13 DEF Walk, GoneDone
  <2>2. QED
    BY <1>14, <2>1 DEF GoneDone
<1>17. HereFits'
  <2>1. ASSUME NEW n \in GoneFrom(dir) PROVE Join(dir, n) \notin Whited
    <3>1. SUFFICES ASSUME Join(dir, n) \in Whited PROVE FALSE
      OBVIOUS
    <3>2. PICK d \in DoneDirs : \E c \in GoneFrom(d) :
                  Join(dir, n) = Join(d, c) /\ d \in Path /\ GoneFits(d, c)
      BY <3>1, WhitedFacts
    <3>3. PICK c \in GoneFrom(d) : Join(dir, n) = Join(d, c) /\ d \in Path /\ GoneFits(d, c)
      BY <3>2
    <3>4. GoneFits(dir, n)
      BY <1>2, <1>4, GoneFacts DEF Walk
    <3>5. Append(dir, n) = Append(d, c) /\ n \in PathNames /\ c \in PathNames
      BY <3>3, <3>4 DEF GoneFits
    <3>6. Front(Append(dir, n)) = dir /\ Front(Append(d, c)) = d
      BY <1>4, <3>3, <3>5, PathAppend
    <3>7. QED
      BY <1>3, <3>5, <3>6
  <2>2. (here.gone \subseteq GoneFrom(here.dir))'
    BY <1>2, <1>13 DEF GoneFrom
  <2>3. \A n \in here'.gone : Join(here'.dir, n) \notin Whited'
    BY <1>11, <1>13, <2>1
  <2>4. here'.dir \in DoneDirs' /\ here'.files \subseteq Files(upper', here'.dir)
    BY <1>2, <1>12, <1>13
  <2>5. IsRecord(here')
    BY <1>1, <1>13 DEF IsRecord
  <2>6. QED
    BY <2>2, <2>3, <2>4, <2>5 DEF HereFits
<1>18. StackFits'
  <2>1. ASSUME NEW n \in Dirs(upper, dir)
        PROVE  /\ IsDir(upper, Append(dir, n)) /\ Append(dir, n) \notin DoneDirs'
               /\ Front(Append(dir, n)) = dir
    <3>1. n \in Entries(upper, dir) /\ upper[Append(dir, n)].type = "dir"
      BY DEF Dirs
    <3>2. n \in PathNames /\ Append(dir, n) \in DOMAIN upper
      BY <1>2, <1>4, <3>1, EntriesFacts
    <3>3. /\ Front(Append(dir, n)) = dir /\ Append(dir, n) # <<>>
          /\ Len(Append(dir, n)) = Len(dir) + 1 /\ Len(dir) \in Nat
      BY <1>4, <3>2, PathAppend, PathIsSeq
    <3>4. Append(dir, n) \notin DoneDirs
      BY <1>3, <3>3 DEF Walk, StackFits
    <3>5. Append(dir, n) # dir
      BY <3>3
    <3>6. QED
      BY <1>12, <3>1, <3>2, <3>3, <3>4, <3>5 DEF IsDir
  <2>2. ASSUME NEW d \in stack' PROVE IsDir(upper, d) /\ d \notin DoneDirs'
    <3>1. CASE d \in stack \ {dir}
      BY <1>12, <3>1 DEF Walk, StackFits
    <3>2. CASE d \notin stack \ {dir}
      <4>1. PICK n \in Dirs(upper, dir) : d = Append(dir, n)
        BY <1>1, <3>2
      <4>2. QED
        BY <2>1, <4>1
    <3>3. QED
      BY <3>1, <3>2
  <2>3. ASSUME NEW d \in stack' \cup DoneDirs', d # <<>> PROVE Front(d) \in DoneDirs'
    <3>1. CASE d \in stack \cup DoneDirs
      BY <1>12, <2>3, <3>1 DEF Walk, StackFits
    <3>2. CASE d \notin stack \cup DoneDirs
      <4>1. PICK n \in Dirs(upper, dir) : d = Append(dir, n)
        BY <1>1, <1>12, <2>3, <3>2
      <4>2. QED
        BY <1>12, <2>1, <4>1
    <3>3. QED
      BY <3>1, <3>2
  <2>4. ASSUME NEW d \in DOMAIN upper, IsDir(upper, d), d \notin stack', d \notin DoneDirs'
        PROVE  d # <<>> /\ Front(d) \notin DoneDirs'
    <3>1. d # dir /\ d \notin stack /\ d \notin DoneDirs
      BY <1>1, <1>12, <2>4
    <3>2. d # <<>> /\ Front(d) \notin DoneDirs
      BY <2>4, <3>1 DEF Walk, StackFits
    <3>3. Front(d) # dir
      <4>1. SUFFICES ASSUME Front(d) = dir PROVE FALSE
        OBVIOUS
      <4>2. d \in Path /\ Last(d) \in PathNames /\ d = Append(dir, Last(d))
        BY <1>2, <3>2, <4>1, PathEnds DEF Rooted
      <4>3. Last(d) \in Entries(upper, dir)
        BY <1>2, <1>4, <4>2, EntriesFacts
      <4>4. Last(d) \in Dirs(upper, dir)
        BY <2>4, <4>2, <4>3 DEF Dirs, IsDir
      <4>5. QED
        BY <1>1, <2>4, <4>2, <4>4
    <3>4. QED
      BY <1>12, <3>2, <3>3
  <2>5. QED
    BY <1>2, <2>2, <2>3, <2>4 DEF StackFits
<1>19. InodesFit'
  BY <1>1, <1>2, <1>11 DEF Walk, InodesFit
<1>20. Walk'
  BY <1>1, <1>11, <1>15, <1>16, <1>17, <1>18, <1>19, WalkFromParts
<1>21. QED
  BY <1>11, <1>20

(* A whiteout of the directory in hand is written. *)
LEMMA AddWhiteoutWalk ==
    ASSUME Paths, Reads, Walk, NEW n \in here.gone, AddWhiteout(n)
    PROVE  Rooted(image') /\ Reads' /\ Walk'
<1> DEFINE d == here.dir
<1>1. /\ Write(Whiteout(d, n)) /\ here' = [here EXCEPT !.gone = @ \ {n}] /\ Rest
      /\ stack' = stack /\ inodes' = inodes
  BY DEF AddWhiteout
<1>2. /\ d \in DoneDirs /\ n \in GoneFrom(d) /\ Join(d, n) \notin Whited
      /\ here.gone \subseteq GoneFrom(d)
  BY DEF Walk, HereFits
<1>3. /\ upper \in Trees /\ upper' = upper /\ lower' = lower /\ d \in Path
  BY <1>1, <1>2, DonePaths DEF Walk, Rest
<1>4. /\ Rooted(image') /\ Reads' /\ WrittenWalk' /\ Unpacked' = Unpacked
      /\ Whited' = Whited \cup {Join(d, n)}
  BY <1>1, <1>2, WalkWhiteout
<1>5. DoneDirs' = DoneDirs /\ \A e : GoneFrom(e)' = GoneFrom(e)
  BY <1>3, <1>4 DEF DoneDirs, GoneFrom
<1>6. IsRecord(here)
  BY DEF Walk, HereFits
<1>7. here'.dir = d /\ here'.gone = here.gone \ {n} /\ here'.files = here.files
  BY <1>1, <1>6 DEF IsRecord
<1>8. FilesDone'
  BY <1>1, <1>3, <1>4, <1>5, <1>7, LeftOutKept DEF Walk, FilesDone
<1>9. GoneDone'
  <2>1. ASSUME NEW e \in DoneDirs, NEW c \in GoneFrom(e)
        PROVE  Join(e, c) \in Whited' \/ (here'.dir = e /\ c \in here'.gone)
    <3>1. Join(e, c) \in Whited \/ (d = e /\ c \in here.gone)
      BY DEF Walk, GoneDone
    <3>2. QED
      BY <1>4, <1>7, <3>1
  <2>2. QED
    BY <1>5, <2>1 DEF GoneDone
<1>10. HereFits'
  <2>1. ASSUME NEW c \in here'.gone PROVE Join(d, c) \notin Whited'
    <3>1. c \in here.gone /\ c # n
      BY <1>7
    <3>2. Join(d, c) \notin Whited
      BY <3>1 DEF Walk, HereFits
    <3>3. n \in PathNames /\ c \in PathNames
      BY <1>2, <1>3, <3>1, GoneFacts DEF Walk, GoneFits
    <3>4. Last(Join(d, n)) = n /\ Last(Join(d, c)) = c
      BY <1>3, <3>3, JoinFacts
    <3>5. QED
      BY <1>4, <3>1, <3>2, <3>4
  <2>2. (here.gone \subseteq GoneFrom(here.dir))'
    BY <1>2, <1>3, <1>7 DEF GoneFrom
  <2>3. here'.files \subseteq Files(upper', here'.dir)
    BY <1>3, <1>7 DEF Walk, HereFits
  <2>4. IsRecord(here')
    BY <1>1, <1>6 DEF IsRecord
  <2>5. QED
    BY <1>2, <1>3, <1>5, <1>7, <2>1, <2>2, <2>3, <2>4 DEF HereFits
<1>11. StackFits'
  BY <1>1, <1>3, <1>5 DEF Walk, StackFits
<1>12. InodesFit'
  BY <1>1, <1>3, <1>4 DEF Walk, InodesFit
<1>13. Walk'
  BY <1>1, <1>4, <1>8, <1>9, <1>10, <1>11, <1>12, WalkFromParts
<1>14. QED
  BY <1>4, <1>13

(* The file in hand, and what gettarinfo says of it.                       *)
LEMMA FileFacts ==
    ASSUME Walk, NEW n \in here.files
    PROVE  LET p == Append(here.dir, n)  info == Info(n) IN
           /\ here.dir \in DoneDirs /\ here.dir \in Path /\ n \in PathNames
           /\ p \in DOMAIN upper /\ p \in Path /\ p # <<>> /\ Front(p) = here.dir /\ Last(p) = n
           /\ upper[p].type \in {"file", "symlink", "special", "socket"}
           /\ info.kind = "member" /\ info.name = Join(here.dir, n) /\ info.attr = upper[p].attr
           /\ Normal(info.name) = p
           /\ \A type : type # "dir" => info.name = Spelled(p, type)
           /\ \/ /\ info.type = "link" /\ upper[p].type = "file"
                 /\ upper[p].ino \in DOMAIN inodes /\ info.link = inodes[upper[p].ino]
              \/ info.type = upper[p].type /\ info.data = upper[p].data
<1> DEFINE p == Append(here.dir, n)
           info == Info(n)
<1>1. /\ here.dir \in DoneDirs /\ here.files \subseteq Files(upper, here.dir)
      /\ upper \in Trees /\ Rooted(upper) /\ \A q \in DOMAIN upper : upper[q] \in Node
  BY UpperFacts DEF Walk, HereFits
<1>2. here.dir \in Path
  BY <1>1, DonePaths
<1>3. n \in Entries(upper, here.dir) /\ n \notin Dirs(upper, here.dir)
  BY <1>1 DEF Files
<1>4. n \in PathNames /\ p \in DOMAIN upper
  BY <1>1, <1>2, <1>3, EntriesFacts
<1>5. p \in Path /\ p # <<>> /\ Front(p) = here.dir /\ Last(p) = n
  BY <1>2, <1>4, PathAppend
<1>6. upper[p].type # "dir"
  BY <1>3, <1>4 DEF Dirs
<1>7. upper[p] \in Node
  BY <1>1, <1>4
<1>8. upper[p].type \in {"file", "symlink", "special", "socket"}
  BY <1>6, <1>7 DEF Node
<1>9. Normal(Join(here.dir, n)) = p
  BY <1>2, <1>4, JoinFacts
<1>10. \A type : type # "dir" => Join(here.dir, n) = Spelled(p, type)
  BY <1>5, SpelledFacts
<1>11. info = GetTarInfo(upper[p], Join(here.dir, n))
  BY DEF Info, NodeOf
<1> HIDE DEF p, info
<1>12. CASE upper[p].type = "file" /\ upper[p].ino \in DOMAIN inodes
  <2>1. info = Member(Join(here.dir, n), "link", upper[p], "", inodes[upper[p].ino])
    BY <1>11, <1>12 DEF GetTarInfo
  <2>2. /\ info.kind = "member" /\ info.name = Join(here.dir, n) /\ info.attr = upper[p].attr
        /\ info.type = "link" /\ info.link = inodes[upper[p].ino]
    BY <2>1 DEF Member
  <2>3. QED
    BY <1>1, <1>2, <1>4, <1>5, <1>8, <1>9, <1>10, <1>12, <2>2 DEF p, info
<1>13. CASE ~ (upper[p].type = "file" /\ upper[p].ino \in DOMAIN inodes)
  <2>1. info = Member(Join(here.dir, n), upper[p].type, upper[p], upper[p].data, <<>>)
    BY <1>11, <1>13 DEF GetTarInfo
  <2>2. /\ info.kind = "member" /\ info.name = Join(here.dir, n) /\ info.attr = upper[p].attr
        /\ info.type = upper[p].type /\ info.data = upper[p].data
    BY <2>1 DEF Member
  <2>3. QED
    BY <1>1, <1>2, <1>4, <1>5, <1>8, <1>9, <1>10, <2>2 DEF p, info
<1>14. QED
  BY <1>12, <1>13

(* What both ways to deal with a file leave of the walk.                   *)
LEMMA FileDone ==
    ASSUME Walk, Rest, NEW n \in here.files, here.gone = {}, Done(n),
           DoneDirs' = DoneDirs, Unpacked \subseteq Unpacked', Whited' = Whited, stack' = stack,
           LET p == Append(here.dir, n) IN p \in Unpacked' \/ LeftOut(p)
    PROVE  FilesDone' /\ GoneDone' /\ HereFits' /\ StackFits'
<1>1. /\ upper' = upper /\ lower' = lower /\ upper \in Trees /\ Rooted(upper)
      /\ here' = [here EXCEPT !.files = @ \ {n}]
  BY UpperFacts DEF Walk, Rest, Done
<1>2. IsRecord(here)
  BY DEF Walk, HereFits
<1>3. here'.dir = here.dir /\ here'.gone = {} /\ here'.files = here.files \ {n} /\ IsRecord(here')
  BY <1>1, <1>2 DEF IsRecord
<1>4. \A d : GoneFrom(d)' = GoneFrom(d)
  BY <1>1 DEF GoneFrom
<1>5. FilesDone'
  <2>1. ASSUME NEW p \in DOMAIN upper, p # <<>>, ~ IsDir(upper, p), Front(p) \in DoneDirs
        PROVE  \/ p \in Unpacked' \/ LeftOut(p)'
               \/ here'.dir = Front(p) /\ Last(p) \in here'.files
    <3>1. p \in Path /\ p = Append(Front(p), Last(p))
      BY <1>1, <2>1, PathEnds DEF Rooted
    <3>2. p \in Unpacked \/ LeftOut(p) \/ (here.dir = Front(p) /\ Last(p) \in here.files)
      BY <2>1 DEF Walk, FilesDone
    <3>3. CASE p = Append(here.dir, n)
      BY <3>3, LeftOutKept
    <3>4. CASE p # Append(here.dir, n)
      <4>1. here.dir = Front(p) => Last(p) # n
        BY <3>1, <3>4
      <4>2. QED
        BY <1>3, <3>2, <4>1, LeftOutKept
    <3>5. QED
      BY <3>3, <3>4
  <2>2. QED
    BY <1>1, <2>1 DEF FilesDone
<1>6. GoneDone'
  BY <1>3, <1>4 DEF Walk, GoneDone
<1>7. HereFits'
  <2>1. here.dir \in DoneDirs /\ here.files \subseteq Files(upper, here.dir)
    BY DEF Walk, HereFits
  <2>2. here'.dir \in DoneDirs' /\ here'.files \subseteq Files(upper', here'.dir)
    BY <1>1, <1>3, <2>1
  <2>3. QED
    BY <1>3, <2>2 DEF HereFits
<1>8. StackFits'
  BY <1>1 DEF Walk, StackFits
<1>9. QED
  BY <1>5, <1>6, <1>7, <1>8

(* tarfile's cache after a file: what it had, or the file itself. *)
LEMMA CachedInode ==
    ASSUME Walk, NEW n \in here.files, NEW i \in DOMAIN Cached(NodeOf(n), Info(n)),
           NEW to, to = Cached(NodeOf(n), Info(n))[i]
    PROVE  \/ i \in DOMAIN inodes /\ to = inodes[i]
           \/ LET p == Append(here.dir, n) IN
              to = Info(n).name /\ upper[p].type = "file" /\ upper[p].ino = i
<1> DEFINE p == Append(here.dir, n)
<1>1. NodeOf(n) = upper[p]
  BY DEF NodeOf
<1>2. CASE Info(n).type = "file"
  <2>1. upper[p].type = "file"
    BY <1>2, FileFacts
  <2>2. Cached(NodeOf(n), Info(n)) = Set(inodes, upper[p].ino, Info(n).name)
    BY <1>1, <1>2 DEF Cached
  <2>3. CASE i = upper[p].ino
    BY <2>1, <2>2, <2>3 DEF Set
  <2>4. CASE i # upper[p].ino
    BY <2>2, <2>4 DEF Set
  <2>5. QED
    BY <2>3, <2>4
<1>3. CASE Info(n).type # "file"
  BY <1>3 DEF Cached
<1>4. QED
  BY <1>2, <1>3

(* A file that is as in the lower layers is left out. *)
LEMMA LeaveOutWalk ==
    ASSUME Paths, Reads, Walk, NEW n \in here.files, LeaveOut(n)
    PROVE  image' = image /\ Reads' /\ Walk'
<1> DEFINE p == Append(here.dir, n)
<1>1. /\ here.gone = {} /\ SameInfo(Info(n)) /\ SameContents(Info(n), NodeOf(n))
      /\ inodes' = Uncached(Cached(NodeOf(n), Info(n)), Info(n))
      /\ Done(n) /\ Rest
      /\ written' = written /\ read' = read /\ image' = image /\ stack' = stack
  BY DEF LeaveOut, Judging, Comes
<1>2. /\ upper' = upper /\ lower' = lower /\ tree' = tree /\ below' = below
      /\ dropped' = dropped /\ retargeted' = retargeted
  BY <1>1 DEF Rest
<1>3. Reads'
  BY <1>1, <1>2 DEF Reads, ReadFits, ImageRead
<1>4. /\ Unpacked' = Unpacked /\ DoneDirs' = DoneDirs /\ Whited' = Whited /\ Named' = Named
  BY <1>1, <1>2 DEF Unpacked, DoneDirs, Whited, Named
<1>5. WrittenWalk'
  <2>1. LowerFits'
    BY <1>1, LowerKept DEF Walk
  <2>2. Remains'
    BY <1>1, <1>4, RemainsStill DEF Walk
  <2>3. AsUpper' /\ Hides'
    BY <1>1, <1>2, <1>4 DEF Walk, AsUpper, Hides
  <2>4. AsTree'
    <3>1. ASSUME NEW q \in (DOMAIN tree \cap DOMAIN upper) \ Unpacked PROVE Kept(q)'
      BY <1>1, <3>1, KeptStill DEF Walk, AsTree
    <3>2. QED
      BY <1>2, <1>4, <3>1 DEF AsTree
  <2>5. WrittenFits'
    <3>1. \A w : (IsOfUpper(w)' <=> IsOfUpper(w)) /\ (Differs(w)' <=> Differs(w))
      BY <1>2 DEF IsOfUpper, Differs
    <3>2. \A w : IsWhiteout(w) => IsWhiteout(w)'
      BY <1>2, <1>4 DEF IsWhiteout, GoneFrom
    <3>3. QED
      BY <1>1, <3>1, <3>2 DEF Walk, WrittenFits
  <2>6. ReadSoFar'
    BY <1>1, <1>2, <1>4 DEF Walk, ReadSoFar
  <2>7. QED
    BY <2>1, <2>2, <2>3, <2>4, <2>5, <2>6 DEF WrittenWalk
<1>6. LeftOut(p)
  <2> DEFINE info == Info(n)
  <2>1. /\ info.name = Join(Front(p), Last(p)) /\ info.attr = upper[p].attr
        /\ upper[p].type \in {"file", "symlink", "special", "socket"}
        /\ info.type = "link" \/ (info.type = upper[p].type /\ info.data = upper[p].data)
    BY FileFacts
  <2>2. NodeOf(n) = upper[p]
    BY DEF NodeOf
  <2> HIDE DEF info, p
  <2>3. /\ info.name \in DOMAIN lower
        /\ info.type = lower[info.name].type /\ info.attr = lower[info.name].attr
    BY <1>1 DEF SameInfo, info
  <2>4. \/ info.type = "file" /\ lower[info.name].data = upper[p].data
        \/ info.type = "symlink"
    BY <1>1, <2>2 DEF SameContents, info
  <2>5. QED
    BY <2>1, <2>3, <2>4 DEF LeftOut
<1>7. FilesDone' /\ GoneDone' /\ HereFits' /\ StackFits'
  BY <1>1, <1>4, <1>6, FileDone
<1>8. InodesFit'
  <2> DEFINE cache == Cached(NodeOf(n), Info(n))
  <2>1. ASSUME NEW i \in DOMAIN inodes'
        PROVE  i \in DOMAIN inodes /\ inodes'[i] = inodes[i]
    <3>1. inodes' = Forget(cache, {j \in DOMAIN cache : cache[j] = Info(n).name})
      BY <1>1 DEF Uncached
    <3>2. i \in DOMAIN cache /\ cache[i] # Info(n).name /\ inodes'[i] = cache[i]
      <4> HIDE DEF cache
      <4>1. QED
        BY <2>1, <3>1 DEF Forget, Restrict
    <3>3. QED
      BY <3>2, CachedInode
  <2>2. QED
    BY <1>2, <1>4, <2>1 DEF Walk, InodesFit
<1>9. QED
  BY <1>1, <1>3, <1>5, <1>7, <1>8, WalkFromParts

(* A file, or a link to a name of its inode, is written. *)
LEMMA AddFileWalk ==
    ASSUME Paths, Reads, Walk, NEW n \in here.files, AddFile(n)
    PROVE  Rooted(image') /\ Reads' /\ Walk'
<1> DEFINE p == Append(here.dir, n)
           m == Info(n)
<1>1. /\ here.gone = {} /\ Write(m) /\ Done(n) /\ Rest /\ stack' = stack
      /\ SameInfo(m) => ~ SameContents(m, NodeOf(n))
      /\ inodes' = Cached(NodeOf(n), m)
  BY DEF AddFile, Judging, Comes
<1>2. /\ here.dir \in DoneDirs /\ p \in DOMAIN upper /\ p \in Path /\ p # <<>>
      /\ Front(p) = here.dir /\ Last(p) = n
      /\ upper[p].type \in {"file", "symlink", "special", "socket"}
      /\ m.kind = "member" /\ m.name = Join(here.dir, n) /\ m.attr = upper[p].attr
      /\ Normal(m.name) = p /\ \A type : type # "dir" => m.name = Spelled(p, type)
      /\ \/ /\ m.type = "link" /\ upper[p].type = "file"
            /\ upper[p].ino \in DOMAIN inodes /\ m.link = inodes[upper[p].ino]
         \/ m.type = upper[p].type /\ m.data = upper[p].data
  BY FileFacts
<1>3. NodeOf(n) = upper[p]
  BY DEF NodeOf
<1>4. /\ upper \in Trees /\ upper' = upper /\ lower' = lower
      /\ \A q, r \in DOMAIN upper :
            upper[q].type = "file" /\ upper[r].type = "file" /\ upper[q].ino = upper[r].ino
              => upper[q] = upper[r]
  BY <1>1, UpperFacts DEF Walk, Rest
<1> HIDE DEF p, m
<1>5. IsOfUpper(m) /\ Stands(m, upper[p].type)
  <2>1. m.type # "dir"
    BY <1>2
  <2>2. IsEntry(m.name, m)
    BY <1>2, <2>1 DEF IsEntry
  <2>3. QED
    BY <1>2, <2>2 DEF IsOfUpper, Stands
<1>6. m.type = "file" => Differs(m)
  <2>1. ASSUME m.type = "file", ~ Differs(m) PROVE FALSE
    <3>1. /\ m.name \in DOMAIN lower /\ lower[m.name].type = "file"
          /\ lower[m.name].attr = m.attr /\ lower[m.name].data = m.data
      BY <2>1 DEF Differs
    <3>2. m.data = upper[p].data
      BY <1>2, <2>1
    <3>3. SameInfo(m) /\ SameContents(m, NodeOf(n))
      BY <1>3, <2>1, <3>1, <3>2 DEF SameInfo, SameContents
    <3>4. QED
      BY <1>1, <3>3
  <2>2. QED
    BY <2>1
<1>7. image' = Put(p, View(upper)[p])
  <2>1. image' = Unpack(m)
    BY <1>1, <1>2 DEF Write, Extract
  <2>2. CASE m.type = "link"
    <3>1. upper[p].type = "file" /\ upper[p].ino \in DOMAIN inodes /\ m.link = inodes[upper[p].ino]
      BY <1>2, <2>2
    <3>2. PICK q \in Unpacked : /\ m.link = Spelled(q, "file") /\ upper[q].type = "file"
                                /\ upper[q].ino = upper[p].ino
      BY <3>1 DEF Walk, InodesFit
    <3>3. q \in DOMAIN upper /\ q \in DOMAIN image /\ image[q] = View(upper)[q]
      BY DEF Walk, AsUpper
    <3>4. q \in Path
      BY <3>3 DEF Paths, Rooted
    <3>5. Normal(m.link) = q
      BY <3>2, <3>4, SpelledFacts
    <3>6. upper[q] = upper[p]
      BY <1>2, <1>4, <3>1, <3>2, <3>3
    <3>7. View(upper)[q] = View(upper)[p]
      BY <1>2, <3>3, <3>6 DEF View
    <3>8. image' = Put(p, image[q])
      BY <1>2, <2>1, <2>2, <3>3, <3>5 DEF Unpack
    <3>9. QED
      BY <3>3, <3>7, <3>8
  <2>3. CASE m.type # "link"
    <3>1. image' = Put(p, [type |-> m.type, attr |-> m.attr, data |-> m.data])
      BY <1>2, <2>1, <2>3 DEF Unpack
    <3>2. View(upper)[p] = [type |-> upper[p].type, attr |-> upper[p].attr,
                            data |-> upper[p].data]
      BY <1>2, ViewFacts
    <3>3. QED
      BY <1>2, <2>3, <3>1, <3>2
  <2>4. QED
    BY <2>2, <2>3
<1>8. /\ Rooted(image') /\ Reads' /\ WrittenWalk' /\ Unpacked' = Unpacked \cup {p}
      /\ Whited' = Whited
  BY <1>1, <1>2, <1>5, <1>6, <1>7, WalkMember
<1>9. DoneDirs' = DoneDirs
  <2>1. ~ IsDir(upper, p)
    BY <1>2 DEF IsDir
  <2>2. QED
    BY <1>4, <1>8, <2>1 DEF DoneDirs
<1>10. FilesDone' /\ GoneDone' /\ HereFits' /\ StackFits'
  <2>1. Append(here.dir, n) \in Unpacked' /\ Unpacked \subseteq Unpacked'
    BY <1>8 DEF p
  <2>2. QED
    BY <1>1, <1>8, <1>9, <2>1, FileDone
<1>11. InodesFit'
  <2>1. ASSUME NEW i \in DOMAIN inodes', NEW to, to = inodes'[i]
        PROVE  \E q \in Unpacked' :
                  to = Spelled(q, "file") /\ upper[q].type = "file" /\ upper[q].ino = i
    <3>1. \/ i \in DOMAIN inodes /\ to = inodes[i]
          \/ to = m.name /\ upper[p].type = "file" /\ upper[p].ino = i
      BY <1>1, <2>1, CachedInode DEF m, p
    <3>2. CASE i \in DOMAIN inodes /\ to = inodes[i]
      BY <1>8, <3>2 DEF Walk, InodesFit
    <3>3. CASE to = m.name /\ upper[p].type = "file" /\ upper[p].ino = i
      <4>1. m.name = Spelled(p, "file")
        BY <1>2
      <4>2. QED
        BY <1>8, <3>3, <4>1
    <3>4. QED
      BY <3>1, <3>2, <3>3
  <2>2. QED
    BY <1>4, <2>1 DEF InodesFit
<1>12. Walk'
  BY <1>1, <1>8, <1>10, <1>11, WalkFromParts
<1>13. QED
  BY <1>8, <1>12

(* A device or pipe that a lower layer has in the same place.             *)
LEMMA RaiseIsSpecial ==
    ASSUME Walk, NEW n \in here.files, RaiseUnexpectedType(n)
    PROVE  \E p \in DOMAIN upper :
              /\ upper[p].type = "special"
              /\ \E m \in below : /\ m.kind = "member" /\ m.type = "special"
                                  /\ Normal(m.name) = p
<1> DEFINE p == Append(here.dir, n)
           info == Info(n)
<1>1. SameInfo(info) /\ info.type = "special"
  BY DEF RaiseUnexpectedType
<1>2. /\ p \in DOMAIN upper /\ Normal(info.name) = p
      /\ info.type = "link" \/ info.type = upper[p].type
  BY FileFacts
<1> HIDE DEF p, info
<1>3. info.name \in DOMAIN lower /\ lower[info.name].type = "special"
  BY <1>1 DEF SameInfo
<1>4. /\ lower[info.name] \in below /\ lower[info.name].kind = "member"
      /\ lower[info.name].name = info.name
  BY <1>3 DEF Walk, LowerFits, IsEntry
<1>5. QED
  BY <1>1, <1>2, <1>3, <1>4

(* A socket, of which gettarinfo knows nothing.                            *)
LEMMA RaiseIsSocket ==
    ASSUME Walk, NEW n \in here.files, RaiseNoTarInfo(n)
    PROVE  \E p \in DOMAIN upper : upper[p].type = "socket"
<1>1. Append(here.dir, n) \in DOMAIN upper
  BY FileFacts
<1>2. upper[Append(here.dir, n)].type = "socket"
  BY DEF RaiseNoTarInfo, NodeOf
<1>3. QED
  BY <1>1, <1>2
-----------------------------------------------------------------------------
(***************************************************************************)
(* The layer is begun.                                                     *)
(***************************************************************************)
LEMMA DroppedAtRoot ==
    ASSUME Paths, NEW p \in Path, Len(p) = 1, UnderDropped(p)
    PROVE  UnderDroppedAtRoot(p)
<1>1. PICK d \in dropped : IsPrefix(d, p)
  BY DEF UnderDropped
<1>2. d \in Path /\ d # <<>>
  BY DEF Paths
<1>3. Len(d) \in Nat \ {0} /\ Len(d) <= 1
  <2>1. Len(d) \in Nat \ {0}
    BY <1>2, PathEnds
  <2>2. Len(d) <= Len(p)
    BY <1>1, <1>2, PathIsSeq, PrefixFacts
  <2>3. QED
    BY <2>1, <2>2
<1>4. Len(d) = 1
  BY <1>3, SmallNumbers
<1>5. QED
  BY <1>1, <1>4 DEF UnderDroppedAtRoot

(* The walk begins at the root, over what was read between two layers. *)
LEMMA CreateLayerStep ==
    ASSUME LayerInv, NEW t \in Trees, CreateLayer(t)
    PROVE  pc' = "create_layer" /\ Paths' /\ Reads' /\ Walk'
<1>1. /\ Complete /\ read.known /\ Paths /\ ReadFits /\ ImageRead
      /\ AllTold(read.files) /\ (\A p \in DOMAIN tree : Kept(p)) /\ NothingLeftBehind
  BY DEF LayerInv, CreateLayer, Complete, Idle, ReadFits
<1>2. /\ pc' = "create_layer" /\ below' = below \cup written /\ written' = {}
      /\ upper' = t /\ lower' = read.files /\ stack' = {<<>>} /\ here' = Nowhere /\ inodes' = <<>>
      /\ read' = read /\ image' = image /\ tree' = tree
      /\ dropped' = dropped /\ retargeted' = retargeted
  BY <1>1 DEF CreateLayer
<1>3. Unpacked' = {} /\ DoneDirs' = {} /\ Whited' = {} /\ Named' = {}
  BY <1>2 DEF Unpacked, DoneDirs, Whited, Named
<1>4. Rooted(t) /\ IsDir(t, <<>>)
  BY UpperFacts
<1>5. Paths' /\ Reads'
  BY <1>1, <1>2 DEF Paths, Reads, ReadFits, ImageRead
<1>6. LowerFits'
  <2>1. (\A p : UnderDropped(p)' <=> UnderDropped(p)) /\ (\A p : Stale(p)' <=> Stale(p))
    BY <1>2 DEF UnderDropped, Stale
  <2>2. AllTold(lower)'
    BY <1>1, <1>2, <2>1 DEF AllTold, Told
  <2>3. ASSUME NEW p \in DOMAIN tree, tree[p].type = "file", ~ UnderDropped(p)
        PROVE  Lists(read.files, p, "file")
    <3>1. \/ p \in DOMAIN image /\ image[p] = tree[p]
          \/ p \in retargeted /\ p \in DOMAIN image /\ image[p].type = "symlink"
      BY <1>1, <2>3 DEF Kept
    <3>2. CASE p \in DOMAIN image /\ image[p] = tree[p]
      BY <1>1, <2>3, <3>2 DEF ImageRead
    <3>3. CASE p \in DOMAIN image /\ image[p].type = "symlink"
      <4> DEFINE k == Spelled(p, "symlink")
      <4>1. k \in DOMAIN read.files /\ Stands(read.files[k], "symlink")
        BY <1>1, <3>3 DEF ImageRead, Lists
      <4>2. read.files[k].type = "symlink"
        BY <4>1 DEF Stands
      <4>3. p \in Path /\ Normal(k) = p
        BY <1>1, <3>3, SpelledFacts DEF Paths, Rooted
      <4>4. Told(read.files[k], p)
        BY <1>1, <4>1, <4>3 DEF AllTold
      <4> HIDE DEF k
      <4>5. ~ Stale(p)
        BY <2>3 DEF Stale, IsDir
      <4>6. Tells(read.files[k], tree[p], p \in retargeted)
        BY <2>3, <4>2, <4>4, <4>5 DEF Told
      <4>7. QED
        BY <2>3, <4>2, <4>6 DEF Tells
    <3>4. QED
      BY <3>1, <3>2, <3>3
  <2>4. FilesListed(lower)'
    BY <1>2, <2>1, <2>3 DEF FilesListed
  <2>5. \A k \in DOMAIN lower' : IsEntry(k, lower'[k]) /\ lower'[k] \in below'
    BY <1>1, <1>2 DEF ReadFits
  <2>6. QED
    BY <2>2, <2>4, <2>5 DEF LowerFits
<1>7. Remains'
  <2>1. ASSUME NEW p \in DOMAIN image
        PROVE  \/ UnderDroppedAtRoot(p)
               \/ p \in DOMAIN tree /\ (Len(p) = 1 /\ image[p].type = "dir" => IsDir(tree, p))
    <3>1. CASE p \notin DOMAIN tree
      BY <1>1, <3>1 DEF NothingLeftBehind
    <3>2. CASE p \in DOMAIN tree /\ ~ UnderDropped(p)
      <4>1. \/ image[p] = tree[p]
            \/ image[p].type = "symlink"
        BY <1>1, <3>2 DEF Kept
      <4>2. QED
        BY <3>2, <4>1 DEF IsDir
    <3>3. CASE p \in DOMAIN tree /\ UnderDropped(p)
      <4>1. p \in Path
        BY <1>1 DEF Paths, Rooted
      <4>2. Len(p) = 1 => UnderDroppedAtRoot(p)
        BY <1>1, <3>3, <4>1, DroppedAtRoot
      <4>3. QED
        BY <3>3, <4>2
    <3>4. QED
      BY <3>1, <3>2, <3>3
  <2>2. \A p \in DOMAIN image : Lists(read.files, p, image[p].type)
    BY <1>1 DEF ImageRead
  <2>3. \A p : UnderDroppedAtRoot(p)' <=> UnderDroppedAtRoot(p)
    BY <1>2 DEF UnderDroppedAtRoot
  <2>4. QED
    BY <1>2, <2>1, <2>2, <2>3 DEF Remains
<1>8. AsTree'
  <2>1. \A p \in DOMAIN tree : Kept(p)'
    BY <1>1, <1>2 DEF Kept, UnderDropped
  <2>2. QED
    BY <1>2, <2>1 DEF AsTree
<1>9. AsUpper' /\ WrittenFits' /\ Hides' /\ FilesDone' /\ GoneDone'
  BY <1>2, <1>3 DEF AsUpper, WrittenFits, Hides, FilesDone, GoneDone
<1>10. ReadSoFar'
  BY <1>2, <1>3 DEF ReadSoFar
<1>11. HereFits'
  BY <1>2 DEF HereFits, Nowhere, IsRecord
<1>12. StackFits'
  BY <1>2, <1>3, <1>4 DEF StackFits
<1>13. InodesFit'
  BY <1>2 DEF InodesFit
<1>14. QED
  BY <1>2, <1>5, <1>6, <1>7, <1>8, <1>9, <1>10, <1>11, <1>12, <1>13 DEF Walk
-----------------------------------------------------------------------------
(***************************************************************************)
(* The layer is done.                                                      *)
(***************************************************************************)
Finishing == /\ Paths /\ Reads /\ Walk /\ stack = {} /\ here.gone = {} /\ here.files = {}

(* When stack and lists are empty, the walk has reached every directory. *)
LEMMA AllDirsDone ==
    ASSUME Finishing, NEW d \in DOMAIN upper, IsDir(upper, d)
    PROVE  d \in DoneDirs
<1>1. SUFFICES ASSUME d \notin DoneDirs PROVE FALSE
  OBVIOUS
<1>2. upper \in Trees /\ Rooted(upper) /\ IsDir(upper, <<>>) /\ <<>> \in DOMAIN upper
  BY UpperFacts DEF Finishing, Walk, IsDir
<1>3. \A e \in DOMAIN upper : IsDir(upper, e) =>
         e \in DoneDirs \/ (e # <<>> /\ Front(e) \notin DoneDirs)
  BY DEF Finishing, Walk, StackFits
<1>4. <<>> \in DoneDirs
  BY <1>2, <1>3
<1>5. d \in Path
  BY <1>2 DEF Rooted
<1>6. PICK q \in Path : IsPrefix(q, d) /\ q # <<>> /\ q \notin DoneDirs /\ Front(q) \in DoneDirs
  BY <1>1, <1>4, <1>5, FirstMissing
<1>7. IsDir(upper, q)
  BY <1>2, <1>6, RootedFacts DEF IsStrictPrefix
<1>8. QED
  BY <1>3, <1>6, <1>7 DEF IsDir

(* What was not unpacked by then was left out. *)
LEMMA AllDone ==
    ASSUME Finishing, NEW p \in DOMAIN upper, p \notin Unpacked
    PROVE  p # <<>> /\ ~ IsDir(upper, p) /\ LeftOut(p)
<1>1. upper \in Trees /\ Rooted(upper) /\ IsDir(upper, <<>>)
  BY UpperFacts DEF Finishing, Walk
<1>2. ~ IsDir(upper, p)
  BY AllDirsDone DEF DoneDirs
<1>3. p # <<>> /\ IsDir(upper, Front(p))
  BY <1>1, <1>2 DEF Rooted
<1>4. Front(p) \in DoneDirs
  BY <1>3, AllDirsDone DEF IsDir
<1>5. LeftOut(p)
  BY <1>2, <1>3, <1>4 DEF Finishing, Walk, FilesDone
<1>6. QED
  BY <1>2, <1>3, <1>5

(* What a directory no longer has, had its whiteout. *)
LEMMA AllGoneWhited ==
    ASSUME Finishing, NEW p \in Path, p # <<>>, p \notin DOMAIN upper, IsDir(upper, Front(p)),
           Join(Front(p), Last(p)) \in DOMAIN lower
    PROVE  Join(Front(p), Last(p)) \in Whited
<1>1. Front(p) \in DoneDirs
  BY AllDirsDone DEF IsDir
<1>2. Last(p) \in GoneFrom(Front(p))
  BY GoneWhenMissing DEF Finishing, Walk
<1>3. QED
  BY <1>1, <1>2 DEF Finishing, Walk, GoneDone

FinishStart == /\ Finishing
               /\ tree' = View(upper) /\ dropped' = dropped \cup Gone(tree, upper)
               /\ retargeted' = retargeted \cup Retargeted(tree, upper)
               /\ read' = read /\ image' = image

(* A directory that the tree no longer has is remembered. *)
LEMMA GoneIsDropped ==
    ASSUME FinishStart, NEW p, NEW r, IsDir(tree, r), ~ IsDir(upper, r), IsPrefix(r, p)
    PROVE  UnderDropped(p)' /\ (Len(r) = 1 => UnderDroppedAtRoot(p)')
<1>1. r \in dropped'
  BY DEF FinishStart, Gone, IsDir
<1>2. QED
  BY <1>1 DEF UnderDropped, UnderDroppedAtRoot

(* A node that was left out is told by the lower layers, so that it is in  *)
(* the last tree as well.                                                  *)
LEMMA LeftOutWasInTree ==
    ASSUME FinishStart, NEW p \in DOMAIN upper, p \notin Unpacked, ~ UnderDropped(p)'
    PROVE  /\ p \in DOMAIN tree /\ Kept(p) /\ ~ UnderDropped(p)
           /\ \/ tree[p].type # "symlink" /\ tree[p].type = upper[p].type
                 /\ tree[p].attr = upper[p].attr /\ tree[p].data = upper[p].data
              \/ /\ tree[p].type = "symlink" /\ upper[p].type = "symlink"
                 /\ tree[p].attr = upper[p].attr
<1>1. p # <<>> /\ ~ IsDir(upper, p) /\ LeftOut(p)
  BY AllDone DEF FinishStart
<1>2. p \in Path /\ dropped \subseteq dropped'
  BY UpperFacts DEF FinishStart, Finishing, Walk, Rooted
<1>3. ~ UnderDropped(p)
  BY <1>2 DEF UnderDropped
<1> DEFINE k == Join(Front(p), Last(p))
<1>4. Front(p) \in Path /\ Last(p) \in PathNames /\ p = Append(Front(p), Last(p))
  BY <1>1, <1>2, PathEnds
<1>5. Normal(k) = p
  BY <1>4, JoinFacts
<1> HIDE DEF k
<1>6. /\ k \in DOMAIN lower /\ lower[k].type = upper[p].type /\ lower[k].attr = upper[p].attr
      /\ \/ upper[p].type = "symlink"
         \/ upper[p].type = "file" /\ lower[k].data = upper[p].data
  BY <1>1 DEF LeftOut, k
<1>7. Told(lower[k], p)
  BY <1>5, <1>6 DEF FinishStart, Finishing, Walk, LowerFits, AllTold
<1>8. ~ Stale(p)
  <2>1. SUFFICES ASSUME Stale(p) PROVE FALSE
    OBVIOUS
  <2>2. IsDir(tree, p)
    BY <2>1 DEF Stale
  <2>3. IsPrefix(p, p)
    BY <1>2, PathIsSeq, PrefixFacts
  <2>4. QED
    BY <1>1, <2>2, <2>3, GoneIsDropped
<1>9. p \in DOMAIN tree /\ Tells(lower[k], tree[p], p \in retargeted)
  BY <1>3, <1>6, <1>7, <1>8 DEF Told
<1>10. /\ tree[p].type = upper[p].type /\ tree[p].attr = upper[p].attr
       /\ upper[p].type = "file" => tree[p].data = upper[p].data
  BY <1>6, <1>9 DEF Tells
<1>11. Kept(p)
  BY <1>9 DEF FinishStart, Finishing, Walk, AsTree
<1>12. QED
  BY <1>3, <1>6, <1>9, <1>10, <1>11

LEMMA TreeRecord ==
    ASSUME FinishStart, NEW p \in DOMAIN upper
    PROVE  /\ DOMAIN tree' = DOMAIN upper /\ tree'[p].type = upper[p].type
           /\ tree'[p].attr = upper[p].attr /\ tree'[p].data = upper[p].data
           /\ tree'[p] = View(upper)[p]
  BY ViewFacts DEF FinishStart

LEMMA PrefixTransitive ==
    ASSUME NEW r \in Path, NEW q \in Path, NEW p \in Path, IsPrefix(r, q), IsPrefix(q, p)
    PROVE  IsPrefix(r, p)
  BY PathIsSeq, PrefixFacts

LEMMA FrontIsStrictPrefix ==
    ASSUME NEW q \in Path, NEW p \in Path, q # <<>>, IsPrefix(q, p)
    PROVE  Front(q) \in Path /\ IsStrictPrefix(Front(q), p)
<1>1. Front(q) \in Path /\ Len(q) \in Nat \ {0} /\ Len(Front(q)) = Len(q) - 1
  BY PathEnds
<1>2. IsPrefix(Front(q), Front(q)) /\ IsPrefix(Front(q), q)
  BY <1>1, PathIsSeq, PrefixFacts, PrefixOfFront
<1>3. IsPrefix(Front(q), p)
  BY <1>1, <1>2, PrefixTransitive
<1>4. Front(q) # p
  <2>1. SUFFICES ASSUME Front(q) = p PROVE FALSE
    OBVIOUS
  <2>2. Len(q) <= Len(p)
    BY PathIsSeq, PrefixFacts
  <2>3. QED
    BY <1>1, <2>1, <2>2
<1>5. QED
  BY <1>1, <1>3, <1>4 DEF IsStrictPrefix

LEMMA SpelledJoined ==
    ASSUME NEW p \in Path, p # <<>>, NEW type, type # "dir" \/ Len(p) # 1
    PROVE  Spelled(p, type) = Join(Front(p), Last(p))
<1>1. CASE type # "dir"
  BY <1>1, SpelledFacts
<1>2. CASE Len(p) # 1
  <2>1. Spelled(p, type) = RelPath(p) /\ RelPath(p) = p
    BY <1>2, SpelledFacts, RelPathFacts
  <2>2. /\ Len(p) \in Nat \ {0} /\ Front(p) \in Path /\ Len(Front(p)) = Len(p) - 1
        /\ Last(p) \in PathNames /\ p = Append(Front(p), Last(p))
    BY PathEnds
  <2>3. Front(p) # <<>>
    <3>1. SUFFICES ASSUME Front(p) = <<>> PROVE FALSE
      OBVIOUS
    <3>2. Len(Front(p)) = 0
      BY <3>1, EmptySeq
    <3>3. QED
      BY <1>2, <2>2, <3>2
  <2>4. QED
    BY <2>1, <2>2, <2>3, JoinFacts
<1>3. QED
  BY <1>1, <1>2

LEMMA SpelledAlike ==
    ASSUME NEW p \in Path, NEW type, NEW other, type # "dir",
           other # "dir" \/ Len(p) # 1
    PROVE  Spelled(p, type) = Spelled(p, other)
<1>1. CASE p = <<>>
  BY <1>1 DEF Spelled
<1>2. CASE p # <<>>
  BY <1>2, SpelledJoined
<1>3. QED
  BY <1>1, <1>2

LEMMA FinishFacts ==
    ASSUME FinishStart
    PROVE  /\ upper \in Trees /\ Rooted(upper) /\ IsDir(upper, <<>>) /\ <<>> \in DOMAIN upper
           /\ Rooted(image) /\ Rooted(tree) /\ dropped \subseteq Path \ {<<>>}
           /\ \A p \in DOMAIN tree : IsNode(tree[p])
           /\ DOMAIN upper \subseteq Path /\ DOMAIN image \subseteq Path
           /\ DOMAIN tree \subseteq Path /\ dropped \subseteq dropped'
<1>1. upper \in Trees /\ Paths
  BY DEF FinishStart, Finishing, Walk
<1>2. Rooted(upper) /\ IsDir(upper, <<>>)
  BY <1>1, UpperFacts
<1>3. QED
  BY <1>1, <1>2 DEF Paths, Rooted, FinishStart, IsDir

(* What the tree has is in the image, with the named exceptions. *)
LEMMA FinishKept ==
    ASSUME FinishStart, NEW p \in DOMAIN upper
    PROVE  Kept(p)'
<1>1. tree'[p] = View(upper)[p] /\ image' = image
  BY TreeRecord DEF FinishStart
<1>2. CASE p \in Unpacked
  BY <1>1, <1>2 DEF FinishStart, Finishing, Walk, AsUpper, Kept
<1>3. CASE p \notin Unpacked /\ ~ UnderDropped(p)'
  <2>1. /\ p \in DOMAIN tree /\ Kept(p) /\ ~ UnderDropped(p)
        /\ tree[p].type = upper[p].type /\ tree[p].attr = upper[p].attr
        /\ tree[p].data = upper[p].data \/ (tree[p].type = "symlink" /\ upper[p].type = "symlink")
    BY <1>3, LeftOutWasInTree
  <2>2. retargeted' = retargeted \cup Retargeted(tree, upper)
    BY DEF FinishStart
  <2>3. CASE p \in retargeted /\ p \in DOMAIN image /\ image[p].type = "symlink"
    BY <1>1, <2>2, <2>3 DEF Kept
  <2>4. CASE p \in DOMAIN image /\ image[p] = tree[p] /\ tree[p].data = upper[p].data
    <3>1. tree[p] = [type |-> tree[p].type, attr |-> tree[p].attr, data |-> tree[p].data]
      BY <2>1, FinishFacts DEF IsNode
    <3>2. View(upper)[p] = [type |-> upper[p].type, attr |-> upper[p].attr,
                            data |-> upper[p].data]
      BY ViewFacts
    <3>3. tree[p] = View(upper)[p]
      BY <2>1, <2>4, <3>1, <3>2
    <3>4. QED
      BY <1>1, <2>4, <3>3 DEF Kept
  <2>5. CASE p \in DOMAIN image /\ image[p] = tree[p] /\ tree[p].data # upper[p].data
    <3>1. p \in Retargeted(tree, upper)
      BY <2>1, <2>5 DEF Retargeted
    <3>2. QED
      BY <1>1, <2>1, <2>2, <2>5, <3>1 DEF Kept
  <2>6. QED
    BY <2>1, <2>3, <2>4, <2>5 DEF Kept
<1>4. QED
  BY <1>2, <1>3 DEF Kept

LEMMA StillUnderAtRoot ==
    ASSUME FinishStart, NEW q \in Path, NEW p \in Path, UnderDroppedAtRoot(q), IsPrefix(q, p)
    PROVE  UnderDroppedAtRoot(p)'
<1>1. PICK d \in dropped : Len(d) = 1 /\ IsPrefix(d, q)
  BY DEF UnderDroppedAtRoot
<1>2. d \in dropped' /\ d \in Path
  BY <1>1, FinishFacts
<1>3. IsPrefix(d, p)
  BY <1>1, <1>2, PrefixTransitive
<1>4. QED
  BY <1>1, <1>2, <1>3 DEF UnderDroppedAtRoot

(* What has its directory in the tree, but is not there itself, had its    *)
(* whiteout, unless it is a directory of the root.                         *)
LEMMA GoneIsHidden ==
    ASSUME FinishStart, NEW q \in Path, q # <<>>, q \notin DOMAIN upper,
           IsDir(upper, Front(q)), Join(Front(q), Last(q)) \in DOMAIN lower
    PROVE  q \notin DOMAIN image
<1>1. Join(Front(q), Last(q)) \in Whited
  BY AllGoneWhited DEF FinishStart
<1>2. PICK m \in written : m.kind = "whiteout" /\ m.name = Join(Front(q), Last(q))
  BY <1>1 DEF Whited
<1>3. Front(q) \in Path /\ Last(q) \in PathNames /\ q = Append(Front(q), Last(q))
  BY PathEnds
<1>4. Normal(m.name) = q
  BY <1>2, <1>3, JoinFacts
<1>5. IsPrefix(q, q)
  BY PathIsSeq, PrefixFacts
<1>6. QED
  BY <1>2, <1>4, <1>5 DEF FinishStart, Finishing, Walk, Hides

(* What the image has beyond the tree is below a directory of the root     *)
(* that was taken away.                                                    *)
LEMMA FinishLeft ==
    ASSUME FinishStart, NEW p \in DOMAIN image, p \notin DOMAIN upper
    PROVE  UnderDroppedAtRoot(p)'
<1>1. /\ Rooted(upper) /\ IsDir(upper, <<>>) /\ <<>> \in DOMAIN upper /\ Rooted(image)
      /\ p \in Path
  BY FinishFacts
<1>2. PICK q \in Path : /\ IsPrefix(q, p) /\ q # <<>>
                        /\ q \notin DOMAIN upper /\ Front(q) \in DOMAIN upper
  BY <1>1, FirstMissing
<1>3. q \in DOMAIN image
  BY <1>1, <1>2, RootedFacts DEF IsStrictPrefix, IsDir
<1>4. Remains /\ AsUpper
  BY DEF FinishStart, Finishing, Walk
<1> DEFINE f == Front(q)
<1>5. CASE IsDir(upper, f)
  <2>1. q \notin Unpacked
    BY <1>2, <1>4 DEF AsUpper
  <2>2. /\ Lists(lower, q, image[q].type)
        /\ \/ UnderDroppedAtRoot(q)
           \/ Len(q) = 1 /\ image[q].type = "dir" => IsDir(tree, q)
    BY <1>3, <1>4, <2>1 DEF Remains
  <2>3. Spelled(q, image[q].type) \in DOMAIN lower
    BY <2>2 DEF Lists
  <2>4. Len(q) = 1 /\ image[q].type = "dir"
    <3>1. SUFFICES ASSUME Len(q) # 1 \/ image[q].type # "dir" PROVE FALSE
      OBVIOUS
    <3>2. Join(Front(q), Last(q)) \in DOMAIN lower
      BY <1>2, <2>3, <3>1, SpelledJoined
    <3>3. QED
      BY <1>2, <1>3, <1>5, <3>2, GoneIsHidden
  <2>5. CASE UnderDroppedAtRoot(q)
    BY <1>1, <1>2, <2>5, StillUnderAtRoot
  <2>6. CASE IsDir(tree, q)
    <3>1. ~ IsDir(upper, q)
      BY <1>2 DEF IsDir
    <3>2. QED
      BY <1>2, <2>4, <2>6, <3>1, GoneIsDropped
  <2>7. QED
    BY <2>2, <2>4, <2>5, <2>6
<1>6. CASE ~ IsDir(upper, f)
  <2>1. f # <<>> /\ f \in Path /\ IsPrefix(f, p) /\ f \in DOMAIN upper
    BY <1>1, <1>2, <1>6, FrontIsStrictPrefix DEF IsStrictPrefix
  <2>2. IsDir(image, f)
    BY <1>1, <1>2, <1>3 DEF Rooted
  <2>3. f \notin Unpacked
    <3>1. SUFFICES ASSUME f \in Unpacked PROVE FALSE
      OBVIOUS
    <3>2. image[f] = View(upper)[f] /\ View(upper)[f].type = upper[f].type
      BY <1>4, <2>1, <3>1, ViewFacts DEF AsUpper
    <3>3. QED
      BY <1>6, <2>1, <2>2, <3>2 DEF IsDir
  <2>4. LeftOut(f)
    BY <2>1, <2>3, AllDone DEF FinishStart
  <2>5. /\ Lists(lower, f, "dir")
        /\ \/ UnderDroppedAtRoot(f)
           \/ Len(f) = 1 => IsDir(tree, f)
    BY <1>4, <2>2, <2>3 DEF Remains, IsDir
  <2>6. Len(f) = 1
    <3>1. SUFFICES ASSUME Len(f) # 1 PROVE FALSE
      OBVIOUS
    <3>2. Spelled(f, "dir") = Join(Front(f), Last(f))
      BY <2>1, <3>1, SpelledJoined
    <3>3. lower[Join(Front(f), Last(f))].type = "dir"
      BY <2>5, <3>2 DEF Lists, Stands
    <3>4. QED
      BY <2>4, <3>3 DEF LeftOut
  <2>7. CASE UnderDroppedAtRoot(f)
    BY <1>1, <2>1, <2>7, StillUnderAtRoot
  <2>8. CASE IsDir(tree, f)
    BY <1>6, <2>1, <2>6, <2>8, GoneIsDropped
  <2>9. QED
    BY <2>5, <2>6, <2>7, <2>8
<1>7. QED
  BY <1>5, <1>6

(* The entries that were written are told by the new tree. *)
LEMMA FinishToldWritten ==
    ASSUME FinishStart, NEW e \in written, NEW k, IsEntry(k, e)
    PROVE  Told(e, Normal(k))'
<1> DEFINE p == Normal(k)
<1>1. e.name = k /\ IsOfUpper(e)
  BY DEF FinishStart, Finishing, Walk, WrittenFits, IsEntry
<1>2. /\ p \in DOMAIN upper
      /\ IF e.type = "link" THEN upper[p].type = "file"
         ELSE e.type = upper[p].type /\ e.attr = upper[p].attr /\ e.data = upper[p].data
  BY <1>1 DEF IsOfUpper
<1> HIDE DEF p
<1>3. /\ DOMAIN tree' = DOMAIN upper /\ tree'[p].type = upper[p].type
      /\ tree'[p].attr = upper[p].attr /\ tree'[p].data = upper[p].data
  BY <1>2, TreeRecord
<1>4. Tells(e, tree'[p], p \in retargeted')
  BY <1>2, <1>3 DEF Tells
<1>5. Told(e, p)'
  BY <1>2, <1>3, <1>4 DEF Told
<1>6. QED
  BY <1>5 DEF p

(* So is an entry of the lower layers for a node that was left out; *)
LEMMA FinishToldInUpper ==
    ASSUME FinishStart, NEW p \in DOMAIN upper, p \notin Unpacked, NEW e, e.type # "dir",
           Spelled(p, e.type) \in DOMAIN lower, e = lower[Spelled(p, e.type)], Told(e, p),
           ~ UnderDropped(p)'
    PROVE  Tells(e, tree'[p], p \in retargeted')
<1>1. p \in Path /\ p # <<>> /\ LeftOut(p)
  BY AllDone, FinishFacts DEF FinishStart
<1>2. Spelled(p, e.type) = Join(Front(p), Last(p))
  BY <1>1, SpelledJoined
<1>3. /\ e.type = upper[p].type /\ e.attr = upper[p].attr
      /\ \/ upper[p].type = "symlink"
         \/ upper[p].type = "file" /\ e.data = upper[p].data
  BY <1>1, <1>2 DEF LeftOut
<1>4. /\ tree'[p].type = upper[p].type /\ tree'[p].attr = upper[p].attr
      /\ tree'[p].data = upper[p].data
  BY TreeRecord
<1>5. CASE upper[p].type = "file"
  BY <1>3, <1>4, <1>5 DEF Tells
<1>6. CASE upper[p].type = "symlink"
  <2>1. /\ p \in DOMAIN tree /\ ~ UnderDropped(p)
        /\ tree[p].type = "symlink" /\ tree[p].attr = upper[p].attr
    BY <1>6, LeftOutWasInTree
  <2>2. ~ Stale(p)
    BY <2>1 DEF Stale, IsDir
  <2>3. Tells(e, tree[p], p \in retargeted)
    BY <2>1, <2>2 DEF Told
  <2>4. tree[p].data = e.data \/ p \in retargeted
    BY <1>3, <1>6, <2>3 DEF Tells
  <2>5. p \in Retargeted(tree, upper) \/ tree[p].data = upper[p].data
    BY <1>6, <2>1 DEF Retargeted
  <2>6. retargeted' = retargeted \cup Retargeted(tree, upper)
    BY DEF FinishStart
  <2>7. tree'[p].data = e.data \/ p \in retargeted'
    BY <1>4, <2>4, <2>5, <2>6
  <2>8. QED
    BY <1>3, <1>4, <1>6, <2>7 DEF Tells
<1>7. QED
  BY <1>3, <1>5, <1>6

(* and one for a node that is no longer there is below a directory that    *)
(* was taken away, since it had no whiteout.                               *)
LEMMA FinishToldOutside ==
    ASSUME FinishStart, NEW p \in DOMAIN tree, p \notin DOMAIN upper,
           NEW type, type # "dir", Spelled(p, type) \in DOMAIN lower,
           Spelled(p, type) \notin Whited
    PROVE  UnderDropped(p)'
<1>1. /\ Rooted(upper) /\ IsDir(upper, <<>>) /\ <<>> \in DOMAIN upper /\ Rooted(tree)
      /\ p \in Path
  BY FinishFacts
<1>2. PICK q \in Path : /\ IsPrefix(q, p) /\ q # <<>>
                        /\ q \notin DOMAIN upper /\ Front(q) \in DOMAIN upper
  BY <1>1, FirstMissing
<1>3. Front(q) \in Path /\ IsStrictPrefix(Front(q), p) /\ IsPrefix(Front(q), p)
  BY <1>1, <1>2, FrontIsStrictPrefix DEF IsStrictPrefix
<1>4. IsDir(tree, Front(q))
  BY <1>1, <1>3, RootedFacts
<1>5. CASE ~ IsDir(upper, Front(q))
  BY <1>3, <1>4, <1>5, GoneIsDropped
<1>6. CASE IsDir(upper, Front(q)) /\ q # p
  <2>1. IsDir(tree, q)
    BY <1>1, <1>2, <1>6, RootedFacts DEF IsStrictPrefix
  <2>2. ~ IsDir(upper, q)
    BY <1>2 DEF IsDir
  <2>3. QED
    BY <1>2, <2>1, <2>2, GoneIsDropped
<1>7. CASE IsDir(upper, Front(q)) /\ q = p
  <2>1. Spelled(p, type) = Join(Front(p), Last(p))
    BY <1>1, <1>2, <1>7, SpelledJoined
  <2>2. Spelled(p, type) \in Whited
    BY <1>1, <1>2, <1>7, <2>1, AllGoneWhited DEF FinishStart
  <2>3. QED
    BY <2>2
<1>8. QED
  BY <1>5, <1>6, <1>7

LEMMA FinishToldLower ==
    ASSUME FinishStart, NEW k \in DOMAIN lower, k \notin Named, k \notin Whited,
           NEW e, e = lower[k]
    PROVE  Told(e, Normal(k))'
<1> DEFINE p == Normal(k)
<1>1. /\ p \in Path /\ k = Spelled(p, e.type) /\ Told(e, p)
  BY DEF FinishStart, Finishing, Walk, LowerFits, AllTold, IsEntry
<1> HIDE DEF p
<1>2. SUFFICES ASSUME e.type # "dir", ~ UnderDropped(p)' PROVE Told(e, p)'
  BY DEF Told, p
<1>3. DOMAIN tree' = DOMAIN upper
  BY ViewFacts DEF FinishStart
<1>4. CASE p \in DOMAIN upper /\ p \in Unpacked
  <2>1. PICK m \in written : m.kind = "member" /\ Normal(m.name) = p
    BY <1>4 DEF Unpacked
  <2>2. IsOfUpper(m)
    BY <2>1 DEF FinishStart, Finishing, Walk, WrittenFits
  <2>3. m.name = Spelled(p, m.type)
    BY <2>1, <2>2 DEF IsOfUpper, IsEntry
  <2>4. m.name # k
    BY <2>1 DEF Named
  <2>5. m.type = "dir" /\ Len(p) = 1
    BY <1>1, <1>2, <2>3, <2>4, SpelledAlike
  <2>6. upper[p].type = "dir"
    BY <2>1, <2>2, <2>5 DEF IsOfUpper
  <2>7. tree'[p].type = "dir"
    BY <1>4, <2>6, TreeRecord
  <2>8. QED
    BY <1>3, <1>4, <2>5, <2>7 DEF Told, Stale, IsDir
<1>5. CASE p \in DOMAIN upper /\ p \notin Unpacked
  <2>1. Tells(e, tree'[p], p \in retargeted')
    BY <1>1, <1>2, <1>5, FinishToldInUpper
  <2>2. QED
    BY <1>3, <1>5, <2>1 DEF Told
<1>6. CASE p \notin DOMAIN upper
  <2>1. ~ UnderDropped(p)
    BY <1>2, FinishFacts DEF UnderDropped
  <2>2. ~ Stale(p)
    <3>1. SUFFICES ASSUME Stale(p) PROVE FALSE
      OBVIOUS
    <3>2. IsDir(tree, p) /\ ~ IsDir(upper, p) /\ IsPrefix(p, p)
      BY <1>1, <1>6, <3>1, PathIsSeq, PrefixFacts DEF Stale, IsDir
    <3>3. QED
      BY <1>2, <3>2, GoneIsDropped
  <2>3. p \in DOMAIN tree
    BY <1>1, <1>2, <2>1, <2>2 DEF Told
  <2>4. QED
    BY <1>1, <1>2, <1>6, <2>3, FinishToldOutside
<1>7. QED
  BY <1>4, <1>5, <1>6

(* A finished layer leaves what is known between two layers. *)
LEMMA FinishStep ==
    ASSUME FinishStart, below' = below, written' = written
    PROVE  /\ Paths' /\ Reads' /\ AllTold(read.files)' /\ \A p \in DOMAIN tree' : Kept(p)'
           /\ NothingLeftBehind'
<1>1. DOMAIN tree' = DOMAIN upper /\ read' = read /\ image' = image
  BY ViewFacts DEF FinishStart
<1>2. Reads'
  BY <1>1 DEF FinishStart, Finishing, Reads, ReadFits, ImageRead
<1>3. AllTold(read.files)'
  <2>1. ASSUME NEW k \in DOMAIN read'.files, NEW e, e = read'.files[k]
        PROVE  Told(e, Normal(k))'
    <3>1. k \in DOMAIN read.files /\ e = read.files[k]
      BY <1>1, <2>1
    <3>2. IsEntry(k, e)
      BY <3>1 DEF FinishStart, Finishing, Reads, ReadFits
    <3>3. \/ e \in written
          \/ k \notin Named /\ k \notin Whited /\ k \in DOMAIN lower /\ e = lower[k]
      BY <3>1 DEF FinishStart, Finishing, Walk, ReadSoFar
    <3>4. QED
      BY <3>2, <3>3, FinishToldWritten, FinishToldLower
  <2>2. QED
    BY <2>1 DEF AllTold
<1>4. \A p \in DOMAIN tree' : Kept(p)'
  BY <1>1, FinishKept
<1>5. NothingLeftBehind'
  BY <1>1, FinishLeft DEF NothingLeftBehind
<1>6. Paths'
  <2>1. \A p \in DOMAIN upper : IsNode(tree'[p])
    BY TreeRecord, ViewFacts DEF IsNode
  <2>2. Rooted(tree')
    <3>1. ASSUME NEW p \in DOMAIN upper
          PROVE  p \in Path /\ (p # <<>> => Front(p) \in DOMAIN upper
                                            /\ tree'[Front(p)].type = "dir")
      BY FinishFacts, TreeRecord DEF Rooted, IsDir
    <3>2. QED
      BY <1>1, <3>1 DEF Rooted, IsDir
  <2>3. dropped' \subseteq Path \ {<<>>}
    BY FinishFacts DEF FinishStart, Gone
  <2>4. QED
    BY <1>1, <2>1, <2>2, <2>3, FinishFacts DEF Paths
<1>7. QED
  BY <1>2, <1>3, <1>4, <1>5, <1>6

(* A file in the layer differs from the entry of the lower layers, and so  *)
(* from the last tree.                                                     *)
LEMMA FileIsNew ==
    ASSUME FinishStart, NEW m \in written, m.kind = "member", m.type = "file"
    PROVE  IsNew(Normal(m.name))
<1> DEFINE p == Normal(m.name)
<1>1. IsOfUpper(m) /\ Differs(m)
  BY DEF FinishStart, Finishing, Walk, WrittenFits
<1>2. /\ p \in DOMAIN upper /\ p \in Path /\ m.name = Spelled(p, "file")
      /\ upper[p].type = "file" /\ m.attr = upper[p].attr /\ m.data = upper[p].data
  BY <1>1 DEF IsOfUpper, IsEntry
<1> HIDE DEF p
<1>3. SUFFICES ASSUME p \in DOMAIN tree, tree[p] = tree'[p], ~ UnderDropped(p)
               PROVE  SharesInode(p)
  BY DEF IsNew, p
<1>4. tree[p].type = "file" /\ tree[p].attr = m.attr /\ tree[p].data = m.data
  BY <1>2, <1>3, TreeRecord
<1>5. LowerFits
  BY DEF FinishStart, Finishing, Walk
<1>6. m.name \in DOMAIN lower /\ Stands(lower[m.name], "file")
  BY <1>2, <1>3, <1>4, <1>5 DEF LowerFits, FilesListed, Lists
<1> DEFINE l == lower[m.name]
<1>7. IsEntry(m.name, l) /\ l \in below /\ Told(l, p)
  BY <1>5, <1>6 DEF LowerFits, AllTold, p
<1>8. CASE l.type = "link"
  <2>1. l.kind = "member" /\ Normal(l.name) = p
    BY <1>7 DEF IsEntry, p
  <2>2. QED
    BY <1>7, <1>8, <2>1 DEF SharesInode
<1>9. CASE l.type = "file"
  <2>1. ~ Stale(p)
    BY <1>4 DEF Stale, IsDir
  <2>2. Tells(l, tree[p], p \in retargeted)
    BY <1>3, <1>7, <1>9, <2>1 DEF Told
  <2>3. l.attr = m.attr /\ l.data = m.data
    BY <1>4, <1>9, <2>2 DEF Tells
  <2>4. QED
    BY <1>1, <1>6, <1>9, <2>3 DEF Differs
<1>10. QED
  BY <1>6, <1>8, <1>9 DEF Stands
-----------------------------------------------------------------------------
(***************************************************************************)
(* The invariant holds at first, and every step keeps it.                  *)
(***************************************************************************)
LEMMA LayerInitHolds == LayerInit => LayerInv
<1>1. SUFFICES ASSUME LayerInit PROVE LayerInv
  OBVIOUS
<1>2. /\ pc = "import" /\ DOMAIN image = {} /\ DOMAIN tree = {} /\ DOMAIN read.files = {}
      /\ read.known /\ tree = image /\ dropped = {}
  BY <1>1, EmptySeq DEF LayerInit
<1>3. Paths /\ ReadFits /\ ImageRead /\ ImportsWhole
  BY <1>2 DEF Paths, Rooted, ReadFits, ImageRead, ImportsWhole
<1>4. Idle
  BY <1>2 DEF Idle, AllTold, NothingLeftBehind
<1>5. QED
  BY <1>2, <1>3, <1>4 DEF LayerInv, Working, FailsOnlyOnSpecial

LEMMA ImportedNodes ==
    ASSUME NEW m, Fits(m), Write(m), \A q \in DOMAIN image : IsNode(image[q]), Rooted(image)
    PROVE  \A q \in DOMAIN image' : IsNode(image'[q])
<1>1. CASE m.kind = "member"
  <2>1. PICK n : IsNode(n) /\ image' = Put(Normal(m.name), n)
    <3>1. image' = Unpack(m)
      BY <1>1 DEF Write, Extract
    <3>2. CASE m.type = "link"
      <4>1. Normal(m.link) \in DOMAIN image
        BY <1>1, <3>2 DEF Fits
      <4>2. image' = Put(Normal(m.name), image[Normal(m.link)])
        BY <3>1, <3>2, <4>1 DEF Unpack
      <4>3. QED
        BY <4>1, <4>2
    <3>3. CASE m.type # "link"
      <4> DEFINE n == [type |-> m.type, attr |-> m.attr, data |-> m.data]
      <4>1. image' = Put(Normal(m.name), n)
        BY <3>1, <3>3 DEF Unpack
      <4>2. IsNode(n)
        BY DEF IsNode
      <4>3. QED
        BY <4>1, <4>2
    <3>4. QED
      BY <3>2, <3>3
  <2>2. /\ image'[Normal(m.name)] = n
        /\ \A q \in DOMAIN image' : q # Normal(m.name) => q \in DOMAIN image /\ image'[q] = image[q]
    BY <2>1, PutFacts
  <2>3. QED
    BY <2>1, <2>2
<1>2. CASE m.kind # "member"
  <2>1. image' = Forget(image, Hidden(m))
    BY <1>2 DEF Write, Extract
  <2>2. \A q \in DOMAIN image' : q \in DOMAIN image /\ image'[q] = image[q]
    BY <2>1 DEF Forget, Restrict
  <2>3. QED
    BY <2>2
<1>3. QED
  BY <1>1, <1>2

(* An entry of another builder. *)
LEMMA ImportStep ==
    ASSUME LayerInv, Import
    PROVE  LayerInv'
<1>1. PICK m : Fits(m) /\ Write(m)
  BY DEF Import
<1>2. /\ pc = "import" /\ pc' = pc /\ tree' = image' /\ below' = below /\ retargeted' = retargeted
      /\ dropped' = dropped \cup Gone(image, image')
  BY DEF Import
<1>3. ImportStart
  BY <1>2 DEF LayerInv, ImportStart, Reads
<1>4. /\ Rooted(image') /\ (IsDir(image, <<>>) => IsDir(image', <<>>)) /\ Reads'
      /\ AllTold(read.files)'
  <2>1. m.kind \in {"member", "whiteout", "opaque"}
    BY <1>1 DEF Fits
  <2>2. QED
    BY <1>1, <1>3, <2>1, ImportedMember, ImportedWhiteout, ImportedOpaque
<1>5. tree = image /\ Paths
  BY <1>2 DEF LayerInv, ImportsWhole
<1>6. Paths'
  <2>1. \A p \in DOMAIN image' : IsNode(image'[p])
    BY <1>1, <1>5, ImportedNodes DEF Paths
  <2>2. Gone(image, image') \subseteq Path \ {<<>>}
    BY <1>4, <1>5 DEF Gone, Paths, Rooted
  <2>3. QED
    BY <1>2, <1>4, <1>5, <2>1, <2>2 DEF Paths
<1>7. Idle'
  <2>1. \A p \in DOMAIN tree' : Kept(p)'
    BY <1>2 DEF Kept
  <2>2. NothingLeftBehind'
    BY <1>2 DEF NothingLeftBehind
  <2>3. QED
    BY <1>4, <2>1, <2>2 DEF Idle
<1>8. QED
  BY <1>2, <1>4, <1>6, <1>7 DEF LayerInv, Reads, ImportsWhole, Working, FailsOnlyOnSpecial

LEMMA ImportLayerStep ==
    ASSUME LayerInv, ImportLayer
    PROVE  LayerInv'
<1>1. /\ pc = "import" /\ pc' = pc /\ below' = below \cup written /\ written' = {}
      /\ read' = read /\ image' = image /\ tree' = tree
      /\ dropped' = dropped /\ retargeted' = retargeted
  BY DEF ImportLayer
<1>2. /\ Paths /\ ReadFits /\ ImageRead /\ ImportsWhole
      /\ AllTold(read.files) /\ (\A p \in DOMAIN tree : Kept(p)) /\ NothingLeftBehind
  BY <1>1 DEF LayerInv, Idle, Complete
<1>3. Paths' /\ ReadFits' /\ ImageRead' /\ ImportsWhole'
  BY <1>1, <1>2 DEF Paths, ReadFits, ImageRead, ImportsWhole
<1>4. /\ \A p : UnderDropped(p)' <=> UnderDropped(p)
      /\ \A p : UnderDroppedAtRoot(p)' <=> UnderDroppedAtRoot(p)
      /\ \A p : Stale(p)' <=> Stale(p)
  BY <1>1 DEF UnderDropped, UnderDroppedAtRoot, Stale
<1>5. AllTold(read.files)'
  BY <1>1, <1>2, <1>4 DEF AllTold, Told
<1>6. \A p \in DOMAIN tree' : Kept(p)'
  BY <1>1, <1>2, <1>4 DEF Kept
<1>7. NothingLeftBehind'
  BY <1>1, <1>2, <1>4 DEF NothingLeftBehind, Complete
<1>8. QED
  BY <1>1, <1>3, <1>5, <1>6, <1>7 DEF LayerInv, Idle, Working, FailsOnlyOnSpecial

(* What is the same in the steps of the walk. *)
LEMMA WorkingStep ==
    ASSUME LayerInv, Working, Rest, pc' = pc, Rooted(image'), Reads', Walk'
    PROVE  LayerInv'
<1>1. Paths'
  BY PathsKept DEF LayerInv
<1>2. pc' = "create_layer"
  BY DEF Working
<1>3. QED
  BY <1>1, <1>2 DEF LayerInv, Reads, ImportsWhole, Idle, Complete, FailsOnlyOnSpecial

LEMMA RaiseStep ==
    ASSUME LayerInv, NEW n \in here.files, RaiseUnexpectedType(n) \/ RaiseNoTarInfo(n)
    PROVE  LayerInv'
<1>1. /\ Paths /\ ReadFits /\ ImageRead /\ Walk
  BY DEF LayerInv, RaiseUnexpectedType, RaiseNoTarInfo, Judging, Comes
<1>2. /\ pc' = "failed" /\ below' = below /\ written' = written /\ read' = read /\ image' = image
      /\ tree' = tree /\ upper' = upper /\ dropped' = dropped
  BY DEF RaiseUnexpectedType, RaiseNoTarInfo, Rest
<1>3. \E p \in DOMAIN upper :
          \/ upper[p].type = "socket"
          \/ /\ upper[p].type = "special"
             /\ \E m \in below : /\ m.kind = "member" /\ m.type = "special"
                                 /\ Normal(m.name) = p
  BY <1>1, RaiseIsSpecial, RaiseIsSocket
<1>4. Paths' /\ ReadFits' /\ ImageRead'
  BY <1>1, <1>2 DEF Paths, ReadFits, ImageRead
<1>5. FailsOnlyOnSpecial'
  BY <1>2, <1>3 DEF FailsOnlyOnSpecial
<1>6. QED
  BY <1>2, <1>4, <1>5 DEF LayerInv, ImportsWhole, Idle, Complete, Working

LEMMA FinishStarts ==
    ASSUME LayerInv, Finish
    PROVE  FinishStart /\ below' = below /\ written' = written /\ pc' = "idle"
<1>1. Paths /\ Reads /\ Walk
  BY DEF LayerInv, Finish, Reads
<1>2. QED
  BY <1>1 DEF FinishStart, Finishing, Finish

LEMMA FinishesWell ==
    ASSUME LayerInv, Finish
    PROVE  LayerInv'
<1>1. FinishStart /\ below' = below /\ written' = written /\ pc' = "idle"
  BY FinishStarts
<1>2. /\ Paths' /\ Reads' /\ AllTold(read.files)' /\ \A p \in DOMAIN tree' : Kept(p)'
      /\ NothingLeftBehind'
  BY <1>1, FinishStep
<1>3. QED
  BY <1>1, <1>2 DEF LayerInv, Reads, ImportsWhole, Idle, Working, FailsOnlyOnSpecial

LEMMA LayerStutterHolds ==
    ASSUME LayerInv, UNCHANGED layerVars
    PROVE  LayerInv'
<1>1. /\ pc' = pc /\ below' = below /\ written' = written /\ read' = read /\ image' = image
      /\ tree' = tree /\ upper' = upper /\ lower' = lower /\ stack' = stack /\ here' = here
      /\ inodes' = inodes /\ dropped' = dropped /\ retargeted' = retargeted
  BY DEF layerVars, locals
<1>2. /\ \A p : UnderDropped(p)' <=> UnderDropped(p)
      /\ \A p : UnderDroppedAtRoot(p)' <=> UnderDroppedAtRoot(p)
      /\ \A p : Stale(p)' <=> Stale(p)
  BY <1>1 DEF UnderDropped, UnderDroppedAtRoot, Stale
<1>3. (\A p : Kept(p)' <=> Kept(p)) /\ (\A m, p : Told(m, p)' <=> Told(m, p))
  BY <1>1, <1>2 DEF Kept, Told
<1>4. Paths' /\ ReadFits' /\ ImageRead' /\ ImportsWhole' /\ FailsOnlyOnSpecial'
  BY <1>1 DEF LayerInv, Paths, ReadFits, ImageRead, ImportsWhole, FailsOnlyOnSpecial
<1>5. Idle'
  <2>1. NothingLeftBehind => NothingLeftBehind'
    BY <1>1, <1>2 DEF NothingLeftBehind, Complete
  <2>2. AllTold(read.files) => AllTold(read.files)'
    BY <1>1, <1>3 DEF AllTold
  <2>3. QED
    BY <1>1, <1>3, <2>1, <2>2 DEF LayerInv, Idle, Complete
<1>6. ASSUME Walk PROVE Walk'
  <2>1. /\ Unpacked' = Unpacked /\ DoneDirs' = DoneDirs /\ Whited' = Whited /\ Named' = Named
        /\ \A d : GoneFrom(d)' = GoneFrom(d)
    BY <1>1 DEF Unpacked, DoneDirs, Whited, Named, GoneFrom
  <2>2. LowerFits'
    BY <1>1, <1>2, <1>3, <1>6 DEF Walk, LowerFits, AllTold, FilesListed
  <2>3. Remains' /\ AsUpper' /\ AsTree'
    BY <1>1, <1>2, <1>3, <1>6, <2>1 DEF Walk, Remains, AsUpper, AsTree
  <2>4. WrittenFits'
    BY <1>1, <1>6, <2>1 DEF Walk, WrittenFits, IsOfUpper, IsWhiteout, Differs
  <2>5. ReadSoFar' /\ Hides'
    BY <1>1, <1>6, <2>1 DEF Walk, ReadSoFar, Hides
  <2>6. FilesDone' /\ GoneDone'
    BY <1>1, <1>6, <2>1 DEF Walk, FilesDone, GoneDone, LeftOut
  <2>7. HereFits' /\ StackFits' /\ InodesFit'
    BY <1>1, <1>6, <2>1 DEF Walk, HereFits, StackFits, InodesFit, GoneFrom
  <2>8. QED
    BY <1>1, <1>6, <2>2, <2>3, <2>4, <2>5, <2>6, <2>7 DEF Walk
<1>7. QED
  BY <1>1, <1>4, <1>5, <1>6 DEF LayerInv, Working

LEMMA LayerStepHolds == LayerInv /\ [LayerNext]_layerVars => LayerInv'
<1>1. SUFFICES ASSUME LayerInv, [LayerNext]_layerVars PROVE LayerInv'
  OBVIOUS
<1>2. CASE Import
  BY <1>1, <1>2, ImportStep
<1>3. CASE ImportLayer
  BY <1>1, <1>3, ImportLayerStep
<1>4. ASSUME NEW t \in Trees, CreateLayer(t) PROVE LayerInv'
  <2>1. pc' = "create_layer" /\ Paths' /\ Reads' /\ Walk'
    BY <1>1, <1>4, CreateLayerStep
  <2>2. QED
    BY <2>1 DEF LayerInv, Reads, ImportsWhole, Idle, Complete, FailsOnlyOnSpecial
<1>5. ASSUME NEW dir \in stack, AddDirectory(dir) PROVE LayerInv'
  <2>1. Working /\ Rest /\ pc' = pc /\ Paths /\ Reads /\ Walk
    BY <1>1, <1>5 DEF AddDirectory, LayerInv, Reads
  <2>2. QED
    BY <1>1, <1>5, <2>1, AddDirectoryWalk, WorkingStep
<1>6. ASSUME NEW n \in here.gone, AddWhiteout(n) PROVE LayerInv'
  <2>1. Working /\ Rest /\ pc' = pc /\ Paths /\ Reads /\ Walk
    BY <1>1, <1>6 DEF AddWhiteout, LayerInv, Reads
  <2>2. QED
    BY <1>1, <1>6, <2>1, AddWhiteoutWalk, WorkingStep
<1>7. ASSUME NEW n \in here.files, LeaveOut(n) PROVE LayerInv'
  <2>1. Working /\ Rest /\ pc' = pc /\ Paths /\ Reads /\ Walk
    BY <1>1, <1>7 DEF LeaveOut, Judging, Comes, LayerInv, Reads
  <2>2. image' = image /\ Reads' /\ Walk'
    BY <1>7, <2>1, LeaveOutWalk
  <2>3. Rooted(image')
    BY <2>1, <2>2 DEF Paths
  <2>4. QED
    BY <1>1, <2>1, <2>2, <2>3, WorkingStep
<1>8. ASSUME NEW n \in here.files, AddFile(n) PROVE LayerInv'
  <2>1. Working /\ Rest /\ pc' = pc /\ Paths /\ Reads /\ Walk
    BY <1>1, <1>8 DEF AddFile, Judging, Comes, LayerInv, Reads
  <2>2. QED
    BY <1>1, <1>8, <2>1, AddFileWalk, WorkingStep
<1>9. ASSUME NEW n \in here.files, RaiseUnexpectedType(n) \/ RaiseNoTarInfo(n) PROVE LayerInv'
  BY <1>1, <1>9, RaiseStep
<1>10. CASE Finish
  BY <1>1, <1>10, FinishesWell
<1>11. CASE UNCHANGED layerVars
  BY <1>1, <1>11, LayerStutterHolds
<1>12. QED
  BY <1>1, <1>2, <1>3, <1>4, <1>5, <1>6, <1>7, <1>8, <1>9, <1>10, <1>11 DEF LayerNext
-----------------------------------------------------------------------------
(***************************************************************************)
(* The theorems about the layer builder.                                   *)
(***************************************************************************)
(* Every reachable state satisfies the invariant. *)
THEOREM LayerInvHolds == LayerSpec => []LayerInv
<1>1. LayerInit => LayerInv
  BY LayerInitHolds
<1>2. LayerInv /\ [LayerNext]_layerVars => LayerInv'
  BY LayerStepHolds
<1>3. QED
  BY <1>1, <1>2, PTL DEF LayerSpec

(* The layers make a tree, and the one they were built from but for what   *)
(* was under a directory that an image took away, and for links that only  *)
(* got another target (create_layer, lines 80-154).                        *)
THEOREM DifferencesAreKnown == LayerSpec => []OnlyKnownDifferences
<1>1. LayerInv => OnlyKnownDifferences
  <2>1. SUFFICES ASSUME LayerInv PROVE OnlyKnownDifferences
    OBVIOUS
  <2>2. ImageIsTree
    BY <2>1 DEF LayerInv, Paths, Rooted, ImageIsTree
  <2>3. NothingLeftBehind
    BY <2>1 DEF LayerInv, Idle, NothingLeftBehind
  <2>4. NothingLost
    BY <2>1 DEF LayerInv, Idle, NothingLost, Kept
  <2>5. QED
    BY <2>2, <2>3, <2>4 DEF OnlyKnownDifferences
<1>2. QED
  BY <1>1, LayerInvHolds, PTL

(* create_layer fails only on a device or pipe that a lower layer has in   *)
(* the same place (line 146) or on a socket of the tree (lines 115-116),   *)
(* and never on a name it does not find.                                   *)
THEOREM FailsOnlyOnDevices == LayerSpec => []FailsOnlyOnSpecial
<1>1. LayerInv => FailsOnlyOnSpecial
  BY DEF LayerInv
<1>2. QED
  BY <1>1, LayerInvHolds, PTL

(* A file that is as it was is not in the layer, unless one of its inode's *)
(* names is a link or its directory was taken away (lines 119-138).        *)
THEOREM LayersAreDifferences == LayerSpec => NothingRepeated
<1> DEFINE Repeats == \A m \in written :
          m.kind = "member" /\ m.type = "file" => IsNew(Normal(m.name))
<1>1. LayerInv /\ [LayerNext]_layerVars => [count' # count => Repeats]_layerVars
  <2>1. SUFFICES ASSUME LayerInv, LayerNext, count' # count PROVE Repeats
    OBVIOUS
  <2>2. Finish
    BY <2>1 DEF LayerNext, Import, ImportLayer, CreateLayer, AddDirectory, AddWhiteout, LeaveOut,
       AddFile, RaiseUnexpectedType, RaiseNoTarInfo, Rest
  <2>3. QED
    BY <2>1, <2>2, FinishStarts, FileIsNew
<1>2. QED
  BY <1>1, LayerInvHolds, PTL DEF LayerSpec, NothingRepeated
=============================================================================
