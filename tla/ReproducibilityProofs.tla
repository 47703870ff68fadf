------------------------- MODULE ReproducibilityProofs -------------------------
(***************************************************************************)
(* Proofs about Reproducibility for every graph of elements, every list of *)
(* dependencies to test, every content of the caches and of the server.    *)
(***************************************************************************)
EXTENDS Reproducibility, SequenceTheorems, TLAPS

(* The loop of bst_check_reproducibility_v2, and where it may end.         *)
Loop == {"remove", "pull", "status", "rebuild", "checkout a", "remove one", "search", "build",
         "checkout b", "compare"}
Maybe     == Artifacts \cup {None}
SearchSet == [seen : SUBSET Element, queue : SUBSET Element, required : SUBSET Element]
JobSet    == [pc : Loop \cup {"report", "failed", "status 0", "status 1"},
              at : 1 .. Len(RunOrder), fallback : BOOLEAN, a : Maybe, b : Maybe,
              search : SearchSet, hurt : BOOLEAN]
ResultSet == [name : Element, same : BOOLEAN, broken : BOOLEAN, a : Maybe, b : Maybe,
              fallback : BOOLEAN]
Typed ==
    /\ remote \subseteq Element /\ sources \subseteq Element
    /\ local \in [Element -> Maybe]
    /\ job \in JobSet
    /\ results \in Seq(ResultSet)
    /\ job.pc \in Loop => Len(results) = job.at - 1

(* What an artifact of the current element, built now, would record.       *)
Inputs == {<<d, Stamp(local, d)>> : d \in BuildScope[Current]}

(* The original: what was published, or else what was built to replace it; *)
(* built with what is in the cache, except in the known case.              *)
Original(x) ==
    /\ x.how \in {"remote", "online"}
    /\ Current \in remote => x.how = "remote"
Known(x)      == job.fallback /\ x.how = "remote"
SameInputs(x) == Known(x) \/ (BuildScope[Current] \subseteq Cached /\ x.from = Inputs)
Rebuilt(x)    == x.how = "offline" /\ x.by = job.at /\ (Known(job.a) \/ x.from = job.a.from)

CacheOK ==
    /\ job.pc = "pull" => \A e \in Tested : local[e] = None
    /\ job.pc \in {"status", "rebuild"} => \A e \in Tested : local[e] \in {None, Published(e)}
    /\ job.pc = "rebuild" => job.fallback
    /\ job.pc = "checkout a" /\ Current \in Cached =>
          Original(local[Current]) /\ SameInputs(local[Current])
    /\ job.pc \in {"remove one", "search", "build", "checkout b", "compare"} => Original(job.a)
    /\ job.pc \in {"remove one", "search", "build"} => SameInputs(job.a)
    /\ job.pc \in {"search", "build"} => Current \notin Cached
    /\ job.pc = "checkout b" /\ Current \in Cached => Rebuilt(local[Current])
    /\ job.pc = "compare" => Rebuilt(job.b)

ResultOK(i) ==
    LET r == results[i] IN
    /\ r.a.how \in {"remote", "online"} /\ (r.name \in remote => r.a.how = "remote")
    /\ r.b.how = "offline" /\ r.b.by = i
    /\ r.name \in Deterministic /\ ~ r.same => r.broken \/ (r.fallback /\ r.a.how = "remote")

(* The search of bst_fetch_required_sources: what lies behind the elements *)
(* it is done with has been seen, and what was seen has its sources or is  *)
(* going to be fetched.                                                    *)
SearchOK ==
    LET s == job.search IN
    /\ Current \in s.seen /\ s.queue \subseteq s.seen
    /\ \A x \in s.seen \ s.queue : x = Current \/ x \notin Cached => BuildScope[x] \subseteq s.seen
    /\ \A x \in s.seen : x = Current \/ x \notin Cached => x \in s.required \cup sources

Progress ==
    /\ job.pc \in {"checkout a", "checkout b"} => job.hurt \/ Current \in Cached
    /\ job.pc = "search" => SearchOK
    /\ job.pc = "build" => job.hurt \/ Plan(Current) \subseteq sources
    /\ job.pc = "failed" => job.hurt \/ ConfigRaises(setting)

IInv ==
    /\ Typed
    /\ Progress
    /\ CacheFound(setting) => CacheOK /\ \A i \in DOMAIN results : ResultOK(i)
-----------------------------------------------------------------------------
(***************************************************************************)
(* What BuildStream does.                                                  *)
(***************************************************************************)
LEMMA PlanFacts ==
    ASSUME NEW e \in Element
    PROVE  /\ e \in Plan(e) /\ Plan(e) \subseteq Element
           /\ \A x \in Plan(e) : BuildScope[x] \ Cached \subseteq Plan(e)
           /\ \A plan \in SUBSET Element : ClosedPlan(e, plan) => Plan(e) \subseteq plan
  BY ScopeAssumption DEF Plan, ClosedPlan

LEMMA ArtifactFacts ==
    ASSUME NEW how \in How, NEW by \in Nat \cup {None}, NEW from \in SUBSET (Element \X StampSet)
    PROVE  /\ Artifact(how, by, from) \in Artifacts /\ Artifact(how, by, from) # None
           /\ Artifact(how, by, from).how = how /\ Artifact(how, by, from).by = by
           /\ Artifact(how, by, from).from = from
  BY NoneAssumption DEF Artifact, Artifacts

LEMMA PublishedFacts ==
    ASSUME NEW e \in Element
    PROVE  /\ Published(e) \in Artifacts /\ Published(e) # None /\ Published(e).how = "remote"
           /\ Published(e).by = None
           /\ Published(e).from = {<<d, <<"remote", None>> >> : d \in BuildScope[e]}
<1> DEFINE from == {<<d, <<"remote", None>> >> : d \in BuildScope[e]}
<1>1. from \in SUBSET (Element \X StampSet) /\ "remote" \in How
  BY ScopeAssumption DEF StampSet, How
<1>2. Published(e) = Artifact("remote", None, from)
  BY DEF Published
<1> HIDE DEF from
<1>3. None \in Nat \cup {None}
  OBVIOUS
<1>4. /\ Artifact("remote", None, from) \in Artifacts /\ Artifact("remote", None, from) # None
      /\ Artifact("remote", None, from).how = "remote"
      /\ Artifact("remote", None, from).by = None
      /\ Artifact("remote", None, from).from = from
  BY <1>1, <1>3, NoneAssumption DEF Artifact, Artifacts
<1>5. QED
  BY <1>2, <1>4 DEF from

LEMMA OldFacts == \A e \in Element : Old(e) \in Artifacts
<1> SUFFICES ASSUME NEW e \in Element PROVE Old(e) \in Artifacts
  OBVIOUS
<1>1. {<<d, <<"old", None>> >> : d \in BuildScope[e]} \in SUBSET (Element \X StampSet)
  BY ScopeAssumption DEF StampSet, How
<1>2. QED
  BY <1>1, ArtifactFacts DEF Old, How

LEMMA CurrentFacts ==
    ASSUME Typed
    PROVE  /\ Current \in Element /\ job.at \in Nat /\ job.at \in 1 .. Len(RunOrder)
           /\ Len(RunOrder) \in Nat
           /\ BuildScope[Current] \subseteq Element /\ Current \notin BuildScope[Current]
           /\ Tested \subseteq Element /\ Current \in Tested /\ BuildScope[Current] \subseteq Tested
<1>1. job.at \in 1 .. Len(RunOrder)
  BY DEF Typed, JobSet
<1>2. RunOrder \in Seq(Element)
  BY ScopeAssumption
<1>3. RunOrder[job.at] \in Element /\ Len(RunOrder) \in Nat
  BY <1>1, <1>2, ElementOfSeq, LenProperties
<1>4. QED
  BY <1>1, <1>3, ScopeAssumption DEF Current, Tested

(* A build loads or builds what it planned, and records what it used.      *)
LEMMA AfterFacts ==
    ASSUME Typed, NEW how \in {"online", "offline"}, NEW e \in Element, e \notin Cached,
           NEW new, new = After(how, e)
    PROVE  /\ new \in [Element -> Maybe]
           /\ \A x \in Element \ Plan(e) : new[x] = local[x]
           /\ \A x \in Plan(e) : new[x] \in Artifacts /\ new[x] # None
           /\ BuildScope[e] \subseteq {x \in Element : new[x] # None}
           /\ how = "online" /\ e \in remote => new[e] = Published(e)
           /\ how = "offline" \/ e \notin remote =>
                 /\ new[e].how = how /\ new[e].by = job.at
                 /\ new[e].from = {<<d, Stamp(new, d)>> : d \in BuildScope[e]}
<1> DEFINE plan    == Plan(e)
           pulled  == IF how = "online" THEN plan \cap remote ELSE {}
           built   == plan \ pulled
           loaded  == [x \in Element |-> IF x \in pulled THEN Published(x) ELSE local[x]]
           stamped == [x \in Element |-> IF x \in built THEN Artifact(how, job.at, {})
                                                        ELSE loaded[x]]
<1>1. new = [x \in Element |-> IF x \in built THEN Built(how, stamped, x) ELSE stamped[x]]
  BY DEF After
<1>2. /\ e \in plan /\ plan \subseteq Element
      /\ \A x \in plan : BuildScope[x] \ Cached \subseteq plan
      /\ pulled \subseteq plan /\ built \subseteq plan /\ plan = pulled \cup built
      /\ how \in How /\ job.at \in Nat /\ local \in [Element -> Maybe]
      /\ BuildScope \in [Element -> SUBSET Element]
  BY PlanFacts, CurrentFacts, ScopeAssumption DEF How, Typed
<1> HIDE DEF plan, pulled, built
<1>3. /\ \A x \in built : stamped[x] = Artifact(how, job.at, {})
      /\ \A x \in pulled : x \notin built => stamped[x] = Published(x)
      /\ \A x \in Element \ plan : stamped[x] = local[x]
  BY <1>2
<1>4. /\ \A x \in built : stamped[x] \in Artifacts /\ stamped[x].how = how /\ stamped[x].by = job.at
      /\ \A x \in plan : stamped[x] \in Artifacts
  <2>1. {} \in SUBSET (Element \X StampSet)
    OBVIOUS
  <2>2. \A x \in built : stamped[x] \in Artifacts /\ stamped[x].how = how /\ stamped[x].by = job.at
    BY <1>2, <1>3, <2>1, ArtifactFacts
  <2>3. \A x \in pulled : x \notin built => stamped[x] \in Artifacts
    BY <1>2, <1>3, PublishedFacts
  <2>4. QED
    BY <1>2, <2>2, <2>3
<1> HIDE DEF loaded, stamped
<1>5. ASSUME NEW x \in plan, NEW d \in BuildScope[x]
      PROVE  d \in Element /\ stamped[d] \in Artifacts /\ Stamp(stamped, d) \in StampSet
  <2>1. d \in Element
    BY <1>2
  <2>2. stamped[d] \in Artifacts
    <3>1. CASE d \in plan
      BY <1>4, <3>1
    <3>2. CASE d \notin plan
      BY <1>2, <1>3, <2>1, <3>2 DEF Cached, Maybe
    <3>3. QED
      BY <3>1, <3>2
  <2>3. QED
    BY <2>1, <2>2 DEF Artifacts, Stamp, StampSet
<1>6. ASSUME NEW x \in built
      PROVE  /\ new[x] = Built(how, stamped, x) /\ new[x] \in Artifacts /\ new[x] # None
             /\ new[x].how = how /\ new[x].by = job.at
             /\ new[x].from = {<<d, Stamp(stamped, d)>> : d \in BuildScope[x]}
  <2>1. {<<d, Stamp(stamped, d)>> : d \in BuildScope[x]} \in SUBSET (Element \X StampSet)
    BY <1>2, <1>5
  <2>2. new[x] = Built(how, stamped, x)
    BY <1>1, <1>2
  <2>3. QED
    BY <1>2, <2>1, <2>2, ArtifactFacts DEF Built
<1>7. \A x \in Element : x \notin built => new[x] = stamped[x]
  BY <1>1
<1>8. \A x \in Element : x \in built \/ new[x] = stamped[x]
  BY <1>7
<1>9. \A x \in Element \ plan : new[x] = local[x]
  BY <1>2, <1>3, <1>7
<1>10. \A x \in plan : new[x] \in Artifacts /\ new[x] # None
  BY <1>2, <1>4, <1>6, <1>7, NoneAssumption
<1>11. new \in [Element -> Maybe]
  <2>1. \A x \in Element : new[x] \in Maybe
    BY <1>2, <1>9, <1>10 DEF Maybe
  <2>2. QED
    BY <1>1, <2>1
<1>12. BuildScope[e] \subseteq {x \in Element : new[x] # None}
  BY <1>2, <1>9, <1>10 DEF Cached
<1>13. ASSUME how = "online", e \in remote PROVE new[e] = Published(e)
  <2>1. e \in pulled /\ e \notin built
    BY <1>2, <1>13 DEF pulled, built
  <2>2. QED
    BY <1>2, <1>3, <1>7, <2>1
<1>14. ASSUME how = "offline" \/ e \notin remote
       PROVE  /\ new[e].how = how /\ new[e].by = job.at
              /\ new[e].from = {<<d, Stamp(new, d)>> : d \in BuildScope[e]}
  <2>1. e \in built
    BY <1>2, <1>14 DEF pulled, built
  <2>2. \A d \in Element : Stamp(new, d) = Stamp(stamped, d)
    BY <1>4, <1>6, <1>7 DEF Stamp
  <2>3. BuildScope[e] \subseteq Element
    BY <1>2
  <2>4. {<<d, Stamp(new, d)>> : d \in BuildScope[e]} = {<<d, Stamp(stamped, d)>> : d \in BuildScope[e]}
    BY <2>2, <2>3
  <2>5. QED
    BY <1>6, <2>1, <2>4
<1>15. QED
  BY <1>9, <1>10, <1>11, <1>12, <1>13, <1>14 DEF plan
-----------------------------------------------------------------------------
(***************************************************************************)
(* What a step leaves alone.                                               *)
(***************************************************************************)
Moved(pc) ==
    /\ job' \in JobSet /\ job'.pc = pc /\ job'.at = job.at /\ job'.fallback = job.fallback
    /\ job'.a = job.a /\ job'.b = job.b /\ job'.search = job.search

LEMMA Moves ==
    ASSUME Typed, NEW pc \in Loop \cup {"report", "failed", "status 0", "status 1"}
    PROVE  /\ Goto(pc) => Moved(pc) /\ job'.hurt = job.hurt
           /\ HurtTo(pc) => Moved(pc) /\ job'.hurt = TRUE
<1>1. ASSUME Goto(pc) PROVE Moved(pc) /\ job'.hurt = job.hurt
  BY <1>1 DEF Typed, JobSet, Goto, Moved
<1>2. ASSUME HurtTo(pc) PROVE Moved(pc) /\ job'.hurt = TRUE
  BY <1>2 DEF Typed, JobSet, HurtTo, Moved
<1>3. QED
  BY <1>1, <1>2

LEMMA SameLocal ==
    ASSUME job'.at = job.at, local' = local
    PROVE  /\ Current' = Current /\ Tested' = Tested /\ Cached' = Cached /\ Inputs' = Inputs
           /\ Plan(Current)' = Plan(Current)
  BY DEF Current, Tested, Cached, Inputs, Stamp, Plan, ClosedPlan

(* A step within the test of one element, or to the end.                   *)
LEMMA Within ==
    ASSUME IInv, Same, job' \in JobSet, local' \in [Element -> Maybe], sources' \subseteq Element,
           job'.pc \in Loop => job.pc \in Loop /\ job'.at = job.at,
           Progress', CacheFound(setting) => CacheOK'
    PROVE  IInv'
<1>1. setting' = setting /\ remote' = remote /\ results' = results
  BY DEF Same
<1>2. Typed'
  BY <1>1 DEF IInv, Typed
<1>3. ASSUME CacheFound(setting), NEW i \in DOMAIN results PROVE ResultOK(i)'
  BY <1>1, <1>3 DEF IInv, ResultOK
<1>4. CacheFound(setting)' <=> CacheFound(setting)
  BY <1>1 DEF CacheFound, ConfigFile
<1>5. QED
  BY <1>1, <1>2, <1>3, <1>4 DEF IInv

LEMMA IInvFacts ==
    ASSUME IInv
    PROVE  /\ Typed /\ Progress /\ local \in [Element -> Maybe] /\ job \in JobSet
           /\ remote \subseteq Element /\ sources \subseteq Element
           /\ Current \in Element /\ job.at \in Nat /\ BuildScope[Current] \subseteq Element
           /\ Current \notin BuildScope[Current] /\ Current \in Tested /\ Tested \subseteq Element
           /\ BuildScope[Current] \subseteq Tested
           /\ CacheFound(setting) => CacheOK
  BY CurrentFacts DEF IInv, Typed
-----------------------------------------------------------------------------
(***************************************************************************)
(* The steps.                                                              *)
(***************************************************************************)
LEMMA FailsInv == ASSUME IInv, CommandFails PROVE IInv'
<1>1. Moved("failed") /\ job'.hurt = TRUE
  BY IInvFacts, Moves DEF CommandFails
<1>2. Progress' /\ CacheOK'
  BY <1>1 DEF Moved, Progress, CacheOK
<1>3. QED
  BY <1>1, <1>2, Within, IInvFacts DEF CommandFails, Moved, Loop

LEMMA RemoveInv == ASSUME IInv, RemoveTested PROVE IInv'
<1>1. Moved("pull")
  BY IInvFacts, Moves DEF RemoveTested, Loop
<1>2. local' = Removal(Tested) /\ job.pc = "remove"
  BY DEF RemoveTested, At
<1>3. local' \in [Element -> Maybe] /\ (CacheFound(setting) => \A e \in Tested : local'[e] = None)
  BY <1>2, IInvFacts DEF Removal, Emptied, Maybe
<1>4. Tested' = Tested
  BY <1>1 DEF Tested, Current, Moved
<1>5. Progress'
  BY <1>1 DEF Moved, Progress
<1>6. CacheFound(setting) => CacheOK'
  BY <1>1, <1>3, <1>4 DEF Moved, CacheOK
<1>7. QED
  BY <1>1, <1>2, <1>3, <1>5, <1>6, Within, IInvFacts DEF RemoveTested, Moved, Loop

LEMMA PullInv == ASSUME IInv, Pull PROVE IInv'
<1>1. Moved("status")
  BY IInvFacts, Moves DEF Pull, Loop
<1>2. PICK pulled \in SUBSET ((Tested \cap remote) \ Cached) :
         local' = [e \in Element |-> IF e \in pulled THEN Published(e) ELSE local[e]]
  BY DEF Pull
<1>3. /\ local' \in [Element -> Maybe]
      /\ \A e \in Tested : local'[e] = Published(e) \/ local'[e] = local[e]
  BY <1>2, IInvFacts, PublishedFacts DEF Maybe
<1>4. Tested' = Tested /\ job.pc = "pull"
  BY <1>1 DEF Tested, Current, Moved, Pull, At
<1>5. Progress'
  BY <1>1 DEF Moved, Progress
<1>6. ASSUME CacheFound(setting) PROVE CacheOK'
  <2>1. \A e \in Tested : local'[e] \in {None, Published(e)}
    BY <1>3, <1>4, <1>6, IInvFacts DEF CacheOK
  <2>2. \A e \in Tested : Published(e)' = Published(e)
    BY DEF Published, Artifact
  <2>3. QED
    BY <1>1, <1>4, <2>1, <2>2 DEF Moved, CacheOK
<1>7. QED
  BY <1>1, <1>3, <1>4, <1>5, <1>6, Within, IInvFacts DEF Pull, Moved, Loop

LEMMA StatusInv == ASSUME IInv, ShowStatus PROVE IInv'
<1>1. PICK fallback \in BOOLEAN :
         /\ fallback <=> \E e \in Tested : Status(e) # "cached"
         /\ job' = [job EXCEPT !.fallback = fallback,
                               !.pc = IF fallback THEN "rebuild" ELSE "checkout a"]
  BY DEF ShowStatus
<1>2. /\ job' \in JobSet /\ job'.at = job.at /\ job'.fallback = fallback
      /\ job'.pc = IF fallback THEN "rebuild" ELSE "checkout a"
  BY <1>1, IInvFacts DEF JobSet, Loop
<1>3. /\ job.pc = "status" /\ UNCHANGED <<local, sources>> /\ remote' = remote
      /\ Current' = Current /\ Tested' = Tested /\ Cached' = Cached /\ Inputs' = Inputs
  BY <1>2, SameLocal DEF ShowStatus, At, Same
<1>4. fallback \/ Tested \subseteq Cached
  BY <1>1, IInvFacts DEF Status, Cached
<1>5. Progress'
  BY <1>2, <1>3, <1>4, IInvFacts DEF Progress
<1>6. ASSUME CacheFound(setting) PROVE CacheOK'
  <2>1. \A e \in Tested : local[e] \in {None, Published(e)} /\ Published(e)' = Published(e)
    BY <1>3, <1>6, IInvFacts DEF CacheOK, Published, Artifact
  <2>2. ASSUME ~ fallback PROVE Original(local[Current])' /\ SameInputs(local[Current])'
    <3>1. \A e \in Tested : local[e] = Published(e)
      BY <1>4, <2>1, <2>2 DEF Cached
    <3>2. /\ local[Current] = Published(Current) /\ BuildScope[Current] \subseteq Cached
          /\ \A d \in BuildScope[Current] : Stamp(local, d) = <<"remote", None>>
      BY <1>4, <2>2, <3>1, IInvFacts, PublishedFacts DEF Stamp
    <3>3. local[Current].from = Inputs /\ local[Current].how = "remote"
      BY <3>2, IInvFacts, PublishedFacts DEF Inputs
    <3>4. QED
      BY <1>3, <3>2, <3>3 DEF Original, SameInputs
  <2>3. QED
    BY <1>2, <1>3, <2>1, <2>2 DEF CacheOK
<1>7. QED
  BY <1>2, <1>3, <1>5, <1>6, Within, IInvFacts DEF ShowStatus, Loop

LEMMA RebuildInv == ASSUME IInv, Rebuild PROVE IInv'
<1>1. Moved("checkout a") /\ (job'.hurt = job.hurt \/ job'.hurt = TRUE)
  BY IInvFacts, Moves DEF Rebuild, Loop
<1>2. /\ job.pc = "rebuild" /\ Current' = Current /\ remote' = remote /\ Same
      /\ job'.at = job.at /\ job'.fallback = job.fallback /\ job'.pc = "checkout a"
      /\ job' \in JobSet
  BY <1>1 DEF Rebuild, At, Same, Current, Moved
<1>3. CASE /\ UNCHANGED <<local, sources>>
           /\ Current \in Cached \/ job'.hurt
  <2>1. Cached' = Cached /\ Inputs' = Inputs
    BY <1>2, <1>3, SameLocal
  <2>2. Progress'
    BY <1>2, <1>3, <2>1 DEF Progress
  <2>3. ASSUME CacheFound(setting) PROVE CacheOK'
    <3>1. job.fallback /\ (Current \in Cached => local[Current] = Published(Current))
      BY <1>2, <2>3, IInvFacts DEF CacheOK, Cached
    <3>2. Current \in Cached => Original(local[Current])' /\ SameInputs(local[Current])'
      BY <1>2, <1>3, <3>1, IInvFacts, PublishedFacts DEF Original, SameInputs, Known
    <3>3. QED
      BY <1>2, <1>3, <2>1, <3>2 DEF CacheOK
  <2>4. QED
    BY <1>2, <1>3, <2>2, <2>3, Within, IInvFacts DEF Loop
<1>4. CASE /\ Current \notin Cached /\ local' = After("online", Current)
           /\ sources' = sources \cup (Plan(Current) \ remote)
  <2>1. /\ local' \in [Element -> Maybe]
        /\ local'[Current] \in Artifacts /\ local'[Current] # None
        /\ BuildScope[Current] \subseteq {x \in Element : local'[x] # None}
        /\ Current \in remote => local'[Current] = Published(Current)
        /\ Current \notin remote =>
              /\ local'[Current].how = "online"
              /\ local'[Current].from = {<<d, Stamp(local', d)>> : d \in BuildScope[Current]}
        /\ sources' \subseteq Element
    BY <1>4, IInvFacts, AfterFacts, PlanFacts
  <2>2. Current \in Cached' /\ BuildScope[Current] \subseteq Cached'
    BY <2>1, IInvFacts DEF Cached
  <2>3. Progress'
    BY <1>2, <2>2 DEF Progress
  <2>4. ASSUME CacheFound(setting) PROVE CacheOK'
    <3>1. job.fallback
      BY <1>2, <2>4, IInvFacts DEF CacheOK
    <3>2. CASE Current \in remote
      <4>1. local'[Current].how = "remote"
        BY <2>1, <3>2, IInvFacts, PublishedFacts
      <4>2. Original(local[Current])' /\ SameInputs(local[Current])'
        BY <1>2, <3>1, <4>1 DEF Original, SameInputs, Known
      <4>3. QED
        BY <1>2, <4>2 DEF CacheOK
    <3>3. CASE Current \notin remote
      <4>1. Inputs' = {<<d, Stamp(local', d)>> : d \in BuildScope[Current]}
        BY <1>2 DEF Inputs, Stamp
      <4>2. Original(local[Current])' /\ SameInputs(local[Current])'
        BY <1>2, <2>1, <2>2, <3>3, <4>1 DEF Original, SameInputs
      <4>3. QED
        BY <1>2, <4>2 DEF CacheOK
    <3>4. QED
      BY <3>2, <3>3
  <2>5. QED
    BY <1>2, <2>1, <2>3, <2>4, Within DEF Loop
<1>5. QED
  <2>1. CASE Goto("checkout a") /\ Current \in Cached /\ UNCHANGED <<local, sources>>
    BY <1>3, <2>1
  <2>2. CASE HurtTo("checkout a") /\ UNCHANGED <<local, sources>>
    BY <1>3, <2>2, IInvFacts, Moves DEF Loop
  <2>3. QED
    BY <1>4, <2>1, <2>2 DEF Rebuild

LEMMA CheckoutAInv == ASSUME IInv, CheckoutA PROVE IInv'
<1>1. /\ job.pc = "checkout a" /\ UNCHANGED <<local, sources>> /\ Same /\ remote' = remote
      /\ local[Current] \in Maybe
  BY IInvFacts DEF CheckoutA, At, Same
<1>2. CASE Current \in Cached
  <2>1. job' = [job EXCEPT !.pc = "remove one", !.a = local[Current]]
    BY <1>2 DEF CheckoutA
  <2>2. /\ job' \in JobSet /\ job'.at = job.at /\ job'.fallback = job.fallback
        /\ job'.pc = "remove one" /\ job'.a = local[Current]
    BY <1>1, <2>1, IInvFacts DEF JobSet, Loop
  <2>3. Current' = Current /\ Cached' = Cached /\ Inputs' = Inputs
    BY <1>1, <2>2, SameLocal
  <2>4. Progress'
    BY <2>2 DEF Progress
  <2>5. ASSUME CacheFound(setting) PROVE CacheOK'
    <3>1. Original(local[Current]) /\ SameInputs(local[Current])
      BY <1>1, <1>2, <2>5, IInvFacts DEF CacheOK
    <3>2. Original(job.a)' /\ SameInputs(job.a)'
      BY <1>1, <2>2, <2>3, <3>1 DEF Original, SameInputs, Known
    <3>3. QED
      BY <2>2, <3>2 DEF CacheOK
  <2>6. QED
    BY <1>1, <2>2, <2>4, <2>5, Within, IInvFacts DEF Loop
<1>3. CASE Current \notin Cached
  <2>1. Moved("failed") /\ job'.hurt = job.hurt
    <3>1. job' = [job EXCEPT !.pc = "failed"]
      BY <1>3 DEF CheckoutA
    <3>2. QED
      BY <3>1, IInvFacts, Moves DEF Goto
  <2>2. job.hurt
    BY <1>1, <1>3, IInvFacts DEF Progress
  <2>3. Progress' /\ CacheOK'
    BY <2>1, <2>2 DEF Moved, Progress, CacheOK
  <2>4. QED
    BY <1>1, <2>1, <2>3, Within, IInvFacts DEF Moved, Loop
<1>4. QED
  BY <1>2, <1>3

LEMMA RemoveOneInv == ASSUME IInv, RemoveOne PROVE IInv'
<1> DEFINE start == [seen |-> {Current}, queue |-> {Current}, required |-> {Current}]
<1>1. /\ job' = [job EXCEPT !.pc = "search", !.search = start] /\ start \in SearchSet
      /\ start.seen = {Current} /\ start.queue = {Current} /\ start.required = {Current}
      /\ job.pc = "remove one" /\ local' = Removal({Current}) /\ Same /\ sources' = sources
      /\ remote' = remote
  BY IInvFacts DEF RemoveOne, At, SearchSet, Same
<1> HIDE DEF start
<1>2. /\ job' \in JobSet /\ job'.at = job.at /\ job'.fallback = job.fallback
      /\ job'.pc = "search" /\ job'.a = job.a /\ job'.search = start
  BY <1>1, IInvFacts DEF JobSet, Loop
<1>3. /\ local' \in [Element -> Maybe]
      /\ \A e \in Element : e # Current => local'[e] = local[e]
      /\ CacheFound(setting) => local'[Current] = None
  BY <1>1, IInvFacts DEF Removal, Emptied, Maybe
<1>4. Current' = Current
  BY <1>2 DEF Current
<1>5. Progress'
  BY <1>1, <1>2, <1>4 DEF Progress, SearchOK
<1>6. ASSUME CacheFound(setting) PROVE CacheOK'
  <2>1. Original(job.a) /\ SameInputs(job.a)
    BY <1>1, <1>6, IInvFacts DEF CacheOK
  <2>2. \A d \in BuildScope[Current] : local'[d] = local[d] /\ d \in Element
    BY <1>3, IInvFacts
  <2>3. Inputs' = Inputs /\ (BuildScope[Current] \subseteq Cached => BuildScope[Current] \subseteq Cached')
    BY <1>4, <2>2 DEF Inputs, Stamp, Cached
  <2>4. Original(job.a)' /\ SameInputs(job.a)'
    BY <1>1, <1>2, <1>4, <2>1, <2>3 DEF Original, SameInputs, Known
  <2>5. Current' \notin Cached'
    BY <1>3, <1>4, <1>6 DEF Cached
  <2>6. QED
    BY <1>2, <2>4, <2>5 DEF CacheOK
<1>7. QED
  BY <1>1, <1>2, <1>3, <1>5, <1>6, Within, IInvFacts DEF Loop

(* A step that leaves the artifacts alone keeps what is known of them.     *)
LEMMA StillOK ==
    ASSUME IInv, CacheFound(setting), job.pc \in {"search", "build"},
           UNCHANGED <<remote, local>>, job'.at = job.at, job'.fallback = job.fallback,
           job'.a = job.a, job'.pc \in {"search", "build"}
    PROVE  CacheOK'
<1>1. Current' = Current /\ Cached' = Cached /\ Inputs' = Inputs
  BY SameLocal
<1>2. Original(job.a) /\ SameInputs(job.a) /\ Current \notin Cached
  BY IInvFacts DEF CacheOK
<1>3. Original(job.a)' /\ SameInputs(job.a)'
  BY <1>1, <1>2 DEF Original, SameInputs, Known
<1>4. QED
  BY <1>1, <1>2, <1>3 DEF CacheOK

LEMMA ScopesJoin ==
    ASSUME NEW queue, NEW x \in queue, NEW d \in BuildScope[x] PROVE d \in Scopes(queue)
  BY DEF Scopes

LEMMA ScopesWithin == ASSUME NEW queue \in SUBSET Element PROVE Scopes(queue) \subseteq Element
  BY ScopeAssumption DEF Scopes

LEMMA SearchInv == ASSUME IInv, Search PROVE IInv'
<1> DEFINE s    == job.search
           new  == Scopes(s.queue) \ s.seen
           next == [seen     |-> s.seen \cup new,
                    queue    |-> {e \in new : Status(e) # "cached"},
                    required |-> s.required \cup {e \in new : Status(e) = "fetch needed"}]
<1>1. /\ job' = [job EXCEPT !.search = next] /\ job.pc = "search" /\ Same
      /\ UNCHANGED <<local, sources>> /\ remote' = remote
  BY DEF Search, At, Same
<1>2. s \in SearchSet /\ s.seen \subseteq Element /\ s.queue \subseteq Element /\ SearchOK
  BY <1>1, IInvFacts DEF JobSet, SearchSet, Progress
<1>3. new \subseteq Element
  BY <1>2, ScopesWithin
<1>4. /\ next \in SearchSet /\ next.seen = s.seen \cup new
      /\ next.queue = {e \in new : Status(e) # "cached"}
      /\ next.required = s.required \cup {e \in new : Status(e) = "fetch needed"}
  BY <1>2, <1>3 DEF SearchSet
<1>5. ASSUME NEW x \in s.queue, NEW d \in BuildScope[x] PROVE d \in s.seen \cup new
  BY ScopesJoin
<1>6. /\ \A x \in new : x \notin Cached => x \in next.queue
      /\ \A x \in new : x \notin Cached => x \in next.required \cup sources
  BY <1>3, <1>4 DEF Status, Cached
<1> HIDE DEF new, next
<1>7. /\ job' \in JobSet /\ job'.at = job.at /\ job'.fallback = job.fallback
      /\ job'.pc = "search" /\ job'.a = job.a /\ job'.search = next
  BY <1>1, <1>4, IInvFacts DEF JobSet
<1>8. Current' = Current /\ Cached' = Cached
  BY <1>1, <1>7, SameLocal
<1>9. SearchOK'
  <2>1. /\ Current \in s.seen /\ s.queue \subseteq s.seen
        /\ \A x \in s.seen \ s.queue : x = Current \/ x \notin Cached => BuildScope[x] \subseteq s.seen
        /\ \A x \in s.seen : x = Current \/ x \notin Cached => x \in s.required \cup sources
    BY <1>2 DEF SearchOK
  <2>2. ASSUME NEW x \in next.seen \ next.queue, x = Current \/ x \notin Cached
        PROVE  BuildScope[x] \subseteq next.seen
    BY <1>4, <1>5, <1>6, <2>1, <2>2
  <2>3. ASSUME NEW x \in next.seen, x = Current \/ x \notin Cached
        PROVE  x \in next.required \cup sources
    BY <1>4, <1>6, <2>1, <2>3
  <2>4. Current \in next.seen /\ next.queue \subseteq next.seen
    BY <1>4, <2>1
  <2>5. QED
    BY <1>1, <1>7, <1>8, <2>2, <2>3, <2>4 DEF SearchOK
<1>10. Progress'
  BY <1>7, <1>9 DEF Progress
<1>11. QED
  BY <1>1, <1>7, <1>10, StillOK, Within, IInvFacts DEF Loop

LEMMA FetchInv == ASSUME IInv, FetchRequired PROVE IInv'
<1>1. PICK fetched \in SUBSET (job.search.required \ sources) :
         /\ sources' = sources \cup fetched
         /\ IF fetched = job.search.required \ sources THEN Quiet /\ Goto("build")
                                                       ELSE HurtTo("build")
  BY DEF FetchRequired
<1>2. /\ Moved("build") /\ (fetched = job.search.required \ sources \/ job'.hurt)
      /\ job.pc = "search" /\ job.search.queue = {} /\ Same /\ UNCHANGED <<local, remote>>
  BY <1>1, IInvFacts, Moves DEF FetchRequired, At, Same, Loop
<1>3. /\ job' \in JobSet /\ job'.at = job.at /\ job'.fallback = job.fallback /\ job'.a = job.a
      /\ job'.pc = "build" /\ Current' = Current /\ Plan(Current)' = Plan(Current)
  BY <1>2, SameLocal DEF Moved
<1>4. job.search \in SearchSet /\ SearchOK
  BY <1>2, IInvFacts DEF JobSet, Progress
<1>5. ASSUME fetched = job.search.required \ sources PROVE Plan(Current) \subseteq sources'
  <2> DEFINE needed == {x \in job.search.seen : x = Current \/ x \notin Cached}
  <2>1. needed \subseteq sources'
    BY <1>1, <1>4, <1>5 DEF SearchOK
  <2>2. needed \in SUBSET Element /\ Current \in needed
    BY <1>4 DEF SearchSet, SearchOK
  <2>3. \A x \in needed : BuildScope[x] \ Cached \subseteq needed
    BY <1>2, <1>4 DEF SearchOK
  <2>4. Plan(Current) \subseteq needed
    <3>1. Current \in Element
      BY IInvFacts
    <3>2. ClosedPlan(Current, needed)
      BY <2>2, <2>3 DEF ClosedPlan
    <3> HIDE DEF needed
    <3>3. QED
      BY <2>2, <3>1, <3>2, PlanFacts
  <2>5. QED
    BY <2>1, <2>4
<1>6. Progress'
  BY <1>2, <1>3, <1>5 DEF Progress
<1>7. sources' \subseteq Element
  BY <1>1, <1>4, IInvFacts DEF SearchSet
<1>8. QED
  BY <1>2, <1>3, <1>6, <1>7, StillOK, Within, IInvFacts DEF Loop

LEMMA BuildInv == ASSUME IInv, BuildOffline PROVE IInv'
<1>1. /\ Moved("checkout b") /\ (job'.hurt = job.hurt \/ job'.hurt = TRUE)
      /\ job.pc = "build" /\ Same /\ UNCHANGED <<sources, remote>>
  BY IInvFacts, Moves DEF BuildOffline, At, Same, Loop
<1>2. /\ job' \in JobSet /\ job'.at = job.at /\ job'.fallback = job.fallback /\ job'.a = job.a
      /\ job'.pc = "checkout b" /\ Current' = Current
  BY <1>1 DEF Moved, Current
<1>3. CASE local' = local /\ (Current \in Cached \/ job'.hurt)
  <2>1. Cached' = Cached
    BY <1>2, <1>3, SameLocal
  <2>2. Progress'
    BY <1>2, <1>3, <2>1 DEF Progress
  <2>3. ASSUME CacheFound(setting) PROVE CacheOK'
    <3>1. Original(job.a) /\ Current \notin Cached
      BY <1>1, <2>3, IInvFacts DEF CacheOK
    <3>2. Original(job.a)' /\ ~ (Current' \in Cached')
      BY <1>1, <1>2, <2>1, <3>1 DEF Original
    <3>3. QED
      BY <1>2, <3>2 DEF CacheOK
  <2>4. QED
    BY <1>1, <1>2, <1>3, <2>2, <2>3, Within, IInvFacts DEF Loop
<1>4. CASE Current \notin Cached /\ local' = After("offline", Current)
  <2>1. /\ local' \in [Element -> Maybe]
        /\ \A x \in Element \ Plan(Current) : local'[x] = local[x]
        /\ local'[Current] \in Artifacts /\ local'[Current] # None
        /\ local'[Current].how = "offline" /\ local'[Current].by = job.at
        /\ local'[Current].from = {<<d, Stamp(local', d)>> : d \in BuildScope[Current]}
    BY <1>4, IInvFacts, AfterFacts, PlanFacts
  <2>2. Progress'
    BY <1>2, <2>1, IInvFacts DEF Progress, Cached
  <2>3. ASSUME CacheFound(setting) PROVE CacheOK'
    <3>1. Original(job.a) /\ SameInputs(job.a)
      BY <1>1, <2>3, IInvFacts DEF CacheOK
    <3>2. ASSUME BuildScope[Current] \subseteq Cached, job.a.from = Inputs
          PROVE  local'[Current].from = job.a.from
      <4>1. ClosedPlan(Current, {Current}) /\ {Current} \in SUBSET Element
        BY <3>2, IInvFacts DEF ClosedPlan
      <4>2. Plan(Current) \subseteq {Current}
        BY <4>1, IInvFacts, PlanFacts
      <4>3. \A d \in BuildScope[Current] : local'[d] = local[d]
        BY <2>1, <4>2, IInvFacts
      <4>4. QED
        BY <2>1, <3>2, <4>3 DEF Inputs, Stamp
    <3>3. Rebuilt(local[Current])'
      BY <1>2, <2>1, <3>1, <3>2 DEF Rebuilt, SameInputs, Known
    <3>4. Original(job.a)'
      BY <1>1, <1>2, <3>1 DEF Original
    <3>5. QED
      BY <1>2, <3>3, <3>4 DEF CacheOK
  <2>4. QED
    BY <1>1, <1>2, <2>1, <2>2, <2>3, Within, IInvFacts DEF Loop
<1>5. QED
  <2>1. CASE Goto("checkout b") /\ local' = local /\ Current \in Cached
    BY <1>3, <2>1
  <2>2. CASE Goto("checkout b") /\ local' = local /\ ~ Plan(Current) \subseteq sources
    <3>1. job.hurt /\ job'.hurt = job.hurt
      BY <1>1, <2>2, IInvFacts, Moves DEF Progress, Loop
    <3>2. QED
      BY <1>3, <2>2, <3>1
  <2>3. CASE HurtTo("checkout b") /\ local' = local
    BY <1>3, <2>3, IInvFacts, Moves DEF Loop
  <2>4. QED
    BY <1>4, <2>1, <2>2, <2>3 DEF BuildOffline

LEMMA CheckoutBInv == ASSUME IInv, CheckoutB PROVE IInv'
<1>1. /\ job.pc = "checkout b" /\ UNCHANGED <<local, sources>> /\ Same /\ remote' = remote
      /\ local[Current] \in Maybe
  BY IInvFacts DEF CheckoutB, At, Same
<1>2. CASE Current \in Cached
  <2>1. job' = [job EXCEPT !.pc = "compare", !.b = local[Current]]
    BY <1>2 DEF CheckoutB
  <2>2. /\ job' \in JobSet /\ job'.at = job.at /\ job'.fallback = job.fallback
        /\ job'.pc = "compare" /\ job'.a = job.a /\ job'.b = local[Current]
    BY <1>1, <2>1, IInvFacts DEF JobSet, Loop
  <2>3. Progress'
    BY <2>2 DEF Progress
  <2>4. ASSUME CacheFound(setting) PROVE CacheOK'
    <3>1. Original(job.a) /\ Rebuilt(local[Current])
      BY <1>1, <1>2, <2>4, IInvFacts DEF CacheOK
    <3>2. Original(job.a)' /\ Rebuilt(job.b)'
      BY <1>1, <2>2, <3>1 DEF Original, Rebuilt, Known, Current
    <3>3. QED
      BY <2>2, <3>2 DEF CacheOK
  <2>5. QED
    BY <1>1, <2>2, <2>3, <2>4, Within, IInvFacts DEF Loop
<1>3. CASE Current \notin Cached
  <2>1. Moved("failed") /\ job'.hurt = job.hurt
    <3>1. job' = [job EXCEPT !.pc = "failed"]
      BY <1>3 DEF CheckoutB
    <3>2. QED
      BY <3>1, IInvFacts, Moves DEF Goto
  <2>2. job.hurt
    BY <1>1, <1>3, IInvFacts DEF Progress
  <2>3. Progress' /\ CacheOK'
    BY <2>1, <2>2 DEF Moved, Progress, CacheOK
  <2>4. QED
    BY <1>1, <2>1, <2>3, Within, IInvFacts DEF Moved, Loop
<1>4. QED
  BY <1>2, <1>3

LEMMA NewJobFacts ==
    /\ NewJob \in JobSet /\ NewJob.pc = "remove" /\ NewJob.at = 1 /\ NewJob.hurt = FALSE
<1>1. 1 \in 1 .. Len(RunOrder)
  <2>1. RunOrder \in Seq(Element) /\ RunOrder # <<>>
    BY ScopeAssumption
  <2>2. Len(RunOrder) \in Nat /\ Len(RunOrder) # 0
    BY <2>1, LenProperties, EmptySeq
  <2>3. QED
    BY <2>2
<1>2. NoSearch \in SearchSet
  BY DEF NoSearch, SearchSet
<1>3. QED
  BY <1>1, <1>2 DEF NewJob, JobSet, Loop, Maybe

LEMMA CompareInv == ASSUME IInv, Compare PROVE IInv'
<1>1. PICK same \in BOOLEAN, broken \in BOOLEAN :
         /\ MustEqual(job.a, job.b) => same \/ broken
         /\ results' = Append(results, Result(same, broken))
  BY DEF Compare
<1>2. /\ job.pc = "compare" /\ UNCHANGED <<setting, remote, local, sources>>
      /\ results \in Seq(ResultSet) /\ Len(results) = job.at - 1 /\ job.a \in Maybe /\ job.b \in Maybe
      /\ job.fallback \in BOOLEAN /\ job.hurt \in BOOLEAN
      /\ job.at \in Nat \ {0} /\ job.at \in 1 .. Len(RunOrder) /\ Len(RunOrder) \in Nat
  <2>1. job.pc = "compare" /\ UNCHANGED <<setting, remote, local, sources>>
    BY DEF Compare, At
  <2>2. /\ job.a \in Maybe /\ job.b \in Maybe /\ job.fallback \in BOOLEAN /\ job.hurt \in BOOLEAN
        /\ job.at \in 1 .. Len(RunOrder)
    BY IInvFacts DEF JobSet
  <2>3. results \in Seq(ResultSet) /\ Len(results) = job.at - 1
    BY <2>1 DEF IInv, Typed, Loop
  <2>4. Len(RunOrder) \in Nat
    BY CurrentFacts DEF IInv
  <2>5. QED
    BY <2>1, <2>2, <2>3, <2>4
<1>3. /\ job' \in JobSet /\ job'.pc \in {"report", "remove"}
      /\ job'.pc = "remove" => job'.at = job.at + 1
  <2>1. CASE job.at = Len(RunOrder)
    <3>1. job' = [job EXCEPT !.pc = "report"]
      BY <2>1 DEF Compare
    <3>2. QED
      BY <3>1, IInvFacts DEF JobSet
  <2>2. CASE job.at # Len(RunOrder)
    <3>1. job' = [NewJob EXCEPT !.at = job.at + 1, !.hurt = job.hurt]
      BY <2>2 DEF Compare
    <3>2. job.at + 1 \in 1 .. Len(RunOrder)
      BY <1>2, <2>2
    <3>3. QED
      BY <1>2, <3>1, <3>2, NewJobFacts DEF JobSet
  <2>3. QED
    BY <2>1, <2>2
<1> DEFINE r == Result(same, broken)
<1>4. /\ r \in ResultSet /\ r.name = Current /\ r.same = same /\ r.broken = broken
      /\ r.a = job.a /\ r.b = job.b /\ r.fallback = job.fallback
  BY <1>2, IInvFacts DEF Result, ResultSet
<1> HIDE DEF r
<1>5. /\ results' \in Seq(ResultSet) /\ Len(results') = job.at /\ results'[job.at] = r
      /\ DOMAIN results' = 1 .. job.at /\ DOMAIN results = 1 .. job.at - 1
      /\ \A i \in 1 .. job.at - 1 : results'[i] = results[i]
  BY <1>1, <1>2, <1>4, AppendProperties DEF r
<1>6. Typed'
  <2>1. job'.pc \in Loop => Len(results') = job'.at - 1
    <3>1. CASE job'.pc = "remove"
      BY <1>2, <1>3, <1>5, <3>1
    <3>2. CASE job'.pc = "report"
      BY <3>2 DEF Loop
    <3>3. QED
      BY <1>3, <3>1, <3>2
  <2>2. QED
    BY <1>2, <1>3, <1>5, <2>1, IInvFacts DEF Typed
<1>7. Progress'
  BY <1>3 DEF Progress
<1>8. ASSUME CacheFound(setting) PROVE CacheOK' /\ \A i \in DOMAIN results' : ResultOK(i)'
  <2>1. CacheOK'
    BY <1>3 DEF CacheOK
  <2>2. ASSUME NEW i \in 1 .. job.at - 1 PROVE ResultOK(i)'
    BY <1>2, <1>5, <1>8, <2>2 DEF IInv, ResultOK
  <2>3. ASSUME NEW i \in {job.at} PROVE ResultOK(i)'
    <3>1. Original(job.a) /\ Rebuilt(job.b)
      BY <1>2, <1>8, IInvFacts DEF CacheOK
    <3>2. Current \in Deterministic /\ ~ same => broken \/ Known(job.a)
      BY <1>1, <3>1 DEF Rebuilt, MustEqual
    <3>3. /\ r.a.how \in {"remote", "online"} /\ (r.name \in remote => r.a.how = "remote")
          /\ r.b.how = "offline" /\ r.b.by = i
          /\ r.name \in Deterministic /\ ~ r.same => r.broken \/ (r.fallback /\ r.a.how = "remote")
      BY <1>4, <2>3, <3>1, <3>2 DEF Original, Rebuilt, Known
    <3>4. QED
      BY <1>2, <1>5, <2>3, <3>3 DEF ResultOK
  <2>4. \A i \in 1 .. job.at : i \in 1 .. job.at - 1 \/ i \in {job.at}
    BY <1>2
  <2>5. QED
    BY <1>5, <2>1, <2>2, <2>3, <2>4
<1>9. CacheFound(setting)' <=> CacheFound(setting)
  BY <1>2 DEF CacheFound, ConfigFile
<1>10. QED
  BY <1>6, <1>7, <1>8, <1>9 DEF IInv

LEMMA ReportInv == ASSUME IInv, Report PROVE IInv'
<1>1. PICK pc \in {"status 0", "status 1"} : Goto(pc)
  BY DEF Report
<1>2. /\ job' \in JobSet /\ job'.pc \in {"status 0", "status 1"} /\ Same
      /\ UNCHANGED <<local, sources>>
  BY <1>1, IInvFacts, Moves DEF Moved, Report
<1>3. Progress' /\ CacheOK'
  BY <1>2 DEF Progress, CacheOK
<1>4. QED
  BY <1>2, <1>3, Within, IInvFacts DEF Loop

LEMMA InitInv == Init => IInv
<1> SUFFICES ASSUME Init PROVE IInv
  OBVIOUS
<1>1. /\ job \in JobSet /\ job.pc \in {"remove", "failed"} /\ job.at = 1
      /\ job.pc = "failed" => ConfigRaises(setting)
  <2>1. CASE ConfigRaises(setting)
    <3>1. job = [NewJob EXCEPT !.pc = "failed"]
      BY <2>1 DEF Init
    <3>2. QED
      BY <2>1, <3>1, NewJobFacts DEF JobSet
  <2>2. CASE ~ ConfigRaises(setting)
    <3>1. job = [NewJob EXCEPT !.pc = "remove"]
      BY <2>2, NewJobFacts DEF Init
    <3>2. QED
      BY <3>1, NewJobFacts DEF JobSet, Loop
  <2>3. QED
    BY <2>1, <2>2
<1>2. local \in [Element -> Maybe]
  BY OldFacts DEF Init, Maybe
<1>3. results \in Seq(ResultSet) /\ Len(results) = 0 /\ DOMAIN results = {}
  BY DEF Init
<1>4. Typed
  BY <1>1, <1>2, <1>3 DEF Init, Typed
<1>5. Progress /\ CacheOK
  BY <1>1 DEF Progress, CacheOK
<1>6. QED
  BY <1>3, <1>4, <1>5 DEF IInv

LEMMA NextInv == IInv /\ [Next]_vars => IInv'
<1> SUFFICES ASSUME IInv, [Next]_vars PROVE IInv'
  OBVIOUS
<1>1. CASE UNCHANGED vars
  <2>1. UNCHANGED <<setting, remote, local, sources, job, results>>
    BY <1>1 DEF vars
  <2>2. Current' = Current /\ Tested' = Tested /\ Cached' = Cached /\ Inputs' = Inputs
        /\ Plan(Current)' = Plan(Current)
    BY <2>1, SameLocal
  <2>3. Progress'
    BY <2>1, <2>2, IInvFacts DEF Progress, SearchOK
  <2>4. CacheFound(setting) => CacheOK'
    BY <2>1, <2>2, IInvFacts DEF CacheOK, Original, SameInputs, Rebuilt, Known, Published, Artifact
  <2>5. QED
    BY <2>1, <2>3, <2>4, Within, IInvFacts DEF Same
<1>2. CASE Next
  BY <1>1, <1>2, RemoveInv, PullInv, StatusInv, RebuildInv, CheckoutAInv, RemoveOneInv, SearchInv,
     FetchInv, BuildInv, CheckoutBInv, CompareInv, ReportInv, FailsInv DEF Next, Ended
<1>3. QED
  BY <1>1, <1>2

LEMMA Invariance == Spec => []IInv
  BY InitInv, NextInv, PTL DEF Spec
-----------------------------------------------------------------------------
(* An element is called reproducible only after it was built again without *)
(* the network and compared with what was published, if that can be had.   *)
THEOREM Compares == Spec => []ComparesWithRebuilt
<1>1. IInv => ComparesWithRebuilt
  BY DEF IInv, ResultOK, ComparesWithRebuilt, ReproducibleIsRebuilt, OriginalIsPublished
<1>2. QED
  BY <1>1, Invariance, PTL

(* An element whose build depends on its inputs alone is not accused, but  *)
(* in the one known case: the rebuild found nothing to build.              *)
THEOREM Fair == Spec => []NoFalseAlarm
<1>1. IInv => NoFalseAlarm
  BY DEF IInv, ResultOK, NoFalseAlarm
<1>2. QED
  BY <1>1, Invariance, PTL

(* The search for sources finds all that the build without the network     *)
(* needs: the script gives up only after one of its commands has failed.   *)
THEOREM FindsSources == Spec => []FailsOnlyAfterFault
<1>1. IInv => FailsOnlyAfterFault
  BY DEF IInv, Progress, FailsOnlyAfterFault
<1>2. QED
  BY <1>1, Invariance, PTL
=============================================================================
