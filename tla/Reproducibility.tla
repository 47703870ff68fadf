-------------------------- MODULE Reproducibility ---------------------------
(***************************************************************************)
(* utils/test_reproducibility.py: each runtime dependency of an element is *)
(* taken from the artifact server ("a"), removed, built again without the  *)
(* network ("b"), and the two are compared.                                *)
(*                                                                         *)
(* BuildStream is modelled from how the script uses it: "pull" loads what  *)
(* is missing and published, "build" does nothing for an element that is   *)
(* cached and otherwise loads or builds what its build needs, "fetch"      *)
(* loads the sources of the elements it is given.  An artifact is stamped  *)
(* with where it is from, and records the stamps of what it was built      *)
(* with; "old" is what an earlier run, killed anywhere, has left.          *)
(***************************************************************************)
EXTENDS Integers, Sequences, FiniteSets

CONSTANTS Element,
          BuildScope,    \* BuildScope[e]: bst show --deps build e
          RunOrder,      \* bst show --deps run on the target, in its order
          Deterministic, \* elements that equal inputs build to equal artifacts
          Settings,      \* the user's settings considered
          MaxFaults,     \* bound on the commands that fail
          None

(* --deps build leaves the element itself out, --deps run does not.        *)
ASSUME ScopeAssumption == /\ BuildScope \in [Element -> SUBSET Element]
                          /\ \A e \in Element : e \notin BuildScope[e]
                          /\ RunOrder \in Seq(Element) \ {<<>>} /\ MaxFaults \in Nat

How       == {"old", "remote", "online", "offline"}
StampSet  == How \X (Nat \cup {None})
Artifacts == [how : How, by : Nat \cup {None}, from : SUBSET (Element \X StampSet)]

ASSUME NoneAssumption == None \notin Artifacts

VARIABLES setting, remote,       \* chosen once; remote: the published elements
          local, sources,        \* local[e]: the artifact or None
          job, results, faults

vars == <<setting, remote, local, sources, job, results, faults>>

(***************************************************************************)
(* BuildstreamConfiguration.  A setting is                                 *)
(*   [option, files, dir]                                                  *)
(* with the option that BST gives ("--config", "-c", "--config=" or None), *)
(* the configuration files in the user's directory, and what each file     *)
(* says of artifactdir: None, "absolute", or "home" for a path with ~ or a *)
(* variable, which BuildStream expands and the script does not.            *)
(***************************************************************************)
ConfigFile(s) ==
    IF s.option # None THEN "option"
    ELSE IF "buildstream1.conf" \in s.files THEN "buildstream1.conf"
    ELSE IF "buildstream.conf" \in s.files THEN "buildstream.conf" ELSE None

(* list.index raises a ValueError for an option that is one word.          *)
ConfigRaises(s) == s.option = "--config="
CacheFound(s)   == LET file == ConfigFile(s)
                   IN  file = None \/ s.dir[file] \in {None, "absolute"}
-----------------------------------------------------------------------------
Artifact(how, by, from) == [how |-> how, by |-> by, from |-> from]
Stamp(cached, e)        == <<cached[e].how, cached[e].by>>
Built(how, cached, e)   ==
    Artifact(how, job.at, {<<d, Stamp(cached, d)>> : d \in BuildScope[e]})
Published(e) == Artifact("remote", None, {<<d, <<"remote", None>> >> : d \in BuildScope[e]})
Old(e)       == Artifact("old", None, {<<d, <<"old", None>> >> : d \in BuildScope[e]})

Cached    == {e \in Element : local[e] # None}
Status(e) == IF local[e] # None THEN "cached"
             ELSE IF e \notin sources THEN "fetch needed" ELSE "buildable or waiting"
Current   == RunOrder[job.at]
Scopes(q) == UNION {BuildScope[e] : e \in q}
Tested    == BuildScope[Current] \cup {Current}

(* What a build of e has to load or build: the least set with e and with   *)
(* the uncached elements that the build of a member needs.                 *)
ClosedPlan(e, plan) == e \in plan /\ \A x \in plan : BuildScope[x] \ Cached \subseteq plan
Plan(e) == {x \in Element : \A plan \in SUBSET Element : ClosedPlan(e, plan) => x \in plan}

(* a, b: what was checked out; search: the loop of                         *)
(* bst_fetch_required_sources; hurt (history): a command has failed.       *)
NoSearch == [seen |-> {}, queue |-> {}, required |-> {}]
NewJob   == [pc |-> "remove", at |-> 1, fallback |-> FALSE, a |-> None, b |-> None,
             search |-> NoSearch, hurt |-> FALSE]

Init ==
    /\ setting \in Settings /\ remote \in SUBSET Element
    /\ \E cached \in SUBSET Element :
          local = [e \in Element |-> IF e \in cached THEN Old(e) ELSE None]
    /\ sources \in SUBSET Element
    /\ job = [NewJob EXCEPT !.pc = IF ConfigRaises(setting) THEN "failed" ELSE @]
    /\ results = <<>> /\ faults = 0

Same    == UNCHANGED <<setting, remote, results>>
Quiet   == UNCHANGED faults
Fault   == faults < MaxFaults /\ faults' = faults + 1
At(pc)  == job.pc = pc
Goto(pc) == job' = [job EXCEPT !.pc = pc]
HurtTo(pc) == Fault /\ job' = [job EXCEPT !.pc = pc, !.hurt = TRUE]
Emptied(gone)  == [e \in Element |-> IF e \in gone THEN None ELSE local[e]]
Removal(named) == Emptied(IF CacheFound(setting) THEN named ELSE {})

(* bst show and bst checkout that fail end the script with status 1.       *)
CommandFails ==
    /\ job.pc \in {"remove", "status", "checkout a", "search", "checkout b"}
    /\ HurtTo("failed")
    /\ Same /\ UNCHANGED <<local, sources>>
-----------------------------------------------------------------------------
(* handle_artifact_status: the result of the removal is not looked at ...  *)
RemoveTested ==
    /\ At("remove")
    /\ local' = Removal(Tested)
    /\ Goto("pull")
    /\ Same /\ Quiet /\ UNCHANGED sources

(* ... and neither is that of the pull ...                                 *)
Pull ==
    /\ At("pull")
    /\ LET missing == (Tested \cap remote) \ Cached
       IN  \E pulled \in SUBSET missing :
              /\ local' = [e \in Element |-> IF e \in pulled THEN Published(e) ELSE local[e]]
              /\ IF pulled = missing THEN Quiet /\ Goto("status") ELSE HurtTo("status")
    /\ Same /\ UNCHANGED sources

(* mutation of ShowStatus: the status of the element alone decides.        *)
ShowStatusOfOne ==
    /\ At("status")
    /\ LET fallback == Status(Current) # "cached"
       IN  job' = [job EXCEPT !.fallback = fallback,
                              !.pc = IF fallback THEN "rebuild" ELSE "checkout a"]
    /\ Same /\ Quiet /\ UNCHANGED <<local, sources>>

(* ... but the statuses are.                                               *)
ShowStatus ==
    /\ At("status")
    /\ LET fallback == \E e \in Tested : Status(e) # "cached"
       IN  job' = [job EXCEPT !.fallback = fallback,
                              !.pc = IF fallback THEN "rebuild" ELSE "checkout a"]
    /\ Same /\ Quiet /\ UNCHANGED <<local, sources>>

(* bst_build_specific: what is cached stays, so BuildStream builds nothing *)
(* at all when the element was pulled and only a dependency was not.       *)
After(how, e) ==
    LET plan     == Plan(e)
        pulled   == IF how = "online" THEN plan \cap remote ELSE {}
        built    == plan \ pulled
        loaded   == [x \in Element |-> IF x \in pulled THEN Published(x) ELSE local[x]]
        stamped  == [x \in Element |-> IF x \in built THEN Artifact(how, job.at, {})
                                                      ELSE loaded[x]]
    IN  [x \in Element |-> IF x \in built THEN Built(how, stamped, x) ELSE stamped[x]]

(* The status of the build is not looked at: a failure shows at checkout.  *)
Rebuild ==
    /\ At("rebuild")
    /\ \/ /\ Current \in Cached
          /\ Goto("checkout a")
          /\ Quiet /\ UNCHANGED <<local, sources>>
       \/ /\ Current \notin Cached
          /\ local' = After("online", Current)
          /\ sources' = sources \cup (Plan(Current) \ remote)
          /\ Goto("checkout a")
          /\ Quiet
       \/ /\ Current \notin Cached
          /\ HurtTo("checkout a")
          /\ UNCHANGED <<local, sources>>
    /\ Same

CheckoutA ==
    /\ At("checkout a")
    /\ job' = IF Current \in Cached THEN [job EXCEPT !.pc = "remove one", !.a = local[Current]]
                                    ELSE [job EXCEPT !.pc = "failed"]
    /\ Same /\ Quiet /\ UNCHANGED <<local, sources>>

(* mutation of RemoveOne: the artifact stays.                              *)
RemoveNone ==
    /\ At("remove one")
    /\ local' = Removal({})
    /\ job' = [job EXCEPT !.pc = "search",
                          !.search = [seen |-> {Current}, queue |-> {Current}, required |-> {Current}]]
    /\ Same /\ Quiet /\ UNCHANGED sources

RemoveOne ==
    /\ At("remove one")
    /\ local' = Removal({Current})
    /\ job' = [job EXCEPT !.pc = "search",
                          !.search = [seen |-> {Current}, queue |-> {Current}, required |-> {Current}]]
    /\ Same /\ Quiet /\ UNCHANGED sources

(* mutation of Search: what lies behind an element that needs its sources  *)
(* is not searched.                                                        *)
SearchShallow ==
    /\ At("search") /\ job.search.queue # {}
    /\ LET s   == job.search
           new == Scopes(s.queue) \ s.seen
       IN  job' = [job EXCEPT !.search =
                     [seen     |-> s.seen \cup new,
                      queue    |-> {e \in new : Status(e) = "buildable or waiting"},
                      required |-> s.required \cup {e \in new : Status(e) = "fetch needed"}]]
    /\ Same /\ Quiet /\ UNCHANGED <<local, sources>>

(* bst_fetch_required_sources, one round of its loop and then the fetch.   *)
Search ==
    /\ At("search") /\ job.search.queue # {}
    /\ LET s   == job.search
           new == Scopes(s.queue) \ s.seen
       IN  job' = [job EXCEPT !.search =
                     [seen     |-> s.seen \cup new,
                      queue    |-> {e \in new : Status(e) # "cached"},
                      required |-> s.required \cup {e \in new : Status(e) = "fetch needed"}]]
    /\ Same /\ Quiet /\ UNCHANGED <<local, sources>>

FetchRequired ==
    /\ At("search") /\ job.search.queue = {}
    /\ LET missing == job.search.required \ sources
       IN  \E fetched \in SUBSET missing :
              /\ sources' = sources \cup fetched
              /\ IF fetched = missing THEN Quiet /\ Goto("build") ELSE HurtTo("build")
    /\ Same /\ UNCHANGED local

(* forbid-network bst build: again the status is not looked at.            *)
BuildOffline ==
    /\ At("build")
    /\ \/ /\ Current \in Cached
          /\ Goto("checkout b")
          /\ Quiet /\ UNCHANGED local
       \/ /\ Current \notin Cached /\ Plan(Current) \subseteq sources
          /\ local' = After("offline", Current)
          /\ Goto("checkout b")
          /\ Quiet
       \/ /\ Current \notin Cached /\ ~ Plan(Current) \subseteq sources
          /\ Goto("checkout b")
          /\ Quiet /\ UNCHANGED local
       \/ /\ Current \notin Cached /\ Plan(Current) \subseteq sources
          /\ HurtTo("checkout b")
          /\ UNCHANGED local
    /\ Same /\ UNCHANGED sources

CheckoutB ==
    /\ At("checkout b")
    /\ job' = IF Current \in Cached THEN [job EXCEPT !.pc = "compare", !.b = local[Current]]
                                    ELSE [job EXCEPT !.pc = "failed"]
    /\ Same /\ Quiet /\ UNCHANGED <<local, sources>>

(* is_reproducible: any status of diffoscope but 0, its own failures too,  *)
(* is a difference.  Then the loop of bst_check_reproducibility_v2.        *)
MustEqual(a, b) == a = b \/ (Current \in Deterministic /\ a.from = b.from)
Result(same, broken) ==
    [name |-> Current, same |-> same, broken |-> broken,
     a |-> job.a, b |-> job.b, fallback |-> job.fallback]

Compare ==
    /\ At("compare")
    /\ \E same, broken \in BOOLEAN :
          /\ MustEqual(job.a, job.b) => same \/ broken
          /\ broken => ~ same
          /\ IF broken THEN Fault ELSE Quiet
          /\ results' = Append(results, Result(same, broken))
          /\ job' = IF job.at = Len(RunOrder) THEN [job EXCEPT !.pc = "report"]
                    ELSE [NewJob EXCEPT !.at = job.at + 1, !.hurt = job.hurt]
    /\ UNCHANGED <<setting, remote, local, sources>>

(* handle_results and main: the status of the script.                      *)
Report ==
    /\ At("report")
    /\ Goto(IF \E i \in DOMAIN results : ~ results[i].same THEN "status 1" ELSE "status 0")
    /\ Same /\ Quiet /\ UNCHANGED <<local, sources>>

(* The script has ended.                                                   *)
Ended == job.pc \in {"failed", "status 0", "status 1"} /\ UNCHANGED vars

Next == \/ RemoveTested \/ Pull \/ ShowStatus \/ Rebuild \/ CheckoutA \/ RemoveOne
        \/ Search \/ FetchRequired \/ BuildOffline \/ CheckoutB \/ Compare \/ Report
        \/ CommandFails \/ Ended
Spec == Init /\ [][Next]_vars
-----------------------------------------------------------------------------
(* "found to be reproducible" (handle_results, 527-532) is said only of an *)
(* element that was built again, without the network, after the one it is  *)
(* compared with -- unless the script looked for the artifacts elsewhere   *)
(* than BuildStream, when it compares an artifact with itself.             *)
ReproducibleIsRebuilt ==
    CacheFound(setting) =>
        \A i \in DOMAIN results : results[i].same =>
            /\ results[i].b.how = "offline" /\ results[i].b.by = i
            /\ results[i].a # results[i].b

(* What is compared with is what was published, whenever it can be had,    *)
(* and never what an earlier run left in the cache: it is removed first    *)
(* (344-358) and replaced if it has to be (392-400).                       *)
OriginalIsPublished ==
    CacheFound(setting) =>
        \A i \in DOMAIN results :
            /\ results[i].a.how \in {"remote", "online"}
            /\ results[i].name \in remote => results[i].a.how = "remote"

(* The comparison is the one that the report claims.                       *)
ComparesWithRebuilt == ReproducibleIsRebuilt /\ OriginalIsPublished

(* An element whose build depends on its inputs alone is not accused:      *)
(* either diffoscope failed, or the original was pulled and the script saw *)
(* something that was not and fell back to a rebuild (lines 387-397).  An  *)
(* element that was pulled itself, while a dependency was not, is then not *)
(* rebuilt: the "rebuild" of line 396 finds nothing to build, and its      *)
(* inputs are not those of the original.  The exception covers the pulls   *)
(* that this build repairs as well.                                        *)
NoFalseAlarm ==
    CacheFound(setting) =>
        \A i \in DOMAIN results :
            results[i].name \in Deterministic /\ ~ results[i].same =>
                \/ results[i].broken
                \/ results[i].fallback /\ results[i].a.how = "remote"

(* The search finds every source that the build without the network will   *)
(* need, though it skips what is cached and what was seen: the script      *)
(* gives up only after one of its commands has failed.                     *)
FailsOnlyAfterFault == job.pc = "failed" => job.hurt \/ ConfigRaises(setting)
=============================================================================
