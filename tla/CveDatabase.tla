---------------------------- MODULE CveDatabase -----------------------------
(***************************************************************************)
(* The cve_report job: utils/update_local_cve_database.py brings one file  *)
(* and one etag per year up to date, then generate_cve_report.py reads     *)
(* them.  The job runs again and again, in a directory that stays (on      *)
(* somebody's machine) or in CI, where the directory is restored from a    *)
(* cache that a job saves only when it succeeds (.gitlab-ci.yml:707-714).  *)
(*                                                                         *)
(* The content of a file is the version of the server's feed it was loaded *)
(* from, whole or torn; an etag is a version.                              *)
(***************************************************************************)
EXTENDS CveReport, Functions

CONSTANTS Years,         \* the years, from 2002 on, as 1 .. Years
          MaxVersion,    \* bound on the versions of a feed
          Feeds,         \* what the server may publish: [year -> [version -> feed]]
          Manifests,     \* the manifests considered
          MaxFaults      \* bound on errors of the server, short bodies and crashes

Year == 1 .. Years

ASSUME BoundsAssumption == /\ Years \in Nat \ {0} /\ MaxVersion \in Nat \ {0}
                           /\ MaxFaults \in Nat
ASSUME NoneAssumption   == /\ None \notin Int
                           /\ None \notin [version : Int, whole : BOOLEAN]
ASSUME AnyVersionAssumption == AnyVersion \notin Int
ASSUME FeedsAssumption  ==
    \A f \in Feeds, y \in Year, v \in 1 .. MaxVersion :
        IsSequence(f[y][v]) /\ \A i \in DOMAIN f[y][v] : IsMatch(f[y][v][i])
ASSUME ManifestsAssumption ==
    \A m \in Manifests : IsSequence(m) /\ \A i \in DOMAIN m : IsModule(m[i])

VARIABLES feeds, manifest, ci,   \* chosen once
          server,        \* the version of each year's feed, 0 before there is one
          data, etag,    \* the files, or None
          cache,         \* the files that CI has saved
          job,           \* where the job is, and what it remembers
          report,        \* the report being made
          faults

choice == <<feeds, manifest, ci>>
vars   == <<choice, server, data, etag, cache, job, report, faults>>

Nothing == [y \in Year |-> None]

(* year: being updated; tag: of the answer; short: the body ended early.   *)
(* begin and skipped are history: the server's versions when the job began *)
(* and the years for which it answered with an error.                      *)
NewJob == [pc |-> "ask", year |-> 1, tag |-> 0, short |-> FALSE,
           begin |-> server, skipped |-> {}]

(* The report is at match next of the file of year, and has found entries. *)
NewReport == [year |-> 1, next |-> 1, found |-> {}]

Init ==
    /\ feeds \in Feeds /\ manifest \in Manifests /\ ci \in BOOLEAN
    /\ server \in [Year -> {0, 1}]
    /\ data = Nothing /\ etag = Nothing
    /\ cache = [data |-> Nothing, etag |-> Nothing]
    /\ job = [NewJob EXCEPT !.pc = "done", !.begin = Nothing]
    /\ report = NewReport
    /\ faults = 0

Fault == faults < MaxFaults /\ faults' = faults + 1
Files == UNCHANGED <<data, etag, cache>>
Same  == UNCHANGED <<choice, server>>
Quiet == Same /\ UNCHANGED report

Publish(y) ==
    /\ server[y] < MaxVersion
    /\ server' = [server EXCEPT ![y] = @ + 1]
    /\ Files /\ UNCHANGED <<choice, job, report, faults>>

Start ==
    /\ job.pc \in {"done", "died"}
    /\ job' = NewJob
    /\ report' = NewReport
    /\ IF ci THEN data' = cache.data /\ etag' = cache.etag ELSE UNCHANGED <<data, etag>>
    /\ Same /\ UNCHANGED <<cache, faults>>

Die ==
    /\ job.pc \notin {"done", "died"}
    /\ Fault
    /\ job' = [job EXCEPT !.pc = "died"]
    /\ report' = NewReport
    /\ Files /\ Same
-----------------------------------------------------------------------------
(***************************************************************************)
(* update_year.                                                            *)
(***************************************************************************)
(* mutation of NextYear: the range of the years is one too long.           *)
NextYearBeyond(j) == IF j.year > Years THEN [j EXCEPT !.pc = "report"]
                                       ELSE [j EXCEPT !.pc = "ask", !.year = @ + 1]

NextYear(j) == IF j.year = Years THEN [j EXCEPT !.pc = "report"]
                                 ELSE [j EXCEPT !.pc = "ask", !.year = @ + 1]

(* mutation of Sent: a file that is there is not asked for again.          *)
SentWheneverThere(y) == IF data[y] = None THEN None ELSE server[y]

(* The etag is sent only when the data file is there.                      *)
Sent(y) == IF data[y] = None THEN None ELSE etag[y]

(* 404 and 304 leave the files alone.                                      *)
AskNothingNew ==
    /\ job.pc = "ask"
    /\ server[job.year] \in {0, Sent(job.year)}
    /\ job' = NextYear(job)
    /\ Files /\ Quiet /\ UNCHANGED faults

(* So does every other error status, without a word.                       *)
AskError ==
    /\ job.pc = "ask"
    /\ Fault
    /\ job' = NextYear([job EXCEPT !.skipped = @ \cup {job.year}])
    /\ Files /\ Quiet

(* The file is opened for writing, which empties it.                       *)
AskNew ==
    /\ job.pc = "ask"
    /\ server[job.year] \notin {0, Sent(job.year)}
    /\ job' = [job EXCEPT !.pc = "body", !.tag = server[job.year], !.short = FALSE]
    /\ data' = [data EXCEPT ![job.year] = [version |-> server[job.year], whole |-> FALSE]]
    /\ Quiet /\ UNCHANGED <<etag, cache, faults>>

(* A body that ends early looks like any other.                            *)
Body ==
    /\ job.pc = "body"
    /\ \E short \in BOOLEAN :
          /\ IF short THEN Fault ELSE UNCHANGED faults
          /\ job' = [job EXCEPT !.pc = "etag", !.short = short]
    /\ Files /\ Quiet

(* The etag file is written and closed inside the with statement of the    *)
(* data file, whose last block is written when it is closed.               *)
WriteEtag ==
    /\ job.pc = "etag"
    /\ etag' = [etag EXCEPT ![job.year] = job.tag]
    /\ job' = [job EXCEPT !.pc = "close"]
    /\ Quiet /\ UNCHANGED <<data, cache, faults>>

CloseData ==
    /\ job.pc = "close"
    /\ data' = [data EXCEPT ![job.year].whole = ~ job.short]
    /\ job' = NextYear(job)
    /\ Quiet /\ UNCHANGED <<etag, cache, faults>>
-----------------------------------------------------------------------------
(***************************************************************************)
(* generate_cve_report.py, and what CI does after the last command.        *)
(***************************************************************************)
(* The contents of a file, and the files that glob finds.                  *)
File(y) == feeds[y][data[y].version]
Present == {y \in Year : data[y] # None}

(* mutation of Readable: a file that ends early is read as far as it goes. *)
ReadableTorn(y) == TRUE

(* gzip or json raises an exception for a torn file, before its first match.*)
Readable(y) == data[y].whole

JudgeMatch ==
    /\ job.pc = "report" /\ report.year \in Present
    /\ Readable(report.year) /\ report.next \in DOMAIN File(report.year)
    /\ report' = [report EXCEPT !.next = @ + 1,
           !.found = Judge(manifest, @, File(report.year)[report.next])]
    /\ Files /\ Same /\ UNCHANGED <<job, faults>>

NextFile ==
    /\ job.pc = "report" /\ report.year <= Years
    /\ report.year \in Present => /\ Readable(report.year)
                                  /\ report.next \notin DOMAIN File(report.year)
    /\ report' = [report EXCEPT !.year = @ + 1, !.next = 1]
    /\ Files /\ Same /\ UNCHANGED <<job, faults>>

Report ==
    /\ job.pc = "report" /\ report.year > Years
    /\ Sortable(report.found)
    /\ job' = [job EXCEPT !.pc = "done"]
    /\ cache' = IF ci THEN [data |-> data, etag |-> etag] ELSE cache
    /\ Quiet /\ UNCHANGED <<data, etag, faults>>

Raises == \/ report.year \in Present /\ ~ Readable(report.year)
          \/ report.year > Years /\ ~ Sortable(report.found)

(* mutation of ReportFails: the cache is saved after a failure too.        *)
ReportFailsSaved ==
    /\ job.pc = "report" /\ Raises
    /\ job' = [job EXCEPT !.pc = "died"]
    /\ report' = NewReport
    /\ cache' = IF ci THEN [data |-> data, etag |-> etag] ELSE cache
    /\ Same /\ UNCHANGED <<data, etag, faults>>

ReportFails ==
    /\ job.pc = "report" /\ Raises
    /\ job' = [job EXCEPT !.pc = "died"]
    /\ report' = NewReport
    /\ Files /\ Same /\ UNCHANGED faults
-----------------------------------------------------------------------------
Progress == \/ Start \/ AskNothingNew \/ AskNew \/ Body \/ WriteEtag \/ CloseData
            \/ JudgeMatch \/ NextFile \/ Report \/ ReportFails
Next == Progress \/ Die \/ AskError \/ \E y \in Year : Publish(y)
Spec == Init /\ [][Next]_vars

(* The job is started again and again and its commands end.                *)
FairSpec == Spec /\ WF_vars(Progress)
-----------------------------------------------------------------------------
Contents == [version : 1 .. MaxVersion, whole : BOOLEAN] \cup {None}
Tags     == (1 .. MaxVersion) \cup {None}
JobState == [pc : {"ask", "body", "etag", "close", "report", "done", "died"},
             year : Year, tag : 0 .. MaxVersion, short : BOOLEAN,
             begin : [Year -> 0 .. MaxVersion \cup {None}], skipped : SUBSET Year]

TypeOK ==
    /\ server \in [Year -> 0 .. MaxVersion] /\ faults \in 0 .. MaxFaults
    /\ data \in [Year -> Contents] /\ etag \in [Year -> Tags]
    /\ cache \in [data : [Year -> Contents], etag : [Year -> Tags]]
    /\ job \in JobState
    /\ report.year \in 1 .. Years + 1 /\ report.next \in Nat \ {0}
    /\ report = [year |-> report.year, next |-> report.next, found |-> report.found]

(* What CI saves is whole, each file with the etag of its version, though  *)
(* jobs may be interrupted anywhere and bodies may end early: otherwise a  *)
(* torn file would be "Cached" in every later job.                         *)
SavedCacheIsWhole ==
    \A y \in Year : cache.data[y] # None =>
        cache.data[y].whole /\ cache.etag[y] = cache.data[y].version

(* "we still verify with the remote database we have the latest version of *)
(* the files" (generate_cve_report.py:12): a job that succeeds has read,   *)
(* for every year the server did not answer with an error, a whole feed no *)
(* older than when the job began -- in CI and elsewhere, after any crash.  *)
ReportIsFresh ==
    job.pc = "done" => \A y \in Year \ job.skipped :
        job.begin[y] \notin {0, None} =>
            data[y] # None /\ data[y].whole /\ data[y].version >= job.begin[y]

(* Whether a match is about a version, written down from the JSON feed's   *)
(* format: both ends of a range may be open, and may exclude themselves.   *)
IsAbout(match, v) ==
    IF match.version = AnyVersion
    THEN /\ match.from.kind = "none" \/ v >= match.from.at
         /\ match.to.kind = "none" \/ v <= match.to.at
         /\ <<"excluding", v>> \notin {<<match.from.kind, match.from.at>>,
                                       <<match.to.kind, match.to.at>>}
    ELSE v = match.version
Concerns(module, match) == module.product = match.product
                           /\ module.vendor \in {match.vendor, None}
Affects(module, match)  == /\ module.version # None /\ IsAbout(match, module.version)
                           /\ match.cve \notin module.fixed
Reported == {entry.cve : entry \in report.found}

(* Every reported entry is about a module of that name, with a version     *)
(* that a match affects and no patch for it (lines 109-136).               *)
IsFounded(entry, match) ==
    /\ match.vulnerable /\ match.cve = entry.cve
    /\ \E m \in Range(manifest) :
          m.name = entry.name /\ Concerns(m, match) /\ Affects(m, match)
ReportIsSound ==
    job.pc = "done" => \A entry \in report.found :
        \E y \in Present : \E i \in DOMAIN File(y) : IsFounded(entry, File(y)[i])

Hits(match)      == /\ match.vulnerable /\ Lookup(manifest, match) # None
                    /\ Affects(Lookup(manifest, match), match)
Overrules(match) == /\ match.vulnerable /\ Lookup(manifest, match) # None
                    /\ ~ Affects(Lookup(manifest, match), match)

(* What the report misses it misses in one way only: another match of the  *)
(* same CVE, about a module of the manifest that it does not affect, came  *)
(* after the one that does (lines 143-147).                                *)
MissedOnlyWhereOverruled ==
    job.pc = "done" =>
        \A y \in Present : \A i \in DOMAIN File(y) :
            Hits(File(y)[i]) /\ File(y)[i].cve \notin Reported =>
                \E z \in Present : \E j \in DOMAIN File(z) :
                    /\ z > y \/ (z = y /\ j > i)
                    /\ File(z)[j].cve = File(y)[i].cve /\ Overrules(File(z)[j])

(* The report is the manifest's vulnerabilities, but for those overruled.  *)
ReportIsExact == ReportIsSound /\ MissedOnlyWhereOverruled

(* In CI, where a torn file is never restored, the job recovers from every *)
(* failure as long as every entry can be sorted.                           *)
AllScored  == \A y \in Year, v \in 1 .. MaxVersion :
                  \A i \in DOMAIN feeds[y][v] : feeds[y][v][i].score # None
CiRecovers == [](ci /\ AllScored => <>(job.pc = "done"))
=============================================================================
