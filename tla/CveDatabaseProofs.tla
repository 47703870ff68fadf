------------------------- MODULE CveDatabaseProofs --------------------------
(***************************************************************************)
(* Proofs about CveDatabase for every number of years and versions, every  *)
(* feed and manifest, and every number of faults.                          *)
(***************************************************************************)
EXTENDS CveDatabase, WellFoundedInduction, TLAPS

USE BoundsAssumption, NoneAssumption

Updating == job.pc \in {"body", "etag", "close"}

(* A whole file has the etag of its version: the etag is written before    *)
(* the file is closed, and a file is torn from when it is opened.          *)
WholeHasItsEtag ==
    \A y \in Year : data[y] # None /\ data[y].whole => etag[y] = data[y].version

(* The year being updated: its file is torn and of the answer's version,   *)
(* which is not older than the feed was when the job began.                *)
UpdateInProgress ==
    Updating =>
        /\ data[job.year] = [version |-> job.tag, whole |-> FALSE]
        /\ job.tag >= 1
        /\ job.begin[job.year] # None => job.tag >= job.begin[job.year]
        /\ job.pc = "close" => etag[job.year] = job.tag

(* A feed is never replaced by an older one.                               *)
BeginIsPast == \A y \in Year : job.begin[y] # None => job.begin[y] <= server[y]

(* The years that the job has dealt with.                                  *)
Processed(y) == job.pc \in {"report", "done"} \/ (job.pc # "died" /\ y < job.year)

(* The file of such a year, if it is whole, is not older than the feed was *)
(* when the job began.                                                     *)
ProcessedIsFresh ==
    \A y \in Year \ job.skipped :
        Processed(y) /\ job.begin[y] \notin {0, None} =>
            data[y] # None /\ (data[y].whole => data[y].version >= job.begin[y])

(* A job that succeeds has read every file to its end.                     *)
DoneIsWhole == job.pc = "done" => \A y \in Year : data[y] # None => data[y].whole

(* The report begins when all years have been updated, reads whole files,  *)
(* and ends behind the last one; the initial state has none to read.       *)
Idle      == job.pc \notin {"report", "done"} => report = NewReport
ReadWhole == \A y \in Present : y < report.year => data[y].whole
ReadAll   == job.pc = "done" => report.year > Years \/ Present = {}

IInv == /\ TypeOK /\ WholeHasItsEtag /\ UpdateInProgress /\ BeginIsPast
        /\ ProcessedIsFresh /\ DoneIsWhole /\ SavedCacheIsWhole
        /\ Idle /\ ReadWhole /\ ReadAll

LEMMA InitIInv == Init => IInv
<1> SUFFICES ASSUME Init PROVE IInv
  OBVIOUS
<1>1. job = [pc |-> "done", year |-> 1, tag |-> 0, short |-> FALSE,
             begin |-> Nothing, skipped |-> {}]
  BY DEF Init, NewJob
<1>2. \A y \in Year : data[y] = None /\ cache.data[y] = None /\ job.begin[y] = None
  BY <1>1 DEF Init, Nothing
<1>3. TypeOK
  <2>1. Nothing \in [Year -> Contents] /\ Nothing \in [Year -> Tags]
    BY DEF Nothing, Contents, Tags
  <2>2. /\ Nothing \in [Year -> 0 .. MaxVersion \cup {None}]
        /\ 1 \in Year /\ 0 \in 0 .. MaxVersion
    BY DEF Nothing, Year
  <2>3. job \in JobState
    BY <1>1, <2>2 DEF JobState
  <2>4. server \in [Year -> 0 .. MaxVersion]
    BY DEF Init
  <2>5. report = NewReport /\ 1 \in 1 .. Years + 1 /\ 1 \in Nat \ {0}
    BY DEF Init
  <2>6. QED
    BY <2>1, <2>3, <2>4, <2>5 DEF Init, TypeOK, NewReport
<1>4. WholeHasItsEtag /\ UpdateInProgress /\ BeginIsPast
  BY <1>1, <1>2 DEF WholeHasItsEtag, UpdateInProgress, Updating, BeginIsPast
<1>5. ProcessedIsFresh /\ DoneIsWhole /\ SavedCacheIsWhole
  BY <1>1, <1>2 DEF ProcessedIsFresh, DoneIsWhole, SavedCacheIsWhole
<1>6. Idle /\ ReadWhole /\ ReadAll
  BY <1>1, <1>2 DEF Init, Idle, ReadWhole, ReadAll, Present
<1>7. QED
  BY <1>3, <1>4, <1>5, <1>6 DEF IInv

(* The next year, or the report after the last one; nothing else changes. *)
LEMMA NextYearFacts ==
    ASSUME NEW j \in JobState
    PROVE  /\ NextYear(j) \in JobState
           /\ NextYear(j).begin = j.begin /\ NextYear(j).skipped = j.skipped
           /\ \/ NextYear(j).pc = "report" /\ j.year = Years
              \/ NextYear(j).pc = "ask" /\ NextYear(j).year = j.year + 1
<1>0. j.year \in Year
  BY DEF JobState
<1>1. CASE j.year = Years
  BY <1>1 DEF JobState, NextYear
<1>2. CASE j.year # Years
  <2>1. j.year + 1 \in Year
    BY <1>0, <1>2 DEF Year
  <2>2. [j EXCEPT !.pc = "ask", !.year = j.year + 1] \in JobState
    BY <2>1 DEF JobState
  <2>3. QED
    BY <1>2, <2>2 DEF NextYear, JobState
<1>3. QED
  BY <1>1, <1>2

ReportTyped(r) == /\ r.year \in 1 .. Years + 1 /\ r.next \in Nat \ {0}
                  /\ r = [year |-> r.year, next |-> r.next, found |-> r.found]

LEMMA NewReportFacts == ReportTyped(NewReport)
  BY DEF NewReport, ReportTyped

LEMMA JudgeMatchFacts ==
    ASSUME TypeOK, JudgeMatch
    PROVE  /\ ReportTyped(report')
           /\ report'.year = report.year /\ report'.next = report.next + 1
           /\ report'.found = Judge(manifest, report.found, File(report.year)[report.next])
           /\ job.pc = "report" /\ report.year \in Present
           /\ data[report.year].whole /\ report.next \in DOMAIN File(report.year)
           /\ UNCHANGED <<feeds, manifest, ci, server, data, etag, cache, job, faults>>
<1> DEFINE after == Judge(manifest, report.found, File(report.year)[report.next])
<1>1. report' = [report EXCEPT !.next = @ + 1, !.found = after]
  BY DEF JudgeMatch
<1> HIDE DEF after
<1>2. report' = [year |-> report.year, next |-> report.next + 1, found |-> after]
  BY <1>1 DEF TypeOK
<1>3. ReportTyped(report')
  BY <1>2 DEF TypeOK, ReportTyped
<1>4. QED
  BY <1>2, <1>3 DEF JudgeMatch, Readable, Files, Same, choice, after

LEMMA NextFileFacts ==
    ASSUME TypeOK, NextFile
    PROVE  /\ ReportTyped(report')
           /\ report'.year = report.year + 1 /\ report'.next = 1
           /\ report'.found = report.found
           /\ job.pc = "report" /\ report.year <= Years
           /\ report.year \in Present =>
                 data[report.year].whole /\ report.next \notin DOMAIN File(report.year)
           /\ UNCHANGED <<feeds, manifest, ci, server, data, etag, cache, job, faults>>
<1>1. report' = [year |-> report.year + 1, next |-> 1, found |-> report.found]
  BY DEF NextFile, TypeOK
<1>2. report.year <= Years /\ report.year + 1 \in 1 .. Years + 1
  BY DEF NextFile, TypeOK
<1>3. ReportTyped(report')
  BY <1>1, <1>2 DEF ReportTyped
<1>4. QED
  BY <1>1, <1>2, <1>3 DEF NextFile, Readable, Files, Same, choice

(* The type invariant needs to know what is being updated: the file that   *)
(* is closed is there, and the etag that is written is a version.          *)
LEMMA TypeStep == TypeOK /\ UpdateInProgress /\ [Next]_vars => TypeOK'
<1> SUFFICES ASSUME TypeOK, UpdateInProgress, [Next]_vars PROVE TypeOK'
  OBVIOUS
<1> USE DEF TypeOK, Files, Same, Quiet, ReportTyped
<1>1. CASE Start
  <2>1. job' \in JobState
    BY <1>1 DEF Start, NewJob, JobState, Year
  <2>2. QED
    BY <1>1, <2>1, NewReportFacts DEF Start
<1>2. CASE Die
  <2>1. job' \in JobState
    BY <1>2 DEF Die, JobState
  <2>2. QED
    BY <1>2, <2>1, NewReportFacts DEF Die, Fault
<1>3. CASE AskNothingNew
  BY <1>3, NextYearFacts DEF AskNothingNew
<1>4. CASE AskError
  <2>1. [job EXCEPT !.skipped = @ \cup {job.year}] \in JobState
    BY DEF JobState
  <2>2. job' \in JobState
    BY <1>4, <2>1, NextYearFacts DEF AskError
  <2>3. QED
    BY <1>4, <2>2 DEF AskError, Fault
<1>5. CASE AskNew
  <2>1. job.year \in Year
    BY DEF JobState
  <2>2. server[job.year] \in 1 .. MaxVersion
    BY <1>5, <2>1 DEF AskNew
  <2>3. job' \in JobState
    BY <1>5, <2>2 DEF AskNew, JobState
  <2>4. [version |-> server[job.year], whole |-> FALSE] \in Contents
    BY <2>2 DEF Contents
  <2>5. QED
    BY <1>5, <2>3, <2>4 DEF AskNew
<1>6. CASE Body
  <2>1. job' \in JobState
    BY <1>6 DEF Body, JobState
  <2>2. QED
    BY <1>6, <2>1 DEF Body, Fault
<1>7. CASE WriteEtag
  <2>1. job' \in JobState
    BY <1>7 DEF WriteEtag, JobState
  <2>2. job.tag \in Tags
    BY <1>7 DEF WriteEtag, UpdateInProgress, Updating, JobState, Tags
  <2>3. QED
    BY <1>7, <2>1, <2>2 DEF WriteEtag
<1>8. CASE CloseData
  <2>1. job' \in JobState
    BY <1>8, NextYearFacts DEF CloseData
  <2>2. /\ data[job.year] = [version |-> job.tag, whole |-> FALSE]
        /\ job.tag \in 1 .. MaxVersion /\ job.short \in BOOLEAN
    BY <1>8 DEF CloseData, UpdateInProgress, Updating, JobState
  <2>3. PICK b \in BOOLEAN : b = ~ job.short
    OBVIOUS
  <2>4. [data[job.year] EXCEPT !.whole = b] \in Contents
    BY <2>2 DEF Contents
  <2>5. data' = [data EXCEPT ![job.year] = [@ EXCEPT !.whole = b]]
    BY <1>8, <2>3 DEF CloseData
  <2>6. QED
    BY <1>8, <2>1, <2>4, <2>5 DEF CloseData
<1>9. CASE Report
  <2>1. job' \in JobState
    BY <1>9 DEF Report, JobState
  <2>2. QED
    BY <1>9, <2>1 DEF Report
<1>10. CASE ReportFails
  <2>1. job' \in JobState
    BY <1>10 DEF ReportFails, JobState
  <2>2. QED
    BY <1>10, <2>1, NewReportFacts DEF ReportFails
<1>11. ASSUME NEW y \in Year, Publish(y) PROVE TypeOK'
  BY <1>11 DEF Publish
<1>12. CASE UNCHANGED vars
  BY <1>12 DEF vars, choice
<1>13. CASE JudgeMatch
  BY <1>13, JudgeMatchFacts
<1>14. CASE NextFile
  BY <1>14, NextFileFacts
<1>15. QED
  BY <1>1, <1>2, <1>3, <1>4, <1>5, <1>6, <1>7, <1>8, <1>9, <1>10, <1>11, <1>12, <1>13,
     <1>14 DEF Next, Progress

(* What has an etag and what is torn: AskNew empties the file of the year, *)
(* WriteEtag gives the etag while it is torn, CloseData makes it whole,    *)
(* and Start restores in CI what was whole when it was saved.              *)
LEMMA UpdateStep ==
    IInv /\ [Next]_vars => WholeHasItsEtag' /\ UpdateInProgress'
<1> SUFFICES ASSUME IInv, [Next]_vars PROVE WholeHasItsEtag' /\ UpdateInProgress'
  OBVIOUS
<1> USE DEF IInv, TypeOK, WholeHasItsEtag, UpdateInProgress, Updating, Files, Same, Quiet, JobState
<1>1. CASE Start
  BY <1>1 DEF Start, NewJob, SavedCacheIsWhole
<1>2. CASE Die
  BY <1>2 DEF Die
<1>3. CASE AskNothingNew
  BY <1>3, NextYearFacts DEF AskNothingNew
<1>4. CASE AskError
  BY <1>4, NextYearFacts DEF AskError
<1>5. CASE AskNew
  BY <1>5 DEF AskNew, BeginIsPast
<1>6. CASE Body
  BY <1>6 DEF Body
<1>7. CASE WriteEtag
  BY <1>7 DEF WriteEtag
<1>8. CASE CloseData
  BY <1>8, NextYearFacts DEF CloseData
<1>9. CASE Report
  BY <1>9 DEF Report
<1>10. CASE ReportFails
  BY <1>10 DEF ReportFails
<1>11. ASSUME NEW y \in Year, Publish(y) PROVE WholeHasItsEtag' /\ UpdateInProgress'
  BY <1>11 DEF Publish
<1>12. CASE UNCHANGED vars
  BY <1>12 DEF vars, choice
<1>13. CASE JudgeMatch
  BY <1>13 DEF JudgeMatch
<1>14. CASE NextFile
  BY <1>14 DEF NextFile
<1>15. QED
  BY <1>1, <1>2, <1>3, <1>4, <1>5, <1>6, <1>7, <1>8, <1>9, <1>10, <1>11, <1>12, <1>13,
     <1>14 DEF Next, Progress

(* A job notes the versions when it begins; the server only goes on.       *)
LEMMA BeginStep == TypeOK /\ BeginIsPast /\ [Next]_vars => BeginIsPast'
<1> SUFFICES ASSUME TypeOK, BeginIsPast, [Next]_vars PROVE BeginIsPast'
  OBVIOUS
<1> USE DEF TypeOK, BeginIsPast, JobState, Same, Quiet
<1>1. CASE Start
  BY <1>1 DEF Start, NewJob
<1>2. CASE Die
  BY <1>2 DEF Die
<1>3. CASE AskNothingNew
  BY <1>3, NextYearFacts DEF AskNothingNew
<1>4. CASE AskError
  BY <1>4, NextYearFacts DEF AskError
<1>5. CASE AskNew
  BY <1>5 DEF AskNew
<1>6. CASE Body
  BY <1>6 DEF Body
<1>7. CASE WriteEtag
  BY <1>7 DEF WriteEtag
<1>8. CASE CloseData
  BY <1>8, NextYearFacts DEF CloseData
<1>9. CASE Report
  BY <1>9 DEF Report
<1>10. CASE ReportFails
  BY <1>10 DEF ReportFails
<1>11. ASSUME NEW y \in Year, Publish(y) PROVE BeginIsPast'
  BY <1>11 DEF Publish
<1>12. CASE UNCHANGED vars
  BY <1>12 DEF vars, choice
<1>13. CASE JudgeMatch
  BY <1>13 DEF JudgeMatch
<1>14. CASE NextFile
  BY <1>14 DEF NextFile
<1>15. QED
  BY <1>1, <1>2, <1>3, <1>4, <1>5, <1>6, <1>7, <1>8, <1>9, <1>10, <1>11, <1>12, <1>13,
     <1>14 DEF Next, Progress

(* Going on to the next year, the job has dealt with one more.             *)
LEMMA OneMoreProcessed ==
    ASSUME job \in JobState, NEW j \in JobState, j.year = job.year,
           job.pc \in {"ask", "body", "etag", "close"}, job' = NextYear(j),
           NEW y \in Year, Processed(y)'
    PROVE  Processed(y) \/ y = job.year
<1>1. job.year \in 1 .. Years /\ y \in 1 .. Years
  BY DEF JobState, Year
<1>2. CASE job'.pc = "report" /\ job.year = Years
  BY <1>1, <1>2 DEF Processed
<1>3. CASE job'.pc = "ask" /\ job'.year = job.year + 1
  <2>1. y < job.year + 1
    BY <1>3 DEF Processed
  <2>2. QED
    BY <1>1, <2>1 DEF Processed
<1>4. QED
  BY <1>2, <1>3, NextYearFacts

(* Each way to have dealt with a year: 404, when there was nothing at the  *)
(* beginning; 304, when the etag is the feed's version; an error, which    *)
(* skips the year; and a file of the answer's version.                     *)
LEMMA FreshStep == IInv /\ [Next]_vars => ProcessedIsFresh'
<1> SUFFICES ASSUME IInv, [Next]_vars PROVE ProcessedIsFresh'
  OBVIOUS
<1> USE DEF IInv, TypeOK, Files, Same, Quiet
<1>1. CASE Start
  BY <1>1 DEF Start, NewJob, Year, JobState, ProcessedIsFresh, Processed
<1>2. CASE Die
  BY <1>2 DEF Die, JobState, ProcessedIsFresh, Processed
<1>3. CASE AskNothingNew
  <2>1. /\ job' = NextYear(job) /\ data' = data /\ job.pc = "ask"
        /\ server[job.year] \in {0, Sent(job.year)}
    BY <1>3 DEF AskNothingNew
  <2>2. job'.begin = job.begin /\ job'.skipped = job.skipped /\ job' \in JobState
    BY <2>1, NextYearFacts
  <2>3. \A y \in Year : Processed(y)' => Processed(y) \/ y = job.year
    BY <2>1, OneMoreProcessed
  <2>4. job.begin[job.year] \notin {0, None} =>
          /\ data[job.year] # None
          /\ data[job.year].whole => data[job.year].version >= job.begin[job.year]
    <3>1. /\ job.year \in Year /\ server[job.year] \in 0 .. MaxVersion
          /\ job.begin[job.year] \in 0 .. MaxVersion \cup {None}
      BY DEF JobState
    <3>2. SUFFICES ASSUME job.begin[job.year] \notin {0, None}
                   PROVE  /\ data[job.year] # None
                          /\ data[job.year].whole =>
                                data[job.year].version >= job.begin[job.year]
      OBVIOUS
    <3>3. server[job.year] >= job.begin[job.year] /\ job.begin[job.year] >= 1
      BY <3>1, <3>2 DEF BeginIsPast
    <3>4. Sent(job.year) = server[job.year] /\ server[job.year] # None
      BY <2>1, <3>1, <3>2, <3>3
    <3>5. data[job.year] # None /\ etag[job.year] = server[job.year]
      BY <3>4 DEF Sent
    <3>6. QED
      BY <3>1, <3>3, <3>5 DEF WholeHasItsEtag
  <2>5. QED
    BY <2>1, <2>2, <2>3, <2>4 DEF ProcessedIsFresh
<1>4. CASE AskError
  <2> DEFINE j == [job EXCEPT !.skipped = @ \cup {job.year}]
  <2>1. job' = NextYear(j) /\ data' = data /\ job.pc = "ask"
    BY <1>4 DEF AskError
  <2>2. /\ j \in JobState /\ j.begin = job.begin /\ j.year = job.year
        /\ j.skipped = job.skipped \cup {job.year}
    BY DEF JobState
  <2> HIDE DEF j
  <2>3. job'.begin = job.begin /\ job'.skipped = job.skipped \cup {job.year}
    BY <2>1, <2>2, NextYearFacts
  <2>4. \A y \in Year : Processed(y)' => Processed(y) \/ y = job.year
    BY <2>1, <2>2, OneMoreProcessed
  <2>5. QED
    <3>1. \A y \in Year \ job'.skipped : y \in Year \ job.skipped /\ y # job.year
      BY <2>3
    <3>2. QED
      BY <2>1, <2>3, <2>4, <3>1 DEF ProcessedIsFresh
<1>5. CASE AskNew
  <2>1. /\ job'.pc = "body" /\ job'.year = job.year /\ job'.begin = job.begin
        /\ job'.skipped = job.skipped /\ job.pc = "ask" /\ job.year \in 1 .. Years
    BY <1>5 DEF AskNew, JobState, Year
  <2>2. \A y \in Year \ {job.year} : data'[y] = data[y]
    BY <1>5 DEF AskNew
  <2>3. \A y \in Year : Processed(y)' => Processed(y) /\ y # job.year
    BY <2>1 DEF Processed
  <2>4. QED
    BY <2>1, <2>2, <2>3 DEF ProcessedIsFresh
<1>6. CASE Body
  BY <1>6 DEF Body, JobState, ProcessedIsFresh, Processed
<1>7. CASE WriteEtag
  BY <1>7 DEF WriteEtag, JobState, ProcessedIsFresh, Processed
<1>8. CASE CloseData
  <2>1. /\ job' = NextYear(job) /\ Updating
        /\ data' = [data EXCEPT ![job.year].whole = ~ job.short]
    BY <1>8 DEF CloseData, Updating
  <2>2. job'.begin = job.begin /\ job'.skipped = job.skipped /\ job' \in JobState
    BY <2>1, NextYearFacts
  <2>3. \A y \in Year : Processed(y)' => Processed(y) \/ y = job.year
    BY <2>1, OneMoreProcessed DEF Updating
  <2>4. /\ data[job.year] = [version |-> job.tag, whole |-> FALSE]
        /\ job.begin[job.year] # None => job.tag >= job.begin[job.year]
    BY <2>1 DEF UpdateInProgress
  <2>5. data'[job.year].version = job.tag /\ data'[job.year] # None
    <3>1. PICK b \in BOOLEAN : b = ~ job.short
      OBVIOUS
    <3>2. data' = [data EXCEPT ![job.year] = [@ EXCEPT !.whole = b]]
      BY <2>1, <3>1
    <3>3. data'[job.year] = [version |-> job.tag, whole |-> b] /\ job.tag \in Int
      BY <2>4, <3>2 DEF JobState
    <3>4. QED
      BY <3>3
  <2>6. \A y \in Year \ {job.year} : data'[y] = data[y]
    BY <2>1
  <2>7. QED
    BY <2>2, <2>3, <2>4, <2>5, <2>6 DEF ProcessedIsFresh
<1>9. CASE Report
  BY <1>9 DEF Report, JobState, ProcessedIsFresh, Processed
<1>10. CASE ReportFails
  BY <1>10 DEF ReportFails, JobState, ProcessedIsFresh, Processed
<1>11. ASSUME NEW y \in Year, Publish(y) PROVE ProcessedIsFresh'
  BY <1>11 DEF Publish, ProcessedIsFresh, Processed
<1>12. CASE UNCHANGED vars
  BY <1>12 DEF vars, choice, ProcessedIsFresh, Processed
<1>13. CASE JudgeMatch
  BY <1>13 DEF JudgeMatch, JobState, ProcessedIsFresh, Processed
<1>14. CASE NextFile
  BY <1>14 DEF NextFile, JobState, ProcessedIsFresh, Processed
<1>15. QED
  BY <1>1, <1>2, <1>3, <1>4, <1>5, <1>6, <1>7, <1>8, <1>9, <1>10, <1>11, <1>12, <1>13,
     <1>14 DEF Next, Progress

(* Report, which alone ends a job well, reads every file that is there.    *)
LEMMA DoneStep == IInv /\ [Next]_vars => DoneIsWhole'
<1> SUFFICES ASSUME IInv, [Next]_vars PROVE DoneIsWhole'
  OBVIOUS
<1> USE DEF IInv, TypeOK, JobState, DoneIsWhole, Files, Same, Quiet
<1>1. CASE Start
  BY <1>1 DEF Start, NewJob
<1>2. CASE Die
  BY <1>2 DEF Die
<1>3. CASE AskNothingNew
  BY <1>3, NextYearFacts DEF AskNothingNew
<1>4. CASE AskError
  BY <1>4, NextYearFacts DEF AskError
<1>5. CASE AskNew
  BY <1>5 DEF AskNew
<1>6. CASE Body
  BY <1>6 DEF Body
<1>7. CASE WriteEtag
  BY <1>7 DEF WriteEtag
<1>8. CASE CloseData
  BY <1>8, NextYearFacts DEF CloseData
<1>9. CASE Report
  <2>1. \A y \in Year : data[y] # None => data[y].whole
    BY <1>9 DEF Report, Year, ReadWhole, Present
  <2>2. QED
    BY <1>9, <2>1 DEF Report
<1>10. CASE ReportFails
  BY <1>10 DEF ReportFails
<1>11. ASSUME NEW y \in Year, Publish(y) PROVE DoneIsWhole'
  BY <1>11 DEF Publish
<1>12. CASE UNCHANGED vars
  BY <1>12 DEF vars, choice
<1>13. CASE JudgeMatch
  BY <1>13 DEF JudgeMatch
<1>14. CASE NextFile
  BY <1>14 DEF NextFile
<1>15. QED
  BY <1>1, <1>2, <1>3, <1>4, <1>5, <1>6, <1>7, <1>8, <1>9, <1>10, <1>11, <1>12, <1>13,
     <1>14 DEF Next, Progress

(* It alone saves the cache, too.                                          *)
LEMMA CacheStep == IInv /\ [Next]_vars => SavedCacheIsWhole'
<1> SUFFICES ASSUME IInv, [Next]_vars PROVE SavedCacheIsWhole'
  OBVIOUS
<1> USE DEF IInv, TypeOK, SavedCacheIsWhole, Files, Same, Quiet
<1>1. CASE Start
  BY <1>1 DEF Start
<1>2. CASE Die
  BY <1>2 DEF Die
<1>3. CASE AskNothingNew
  BY <1>3, NextYearFacts DEF AskNothingNew
<1>4. CASE AskError
  BY <1>4, NextYearFacts DEF AskError
<1>5. CASE AskNew
  BY <1>5 DEF AskNew
<1>6. CASE Body
  BY <1>6 DEF Body
<1>7. CASE WriteEtag
  BY <1>7 DEF WriteEtag
<1>8. CASE CloseData
  BY <1>8, NextYearFacts DEF CloseData
<1>9. CASE Report
  <2>1. \A y \in Year : data[y] # None => data[y].whole
    BY <1>9 DEF Report, Year, ReadWhole, Present
  <2>2. QED
    BY <1>9, <2>1 DEF Report, WholeHasItsEtag
<1>10. CASE ReportFails
  BY <1>10 DEF ReportFails
<1>11. ASSUME NEW y \in Year, Publish(y) PROVE SavedCacheIsWhole'
  BY <1>11 DEF Publish
<1>12. CASE UNCHANGED vars
  BY <1>12 DEF vars, choice
<1>13. CASE JudgeMatch
  BY <1>13 DEF JudgeMatch
<1>14. CASE NextFile
  BY <1>14 DEF NextFile
<1>15. QED
  BY <1>1, <1>2, <1>3, <1>4, <1>5, <1>6, <1>7, <1>8, <1>9, <1>10, <1>11, <1>12, <1>13,
     <1>14 DEF Next, Progress

(* The report goes over the years in their order, past a file when it has  *)
(* been read to its end; the files do not change meanwhile.                *)
LEMMA ReadingStep == IInv /\ [Next]_vars => Idle' /\ ReadWhole' /\ ReadAll'
<1> SUFFICES ASSUME IInv, [Next]_vars PROVE Idle' /\ ReadWhole' /\ ReadAll'
  OBVIOUS
<1> USE DEF IInv, Idle, ReadAll, Files, Same, Quiet
<1>0. TypeOK /\ TypeOK' 
  BY TypeStep
<1>a. ASSUME report' = NewReport PROVE ReadWhole'
  BY <1>a DEF ReadWhole, NewReport, Present, Year
<1>b. ASSUME job.pc \notin {"report", "done"}, UNCHANGED report PROVE ReadWhole'
  BY <1>a, <1>b
<1>1. CASE Start
  BY <1>1, <1>a, <1>0 DEF Start, NewJob
<1>2. CASE Die
  BY <1>2, <1>a, <1>0 DEF Die, TypeOK, JobState
<1>3. CASE AskNothingNew
  BY <1>3, <1>b, <1>0, NextYearFacts DEF AskNothingNew, TypeOK
<1>4. CASE AskError
  <2>1. [job EXCEPT !.skipped = @ \cup {job.year}] \in JobState
    BY <1>0 DEF JobState, TypeOK
  <2>2. QED
    BY <1>4, <1>b, <2>1, NextYearFacts DEF AskError
<1>5. CASE AskNew
  BY <1>5, <1>b, <1>0 DEF AskNew, TypeOK, JobState
<1>6. CASE Body
  BY <1>6, <1>b, <1>0 DEF Body, TypeOK, JobState
<1>7. CASE WriteEtag
  BY <1>7, <1>b, <1>0 DEF WriteEtag, TypeOK, JobState
<1>8. CASE CloseData
  BY <1>8, <1>b, <1>0, NextYearFacts DEF CloseData, TypeOK
<1>9. CASE Report
  BY <1>9, <1>0 DEF Report, ReadWhole, Present, TypeOK, JobState
<1>10. CASE ReportFails
  BY <1>10, <1>a, <1>0 DEF ReportFails, TypeOK, JobState
<1>11. ASSUME NEW y \in Year, Publish(y) PROVE Idle' /\ ReadWhole' /\ ReadAll'
  BY <1>11 DEF Publish, ReadWhole, Present
<1>12. CASE UNCHANGED vars
  BY <1>12 DEF vars, choice, ReadWhole, Present
<1>13. CASE JudgeMatch
  BY <1>13, <1>0, JudgeMatchFacts DEF ReadWhole, Present
<1>14. CASE NextFile
  <2>1. /\ report'.year = report.year + 1 /\ report.year \in Nat
        /\ report.year \in Present => data[report.year].whole
        /\ UNCHANGED <<data, job>> /\ job.pc = "report"
    BY <1>14, <1>0, NextFileFacts DEF TypeOK
  <2>2. ASSUME NEW y \in Present, y < report.year + 1 PROVE data[y].whole
    <3>1. y \in Int /\ (y < report.year \/ y = report.year)
      BY <2>1, <2>2 DEF Present, Year
    <3>2. QED
      BY <2>1, <3>1 DEF ReadWhole
  <2>3. QED
    BY <2>1, <2>2 DEF ReadWhole, Present
<1>15. QED
  BY <1>1, <1>2, <1>3, <1>4, <1>5, <1>6, <1>7, <1>8, <1>9, <1>10, <1>11, <1>12, <1>13,
     <1>14 DEF Next, Progress

LEMMA IInvStep == IInv /\ [Next]_vars => IInv'
  BY TypeStep, UpdateStep, BeginStep, FreshStep, DoneStep, CacheStep, ReadingStep DEF IInv

LEMMA IInvariance == Spec => []IInv
  BY InitIInv, IInvStep, PTL DEF Spec

(* The files, the etags and the cache hold versions, and the job is always *)
(* at one of the steps of the two scripts, within the years.               *)
THEOREM TypeCorrect == Spec => []TypeOK
<1>1. IInv => TypeOK
  BY DEF IInv
<1>2. QED
  BY IInvariance, <1>1, PTL

(* However jobs are interrupted and however bodies end, what CI saves is   *)
(* whole and has the etags of its versions (.gitlab-ci.yml:707-714).       *)
THEOREM CacheWhole == Spec => []SavedCacheIsWhole
<1>1. IInv => SavedCacheIsWhole
  BY DEF IInv
<1>2. QED
  BY IInvariance, <1>1, PTL

(* A job that succeeds has read, of every year the server answered for, a  *)
(* whole feed no older than when it began (generate_cve_report.py:12).     *)
THEOREM Fresh == Spec => []ReportIsFresh
<1>1. IInv => ReportIsFresh
  BY DEF IInv, ProcessedIsFresh, Processed, DoneIsWhole, ReportIsFresh
<1>2. QED
  BY IInvariance, <1>1, PTL
-----------------------------------------------------------------------------
(***************************************************************************)
(* The report is exact.                                                    *)
(***************************************************************************)
Chosen == feeds \in Feeds /\ manifest \in Manifests

(* The matches that the report has gone over.                              *)
Seen(y, i) == y < report.year \/ (y = report.year /\ i < report.next)

(* Every entry found is founded on a match.                                *)
FoundedOn(entry, y) == \E i \in DOMAIN File(y) : IsFounded(entry, File(y)[i])
Founded == \A entry \in report.found : \E y \in Present : FoundedOn(entry, y)

(* What has been seen and is not in the map has been overruled since.      *)
OverruledIn(y, i, z) == \E j \in DOMAIN File(z) :
    /\ z > y \/ (z = y /\ j > i)
    /\ File(z)[j].cve = File(y)[i].cve /\ Overrules(File(z)[j])
Overruled(y, i) == \E z \in Present : OverruledIn(y, i, z)
Missing(y, i)   == Hits(File(y)[i]) /\ File(y)[i].cve \notin Reported
MissingWasOverruled ==
    \A y \in Present : \A i \in DOMAIN File(y) :
        Seen(y, i) /\ Missing(y, i) => Overruled(y, i)

ExactInv == Chosen /\ Founded /\ MissingWasOverruled

(* The two ways to write down a range of versions agree: a version is      *)
(* vulnerable, as the script decides, just when the match affects it, as   *)
(* the feed's format has it, at and next to the ends of the range too.     *)
THEOREM VulnerableMeansAffected ==
    ASSUME NEW m, NEW match, IsModule(m), IsMatch(match), m.version # None
    PROVE  Vulnerable(m, match) <=> Affects(m, match)
<1>1. m.version \in Int /\ match.version \in Int \cup {AnyVersion}
  BY DEF IsModule, IsMatch
<1>2. CASE match.version = AnyVersion
  <2>1. m.version # AnyVersion
    BY <1>1, AnyVersionAssumption
  <2>2. /\ IsBound(match.from) /\ IsBound(match.to)
        /\ match.from.at \in Int /\ match.to.at \in Int
    BY DEF IsMatch, IsBound
  <2>3. ~ Below(m.version, match.from) <=>
            /\ match.from.kind = "none" \/ m.version >= match.from.at
            /\ ~ (match.from.kind = "excluding" /\ match.from.at = m.version)
    BY <1>1, <2>2 DEF Below, IsBound
  <2>4. ~ Above(m.version, match.to) <=>
            /\ match.to.kind = "none" \/ m.version <= match.to.at
            /\ ~ (match.to.kind = "excluding" /\ match.to.at = m.version)
    BY <1>1, <2>2 DEF Above, IsBound
  <2>5. <<"excluding", m.version>> \notin {<<match.from.kind, match.from.at>>,
                                          <<match.to.kind, match.to.at>>}
          <=> /\ ~ (match.from.kind = "excluding" /\ match.from.at = m.version)
              /\ ~ (match.to.kind = "excluding" /\ match.to.at = m.version)
    OBVIOUS
  <2>6. IsAbout(match, m.version) <=>
            ~ Below(m.version, match.from) /\ ~ Above(m.version, match.to)
    BY <1>2, <2>3, <2>4, <2>5 DEF IsAbout
  <2>7. QED
    BY <1>2, <2>1, <2>6 DEF Vulnerable, Affects
<1>3. CASE match.version # AnyVersion
  BY <1>3 DEF Vulnerable, Affects, IsAbout
<1>4. QED
  BY <1>2, <1>3

LEMMA MaximumExists ==
    ASSUME NEW n \in Nat, NEW S \in SUBSET (1 .. n), S # {}
    PROVE  Max(S) \in S
<1> DEFINE T == {n - r : r \in S}
<1>1. \A r \in S : r \in 1 .. n /\ n - r \in Nat
  OBVIOUS
<1>2. PICK x \in T : \A y \in T : ~ (<<y, x>> \in OpToRel(<, Nat))
  <2>1. T \subseteq Nat /\ T # {}
    BY <1>1
  <2>2. QED
    BY <2>1, WFMin, NatLessThanWellFounded
<1>3. PICK r \in S : x = n - r
  OBVIOUS
<1>4. ASSUME NEW q \in S PROVE r >= q
  <2>1. n - q \in T /\ n - q \in Nat /\ x \in Nat
    BY <1>1, <1>3
  <2>2. ~ (n - q < n - r)
    BY <1>2, <1>3, <2>1 DEF OpToRel
  <2>3. QED
    BY <1>1, <2>2
<1>5. QED
  BY <1>4 DEF Max

(* What the look-up finds is a module of the manifest with a version, of   *)
(* the product that the match names and of its vendor or of none.          *)
LEMMA LookupFinds ==
    ASSUME NEW modules, IsSequence(modules), \A i \in DOMAIN modules : IsModule(modules[i]),
           NEW match, Lookup(modules, match) # None
    PROVE  /\ Lookup(modules, match) \in Range(modules)
           /\ IsModule(Lookup(modules, match))
           /\ Lookup(modules, match).version # None
           /\ Concerns(Lookup(modules, match), match)
<1> DEFINE exact   == Named(modules, match.vendor, match.product)
           generic == Named(modules, None, match.product)
           found(i) == /\ i \in DOMAIN modules /\ modules[i].version # None
                       /\ modules[i].vendor \in {match.vendor, None}
                       /\ modules[i].product = match.product
<1>1. exact \subseteq 1 .. Len(modules) /\ generic \subseteq 1 .. Len(modules)
  BY DEF IsSequence, Named
<1>2. exact # {} => Max(exact) \in exact
  BY <1>1, MaximumExists DEF IsSequence
<1>3. generic # {} => Max(generic) \in generic
  BY <1>1, MaximumExists DEF IsSequence
<1>4. (\A i \in exact : found(i)) /\ (\A i \in generic : found(i))
  BY DEF Named
<1>5. Lookup(modules, match) = IF exact # {} THEN modules[Max(exact)]
                              ELSE IF generic # {} THEN modules[Max(generic)] ELSE None
  BY DEF Lookup
<1> HIDE DEF exact, generic
<1>6. PICK i : found(i) /\ Lookup(modules, match) = modules[i]
  BY <1>2, <1>3, <1>4, <1>5
<1>7. QED
  BY <1>6 DEF Concerns, Range

(* Both as they are needed: what JudgeMatch reads is a match, and the      *)
(* module that it looks up is vulnerable just when the match affects it.   *)
LEMMA MatchFacts ==
    ASSUME TypeOK, Chosen, NEW y \in Present, NEW i \in DOMAIN File(y),
           Lookup(manifest, File(y)[i]) # None
    PROVE  LET match == File(y)[i]  module == Lookup(manifest, match)
           IN  /\ module \in Range(manifest) /\ Concerns(module, match)
               /\ Vulnerable(module, match) <=> Affects(module, match)
<1>1. data[y].version \in 1 .. MaxVersion /\ y \in Year
  BY DEF TypeOK, Present, Contents
<1>2. IsMatch(File(y)[i])
  BY <1>1, FeedsAssumption DEF Chosen, File
<1>3. IsSequence(manifest) /\ \A k \in DOMAIN manifest : IsModule(manifest[k])
  BY ManifestsAssumption DEF Chosen
<1>4. QED
  BY <1>2, <1>3, LookupFinds, VulnerableMeansAffected

LEMMA OverruledStays ==
    ASSUME NEW y, NEW i, Overruled(y, i), UNCHANGED <<feeds, manifest, data>>
    PROVE  Overruled(y, i)'
<1>1. PICK z \in Present : OverruledIn(y, i, z)
  BY DEF Overruled
<1>2. z \in Present'
  BY DEF Present
<1>3. OverruledIn(y, i, z)'
  BY <1>1 DEF OverruledIn, File, Overrules
<1>4. QED
  BY <1>2, <1>3 DEF Overruled

(* Neither conjunct can be disturbed by a step that leaves the report and  *)
(* the files alone, or that begins a new report.                           *)
LEMMA ExactUnchanged ==
    ASSUME Founded, MissingWasOverruled, UNCHANGED <<feeds, manifest, data, report>>
    PROVE  Founded' /\ MissingWasOverruled'
<1>1. Present' = Present /\ \A y \in Present : File(y)' = File(y)
  BY DEF Present, File
<1>2. Founded'
  BY <1>1 DEF Founded, FoundedOn, IsFounded, Present, File
<1>3. MissingWasOverruled'
  <2>1. SUFFICES ASSUME NEW y \in Present, NEW i \in DOMAIN File(y), Seen(y, i)', Missing(y, i)'
                 PROVE  Overruled(y, i)'
    BY <1>1 DEF MissingWasOverruled
  <2>2. Seen(y, i) /\ Missing(y, i)
    BY <2>1 DEF Seen, Missing, Hits, File, Reported
  <2>3. Overruled(y, i)
    BY <2>2 DEF MissingWasOverruled
  <2>4. QED
    BY <2>3, OverruledStays
<1>4. QED
  BY <1>2, <1>3

LEMMA IndexOfMatch ==
    ASSUME TypeOK, Chosen, NEW y \in Present, NEW i \in DOMAIN File(y)
    PROVE  i \in Int /\ i \in 1 .. Len(File(y)) /\ IsSequence(File(y))
<1>1. y \in Year /\ data[y].version \in 1 .. MaxVersion
  BY DEF Present, TypeOK, Contents
<1>2. IsSequence(File(y))
  BY <1>1, FeedsAssumption DEF Chosen, File
<1>3. QED
  BY <1>2 DEF IsSequence

LEMMA ExactFromTheStart ==
    ASSUME TypeOK, Chosen, report = NewReport PROVE Founded /\ MissingWasOverruled
<1>1. report.year = 1 /\ report.next = 1 /\ report.found = {}
  BY DEF NewReport
<1>2. ASSUME NEW y \in Present, NEW i \in DOMAIN File(y) PROVE ~ Seen(y, i)
  <2>1. y \in 1 .. Years /\ i \in 1 .. Len(File(y)) /\ IsSequence(File(y))
    BY IndexOfMatch DEF Present, Year
  <2>2. QED
    BY <1>1, <2>1 DEF Seen, IsSequence
<1>3. QED
  BY <1>1, <1>2 DEF Founded, MissingWasOverruled

(* One round of the loop.  A hit is entered; what is judged otherwise and  *)
(* takes an entry out is a later match of the same CVE that overrules it.  *)
LEMMA JudgeStep ==
    ASSUME TypeOK, ExactInv, JudgeMatch PROVE Founded' /\ MissingWasOverruled'
<1> DEFINE year == report.year  next == report.next
           match == File(report.year)[report.next]  module == Lookup(manifest, match)
<1>0. TypeOK /\ Chosen /\ Founded /\ MissingWasOverruled
  BY DEF ExactInv
<1>1. /\ report'.year = year /\ report'.next = next + 1
      /\ report'.found = Judge(manifest, report.found, match)
      /\ year \in Present /\ next \in DOMAIN File(year)
      /\ UNCHANGED <<feeds, manifest, data>>
  BY <1>0, JudgeMatchFacts
<1>2. /\ Present' = Present /\ \A y \in Present : File(y)' = File(y)
  BY <1>1 DEF Present, File
<1>3. module # None =>
          /\ module \in Range(manifest) /\ Concerns(module, match)
          /\ Vulnerable(module, match) <=> Affects(module, match)
  BY <1>0, <1>1, MatchFacts
<1>4. report'.found = IF ~ match.vulnerable \/ module = None THEN report.found
                      ELSE Others(report.found, match)
                           \cup (IF Affects(module, match) THEN {Entry(module, match)} ELSE {})
  BY <1>1, <1>3 DEF Judge
<1>5. Hits(match) <=> match.vulnerable /\ module # None /\ Affects(module, match)
  BY DEF Hits
<1>6. Overrules(match) <=> match.vulnerable /\ module # None /\ ~ Affects(module, match)
  BY DEF Overrules
<1>7. Founded'
  <2>1. SUFFICES ASSUME NEW entry \in report'.found
                 PROVE  \E y \in Present : FoundedOn(entry, y)
    BY <1>1, <1>2 DEF Founded, FoundedOn, IsFounded
  <2>2. CASE entry \in report.found
    BY <1>0, <2>2 DEF Founded
  <2>3. CASE entry \notin report.found
    <3>1. Hits(match) /\ entry = Entry(module, match)
      BY <1>4, <1>5, <2>3 DEF Others
    <3>2. entry.cve = match.cve /\ entry.name = module.name
      BY <3>1 DEF Entry
    <3>3. IsFounded(entry, match)
      BY <1>3, <1>5, <3>1, <3>2 DEF IsFounded
    <3>4. QED
      BY <1>1, <3>3 DEF FoundedOn
  <2>4. QED
    BY <2>2, <2>3
<1>8. MissingWasOverruled'
  <2>1. SUFFICES ASSUME NEW y \in Present, NEW i \in DOMAIN File(y), Seen(y, i)', Missing(y, i)'
                 PROVE  Overruled(y, i)
    BY <1>1, <1>2, OverruledStays DEF MissingWasOverruled
  <2>2. Hits(File(y)[i]) /\ File(y)[i].cve \notin Reported'
    BY <1>1, <2>1 DEF Missing, Hits, File
  <2>3. Seen(y, i) \/ (y = year /\ i = next)
    <3>1. y < year \/ (y = year /\ i < next + 1)
      BY <1>1, <2>1 DEF Seen
    <3>2. i \in Int /\ next \in Int
      BY <1>0, <1>1, IndexOfMatch
    <3>3. QED
      BY <3>1, <3>2 DEF Seen
  <2>4. CASE y = year /\ i = next
    <3>1. Entry(module, match) \in report'.found /\ Entry(module, match).cve = match.cve
      BY <1>4, <1>5, <2>2, <2>4 DEF Entry
    <3>2. QED
      BY <2>2, <2>4, <3>1 DEF Reported
  <2>5. CASE Seen(y, i) /\ ~ (y = year /\ i = next)
    <3>1. CASE File(y)[i].cve \notin Reported
      BY <1>0, <2>2, <2>5, <3>1 DEF MissingWasOverruled, Missing
    <3>2. CASE File(y)[i].cve \in Reported
      <4>1. PICK entry \in report.found : entry.cve = File(y)[i].cve
        BY <3>2 DEF Reported
      <4>2. entry \notin report'.found
        BY <2>2, <4>1 DEF Reported
      <4>3. match.vulnerable /\ module # None /\ entry.cve = match.cve
        BY <1>4, <4>2 DEF Others
      <4>4. ~ Affects(module, match)
        <5>1. ASSUME Affects(module, match) PROVE FALSE
          <6>1. Entry(module, match) \in report'.found /\ Entry(module, match).cve = match.cve
            BY <1>4, <4>3, <5>1 DEF Entry
          <6>2. QED
            BY <2>2, <4>1, <4>3, <6>1 DEF Reported
        <5>2. QED
          BY <5>1
      <4>5. year > y \/ (year = y /\ next > i)
        <5>1. year \in Int /\ y \in Int /\ i \in Int /\ next \in Int
          BY <1>0, <1>1, IndexOfMatch DEF Present, Year
        <5>2. QED
          BY <2>5, <5>1 DEF Seen
      <4>6. OverruledIn(y, i, year)
        BY <1>1, <1>6, <4>1, <4>3, <4>4, <4>5 DEF OverruledIn
      <4>7. QED
        BY <1>1, <4>6 DEF Overruled
    <3>3. QED
      BY <3>1, <3>2
  <2>6. QED
    BY <2>3, <2>4, <2>5
<1>9. QED
  BY <1>7, <1>8

(* Going on to the next file, the report has seen all matches of this one. *)
LEMMA NextFileStep ==
    ASSUME TypeOK, ExactInv, NextFile PROVE Founded' /\ MissingWasOverruled'
<1>0. TypeOK /\ Chosen /\ Founded /\ MissingWasOverruled
  BY DEF ExactInv
<1>1. /\ report'.year = report.year + 1 /\ report'.next = 1 /\ report'.found = report.found
      /\ report.year \in Present => report.next \notin DOMAIN File(report.year)
      /\ UNCHANGED <<feeds, manifest, data>>
  BY <1>0, NextFileFacts
<1>2. /\ Present' = Present /\ \A y \in Present : File(y)' = File(y)
  BY <1>1 DEF Present, File
<1>3. Founded'
  BY <1>0, <1>1, <1>2 DEF Founded, FoundedOn, IsFounded
<1>4. MissingWasOverruled'
  <2>1. SUFFICES ASSUME NEW y \in Present, NEW i \in DOMAIN File(y), Seen(y, i)', Missing(y, i)'
                 PROVE  Overruled(y, i)
    BY <1>1, <1>2, OverruledStays DEF MissingWasOverruled
  <2>2. Missing(y, i)
    BY <1>1, <2>1 DEF Missing, Hits, File, Reported
  <2>3. y \in Int /\ i \in 1 .. Len(File(y)) /\ IsSequence(File(y))
    BY <1>0, IndexOfMatch DEF Present, Year
  <2>4. y < report.year + 1 \/ (y = report.year + 1 /\ i < 1)
    BY <1>1, <2>1 DEF Seen
  <2>5. y < report.year + 1 /\ report.year \in Int
    BY <2>3, <2>4 DEF TypeOK, IsSequence
  <2>6. CASE y < report.year
    BY <1>0, <2>2, <2>6 DEF MissingWasOverruled, Seen
  <2>7. CASE y = report.year
    <3>1. report.next \notin 1 .. Len(File(y)) /\ report.next \in Nat \ {0}
      BY <1>1, <2>3, <2>7 DEF TypeOK, IsSequence
    <3>2. i < report.next
      BY <2>3, <3>1 DEF IsSequence
    <3>3. QED
      BY <1>0, <2>2, <2>7, <3>2 DEF MissingWasOverruled, Seen
  <2>8. QED
    BY <2>3, <2>5, <2>6, <2>7
<1>5. QED
  BY <1>3, <1>4

LEMMA ExactStep == IInv /\ ExactInv /\ [Next]_vars => ExactInv'
<1> SUFFICES ASSUME IInv, ExactInv, [Next]_vars PROVE ExactInv'
  OBVIOUS
<1> USE DEF Files, Same, Quiet, choice
<1>0. TypeOK /\ TypeOK' /\ Chosen /\ Founded /\ MissingWasOverruled /\ Idle /\ job \in JobState
  BY TypeStep DEF IInv, ExactInv, TypeOK
<1>a. Chosen' /\ UNCHANGED <<feeds, manifest>>
  <2>1. UNCHANGED <<feeds, manifest>>
    BY DEF Next, Progress, vars, Start, Die, AskNothingNew, AskError, AskNew, Body, WriteEtag,
           CloseData, JudgeMatch, NextFile, Report, ReportFails, Publish
  <2>2. QED
    BY <1>0, <2>1 DEF Chosen
<1>b. ASSUME report' = NewReport PROVE ExactInv'
  <2>1. (report = NewReport)'
    BY <1>b DEF NewReport
  <2>2. Founded' /\ MissingWasOverruled'
    BY <1>0, <1>a, <2>1, ExactFromTheStart, PTL
  <2>3. QED
    BY <1>a, <2>2 DEF ExactInv
<1>c. ASSUME UNCHANGED <<data, report>> PROVE ExactInv'
  BY <1>0, <1>a, <1>c, ExactUnchanged DEF ExactInv
<1>d. ASSUME job.pc \notin {"report", "done"}, UNCHANGED report PROVE ExactInv'
  BY <1>0, <1>b, <1>d DEF Idle
<1>1. CASE Start
  BY <1>1, <1>b DEF Start
<1>2. CASE Die
  BY <1>2, <1>b DEF Die
<1>3. CASE AskNothingNew \/ AskError \/ AskNew \/ Body \/ WriteEtag \/ CloseData
  BY <1>3, <1>d DEF AskNothingNew, AskError, AskNew, Body, WriteEtag, CloseData
<1>4. CASE JudgeMatch
  BY <1>0, <1>4, <1>a, JudgeStep DEF ExactInv
<1>5. CASE NextFile
  BY <1>0, <1>5, <1>a, NextFileStep DEF ExactInv
<1>6. CASE Report
  BY <1>6, <1>c DEF Report
<1>7. CASE ReportFails
  BY <1>7, <1>b DEF ReportFails
<1>8. ASSUME NEW y \in Year, Publish(y) PROVE ExactInv'
  BY <1>8, <1>c DEF Publish
<1>9. CASE UNCHANGED vars
  BY <1>9, <1>c DEF vars
<1>10. QED
  BY <1>1, <1>2, <1>3, <1>4, <1>5, <1>6, <1>7, <1>8, <1>9 DEF Next, Progress

LEMMA ExactInvariance == Spec => [](IInv /\ ExactInv)
<1>1. Init => IInv /\ ExactInv
  <2>1. ASSUME Init PROVE Founded /\ MissingWasOverruled /\ Chosen
    BY <2>1, InitIInv, ExactFromTheStart DEF Init, IInv, Chosen
  <2>2. QED
    BY <2>1, InitIInv DEF ExactInv
<1>2. IInv /\ ExactInv /\ [Next]_vars => (IInv /\ ExactInv)'
  BY ExactStep, IInvStep DEF IInv
<1>3. QED
  BY <1>1, <1>2, PTL DEF Spec

(* A job that succeeds has reported the manifest's vulnerabilities: every  *)
(* entry is founded on a match, and what a match affects and the report    *)
(* misses was overruled by a later match of the CVE (lines 109-147).       *)
THEOREM Exact == Spec => []ReportIsExact
<1>1. IInv /\ ExactInv => ReportIsExact
  <2>1. SUFFICES ASSUME IInv, ExactInv, job.pc = "done"
                 PROVE  ReportIsSound /\ MissedOnlyWhereOverruled
    BY DEF ReportIsExact, ReportIsSound, MissedOnlyWhereOverruled
  <2>2. ReportIsSound
    BY <2>1 DEF ExactInv, Founded, FoundedOn, ReportIsSound
  <2>3. ASSUME NEW y \in Present, NEW i \in DOMAIN File(y) PROVE Seen(y, i)
    BY <2>1, <2>3 DEF IInv, TypeOK, ReadAll, Present, Year, Seen
  <2>4. MissedOnlyWhereOverruled
    <3>1. SUFFICES ASSUME NEW y \in Present, NEW i \in DOMAIN File(y), Missing(y, i)
                   PROVE  Overruled(y, i)
      BY DEF MissedOnlyWhereOverruled, Missing, Overruled, OverruledIn
    <3>2. QED
      BY <2>1, <2>3, <3>1 DEF ExactInv, MissingWasOverruled
  <2>5. QED
    BY <2>2, <2>4
<1>2. QED
  BY ExactInvariance, <1>1, PTL
=============================================================================
