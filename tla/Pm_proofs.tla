----------------------------- MODULE Pm_proofs -----------------------------
(***************************************************************************)
(* Performance management, for any number of jobs, thresholds, reports,     *)
(* request threads and conductor threads and any values.  A PM job loses    *)
(* nothing, and its reports come a period apart.  No request on a threshold *)
(* and no stored value undoes another, and a crossing that is notified is   *)
(* one.                                                                     *)
(***************************************************************************)
EXTENDS PmJob, PmThreshold, TLAPS

(* PM jobs.                                                                *)

JobCast == [id : Reports, job : Jobs, time : 0..MaxTime]
RequestCall == [pc : {"create", "delete", "drop"}, job : Jobs]
UpdateCall == [pc : {"patch"}, job : Jobs, row : JobRow]
ReadCall == [pc : {"read"}, rep : JobCast]
WriteCall == [pc : {"write"}, rep : JobCast, row : JobRow]

\* Rows, threads and casts have the fields the code reads.
JobTypes ==
    /\ job \in [DOMAIN job -> JobRow] /\ DOMAIN job \subseteq Jobs
    /\ report \in [DOMAIN report -> [job : Jobs, time : 0..MaxTime]]
    /\ DOMAIN rules = Jobs
    /\ uri \in [Jobs -> 0..MaxUri]
    /\ jobClient \in [JobClients -> {Free} \cup RequestCall \cup UpdateCall]
    /\ jobWorker \in [JobWorkers -> {Free} \cup ReadCall \cup WriteCall]
    /\ jobCasts \subseteq JobCast
    /\ clock \in 0..MaxTime

\* A report has an identifier of its own, given out with its cast.
ReportIds ==
    /\ DOMAIN report \subseteq used
    /\ \A c \in jobCasts : c.id \in used /\ c.id \notin DOMAIN report
    /\ \A c, d \in jobCasts : c.id = d.id => c = d

\* A job that is not hasty has one cast at most, and that cast comes a period
\* after the reports that are stored.
CastsApart ==
    \A c \in jobCasts : c.job \notin hasty =>
        /\ \A d \in jobCasts : d.job = c.job => d = c
        /\ \A r \in ReportsOf(c.job) : report[r].time + Period < c.time

\* Threads that work on job j.
AtJob(u, j) == jobClient[u].pc # "idle" /\ jobClient[u].job = j
DoingJob(w, j) == jobWorker[w].pc # "idle" /\ jobWorker[w].rep.job = j

\* Nothing in the system belongs to job j yet, but for the thread that creates it.
BlankJob(j) ==
    /\ j \notin DOMAIN job \cup gone \cup asked /\ uri[j] = 0
    /\ ReportsOf(j) = {} /\ \A c \in jobCasts : c.job # j
    /\ \A w \in JobWorkers : ~DoingJob(w, j)
    /\ \A u \in JobClients : AtJob(u, j) => jobClient[u].pc = "create"

\* A job whose row was never written from two sides at a time: what the row
\* lacks is in the hands of the one thread that works on it.
CleanJob(j) ==
    /\ j \in gone => j \notin DOMAIN job
    /\ \A w, v \in JobWorkers : DoingJob(w, j) /\ DoingJob(v, j) => w = v
    /\ \A w \in JobWorkers, u \in JobClients : ~(DoingJob(w, j) /\ AtJob(u, j))
    /\ j \in DOMAIN job =>
          /\ j \notin asked => rules[j] = Hosts
          /\ job[j].callbackUri = uri[j]
          /\ (\A w \in JobWorkers : ~DoingJob(w, j)) /\ (\A u \in JobClients : AtJob(u, j) => jobClient[u].pc = "patch")
                => job[j].reports = ReportsOf(j)
          /\ \A w \in JobWorkers : DoingJob(w, j) /\ jobWorker[w].pc = "read" =>
                ReportsOf(j) = job[j].reports \cup {jobWorker[w].rep.id}
          /\ \A u \in JobClients : AtJob(u, j) /\ jobClient[u].pc = "patch" =>
                jobClient[u].row.reports = ReportsOf(j)
    /\ \A w \in JobWorkers : DoingJob(w, j) /\ jobWorker[w].pc = "write" =>
          /\ j \in DOMAIN job
          /\ jobWorker[w].row.reports = ReportsOf(j) /\ jobWorker[w].row.callbackUri = uri[j]

JobOk(j) ==
    /\ (j \notin used \/ \E u \in JobClients : AtJob(u, j) /\ jobClient[u].pc = "create") => BlankJob(j)
    /\ \A u \in JobClients : AtJob(u, j) =>
          /\ j \in used
          /\ \A v \in JobClients : AtJob(v, j) => v = u
          /\ IF jobClient[u].pc = "create" THEN rules[j] = Hosts ELSE j \in DOMAIN job
    /\ j \notin jobRaced => CleanJob(j)

JobInv == JobTypes /\ ReportIds /\ CastsApart /\ OneReportPerPeriod /\ \A j \in Jobs : JobOk(j)

\* A row of a job is written: the others stay.
LEMMA JobPut ==
    ASSUME JobTypes, NEW k \in Jobs, NEW row \in JobRow, job' = Put(job, k, row)
    PROVE  /\ job' \in [DOMAIN job' -> JobRow] /\ DOMAIN job' \subseteq Jobs
           /\ DOMAIN job' = DOMAIN job \cup {k} /\ job'[k] = row
           /\ \A x \in DOMAIN job : x # k => job'[x] = job[x]
BY DEF JobTypes, Put

\* A job's row is deleted: the others stay.
LEMMA JobDropped ==
    ASSUME JobTypes, NEW k, job' = Without(job, {k})
    PROVE  /\ job' \in [DOMAIN job' -> JobRow] /\ DOMAIN job' \subseteq Jobs
           /\ DOMAIN job' = DOMAIN job \ {k}
           /\ \A x \in DOMAIN job' : job'[x] = job[x]
BY DEF JobTypes, Without

\* A report is stored: the others stay.
LEMMA ReportPut ==
    ASSUME JobTypes, NEW k, NEW row \in [job : Jobs, time : 0..MaxTime], report' = Put(report, k, row)
    PROVE  /\ report' \in [DOMAIN report' -> [job : Jobs, time : 0..MaxTime]]
           /\ DOMAIN report' = DOMAIN report \cup {k} /\ report'[k] = row
           /\ \A x \in DOMAIN report : x # k => report'[x] = report[x]
BY DEF JobTypes, Put

\* Reports are deleted: the others stay.
LEMMA ReportsDropped ==
    ASSUME JobTypes, NEW K, report' = Without(report, K)
    PROVE  /\ report' \in [DOMAIN report' -> [job : Jobs, time : 0..MaxTime]]
           /\ DOMAIN report' = DOMAIN report \ K
           /\ \A x \in DOMAIN report' : report'[x] = report[x]
BY DEF JobTypes, Without

\* The outcomes of an upload: a complete one leaves the file on every host.
LEMMA Uploads == \A o \in UploadOutcomes : o.ok => o.files = Hosts
<1> SUFFICES ASSUME NEW link \in Links, NEW rejected \in SUBSET Hosts, NEW link2 \in Links,
                    upload_rules(link, rejected, link2).ok
             PROVE  upload_rules(link, rejected, link2).files = Hosts
  BY DEF UploadOutcomes
<1> DEFINE bad == {h \in Hosts : link[h] # "up" \/ h \in rejected}
           k == FirstBad(bad)
           put == Before(k) \cup (IF k <= Len(RuleHosts) /\ link[RuleHosts[k]] = "up"
                                  THEN {RuleHosts[k]} ELSE {})
           left == delete_rules(put, link2).files
<1>1. upload_rules(link, rejected, link2) =
         IF bad = {} THEN [ok |-> TRUE, files |-> Hosts] ELSE [ok |-> FALSE, files |-> left]
  BY DEF upload_rules
<1> HIDE DEF bad, left
<1> QED BY <1>1

\* The fields of a thread's call, from its step.
LEMMA JobCalls ==
    ASSUME JobTypes
    PROVE  /\ \A u \in JobClients :
                 /\ jobClient[u].pc \in {"idle", "create", "patch", "delete", "drop"}
                 /\ jobClient[u].pc # "idle" => jobClient[u].job \in Jobs
                 /\ jobClient[u].pc \in {"create", "delete", "drop"} => jobClient[u] \in RequestCall
                 /\ jobClient[u].pc = "patch" => jobClient[u].row \in JobRow
           /\ \A w \in JobWorkers :
                 /\ jobWorker[w].pc \in {"idle", "read", "write"}
                 /\ jobWorker[w].pc # "idle" => jobWorker[w].rep \in JobCast /\ jobWorker[w].rep.job \in Jobs
                 /\ jobWorker[w].pc = "write" => jobWorker[w].row \in JobRow
BY DEF JobTypes, Free, RequestCall, UpdateCall, ReadCall, WriteCall, JobCast

\* A step of one request thread.
LEMMA JobClientMoves ==
    ASSUME JobTypes, NEW u \in JobClients, NEW c \in {Free} \cup RequestCall \cup UpdateCall,
           jobClient' = [jobClient EXCEPT ![u] = c]
    PROVE  /\ jobClient' \in [JobClients -> {Free} \cup RequestCall \cup UpdateCall]
           /\ jobClient'[u] = c
           /\ \A v \in JobClients : v # u => jobClient'[v] = jobClient[v]
BY DEF JobTypes

\* A step of one thread of the conductor.
LEMMA JobWorkerMoves ==
    ASSUME JobTypes, NEW w \in JobWorkers, NEW c \in {Free} \cup ReadCall \cup WriteCall,
           jobWorker' = [jobWorker EXCEPT ![w] = c]
    PROVE  /\ jobWorker' \in [JobWorkers -> {Free} \cup ReadCall \cup WriteCall]
           /\ jobWorker'[w] = c
           /\ \A v \in JobWorkers : v # w => jobWorker'[v] = jobWorker[v]
BY DEF JobTypes

----------------------------------------------------------------------------
(* Types and reports.                                                      *)

\* The requests keep the types.
LEMMA JobTypesRequests ==
    ASSUME JobTypes, NEW u \in JobClients,
           \/ \E j \in Jobs : create(u, j) \/ update(u, j) \/ delete(u, j)
           \/ create_row(u) \/ update_row(u) \/ delete_reports(u) \/ delete_row(u)
    PROVE  JobTypes'
<1> DEFINE Moved == \E c \in {Free} \cup RequestCall \cup UpdateCall : jobClient' = [jobClient EXCEPT ![u] = c]
           RowsKept == UNCHANGED <<job, report, uri>>
<1>1. ASSUME NEW j \in Jobs, create(u, j)
      PROVE  Moved /\ RowsKept /\ DOMAIN rules' = DOMAIN rules
  <2>1. [pc |-> "create", job |-> j] \in RequestCall
    BY DEF RequestCall
  <2> QED BY <1>1, <2>1 DEF create
<1>2. ASSUME NEW j \in Jobs, delete(u, j)
      PROVE  Moved /\ RowsKept /\ DOMAIN rules' = DOMAIN rules
  <2>1. [pc |-> "delete", job |-> j] \in RequestCall
    BY DEF RequestCall
  <2> QED BY <1>2, <2>1 DEF delete
<1>3. ASSUME NEW j \in Jobs, update(u, j)
      PROVE  Moved /\ RowsKept /\ UNCHANGED rules
  <2>1. [job[j] EXCEPT !.callbackUri = uri[j] + 1] \in JobRow
    BY <1>3, PmJobAssumption DEF JobTypes, JobRow, update
  <2>2. [pc |-> "patch", job |-> j, row |-> [job[j] EXCEPT !.callbackUri = uri[j] + 1]] \in UpdateCall
    BY <2>1 DEF UpdateCall
  <2> QED BY <1>3, <2>2 DEF update
<1>4. CASE create_row(u)
  <2>1. [reports |-> {}, callbackUri |-> 0] \in JobRow /\ jobClient[u].job \in Jobs
    BY <1>4, JobCalls, PmJobAssumption DEF JobRow, create_row
  <2>2. job' = Put(job, jobClient[u].job, [reports |-> {}, callbackUri |-> 0])
    BY <1>4 DEF create_row
  <2>3. job' \in [DOMAIN job' -> JobRow] /\ DOMAIN job' \subseteq Jobs
    BY <2>1, <2>2, JobPut
  <2>4. Moved /\ UNCHANGED <<report, rules, uri, jobWorker, jobCasts, clock>>
    BY <1>4 DEF create_row
  <2> QED BY <2>3, <2>4, JobClientMoves DEF JobTypes
<1>5. CASE update_row(u)
  <2>1. jobClient[u].row \in JobRow /\ jobClient[u].job \in Jobs
    BY <1>5, JobCalls DEF update_row
  <2>2. job' = Put(job, jobClient[u].job, jobClient[u].row)
    BY <1>5 DEF update_row
  <2>3. job' \in [DOMAIN job' -> JobRow] /\ DOMAIN job' \subseteq Jobs
    BY <2>1, <2>2, JobPut
  <2>4. Moved /\ UNCHANGED <<report, rules, jobWorker, jobCasts, clock>>
    BY <1>5 DEF update_row
  <2>5. uri' \in [Jobs -> 0..MaxUri]
    BY <1>5, <2>1 DEF update_row, JobTypes, JobRow
  <2> QED BY <2>3, <2>4, <2>5, JobClientMoves DEF JobTypes
<1>6. CASE delete_reports(u)
  <2>1. report' \in [DOMAIN report' -> [job : Jobs, time : 0..MaxTime]]
    BY <1>6, ReportsDropped DEF delete_reports
  <2>2. [jobClient[u] EXCEPT !.pc = "drop"] \in RequestCall
    BY <1>6, JobCalls DEF delete_reports, RequestCall
  <2>3. Moved /\ UNCHANGED <<job, rules, uri, jobWorker, jobCasts, clock>>
    BY <1>6, <2>2 DEF delete_reports
  <2> QED BY <2>1, <2>3, JobClientMoves DEF JobTypes
<1>7. CASE delete_row(u)
  <2>1. job' \in [DOMAIN job' -> JobRow] /\ DOMAIN job' \subseteq Jobs
    BY <1>7, JobDropped DEF delete_row
  <2>2. Moved /\ UNCHANGED <<report, rules, uri, jobWorker, jobCasts, clock>>
    BY <1>7 DEF delete_row
  <2> QED BY <2>1, <2>2, JobClientMoves DEF JobTypes
<1>8. ASSUME NEW j \in Jobs, create(u, j) \/ update(u, j) \/ delete(u, j) PROVE JobTypes'
  <2>1. Moved /\ RowsKept /\ DOMAIN rules' = DOMAIN rules
    BY <1>1, <1>2, <1>3, <1>8
  <2>2. UNCHANGED <<jobWorker, jobCasts, clock>>
    BY <1>8 DEF create, update, delete
  <2> QED BY <2>1, <2>2, JobClientMoves DEF JobTypes
<1> QED BY <1>4, <1>5, <1>6, <1>7, <1>8

\* Alerts, the clock and the conductor keep the types.
LEMMA JobTypesStores ==
    ASSUME JobTypes,
           \/ \E j \in Jobs : pm_alert(j)
           \/ \E w \in JobWorkers, c \in jobCasts : _store_report(w, c)
           \/ \E w \in JobWorkers : update_report(w) \/ _update_job_reports(w)
           \/ Tick
    PROVE  JobTypes'
<1>1. ASSUME NEW j \in Jobs, pm_alert(j) PROVE JobTypes'
  <2>1. \A r \in Reports : [id |-> r, job |-> j, time |-> clock] \in JobCast
    BY DEF JobTypes, JobCast
  <2>2. jobCasts' \subseteq JobCast
    BY <1>1, <2>1 DEF pm_alert, JobTypes
  <2> QED BY <1>1, <2>2 DEF pm_alert, JobTypes
<1>2. ASSUME NEW w \in JobWorkers, NEW c \in jobCasts, _store_report(w, c) PROVE JobTypes'
  <2>1. c \in JobCast /\ [job |-> c.job, time |-> c.time] \in [job : Jobs, time : 0..MaxTime]
    BY DEF JobTypes, JobCast
  <2>2. [pc |-> "read", rep |-> c] \in ReadCall
    BY <2>1 DEF ReadCall
  <2>3. report' \in [DOMAIN report' -> [job : Jobs, time : 0..MaxTime]]
    BY <1>2, <2>1, ReportPut DEF _store_report
  <2>4. jobWorker' \in [JobWorkers -> {Free} \cup ReadCall \cup WriteCall]
    BY <1>2, <2>2, JobWorkerMoves DEF _store_report
  <2> QED BY <1>2, <2>3, <2>4 DEF _store_report, JobTypes
<1>3. ASSUME NEW w \in JobWorkers, update_report(w) PROVE JobTypes'
  <2> DEFINE c == jobWorker[w].rep
             row == [job[c.job] EXCEPT !.reports = @ \cup {c.id}]
  <2>1. c \in JobCast /\ c.id \in Reports
    BY <1>3, JobCalls DEF update_report, JobCast
  <2>2. c.job \in DOMAIN job => row \in JobRow
    BY <2>1 DEF JobTypes, JobRow
  <2> HIDE DEF row
  <2>3. c.job \in DOMAIN job => [pc |-> "write", rep |-> c, row |-> row] \in WriteCall
    BY <2>1, <2>2 DEF WriteCall
  <2>4. jobWorker' = [jobWorker EXCEPT ![w] = IF c.job \in DOMAIN job THEN [pc |-> "write", rep |-> c, row |-> row] ELSE Free]
    BY <1>3 DEF update_report, row
  <2>5. jobWorker' \in [JobWorkers -> {Free} \cup ReadCall \cup WriteCall]
    BY <2>3, <2>4, JobWorkerMoves
  <2> QED BY <1>3, <2>5 DEF update_report, JobTypes
<1>4. ASSUME NEW w \in JobWorkers, _update_job_reports(w) PROVE JobTypes'
  <2>1. jobWorker[w].row \in JobRow /\ jobWorker[w].rep.job \in Jobs
    BY <1>4, JobCalls DEF _update_job_reports
  <2>2. job' \in [DOMAIN job' -> JobRow] /\ DOMAIN job' \subseteq Jobs
    BY <1>4, <2>1, JobPut DEF _update_job_reports
  <2>3. jobWorker' \in [JobWorkers -> {Free} \cup ReadCall \cup WriteCall]
    BY <1>4, JobWorkerMoves DEF _update_job_reports
  <2> QED BY <1>4, <2>2, <2>3 DEF _update_job_reports, JobTypes
<1>5. CASE Tick
  BY <1>5, PmJobAssumption DEF Tick, JobTypes
<1> QED BY <1>1, <1>2, <1>3, <1>4, <1>5

\* Reports keep their identifiers and their distance in time.
LEMMA ReportsStep ==
    ASSUME JobTypes, ReportIds, CastsApart, OneReportPerPeriod, PmJobNext
    PROVE  ReportIds' /\ CastsApart' /\ OneReportPerPeriod'
<1> USE DEF ReportIds, CastsApart, OneReportPerPeriod
<1>1. CASE UNCHANGED <<report, jobCasts, hasty>> /\ used \subseteq used'
  BY <1>1 DEF ReportsOf
<1>2. ASSUME NEW u \in JobClients, delete_reports(u)
      PROVE  ReportIds' /\ CastsApart' /\ OneReportPerPeriod'
  <2>1. /\ DOMAIN report' \subseteq DOMAIN report
        /\ \A r \in DOMAIN report' : report'[r] = report[r]
    BY <1>2, ReportsDropped DEF delete_reports
  <2>2. UNCHANGED <<jobCasts, used, hasty>>
    BY <1>2 DEF delete_reports
  <2> QED BY <2>1, <2>2 DEF ReportsOf
<1>3. ASSUME NEW j \in Jobs, pm_alert(j)
      PROVE  ReportIds' /\ CastsApart' /\ OneReportPerPeriod'
  <2>1. PICK r \in Reports \ used : /\ used' = used \cup {r}
                                    /\ jobCasts' = jobCasts \cup {[id |-> r, job |-> j, time |-> clock]}
    BY <1>3 DEF pm_alert
  <2> DEFINE d == [id |-> r, job |-> j, time |-> clock]
  <2>2. d.id = r /\ d.job = j /\ d.time = clock
    OBVIOUS
  <2>3. /\ UNCHANGED report
        /\ \A q \in ReportsOf(j) : report[q].time + Period < clock
        /\ hasty \subseteq hasty'
        /\ j \notin hasty' => \A c \in jobCasts : c.job # j
    BY <1>3 DEF pm_alert, filter_alert_by_time
  <2> HIDE DEF d
  <2>4. jobCasts' = jobCasts \cup {d}
    BY <2>1 DEF d
  <2>5. ReportIds'
    BY <2>1, <2>2, <2>3, <2>4
  <2>6. CastsApart'
    BY <2>2, <2>3, <2>4 DEF ReportsOf
  <2> QED BY <2>3, <2>5, <2>6
<1>4. ASSUME NEW w \in JobWorkers, NEW c \in jobCasts, _store_report(w, c)
      PROVE  ReportIds' /\ CastsApart' /\ OneReportPerPeriod'
  <2>1. c \in JobCast
    BY DEF JobTypes
  <2>2. /\ DOMAIN report' = DOMAIN report \cup {c.id}
        /\ report'[c.id].job = c.job /\ report'[c.id].time = c.time
        /\ \A x \in DOMAIN report : x # c.id => report'[x] = report[x]
    BY <1>4 DEF _store_report, Put
  <2>3. jobCasts' = jobCasts \ {c} /\ UNCHANGED <<used, hasty>>
    BY <1>4 DEF _store_report
  <2>4. c.id \in used /\ c.id \notin DOMAIN report
    OBVIOUS
  <2>5. ReportIds'
    BY <2>2, <2>3, <2>4
  <2>6. CastsApart'
    BY <2>2, <2>3, <2>4 DEF ReportsOf
  <2>7. OneReportPerPeriod'
    <3> SUFFICES ASSUME NEW r \in DOMAIN report', NEW q \in DOMAIN report', r # q,
                        report'[r].job = report'[q].job, report'[r].job \notin hasty
                 PROVE  report'[r].time + Period < report'[q].time \/ report'[q].time + Period < report'[r].time
      BY <2>3
    <3>1. CASE r # c.id /\ q # c.id
      BY <2>2, <3>1
    <3>2. CASE r = c.id
      BY <2>2, <2>4, <3>2 DEF ReportsOf
    <3>3. CASE q = c.id
      BY <2>2, <2>4, <3>3 DEF ReportsOf
    <3> QED BY <3>1, <3>2, <3>3
  <2> QED BY <2>5, <2>6, <2>7
<1> QED
  <2>1. ASSUME NEW u \in JobClients, NEW j \in Jobs, create(u, j) \/ update(u, j) \/ delete(u, j)
        PROVE  UNCHANGED <<report, jobCasts, hasty>> /\ used \subseteq used'
    BY <2>1 DEF create, update, delete
  <2>2. ASSUME NEW u \in JobClients, create_row(u) \/ update_row(u) \/ delete_row(u)
        PROVE  UNCHANGED <<report, jobCasts, hasty>> /\ used \subseteq used'
    BY <2>2 DEF create_row, update_row, delete_row
  <2>3. ASSUME NEW w \in JobWorkers, update_report(w) \/ _update_job_reports(w)
        PROVE  UNCHANGED <<report, jobCasts, hasty>> /\ used \subseteq used'
    BY <2>3 DEF update_report, _update_job_reports
  <2>4. CASE Tick
    BY <1>1, <2>4 DEF Tick
  <2> QED BY <1>1, <1>2, <1>3, <1>4, <2>1, <2>2, <2>3, <2>4 DEF PmJobNext

----------------------------------------------------------------------------
(* Jobs.                                                                   *)

\* A step on another job: what the system holds of job j is the same.
SameJob(j) ==
    /\ j \in DOMAIN job' <=> j \in DOMAIN job
    /\ j \in DOMAIN job => job'[j] = job[j]
    /\ ReportsOf(j)' = ReportsOf(j)
    /\ uri'[j] = uri[j] /\ rules'[j] = rules[j]
    /\ j \in gone' <=> j \in gone
    /\ j \in asked' <=> j \in asked
    /\ j \in jobRaced => j \in jobRaced'
    /\ j \in used => j \in used'
    /\ \A c \in jobCasts' : c.job = j => c \in jobCasts
    /\ \A u \in JobClients : /\ AtJob(u, j)' <=> AtJob(u, j)
                             /\ AtJob(u, j) => jobClient'[u] = jobClient[u]
    /\ \A w \in JobWorkers : /\ DoingJob(w, j)' <=> DoingJob(w, j)
                             /\ DoingJob(w, j) => jobWorker'[w] = jobWorker[w]

\* Such a step keeps the invariant of job j.
LEMMA SameJobOk ==
    ASSUME NEW j \in Jobs, JobOk(j), SameJob(j)
    PROVE  JobOk(j)'
<1> USE DEF SameJob
<1>1. BlankJob(j) => BlankJob(j)'
  BY DEF BlankJob
<1>2. j \notin jobRaced' => CleanJob(j)'
  <2> SUFFICES ASSUME j \notin jobRaced, CleanJob(j) PROVE CleanJob(j)'
    BY DEF JobOk
  <2> QED BY DEF CleanJob
<1> QED BY <1>1, <1>2 DEF JobOk

\* Of the requests, only thread u moves, on job k.
OnlyClient(u, k) ==
    /\ \A v \in JobClients : v # u => jobClient'[v] = jobClient[v] /\ (AtJob(v, k)' <=> AtJob(v, k))
    /\ \A j \in Jobs, v \in JobClients : j # k => /\ AtJob(v, j)' <=> AtJob(v, j)
                                                  /\ AtJob(v, j) => jobClient'[v] = jobClient[v]

\* Of the casts, only thread w moves, on job k.
OnlyWorker(w, k) ==
    /\ \A v \in JobWorkers : v # w => jobWorker'[v] = jobWorker[v] /\ (DoingJob(v, k)' <=> DoingJob(v, k))
    /\ \A j \in Jobs, v \in JobWorkers : j # k => /\ DoingJob(v, j)' <=> DoingJob(v, j)
                                                  /\ DoingJob(v, j) => jobWorker'[v] = jobWorker[v]

\* The threads on each job after a step of a request on job k.
LEMMA JobClientStep ==
    ASSUME JobTypes, NEW u \in JobClients, NEW c \in {Free} \cup RequestCall \cup UpdateCall,
           jobClient' = [jobClient EXCEPT ![u] = c], NEW k \in Jobs,
           jobClient[u].pc = "idle" \/ jobClient[u].job = k,
           c.pc = "idle" \/ c.job = k
    PROVE  /\ jobClient'[u] = c
           /\ AtJob(u, k)' <=> c.pc # "idle"
           /\ OnlyClient(u, k)
<1>1. jobClient'[u] = c /\ \A v \in JobClients : v # u => jobClient'[v] = jobClient[v]
  BY JobClientMoves
<1> QED BY <1>1 DEF AtJob, OnlyClient

\* The threads on each job after the end of a request on job k.
LEMMA JobClientEnd ==
    ASSUME JobTypes, NEW u \in JobClients, jobClient' = [jobClient EXCEPT ![u] = Free],
           NEW k \in Jobs, jobClient[u].job = k
    PROVE  /\ ~AtJob(u, k)'
           /\ OnlyClient(u, k)
<1>1. jobClient'[u].pc = "idle" /\ \A v \in JobClients : v # u => jobClient'[v] = jobClient[v]
  BY JobClientMoves DEF Free
<1> QED BY <1>1 DEF AtJob, OnlyClient

\* The threads on each job after a step of the conductor on job k.
LEMMA JobWorkerStep ==
    ASSUME JobTypes, NEW w \in JobWorkers, NEW c \in {Free} \cup ReadCall \cup WriteCall,
           jobWorker' = [jobWorker EXCEPT ![w] = c], NEW k \in Jobs,
           jobWorker[w].pc = "idle" \/ jobWorker[w].rep.job = k,
           c.pc = "idle" \/ c.rep.job = k
    PROVE  /\ jobWorker'[w] = c
           /\ DoingJob(w, k)' <=> c.pc # "idle"
           /\ OnlyWorker(w, k)
<1>1. jobWorker'[w] = c /\ \A v \in JobWorkers : v # w => jobWorker'[v] = jobWorker[v]
  BY JobWorkerMoves
<1> QED BY <1>1 DEF DoingJob, OnlyWorker

\* The threads on each job after the end of a cast on job k.
LEMMA JobWorkerEnd ==
    ASSUME JobTypes, NEW w \in JobWorkers, jobWorker' = [jobWorker EXCEPT ![w] = Free],
           NEW k \in Jobs, jobWorker[w].rep.job = k
    PROVE  /\ ~DoingJob(w, k)'
           /\ OnlyWorker(w, k)
<1>1. jobWorker'[w].pc = "idle" /\ \A v \in JobWorkers : v # w => jobWorker'[v] = jobWorker[v]
  BY JobWorkerMoves DEF Free
<1> QED BY <1>1 DEF DoingJob, OnlyWorker

\* What a step leaves alone, job by job.
LEMMA JobFrames ==
    /\ UNCHANGED jobClient => \A u \in JobClients, j \in Jobs : AtJob(u, j)' <=> AtJob(u, j)
    /\ UNCHANGED jobWorker => \A w \in JobWorkers, j \in Jobs : DoingJob(w, j)' <=> DoingJob(w, j)
    /\ UNCHANGED report => \A j \in Jobs : ReportsOf(j)' = ReportsOf(j)
BY DEF AtJob, DoingJob, ReportsOf

\* POST: a job that nobody knows gets its rules.
LEMMA CreateJobStep ==
    ASSUME JobInv, NEW u \in JobClients, NEW k \in Jobs, create(u, k)
    PROVE  \A j \in Jobs : JobOk(j)'
<1>1. PICK o \in UploadOutcomes :
         /\ rules' = [rules EXCEPT ![k] = o.files]
         /\ jobClient' = [jobClient EXCEPT ![u] = IF o.ok THEN [pc |-> "create", job |-> k] ELSE Free]
  BY DEF create
<1>2. PICK c \in {Free} \cup RequestCall \cup UpdateCall :
         /\ jobClient' = [jobClient EXCEPT ![u] = c]
         /\ c.pc = "idle" \/ (c.pc = "create" /\ c.job = k /\ rules'[k] = Hosts)
  <2>1. [pc |-> "create", job |-> k] \in RequestCall
    BY DEF RequestCall
  <2>2. rules'[k] = o.files
    BY <1>1 DEF JobInv, JobTypes
  <2>3. CASE o.ok
    <3>1. jobClient' = [jobClient EXCEPT ![u] = [pc |-> "create", job |-> k]] /\ rules'[k] = Hosts
      BY <1>1, <2>2, <2>3, Uploads
    <3>2. [pc |-> "create", job |-> k] \in {Free} \cup RequestCall \cup UpdateCall
      BY <2>1
    <3> WITNESS [pc |-> "create", job |-> k] \in {Free} \cup RequestCall \cup UpdateCall
    <3> QED BY <3>1
  <2>4. CASE ~o.ok
    <3>1. jobClient' = [jobClient EXCEPT ![u] = Free] /\ Free.pc = "idle"
      BY <1>1, <2>4 DEF Free
    <3> WITNESS Free \in {Free} \cup RequestCall \cup UpdateCall
    <3> QED BY <3>1
  <2> QED BY <2>3, <2>4
<1>3. /\ k \notin used /\ used' = used \cup {k} /\ jobClient[u].pc = "idle"
      /\ UNCHANGED <<job, report, jobWorker, jobCasts, uri, gone, asked, jobRaced>>
  BY DEF create
<1>4. /\ jobClient'[u] = c
      /\ AtJob(u, k)' <=> c.pc # "idle"
      /\ OnlyClient(u, k)
  <2>1. JobTypes /\ (jobClient[u].pc = "idle" \/ jobClient[u].job = k) /\ (c.pc = "idle" \/ c.job = k)
    BY <1>2, <1>3 DEF JobInv
  <2> QED BY <1>2, <2>1, JobClientStep
<1>5. \A j \in Jobs : j # k => rules'[j] = rules[j]
  BY <1>1 DEF JobInv, JobTypes
<1>6. ASSUME NEW j \in Jobs, j # k PROVE JobOk(j)'
  <2>1. SameJob(j)
    BY <1>3, <1>4, <1>5, <1>6, JobFrames DEF SameJob, OnlyClient
  <2> QED BY <2>1, SameJobOk DEF JobInv
<1>7. JobOk(k)'
  <2>1. JobOk(k) /\ BlankJob(k) /\ \A v \in JobClients : ~AtJob(v, k)
    BY <1>3 DEF JobInv, JobOk
  <2>2. \A v \in JobClients : AtJob(v, k)' => v = u /\ jobClient'[v].pc = "create" /\ rules'[k] = Hosts
    BY <1>2, <1>4, <2>1 DEF OnlyClient
  <2>3. BlankJob(k)'
    BY <1>3, <2>1, <2>2, JobFrames DEF BlankJob
  <2>4. CleanJob(k)'
    BY <2>3 DEF BlankJob, CleanJob
  <2> QED BY <1>3, <2>2, <2>3, <2>4 DEF JobOk, BlankJob
<1> QED BY <1>6, <1>7

\* POST: the row of a job that nothing belongs to.
LEMMA CreateJobRowStep ==
    ASSUME JobInv, NEW u \in JobClients, create_row(u)
    PROVE  \A j \in Jobs : JobOk(j)'
<1>1. PICK k \in Jobs : k = jobClient[u].job
  BY JobCalls DEF JobInv, create_row
<1>2. PICK row \in JobRow : row.reports = {} /\ row.callbackUri = 0 /\ job' = Put(job, k, row)
  <2>1. [reports |-> {}, callbackUri |-> 0] \in JobRow
    BY PmJobAssumption DEF JobRow
  <2> QED BY <1>1, <2>1 DEF create_row
<1>3. DOMAIN job' = DOMAIN job \cup {k} /\ job'[k] = row /\ \A x \in DOMAIN job : x # k => job'[x] = job[x]
  BY <1>2, JobPut DEF JobInv
<1>4. /\ AtJob(u, k) /\ jobClient[u].pc = "create" /\ jobClient' = [jobClient EXCEPT ![u] = Free] /\ Free.pc = "idle"
      /\ UNCHANGED <<report, rules, jobWorker, jobCasts, used, uri, gone, asked, jobRaced>>
  BY <1>1 DEF create_row, AtJob, Free
<1>5. /\ ~AtJob(u, k)'
      /\ OnlyClient(u, k)
  <2>1. JobTypes
    BY DEF JobInv
  <2>2. jobClient[u].job = k
    BY <1>1
  <2>3. jobClient' = [jobClient EXCEPT ![u] = Free]
    BY <1>4
  <2> QED BY <2>1, <2>2, <2>3, JobClientEnd
<1>6. ASSUME NEW j \in Jobs, j # k PROVE JobOk(j)'
  <2>1. SameJob(j)
    BY <1>3, <1>4, <1>5, <1>6, JobFrames DEF SameJob, OnlyClient
  <2> QED BY <2>1, SameJobOk DEF JobInv
<1>7. JobOk(k)'
  <2>1. JobOk(k) /\ BlankJob(k) /\ k \in used /\ rules[k] = Hosts
    BY <1>4 DEF JobInv, JobOk
  <2>2. \A v \in JobClients : ~AtJob(v, k)'
    BY <1>4, <1>5, <2>1 DEF JobOk, OnlyClient
  <2>3. \A w \in JobWorkers : ~DoingJob(w, k)'
    BY <1>4, <2>1, JobFrames DEF BlankJob
  <2>4. CleanJob(k)'
    BY <1>2, <1>3, <1>4, <2>1, <2>2, <2>3, JobFrames DEF CleanJob, BlankJob
  <2> QED BY <1>4, <2>1, <2>2, <2>4 DEF JobOk
<1> QED BY <1>6, <1>7

\* PATCH: the lock is free, the row is read.
LEMMA UpdateStep ==
    ASSUME JobInv, NEW u \in JobClients, NEW k \in Jobs, update(u, k)
    PROVE  \A j \in Jobs : JobOk(j)'
<1>1. JobTypes /\ JobOk(k)
  BY DEF JobInv
<1>2. PICK c \in UpdateCall :
         /\ jobClient' = [jobClient EXCEPT ![u] = c]
         /\ c.pc = "patch" /\ c.job = k /\ c.row.reports = job[k].reports
  <2> DEFINE row == [job[k] EXCEPT !.callbackUri = uri[k] + 1]
  <2>1. row \in JobRow /\ row.reports = job[k].reports
    BY <1>1, PmJobAssumption DEF JobTypes, JobRow, update
  <2> HIDE DEF row
  <2>2. [pc |-> "patch", job |-> k, row |-> row] \in UpdateCall
    BY <2>1 DEF UpdateCall
  <2>3. jobClient' = [jobClient EXCEPT ![u] = [pc |-> "patch", job |-> k, row |-> row]]
    BY DEF update, row
  <2> WITNESS [pc |-> "patch", job |-> k, row |-> row] \in UpdateCall
  <2> QED BY <2>1, <2>3
<1>3. /\ k \in DOMAIN job /\ jobClient[u].pc = "idle" /\ LockFree(k)
      /\ jobRaced' = IF Storing(k) THEN jobRaced \cup {k} ELSE jobRaced
      /\ UNCHANGED <<job, report, rules, jobWorker, jobCasts, used, uri, gone, asked>>
  BY DEF update
<1>4. /\ jobClient'[u] = c
      /\ AtJob(u, k)' <=> c.pc # "idle"
      /\ OnlyClient(u, k)
  <2>1. (jobClient[u].pc = "idle" \/ jobClient[u].job = k) /\ (c.pc = "idle" \/ c.job = k)
    BY <1>2, <1>3
  <2> QED BY <1>1, <1>2, <2>1, JobClientStep
<1>5. ASSUME NEW j \in Jobs, j # k PROVE JobOk(j)'
  <2>1. SameJob(j)
    BY <1>3, <1>4, <1>5, JobFrames DEF SameJob, OnlyClient
  <2> QED BY <2>1, SameJobOk DEF JobInv
<1>6. JobOk(k)'
  <2>1. k \in used /\ \A v \in JobClients : ~AtJob(v, k)
    <3>1. ~BlankJob(k)
      BY <1>3 DEF BlankJob
    <3>2. \A v \in JobClients : AtJob(v, k) => jobClient[v].pc \in {"patch", "delete", "drop"}
      BY <1>1, <3>1, JobCalls DEF JobOk, AtJob
    <3> QED BY <1>1, <1>3, <3>1, <3>2 DEF JobOk, LockFree, AtJob
  <2>2. \A v \in JobClients : AtJob(v, k)' => v = u
    BY <1>4, <2>1 DEF OnlyClient
  <2>3. k \notin jobRaced' => CleanJob(k)'
    <3> SUFFICES ASSUME k \notin jobRaced' PROVE CleanJob(k)'
      OBVIOUS
    <3>1. CleanJob(k) /\ \A w \in JobWorkers : ~DoingJob(w, k)
      BY <1>1, <1>3 DEF JobOk, Storing, DoingJob
    <3>2. job[k].reports = ReportsOf(k)
      BY <1>3, <2>1, <3>1 DEF CleanJob
    <3>3. \A w \in JobWorkers : ~DoingJob(w, k)'
      BY <1>3, <3>1, JobFrames
    <3> QED BY <1>2, <1>3, <1>4, <2>2, <3>1, <3>2, <3>3, JobFrames DEF CleanJob
  <2> QED BY <1>1, <1>2, <1>3, <1>4, <2>1, <2>2, <2>3 DEF JobOk
<1> QED BY <1>5, <1>6

\* PATCH: the copy is written.
LEMMA UpdateRowStep ==
    ASSUME JobInv, NEW u \in JobClients, update_row(u)
    PROVE  \A j \in Jobs : JobOk(j)'
<1>1. PICK k \in Jobs : k = jobClient[u].job
  BY JobCalls DEF JobInv, update_row
<1>2. JobTypes /\ JobOk(k) /\ AtJob(u, k) /\ jobClient[u].pc = "patch" /\ jobClient[u].row \in JobRow
  BY <1>1, JobCalls DEF JobInv, update_row, AtJob
<1>3. /\ job' = Put(job, k, jobClient[u].row)
      /\ uri' = [uri EXCEPT ![k] = jobClient[u].row.callbackUri]
      /\ jobClient' = [jobClient EXCEPT ![u] = Free] /\ jobClient[u].job = k
      /\ UNCHANGED <<report, rules, jobWorker, jobCasts, used, gone, asked, jobRaced>>
  BY <1>1 DEF update_row
<1>4. /\ DOMAIN job' = DOMAIN job \cup {k} /\ job'[k] = jobClient[u].row
      /\ \A x \in DOMAIN job : x # k => job'[x] = job[x]
  BY <1>2, <1>3, JobPut
<1>5. ~AtJob(u, k)' /\ OnlyClient(u, k)
  BY <1>2, <1>3, JobClientEnd
<1>6. uri'[k] = jobClient[u].row.callbackUri /\ \A j \in Jobs : j # k => uri'[j] = uri[j]
  BY <1>2, <1>3 DEF JobTypes
<1>7. ASSUME NEW j \in Jobs, j # k PROVE JobOk(j)'
  <2>1. SameJob(j)
    BY <1>3, <1>4, <1>5, <1>6, <1>7, JobFrames DEF SameJob, OnlyClient
  <2> QED BY <2>1, SameJobOk DEF JobInv
<1>8. JobOk(k)'
  <2>1. k \in used /\ k \in DOMAIN job
    BY <1>2 DEF JobOk
  <2>2. \A v \in JobClients : ~AtJob(v, k)'
    BY <1>2, <1>5 DEF JobOk, OnlyClient
  <2>3. k \notin jobRaced' => CleanJob(k)'
    <3> SUFFICES ASSUME k \notin jobRaced PROVE CleanJob(k)'
      BY <1>3
    <3>1. CleanJob(k)
      BY <1>2 DEF JobOk
    <3>2. \A w \in JobWorkers : ~DoingJob(w, k)'
      BY <1>2, <1>3, <3>1, JobFrames DEF CleanJob
    <3>3. /\ jobClient[u].row.reports = ReportsOf(k)' /\ k \notin gone'
          /\ k \notin asked' => rules'[k] = Hosts
      BY <1>2, <1>3, <2>1, <3>1, JobFrames DEF CleanJob
    <3> QED BY <1>4, <1>6, <2>2, <3>2, <3>3 DEF CleanJob
  <2> QED BY <1>2, <1>3, <2>1, <2>2, <2>3 DEF JobOk
<1> QED BY <1>7, <1>8

\* DELETE: the lock is free; the rules are deleted, or some of them.
LEMMA DeleteJobStep ==
    ASSUME JobInv, NEW u \in JobClients, NEW k \in Jobs, delete(u, k)
    PROVE  \A j \in Jobs : JobOk(j)'
<1>1. JobTypes /\ JobOk(k)
  BY DEF JobInv
<1>2. PICK c \in {Free} \cup RequestCall \cup UpdateCall :
         /\ jobClient' = [jobClient EXCEPT ![u] = c]
         /\ c.pc = "idle" \/ (c.pc = "delete" /\ c.job = k)
  <2>1. [pc |-> "delete", job |-> k] \in {Free} \cup RequestCall \cup UpdateCall
    BY DEF RequestCall
  <2>2. \/ jobClient' = [jobClient EXCEPT ![u] = [pc |-> "delete", job |-> k]]
        \/ jobClient' = [jobClient EXCEPT ![u] = Free]
    BY DEF delete
  <2>3. CASE jobClient' = [jobClient EXCEPT ![u] = [pc |-> "delete", job |-> k]]
    <3> WITNESS [pc |-> "delete", job |-> k] \in {Free} \cup RequestCall \cup UpdateCall
    <3> QED BY <2>3
  <2>4. CASE jobClient' = [jobClient EXCEPT ![u] = Free]
    <3>1. Free.pc = "idle"
      BY DEF Free
    <3> WITNESS Free \in {Free} \cup RequestCall \cup UpdateCall
    <3> QED BY <2>4, <3>1
  <2> QED BY <2>2, <2>3, <2>4
<1>3. /\ k \in DOMAIN job /\ jobClient[u].pc = "idle" /\ LockFree(k)
      /\ jobRaced' = IF Storing(k) THEN jobRaced \cup {k} ELSE jobRaced
      /\ asked' = asked \cup {k}
      /\ UNCHANGED <<job, report, jobWorker, jobCasts, used, uri, gone>>
  BY DEF delete
<1>4. \A j \in Jobs : j # k => rules'[j] = rules[j]
  <2>1. PICK f : rules' = [rules EXCEPT ![k] = f]
    BY DEF delete
  <2> QED BY <1>1, <2>1 DEF JobTypes
<1>5. /\ jobClient'[u] = c
      /\ AtJob(u, k)' <=> c.pc # "idle"
      /\ OnlyClient(u, k)
  <2>1. (jobClient[u].pc = "idle" \/ jobClient[u].job = k) /\ (c.pc = "idle" \/ c.job = k)
    BY <1>2, <1>3
  <2> QED BY <1>1, <1>2, <2>1, JobClientStep
<1>6. ASSUME NEW j \in Jobs, j # k PROVE JobOk(j)'
  <2>1. SameJob(j)
    BY <1>3, <1>4, <1>5, <1>6, JobFrames DEF SameJob, OnlyClient
  <2> QED BY <2>1, SameJobOk DEF JobInv
<1>7. JobOk(k)'
  <2>1. k \in used /\ \A v \in JobClients : ~AtJob(v, k)
    <3>1. ~BlankJob(k)
      BY <1>3 DEF BlankJob
    <3>2. \A v \in JobClients : AtJob(v, k) => jobClient[v].pc \in {"patch", "delete", "drop"}
      BY <1>1, <3>1, JobCalls DEF JobOk, AtJob
    <3> QED BY <1>1, <1>3, <3>1, <3>2 DEF JobOk, LockFree, AtJob
  <2>2. \A v \in JobClients : AtJob(v, k)' => v = u /\ jobClient'[v].pc = "delete"
    BY <1>2, <1>5, <2>1 DEF OnlyClient
  <2>3. k \notin jobRaced' => CleanJob(k)'
    <3> SUFFICES ASSUME k \notin jobRaced' PROVE CleanJob(k)'
      OBVIOUS
    <3>1. CleanJob(k) /\ \A w \in JobWorkers : ~DoingJob(w, k)
      BY <1>1, <1>3 DEF JobOk, Storing, DoingJob
    <3>2. job[k].reports = ReportsOf(k)
      BY <1>3, <2>1, <3>1 DEF CleanJob
    <3>3. \A w \in JobWorkers : ~DoingJob(w, k)'
      BY <1>3, <3>1, JobFrames
    <3> QED BY <1>3, <2>2, <3>1, <3>2, <3>3, JobFrames DEF CleanJob
  <2> QED BY <1>3, <2>1, <2>2, <2>3 DEF JobOk
<1> QED BY <1>6, <1>7

\* DELETE: the reports of the job go, and no other.
LEMMA DeleteReportsStep ==
    ASSUME JobInv, NEW u \in JobClients, delete_reports(u)
    PROVE  \A j \in Jobs : JobOk(j)'
<1>1. PICK k \in Jobs : k = jobClient[u].job
  BY JobCalls DEF JobInv, delete_reports
<1>2. JobTypes /\ JobOk(k) /\ AtJob(u, k) /\ jobClient[u].pc = "delete"
  BY <1>1 DEF JobInv, delete_reports, AtJob
<1>3. /\ report' = Without(report, ReportsOf(k))
      /\ UNCHANGED <<job, rules, jobWorker, jobCasts, used, uri, gone, asked, jobRaced>>
  BY <1>1 DEF delete_reports
<1>4. PICK c \in {Free} \cup RequestCall \cup UpdateCall :
         /\ jobClient' = [jobClient EXCEPT ![u] = c]
         /\ c.pc = "drop" /\ c.job = k
  <2>1. jobClient[u] \in RequestCall
    BY <1>2, JobCalls
  <2>2. [jobClient[u] EXCEPT !.pc = "drop"] \in {Free} \cup RequestCall \cup UpdateCall
    BY <2>1 DEF RequestCall
  <2>3. [jobClient[u] EXCEPT !.pc = "drop"].pc = "drop" /\ [jobClient[u] EXCEPT !.pc = "drop"].job = k
    BY <1>1, <2>1 DEF RequestCall
  <2>4. jobClient' = [jobClient EXCEPT ![u] = [jobClient[u] EXCEPT !.pc = "drop"]]
    BY DEF delete_reports
  <2> WITNESS [jobClient[u] EXCEPT !.pc = "drop"] \in {Free} \cup RequestCall \cup UpdateCall
  <2> QED BY <2>3, <2>4
<1>5. /\ jobClient'[u] = c
      /\ AtJob(u, k)' <=> c.pc # "idle"
      /\ OnlyClient(u, k)
  <2>1. (jobClient[u].pc = "idle" \/ jobClient[u].job = k) /\ (c.pc = "idle" \/ c.job = k)
    BY <1>1, <1>4
  <2> QED BY <1>2, <1>4, <2>1, JobClientStep
<1>6. \A j \in Jobs : j # k => ReportsOf(j)' = ReportsOf(j)
  <2>1. /\ DOMAIN report' = DOMAIN report \ ReportsOf(k)
        /\ \A x \in DOMAIN report' : report'[x] = report[x]
    BY <1>2, <1>3, ReportsDropped
  <2> QED BY <2>1 DEF ReportsOf
<1>7. ASSUME NEW j \in Jobs, j # k PROVE JobOk(j)'
  <2>1. SameJob(j)
    BY <1>3, <1>5, <1>6, <1>7, JobFrames DEF SameJob, OnlyClient
  <2> QED BY <2>1, SameJobOk DEF JobInv
<1>8. JobOk(k)'
  <2>1. k \in used /\ k \in DOMAIN job
    BY <1>2 DEF JobOk
  <2>2. AtJob(u, k)' /\ \A v \in JobClients : AtJob(v, k)' => v = u /\ jobClient'[v].pc = "drop"
    BY <1>2, <1>4, <1>5 DEF JobOk, OnlyClient
  <2>3. k \notin jobRaced' => CleanJob(k)'
    <3> SUFFICES ASSUME k \notin jobRaced PROVE CleanJob(k)'
      BY <1>3
    <3>1. CleanJob(k)
      BY <1>2 DEF JobOk
    <3>2. \A w \in JobWorkers : ~DoingJob(w, k)'
      BY <1>2, <1>3, <3>1, JobFrames DEF CleanJob
    <3> QED BY <1>3, <2>2, <3>1, <3>2 DEF CleanJob
  <2> QED BY <1>2, <1>3, <2>1, <2>2, <2>3 DEF JobOk
<1> QED BY <1>7, <1>8

\* DELETE: the row goes.
LEMMA DeleteJobRowStep ==
    ASSUME JobInv, NEW u \in JobClients, delete_row(u)
    PROVE  \A j \in Jobs : JobOk(j)'
<1>1. PICK k \in Jobs : k = jobClient[u].job
  BY JobCalls DEF JobInv, delete_row
<1>2. JobTypes /\ JobOk(k) /\ AtJob(u, k) /\ jobClient[u].pc = "drop"
  BY <1>1 DEF JobInv, delete_row, AtJob
<1>3. /\ job' = Without(job, {k}) /\ gone' = gone \cup {k}
      /\ jobClient' = [jobClient EXCEPT ![u] = Free] /\ jobClient[u].job = k
      /\ UNCHANGED <<report, rules, jobWorker, jobCasts, used, uri, asked, jobRaced>>
  BY <1>1 DEF delete_row
<1>4. DOMAIN job' = DOMAIN job \ {k} /\ \A x \in DOMAIN job' : job'[x] = job[x]
  BY <1>2, <1>3, JobDropped
<1>5. ~AtJob(u, k)' /\ OnlyClient(u, k)
  BY <1>2, <1>3, JobClientEnd
<1>6. ASSUME NEW j \in Jobs, j # k PROVE JobOk(j)'
  <2>1. SameJob(j)
    BY <1>3, <1>4, <1>5, <1>6, JobFrames DEF SameJob, OnlyClient
  <2> QED BY <2>1, SameJobOk DEF JobInv
<1>7. JobOk(k)'
  <2>1. k \in used
    BY <1>2 DEF JobOk
  <2>2. \A v \in JobClients : ~AtJob(v, k)'
    BY <1>2, <1>5 DEF JobOk, OnlyClient
  <2>3. k \notin jobRaced' => CleanJob(k)'
    <3> SUFFICES ASSUME k \notin jobRaced PROVE CleanJob(k)'
      BY <1>3
    <3>1. \A w \in JobWorkers : ~DoingJob(w, k)'
      BY <1>2, <1>3, JobFrames DEF JobOk, CleanJob
    <3> QED BY <1>4, <2>2, <3>1 DEF CleanJob
  <2> QED BY <1>3, <1>4, <2>1, <2>2, <2>3 DEF JobOk
<1> QED BY <1>6, <1>7

\* An alert: a job with a row gets a cast.
LEMMA JobAlertStep ==
    ASSUME JobInv, NEW k \in Jobs, pm_alert(k)
    PROVE  \A j \in Jobs : JobOk(j)'
<1>1. /\ k \in DOMAIN job /\ used \subseteq used'
      /\ UNCHANGED <<job, report, rules, jobClient, jobWorker, uri, gone, asked, jobRaced>>
  BY DEF pm_alert
<1>2. \A c \in jobCasts' : c \in jobCasts \/ c.job = k
  BY DEF pm_alert
<1>3. ASSUME NEW j \in Jobs, j # k PROVE JobOk(j)'
  <2>1. SameJob(j)
    BY <1>1, <1>2, <1>3, JobFrames DEF SameJob
  <2> QED BY <2>1, SameJobOk DEF JobInv
<1>4. JobOk(k)'
  <2>1. JobOk(k) /\ ~BlankJob(k)
    BY <1>1 DEF JobInv, BlankJob
  <2>2. k \in used' /\ \A v \in JobClients : AtJob(v, k)' => jobClient'[v].pc # "create"
    BY <1>1, <2>1, JobFrames DEF JobOk
  <2>3. CleanJob(k) => CleanJob(k)'
    BY <1>1, JobFrames DEF CleanJob
  <2> QED BY <1>1, <2>1, <2>2, <2>3, JobFrames DEF JobOk
<1> QED BY <1>3, <1>4

\* The conductor stores a report: the job lacks it until the cast ends.
LEMMA StoreReportStep ==
    ASSUME JobInv, NEW w \in JobWorkers, NEW c \in jobCasts, _store_report(w, c)
    PROVE  \A j \in Jobs : JobOk(j)'
<1>1. PICK k \in Jobs : k = c.job
  BY DEF JobInv, JobTypes, JobCast
<1>2. JobTypes /\ JobOk(k) /\ c \in JobCast /\ c.id \notin DOMAIN report
  BY DEF JobInv, JobTypes, ReportIds
<1>3. /\ jobWorker[w].pc = "idle" /\ jobCasts' = jobCasts \ {c}
      /\ jobWorker' = [jobWorker EXCEPT ![w] = [pc |-> "read", rep |-> c]]
      /\ jobRaced' = IF Storing(k) \/ ~LockFree(k) THEN jobRaced \cup {k} ELSE jobRaced
      /\ UNCHANGED <<job, rules, jobClient, used, uri, gone, asked>>
  BY <1>1 DEF _store_report
<1>4. PICK e \in ReadCall : /\ jobWorker' = [jobWorker EXCEPT ![w] = e]
                            /\ e.pc = "read" /\ e.rep = c
  <2>1. [pc |-> "read", rep |-> c] \in ReadCall
    BY <1>2 DEF ReadCall
  <2> WITNESS [pc |-> "read", rep |-> c] \in ReadCall
  <2> QED BY <1>3
<1>5. /\ jobWorker'[w] = e
      /\ DoingJob(w, k)' <=> e.pc # "idle"
      /\ OnlyWorker(w, k)
  <2>1. (jobWorker[w].pc = "idle" \/ jobWorker[w].rep.job = k) /\ (e.pc = "idle" \/ e.rep.job = k)
    BY <1>1, <1>3, <1>4
  <2> QED BY <1>2, <1>4, <2>1, JobWorkerStep
<1>6. ReportsOf(k)' = ReportsOf(k) \cup {c.id} /\ \A j \in Jobs : j # k => ReportsOf(j)' = ReportsOf(j)
  <2>1. [job |-> c.job, time |-> c.time] \in [job : Jobs, time : 0..MaxTime]
    BY <1>2 DEF JobCast
  <2>2. report' = Put(report, c.id, [job |-> c.job, time |-> c.time])
    BY DEF _store_report
  <2>3. /\ DOMAIN report' = DOMAIN report \cup {c.id} /\ report'[c.id] = [job |-> c.job, time |-> c.time]
        /\ \A x \in DOMAIN report : x # c.id => report'[x] = report[x]
    BY <1>2, <2>1, <2>2, ReportPut
  <2>4. report'[c.id].job = k
    BY <1>1, <2>3
  <2> QED BY <1>2, <2>3, <2>4 DEF ReportsOf
<1>7. ASSUME NEW j \in Jobs, j # k PROVE JobOk(j)'
  <2>1. SameJob(j)
    BY <1>3, <1>5, <1>6, <1>7, JobFrames DEF SameJob, OnlyWorker
  <2> QED BY <2>1, SameJobOk DEF JobInv
<1>8. JobOk(k)'
  <2>1. ~BlankJob(k)
    BY <1>1 DEF BlankJob
  <2>2. k \in used /\ \A v \in JobClients : AtJob(v, k) => jobClient[v].pc \in {"patch", "delete", "drop"}
    BY <1>2, <2>1, JobCalls DEF JobOk, AtJob
  <2>3. k \notin jobRaced' => CleanJob(k)'
    <3> SUFFICES ASSUME k \notin jobRaced' PROVE CleanJob(k)'
      OBVIOUS
    <3>1. CleanJob(k) /\ (\A v \in JobWorkers : ~DoingJob(v, k)) /\ (\A v \in JobClients : ~AtJob(v, k))
      BY <1>2, <1>3, <2>2 DEF JobOk, Storing, DoingJob, LockFree, AtJob
    <3>2. /\ \A v \in JobWorkers : DoingJob(v, k)' => v = w
          /\ \A v \in JobClients : ~AtJob(v, k)'
      BY <1>3, <1>5, <3>1, JobFrames DEF OnlyWorker
    <3>3. k \in DOMAIN job => job[k].reports = ReportsOf(k)
      BY <3>1 DEF CleanJob
    <3> QED BY <1>3, <1>4, <1>5, <1>6, <3>1, <3>2, <3>3 DEF CleanJob
  <2>4. \A v \in JobClients : AtJob(v, k)' <=> AtJob(v, k)
    BY <1>3, JobFrames
  <2> QED BY <1>2, <1>3, <2>2, <2>3, <2>4 DEF JobOk
<1> QED BY <1>7, <1>8

\* The conductor reads the job of the report.
LEMMA ReadJobStep ==
    ASSUME JobInv, NEW w \in JobWorkers, update_report(w)
    PROVE  \A j \in Jobs : JobOk(j)'
<1>1. PICK k \in Jobs : k = jobWorker[w].rep.job
  BY JobCalls DEF JobInv, update_report
<1>2. JobTypes /\ JobOk(k) /\ DoingJob(w, k) /\ jobWorker[w].pc = "read" /\ jobWorker[w].rep \in JobCast
  BY <1>1, JobCalls DEF JobInv, update_report, DoingJob
<1>3. UNCHANGED <<job, report, rules, jobClient, jobCasts, used, uri, gone, asked, jobRaced>>
  BY DEF update_report
<1>4. PICK e \in {Free} \cup ReadCall \cup WriteCall :
         /\ jobWorker' = [jobWorker EXCEPT ![w] = e]
         /\ \/ k \notin DOMAIN job /\ e.pc = "idle"
            \/ /\ k \in DOMAIN job /\ e.pc = "write" /\ e.rep = jobWorker[w].rep
               /\ e.row.reports = job[k].reports \cup {jobWorker[w].rep.id}
               /\ e.row.callbackUri = job[k].callbackUri
  <2> DEFINE c == jobWorker[w].rep
             row == [job[k] EXCEPT !.reports = @ \cup {c.id}]
  <2>1. jobWorker' = [jobWorker EXCEPT ![w] = IF k \in DOMAIN job THEN [pc |-> "write", rep |-> c, row |-> row] ELSE Free]
    BY <1>1 DEF update_report
  <2>2. CASE k \in DOMAIN job
    <3>1. row \in JobRow /\ row.reports = job[k].reports \cup {c.id} /\ row.callbackUri = job[k].callbackUri
      BY <1>2, <2>2 DEF JobTypes, JobRow, JobCast
    <3> HIDE DEF row
    <3>2. [pc |-> "write", rep |-> c, row |-> row] \in WriteCall
      BY <1>2, <3>1 DEF WriteCall
    <3>3. [pc |-> "write", rep |-> c, row |-> row] \in {Free} \cup ReadCall \cup WriteCall
      BY <3>2
    <3> WITNESS [pc |-> "write", rep |-> c, row |-> row] \in {Free} \cup ReadCall \cup WriteCall
    <3> QED BY <2>1, <2>2, <3>1
  <2>3. CASE k \notin DOMAIN job
    <3>1. Free.pc = "idle" /\ jobWorker' = [jobWorker EXCEPT ![w] = Free]
      BY <2>1, <2>3 DEF Free
    <3> WITNESS Free \in {Free} \cup ReadCall \cup WriteCall
    <3> QED BY <2>3, <3>1
  <2> QED BY <2>2, <2>3
<1>5. /\ jobWorker'[w] = e
      /\ DoingJob(w, k)' <=> e.pc # "idle"
      /\ OnlyWorker(w, k)
  <2>1. (jobWorker[w].pc = "idle" \/ jobWorker[w].rep.job = k) /\ (e.pc = "idle" \/ e.rep.job = k)
    BY <1>1, <1>4
  <2> QED BY <1>2, <1>4, <2>1, JobWorkerStep
<1>6. ASSUME NEW j \in Jobs, j # k PROVE JobOk(j)'
  <2>1. SameJob(j)
    BY <1>3, <1>5, <1>6, JobFrames DEF SameJob, OnlyWorker
  <2> QED BY <2>1, SameJobOk DEF JobInv
<1>7. JobOk(k)'
  <2>1. k \in used /\ \A v \in JobClients : AtJob(v, k) => jobClient[v].pc # "create"
    BY <1>2 DEF JobOk, BlankJob
  <2>2. \A v \in JobClients : AtJob(v, k)' <=> AtJob(v, k)
    BY <1>3, JobFrames
  <2>3. k \notin jobRaced' => CleanJob(k)'
    <3> SUFFICES ASSUME k \notin jobRaced PROVE CleanJob(k)'
      BY <1>3
    <3>1. CleanJob(k) /\ \A v \in JobClients : ~AtJob(v, k)'
      BY <1>2, <2>2 DEF JobOk, CleanJob
    <3>2. \A v \in JobWorkers : DoingJob(v, k)' => v = w /\ k \in DOMAIN job
      BY <1>2, <1>4, <1>5, <3>1 DEF CleanJob, OnlyWorker
    <3>3. k \in DOMAIN job => /\ DoingJob(w, k)' /\ e.pc = "write"
                              /\ e.row.reports = ReportsOf(k)' /\ e.row.callbackUri = uri[k]
      BY <1>2, <1>3, <1>4, <1>5, <3>1, JobFrames DEF CleanJob
    <3> QED BY <1>3, <1>5, <3>1, <3>2, <3>3 DEF CleanJob
  <2> QED BY <1>2, <1>3, <2>1, <2>2, <2>3 DEF JobOk
<1> QED BY <1>6, <1>7

\* The conductor writes the job with the report.
LEMMA WriteJobStep ==
    ASSUME JobInv, NEW w \in JobWorkers, _update_job_reports(w)
    PROVE  \A j \in Jobs : JobOk(j)'
<1>1. PICK k \in Jobs : k = jobWorker[w].rep.job
  BY JobCalls DEF JobInv, _update_job_reports
<1>2. JobTypes /\ JobOk(k) /\ DoingJob(w, k) /\ jobWorker[w].pc = "write" /\ jobWorker[w].row \in JobRow
  BY <1>1, JobCalls DEF JobInv, _update_job_reports, DoingJob
<1>3. /\ job' = Put(job, k, jobWorker[w].row)
      /\ jobWorker' = [jobWorker EXCEPT ![w] = Free] /\ jobWorker[w].rep.job = k
      /\ UNCHANGED <<report, rules, jobClient, jobCasts, used, uri, gone, asked, jobRaced>>
  BY <1>1 DEF _update_job_reports
<1>4. /\ DOMAIN job' = DOMAIN job \cup {k} /\ job'[k] = jobWorker[w].row
      /\ \A x \in DOMAIN job : x # k => job'[x] = job[x]
  BY <1>2, <1>3, JobPut
<1>5. ~DoingJob(w, k)' /\ OnlyWorker(w, k)
  BY <1>2, <1>3, JobWorkerEnd
<1>6. ASSUME NEW j \in Jobs, j # k PROVE JobOk(j)'
  <2>1. SameJob(j)
    BY <1>3, <1>4, <1>5, <1>6, JobFrames DEF SameJob, OnlyWorker
  <2> QED BY <2>1, SameJobOk DEF JobInv
<1>7. JobOk(k)'
  <2>1. k \in used /\ \A v \in JobClients : AtJob(v, k) => jobClient[v].pc # "create"
    BY <1>2 DEF JobOk, BlankJob
  <2>2. \A v \in JobClients : AtJob(v, k)' <=> AtJob(v, k)
    BY <1>3, JobFrames
  <2>3. k \notin jobRaced' => CleanJob(k)'
    <3> SUFFICES ASSUME k \notin jobRaced PROVE CleanJob(k)'
      BY <1>3
    <3>1. CleanJob(k) /\ \A v \in JobClients : ~AtJob(v, k)'
      BY <1>2, <2>2 DEF JobOk, CleanJob
    <3>2. \A v \in JobWorkers : ~DoingJob(v, k)'
      BY <1>2, <1>5, <3>1 DEF CleanJob, OnlyWorker
    <3>3. /\ k \in DOMAIN job /\ k \notin gone
          /\ jobWorker[w].row.reports = ReportsOf(k)' /\ jobWorker[w].row.callbackUri = uri[k]
      BY <1>2, <1>3, <3>1, JobFrames DEF CleanJob
    <3> QED BY <1>3, <1>4, <3>1, <3>2, <3>3 DEF CleanJob
  <2> QED BY <1>2, <1>3, <1>4, <2>1, <2>2, <2>3 DEF JobOk
<1> QED BY <1>6, <1>7

\* Every step keeps the invariant of PM jobs.
LEMMA JobStep == JobInv /\ [PmJobNext]_jobVars => JobInv'
<1> SUFFICES ASSUME JobInv, [PmJobNext]_jobVars PROVE JobInv'
  OBVIOUS
<1>1. CASE PmJobNext
  <2>1. JobTypes'
    BY <1>1, JobTypesRequests, JobTypesStores DEF PmJobNext, JobInv
  <2>2. ReportIds' /\ CastsApart' /\ OneReportPerPeriod'
    BY <1>1, ReportsStep DEF JobInv
  <2>3. \A j \in Jobs : JobOk(j)'
    <3>1. CASE Tick
      <4>1. UNCHANGED <<job, report, rules, jobClient, jobWorker, jobCasts, used, uri, gone, asked, jobRaced>>
        BY <3>1 DEF Tick
      <4>2. \A j \in Jobs : SameJob(j)
        BY <4>1, JobFrames DEF SameJob
      <4> QED BY <4>2, SameJobOk DEF JobInv
    <3> QED BY <1>1, <3>1, CreateJobStep, CreateJobRowStep, UpdateStep, UpdateRowStep, DeleteJobStep,
               DeleteReportsStep, DeleteJobRowStep, JobAlertStep, StoreReportStep, ReadJobStep, WriteJobStep
            DEF PmJobNext
  <2> QED BY <2>1, <2>2, <2>3 DEF JobInv
<1>2. CASE UNCHANGED jobVars
  <2>1. UNCHANGED <<job, report, rules, jobClient, jobWorker, jobCasts, used, uri, gone, asked, jobRaced, clock, hasty>>
    BY <1>2 DEF jobVars
  <2>2. JobTypes'
    BY <2>1 DEF JobInv, JobTypes
  <2>3. ReportIds' /\ CastsApart' /\ OneReportPerPeriod'
    BY <2>1 DEF JobInv, ReportIds, CastsApart, OneReportPerPeriod, ReportsOf
  <2>4. \A j \in Jobs : SameJob(j)
    BY <2>1, JobFrames DEF SameJob
  <2>5. \A j \in Jobs : JobOk(j)'
    BY <2>4, SameJobOk DEF JobInv
  <2> QED BY <2>2, <2>3, <2>5 DEF JobInv
<1> QED BY <1>1, <1>2

\* The invariant of PM jobs holds at the start.
LEMMA JobInitInv == PmJobInit => JobInv
<1> SUFFICES ASSUME PmJobInit PROVE JobInv
  OBVIOUS
<1>1. (\A u \in JobClients : jobClient[u].pc = "idle") /\ (\A w \in JobWorkers : jobWorker[w].pc = "idle")
  BY DEF PmJobInit, Free
<1>2. DOMAIN job = {} /\ DOMAIN report = {} /\ jobCasts = {} /\ used = {} /\ gone = {} /\ asked = {}
  BY DEF PmJobInit
<1>3. JobTypes
  BY <1>2, PmJobAssumption DEF PmJobInit, JobTypes
<1>4. ReportIds /\ CastsApart /\ OneReportPerPeriod
  BY <1>2 DEF ReportIds, CastsApart, OneReportPerPeriod
<1>5. \A j \in Jobs : BlankJob(j) /\ CleanJob(j)
  BY <1>1, <1>2 DEF PmJobInit, BlankJob, CleanJob, AtJob, DoingJob, ReportsOf
<1>6. \A j \in Jobs : JobOk(j)
  BY <1>1, <1>2, <1>5 DEF JobOk, AtJob
<1> QED BY <1>3, <1>4, <1>6 DEF JobInv

\* Every state of the PM jobs satisfies their invariant.
THEOREM JobInductive == PmJobSpec => []JobInv
BY JobInitInv, JobStep, PTL DEF PmJobSpec

\* A PM job keeps its reports, its callbackUri and its rules, and stays deleted,
\* unless a request and the conductor write its row at the same time.
THEOREM JobsComplete == PmJobSpec => []JobComplete
<1>1. JobInv => JobComplete
  <2> SUFFICES ASSUME JobInv, NEW j \in DOMAIN job \ jobRaced
               PROVE  /\ j \notin gone
                      /\ ~Busy(j) => /\ job[j].reports = ReportsOf(j)
                                     /\ job[j].callbackUri = uri[j]
                                     /\ j \notin asked => rules[j] = Hosts
    BY DEF JobComplete
  <2>1. j \in Jobs /\ JobOk(j) /\ CleanJob(j)
    BY DEF JobInv, JobTypes, JobOk
  <2>2. ~Busy(j) => (\A w \in JobWorkers : ~DoingJob(w, j)) /\ (\A u \in JobClients : ~AtJob(u, j))
    BY DEF Busy, Storing, DoingJob, AtJob
  <2> QED BY <2>1, <2>2 DEF JobOk, CleanJob
<1> QED BY <1>1, JobInductive, PTL

\* The reports of a PM job are more than a period apart, unless an alert came
\* while the cast of another one was under way.
THEOREM ReportsApart == PmJobSpec => []OneReportPerPeriod
<1>1. JobInv => OneReportPerPeriod
  BY DEF JobInv
<1> QED BY <1>1, JobInductive, PTL

----------------------------------------------------------------------------
(* Thresholds.                                                             *)

ThrCast == [n : Nat, id : Thresholds, value : Values, direction : Directions]
CreateCall == [pc : {"create"}, id : Thresholds]
PatchCall == [pc : {"patch"}, id : Thresholds, row : ThrRow]
DeleteCall == [pc : {"delete"}, id : Thresholds]
StoreCall == [pc : {"write", "notify"}, cast : ThrCast, row : ThrRow, prev : Values \cup {Unmeasured}]

\* Rows, threads and casts have the fields the code reads.
ThrTypes ==
    /\ thr \in [DOMAIN thr -> ThrRow] /\ DOMAIN thr \subseteq Thresholds
    /\ thrClient \in [ThrClients -> {NoCall} \cup CreateCall \cup PatchCall \cup DeleteCall]
    /\ thrWorker \in [ThrWorkers -> {NoCall} \cup StoreCall]
    /\ thrCasts \subseteq ThrCast
    /\ thrUri \in [Thresholds -> 0..MaxThrUri]
    /\ thrValue \in [Thresholds -> Values \cup {Unmeasured}]
    /\ thrAlerts \in Nat

\* Threads that hold lock_resources('{thresholdId}').
ClientHolds(u, h) == thrClient[u].pc \in {"patch", "delete"} /\ thrClient[u].id = h
WorkerHolds(w, h) == thrWorker[w].pc = "write" /\ thrWorker[w].cast.id = h

\* The lock has one holder.
ThrLockInv ==
    /\ \A u1, u2 \in ThrClients, h \in Thresholds : ClientHolds(u1, h) /\ ClientHolds(u2, h) => u1 = u2
    /\ \A w1, w2 \in ThrWorkers, h \in Thresholds : WorkerHolds(w1, h) /\ WorkerHolds(w2, h) => w1 = w2
    /\ \A u \in ThrClients, w \in ThrWorkers, h \in Thresholds : ~(ClientHolds(u, h) /\ WorkerHolds(w, h))

\* A copy differs from the row in the one attribute that its holder sets.
ThrCopyInv ==
    /\ \A u \in ThrClients : thrClient[u].pc = "patch" =>
          /\ thrClient[u].id \in DOMAIN thr
          /\ thrClient[u].row.value = thr[thrClient[u].id].value
    /\ \A u \in ThrClients : thrClient[u].pc = "delete" => thrClient[u].id \in DOMAIN thr
    /\ \A w \in ThrWorkers : thrWorker[w].pc = "write" =>
          /\ thrWorker[w].cast.id \in DOMAIN thr
          /\ thrWorker[w].row.callbackUri = thr[thrWorker[w].cast.id].callbackUri
          /\ thrWorker[w].row.value = thrWorker[w].cast.value

\* Nothing is known of a threshold that has no row yet.
Blank(h) == h \notin DOMAIN thr /\ h \notin thrGone /\ thrUri[h] = 0 /\ thrValue[h] = Unmeasured

ThrNewInv ==
    /\ \A h \in Thresholds : h \notin thrUsed => Blank(h)
    /\ \A u \in ThrClients : thrClient[u].pc = "create" =>
          thrClient[u].id \in thrUsed /\ Blank(thrClient[u].id)
    /\ \A u1, u2 \in ThrClients :
          thrClient[u1].pc = "create" /\ thrClient[u2].pc = "create" /\ u1 # u2 =>
              thrClient[u1].id # thrClient[u2].id

ThrIInv == ThrTypes /\ ThrLockInv /\ ThrCopyInv /\ ThrNewInv /\ ThresholdKept

\* There is no threshold at first.
LEMMA ThrInitInv == PmThresholdInit => ThrIInv
<1> SUFFICES ASSUME PmThresholdInit PROVE ThrIInv
  OBVIOUS
<1>1. DOMAIN thr = {} /\ \A u \in ThrClients : thrClient[u].pc = "idle"
  BY DEF PmThresholdInit, NoCall
<1>2. \A w \in ThrWorkers : thrWorker[w].pc = "idle"
  BY DEF PmThresholdInit, NoCall
<1>3. ThrTypes
  BY <1>1, PmThresholdAssumption DEF PmThresholdInit, ThrTypes
<1>4. ThrLockInv /\ ThrCopyInv
  BY <1>1, <1>2 DEF ThrLockInv, ThrCopyInv, ClientHolds, WorkerHolds
<1>5. ThrNewInv /\ ThresholdKept
  BY <1>1 DEF PmThresholdInit, ThrNewInv, ThresholdKept, Blank
<1> QED BY <1>3, <1>4, <1>5 DEF ThrIInv

\* The fields of a thread's call, from its step.
LEMMA ClientCalls ==
    ASSUME ThrTypes, NEW u \in ThrClients
    PROVE  /\ thrClient[u].pc \in {"idle", "create", "patch", "delete"}
           /\ thrClient[u].pc # "idle" => thrClient[u].id \in Thresholds
           /\ thrClient[u].pc = "patch" => thrClient[u].row \in ThrRow
BY DEF ThrTypes, NoCall, CreateCall, PatchCall, DeleteCall

\* The same for a thread of the conductor.
LEMMA WorkerCalls ==
    ASSUME ThrTypes, NEW w \in ThrWorkers
    PROVE  /\ thrWorker[w].pc \in {"idle", "write", "notify"}
           /\ thrWorker[w].pc # "idle" =>
                 /\ thrWorker[w] \in StoreCall
                 /\ thrWorker[w].cast.id \in Thresholds
                 /\ thrWorker[w].cast.value \in Values
                 /\ thrWorker[w].row \in ThrRow
BY DEF ThrTypes, NoCall, StoreCall, ThrCast

\* A thread that ends its call, or starts one, changes no other thread's.
LEMMA ClientMoves ==
    ASSUME ThrTypes, NEW u \in ThrClients,
           NEW c \in {NoCall} \cup CreateCall \cup PatchCall \cup DeleteCall,
           thrClient' = [thrClient EXCEPT ![u] = c]
    PROVE  /\ thrClient' \in [ThrClients -> {NoCall} \cup CreateCall \cup PatchCall \cup DeleteCall]
           /\ thrClient'[u] = c
           /\ \A x \in ThrClients : x # u => thrClient'[x] = thrClient[x]
BY DEF ThrTypes

\* POST /thresholds: an identifier that nobody has used.
LEMMA CreateStep ==
    ASSUME ThrIInv, NEW u \in ThrClients, NEW h \in Thresholds, create_threshold(u, h)
    PROVE  ThrIInv'
<1>1. PICK c \in {NoCall, [pc |-> "create", id |-> h]} : thrClient' = [thrClient EXCEPT ![u] = c]
  BY DEF create_threshold
<1>2. c \in {NoCall} \cup CreateCall
  BY <1>1 DEF CreateCall
<1>3. /\ thrClient' \in [ThrClients -> {NoCall} \cup CreateCall \cup PatchCall \cup DeleteCall]
      /\ thrClient'[u] = c
      /\ \A x \in ThrClients : x # u => thrClient'[x] = thrClient[x]
  BY <1>1, <1>2, ClientMoves DEF ThrIInv
<1>4. c.pc \in {"idle", "create"} /\ (c.pc = "create" => c.id = h)
  BY DEF NoCall
<1>5. /\ h \notin thrUsed /\ thrUsed' = thrUsed \cup {h}
      /\ UNCHANGED <<thr, thrWorker, thrCasts, thrAlerts, thrUri, thrGone, thrValue>>
  BY DEF create_threshold
<1>6. ThrTypes' /\ ThresholdKept'
  BY <1>3, <1>5 DEF ThrIInv, ThrTypes, ThresholdKept
<1>7. ThrLockInv' /\ ThrCopyInv'
  BY <1>3, <1>4, <1>5 DEF ThrIInv, ThrLockInv, ThrCopyInv, ClientHolds, WorkerHolds
<1>8. ThrNewInv'
  BY <1>3, <1>4, <1>5 DEF ThrIInv, ThrNewInv, Blank
<1> QED BY <1>6, <1>7, <1>8 DEF ThrIInv

\* PATCH and DELETE up to the write: the lock is taken, the row is read.
LEMMA LockStep ==
    ASSUME ThrIInv, NEW u \in ThrClients, NEW h \in Thresholds,
           update_threshold(u, h) \/ delete_threshold(u, h)
    PROVE  ThrIInv'
<1>1. PICK c : /\ c = NoCall \/ c = [pc |-> "delete", id |-> h]
                  \/ (thrUri[h] < MaxThrUri /\ c = [pc |-> "patch", id |-> h, row |-> [thr[h] EXCEPT !.callbackUri = thrUri[h] + 1]])
               /\ thrClient' = [thrClient EXCEPT ![u] = c]
  BY DEF update_threshold, delete_threshold
<1>2. /\ h \in DOMAIN thr /\ ThrLockFree(h)
      /\ UNCHANGED <<thr, thrWorker, thrCasts, thrUsed, thrAlerts, thrUri, thrGone, thrValue>>
  BY DEF update_threshold, delete_threshold
<1>3. thr[h] \in ThrRow /\ thrUri[h] \in 0..MaxThrUri
  BY <1>2 DEF ThrIInv, ThrTypes
<1>4. thrUri[h] < MaxThrUri => [thr[h] EXCEPT !.callbackUri = thrUri[h] + 1] \in ThrRow
  BY <1>3, PmThresholdAssumption DEF ThrRow
<1>5. c \in {NoCall} \cup PatchCall \cup DeleteCall
  BY <1>1, <1>4 DEF PatchCall, DeleteCall
<1>6. /\ thrClient' \in [ThrClients -> {NoCall} \cup CreateCall \cup PatchCall \cup DeleteCall]
      /\ thrClient'[u] = c
      /\ \A x \in ThrClients : x # u => thrClient'[x] = thrClient[x]
  BY <1>1, <1>5, ClientMoves DEF ThrIInv
<1>7. /\ c.pc \in {"idle", "patch", "delete"}
      /\ c.pc # "idle" => c.id = h
      /\ c.pc = "patch" => c.row.value = thr[h].value
  <2>1. [thr[h] EXCEPT !.callbackUri = thrUri[h] + 1].value = thr[h].value
    BY <1>3 DEF ThrRow
  <2>2. CASE c = NoCall
    BY <2>2 DEF NoCall
  <2>3. CASE c = [pc |-> "delete", id |-> h]
    BY <2>3
  <2>4. CASE c = [pc |-> "patch", id |-> h, row |-> [thr[h] EXCEPT !.callbackUri = thrUri[h] + 1]]
    <3>1. c.pc = "patch" /\ c.id = h /\ c.row = [thr[h] EXCEPT !.callbackUri = thrUri[h] + 1]
      BY <2>4
    <3> QED BY <2>1, <3>1
  <2> QED BY <1>1, <2>2, <2>3, <2>4
<1>8. ThrTypes' /\ ThresholdKept'
  BY <1>2, <1>6 DEF ThrIInv, ThrTypes, ThresholdKept
<1>9. ThrLockInv'
  BY <1>2, <1>6, <1>7 DEF ThrIInv, ThrLockInv, ClientHolds, WorkerHolds, ThrLockFree
<1>10. ThrCopyInv'
  BY <1>2, <1>6, <1>7 DEF ThrIInv, ThrCopyInv
<1>11. ThrNewInv'
  BY <1>2, <1>6, <1>7 DEF ThrIInv, ThrNewInv, Blank
<1> QED BY <1>8, <1>9, <1>10, <1>11 DEF ThrIInv

\* The end of POST: the row of a threshold that nobody knew.
LEMMA CreateRowStep ==
    ASSUME ThrIInv, NEW u \in ThrClients, create_threshold_row(u)
    PROVE  ThrIInv'
<1>1. PICK h \in Thresholds : h = thrClient[u].id
  BY ClientCalls DEF create_threshold_row, ThrIInv
<1>2. /\ thrClient[u].pc = "create" /\ h \in thrUsed /\ Blank(h)
      /\ thrClient' = [thrClient EXCEPT ![u] = NoCall]
      /\ thr' = PutThr(h, [callbackUri |-> 0, value |-> Unmeasured])
      /\ UNCHANGED <<thrWorker, thrCasts, thrUsed, thrAlerts, thrUri, thrGone, thrValue>>
  BY <1>1 DEF create_threshold_row, ThrIInv, ThrNewInv
<1>3. /\ thrClient' \in [ThrClients -> {NoCall} \cup CreateCall \cup PatchCall \cup DeleteCall]
      /\ thrClient'[u] = NoCall
      /\ \A x \in ThrClients : x # u => thrClient'[x] = thrClient[x]
  BY <1>2, ClientMoves DEF ThrIInv
<1>4. [callbackUri |-> 0, value |-> Unmeasured] \in ThrRow
  BY PmThresholdAssumption DEF ThrRow
<1>5. /\ DOMAIN thr' = DOMAIN thr \cup {h}
      /\ thr'[h] = [callbackUri |-> 0, value |-> Unmeasured]
      /\ \A x \in DOMAIN thr : thr'[x] = thr[x]
      /\ thr' \in [DOMAIN thr' -> ThrRow]
  BY <1>2, <1>4 DEF PutThr, Blank, ThrIInv, ThrTypes
<1>6. ThrTypes'
  BY <1>2, <1>3, <1>5 DEF ThrIInv, ThrTypes
<1>7. ThrLockInv'
  BY <1>2, <1>3 DEF ThrIInv, ThrLockInv, ClientHolds, WorkerHolds, NoCall
<1>8. ThrCopyInv'
  BY <1>2, <1>3, <1>5 DEF ThrIInv, ThrCopyInv, NoCall
<1>9. ThrNewInv'
  BY <1>1, <1>2, <1>3, <1>5 DEF ThrIInv, ThrNewInv, Blank, NoCall
<1>10. ThresholdKept'
  BY <1>2, <1>5 DEF ThrIInv, ThresholdKept, Blank
<1> QED BY <1>6, <1>7, <1>8, <1>9, <1>10 DEF ThrIInv

\* The end of PATCH: the copy has the value of the row, which only the holder
\* of the lock could have changed.
LEMMA PatchRowStep ==
    ASSUME ThrIInv, NEW u \in ThrClients, update_threshold_row(u)
    PROVE  ThrIInv'
<1>1. PICK h \in Thresholds : h = thrClient[u].id
  BY ClientCalls DEF update_threshold_row, ThrIInv
<1>2. PICK row \in ThrRow : row = thrClient[u].row
  BY ClientCalls DEF update_threshold_row, ThrIInv
<1>3. /\ thrClient[u].pc = "patch" /\ h \in DOMAIN thr /\ row.value = thr[h].value
      /\ thrClient' = [thrClient EXCEPT ![u] = NoCall]
      /\ thr' = PutThr(h, row)
      /\ thrUri' = [thrUri EXCEPT ![h] = row.callbackUri]
      /\ UNCHANGED <<thrWorker, thrCasts, thrUsed, thrAlerts, thrGone, thrValue>>
  BY <1>1, <1>2 DEF update_threshold_row, ThrIInv, ThrCopyInv
<1>4. /\ thrClient' \in [ThrClients -> {NoCall} \cup CreateCall \cup PatchCall \cup DeleteCall]
      /\ thrClient'[u] = NoCall
      /\ \A x \in ThrClients : x # u => thrClient'[x] = thrClient[x]
  BY <1>3, ClientMoves DEF ThrIInv
<1>5. /\ DOMAIN thr' = DOMAIN thr
      /\ thr'[h] = row
      /\ \A x \in DOMAIN thr : x # h => thr'[x] = thr[x]
      /\ thr' \in [DOMAIN thr' -> ThrRow]
  BY <1>3 DEF PutThr, ThrIInv, ThrTypes
<1>6. /\ row.callbackUri \in 0..MaxThrUri
      /\ thrUri' \in [Thresholds -> 0..MaxThrUri]
      /\ \A x \in Thresholds : thrUri'[x] = IF x = h THEN row.callbackUri ELSE thrUri[x]
  BY <1>2, <1>3 DEF ThrIInv, ThrTypes, ThrRow
<1>7. /\ \A x \in ThrClients : x # u => ~ClientHolds(x, h)
      /\ \A w \in ThrWorkers : ~WorkerHolds(w, h)
  BY <1>1, <1>3 DEF ThrIInv, ThrLockInv, ClientHolds
<1>8. ThrTypes'
  BY <1>3, <1>4, <1>5, <1>6 DEF ThrIInv, ThrTypes
<1>9. ThrLockInv'
  BY <1>3, <1>4 DEF ThrIInv, ThrLockInv, ClientHolds, WorkerHolds, NoCall
<1>10. ThrCopyInv'
  BY <1>3, <1>4, <1>5, <1>7 DEF ThrIInv, ThrCopyInv, NoCall, ClientHolds, WorkerHolds
<1>11. ThrNewInv'
  <2>1. \A x \in Thresholds : Blank(x) => Blank(x)'
    BY <1>3, <1>5, <1>6 DEF Blank
  <2> QED BY <1>3, <1>4, <2>1, ClientCalls DEF ThrIInv, ThrNewInv, NoCall
<1>12. ThresholdKept'
  BY <1>3, <1>5, <1>6 DEF ThrIInv, ThrTypes, ThresholdKept
<1> QED BY <1>8, <1>9, <1>10, <1>11, <1>12 DEF ThrIInv

\* The end of DELETE: nobody has a copy of the row left.
LEMMA DeleteRowStep ==
    ASSUME ThrIInv, NEW u \in ThrClients, delete_threshold_row(u)
    PROVE  ThrIInv'
<1>1. PICK h \in Thresholds : h = thrClient[u].id
  BY ClientCalls DEF delete_threshold_row, ThrIInv
<1>2. /\ thrClient[u].pc = "delete" /\ h \in DOMAIN thr
      /\ thrClient' = [thrClient EXCEPT ![u] = NoCall]
      /\ thr' = [x \in DOMAIN thr \ {h} |-> thr[x]]
      /\ thrGone' = thrGone \cup {h}
      /\ UNCHANGED <<thrWorker, thrCasts, thrUsed, thrAlerts, thrUri, thrValue>>
  BY <1>1 DEF delete_threshold_row, ThrIInv, ThrCopyInv
<1>3. /\ thrClient' \in [ThrClients -> {NoCall} \cup CreateCall \cup PatchCall \cup DeleteCall]
      /\ thrClient'[u] = NoCall
      /\ \A x \in ThrClients : x # u => thrClient'[x] = thrClient[x]
  BY <1>2, ClientMoves DEF ThrIInv
<1>4. /\ DOMAIN thr' = DOMAIN thr \ {h}
      /\ \A x \in DOMAIN thr' : thr'[x] = thr[x]
      /\ thr' \in [DOMAIN thr' -> ThrRow]
  BY <1>2 DEF ThrIInv, ThrTypes
<1>5. /\ \A x \in ThrClients : x # u => ~ClientHolds(x, h)
      /\ \A w \in ThrWorkers : ~WorkerHolds(w, h)
  BY <1>1, <1>2 DEF ThrIInv, ThrLockInv, ClientHolds
<1>6. ThrTypes'
  BY <1>2, <1>3, <1>4 DEF ThrIInv, ThrTypes
<1>7. ThrLockInv'
  BY <1>2, <1>3 DEF ThrIInv, ThrLockInv, ClientHolds, WorkerHolds, NoCall
<1>8. ThrCopyInv'
  BY <1>2, <1>3, <1>4, <1>5 DEF ThrIInv, ThrCopyInv, NoCall, ClientHolds, WorkerHolds
<1>9. ThrNewInv'
  <2>1. \A x \in Thresholds : Blank(x) => x # h /\ Blank(x)'
    BY <1>2, <1>4 DEF Blank
  <2> QED BY <1>2, <1>3, <2>1, ClientCalls DEF ThrIInv, ThrNewInv, NoCall
<1>10. ThresholdKept'
  BY <1>2, <1>4 DEF ThrIInv, ThresholdKept
<1> QED BY <1>6, <1>7, <1>8, <1>9, <1>10 DEF ThrIInv

\* An alert sends a cast and changes nothing else that counts here.
LEMMA AlertStep ==
    ASSUME ThrIInv, NEW h \in Thresholds, NEW v \in Values, threshold_alert(h, v)
    PROVE  ThrIInv'
<1>1. UNCHANGED <<thr, thrClient, thrWorker, thrUsed, thrUri, thrGone, thrValue>>
  BY DEF threshold_alert
<1>2. thrAlerts' \in Nat
  BY DEF threshold_alert, ThrIInv, ThrTypes
<1>3. thrCasts' \subseteq ThrCast
  <2>1. PICK d : thrCasts' = thrCasts \cup {[n |-> thrAlerts', id |-> h, value |-> v, direction |-> d]}
                 /\ d = set_crossing_direction(v, set_threshold_last_value(thr[h].value))
    BY DEF threshold_alert
  <2>2. d \in Directions
    BY <2>1 DEF set_crossing_direction, Directions
  <2> QED BY <1>2, <2>1, <2>2 DEF ThrIInv, ThrTypes, ThrCast
<1>4. ThrTypes'
  BY <1>1, <1>2, <1>3 DEF ThrIInv, ThrTypes
<1>5. ThrLockInv' /\ ThrCopyInv' /\ ThrNewInv' /\ ThresholdKept'
  BY <1>1 DEF ThrIInv, ThrLockInv, ThrCopyInv, ThrNewInv, ThresholdKept, Blank, ClientHolds, WorkerHolds
<1> QED BY <1>4, <1>5 DEF ThrIInv

\* The conductor reads the row, if the lock is free.
LEMMA ReadRowStep ==
    ASSUME ThrIInv, NEW w \in ThrWorkers, NEW c \in thrCasts, update_threshold_state_data(w, c)
    PROVE  ThrIInv'
<1>1. /\ thrWorker[w].pc = "idle" /\ thrCasts' \subseteq thrCasts
      /\ UNCHANGED <<thr, thrClient, thrUsed, thrAlerts, thrUri, thrGone, thrValue>>
      /\ c \in ThrCast /\ c.id \in Thresholds /\ c.value \in Values
  BY DEF update_threshold_state_data, ThrIInv, ThrTypes, ThrCast
<1>2. ThrNewInv' /\ ThresholdKept'
  BY <1>1 DEF ThrIInv, ThrNewInv, ThresholdKept, Blank
<1>3. CASE ThrLockFree(c.id) /\ c.id \in DOMAIN thr
  <2> DEFINE row == [thr[c.id] EXCEPT !.value = c.value]
             call == [pc |-> "write", cast |-> c, row |-> row, prev |-> thr[c.id].value]
  <2>1. thr[c.id] \in ThrRow
    BY <1>3 DEF ThrIInv, ThrTypes
  <2>2. /\ row \in ThrRow /\ row.value = c.value /\ row.callbackUri = thr[c.id].callbackUri
        /\ thr[c.id].value \in Values \cup {Unmeasured}
    BY <1>1, <2>1 DEF ThrRow
  <2>3. call \in StoreCall /\ call.pc = "write" /\ call.cast = c /\ call.row = row
    BY <1>1, <2>2 DEF StoreCall
  <2>4. thrWorker' = [thrWorker EXCEPT ![w] = call]
    BY <1>3 DEF update_threshold_state_data
  <2> HIDE DEF row, call
  <2>5. /\ thrWorker' \in [ThrWorkers -> {NoCall} \cup StoreCall]
        /\ thrWorker'[w] = call
        /\ \A x \in ThrWorkers : x # w => thrWorker'[x] = thrWorker[x]
    BY <2>3, <2>4 DEF ThrIInv, ThrTypes
  <2>6. ThrTypes'
    BY <1>1, <2>5 DEF ThrIInv, ThrTypes
  <2>7. ThrLockInv'
    BY <1>1, <1>3, <2>3, <2>5 DEF ThrIInv, ThrLockInv, ClientHolds, WorkerHolds, ThrLockFree
  <2>8. ThrCopyInv'
    BY <1>1, <1>3, <2>2, <2>3, <2>5 DEF ThrIInv, ThrCopyInv
  <2> QED BY <1>2, <2>6, <2>7, <2>8 DEF ThrIInv
<1>4. CASE ~(ThrLockFree(c.id) /\ c.id \in DOMAIN thr)
  <2>1. thrWorker' = [thrWorker EXCEPT ![w] = NoCall]
    BY <1>4 DEF update_threshold_state_data
  <2>2. /\ thrWorker' \in [ThrWorkers -> {NoCall} \cup StoreCall]
        /\ thrWorker'[w] = NoCall
        /\ \A x \in ThrWorkers : x # w => thrWorker'[x] = thrWorker[x]
    BY <2>1 DEF ThrIInv, ThrTypes
  <2>3. ThrTypes'
    BY <1>1, <2>2 DEF ThrIInv, ThrTypes
  <2>4. ThrLockInv' /\ ThrCopyInv'
    BY <1>1, <2>2 DEF ThrIInv, ThrLockInv, ThrCopyInv, ClientHolds, WorkerHolds, NoCall
  <2> QED BY <1>2, <2>3, <2>4 DEF ThrIInv
<1> QED BY <1>3, <1>4

\* The conductor writes the row: with the callbackUri it still has.
LEMMA StoreRowStep ==
    ASSUME ThrIInv, NEW w \in ThrWorkers, StoreThrRow(w)
    PROVE  ThrIInv'
<1>1. PICK h \in Thresholds, v \in Values, row \in ThrRow :
         h = thrWorker[w].cast.id /\ v = thrWorker[w].cast.value /\ row = thrWorker[w].row
  BY WorkerCalls DEF StoreThrRow, ThrIInv
<1>2. /\ thrWorker[w].pc = "write" /\ h \in DOMAIN thr
      /\ row.callbackUri = thr[h].callbackUri /\ row.value = v
      /\ thrWorker' = [thrWorker EXCEPT ![w].pc = "notify"]
      /\ thr' = PutThr(h, row)
      /\ thrValue' = [thrValue EXCEPT ![h] = v]
      /\ UNCHANGED <<thrClient, thrCasts, thrUsed, thrAlerts, thrUri, thrGone>>
  BY <1>1 DEF StoreThrRow, ThrIInv, ThrCopyInv
<1>3. /\ thrWorker' \in [ThrWorkers -> {NoCall} \cup StoreCall]
      /\ thrWorker'[w].pc = "notify"
      /\ \A x \in ThrWorkers : x # w => thrWorker'[x] = thrWorker[x]
  <2>1. thrWorker[w] \in StoreCall
    BY <1>2, WorkerCalls DEF ThrIInv
  <2>2. [thrWorker[w] EXCEPT !.pc = "notify"] \in StoreCall /\ [thrWorker[w] EXCEPT !.pc = "notify"].pc = "notify"
    BY <2>1 DEF StoreCall
  <2> QED BY <1>2, <2>2 DEF ThrIInv, ThrTypes
<1>4. /\ DOMAIN thr' = DOMAIN thr
      /\ thr'[h] = row
      /\ \A x \in DOMAIN thr : x # h => thr'[x] = thr[x]
      /\ thr' \in [DOMAIN thr' -> ThrRow]
  BY <1>2 DEF PutThr, ThrIInv, ThrTypes
<1>5. /\ thrValue' \in [Thresholds -> Values \cup {Unmeasured}]
      /\ \A x \in Thresholds : thrValue'[x] = IF x = h THEN v ELSE thrValue[x]
  BY <1>2 DEF ThrIInv, ThrTypes
<1>6. /\ \A x \in ThrWorkers : x # w => ~WorkerHolds(x, h)
      /\ \A u \in ThrClients : ~ClientHolds(u, h)
  BY <1>1, <1>2 DEF ThrIInv, ThrLockInv, WorkerHolds
<1>7. ThrTypes'
  BY <1>2, <1>3, <1>4, <1>5 DEF ThrIInv, ThrTypes
<1>8. ThrLockInv'
  BY <1>2, <1>3 DEF ThrIInv, ThrLockInv, ClientHolds, WorkerHolds
<1>9. ThrCopyInv'
  BY <1>2, <1>3, <1>4, <1>6 DEF ThrIInv, ThrCopyInv, ClientHolds, WorkerHolds
<1>10. ThrNewInv'
  <2>1. \A x \in Thresholds : Blank(x) => Blank(x)'
    BY <1>2, <1>4, <1>5 DEF Blank
  <2> QED BY <1>2, <2>1, ClientCalls DEF ThrIInv, ThrNewInv
<1>11. ThresholdKept'
  BY <1>2, <1>4, <1>5 DEF ThrIInv, ThrTypes, ThresholdKept
<1> QED BY <1>7, <1>8, <1>9, <1>10, <1>11 DEF ThrIInv

\* The notification of a crossing writes no row.
LEMMA NotifyStep ==
    ASSUME ThrIInv, NEW w \in ThrWorkers, store_threshold_info(w)
    PROVE  ThrIInv'
<1>1. /\ thrWorker' = [thrWorker EXCEPT ![w] = NoCall]
      /\ UNCHANGED <<thr, thrClient, thrCasts, thrUsed, thrAlerts, thrUri, thrGone, thrValue>>
  BY DEF store_threshold_info
<1>2. /\ thrWorker' \in [ThrWorkers -> {NoCall} \cup StoreCall]
      /\ thrWorker'[w] = NoCall
      /\ \A x \in ThrWorkers : x # w => thrWorker'[x] = thrWorker[x]
  BY <1>1 DEF ThrIInv, ThrTypes
<1>3. ThrTypes'
  BY <1>1, <1>2 DEF ThrIInv, ThrTypes
<1>4. ThrLockInv' /\ ThrCopyInv'
  BY <1>1, <1>2 DEF ThrIInv, ThrLockInv, ThrCopyInv, ClientHolds, WorkerHolds, NoCall
<1>5. ThrNewInv' /\ ThresholdKept'
  BY <1>1 DEF ThrIInv, ThrNewInv, ThresholdKept, Blank
<1> QED BY <1>3, <1>4, <1>5 DEF ThrIInv

\* Every step of a request, of an alert and of the conductor keeps the
\* invariant.
LEMMA ThrStep == ThrIInv /\ [PmThresholdNext]_thrVars => ThrIInv'
<1> SUFFICES ASSUME ThrIInv, [PmThresholdNext]_thrVars PROVE ThrIInv'
  OBVIOUS
<1>1. CASE UNCHANGED thrVars
  BY <1>1 DEF thrVars, ThrIInv, ThrTypes, ThrLockInv, ThrCopyInv, ThrNewInv, ThresholdKept,
              Blank, ClientHolds, WorkerHolds
<1>2. CASE PmThresholdNext
  BY <1>2, CreateStep, LockStep, CreateRowStep, PatchRowStep, DeleteRowStep, AlertStep,
     ReadRowStep, StoreRowStep, NotifyStep DEF PmThresholdNext
<1> QED BY <1>1, <1>2

\* A threshold has the callbackUri that was set last and the value that was
\* stored last, and one that was deleted stays deleted.
THEOREM ThresholdsKept == PmThresholdSpec => []ThresholdKept
<1>1. ThrIInv => ThresholdKept
  BY DEF ThrIInv
<1> QED BY <1>1, ThrInitInv, ThrStep, PTL DEF PmThresholdSpec

----------------------------------------------------------------------------
(* A crossing that is notified is one.                                      *)

\* The direction was computed against this value.
Compared(c, v) == c.direction = set_crossing_direction(c.value, set_threshold_last_value(v))

\* A cast that waits was compared with the value that the row has, and a
\* value that is being stored with the one it replaces, if no alert came
\* while another value was under way.
ComparedInv ==
    /\ \A c \in thrCasts : c.id \in DOMAIN thr \cup thrGone
    /\ \A c \in thrCasts :
          c.id \notin thrHasty /\ c.id \in DOMAIN thr => Compared(c, thr[c.id].value)
    /\ \A w \in ThrWorkers :
          thrWorker[w].pc # "idle" /\ thrWorker[w].cast.id \notin thrHasty
              => Compared(thrWorker[w].cast, thrWorker[w].prev)
    /\ \A x \in crossed : x.id \notin thrHasty => Compared(x, x.prev) /\ x.direction # "IN"

\* At most one value of such a threshold is under way.
OneUnderWay ==
    /\ \A c1, c2 \in thrCasts : c1.id = c2.id /\ c1.id \notin thrHasty => c1 = c2
    /\ \A c \in thrCasts, w \in ThrWorkers :
          c.id \notin thrHasty => ~(thrWorker[w].pc = "write" /\ thrWorker[w].cast.id = c.id)

CrossIInv == ThrIInv /\ ComparedInv /\ OneUnderWay

\* The requests on thresholds write the value they have read, and create only
\* thresholds that no alert can be about.
LEMMA CrossRequests ==
    ASSUME CrossIInv, ThrIInv', NEW u \in ThrClients, NEW h \in Thresholds,
           \/ create_threshold(u, h) \/ update_threshold(u, h) \/ delete_threshold(u, h)
           \/ create_threshold_row(u) \/ update_threshold_row(u) \/ delete_threshold_row(u)
    PROVE  CrossIInv'
<1>1. UNCHANGED <<thrWorker, thrCasts, thrHasty, crossed>>
  BY DEF create_threshold, update_threshold, delete_threshold, create_threshold_row,
         update_threshold_row, delete_threshold_row
<1>2. /\ DOMAIN thr \cup thrGone \subseteq (DOMAIN thr \cup thrGone)'
      /\ \A x \in DOMAIN thr' : x \in DOMAIN thr \cup thrGone =>
            x \in DOMAIN thr /\ thr'[x].value = thr[x].value
  <2>1. CASE create_threshold(u, h) \/ update_threshold(u, h) \/ delete_threshold(u, h)
    <3>1. UNCHANGED <<thr, thrGone>>
      BY <2>1 DEF create_threshold, update_threshold, delete_threshold
    <3> QED BY <3>1 DEF CrossIInv, ThrIInv, ThresholdKept
  <2>2. CASE create_threshold_row(u)
    BY <2>2 DEF create_threshold_row, PutThr, CrossIInv, ThrIInv, ThrNewInv, Blank, ThresholdKept
  <2>3. CASE update_threshold_row(u)
    BY <2>3 DEF update_threshold_row, PutThr, CrossIInv, ThrIInv, ThrCopyInv, ThresholdKept
  <2>4. CASE delete_threshold_row(u)
    BY <2>4 DEF delete_threshold_row, CrossIInv, ThrIInv, ThresholdKept
  <2> QED BY <2>1, <2>2, <2>3, <2>4
<1>3. OneUnderWay'
  BY <1>1 DEF CrossIInv, OneUnderWay
<1>4. ComparedInv'
  BY <1>1, <1>2 DEF CrossIInv, ComparedInv, Compared
<1> QED BY <1>3, <1>4 DEF CrossIInv

\* An alert compares its value with the row; it makes the threshold hasty if
\* another value is under way.
LEMMA CrossAlert ==
    ASSUME CrossIInv, ThrIInv', NEW h \in Thresholds, NEW v \in Values, threshold_alert(h, v)
    PROVE  CrossIInv'
<1>1. PICK c : /\ c.id = h /\ c.value = v /\ Compared(c, thr[h].value)
               /\ thrCasts' = thrCasts \cup {c}
  BY DEF threshold_alert, Compared
<1>2. /\ h \in DOMAIN thr /\ thrHasty \subseteq thrHasty'
      /\ UNCHANGED <<thr, thrWorker, thrGone, crossed>>
      /\ h \notin thrHasty' => /\ \A d \in thrCasts : d.id # h
                               /\ \A w \in ThrWorkers : ~(thrWorker[w].pc = "write" /\ thrWorker[w].cast.id = h)
  BY DEF threshold_alert
<1>3. OneUnderWay'
  BY <1>1, <1>2 DEF CrossIInv, OneUnderWay
<1>4. ComparedInv'
  BY <1>1, <1>2 DEF CrossIInv, ComparedInv, Compared
<1> QED BY <1>3, <1>4 DEF CrossIInv

\* The conductor takes a cast: the value it will replace is the one the cast
\* was compared with.
LEMMA CrossRead ==
    ASSUME CrossIInv, ThrIInv', NEW w \in ThrWorkers, NEW c \in thrCasts,
           update_threshold_state_data(w, c)
    PROVE  CrossIInv'
<1>1. /\ thrCasts' = thrCasts \ {c} /\ UNCHANGED <<thr, thrGone, thrHasty, crossed>>
      /\ \A x \in ThrWorkers : x # w => thrWorker'[x] = thrWorker[x]
  BY DEF update_threshold_state_data, CrossIInv, ThrIInv, ThrTypes
<1>2. \/ thrWorker'[w].pc = "idle"
      \/ /\ thrWorker'[w].pc = "write" /\ thrWorker'[w].cast = c /\ thrWorker'[w].prev = thr[c.id].value
         /\ c.id \in DOMAIN thr
  BY DEF update_threshold_state_data, CrossIInv, ThrIInv, ThrTypes, NoCall
<1>3. OneUnderWay'
  BY <1>1, <1>2 DEF CrossIInv, OneUnderWay
<1>4. ComparedInv'
  BY <1>1, <1>2 DEF CrossIInv, ComparedInv, Compared
<1> QED BY <1>3, <1>4 DEF CrossIInv

\* The value is stored: no cast that waits was compared with the old one.
LEMMA CrossStore ==
    ASSUME CrossIInv, ThrIInv', NEW w \in ThrWorkers, StoreThrRow(w)
    PROVE  CrossIInv'
<1> DEFINE h == thrWorker[w].cast.id
<1>1. /\ UNCHANGED <<thrCasts, thrGone, thrHasty, crossed>> /\ thrWorker[w].pc = "write"
      /\ h \in DOMAIN thr /\ DOMAIN thr' = DOMAIN thr
      /\ \A x \in DOMAIN thr : x # h => thr'[x] = thr[x]
  BY DEF StoreThrRow, PutThr, CrossIInv, ThrIInv, ThrCopyInv
<1>2. /\ \A x \in ThrWorkers : x # w => thrWorker'[x] = thrWorker[x]
      /\ thrWorker'[w].pc = "notify" /\ thrWorker'[w].cast = thrWorker[w].cast
      /\ thrWorker'[w].prev = thrWorker[w].prev
  <2>1. thrWorker[w] \in StoreCall /\ thrWorker \in [ThrWorkers -> {NoCall} \cup StoreCall]
    BY <1>1, WorkerCalls DEF CrossIInv, ThrIInv, ThrTypes
  <2> QED BY <2>1 DEF StoreThrRow, StoreCall
<1> HIDE DEF h
<1>3. OneUnderWay'
  BY <1>1, <1>2 DEF CrossIInv, OneUnderWay
<1>4. \A c \in thrCasts : c.id \notin thrHasty => c.id # h
  BY <1>1 DEF CrossIInv, OneUnderWay, h
<1>5. ComparedInv'
  BY <1>1, <1>2, <1>4 DEF CrossIInv, ComparedInv, Compared
<1> QED BY <1>3, <1>5 DEF CrossIInv

\* The crossing is notified with the direction of the cast.
LEMMA CrossNotify ==
    ASSUME CrossIInv, ThrIInv', NEW w \in ThrWorkers, store_threshold_info(w)
    PROVE  CrossIInv'
<1>1. /\ UNCHANGED <<thr, thrCasts, thrGone, thrHasty>> /\ thrWorker[w].pc = "notify"
      /\ \A x \in ThrWorkers : x # w => thrWorker'[x] = thrWorker[x]
      /\ thrWorker'[w].pc = "idle"
  BY DEF store_threshold_info, CrossIInv, ThrIInv, ThrTypes, NoCall
<1>2. \A x \in crossed' : \/ x \in crossed
                          \/ /\ x.id = thrWorker[w].cast.id /\ x.direction = thrWorker[w].cast.direction
                             /\ x.value = thrWorker[w].cast.value /\ x.prev = thrWorker[w].prev
                             /\ x.direction # "IN"
  BY DEF store_threshold_info
<1>3. OneUnderWay'
  BY <1>1 DEF CrossIInv, OneUnderWay
<1>4. ComparedInv'
  BY <1>1, <1>2 DEF CrossIInv, ComparedInv, Compared
<1> QED BY <1>3, <1>4 DEF CrossIInv

\* Every step keeps the comparison true.
LEMMA CrossStep == CrossIInv /\ [PmThresholdNext]_thrVars => CrossIInv'
<1> SUFFICES ASSUME CrossIInv, [PmThresholdNext]_thrVars PROVE CrossIInv'
  OBVIOUS
<1>1. ThrIInv'
  BY ThrStep DEF CrossIInv
<1>2. CASE UNCHANGED thrVars
  BY <1>1, <1>2 DEF thrVars, CrossIInv, ComparedInv, Compared, OneUnderWay
<1>3. ASSUME NEW u \in ThrClients,
             create_threshold_row(u) \/ update_threshold_row(u) \/ delete_threshold_row(u)
      PROVE  CrossIInv'
  <2>1. PICK h \in Thresholds : TRUE
    BY <1>3, ClientCalls DEF CrossIInv, ThrIInv, create_threshold_row, update_threshold_row, delete_threshold_row
  <2> QED BY <1>1, <1>3, <2>1, CrossRequests
<1>4. CASE PmThresholdNext
  BY <1>1, <1>3, <1>4, CrossRequests, CrossAlert, CrossRead, CrossStore, CrossNotify DEF PmThresholdNext
<1> QED BY <1>2, <1>4

\* A crossing is notified only when the value went to the other side of the
\* band, or out of it: set_crossing_direction compares with the value that is
\* replaced, unless alerts overtake each other.
THEOREM CrossingsAreReal == PmThresholdSpec => []CrossingIsReal
<1>1. PmThresholdInit => CrossIInv
  <2> SUFFICES ASSUME PmThresholdInit PROVE CrossIInv
    OBVIOUS
  <2>1. thrCasts = {} /\ crossed = {} /\ \A w \in ThrWorkers : thrWorker[w].pc = "idle"
    BY DEF PmThresholdInit, NoCall
  <2> QED BY <2>1, ThrInitInv DEF CrossIInv, ComparedInv, OneUnderWay
<1>2. CrossIInv => CrossingIsReal
  <2> SUFFICES ASSUME CrossIInv, NEW x \in crossed, x.id \notin thrHasty, x.prev \notin {Unmeasured, 0}
               PROVE  \/ x.direction = "UP" /\ x.prev <= thresholdValue + hysteresis /\ x.value > thresholdValue + hysteresis
                      \/ x.direction = "DOWN" /\ x.prev >= thresholdValue - hysteresis /\ x.value < thresholdValue - hysteresis
    BY DEF CrossingIsReal
  <2>1. x.direction = set_crossing_direction(x.value, x.prev) /\ x.direction # "IN"
    BY DEF CrossIInv, ComparedInv, Compared, set_threshold_last_value
  <2> QED BY <2>1, PmThresholdAssumption DEF set_crossing_direction
<1> QED BY <1>1, <1>2, CrossStep, PTL DEF PmThresholdSpec

============================================================================
