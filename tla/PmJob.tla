------------------------------- MODULE PmJob -------------------------------
(***************************************************************************)
(* PM jobs: the requests on /pm_jobs (vnfpm_v2.py), the alerts that report  *)
(* measurements (class PrometheusPluginPm) and the conductor that stores    *)
(* the reports (vnfpm_driver_v2.py).                                        *)
(*                                                                         *)
(* Requests on a job hold lock_resources('{id}'); the conductor appends to  *)
(* the reports of a job without it.  update() of an object writes back      *)
(* every attribute of the copy, and inserts the row if it is gone.          *)
(***************************************************************************)
EXTENDS PrometheusRules

CONSTANTS Jobs, Reports,          \* identifiers; bound what is ever created
          JobClients, JobWorkers, \* threads of the API server, of the conductor
          Period,                 \* reportingPeriod - reporting_period_margin
          Boundary,               \* reportingBoundary
          MaxTime, MaxUri         \* bounds of the clock and of PATCH requests

ASSUME PmJobAssumption ==
    Period \in Nat /\ Boundary \in Nat /\ MaxTime \in Nat /\ MaxUri \in Nat

VARIABLES job,        \* the rows: a function on identifiers of jobs
          report,     \* the rows of performance reports, likewise
          rules,      \* rules[j]: hosts that have the rule file of job j
          jobClient,  \* jobClient[u]: step, job and copy of a client thread
          jobWorker,  \* jobWorker[w]: likewise for a store_job_info
          jobCasts,   \* store_job_info casts not received yet
          used,       \* identifiers of jobs and reports given out
          clock,
          uri,        \* history: callbackUri that was set last
          gone,       \* history: jobs that were deleted
          asked,      \* history: jobs with a DELETE request
          jobRaced,   \* history: jobs stored while they were written otherwise
          hasty       \* history: jobs with an alert while a cast was under way

jobVars == <<job, report, rules, jobClient, jobWorker, jobCasts, used, clock, uri, gone, asked, jobRaced, hasty>>

JobRow == [reports : SUBSET Reports, callbackUri : 0..MaxUri]
Free == [pc |-> "idle"]

PmJobTypeOK ==
    /\ job \in [DOMAIN job -> JobRow] /\ DOMAIN job \subseteq used
    /\ report \in [DOMAIN report -> [job : Jobs, time : 0..MaxTime]] /\ DOMAIN report \subseteq used
    /\ rules \in [Jobs -> SUBSET Hosts]
    /\ \A u \in JobClients : jobClient[u].pc \in {"idle", "create", "patch", "delete", "drop"}
    /\ \A w \in JobWorkers : jobWorker[w].pc \in {"idle", "read", "write"}
    /\ jobCasts \subseteq [id : Reports, job : Jobs, time : 0..MaxTime]
    /\ clock \in 0..MaxTime

PmJobInit ==
    /\ job = [j \in {} |-> Free]
    /\ report = [r \in {} |-> Free]
    /\ rules = [j \in Jobs |-> {}]
    /\ jobClient = [u \in JobClients |-> Free]
    /\ jobWorker = [w \in JobWorkers |-> Free]
    /\ jobCasts = {}
    /\ used = {}
    /\ clock = 0
    /\ uri = [j \in Jobs |-> 0]
    /\ gone = {}
    /\ asked = {}
    /\ jobRaced = {}
    /\ hasty = {}

Put(f, k, v) == [x \in DOMAIN f \cup {k} |-> IF x = k THEN v ELSE f[x]]
Without(f, ks) == [x \in DOMAIN f \ ks |-> f[x]]

\* lock_resources('{id}') does not wait.
LockFree(j) == \A u \in JobClients : jobClient[u].pc \in {"patch", "delete", "drop"} => jobClient[u].job # j

\* A cast of the job that a worker is still storing.
Storing(j) == \E w \in JobWorkers : jobWorker[w].pc # "idle" /\ jobWorker[w].rep.job = j

----------------------------------------------------------------------------
(* VnfPmControllerV2 *)

\* The rules are uploaded before the row is created.
create(u, j) ==
    /\ jobClient[u].pc = "idle"
    /\ j \in Jobs \ used
    /\ used' = used \cup {j}
    /\ \E o \in UploadOutcomes :
          /\ rules' = [rules EXCEPT ![j] = o.files]
          /\ jobClient' = [jobClient EXCEPT ![u] =
                               IF o.ok THEN [pc |-> "create", job |-> j] ELSE Free]
    /\ UNCHANGED <<job, report, jobWorker, jobCasts, clock, uri, gone, asked, jobRaced, hasty>>

create_row(u) ==
    /\ jobClient[u].pc = "create"
    /\ job' = Put(job, jobClient[u].job, [reports |-> {}, callbackUri |-> 0])
    /\ jobClient' = [jobClient EXCEPT ![u] = Free]
    /\ UNCHANGED <<report, rules, jobWorker, jobCasts, used, clock, uri, gone, asked, jobRaced, hasty>>

update(u, j) ==
    /\ jobClient[u].pc = "idle"
    /\ LockFree(j)
    /\ j \in DOMAIN job
    /\ uri[j] < MaxUri
    /\ jobClient' = [jobClient EXCEPT ![u] =
                         [pc |-> "patch", job |-> j, row |-> [job[j] EXCEPT !.callbackUri = uri[j] + 1]]]
    /\ jobRaced' = IF Storing(j) THEN jobRaced \cup {j} ELSE jobRaced
    /\ UNCHANGED <<job, report, rules, jobWorker, jobCasts, used, clock, uri, gone, asked, hasty>>

update_row(u) ==
    /\ jobClient[u].pc = "patch"
    /\ job' = Put(job, jobClient[u].job, jobClient[u].row)
    /\ uri' = [uri EXCEPT ![jobClient[u].job] = jobClient[u].row.callbackUri]
    /\ jobClient' = [jobClient EXCEPT ![u] = Free]
    /\ UNCHANGED <<report, rules, jobWorker, jobCasts, used, clock, gone, asked, jobRaced, hasty>>

\* delete: the rules, the reports found, the row.
delete(u, j) ==
    /\ jobClient[u].pc = "idle"
    /\ LockFree(j)
    /\ j \in DOMAIN job
    /\ \E o \in DeleteOutcomes(rules[j]) :
          /\ rules' = [rules EXCEPT ![j] = o.files]
          /\ jobClient' = [jobClient EXCEPT ![u] =
                               IF o.ok THEN [pc |-> "delete", job |-> j] ELSE Free]
    /\ asked' = asked \cup {j}
    /\ jobRaced' = IF Storing(j) THEN jobRaced \cup {j} ELSE jobRaced
    /\ UNCHANGED <<job, report, jobWorker, jobCasts, used, clock, uri, gone, hasty>>

ReportsOf(j) == {r \in DOMAIN report : report[r].job = j}

delete_reports(u) ==
    /\ jobClient[u].pc = "delete"
    /\ report' = Without(report, ReportsOf(jobClient[u].job))
    /\ jobClient' = [jobClient EXCEPT ![u].pc = "drop"]
    /\ UNCHANGED <<job, rules, jobWorker, jobCasts, used, clock, uri, gone, asked, jobRaced, hasty>>

delete_row(u) ==
    /\ jobClient[u].pc = "drop"
    /\ job' = Without(job, {jobClient[u].job})
    /\ gone' = gone \cup {jobClient[u].job}
    /\ jobClient' = [jobClient EXCEPT ![u] = Free]
    /\ UNCHANGED <<report, rules, jobWorker, jobCasts, used, clock, uri, asked, jobRaced, hasty>>

----------------------------------------------------------------------------
(* PrometheusPluginPm *)

\* Mutant of filter_alert_by_time: only the boundary is looked at.
WithinBoundary(j) == clock <= Boundary

filter_alert_by_time(j) ==
    /\ clock <= Boundary
    /\ \A r \in ReportsOf(j) : report[r].time + Period < clock

\* An alert for a job that has no row ends the request (PMJobNotExist).
pm_alert(j) ==
    /\ j \in DOMAIN job
    /\ filter_alert_by_time(j)
    /\ \E r \in Reports \ used :
          /\ used' = used \cup {r}
          /\ jobCasts' = jobCasts \cup {[id |-> r, job |-> j, time |-> clock]}
    /\ hasty' = IF Storing(j) \/ \E c \in jobCasts : c.job = j THEN hasty \cup {j} ELSE hasty
    /\ UNCHANGED <<job, report, rules, jobClient, jobWorker, clock, uri, gone, asked, jobRaced>>

Tick ==
    /\ clock < MaxTime
    /\ clock' = clock + 1
    /\ UNCHANGED <<job, report, rules, jobClient, jobWorker, jobCasts, used, uri, gone, asked, jobRaced, hasty>>

----------------------------------------------------------------------------
(* VnfPmDriverV2.store_job_info *)

_store_report(w, c) ==
    /\ jobWorker[w].pc = "idle"
    /\ c \in jobCasts
    /\ jobCasts' = jobCasts \ {c}
    /\ report' = Put(report, c.id, [job |-> c.job, time |-> c.time])
    /\ jobWorker' = [jobWorker EXCEPT ![w] = [pc |-> "read", rep |-> c]]
    /\ jobRaced' = IF Storing(c.job) \/ ~LockFree(c.job) THEN jobRaced \cup {c.job} ELSE jobRaced
    /\ UNCHANGED <<job, rules, jobClient, used, clock, uri, gone, asked, hasty>>

\* Mutant of update_report: the report replaces the ones in the job.
ReplaceReports(w) ==
    LET c == jobWorker[w].rep IN
    /\ jobWorker[w].pc = "read"
    /\ jobWorker' = [jobWorker EXCEPT ![w] =
           IF c.job \in DOMAIN job
           THEN [pc |-> "write", rep |-> c, row |-> [job[c.job] EXCEPT !.reports = {c.id}]]
           ELSE Free]
    /\ UNCHANGED <<job, report, rules, jobClient, jobCasts, used, clock, uri, gone, asked, jobRaced, hasty>>

\* PMJobNotExist ends the cast.
update_report(w) ==
    LET c == jobWorker[w].rep IN
    /\ jobWorker[w].pc = "read"
    /\ jobWorker' = [jobWorker EXCEPT ![w] =
           IF c.job \in DOMAIN job
           THEN [pc |-> "write", rep |-> c, row |-> [job[c.job] EXCEPT !.reports = @ \cup {c.id}]]
           ELSE Free]
    /\ UNCHANGED <<job, report, rules, jobClient, jobCasts, used, clock, uri, gone, asked, jobRaced, hasty>>

_update_job_reports(w) ==
    /\ jobWorker[w].pc = "write"
    /\ job' = Put(job, jobWorker[w].rep.job, jobWorker[w].row)
    /\ jobWorker' = [jobWorker EXCEPT ![w] = Free]
    /\ UNCHANGED <<report, rules, jobClient, jobCasts, used, clock, uri, gone, asked, jobRaced, hasty>>

----------------------------------------------------------------------------
PmJobNext ==
    \/ \E u \in JobClients, j \in Jobs : create(u, j) \/ update(u, j) \/ delete(u, j)
    \/ \E u \in JobClients : create_row(u) \/ update_row(u) \/ delete_reports(u) \/ delete_row(u)
    \/ \E j \in Jobs : pm_alert(j)
    \/ \E w \in JobWorkers, c \in jobCasts : _store_report(w, c)
    \/ \E w \in JobWorkers : update_report(w) \/ _update_job_reports(w)
    \/ Tick

PmJobSpec == PmJobInit /\ [][PmJobNext]_jobVars

----------------------------------------------------------------------------
(* Properties *)

Busy(j) == Storing(j) \/ \E u \in JobClients : jobClient[u].pc # "idle" /\ jobClient[u].job = j

\* A job that was deleted stays deleted.  Until then it lists exactly its
\* reports, has the callbackUri that was set last and a rule file on every host
\* (until a DELETE, which may fail half way).  Unless its row was written by a
\* request and by the conductor, or by two casts, at the same time: nothing
\* keeps those apart, the conductor takes no lock.
JobComplete ==
    \A j \in DOMAIN job \ jobRaced :
        /\ j \notin gone
        /\ ~Busy(j) => /\ job[j].reports = ReportsOf(j)
                       /\ job[j].callbackUri = uri[j]
                       /\ j \notin asked => rules[j] = Hosts

\* Two reports of a job are more than a reporting period apart, if no alert for
\* it came in while a cast of an earlier one was under way.
OneReportPerPeriod ==
    \A r, q \in DOMAIN report :
        r # q /\ report[r].job = report[q].job /\ report[r].job \notin hasty =>
            report[r].time + Period < report[q].time \/ report[q].time + Period < report[r].time

============================================================================
