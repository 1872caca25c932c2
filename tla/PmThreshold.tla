---------------------------- MODULE PmThreshold ----------------------------
(***************************************************************************)
(* PM thresholds: the requests on /thresholds (vnfpm_v2.py), the alerts     *)
(* that report a value (class PrometheusPluginThreshold) and the conductor  *)
(* that stores it and notifies crossings (vnfpm_driver_v2.py).              *)
(*                                                                         *)
(* Whoever writes a threshold holds lock_resources('{thresholdId}'), the    *)
(* conductor too; the lock does not wait, so a value that arrives while a   *)
(* request is served is dropped.  The direction of a crossing is computed   *)
(* by the API server, from the value the conductor stored last.             *)
(***************************************************************************)
EXTENDS PrometheusRules, Integers

CONSTANTS Thresholds,             \* identifiers
          ThrClients, ThrWorkers, \* threads of the API server, of the conductor
          Values,                 \* values of the metric
          thresholdValue, hysteresis,
          MaxThrAlerts, MaxThrUri \* bounds of alerts and of PATCH requests

ASSUME PmThresholdAssumption ==
    /\ Values \subseteq Nat
    /\ thresholdValue \in Nat /\ hysteresis \in Nat
    /\ MaxThrAlerts \in Nat /\ MaxThrUri \in Nat

Unmeasured == -1          \* no thresholdState in the metadata

VARIABLES thr,        \* the rows: a function on identifiers of thresholds
          thrRules,   \* hosts that have the rule file of a threshold
          thrClient, thrWorker,   \* step, threshold and copy of a thread
          thrCasts,   \* store_threshold_state_info casts not received yet
          thrUsed,    \* identifiers given out
          thrAlerts,  \* number of alerts so far
          thrUri,     \* history: callbackUri that was set last
          thrGone,    \* history: thresholds that were deleted
          thrValue,   \* history: value that was stored last
          thrHasty,   \* history: thresholds with an alert while a cast was under way
          crossed     \* history: crossings notified, with the value replaced

thrVars == <<thr, thrRules, thrClient, thrWorker, thrCasts, thrUsed, thrAlerts,
             thrUri, thrGone, thrValue, thrHasty, crossed>>

Directions == {"UP", "DOWN", "IN"}
ThrRow == [callbackUri : 0..MaxThrUri, value : Values \cup {Unmeasured}]
NoCall == [pc |-> "idle"]

PmThresholdTypeOK ==
    /\ thr \in [DOMAIN thr -> ThrRow] /\ DOMAIN thr \subseteq thrUsed
    /\ thrRules \in [Thresholds -> SUBSET Hosts]
    /\ \A u \in ThrClients : thrClient[u].pc \in {"idle", "create", "patch", "delete"}
    /\ \A w \in ThrWorkers : thrWorker[w].pc \in {"idle", "write", "notify"}
    /\ thrCasts \subseteq [n : 1..MaxThrAlerts, id : Thresholds, value : Values, direction : Directions]
    /\ thrAlerts \in 0..MaxThrAlerts

PmThresholdInit ==
    /\ thr = [h \in {} |-> NoCall]
    /\ thrRules = [h \in Thresholds |-> {}]
    /\ thrClient = [u \in ThrClients |-> NoCall]
    /\ thrWorker = [w \in ThrWorkers |-> NoCall]
    /\ thrCasts = {}
    /\ thrUsed = {}
    /\ thrAlerts = 0
    /\ thrUri = [h \in Thresholds |-> 0]
    /\ thrGone = {}
    /\ thrValue = [h \in Thresholds |-> Unmeasured]
    /\ thrHasty = {}
    /\ crossed = {}

PutThr(h, row) == [x \in DOMAIN thr \cup {h} |-> IF x = h THEN row ELSE thr[x]]

\* Mutant of ThrLockFree: the conductor and the requests overlap.
ThrNoLock(h) == TRUE

ThrLockFree(h) ==
    /\ \A u \in ThrClients : thrClient[u].pc \in {"patch", "delete"} => thrClient[u].id # h
    /\ \A w \in ThrWorkers : thrWorker[w].pc = "write" => thrWorker[w].cast.id # h

----------------------------------------------------------------------------
(* VnfPmControllerV2 *)

create_threshold(u, h) ==
    /\ thrClient[u].pc = "idle"
    /\ h \notin thrUsed
    /\ thrUsed' = thrUsed \cup {h}
    /\ \E o \in UploadOutcomes :
          /\ thrRules' = [thrRules EXCEPT ![h] = o.files]
          /\ thrClient' = [thrClient EXCEPT ![u] =
                               IF o.ok THEN [pc |-> "create", id |-> h] ELSE NoCall]
    /\ UNCHANGED <<thr, thrWorker, thrCasts, thrAlerts, thrUri, thrGone, thrValue, thrHasty, crossed>>

create_threshold_row(u) ==
    /\ thrClient[u].pc = "create"
    /\ thr' = PutThr(thrClient[u].id, [callbackUri |-> 0, value |-> Unmeasured])
    /\ thrClient' = [thrClient EXCEPT ![u] = NoCall]
    /\ UNCHANGED <<thrRules, thrWorker, thrCasts, thrUsed, thrAlerts, thrUri, thrGone, thrValue,
                   thrHasty, crossed>>

update_threshold(u, h) ==
    /\ thrClient[u].pc = "idle"
    /\ ThrLockFree(h)
    /\ h \in DOMAIN thr
    /\ thrUri[h] < MaxThrUri
    /\ thrClient' = [thrClient EXCEPT ![u] =
                         [pc |-> "patch", id |-> h, row |-> [thr[h] EXCEPT !.callbackUri = thrUri[h] + 1]]]
    /\ UNCHANGED <<thr, thrRules, thrWorker, thrCasts, thrUsed, thrAlerts, thrUri, thrGone, thrValue,
                   thrHasty, crossed>>

update_threshold_row(u) ==
    /\ thrClient[u].pc = "patch"
    /\ thr' = PutThr(thrClient[u].id, thrClient[u].row)
    /\ thrUri' = [thrUri EXCEPT ![thrClient[u].id] = thrClient[u].row.callbackUri]
    /\ thrClient' = [thrClient EXCEPT ![u] = NoCall]
    /\ UNCHANGED <<thrRules, thrWorker, thrCasts, thrUsed, thrAlerts, thrGone, thrValue, thrHasty, crossed>>

delete_threshold(u, h) ==
    /\ thrClient[u].pc = "idle"
    /\ ThrLockFree(h)
    /\ h \in DOMAIN thr
    /\ \E o \in DeleteOutcomes(thrRules[h]) :
          /\ thrRules' = [thrRules EXCEPT ![h] = o.files]
          /\ thrClient' = [thrClient EXCEPT ![u] =
                               IF o.ok THEN [pc |-> "delete", id |-> h] ELSE NoCall]
    /\ UNCHANGED <<thr, thrWorker, thrCasts, thrUsed, thrAlerts, thrUri, thrGone, thrValue, thrHasty, crossed>>

delete_threshold_row(u) ==
    /\ thrClient[u].pc = "delete"
    /\ thr' = [x \in DOMAIN thr \ {thrClient[u].id} |-> thr[x]]
    /\ thrGone' = thrGone \cup {thrClient[u].id}
    /\ thrClient' = [thrClient EXCEPT ![u] = NoCall]
    /\ UNCHANGED <<thrRules, thrWorker, thrCasts, thrUsed, thrAlerts, thrUri, thrValue, thrHasty, crossed>>

----------------------------------------------------------------------------
(* PrometheusPluginThreshold *)

\* A stored value of 0 counts as none.
set_threshold_last_value(value) == IF value \in {Unmeasured, 0} THEN thresholdValue ELSE value

\* Mutant of set_crossing_direction: the last value is not looked at.
DirectionOfValue(new, last) ==
    IF new > thresholdValue + hysteresis THEN "UP"
    ELSE IF new < thresholdValue - hysteresis THEN "DOWN" ELSE "IN"

set_crossing_direction(new, last) ==
    IF new < thresholdValue - hysteresis /\ thresholdValue - hysteresis <= last THEN "DOWN"
    ELSE IF new > thresholdValue + hysteresis /\ thresholdValue + hysteresis >= last THEN "UP"
    ELSE "IN"

\* An alert for a threshold that is gone is skipped.
threshold_alert(h, v) ==
    LET last == set_threshold_last_value(thr[h].value) IN
    /\ thrAlerts < MaxThrAlerts
    /\ h \in DOMAIN thr
    /\ thrAlerts' = thrAlerts + 1
    /\ thrCasts' = thrCasts \cup
           {[n |-> thrAlerts', id |-> h, value |-> v, direction |-> set_crossing_direction(v, last)]}
    /\ thrHasty' = IF \/ \E c \in thrCasts : c.id = h
                      \/ \E w \in ThrWorkers : thrWorker[w].pc = "write" /\ thrWorker[w].cast.id = h
                   THEN thrHasty \cup {h} ELSE thrHasty
    /\ UNCHANGED <<thr, thrRules, thrClient, thrWorker, thrUsed, thrUri, thrGone, thrValue, crossed>>

----------------------------------------------------------------------------
(* VnfPmDriverV2.store_threshold_info *)

\* A lock that is taken, or a threshold that is gone, ends the cast.
update_threshold_state_data(w, c) ==
    /\ thrWorker[w].pc = "idle"
    /\ c \in thrCasts
    /\ thrCasts' = thrCasts \ {c}
    /\ thrWorker' = [thrWorker EXCEPT ![w] =
           IF ThrLockFree(c.id) /\ c.id \in DOMAIN thr
           THEN [pc |-> "write", cast |-> c, row |-> [thr[c.id] EXCEPT !.value = c.value], prev |-> thr[c.id].value]
           ELSE NoCall]
    /\ UNCHANGED <<thr, thrRules, thrClient, thrUsed, thrAlerts, thrUri, thrGone, thrValue, thrHasty, crossed>>

StoreThrRow(w) ==
    LET c == thrWorker[w].cast IN
    /\ thrWorker[w].pc = "write"
    /\ thr' = PutThr(c.id, thrWorker[w].row)
    /\ thrValue' = [thrValue EXCEPT ![c.id] = c.value]
    /\ thrWorker' = [thrWorker EXCEPT ![w].pc = "notify"]
    /\ UNCHANGED <<thrRules, thrClient, thrCasts, thrUsed, thrAlerts, thrUri, thrGone, thrHasty, crossed>>

store_threshold_info(w) ==
    LET c == thrWorker[w].cast IN
    /\ thrWorker[w].pc = "notify"
    /\ crossed' = IF c.id \in DOMAIN thr /\ c.direction # "IN"
                  THEN crossed \cup {[id |-> c.id, direction |-> c.direction,
                                      value |-> c.value, prev |-> thrWorker[w].prev]}
                  ELSE crossed
    /\ thrWorker' = [thrWorker EXCEPT ![w] = NoCall]
    /\ UNCHANGED <<thr, thrRules, thrClient, thrCasts, thrUsed, thrAlerts, thrUri, thrGone, thrValue, thrHasty>>

----------------------------------------------------------------------------
PmThresholdNext ==
    \/ \E u \in ThrClients, h \in Thresholds :
          create_threshold(u, h) \/ update_threshold(u, h) \/ delete_threshold(u, h)
    \/ \E u \in ThrClients : create_threshold_row(u) \/ update_threshold_row(u) \/ delete_threshold_row(u)
    \/ \E h \in Thresholds, v \in Values : threshold_alert(h, v)
    \/ \E w \in ThrWorkers, c \in thrCasts : update_threshold_state_data(w, c)
    \/ \E w \in ThrWorkers : StoreThrRow(w) \/ store_threshold_info(w)

PmThresholdSpec == PmThresholdInit /\ [][PmThresholdNext]_thrVars

----------------------------------------------------------------------------
(* Properties *)

\* Requests and stored values undo nothing of each other: a threshold has the
\* callbackUri that was set last and the value that was stored last, and one
\* that was deleted stays deleted (update() would insert the row again).
ThresholdKept ==
    /\ \A h \in DOMAIN thr : thr[h].callbackUri = thrUri[h] /\ thr[h].value = thrValue[h]
    /\ DOMAIN thr \cap thrGone = {}

\* A crossing is notified only when the value went from one side of the band
\* around thresholdValue to the other or out of it: not for every value beyond
\* the threshold.  Except that values stored out of the order they were
\* compared in tell nothing, and that a stored 0 counts as thresholdValue.
CrossingIsReal ==
    \A x \in crossed :
        x.id \notin thrHasty /\ x.prev \notin {Unmeasured, 0} =>
            \/ x.direction = "UP" /\ x.prev <= thresholdValue + hysteresis /\ x.value > thresholdValue + hysteresis
            \/ x.direction = "DOWN" /\ x.prev >= thresholdValue - hysteresis /\ x.value < thresholdValue - hysteresis

============================================================================
