-------------------------- MODULE FaultManagement --------------------------
(***************************************************************************)
(* VNF fault management: the alerts of Prometheus become alarms (class      *)
(* PrometheusPluginFm of the API server), the conductor stores them         *)
(* (vnffm_driver_v1.py), clients acknowledge them (vnffm_v1.py).            *)
(*                                                                         *)
(* An alarm crosses the RPC as a copy of the row.  update() merges the      *)
(* attributes that are set in the copy into the row: an attribute that was  *)
(* None when the copy was read is unset and leaves the column alone.        *)
(***************************************************************************)
EXTENDS Naturals, Sequences, FiniteSets

CONSTANTS Fps,        \* fingerprints: the alerting rules that can fire
          AlarmIds,   \* bounds the alarms that are ever created
          FmReqs,     \* threads that serve alert requests
          FmClients,  \* threads that serve PATCH alarms/{id}
          MaxBodies,  \* bounds alert requests
          MaxAcks     \* bounds PATCH requests

NoAlarm == "noAlarm"
Statuses == {"firing", "resolved"}
AckStates == {"ACKNOWLEDGED", "UNACKNOWLEDGED"}

ASSUME AlarmIdsAssumption == NoAlarm \notin AlarmIds
ASSUME FmBoundsAssumption == MaxBodies \in Nat /\ MaxAcks \in Nat

VARIABLES alarm,      \* the rows: a function on the identifiers of stored alarms
          minted,     \* identifiers given to new alarms
          fmCasts,    \* store_alarm_info casts not received yet
          fmBody,     \* fmBody[q]: alerts of the request that q has to look at
          patch,      \* patch[u]: the alarm that client thread u is updating
          vnfcs,      \* fingerprints whose pod is a VNFC of an existing instance
          removed,    \* fingerprints whose instance is deleted
          bodies, acks,     \* number of requests so far
          lastStatus, \* history: status last looked at for a fingerprint
          crowded,    \* history: fingerprints looked at with a cast under way
          ackRaced    \* history: alarms updated with a cast under way

fmVars == <<alarm, minted, fmCasts, fmBody, patch, vnfcs, removed, bodies, acks,
            lastStatus, crowded, ackRaced>>

\* A row, and a copy of one: cleared is alarmClearedTime, acked is
\* alarmAcknowledgedTime, TRUE when the attribute is set.
Alarm == [fp : Fps, cleared : BOOLEAN, ackState : AckStates, acked : BOOLEAN]
AlertEntry == [fp : Fps, status : Statuses]
Bodies == {b \in UNION {[1..n -> AlertEntry] : n \in 1..2} :
              Len(b) = 2 => b[1].fp # b[2].fp}
NoPatch == [id |-> NoAlarm]
Rows == DOMAIN alarm

FmTypeOK ==
    /\ alarm \in [Rows -> Alarm]
    /\ Rows \subseteq minted /\ minted \subseteq AlarmIds
    /\ fmCasts \subseteq [id : AlarmIds, alarm : Alarm]
    /\ fmBody \in [FmReqs -> Seq(AlertEntry)]
    /\ patch \in [FmClients -> {NoPatch} \cup [id : AlarmIds, alarm : Alarm]]
    /\ vnfcs \subseteq Fps /\ removed \subseteq Fps
    /\ lastStatus \in [Fps -> Statuses]
    /\ crowded \subseteq Fps /\ ackRaced \subseteq AlarmIds

FmInit ==
    /\ alarm = [m \in {} |-> NoAlarm]
    /\ minted = {}
    /\ fmCasts = {}
    /\ fmBody = [q \in FmReqs |-> <<>>]
    /\ patch = [u \in FmClients |-> NoPatch]
    /\ vnfcs = Fps
    /\ removed = {}
    /\ bodies = 0
    /\ acks = 0
    /\ lastStatus = [f \in Fps |-> "resolved"]
    /\ crowded = {}
    /\ ackRaced = {}

----------------------------------------------------------------------------
(* PrometheusPluginFm, in the API server. *)

PostAlerts(q) ==
    /\ bodies < MaxBodies
    /\ fmBody[q] = <<>>
    /\ \E b \in Bodies : fmBody' = [fmBody EXCEPT ![q] = b]
    /\ bodies' = bodies + 1
    /\ UNCHANGED <<alarm, minted, fmCasts, patch, vnfcs, removed, acks, lastStatus, crowded, ackRaced>>

get_not_cleared_alarms(f) == {m \in Rows : alarm[m].fp = f /\ ~alarm[m].cleared}

update_alarm(ms) ==
    /\ fmCasts' = fmCasts \cup {[id |-> m, alarm |-> [alarm[m] EXCEPT !.cleared = TRUE]] : m \in ms}
    /\ UNCHANGED minted

create_new_alarm(f) ==
    \E m \in AlarmIds \ minted :
        /\ minted' = minted \cup {m}
        /\ fmCasts' = fmCasts \cup
               {[id |-> m, alarm |-> [fp |-> f, cleared |-> FALSE,
                                      ackState |-> "UNACKNOWLEDGED", acked |-> FALSE]]}

UnderWay(f) == \E c \in fmCasts : c.alarm.fp = f

\* Mutant of create_or_update_alarm: a firing alert does not look for an alarm
\* that is open already.
AlwaysCreate(f, status) ==
    LET open == get_not_cleared_alarms(f) IN
    \/ status = "resolved" /\ open # {} /\ update_alarm(open)
    \/ status = "firing" /\ f \notin removed /\ f \in vnfcs /\ create_new_alarm(f)
    \/ /\ (status = "resolved" /\ open = {}) \/ (status = "firing" /\ f \notin vnfcs)
       /\ UNCHANGED <<minted, fmCasts>>

\* Mutant of create_or_update_alarm: the VNFC is looked up for "resolved" too.
LookupFirst(f, status) ==
    LET open == get_not_cleared_alarms(f)
        create == status = "firing" /\ open = {} /\ f \in vnfcs
        update == status = "resolved" /\ open # {} /\ f \in vnfcs
    IN
    \/ update /\ update_alarm(open)
    \/ create /\ create_new_alarm(f)
    \/ ~update /\ ~create /\ UNCHANGED <<minted, fmCasts>>

\* PrometheusPluginSkipped leaves everything alone.
create_or_update_alarm(f, status) ==
    LET open == get_not_cleared_alarms(f)
        create == status = "firing" /\ open = {} /\ f \in vnfcs
        update == status = "resolved" /\ open # {}
    IN
    \/ update /\ update_alarm(open)
    \/ create /\ create_new_alarm(f)
    \/ ~update /\ ~create /\ UNCHANGED <<minted, fmCasts>>

\* One round of the loop of _alert.  An alert that would open an alarm of a
\* deleted instance raises VnfInstanceNotFound, which ends the request.
fm_alert(q) ==
    LET a == Head(fmBody[q])
        raises == a.status = "firing" /\ get_not_cleared_alarms(a.fp) = {} /\ a.fp \in removed
    IN
    /\ fmBody[q] # <<>>
    /\ \/ /\ raises
          /\ fmBody' = [fmBody EXCEPT ![q] = <<>>]
          /\ UNCHANGED <<minted, fmCasts, lastStatus, crowded>>
       \/ /\ ~raises
          /\ fmBody' = [fmBody EXCEPT ![q] = Tail(@)]
          /\ create_or_update_alarm(a.fp, a.status)
          /\ lastStatus' = [lastStatus EXCEPT ![a.fp] =
                                IF a.status = "firing" /\ a.fp \notin vnfcs THEN @ ELSE a.status]
          /\ crowded' = IF UnderWay(a.fp) THEN crowded \cup {a.fp} ELSE crowded
    /\ UNCHANGED <<alarm, patch, vnfcs, removed, bodies, acks, ackRaced>>

----------------------------------------------------------------------------
(* VnfFmDriverV1, in the conductor. *)

\* What update() makes of the row: only attributes set in the copy are written.
Merged(row, copy) ==
    [copy EXCEPT !.cleared = @ \/ row.cleared, !.acked = @ \/ row.acked]

\* Sending the notification changes nothing here.
store_alarm_info(c) ==
    /\ c \in fmCasts
    /\ fmCasts' = fmCasts \ {c}
    /\ alarm' = [m \in Rows \cup {c.id} |->
                     IF m # c.id THEN alarm[m]
                     ELSE IF m \in Rows THEN Merged(alarm[m], c.alarm) ELSE c.alarm]
    /\ UNCHANGED <<minted, fmBody, patch, vnfcs, removed, bodies, acks, lastStatus, crowded, ackRaced>>

----------------------------------------------------------------------------
(* VnfFmControllerV1.update, under lock_resources('{id}'). *)

\* Mutant of AckRead: the acknowledgement time is not set.
AckReadNoTime(u, m, ack) ==
    /\ acks < MaxAcks
    /\ patch[u] = NoPatch
    /\ m \in Rows
    /\ alarm[m].ackState # ack
    /\ patch' = [patch EXCEPT ![u] = [id |-> m, alarm |-> [alarm[m] EXCEPT !.ackState = ack]]]
    /\ acks' = acks + 1
    /\ UNCHANGED <<alarm, minted, fmCasts, fmBody, vnfcs, removed, bodies, lastStatus, crowded, ackRaced>>

AckRead(u, m, ack) ==
    /\ acks < MaxAcks
    /\ patch[u] = NoPatch
    /\ \A w \in FmClients : patch[w].id # m
    /\ m \in Rows
    /\ alarm[m].ackState # ack
    /\ patch' = [patch EXCEPT ![u] =
                     [id |-> m, alarm |-> [alarm[m] EXCEPT !.ackState = ack,
                                                           !.acked = (ack = "ACKNOWLEDGED")]]]
    /\ acks' = acks + 1
    /\ UNCHANGED <<alarm, minted, fmCasts, fmBody, vnfcs, removed, bodies, lastStatus, crowded, ackRaced>>

\* Mutant of AckWrite: the copy replaces the row.
AckWriteAll(u) ==
    /\ patch[u] # NoPatch
    /\ alarm' = [alarm EXCEPT ![patch[u].id] = patch[u].alarm]
    /\ patch' = [patch EXCEPT ![u] = NoPatch]
    /\ UNCHANGED <<minted, fmCasts, fmBody, vnfcs, removed, bodies, acks, lastStatus, crowded, ackRaced>>

\* alarmAcknowledgedTime is set here, to a time or to None, so it is written.
AckWrite(u) ==
    LET m == patch[u].id IN
    /\ patch[u] # NoPatch
    /\ alarm' = [alarm EXCEPT ![m] = [Merged(@, patch[u].alarm) EXCEPT !.acked = patch[u].alarm.acked]]
    /\ patch' = [patch EXCEPT ![u] = NoPatch]
    /\ ackRaced' = IF \E c \in fmCasts : c.id = m THEN ackRaced \cup {m} ELSE ackRaced
    /\ UNCHANGED <<minted, fmCasts, fmBody, vnfcs, removed, bodies, acks, lastStatus, crowded>>

----------------------------------------------------------------------------
(* LCM operations, seen from here: a pod is no VNFC any more; its instance is *)
(* deleted.                                                                  *)
PodGone(f) ==
    /\ f \in vnfcs
    /\ vnfcs' = vnfcs \ {f}
    /\ \E r \in {removed, removed \cup {f}} : removed' = r
    /\ UNCHANGED <<alarm, minted, fmCasts, fmBody, patch, bodies, acks, lastStatus, crowded, ackRaced>>

FmNext ==
    \/ \E q \in FmReqs : PostAlerts(q) \/ fm_alert(q)
    \/ \E c \in fmCasts : store_alarm_info(c)
    \/ \E u \in FmClients, m \in AlarmIds, ack \in AckStates : AckRead(u, m, ack)
    \/ \E u \in FmClients : AckWrite(u)
    \/ \E f \in Fps : PodGone(f)

FmSpec == FmInit /\ [][FmNext]_fmVars

----------------------------------------------------------------------------
(* Properties *)

\* An alarm that was cleared stays cleared, whatever acknowledgements and
\* casts race with it: none of them works on a copy that could take
\* alarmClearedTime back.
ClearedForGood ==
    [][\A m \in Rows : alarm[m].cleared => alarm'[m].cleared]_fmVars

\* An alert that is repeated opens no second alarm, if it was never looked at
\* while a cast for its fingerprint was under way (the API server looks for
\* open alarms in the database, which the conductor has yet to write).
OneOpenAlarm ==
    \A f \in Fps \ crowded : Cardinality(get_not_cleared_alarms(f)) <= 1

\* Under the same condition the open alarms are those of the alerts that fire:
\* no "resolved" is lost and no "firing" is.
AlarmTracksAlert ==
    \A f \in Fps \ crowded :
        ~UnderWay(f) => ((get_not_cleared_alarms(f) # {}) <=> (lastStatus[f] = "firing"))

\* An alarm is acknowledged exactly when it has an acknowledgement time, if it
\* was not updated by a client while a cast that clears it was under way (the
\* cast carries the ackState it was read with, and writes it back).
AckConsistent ==
    \A m \in Rows \ ackRaced :
        alarm[m].acked <=> alarm[m].ackState = "ACKNOWLEDGED"

============================================================================
