----------------------- MODULE FaultManagement_proofs -----------------------
(***************************************************************************)
(* A cleared alarm stays cleared, an alert has one alarm as long as it      *)
(* fires, and acknowledgements agree with their times, for any number of    *)
(* alerts, alarms, request threads and clients.                             *)
(***************************************************************************)
EXTENDS FaultManagement, FiniteSetTheorems, TLAPS

\* An alarm on its way to the conductor has an identifier of its own, so that
\* the rows stay within the identifiers given out.
CastsMinted == \A c \in fmCasts : c.id \in minted

FmIInv == FmTypeOK /\ CastsMinted

\* A copy of an alarm.
Copy == [id : AlarmIds, alarm : Alarm]

\* The request body of Alertmanager is a sequence of alerts.
LEMMA BodiesAreSeqs == Bodies \subseteq Seq(AlertEntry)
<1> SUFFICES ASSUME NEW b \in Bodies PROVE b \in Seq(AlertEntry)
  OBVIOUS
<1>1. PICK n \in 1..2 : b \in [1..n -> AlertEntry]
  BY DEF Bodies
<1> QED BY <1>1

\* update() of a row with a copy gives a row, in which alarmClearedTime is set
\* if it was set before or is set in the copy.
LEMMA MergedIsAlarm ==
    ASSUME NEW row \in Alarm, NEW copy \in Alarm
    PROVE  /\ Merged(row, copy) \in Alarm
           /\ row.cleared => Merged(row, copy).cleared
BY DEF Alarm, Merged

\* The tables are empty at first.
LEMMA FmInitInv == FmInit => FmIInv
<1> SUFFICES ASSUME FmInit PROVE FmIInv
  OBVIOUS
<1>1. alarm \in [Rows -> Alarm] /\ Rows = {}
  BY DEF FmInit, Rows
<1>2. fmBody \in [FmReqs -> Seq(AlertEntry)]
  BY DEF FmInit
<1>3. lastStatus \in [Fps -> Statuses]
  BY DEF FmInit, Statuses
<1> QED BY <1>1, <1>2, <1>3 DEF FmInit, FmIInv, FmTypeOK, CastsMinted

\* One alert: the casts it sends are copies of alarms with identifiers given
\* out.
LEMMA AlertCasts ==
    ASSUME FmIInv, NEW f \in Fps, NEW status \in Statuses, create_or_update_alarm(f, status)
    PROVE  /\ fmCasts' \subseteq Copy
           /\ minted \subseteq minted' /\ minted' \subseteq AlarmIds
           /\ \A c \in fmCasts' : c.id \in minted'
<1> DEFINE open == get_not_cleared_alarms(f)
<1>1. CASE update_alarm(open)
  <2>1. \A m \in open : m \in Rows /\ m \in minted /\ m \in AlarmIds /\ alarm[m] \in Alarm
    BY DEF get_not_cleared_alarms, FmIInv, FmTypeOK
  <2>2. \A m \in open : [alarm[m] EXCEPT !.cleared = TRUE] \in Alarm
    BY <2>1 DEF Alarm
  <2>3. ASSUME NEW c \in fmCasts' PROVE c \in Copy /\ c.id \in minted
    <3>1. CASE c \in fmCasts
      BY <3>1 DEF FmIInv, FmTypeOK, CastsMinted, Copy
    <3>2. CASE c \notin fmCasts
      <4>1. PICK m \in open : c = [id |-> m, alarm |-> [alarm[m] EXCEPT !.cleared = TRUE]]
        BY <1>1, <3>2 DEF update_alarm
      <4> QED BY <2>1, <2>2, <4>1 DEF Copy
    <3> QED BY <3>1, <3>2
  <2> QED BY <1>1, <2>3 DEF update_alarm, FmIInv, FmTypeOK
<1>2. CASE create_new_alarm(f)
  <2>1. PICK m \in AlarmIds \ minted :
           /\ minted' = minted \cup {m}
           /\ fmCasts' = fmCasts \cup
                  {[id |-> m, alarm |-> [fp |-> f, cleared |-> FALSE,
                                         ackState |-> "UNACKNOWLEDGED", acked |-> FALSE]]}
    BY <1>2 DEF create_new_alarm
  <2>2. [fp |-> f, cleared |-> FALSE, ackState |-> "UNACKNOWLEDGED", acked |-> FALSE] \in Alarm
    BY DEF Alarm, AckStates
  <2>3. fmCasts \subseteq Copy /\ minted \subseteq AlarmIds /\ \A c \in fmCasts : c.id \in minted
    BY DEF FmIInv, FmTypeOK, CastsMinted, Copy
  <2>4. \A al \in Alarm : [id |-> m, alarm |-> al] \in Copy /\ [id |-> m, alarm |-> al].id = m
    BY DEF Copy
  <2> QED BY <2>1, <2>2, <2>3, <2>4
<1>3. CASE UNCHANGED <<minted, fmCasts>>
  BY <1>3 DEF FmIInv, FmTypeOK, CastsMinted, Copy
<1> QED BY <1>1, <1>2, <1>3 DEF create_or_update_alarm

\* What every step leaves of the type invariant, given the parts it changed.
LEMMA FmParts ==
    ASSUME alarm' \in [Rows' -> Alarm], Rows' \subseteq minted', minted' \subseteq AlarmIds,
           fmCasts' \subseteq Copy, fmBody' \in [FmReqs -> Seq(AlertEntry)],
           patch' \in [FmClients -> {NoPatch} \cup Copy],
           vnfcs' \subseteq Fps, removed' \subseteq Fps, lastStatus' \in [Fps -> Statuses],
           crowded' \subseteq Fps, ackRaced' \subseteq AlarmIds,
           \A c \in fmCasts' : c.id \in minted'
    PROVE  FmIInv'
BY DEF FmIInv, FmTypeOK, CastsMinted, Copy

\* The alert requests of the API server.
LEMMA AlertStep ==
    ASSUME FmIInv, NEW q \in FmReqs, PostAlerts(q) \/ fm_alert(q)
    PROVE  FmIInv' /\ UNCHANGED alarm
<1>1. CASE PostAlerts(q)
  <2>1. fmBody' \in [FmReqs -> Seq(AlertEntry)]
    BY <1>1, BodiesAreSeqs DEF PostAlerts, FmIInv, FmTypeOK
  <2> QED BY <1>1, <2>1 DEF PostAlerts, FmIInv, FmTypeOK, CastsMinted, Rows
<1>2. CASE fm_alert(q)
  <2> DEFINE a == Head(fmBody[q])
             raises == a.status = "firing" /\ get_not_cleared_alarms(a.fp) = {} /\ a.fp \in removed
  <2>1. fmBody[q] \in Seq(AlertEntry) /\ fmBody[q] # <<>>
    BY <1>2 DEF fm_alert, FmIInv, FmTypeOK
  <2>2. a \in AlertEntry /\ Tail(fmBody[q]) \in Seq(AlertEntry)
    BY <2>1
  <2>3. a.fp \in Fps /\ a.status \in Statuses
    BY <2>2 DEF AlertEntry
  <2>4. UNCHANGED <<alarm, patch, vnfcs, removed, bodies, acks, ackRaced>>
    BY <1>2 DEF fm_alert
  <2>5. CASE raises
    <3>1. /\ fmBody' = [fmBody EXCEPT ![q] = <<>>]
          /\ UNCHANGED <<minted, fmCasts, lastStatus, crowded>>
      BY <1>2, <2>5 DEF fm_alert
    <3>2. fmBody' \in [FmReqs -> Seq(AlertEntry)]
      BY <3>1 DEF FmIInv, FmTypeOK
    <3> QED BY <2>4, <3>1, <3>2 DEF FmIInv, FmTypeOK, CastsMinted, Rows
  <2>6. CASE ~raises
    <3> HIDE DEF a
    <3>1. /\ fmBody' = [fmBody EXCEPT ![q] = Tail(@)]
          /\ create_or_update_alarm(a.fp, a.status)
          /\ lastStatus' = [lastStatus EXCEPT ![a.fp] =
                                IF a.status = "firing" /\ a.fp \notin vnfcs THEN @ ELSE a.status]
          /\ crowded' = IF UnderWay(a.fp) THEN crowded \cup {a.fp} ELSE crowded
      BY <1>2, <2>6 DEF fm_alert, a
    <3>2. fmBody' \in [FmReqs -> Seq(AlertEntry)]
      BY <2>2, <3>1 DEF FmIInv, FmTypeOK
    <3>3. /\ fmCasts' \subseteq Copy
          /\ minted \subseteq minted' /\ minted' \subseteq AlarmIds
          /\ \A c \in fmCasts' : c.id \in minted'
      <4>1. PICK f \in Fps, s \in Statuses : f = a.fp /\ s = a.status
        BY <2>3
      <4> QED BY <3>1, <4>1, AlertCasts
    <3>4. lastStatus' \in [Fps -> Statuses] /\ crowded' \subseteq Fps
      BY <2>3, <3>1 DEF FmIInv, FmTypeOK
    <3>5. alarm' \in [Rows' -> Alarm] /\ Rows' \subseteq minted'
      BY <2>4, <3>3 DEF FmIInv, FmTypeOK, Rows
    <3> QED BY <2>4, <3>2, <3>3, <3>4, <3>5, FmParts DEF FmIInv, FmTypeOK, Copy
  <2> QED BY <2>5, <2>6
<1> QED BY <1>1, <1>2

\* The conductor stores an alarm: a new row, or the row merged with the copy.
LEMMA StoreAlarmStep ==
    ASSUME FmIInv, NEW c \in fmCasts, store_alarm_info(c)
    PROVE  FmIInv' /\ \A m \in Rows : alarm[m].cleared => alarm'[m].cleared
<1>1. c.id \in minted /\ c.alarm \in Alarm /\ fmCasts' \subseteq fmCasts
  BY DEF FmIInv, FmTypeOK, CastsMinted, store_alarm_info
<1>2. Rows' = Rows \cup {c.id}
  BY DEF store_alarm_info, Rows
<1>3. \A m \in Rows' : alarm'[m] = IF m # c.id THEN alarm[m]
                                   ELSE IF m \in Rows THEN Merged(alarm[m], c.alarm) ELSE c.alarm
  BY <1>2 DEF store_alarm_info
<1>4. \A m \in Rows : alarm[m] \in Alarm
  BY DEF FmIInv, FmTypeOK
<1>5. \A m \in Rows' : alarm'[m] \in Alarm
  BY <1>1, <1>2, <1>3, <1>4, MergedIsAlarm
<1>6. alarm' \in [Rows' -> Alarm]
  BY <1>5 DEF store_alarm_info, Rows
<1>7. FmIInv'
  BY <1>1, <1>2, <1>6 DEF FmIInv, FmTypeOK, CastsMinted, store_alarm_info
<1> QED BY <1>1, <1>2, <1>3, <1>4, <1>7, MergedIsAlarm

\* A client reads an alarm to update it.
LEMMA AckReadStep ==
    ASSUME FmIInv, NEW u \in FmClients, NEW m \in AlarmIds, NEW ack \in AckStates, AckRead(u, m, ack)
    PROVE  FmIInv' /\ UNCHANGED alarm
<1>1. [alarm[m] EXCEPT !.ackState = ack, !.acked = (ack = "ACKNOWLEDGED")] \in Alarm
  <2>1. alarm[m] \in Alarm
    BY DEF AckRead, FmIInv, FmTypeOK
  <2> QED BY <2>1 DEF Alarm
<1>2. patch' \in [FmClients -> {NoPatch} \cup Copy]
  BY <1>1 DEF AckRead, FmIInv, FmTypeOK, Copy
<1> QED BY <1>2 DEF AckRead, FmIInv, FmTypeOK, CastsMinted, Rows, Copy

\* A client writes the alarm it has read: merged, except for the
\* acknowledgement time.
LEMMA AckWriteStep ==
    ASSUME FmIInv, NEW u \in FmClients, AckWrite(u)
    PROVE  FmIInv' /\ \A m \in Rows : alarm[m].cleared => alarm'[m].cleared
<1> DEFINE p == patch[u].id
           new == [Merged(alarm[p], patch[u].alarm) EXCEPT !.acked = patch[u].alarm.acked]
<1>1. patch[u] \in Copy
  BY DEF AckWrite, FmIInv, FmTypeOK, Copy
<1>2. p \in AlarmIds /\ patch[u].alarm \in Alarm
  BY <1>1 DEF Copy
<1>3. ASSUME p \in Rows PROVE new \in Alarm /\ (alarm[p].cleared => new.cleared)
  <2>1. alarm[p] \in Alarm
    BY <1>3 DEF FmIInv, FmTypeOK
  <2>2. Merged(alarm[p], patch[u].alarm) \in Alarm /\ (alarm[p].cleared => Merged(alarm[p], patch[u].alarm).cleared)
    BY <1>2, <2>1, MergedIsAlarm
  <2>3. patch[u].alarm.acked \in BOOLEAN
    BY <1>2 DEF Alarm
  <2> QED BY <2>2, <2>3 DEF Alarm
<1>4. alarm' = [alarm EXCEPT ![p] = new]
  BY DEF AckWrite
<1> HIDE DEF p, new
<1>5. alarm' \in [Rows -> Alarm] /\ Rows' = Rows
  BY <1>3, <1>4 DEF FmIInv, FmTypeOK, Rows
<1>6. \A m \in Rows : alarm[m].cleared => alarm'[m].cleared
  BY <1>3, <1>4 DEF FmIInv, FmTypeOK, Rows
<1>7. patch' \in [FmClients -> {NoPatch} \cup Copy] /\ ackRaced' \subseteq AlarmIds
  BY <1>2 DEF AckWrite, FmIInv, FmTypeOK, Copy, p
<1>8. FmIInv'
  BY <1>5, <1>7 DEF AckWrite, FmIInv, FmTypeOK, CastsMinted, Copy
<1> QED BY <1>6, <1>8

\* Every step keeps the invariant and takes back no alarmClearedTime.
LEMMA FmStep ==
    ASSUME FmIInv, [FmNext]_fmVars
    PROVE  FmIInv' /\ \A m \in Rows : alarm[m].cleared => alarm'[m].cleared
<1>1. ASSUME NEW f \in Fps, PodGone(f) PROVE FmIInv' /\ UNCHANGED alarm
  BY <1>1 DEF PodGone, FmIInv, FmTypeOK, CastsMinted, Rows
<1>2. CASE UNCHANGED fmVars
  BY <1>2 DEF fmVars, FmIInv, FmTypeOK, CastsMinted, Rows
<1> QED BY <1>1, <1>2, AlertStep, StoreAlarmStep, AckReadStep, AckWriteStep DEF FmNext

\* An alarm that was cleared stays cleared under every race of casts and
\* acknowledgements.
THEOREM ClearedStays == FmSpec => ClearedForGood
<1>1. FmIInv /\ [FmNext]_fmVars => FmIInv'
  BY FmStep
<1>2. FmIInv /\ [FmNext]_fmVars => [\A m \in Rows : alarm[m].cleared => alarm'[m].cleared]_fmVars
  BY FmStep
<1> QED BY <1>1, <1>2, FmInitInv, PTL DEF FmSpec, ClearedForGood

----------------------------------------------------------------------------
(* The facts about copies that the other proofs rest on.  The Boolean       *)
(* attributes are kept behind predicates.                                   *)

IsCleared(a) == a.cleared
AckOK(a) == a.acked <=> a.ackState = "ACKNOWLEDGED"
SameAck(a, b) == a.ackState = b.ackState /\ (a.acked <=> b.acked)
NewAck(a) == a.ackState = "UNACKNOWLEDGED" /\ ~a.acked

\* A row that is open, seen from its fingerprint.
LEMMA OpenRow ==
    \A f, m : m \in get_not_cleared_alarms(f) <=> m \in Rows /\ alarm[m].fp = f /\ ~IsCleared(alarm[m])
BY DEF get_not_cleared_alarms, IsCleared

\* What the merge makes of a row and a copy: the fingerprint is the copy's,
\* alarmClearedTime is set if either has it, and the acknowledgement stays
\* what it was if both agree on it.
LEMMA MergedFields ==
    ASSUME NEW row \in Alarm, NEW copy \in Alarm
    PROVE  /\ Merged(row, copy).fp = copy.fp
           /\ IsCleared(Merged(row, copy)) <=> IsCleared(copy) \/ IsCleared(row)
           /\ Merged(row, copy).ackState = copy.ackState
           /\ SameAck(copy, row) => SameAck(Merged(row, copy), row)
BY DEF Alarm, Merged, IsCleared, SameAck

\* What a client's write makes of a row: the acknowledgement is the copy's.
LEMMA AckedFields ==
    ASSUME NEW row \in Alarm, NEW copy \in Alarm
    PROVE  LET new == [Merged(row, copy) EXCEPT !.acked = copy.acked]
           IN  /\ new.fp = copy.fp
               /\ IsCleared(new) <=> IsCleared(copy) \/ IsCleared(row)
               /\ SameAck(new, copy)
BY DEF Alarm, Merged, IsCleared, SameAck

\* Copies that agree are right together.
LEMMA AckFacts ==
    /\ \A a, b : SameAck(a, b) => SameAck(b, a) /\ (AckOK(a) <=> AckOK(b))
    /\ \A a, b, c : SameAck(a, b) /\ SameAck(b, c) => SameAck(a, c)
    /\ \A a : NewAck(a) => AckOK(a)
    /\ \A a, b : NewAck(a) /\ NewAck(b) => SameAck(a, b)
BY DEF SameAck, AckOK, NewAck

\* What storing an alarm does to the rows.
LEMMA StoreEffect ==
    ASSUME FmIInv, NEW c \in fmCasts, store_alarm_info(c)
    PROVE  /\ Rows' = Rows \cup {c.id} /\ fmCasts' = fmCasts \ {c}
           /\ \A m \in Rows : m # c.id => alarm'[m] = alarm[m]
           /\ c.id \notin Rows => alarm'[c.id] = c.alarm
           /\ alarm'[c.id].fp = c.alarm.fp
           /\ IsCleared(alarm'[c.id]) <=> IsCleared(c.alarm) \/ (c.id \in Rows /\ IsCleared(alarm[c.id]))
           /\ c.id \in Rows /\ SameAck(c.alarm, alarm[c.id]) => SameAck(alarm'[c.id], alarm[c.id])
           /\ UNCHANGED <<minted, patch, lastStatus, crowded, ackRaced>>
<1>1. /\ Rows' = Rows \cup {c.id} /\ fmCasts' = fmCasts \ {c}
      /\ UNCHANGED <<minted, patch, lastStatus, crowded, ackRaced>>
  BY DEF store_alarm_info, Rows
<1>2. \A m \in Rows' : alarm'[m] = IF m # c.id THEN alarm[m]
                                   ELSE IF m \in Rows THEN Merged(alarm[m], c.alarm) ELSE c.alarm
  BY <1>1 DEF store_alarm_info
<1>3. c.alarm \in Alarm /\ \A m \in Rows : alarm[m] \in Alarm
  BY DEF FmIInv, FmTypeOK
<1>4. CASE c.id \in Rows
  <2>1. alarm'[c.id] = Merged(alarm[c.id], c.alarm)
    BY <1>1, <1>2, <1>4
  <2> QED BY <1>1, <1>2, <1>3, <1>4, <2>1, MergedFields
<1>5. CASE c.id \notin Rows
  BY <1>1, <1>2, <1>5
<1> QED BY <1>4, <1>5

\* What a client's write does to the row it has read.
LEMMA AckEffect ==
    ASSUME FmIInv, NEW u \in FmClients, AckWrite(u), patch[u].id \in Rows
    PROVE  /\ Rows' = Rows
           /\ \A m \in Rows : m # patch[u].id => alarm'[m] = alarm[m]
           /\ alarm'[patch[u].id].fp = patch[u].alarm.fp
           /\ IsCleared(alarm'[patch[u].id]) <=> IsCleared(patch[u].alarm) \/ IsCleared(alarm[patch[u].id])
           /\ SameAck(alarm'[patch[u].id], patch[u].alarm)
           /\ patch' = [patch EXCEPT ![u] = NoPatch] /\ patch[u] # NoPatch
           /\ UNCHANGED <<minted, fmCasts, lastStatus, crowded>>
<1>1. patch[u].alarm \in Alarm /\ alarm[patch[u].id] \in Alarm /\ alarm \in [Rows -> Alarm]
  BY DEF FmIInv, FmTypeOK, AckWrite
<1>2. alarm' = [alarm EXCEPT ![patch[u].id] = [Merged(alarm[patch[u].id], patch[u].alarm) EXCEPT !.acked = patch[u].alarm.acked]]
  BY DEF AckWrite
<1>3. alarm'[patch[u].id] = [Merged(alarm[patch[u].id], patch[u].alarm) EXCEPT !.acked = patch[u].alarm.acked]
  BY <1>1, <1>2
<1>4. Rows' = Rows /\ \A m \in Rows : m # patch[u].id => alarm'[m] = alarm[m]
  BY <1>1, <1>2 DEF Rows
<1>5. /\ patch' = [patch EXCEPT ![u] = NoPatch] /\ patch[u] # NoPatch
      /\ UNCHANGED <<minted, fmCasts, lastStatus, crowded>>
  BY DEF AckWrite
<1>6. /\ alarm'[patch[u].id].fp = patch[u].alarm.fp
      /\ IsCleared(alarm'[patch[u].id]) <=> IsCleared(patch[u].alarm) \/ IsCleared(alarm[patch[u].id])
      /\ SameAck(alarm'[patch[u].id], patch[u].alarm)
  <2>1. PICK row \in Alarm, copy \in Alarm : row = alarm[patch[u].id] /\ copy = patch[u].alarm
    BY <1>1
  <2> QED BY <1>3, <2>1, AckedFields
<1> QED BY <1>4, <1>5, <1>6

\* The cast that clears an open alarm of f, and the one that opens alarm m.
ClearCast(f, c) ==
    /\ c.id \in get_not_cleared_alarms(f)
    /\ c = [id |-> c.id, alarm |-> [alarm[c.id] EXCEPT !.cleared = TRUE]]
    /\ c.alarm.fp = f /\ IsCleared(c.alarm) /\ SameAck(c.alarm, alarm[c.id])

OpenCast(f, c) ==
    c.id \notin minted /\ c.alarm.fp = f /\ ~IsCleared(c.alarm) /\ NewAck(c.alarm)

\* The casts that one alert sends.
LEMMA AlertEffect ==
    ASSUME FmIInv, NEW f \in Fps, NEW status \in Statuses, create_or_update_alarm(f, status)
    PROVE  LET open == get_not_cleared_alarms(f) IN
           \/ /\ status = "resolved" /\ open # {}
              /\ fmCasts \subseteq fmCasts'
              /\ \A c \in fmCasts' : c \in fmCasts \/ ClearCast(f, c)
              /\ \E c \in fmCasts' : c.alarm.fp = f
           \/ /\ status = "firing" /\ open = {} /\ f \in vnfcs
              /\ \E c : OpenCast(f, c) /\ fmCasts' = fmCasts \cup {c}
           \/ /\ ~(status = "resolved" /\ open # {})
              /\ ~(status = "firing" /\ open = {} /\ f \in vnfcs)
              /\ UNCHANGED fmCasts
<1> DEFINE open == get_not_cleared_alarms(f)
           cast(m) == [id |-> m, alarm |-> [alarm[m] EXCEPT !.cleared = TRUE]]
<1>1. ASSUME NEW m \in open PROVE ClearCast(f, cast(m))
  <2>1. alarm[m] \in Alarm /\ alarm[m].fp = f
    BY DEF get_not_cleared_alarms, FmIInv, FmTypeOK
  <2> DEFINE new == [alarm[m] EXCEPT !.cleared = TRUE]
  <2>2. new.fp = f /\ IsCleared(new) /\ SameAck(new, alarm[m])
    BY <2>1 DEF Alarm, IsCleared, SameAck
  <2>3. cast(m).id = m /\ cast(m).alarm = new
    OBVIOUS
  <2> HIDE DEF new
  <2>4. cast(m) = [id |-> cast(m).id, alarm |-> [alarm[cast(m).id] EXCEPT !.cleared = TRUE]]
    BY DEF new
  <2> QED BY <2>2, <2>3, <2>4 DEF ClearCast
<1>2. CASE status = "resolved" /\ open # {} /\ update_alarm(open)
  <2>1. fmCasts' = fmCasts \cup {cast(m) : m \in open}
    BY <1>2 DEF update_alarm
  <2>2. PICK m \in open : TRUE
    BY <1>2
  <2>3. cast(m) \in fmCasts'
    BY <2>1, <2>2
  <2> HIDE DEF cast, open
  <2>4. \A c \in fmCasts' : c \in fmCasts \/ \E x \in open : c = cast(x)
    BY <2>1
  <2>5. \A c \in fmCasts' : c \in fmCasts \/ ClearCast(f, c)
    BY <1>1, <2>4
  <2>6. cast(m).alarm.fp = f
    BY <1>1, <2>2 DEF ClearCast
  <2> QED BY <1>2, <2>1, <2>3, <2>5, <2>6 DEF open
<1>3. CASE status = "firing" /\ open = {} /\ f \in vnfcs /\ create_new_alarm(f)
  <2> DEFINE new == [fp |-> f, cleared |-> FALSE, ackState |-> "UNACKNOWLEDGED", acked |-> FALSE]
  <2>1. PICK m \in AlarmIds \ minted : fmCasts' = fmCasts \cup {[id |-> m, alarm |-> new]}
    BY <1>3 DEF create_new_alarm
  <2>2. new.fp = f /\ ~IsCleared(new) /\ NewAck(new)
    BY DEF IsCleared, NewAck
  <2> HIDE DEF new
  <2>3. OpenCast(f, [id |-> m, alarm |-> new])
    BY <2>1, <2>2 DEF OpenCast
  <2> QED BY <1>3, <2>1, <2>3
<1>4. CASE /\ ~(status = "resolved" /\ open # {})
           /\ ~(status = "firing" /\ open = {} /\ f \in vnfcs)
           /\ UNCHANGED <<minted, fmCasts>>
  BY <1>4
<1> QED BY <1>2, <1>3, <1>4 DEF create_or_update_alarm

\* The alert that a request looks at, and what becomes of the histories.
LEMMA AlertParts ==
    ASSUME FmIInv, NEW q \in FmReqs, fm_alert(q)
    PROVE  /\ UNCHANGED <<alarm, Rows, patch, ackRaced>>
           /\ \/ UNCHANGED <<fmCasts, lastStatus, crowded>>
              \/ \E f \in Fps, status \in Statuses :
                    /\ create_or_update_alarm(f, status)
                    /\ lastStatus' = [lastStatus EXCEPT ![f] =
                                          IF status = "firing" /\ f \notin vnfcs THEN @ ELSE status]
                    /\ crowded' = IF UnderWay(f) THEN crowded \cup {f} ELSE crowded
<1> DEFINE a == Head(fmBody[q])
<1>1. fmBody[q] \in Seq(AlertEntry) /\ fmBody[q] # <<>>
  BY DEF fm_alert, FmIInv, FmTypeOK
<1>2. a \in AlertEntry
  BY <1>1
<1>3. a.fp \in Fps /\ a.status \in Statuses
  BY <1>2 DEF AlertEntry
<1>4. UNCHANGED <<alarm, Rows, patch, ackRaced>>
  BY DEF fm_alert, Rows
<1>5. \/ UNCHANGED <<fmCasts, lastStatus, crowded>>
      \/ /\ create_or_update_alarm(a.fp, a.status)
         /\ lastStatus' = [lastStatus EXCEPT ![a.fp] =
                               IF a.status = "firing" /\ a.fp \notin vnfcs THEN @ ELSE a.status]
         /\ crowded' = IF UnderWay(a.fp) THEN crowded \cup {a.fp} ELSE crowded
  BY DEF fm_alert
<1> QED BY <1>3, <1>4, <1>5

----------------------------------------------------------------------------
(* Acknowledgements.                                                        *)

\* Rows, copies that clients hold and new alarms under way are acknowledged
\* exactly when they have a time, and a cast that clears an alarm agrees with
\* its row as long as no client has updated it meanwhile.
AckInv ==
    /\ AckConsistent
    /\ \A c \in fmCasts : c.id \notin Rows => NewAck(c.alarm)
    /\ \A c \in fmCasts : c.id \in Rows \ ackRaced => SameAck(c.alarm, alarm[c.id])
    /\ \A u \in FmClients : patch[u] # NoPatch => patch[u].id \in Rows /\ AckOK(patch[u].alarm)

\* AckConsistent with the predicates used here.
LEMMA AckRows == AckConsistent <=> \A m \in Rows \ ackRaced : AckOK(alarm[m])
BY DEF AckConsistent, AckOK

\* An alert sends copies that agree with their rows.
LEMMA AckAlert ==
    ASSUME FmIInv, AckInv, NEW q \in FmReqs, fm_alert(q)
    PROVE  AckInv'
<1>1. UNCHANGED <<alarm, Rows, patch, ackRaced>>
  BY AlertParts
<1>2. AckConsistent'
  BY <1>1 DEF AckInv, AckConsistent
<1>3. \A c \in fmCasts' : \/ c \in fmCasts
                          \/ c.id \notin Rows /\ NewAck(c.alarm)
                          \/ c.id \in Rows /\ SameAck(c.alarm, alarm[c.id])
  <2>1. CASE UNCHANGED fmCasts
    BY <2>1
  <2>2. ASSUME NEW f \in Fps, NEW status \in Statuses, create_or_update_alarm(f, status)
        PROVE  \A c \in fmCasts' : \/ c \in fmCasts
                                   \/ c.id \notin Rows /\ NewAck(c.alarm)
                                   \/ c.id \in Rows /\ SameAck(c.alarm, alarm[c.id])
    <3>1. Rows \subseteq minted
      BY DEF FmIInv, FmTypeOK
    <3>2. \A c : ClearCast(f, c) => c.id \in Rows /\ SameAck(c.alarm, alarm[c.id])
      BY OpenRow DEF ClearCast
    <3>3. \A c : OpenCast(f, c) => c.id \notin Rows /\ NewAck(c.alarm)
      BY <3>1 DEF OpenCast
    <3> QED BY <2>2, <3>2, <3>3, AlertEffect
  <2> QED BY <2>1, <2>2, AlertParts
<1> QED BY <1>1, <1>2, <1>3 DEF AckInv

\* The conductor stores a copy that agrees with its row.
LEMMA AckStore ==
    ASSUME FmIInv, AckInv, NEW c \in fmCasts, store_alarm_info(c)
    PROVE  AckInv'
<1> USE StoreEffect
<1>1. ASSUME NEW m \in (Rows \ ackRaced)' PROVE AckOK(alarm'[m])
  <2>1. CASE m # c.id
    BY <2>1, AckRows DEF AckInv
  <2>2. CASE m = c.id /\ c.id \in Rows
    <3>1. SameAck(alarm'[c.id], alarm[c.id]) /\ AckOK(alarm[c.id])
      BY <2>2, AckRows DEF AckInv
    <3> QED BY <2>2, <3>1, AckFacts
  <2>3. CASE m = c.id /\ c.id \notin Rows
    BY <2>3, AckFacts DEF AckInv
  <2> QED BY <2>1, <2>2, <2>3
<1>2. AckConsistent'
  BY <1>1 DEF AckConsistent, AckOK
<1>3. ASSUME NEW d \in fmCasts', d.id \in (Rows \ ackRaced)' PROVE SameAck(d.alarm, alarm'[d.id])
  <2>1. CASE d.id # c.id
    BY <1>3, <2>1 DEF AckInv
  <2>2. CASE d.id = c.id /\ c.id \in Rows
    <3>1. SameAck(alarm'[c.id], alarm[c.id]) /\ SameAck(d.alarm, alarm[c.id])
      BY <1>3, <2>2 DEF AckInv
    <3> QED BY <2>2, <3>1, AckFacts
  <2>3. CASE d.id = c.id /\ c.id \notin Rows
    BY <2>3, AckFacts DEF AckInv
  <2> QED BY <2>1, <2>2, <2>3
<1>4. \A d \in fmCasts' : d.id \notin Rows' => NewAck(d.alarm)
  BY DEF AckInv
<1>5. \A u \in FmClients : patch'[u] # NoPatch => patch'[u].id \in Rows' /\ AckOK(patch'[u].alarm)
  BY DEF AckInv
<1> QED BY <1>2, <1>3, <1>4, <1>5 DEF AckInv

\* A client reads a row: its copy has a time exactly if it acknowledges.
LEMMA AckReads ==
    ASSUME FmIInv, AckInv, NEW u \in FmClients, NEW m \in AlarmIds, NEW ack \in AckStates,
           AckRead(u, m, ack)
    PROVE  AckInv'
<1> DEFINE new == [alarm[m] EXCEPT !.ackState = ack, !.acked = (ack = "ACKNOWLEDGED")]
<1>1. m \in Rows /\ alarm[m] \in Alarm
  BY DEF AckRead, FmIInv, FmTypeOK
<1>2. AckOK(new)
  BY <1>1 DEF Alarm, AckOK
<1>3. patch' = [patch EXCEPT ![u] = [id |-> m, alarm |-> new]] /\ UNCHANGED <<alarm, Rows, fmCasts, ackRaced>>
  BY DEF AckRead, Rows
<1> HIDE DEF new
<1>4. \A w \in FmClients : patch'[w] # NoPatch => patch'[w].id \in Rows' /\ AckOK(patch'[w].alarm)
  BY <1>1, <1>2, <1>3 DEF AckInv, FmIInv, FmTypeOK
<1>5. AckConsistent'
  BY <1>3 DEF AckInv, AckConsistent
<1> QED BY <1>3, <1>4, <1>5 DEF AckInv

\* A client writes its copy: every cast of that alarm is then one that raced.
LEMMA AckWrites ==
    ASSUME FmIInv, AckInv, NEW u \in FmClients, AckWrite(u)
    PROVE  AckInv'
<1> DEFINE p == patch[u].id
<1>1. p \in Rows /\ AckOK(patch[u].alarm)
  BY DEF AckInv, AckWrite
<1>2. /\ Rows' = Rows /\ fmCasts' = fmCasts
      /\ \A m \in Rows : m # p => alarm'[m] = alarm[m]
      /\ SameAck(alarm'[p], patch[u].alarm)
      /\ patch' = [patch EXCEPT ![u] = NoPatch]
  BY <1>1, AckEffect
<1>3. /\ ackRaced \subseteq ackRaced'
      /\ p \notin ackRaced' => \A c \in fmCasts : c.id # p
  BY DEF AckWrite
<1>4. AckOK(alarm'[p])
  BY <1>1, <1>2, AckFacts
<1> HIDE DEF p
<1>5. \A m \in (Rows \ ackRaced)' : AckOK(alarm'[m])
  BY <1>1, <1>2, <1>3, <1>4, AckRows DEF AckInv
<1>6. AckConsistent'
  BY <1>5 DEF AckConsistent, AckOK
<1>7. \A w \in FmClients : patch'[w] # NoPatch => patch'[w].id \in Rows' /\ AckOK(patch'[w].alarm)
  BY <1>2 DEF AckInv, FmIInv, FmTypeOK
<1>8. \A c \in fmCasts' : c.id \in (Rows \ ackRaced)' => SameAck(c.alarm, alarm'[c.id])
  BY <1>2, <1>3 DEF AckInv
<1> QED BY <1>2, <1>6, <1>7, <1>8 DEF AckInv

\* Every step keeps AckInv.
LEMMA AckStep == FmIInv /\ AckInv /\ [FmNext]_fmVars => AckInv'
<1> SUFFICES ASSUME FmIInv, AckInv, [FmNext]_fmVars PROVE AckInv'
  OBVIOUS
<1>1. CASE UNCHANGED <<alarm, fmCasts, patch, ackRaced>>
  BY <1>1 DEF AckInv, AckConsistent, Rows
<1>2. ASSUME NEW q \in FmReqs, PostAlerts(q) PROVE AckInv'
  BY <1>1, <1>2 DEF PostAlerts
<1>3. ASSUME NEW f \in Fps, PodGone(f) PROVE AckInv'
  BY <1>1, <1>3 DEF PodGone
<1>4. CASE UNCHANGED fmVars
  BY <1>1, <1>4 DEF fmVars
<1> QED BY <1>2, <1>3, <1>4, AckAlert, AckStore, AckReads, AckWrites DEF FmNext

\* An alarm that no client updated while a cast that clears it was under way
\* is acknowledged exactly when it has an acknowledgement time.
THEOREM AcksAgree == FmSpec => []AckConsistent
<1>1. FmInit => AckInv
  <2> SUFFICES ASSUME FmInit PROVE AckInv
    OBVIOUS
  <2>1. Rows = {} /\ fmCasts = {} /\ \A u \in FmClients : patch[u] = NoPatch
    BY DEF FmInit, Rows
  <2> QED BY <2>1 DEF AckInv, AckConsistent
<1>2. AckInv => AckConsistent
  BY DEF AckInv
<1>3. FmIInv /\ [FmNext]_fmVars => FmIInv'
  BY FmStep
<1> QED BY <1>1, <1>2, <1>3, FmInitInv, AckStep, PTL DEF FmSpec

----------------------------------------------------------------------------
(* Alarms and alerts.                                                       *)

\* A copy has the fingerprint of its row, and no alarmClearedTime that the row
\* has not when a client holds it.
FpInv ==
    /\ \A c \in fmCasts : c.id \in Rows => alarm[c.id].fp = c.alarm.fp
    /\ \A c, d \in fmCasts : c.id = d.id => c.alarm.fp = d.alarm.fp
    /\ \A u \in FmClients : patch[u] # NoPatch =>
          /\ patch[u].id \in Rows
          /\ patch[u].alarm.fp = alarm[patch[u].id].fp
          /\ IsCleared(patch[u].alarm) => IsCleared(alarm[patch[u].id])

\* A cast under way opens the alarm of an alert that fires, or clears the one
\* of an alert that is resolved.
Opening(f, c) ==
    /\ c.id \notin Rows /\ ~IsCleared(c.alarm)
    /\ get_not_cleared_alarms(f) = {} /\ lastStatus[f] = "firing"

Clearing(f, c) ==
    /\ c.id \in Rows /\ IsCleared(c.alarm)
    /\ get_not_cleared_alarms(f) \subseteq {c.id} /\ lastStatus[f] = "resolved"

\* A fingerprint has one cast under way, or none and the alarm of its alert.
Tracked(f) ==
    /\ \A c, d \in fmCasts : c.alarm.fp = f /\ d.alarm.fp = f => c = d
    /\ \A m, n \in get_not_cleared_alarms(f) : m = n
    /\ ~UnderWay(f) => ((get_not_cleared_alarms(f) # {}) <=> (lastStatus[f] = "firing"))
    /\ \A c \in fmCasts : c.alarm.fp = f => Opening(f, c) \/ Clearing(f, c)

TrackInv == FmIInv /\ FpInv /\ \A f \in Fps \ crowded : Tracked(f)

\* A step that leaves the alarms and the casts of a fingerprint alone leaves
\* it tracked.
LEMMA TrackedKept ==
    ASSUME NEW f, Tracked(f),
           get_not_cleared_alarms(f)' = get_not_cleared_alarms(f), lastStatus'[f] = lastStatus[f],
           \A c : c.alarm.fp = f => (c \in fmCasts' <=> c \in fmCasts),
           \A c \in fmCasts : c.alarm.fp = f => (c.id \in Rows' <=> c.id \in Rows)
    PROVE  Tracked(f)'
<1>1. UnderWay(f)' <=> UnderWay(f)
  BY DEF UnderWay
<1>2. \A c \in fmCasts' : c.alarm.fp = f =>
          c \in fmCasts /\ (Opening(f, c) => Opening(f, c)') /\ (Clearing(f, c) => Clearing(f, c)')
  BY DEF Opening, Clearing
<1> QED BY <1>1, <1>2 DEF Tracked

\* An alert: with no cast under way for its fingerprint, it sends at most one.
LEMMA TrackAlert ==
    ASSUME TrackInv, FmIInv', NEW q \in FmReqs, fm_alert(q)
    PROVE  TrackInv'
<1>1. UNCHANGED <<alarm, Rows, patch, ackRaced>>
  BY AlertParts DEF TrackInv
<1>2. \A f : get_not_cleared_alarms(f)' = get_not_cleared_alarms(f)
  BY <1>1 DEF get_not_cleared_alarms
<1>3. CASE UNCHANGED <<fmCasts, lastStatus, crowded>>
  <2>1. FpInv'
    BY <1>1, <1>3 DEF TrackInv, FpInv
  <2>2. \A f \in (Fps \ crowded)' : Tracked(f)'
    BY <1>1, <1>2, <1>3, TrackedKept DEF TrackInv
  <2> QED BY <2>1, <2>2 DEF TrackInv
<1>4. ASSUME NEW f \in Fps, NEW status \in Statuses, create_or_update_alarm(f, status),
             lastStatus' = [lastStatus EXCEPT ![f] =
                                IF status = "firing" /\ f \notin vnfcs THEN @ ELSE status],
             crowded' = IF UnderWay(f) THEN crowded \cup {f} ELSE crowded
      PROVE  TrackInv'
  <2> DEFINE open == get_not_cleared_alarms(f)
  <2>1. /\ lastStatus'[f] = IF status = "firing" /\ f \notin vnfcs THEN lastStatus[f] ELSE status
        /\ \A g \in Fps : g # f => lastStatus'[g] = lastStatus[g]
    BY <1>4 DEF TrackInv, FmIInv, FmTypeOK
  <2>2. Rows \subseteq minted /\ \A c \in fmCasts : c.id \in minted
    BY DEF TrackInv, FmIInv, FmTypeOK, CastsMinted
  <2>3. \A c : ClearCast(f, c) => c.id \in Rows /\ alarm[c.id].fp = f /\ c.alarm.fp = f
    BY OpenRow DEF ClearCast
  <2>4. \A c : OpenCast(f, c) => c.id \notin minted /\ c.id \notin Rows /\ c.alarm.fp = f
    BY <2>2 DEF OpenCast
  <2>5. /\ fmCasts \subseteq fmCasts'
        /\ \A c \in fmCasts' : c \in fmCasts \/ ClearCast(f, c) \/ OpenCast(f, c)
        /\ \A c, d \in fmCasts' : OpenCast(f, c) /\ OpenCast(f, d) => c = d
    <3>1. CASE fmCasts \subseteq fmCasts' /\ \A c \in fmCasts' : c \in fmCasts \/ ClearCast(f, c)
      <4>1. \A c \in fmCasts' : ~OpenCast(f, c)
        BY <2>2, <2>3, <2>4, <3>1
      <4> QED BY <3>1, <4>1
    <3>2. CASE \E c : OpenCast(f, c) /\ fmCasts' = fmCasts \cup {c}
      BY <2>2, <2>4, <3>2
    <3> QED BY <1>4, <3>1, <3>2, AlertEffect DEF TrackInv
  <2>6. FpInv'
    BY <1>1, <2>2, <2>5, <2>3, <2>4 DEF TrackInv, FpInv
  <2>7. ASSUME NEW g \in Fps \ crowded', g # f PROVE Tracked(g)'
    <3>1. Tracked(g)
      BY <1>4, <2>7 DEF TrackInv
    <3>2. \A c : c.alarm.fp = g => (c \in fmCasts' <=> c \in fmCasts)
      BY <2>5, <2>3, <2>4, <2>7
    <3> QED BY <1>1, <1>2, <2>1, <2>7, <3>1, <3>2, TrackedKept
  <2>8. ASSUME f \notin crowded' PROVE Tracked(f)'
    <3>1. Tracked(f) /\ ~UnderWay(f)
      BY <1>4, <2>8 DEF TrackInv
    <3>2. /\ \A c \in fmCasts : c.alarm.fp # f
          /\ \A m, n \in open : m = n
          /\ (open # {}) <=> (lastStatus[f] = "firing")
      BY <3>1 DEF Tracked, UnderWay
    <3>3. CASE /\ status = "resolved" /\ open # {}
               /\ \A c \in fmCasts' : c \in fmCasts \/ ClearCast(f, c)
               /\ \E c \in fmCasts' : c.alarm.fp = f
      <4>1. \A c \in fmCasts' : c.alarm.fp = f => ClearCast(f, c)
        BY <3>2, <3>3
      <4>2. \A c, d : ClearCast(f, c) /\ ClearCast(f, d) => c = d
        BY <3>2 DEF ClearCast
      <4>3. UnderWay(f)' /\ lastStatus'[f] = "resolved"
        BY <2>1, <3>3 DEF UnderWay
      <4>4. \A c : ClearCast(f, c) => c.id \in Rows' /\ IsCleared(c.alarm) /\ open \subseteq {c.id}
        BY <1>1, <2>3, <3>2 DEF ClearCast
      <4>5. \A c \in fmCasts' : c.alarm.fp = f => Clearing(f, c)'
        BY <1>2, <4>1, <4>3, <4>4 DEF Clearing
      <4> QED BY <1>2, <3>2, <4>1, <4>2, <4>3, <4>5 DEF Tracked
    <3>4. CASE /\ status = "firing" /\ open = {} /\ f \in vnfcs
               /\ \E c : OpenCast(f, c) /\ fmCasts' = fmCasts \cup {c}
      <4>1. PICK c : OpenCast(f, c) /\ fmCasts' = fmCasts \cup {c}
        BY <3>4
      <4>2. \A d \in fmCasts' : d.alarm.fp = f => d = c
        BY <3>2, <4>1
      <4>3. UnderWay(f)' /\ lastStatus'[f] = "firing"
        BY <2>1, <2>4, <3>4, <4>1 DEF UnderWay
      <4>4. Opening(f, c)'
        BY <1>1, <1>2, <2>4, <3>4, <4>1, <4>3 DEF Opening, OpenCast
      <4> QED BY <1>2, <3>2, <4>2, <4>3, <4>4 DEF Tracked
    <3>5. CASE /\ ~(status = "resolved" /\ open # {})
               /\ ~(status = "firing" /\ open = {} /\ f \in vnfcs)
               /\ UNCHANGED fmCasts
      <4>1. (open # {}) <=> (lastStatus'[f] = "firing")
        BY <2>1, <3>2, <3>5 DEF Statuses
      <4> QED BY <1>2, <3>2, <3>5, <4>1 DEF Tracked
    <3> QED BY <1>4, <3>3, <3>4, <3>5, AlertEffect DEF TrackInv
  <2> QED BY <2>6, <2>7, <2>8 DEF TrackInv
<1> QED BY <1>3, <1>4, AlertParts DEF TrackInv

\* The conductor stores the alarm: its fingerprint has no cast under way any
\* more, and the alarm of its alert.
LEMMA TrackStore ==
    ASSUME TrackInv, FmIInv', NEW c \in fmCasts, store_alarm_info(c)
    PROVE  TrackInv'
<1>1. /\ Rows' = Rows \cup {c.id} /\ fmCasts' = fmCasts \ {c}
      /\ \A m \in Rows : m # c.id => alarm'[m] = alarm[m]
      /\ alarm'[c.id].fp = c.alarm.fp
      /\ IsCleared(alarm'[c.id]) <=> IsCleared(c.alarm) \/ (c.id \in Rows /\ IsCleared(alarm[c.id]))
      /\ UNCHANGED <<patch, lastStatus, crowded>>
  BY StoreEffect DEF TrackInv
<1>2. c.id \in Rows => alarm[c.id].fp = c.alarm.fp
  BY DEF TrackInv, FpInv
<1>3. FpInv'
  BY <1>1, <1>2 DEF TrackInv, FpInv
<1>4. \A f, m : m \in get_not_cleared_alarms(f)' <=> m \in Rows' /\ alarm'[m].fp = f /\ ~IsCleared(alarm'[m])
  BY DEF get_not_cleared_alarms, IsCleared
<1>5. ASSUME NEW f \in Fps \ crowded', f # c.alarm.fp PROVE Tracked(f)'
  <2>1. \A m : m \in get_not_cleared_alarms(f)' <=> m \in get_not_cleared_alarms(f)
    BY <1>1, <1>2, <1>4, <1>5, OpenRow
  <2>2. get_not_cleared_alarms(f)' = get_not_cleared_alarms(f)
    BY <2>1
  <2>3. \A d \in fmCasts : d.alarm.fp = f => d.id # c.id
    BY <1>5 DEF TrackInv, FpInv
  <2> QED BY <1>1, <1>5, <2>2, <2>3, TrackedKept DEF TrackInv
<1>6. ASSUME NEW f \in Fps \ crowded', f = c.alarm.fp PROVE Tracked(f)'
  <2>1. Tracked(f) /\ (Opening(f, c) \/ Clearing(f, c))
    BY <1>1, <1>6 DEF TrackInv, Tracked
  <2>2. \A d \in fmCasts' : d.alarm.fp # f
    BY <1>1, <1>6, <2>1 DEF Tracked
  <2>3. CASE Opening(f, c)
    <3>1. \A m : m \in get_not_cleared_alarms(f)' <=> m = c.id
      BY <1>1, <1>4, <1>6, <2>3, OpenRow DEF Opening
    <3>2. lastStatus'[f] = "firing"
      BY <1>1, <2>3 DEF Opening
    <3> QED BY <2>2, <3>1, <3>2 DEF Tracked
  <2>4. CASE Clearing(f, c)
    <3>1. \A m : m \notin get_not_cleared_alarms(f)'
      BY <1>1, <1>4, <1>6, <2>4, OpenRow DEF Clearing
    <3>2. lastStatus'[f] = "resolved"
      BY <1>1, <2>4 DEF Clearing
    <3> QED BY <2>2, <3>1, <3>2 DEF Tracked
  <2> QED BY <2>1, <2>3, <2>4
<1> QED BY <1>3, <1>5, <1>6 DEF TrackInv

\* The requests of clients change neither what an alarm is about nor whether
\* it is cleared.
LEMMA TrackClient ==
    ASSUME TrackInv, FmIInv', NEW u \in FmClients,
           AckWrite(u) \/ \E m \in AlarmIds, ack \in AckStates : AckRead(u, m, ack)
    PROVE  TrackInv'
<1>1. /\ Rows' = Rows /\ UNCHANGED <<fmCasts, lastStatus, crowded>>
      /\ \A m \in Rows : alarm'[m].fp = alarm[m].fp /\ (IsCleared(alarm'[m]) <=> IsCleared(alarm[m]))
      /\ \A w \in FmClients : patch'[w] # NoPatch =>
            \/ patch'[w] = patch[w]
            \/ /\ patch'[w].id \in Rows /\ patch'[w].alarm.fp = alarm[patch'[w].id].fp
               /\ IsCleared(patch'[w].alarm) <=> IsCleared(alarm[patch'[w].id])
  <2>1. CASE AckWrite(u)
    <3>1. /\ patch[u].id \in Rows /\ patch[u].alarm.fp = alarm[patch[u].id].fp
          /\ IsCleared(patch[u].alarm) => IsCleared(alarm[patch[u].id])
      BY <2>1 DEF TrackInv, FpInv, AckWrite
    <3>2. /\ Rows' = Rows
          /\ \A m \in Rows : m # patch[u].id => alarm'[m] = alarm[m]
          /\ alarm'[patch[u].id].fp = patch[u].alarm.fp
          /\ IsCleared(alarm'[patch[u].id]) <=> IsCleared(patch[u].alarm) \/ IsCleared(alarm[patch[u].id])
          /\ patch' = [patch EXCEPT ![u] = NoPatch]
          /\ UNCHANGED <<fmCasts, lastStatus, crowded>>
      BY <2>1, <3>1, AckEffect DEF TrackInv
    <3>3. \A w \in FmClients : patch'[w] # NoPatch => patch'[w] = patch[w]
      BY <3>2 DEF TrackInv, FmIInv, FmTypeOK
    <3> QED BY <3>1, <3>2, <3>3
  <2>2. ASSUME NEW m \in AlarmIds, NEW ack \in AckStates, AckRead(u, m, ack)
        PROVE  /\ UNCHANGED <<alarm, Rows, fmCasts, lastStatus, crowded>>
               /\ \A w \in FmClients : \/ patch'[w] = patch[w]
                    \/ /\ patch'[w].id \in Rows /\ patch'[w].alarm.fp = alarm[patch'[w].id].fp
                       /\ IsCleared(patch'[w].alarm) <=> IsCleared(alarm[patch'[w].id])
    <3> DEFINE new == [alarm[m] EXCEPT !.ackState = ack, !.acked = (ack = "ACKNOWLEDGED")]
    <3>1. m \in Rows /\ alarm[m] \in Alarm
      BY <2>2 DEF AckRead, TrackInv, FmIInv, FmTypeOK
    <3>2. new.fp = alarm[m].fp /\ (IsCleared(new) <=> IsCleared(alarm[m]))
      BY <3>1 DEF Alarm, IsCleared
    <3>3. patch' = [patch EXCEPT ![u] = [id |-> m, alarm |-> new]]
      BY <2>2 DEF AckRead
    <3> HIDE DEF new
    <3>4. \A w \in FmClients : patch'[w] = patch[w] \/ (patch'[w].id = m /\ patch'[w].alarm = new)
      BY <3>3 DEF TrackInv, FmIInv, FmTypeOK
    <3>5. UNCHANGED <<alarm, Rows, fmCasts, lastStatus, crowded>>
      BY <2>2 DEF AckRead, Rows
    <3> QED BY <3>1, <3>2, <3>4, <3>5
  <2> QED BY <2>1, <2>2
<1>2. FpInv'
  BY <1>1 DEF TrackInv, FpInv
<1>3. \A f, m : m \in get_not_cleared_alarms(f)' <=> m \in Rows' /\ alarm'[m].fp = f /\ ~IsCleared(alarm'[m])
  BY DEF get_not_cleared_alarms, IsCleared
<1>4. \A f, m : m \in get_not_cleared_alarms(f)' <=> m \in get_not_cleared_alarms(f)
  BY <1>1, <1>3, OpenRow
<1>5. ASSUME NEW f \in Fps \ crowded' PROVE Tracked(f)'
  <2>1. get_not_cleared_alarms(f)' = get_not_cleared_alarms(f)
    BY <1>4
  <2> QED BY <1>1, <2>1, TrackedKept DEF TrackInv
<1> QED BY <1>2, <1>5 DEF TrackInv

\* Every step keeps the fingerprints tracked.
LEMMA TrackStep == TrackInv /\ [FmNext]_fmVars => TrackInv'
<1> SUFFICES ASSUME TrackInv, [FmNext]_fmVars PROVE TrackInv'
  OBVIOUS
<1>1. FmIInv'
  BY FmStep DEF TrackInv
<1>2. CASE UNCHANGED <<alarm, fmCasts, patch, lastStatus, crowded>>
  <2>1. Rows' = Rows /\ \A f : get_not_cleared_alarms(f)' = get_not_cleared_alarms(f)
    BY <1>2 DEF Rows, get_not_cleared_alarms
  <2>2. FpInv'
    BY <1>2, <2>1 DEF TrackInv, FpInv
  <2>3. \A f \in (Fps \ crowded)' : Tracked(f)'
    BY <1>2, <2>1, TrackedKept DEF TrackInv
  <2> QED BY <1>1, <2>2, <2>3 DEF TrackInv
<1>3. ASSUME NEW q \in FmReqs, PostAlerts(q) PROVE TrackInv'
  BY <1>2, <1>3 DEF PostAlerts
<1>4. ASSUME NEW f \in Fps, PodGone(f) PROVE TrackInv'
  BY <1>2, <1>4 DEF PodGone
<1>5. CASE UNCHANGED fmVars
  BY <1>2, <1>5 DEF fmVars
<1> QED BY <1>1, <1>3, <1>4, <1>5, TrackAlert, TrackStore, TrackClient DEF FmNext

\* Fingerprints are tracked in every state.
THEOREM FingerprintsTracked == FmSpec => []TrackInv
<1>1. FmInit => TrackInv
  <2> SUFFICES ASSUME FmInit PROVE TrackInv
    OBVIOUS
  <2>1. Rows = {} /\ fmCasts = {} /\ \A u \in FmClients : patch[u] = NoPatch
    BY DEF FmInit, Rows
  <2>2. FpInv
    BY <2>1 DEF FpInv
  <2>3. ASSUME NEW f \in Fps PROVE Tracked(f)
    <3>1. get_not_cleared_alarms(f) = {}
      BY <2>1 DEF get_not_cleared_alarms
    <3>2. lastStatus[f] = "resolved"
      BY DEF FmInit
    <3> QED BY <2>1, <3>1, <3>2 DEF Tracked
  <2> QED BY <2>2, <2>3, FmInitInv DEF TrackInv
<1> QED BY <1>1, TrackStep, PTL DEF FmSpec

\* An alert that is repeated opens no second alarm, if it was never looked at
\* while a cast for its fingerprint was under way.
THEOREM OneAlarmPerAlert == FmSpec => []OneOpenAlarm
<1>1. TrackInv => OneOpenAlarm
  <2> SUFFICES ASSUME TrackInv, NEW f \in Fps \ crowded
               PROVE  Cardinality(get_not_cleared_alarms(f)) <= 1
    BY DEF OneOpenAlarm
  <2>1. \A m, n \in get_not_cleared_alarms(f) : m = n
    BY DEF TrackInv, Tracked
  <2>2. CASE get_not_cleared_alarms(f) = {}
    BY <2>2, FS_EmptySet
  <2>3. CASE get_not_cleared_alarms(f) # {}
    <3>1. PICK m : get_not_cleared_alarms(f) = {m}
      BY <2>1, <2>3
    <3> QED BY <3>1, FS_Singleton
  <2> QED BY <2>2, <2>3
<1> QED BY <1>1, FingerprintsTracked, PTL

\* Under the same condition the open alarms are those of the alerts that fire.
THEOREM AlarmsTrackAlerts == FmSpec => []AlarmTracksAlert
<1>1. TrackInv => AlarmTracksAlert
  BY DEF TrackInv, Tracked, AlarmTracksAlert
<1> QED BY <1>1, FingerprintsTracked, PTL

============================================================================
