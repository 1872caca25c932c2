------------------------- MODULE Monitoring_proofs -------------------------
(***************************************************************************)
(* The two services that watch servers for the VNF.                         *)
(*                                                                         *)
(* Auto-heal timers: no timer in timer_map is dead and no heal request is   *)
(* without a VNFC, for any number of instances, VNFCs, green threads and    *)
(* timers.                                                                  *)
(*                                                                         *)
(* The server notifier: its registrations follow the servers of the VNF     *)
(* through failed, retried and rolled back operations, for any number of    *)
(* servers, registrations and operations.  Whatever failed, the notifier    *)
(* has for each server the alarm that the error data of the operation       *)
(* names, and where that names none, the alarm of the row.                  *)
(***************************************************************************)
EXTENDS AutoHealTimer, ServerNotifier, FiniteSetTheorems, TLAPS

(* Auto-heal timers *)

\* What a timer object is.
TimerObj == [state : {"unused", "running", "expired"}, drv : Drivers,
             vnf : HealVnfs, queue : SUBSET HealVnfcs]

\* timer_map files a timer under its own driver and instance, so no timer is
\* in it twice.
Filed ==
    \A d \in Drivers, v \in HealVnfs :
        timer_map[d][v] # NoTimer =>
            /\ timer[timer_map[d][v]].drv = d
            /\ timer[timer_map[d][v]].vnf = v

\* A timer that a green thread has started and not stored yet runs, and
\* nobody else knows it.
Unfiled ==
    \A r \in HealRpcs : healRpc[r].pc = "store" =>
        /\ healRpc[r].timer \in Timers
        /\ timer[healRpc[r].timer].state = "running"
        /\ \A d \in Drivers, v \in HealVnfs : timer_map[d][v] # healRpc[r].timer
        /\ \A q \in HealRpcs : q # r /\ healRpc[q].pc = "store" => healRpc[q].timer # healRpc[r].timer

HealIInv == HealTypeOK /\ NoDeadTimer /\ Filed /\ Unfiled

\* A timer object in its first state has a type although it has no instance.
LEMMA FirstTimer == NoTimerObj \in TimerObj
BY HealVnfsAssumption DEF NoTimerObj, TimerObj, Drivers

\* The conductor starts with an empty timer_map.
LEMMA HealInitInv == HealInit => HealIInv
<1> SUFFICES ASSUME HealInit PROVE HealIInv
  OBVIOUS
<1>1. HealTypeOK
  BY FirstTimer DEF HealInit, HealTypeOK, TimerObj, IdleRpc
<1>2. NoDeadTimer /\ Filed
  BY DEF HealInit, NoDeadTimer, Filed
<1>3. Unfiled
  BY DEF HealInit, Unfiled, IdleRpc
<1> QED BY <1>1, <1>2, <1>3 DEF HealIInv

\* append changes no timer's state, driver or instance.
LEMMA AppendedKeeps ==
    ASSUME HealTypeOK, NEW t \in Timers, NEW cs \in SUBSET HealVnfcs
    PROVE  /\ Appended(timer, t, cs) \in [Timers -> TimerObj]
           /\ \A u \in Timers : /\ Appended(timer, t, cs)[u].state = timer[u].state
                                /\ Appended(timer, t, cs)[u].drv = timer[u].drv
                                /\ Appended(timer, t, cs)[u].vnf = timer[u].vnf
BY DEF HealTypeOK, TimerObj, Appended

\* cancel changes no other timer.
LEMMA CancelledKeeps ==
    ASSUME NEW ts \in [Timers -> TimerObj], NEW t \in Timers \cup {NoTimer}
    PROVE  /\ Cancelled(ts, t) \in [Timers -> TimerObj]
           /\ \A u \in Timers : u # t => Cancelled(ts, t)[u] = ts[u]
<1>1. CASE t = NoTimer
  BY <1>1 DEF Cancelled
<1>2. CASE t # NoTimer
  <2>1. Cancelled(ts, t) = [ts EXCEPT ![t] = [ts[t] EXCEPT !.state = "expired"]]
    BY <1>2 DEF Cancelled
  <2>2. t \in Timers /\ [ts[t] EXCEPT !.state = "expired"] \in TimerObj
    BY <1>2 DEF TimerObj
  <2> QED BY <2>1, <2>2
<1> QED BY <1>1, <1>2

\* A timer that expires is a timer, and the others are as they were.
LEMMA ExpiredKeeps ==
    ASSUME HealTypeOK, NEW t \in Timers
    PROVE  /\ [timer EXCEPT ![t].state = "expired"] \in [Timers -> TimerObj]
           /\ \A u \in Timers : u # t => [timer EXCEPT ![t].state = "expired"][u] = timer[u]
<1>1. timer \in [Timers -> TimerObj] /\ timer[t] \in TimerObj
  BY DEF HealTypeOK, TimerObj
<1>2. [timer[t] EXCEPT !.state = "expired"] \in TimerObj
  BY <1>1 DEF TimerObj
<1>3. [timer EXCEPT ![t].state = "expired"] = [timer EXCEPT ![t] = [timer[t] EXCEPT !.state = "expired"]]
  OBVIOUS
<1> QED BY <1>1, <1>2, <1>3

\* A cast that is sent leaves the timers alone.
LEMMA RequestStep ==
    ASSUME HealIInv, NEW op \in {"notify", "remove"}, NEW d \in Drivers, NEW v \in HealVnfs,
           NEW cs \in SUBSET HealVnfcs, Cast(op, d, v, cs),
           alerts' \in Nat, deployed' \subseteq HealVnfs,
           UNCHANGED <<timer_map, timer, healRpc, healReqs, owed>>
    PROVE  HealIInv'
<1>1. HealTypeOK'
  BY DEF HealIInv, HealTypeOK, TimerObj, Cast
<1>2. NoDeadTimer' /\ Filed' /\ Unfiled'
  BY DEF HealIInv, NoDeadTimer, Filed, Unfiled
<1> QED BY <1>1, <1>2 DEF HealIInv

\* notify and enqueue_heal: a timer in the map takes the VNFCs, or a new one
\* is started that is in no map yet.
LEMMA EnqueueStep ==
    ASSUME HealIInv, NEW r \in HealRpcs, NEW d \in Drivers, NEW m \in healCasts, Enqueue(r, d, m)
    PROVE  HealIInv'
<1>1. /\ m.vnf \in HealVnfs /\ m.vnfcs \in SUBSET HealVnfcs
      /\ healCasts' \subseteq healCasts
  BY DEF HealIInv, HealTypeOK, TimerObj, Enqueue, Receive
<1>2. owed' \in [Drivers -> [HealVnfs -> SUBSET HealVnfcs]]
  BY <1>1 DEF HealIInv, HealTypeOK, TimerObj, Enqueue
<1>3. CASE /\ timer_map[d][m.vnf] # NoTimer
           /\ timer' = Appended(timer, timer_map[d][m.vnf], m.vnfcs)
           /\ UNCHANGED healRpc
  <2>1. timer_map[d][m.vnf] \in Timers
    BY <1>1, <1>3 DEF HealIInv, HealTypeOK, TimerObj
  <2>2. /\ timer' \in [Timers -> TimerObj]
        /\ \A u \in Timers : /\ timer'[u].state = timer[u].state
                             /\ timer'[u].drv = timer[u].drv
                             /\ timer'[u].vnf = timer[u].vnf
    BY <1>1, <1>3, <2>1, AppendedKeeps DEF HealIInv
  <2>3. HealTypeOK'
    BY <1>1, <1>2, <1>3, <2>2 DEF HealIInv, HealTypeOK, TimerObj, Enqueue
  <2>4. NoDeadTimer' /\ Filed'
    BY <2>2 DEF HealIInv, HealTypeOK, TimerObj, NoDeadTimer, Filed, Enqueue
  <2>5. Unfiled'
    BY <1>3, <2>2 DEF HealIInv, HealTypeOK, TimerObj, Unfiled, Enqueue
  <2> QED BY <2>3, <2>4, <2>5 DEF HealIInv
<1>4. CASE \E t \in Timers :
              /\ timer[t].state = "unused"
              /\ timer' = [timer EXCEPT ![t] = [state |-> "running", drv |-> d, vnf |-> m.vnf, queue |-> {}]]
              /\ healRpc' = [healRpc EXCEPT ![r] = [pc |-> "store", timer |-> t, vnfcs |-> m.vnfcs]]
  <2>1. PICK t \in Timers :
              /\ timer[t].state = "unused"
              /\ timer' = [timer EXCEPT ![t] = [state |-> "running", drv |-> d, vnf |-> m.vnf, queue |-> {}]]
              /\ healRpc' = [healRpc EXCEPT ![r] = [pc |-> "store", timer |-> t, vnfcs |-> m.vnfcs]]
    BY <1>4
  <2>2. HealTypeOK'
    BY <1>1, <1>2, <2>1 DEF HealIInv, HealTypeOK, TimerObj, Enqueue
  <2>3. \A e \in Drivers, v \in HealVnfs : timer_map[e][v] # t
    BY <2>1, TimersAssumption DEF HealIInv, NoDeadTimer
  <2>4. NoDeadTimer' /\ Filed'
    BY <2>1, <2>3 DEF HealIInv, HealTypeOK, TimerObj, NoDeadTimer, Filed, Enqueue
  <2>5. \A q \in HealRpcs : q # r => healRpc'[q] = healRpc[q]
    BY <2>1 DEF HealIInv, HealTypeOK, TimerObj
  <2>6. healRpc'[r] = [pc |-> "store", timer |-> t, vnfcs |-> m.vnfcs]
    BY <2>1 DEF HealIInv, HealTypeOK, TimerObj
  <2>7. \A u \in Timers : u # t => timer'[u] = timer[u]
    BY <2>1 DEF HealIInv, HealTypeOK, TimerObj
  <2>8. timer'[t].state = "running"
    BY <2>1 DEF HealIInv, HealTypeOK, TimerObj
  <2>9. \A q \in HealRpcs : q # r /\ healRpc[q].pc = "store" => healRpc[q].timer # t
    BY <2>1 DEF HealIInv, Unfiled
  <2>10. Unfiled'
    BY <2>1, <2>3, <2>5, <2>6, <2>7, <2>8, <2>9 DEF HealIInv, Unfiled, Enqueue
  <2> QED BY <2>2, <2>4, <2>10 DEF HealIInv
<1> QED BY <1>3, <1>4 DEF Enqueue

\* The store into timer_map files a running timer, and nobody else has it.
LEMMA StoreStep ==
    ASSUME HealIInv, NEW r \in HealRpcs, StoreTimer(r)
    PROVE  HealIInv'
<1> DEFINE t == healRpc[r].timer
<1>1. t \in Timers /\ timer[t].state = "running" /\ healRpc[r].vnfcs \in SUBSET HealVnfcs
  BY DEF HealIInv, HealTypeOK, TimerObj, Unfiled, StoreTimer
<1>2. timer[t].drv \in Drivers /\ timer[t].vnf \in HealVnfs
  BY <1>1 DEF HealIInv, HealTypeOK, TimerObj
<1>3. /\ timer' \in [Timers -> TimerObj]
      /\ \A u \in Timers : /\ timer'[u].state = timer[u].state
                           /\ timer'[u].drv = timer[u].drv
                           /\ timer'[u].vnf = timer[u].vnf
  BY <1>1, AppendedKeeps DEF HealIInv, StoreTimer
<1>4. \A d \in Drivers, v \in HealVnfs :
         timer_map'[d][v] = IF d = timer[t].drv /\ v = timer[t].vnf THEN t ELSE timer_map[d][v]
  BY <1>2 DEF HealIInv, HealTypeOK, TimerObj, StoreTimer
<1>5. HealTypeOK'
  BY <1>1, <1>2, <1>3 DEF HealIInv, HealTypeOK, TimerObj, StoreTimer, IdleRpc
<1>6. NoDeadTimer' /\ Filed'
  <2> SUFFICES ASSUME NEW d \in Drivers, NEW v \in HealVnfs, timer_map'[d][v] # NoTimer
               PROVE  /\ timer'[timer_map'[d][v]].state = "running"
                      /\ timer'[timer_map'[d][v]].drv = d
                      /\ timer'[timer_map'[d][v]].vnf = v
    BY ZenonT(60) DEF NoDeadTimer, Filed
  <2>1. CASE d = timer[t].drv /\ v = timer[t].vnf
    <3>1. timer_map'[d][v] = t
      BY <2>1, <1>4
    <3>2. timer'[t].state = "running" /\ timer'[t].drv = d /\ timer'[t].vnf = v
      BY <2>1, <1>1, <1>3
    <3> QED BY <3>1, <3>2
  <2>2. CASE ~(d = timer[t].drv /\ v = timer[t].vnf)
    <3>1. timer_map'[d][v] = timer_map[d][v]
      BY <2>2, <1>4
    <3>2. timer_map[d][v] \in Timers
      BY <3>1 DEF HealIInv, HealTypeOK, TimerObj
    <3> QED BY <3>1, <3>2, <1>3 DEF HealIInv, NoDeadTimer, Filed
  <2> QED BY <2>1, <2>2
<1>7. \A q \in HealRpcs : healRpc'[q].pc = "store" => q # r /\ healRpc'[q] = healRpc[q]
  BY DEF HealIInv, HealTypeOK, TimerObj, StoreTimer, IdleRpc
<1>8. \A q \in HealRpcs : q # r /\ healRpc[q].pc = "store" => healRpc[q].timer # t
  BY DEF HealIInv, Unfiled, StoreTimer
<1>9. Unfiled'
  BY <1>3, <1>4, <1>7, <1>8 DEF HealIInv, Unfiled
<1> QED BY <1>5, <1>6, <1>9 DEF HealIInv

\* What remove_timer, dequeue_heal and the expiry of a timer have in common:
\* the timer in the map is cancelled and leaves it, and so may one timer of
\* the same instance that is in no map and that no green thread has.
LEMMA CancelStep ==
    ASSUME HealIInv, NEW d \in Drivers, NEW v \in HealVnfs, HealTypeOK',
           timer_map' = [timer_map EXCEPT ![d][v] = NoTimer],
           NEW t \in Timers \cup {NoTimer},
           t # NoTimer => /\ timer[t].drv = d /\ timer[t].vnf = v
                          /\ \A r \in HealRpcs : healRpc[r].timer # t,
           \A u \in Timers : u \notin {t, timer_map[d][v]} => timer'[u] = timer[u],
           UNCHANGED healRpc
    PROVE  HealIInv'
<1>1. \A e \in Drivers, w \in HealVnfs :
         timer_map'[e][w] = IF e = d /\ w = v THEN NoTimer ELSE timer_map[e][w]
  BY DEF HealIInv, HealTypeOK, TimerObj
<1>2. \A e \in Drivers, w \in HealVnfs :
         timer_map'[e][w] # NoTimer =>
             /\ timer_map[e][w] \in Timers
             /\ timer_map[e][w] \notin {t, timer_map[d][v]}
             /\ timer_map'[e][w] = timer_map[e][w]
  BY <1>1 DEF HealIInv, HealTypeOK, TimerObj, Filed
<1>3. NoDeadTimer' /\ Filed'
  BY <1>2 DEF HealIInv, NoDeadTimer, Filed
<1>4. \A r \in HealRpcs : healRpc[r].pc = "store" =>
         /\ healRpc[r].timer \in Timers
         /\ timer'[healRpc[r].timer] = timer[healRpc[r].timer]
  <2> SUFFICES ASSUME NEW r \in HealRpcs, healRpc[r].pc = "store"
               PROVE  /\ healRpc[r].timer \in Timers
                      /\ timer'[healRpc[r].timer] = timer[healRpc[r].timer]
    OBVIOUS
  <2>1. healRpc[r].timer \in Timers /\ timer_map[d][v] # healRpc[r].timer
    BY DEF HealIInv, Unfiled
  <2>2. healRpc[r].timer # t
    BY <2>1, TimersAssumption
  <2> QED BY <2>1, <2>2
<1>5. Unfiled'
  BY <1>1, <1>4, TimersAssumption DEF HealIInv, Unfiled
<1> QED BY <1>3, <1>5 DEF HealIInv

\* remove_timer and dequeue_heal.
LEMMA DequeueStep ==
    ASSUME HealIInv, NEW r \in HealRpcs, NEW d \in Drivers, NEW m \in healCasts, Dequeue(r, d, m)
    PROVE  HealIInv'
<1>1. m.vnf \in HealVnfs /\ timer_map[d][m.vnf] \in Timers \cup {NoTimer}
  BY DEF HealIInv, HealTypeOK, TimerObj
<1>2. /\ timer' \in [Timers -> TimerObj]
      /\ \A u \in Timers : u # timer_map[d][m.vnf] => timer'[u] = timer[u]
  <2>1. timer \in [Timers -> TimerObj] /\ timer' = Cancelled(timer, timer_map[d][m.vnf])
    BY DEF HealIInv, HealTypeOK, TimerObj, Dequeue
  <2> QED BY <1>1, <2>1, CancelledKeeps
<1>3. HealTypeOK'
  BY <1>1, <1>2 DEF HealIInv, HealTypeOK, TimerObj, Dequeue, Receive
<1>4. UNCHANGED healRpc /\ timer_map' = [timer_map EXCEPT ![d][m.vnf] = NoTimer]
  BY DEF Dequeue
<1> QED BY <1>1, <1>2, <1>3, <1>4, CancelStep

\* The expiry of a timer.
LEMMA ExpireStep ==
    ASSUME HealIInv, NEW t \in Timers, Expire(t)
    PROVE  HealIInv'
<1>1. PICK d \in Drivers, v \in HealVnfs : timer[t].drv = d /\ timer[t].vnf = v
  BY DEF HealIInv, HealTypeOK
<1>2. timer_map[d][v] \in Timers \cup {NoTimer} /\ timer[t].queue \in SUBSET HealVnfcs
  BY DEF HealIInv, HealTypeOK
<1>3. /\ timer' \in [Timers -> TimerObj]
      /\ \A u \in Timers : u \notin {t, timer_map[d][v]} => timer'[u] = timer[u]
  <2> DEFINE ts == [timer EXCEPT ![t].state = "expired"]
  <2>1. ts \in [Timers -> TimerObj] /\ \A u \in Timers : u # t => ts[u] = timer[u]
    BY ExpiredKeeps DEF HealIInv
  <2>2. timer' = Cancelled(ts, timer_map[d][v])
    BY <1>1 DEF Expire
  <2> HIDE DEF ts
  <2> QED BY <1>2, <2>1, <2>2, CancelledKeeps
<1>4. /\ UNCHANGED healRpc
      /\ timer_map' = [timer_map EXCEPT ![d][v] = NoTimer]
      /\ \A r \in HealRpcs : healRpc[r].timer # t
  BY <1>1 DEF Expire, Due
<1>5. HealTypeOK'
  <2>1. timer_map' \in [Drivers -> [HealVnfs -> Timers \cup {NoTimer}]]
    BY <1>4 DEF HealIInv, HealTypeOK
  <2>2. owed' \in [Drivers -> [HealVnfs -> SUBSET HealVnfcs]]
    BY <1>1 DEF HealIInv, HealTypeOK, Expire
  <2>3. healReqs' \subseteq [vnf : HealVnfs, vnfcs : SUBSET HealVnfcs]
    BY <1>1, <1>2 DEF HealIInv, HealTypeOK, Expire
  <2> QED BY <1>3, <2>1, <2>2, <2>3 DEF HealIInv, HealTypeOK, TimerObj, Expire
<1>6. /\ t \in Timers \cup {NoTimer}
      /\ t # NoTimer => /\ timer[t].drv = d /\ timer[t].vnf = v
                        /\ \A r \in HealRpcs : healRpc[r].timer # t
  BY <1>1, <1>4
<1>7. \A u \in Timers : u \notin {t, timer_map[d][v]} => timer'[u] = timer[u]
  BY <1>3
<1>8. UNCHANGED healRpc /\ timer_map' = [timer_map EXCEPT ![d][v] = NoTimer]
  BY <1>4
<1> QED BY <1>5, <1>6, <1>7, <1>8, CancelStep, ZenonT(90)

\* Every step of the API server, of a cast's green thread and of a timer keeps
\* the invariant.
LEMMA HealStep == HealIInv /\ [HealNext]_healVars => HealIInv'
<1> SUFFICES ASSUME HealIInv, [HealNext]_healVars PROVE HealIInv'
  OBVIOUS
<1>1. ASSUME NEW v \in HealVnfs, NEW c \in HealVnfcs, auto_heal_alert(v, c) PROVE HealIInv'
  <2>1. alerts' \in Nat /\ deployed' \subseteq HealVnfs
    BY <1>1 DEF HealIInv, HealTypeOK, TimerObj, auto_heal_alert
  <2> QED BY <1>1, <2>1, RequestStep DEF auto_heal_alert, Drivers
<1>2. ASSUME NEW v \in HealVnfs, NEW c \in HealVnfcs, fault_notify(v, c) PROVE HealIInv'
  <2>1. alerts' \in Nat /\ deployed' \subseteq HealVnfs
    BY <1>2 DEF HealIInv, HealTypeOK, TimerObj, fault_notify
  <2> QED BY <1>2, <2>1, RequestStep DEF fault_notify, Drivers
<1>3. ASSUME NEW v \in HealVnfs, terminate_vnf(v) PROVE HealIInv'
  <2>1. alerts' \in Nat /\ deployed' \subseteq HealVnfs
    BY <1>3 DEF HealIInv, HealTypeOK, TimerObj, terminate_vnf
  <2> QED BY <1>3, <2>1, RequestStep DEF terminate_vnf, Drivers
<1>4. CASE HealConductor
  BY <1>4, EnqueueStep, DequeueStep, StoreStep, ExpireStep
     DEF HealConductor, notify, enqueue_heal, remove_timer, dequeue_heal, Drivers
<1>5. CASE UNCHANGED healVars
  BY <1>5 DEF healVars, HealIInv, HealTypeOK, NoDeadTimer, Filed, Unfiled
<1> QED BY <1>1, <1>2, <1>3, <1>4, <1>5 DEF HealNext

\* The timer that timer_map holds for an instance is running: a notification
\* is never appended to a timer that has expired or was cancelled.
THEOREM NoTimerIsDead == HealSpec => []NoDeadTimer
<1>1. HealIInv => NoDeadTimer
  BY DEF HealIInv
<1> QED BY <1>1, HealInitInv, HealStep, PTL DEF HealSpec

----------------------------------------------------------------------------
(* No heal without a VNFC.                                                  *)

\* The timer does not run, or a green thread has started it and not stored it.
Handled(t) ==
    timer[t].state = "running" => \E r \in HealRpcs : healRpc[r].pc = "store" /\ healRpc[r].timer = t

\* A timer that is in nobody's hands has something to heal: it got the VNFCs
\* of its first notification when it was stored, and nobody takes one out.
Named ==
    /\ \A m \in healCasts : m.op = "notify" => m.vnfcs # {}
    /\ \A r \in HealRpcs : healRpc[r].pc = "store" => healRpc[r].vnfcs # {}
    /\ \A t \in Timers : Handled(t) \/ timer[t].queue # {}
    /\ HealsNamedVnfcs

\* A request of the API server names the VNFC of its notification.
LEMMA NamedRequest ==
    ASSUME Named, NEW op, NEW d, NEW v, NEW cs, Cast(op, d, v, cs), op = "notify" => cs # {},
           UNCHANGED <<timer_map, timer, healRpc, healReqs, owed>>
    PROVE  Named'
BY DEF Named, Handled, HealsNamedVnfcs, Cast

\* append adds what it is given to a timer that runs, and takes nothing away.
LEMMA AppendedQueue ==
    ASSUME HealTypeOK, NEW t \in Timers, NEW cs \in SUBSET HealVnfcs, NEW u \in Timers
    PROVE  Appended(timer, t, cs)[u].queue =
               IF u = t /\ timer[t].state = "running" THEN timer[u].queue \cup cs ELSE timer[u].queue
BY DEF HealTypeOK, Appended

\* cancel and expiry empty no queue and start no timer.
LEMMA CancelledQueue ==
    ASSUME NEW ts \in [Timers -> TimerObj], NEW t \in Timers \cup {NoTimer}, NEW u \in Timers,
           Cancelled(ts, t)[u].state = "running"
    PROVE  Cancelled(ts, t)[u] = ts[u]
BY TimersAssumption DEF Cancelled, TimerObj

\* Every step keeps Named.
LEMMA NamedStep == HealIInv /\ Named /\ [HealNext]_healVars => Named'
<1> SUFFICES ASSUME HealIInv, Named, [HealNext]_healVars PROVE Named'
  OBVIOUS
<1> USE DEF HealIInv
<1>1. ASSUME NEW v \in HealVnfs, NEW c \in HealVnfcs, auto_heal_alert(v, c) \/ fault_notify(v, c)
      PROVE  Named'
  BY <1>1, NamedRequest DEF auto_heal_alert, fault_notify
<1>2. ASSUME NEW v \in HealVnfs, terminate_vnf(v) PROVE Named'
  BY <1>2, NamedRequest DEF terminate_vnf
<1>3. ASSUME NEW r \in HealRpcs, NEW d \in Drivers, NEW m \in healCasts, Enqueue(r, d, m) PROVE Named'
  <2>1. /\ m.vnf \in HealVnfs /\ m.vnfcs \in SUBSET HealVnfcs /\ m.vnfcs # {}
        /\ healCasts' \subseteq healCasts /\ healRpc[r].pc = "idle" /\ UNCHANGED healReqs
    BY <1>3 DEF HealTypeOK, Enqueue, Receive, Named
  <2>2. CASE /\ timer_map[d][m.vnf] # NoTimer
             /\ timer' = Appended(timer, timer_map[d][m.vnf], m.vnfcs)
             /\ UNCHANGED healRpc
    <3>1. timer_map[d][m.vnf] \in Timers
      BY <2>1, <2>2 DEF HealTypeOK
    <3>2. \A u \in Timers : timer'[u].state = timer[u].state /\ (timer[u].queue # {} => timer'[u].queue # {})
      <4> DEFINE t == timer_map[d][m.vnf]
      <4>1. t \in Timers /\ timer' = Appended(timer, t, m.vnfcs)
        BY <2>2, <3>1
      <4> HIDE DEF t
      <4>2. \A u \in Timers : timer'[u].state = timer[u].state
        BY <2>1, <4>1, AppendedKeeps
      <4>3. \A u \in Timers : timer'[u].queue = timer[u].queue \/ timer'[u].queue = timer[u].queue \cup m.vnfcs
        BY <2>1, <4>1, AppendedQueue
      <4> QED BY <4>2, <4>3
    <3> QED BY <2>1, <2>2, <3>2 DEF Named, Handled, HealsNamedVnfcs
  <2>3. ASSUME NEW t \in Timers,
               timer' = [timer EXCEPT ![t] = [state |-> "running", drv |-> d, vnf |-> m.vnf, queue |-> {}]],
               healRpc' = [healRpc EXCEPT ![r] = [pc |-> "store", timer |-> t, vnfcs |-> m.vnfcs]]
        PROVE  Named'
    <3>1. /\ healRpc'[r].pc = "store" /\ healRpc'[r].timer = t /\ healRpc'[r].vnfcs = m.vnfcs
          /\ \A q \in HealRpcs : q # r => healRpc'[q] = healRpc[q]
      BY <2>3 DEF HealTypeOK
    <3>2. \A u \in Timers : u # t => timer'[u] = timer[u]
      BY <2>3 DEF HealTypeOK
    <3>3. ASSUME NEW u \in Timers, timer'[u].state = "running",
                 \A q \in HealRpcs : healRpc'[q].pc = "store" => healRpc'[q].timer # u
          PROVE  timer'[u].queue # {}
      BY <2>1, <3>1, <3>2, <3>3 DEF Named, Handled
    <3> QED BY <2>1, <3>1, <3>3 DEF Named, Handled, HealsNamedVnfcs
  <2> QED BY <1>3, <2>2, <2>3 DEF Enqueue
<1>4. ASSUME NEW r \in HealRpcs, StoreTimer(r) PROVE Named'
  <2> DEFINE t == healRpc[r].timer
  <2>1. /\ t \in Timers /\ timer[t].state = "running"
        /\ healRpc[r].vnfcs \in SUBSET HealVnfcs /\ healRpc[r].vnfcs # {}
    BY <1>4 DEF HealTypeOK, Unfiled, StoreTimer, Named
  <2>2. timer' = Appended(timer, t, healRpc[r].vnfcs) /\ UNCHANGED <<healCasts, healReqs>>
    BY <1>4 DEF StoreTimer
  <2>3. /\ healRpc'[r].pc = "idle"
        /\ \A q \in HealRpcs : q # r => healRpc'[q] = healRpc[q]
    BY <1>4 DEF StoreTimer, HealTypeOK, IdleRpc
  <2>4. \A u \in Timers : /\ timer'[u].state = timer[u].state
                          /\ timer[u].queue # {} \/ u = t => timer'[u].queue # {}
    <3> HIDE DEF t
    <3>1. \A u \in Timers : timer'[u].state = timer[u].state
      BY <2>1, <2>2, AppendedKeeps
    <3>2. \A u \in Timers :
             timer'[u].queue = IF u = t THEN timer[u].queue \cup healRpc[r].vnfcs ELSE timer[u].queue
      BY <2>1, <2>2, AppendedQueue
    <3> QED BY <2>1, <3>1, <3>2
  <2> HIDE DEF t
  <2>5. ASSUME NEW u \in Timers, timer'[u].state = "running",
               \A q \in HealRpcs : healRpc'[q].pc = "store" => healRpc'[q].timer # u
        PROVE  timer'[u].queue # {}
    BY <2>3, <2>4, <2>5 DEF Named, Handled, t
  <2> QED BY <2>2, <2>3, <2>5 DEF Named, Handled, HealsNamedVnfcs
<1>5. ASSUME NEW r \in HealRpcs, NEW d \in Drivers, NEW m \in healCasts, Dequeue(r, d, m) PROVE Named'
  <2>1. /\ timer_map[d][m.vnf] \in Timers \cup {NoTimer} /\ timer \in [Timers -> TimerObj]
        /\ timer' = Cancelled(timer, timer_map[d][m.vnf])
        /\ healCasts' \subseteq healCasts /\ UNCHANGED <<healRpc, healReqs>>
    BY <1>5 DEF HealTypeOK, TimerObj, Dequeue, Receive
  <2>2. \A u \in Timers : timer'[u].state = "running" => timer'[u] = timer[u]
    BY <2>1, CancelledQueue
  <2> QED BY <2>1, <2>2 DEF Named, Handled, HealsNamedVnfcs
<1>6. ASSUME NEW t \in Timers, Expire(t) PROVE Named'
  <2> DEFINE ts == [timer EXCEPT ![t].state = "expired"]
             x == timer_map[timer[t].drv][timer[t].vnf]
  <2>1. ts \in [Timers -> TimerObj] /\ x \in Timers \cup {NoTimer}
    <3>1. timer[t].drv \in Drivers /\ timer[t].vnf \in HealVnfs
      BY DEF HealTypeOK
    <3>2. x \in Timers \cup {NoTimer}
      BY <3>1 DEF HealTypeOK
    <3> QED BY <3>2, ExpiredKeeps
  <2>2. \A u \in Timers : ts[u].state = "running" => ts[u] = timer[u]
    BY DEF HealTypeOK, TimerObj
  <2>3. timer' = Cancelled(ts, x) /\ UNCHANGED <<healRpc, healCasts>>
    BY <1>6 DEF Expire
  <2> HIDE DEF ts, x
  <2>4. \A u \in Timers : timer'[u].state = "running" => timer'[u] = timer[u]
    BY <2>1, <2>2, <2>3, CancelledQueue
  <2>5. timer[t].queue # {}
    BY <1>6 DEF Expire, Due, Named, Handled
  <2>6. \A q \in healReqs' : q \in healReqs \/ q.vnfcs = timer[t].queue
    BY <1>6 DEF Expire
  <2> QED BY <2>3, <2>4, <2>5, <2>6 DEF Named, Handled, HealsNamedVnfcs
<1>7. CASE UNCHANGED healVars
  BY <1>7 DEF healVars, Named, Handled, HealsNamedVnfcs
<1> QED BY <1>1, <1>2, <1>3, <1>4, <1>5, <1>6, <1>7
        DEF HealNext, HealConductor, notify, enqueue_heal, remove_timer, dequeue_heal, Drivers

\* No heal is requested for an empty list of VNFCs, which HealVnfRequest takes
\* for the whole VNF: not when a timer expires right after it was started, and
\* not when one timer's expiry cancels another.
THEOREM HealsAreNamed == HealSpec => []HealsNamedVnfcs
<1>1. HealInit => Named
  <2> SUFFICES ASSUME HealInit PROVE Named
    OBVIOUS
  <2>1. NoTimerObj.state = "unused" /\ IdleRpc.pc = "idle"
    BY DEF NoTimerObj, IdleRpc
  <2>2. \A t \in Timers : timer[t].state = "unused"
    BY <2>1 DEF HealInit
  <2>3. \A r \in HealRpcs : healRpc[r].pc = "idle"
    BY <2>1 DEF HealInit
  <2> QED BY <2>2, <2>3 DEF HealInit, Named, Handled, HealsNamedVnfcs
<1>2. Named => HealsNamedVnfcs
  BY DEF Named
<1> QED BY <1>1, <1>2, HealInitInv, HealStep, NamedStep, PTL DEF HealSpec

----------------------------------------------------------------------------
(* The server notifier *)

\* A map from servers to alarms.
IsAlarms(f) == f \in [DOMAIN f -> Nat] /\ DOMAIN f \subseteq Servers

\* The alarm of a server, from error data e and row r.
AlarmOf(e, r, s) == IF s \in DOMAIN e THEN e[s] ELSE IF s \in DOMAIN r THEN r[s] ELSE None

\* The notifier n has these alarms and no others.
Told(n, e, r) == n = {<<s, AlarmOf(e, r, s)>> : s \in {t \in Servers : AlarmOf(e, r, t) # None}}

\* Servers that the operation removes.
Going == IF snOcc.op = "TERMINATE" THEN DOMAIN snRow ELSE snOcc.targets

Grows == snOcc.op \in {"INSTANTIATE", "SCALE_OUT"}

\* The error data e of the operation accounts for what the notifier has, and
\* names no server that the operation does not touch.
ErrOk(e) ==
    /\ IsAlarms(e)
    /\ Told(snNotifier, e, snRow)
    /\ Grows => DOMAIN e \cap DOMAIN snRow = {}
    /\ snOcc.op = "SCALE_IN" => DOMAIN e \subseteq snOcc.targets
    /\ snOcc.op = "TERMINATE" => DOMAIN e \subseteq DOMAIN snRow

\* What the conductor has in hand at each step.
WorkOk ==
    /\ snWork.pc = "start" => snWork.inst = snRow
    /\ snWork.pc = "process" /\ Grows => snWork.inst = snRow
    /\ snWork.pc = "process" /\ ~Grows => DOMAIN snWork.inst = DOMAIN snRow
    /\ snWork.pc \in {"process", "end"} /\ ~Grows =>
          /\ DOMAIN snWork.err \subseteq DOMAIN snRow
          /\ \A s \in DOMAIN snWork.inst : snWork.inst[s] = AlarmOf(snWork.err, snRow, s)
          /\ \A s \in Going : AlarmOf(snWork.err, snRow, s) = None
    /\ snWork.pc = "end" =>
          /\ DOMAIN snWork.inst = snVim
          /\ DOMAIN snRow \ Going \subseteq snVim
          /\ Grows => \A s \in snVim : snWork.inst[s] = AlarmOf(Empty, snRow, s)
          /\ snOcc.op \in {"TERMINATE", "SCALE_IN"} => snVim = DOMAIN snRow \ Going
    /\ snWork.pc = "commit" =>
          /\ DOMAIN snWork.inst = snVim
          /\ \A s \in snVim : snWork.inst[s] # None
          /\ Told(snNotifier, Empty, snWork.inst)

OccOk ==
    /\ snOcc = [op |-> snOcc.op, targets |-> snOcc.targets, state |-> snOcc.state, err |-> snOcc.err]
    /\ snOcc.op \in SnOps /\ snOcc.targets \subseteq DOMAIN snRow
    /\ snOcc.op = "INSTANTIATE" => DOMAIN snRow = {}
    /\ Grows => snOcc.targets = {}

\* An operation at work.
AtWork ==
    /\ OccOk /\ snOcc.state = "PROCESSING"
    /\ snWork = [pc |-> snWork.pc, inst |-> snWork.inst, err |-> snWork.err]
    /\ snWork.pc \in {"start", "process", "end", "commit"}
    /\ IsAlarms(snWork.inst)
    /\ snWork.pc # "commit" => ErrOk(snWork.err)
    /\ WorkOk

SnGood ==
    /\ IsAlarms(snRow) /\ \A s \in DOMAIN snRow : snRow[s] # None
    /\ snAlarms \in Nat
    /\ DOMAIN snRow \subseteq snMade /\ snVim \subseteq snMade /\ snMade \subseteq Servers
    /\ \/ /\ snOcc = NoOcc /\ snWork = SnIdle
          /\ Told(snNotifier, Empty, snRow) /\ DOMAIN snRow = snVim
       \/ /\ OccOk /\ snOcc.state = "FAILED_TEMP" /\ snWork = SnIdle
          /\ ErrOk(snOcc.err)
       \/ AtWork

SnInv == snLeak \in BOOLEAN /\ (~snLeak => SnGood)

----------------------------------------------------------------------------
(* The methods of the driver.                                              *)

\* Restricting a map.
LEMMA KeepIs ==
    ASSUME NEW f, NEW D, D \subseteq DOMAIN f
    PROVE  /\ DOMAIN Keep(f, D) = D
           /\ \A s \in D : Keep(f, D)[s] = f[s]
           /\ Pairs(Keep(f, D), D) = Pairs(f, D)
BY DEF Pairs, Keep

\* y is x after the notifier was asked: nothing leaks if it always answers.
Answered(x, bad, y) == y.leak \in BOOLEAN /\ (~y.leak => ~x.leak /\ bad = {})

\* Alarms are taken back one by one.
LEMMA AllAnswered == ASSUME NEW x, x.leak \in BOOLEAN, NEW f, NEW bad PROVE Answered(x, bad, UnregisterAll(x, f, bad))
BY DEF UnregisterAll, Answered

\* request_unregister takes them back so.
LEMMA UnregisterAnswered ==
    ASSUME NEW x, x.leak \in BOOLEAN, NEW ss, NEW bad
    PROVE  Answered(x, bad, request_unregister(x, ss, bad))
<1>1. request_unregister(x, ss, bad).leak = UnregisterAll(x, Keep(x.inst, ss \cap Watched(x.inst)), bad).leak
  BY DEF request_unregister
<1>2. Answered(x, bad, UnregisterAll(x, Keep(x.inst, ss \cap Watched(x.inst)), bad))
  BY AllAnswered
<1> QED BY <1>1, <1>2, Zenon DEF Answered

\* So does _merge_recent_register.
LEMMA MergeAnswered ==
    ASSUME NEW x, x.leak \in BOOLEAN, NEW bad
    PROVE  Answered(x, bad, _merge_recent_register(x, bad))
<1> DEFINE f == Keep(x.err, (DOMAIN x.err \ DOMAIN x.inst) \cap Watched(x.err))
<1>1. _merge_recent_register(x, bad).leak = UnregisterAll(x, f, bad).leak
  BY DEF _merge_recent_register
<1>2. Answered(x, bad, UnregisterAll(x, f, bad))
  BY AllAnswered
<1> QED BY <1>1, <1>2, Zenon DEF Answered

\* Servers that request_unregister and _merge_recent_register ask the notifier
\* to forget, and those that the instance has not.
Todo(x, ss) == ss \cap Watched(x.inst)
Strange(x) == DOMAIN x.err \ DOMAIN x.inst
Lost(x) == Strange(x) \cap Watched(x.err)

\* request_unregister where the notifier answers.
LEMMA UnregisterIs ==
    ASSUME NEW x, NEW ss
    PROVE  /\ request_unregister(x, ss, {}).inst
                = [s \in DOMAIN x.inst |-> IF s \in Todo(x, ss) THEN None ELSE x.inst[s]]
           /\ request_unregister(x, ss, {}).err = Forget(x.err, Todo(x, ss))
           /\ request_unregister(x, ss, {}).notifier = x.notifier \ Pairs(x.inst, Todo(x, ss))
<1> DEFINE f == Keep(x.inst, Todo(x, ss))
           z == UnregisterAll(x, f, {})
           y == request_unregister(x, ss, {})
<1>1. DOMAIN f \ {} = Todo(x, ss) /\ Pairs(f, Todo(x, ss)) = Pairs(x.inst, Todo(x, ss))
  BY KeepIs DEF Watched, Todo
<1> HIDE DEF f
<1>2. z.err = Forget(x.err, Todo(x, ss)) /\ z.notifier = x.notifier \ Pairs(x.inst, Todo(x, ss))
  BY <1>1 DEF UnregisterAll
<1> HIDE DEF z
<1>3. y.err = z.err /\ y.notifier = z.notifier
  BY DEF request_unregister, z, f, Todo
<1>4. y.inst = [s \in DOMAIN x.inst |-> IF s \in Todo(x, ss) THEN None ELSE x.inst[s]]
  BY DEF request_unregister, Todo
<1> QED BY <1>2, <1>3, <1>4

\* _merge_recent_register where the notifier answers.
LEMMA MergeIs ==
    ASSUME NEW x
    PROVE  /\ _merge_recent_register(x, {}).inst = Updated(x.inst, x.err, DOMAIN x.inst)
           /\ _merge_recent_register(x, {}).err
                = Keep(Forget(x.err, Lost(x)), DOMAIN Forget(x.err, Lost(x)) \ Strange(x))
           /\ _merge_recent_register(x, {}).notifier = x.notifier \ Pairs(x.err, Lost(x))
<1> DEFINE f == Keep(x.err, Lost(x))
           z == UnregisterAll(x, f, {})
           y == _merge_recent_register(x, {})
<1>1. DOMAIN f \ {} = Lost(x) /\ Pairs(f, Lost(x)) = Pairs(x.err, Lost(x))
  BY KeepIs DEF Watched, Lost
<1> HIDE DEF f
<1>2. z.err = Forget(x.err, Lost(x)) /\ z.notifier = x.notifier \ Pairs(x.err, Lost(x))
  BY <1>1 DEF UnregisterAll
<1> HIDE DEF z
<1>3. y.err = Keep(z.err, DOMAIN z.err \ Strange(x)) /\ y.notifier = z.notifier
  BY DEF _merge_recent_register, z, f, Lost, Strange
<1>4. y.inst = Updated(x.inst, x.err, DOMAIN x.inst)
  BY DEF _merge_recent_register, Recent
<1> QED BY <1>2, <1>3, <1>4

\* Error data and row that name the same alarms tell the notifier the same.
LEMMA SameTold ==
    ASSUME NEW n, NEW e, NEW r, NEW e2, NEW r2, Told(n, e, r),
           \A s \in Servers : AlarmOf(e2, r2, s) = AlarmOf(e, r, s)
    PROVE  Told(n, e2, r2)
BY DEF Told

\* Alarms that are unregistered and noted.
LEMMA ForgetTold ==
    ASSUME NEW e, NEW r, NEW n, NEW D \in SUBSET Servers, NEW f, IsAlarms(e), IsAlarms(r), Told(n, e, r),
           \A s \in D : f[s] = AlarmOf(e, r, s)
    PROVE  /\ IsAlarms(Forget(e, D)) /\ DOMAIN Forget(e, D) = DOMAIN e \cup D
           /\ \A s : AlarmOf(Forget(e, D), r, s) = IF s \in D THEN None ELSE AlarmOf(e, r, s)
           /\ Told(n \ Pairs(f, D), Forget(e, D), r)
<1>1. IsAlarms(Forget(e, D)) /\ DOMAIN Forget(e, D) = DOMAIN e \cup D
  BY DEF IsAlarms, Forget, None
<1>2. \A s : AlarmOf(Forget(e, D), r, s) = IF s \in D THEN None ELSE AlarmOf(e, r, s)
  BY DEF Forget, AlarmOf
<1>3. Told(n \ Pairs(f, D), Forget(e, D), r)
  <2> DEFINE m == n \ Pairs(f, D)
             q == {<<s, AlarmOf(Forget(e, D), r, s)>> : s \in {t \in Servers : AlarmOf(Forget(e, D), r, t) # None}}
  <2>1. ASSUME NEW p \in m PROVE p \in q
    <3>1. PICK s \in Servers : AlarmOf(e, r, s) # None /\ p = <<s, AlarmOf(e, r, s)>>
      BY DEF Told
    <3>2. s \notin D
      BY <3>1 DEF Pairs
    <3> QED BY <1>2, <3>1, <3>2
  <2>2. ASSUME NEW p \in q PROVE p \in m
    <3>1. PICK s \in Servers : AlarmOf(Forget(e, D), r, s) # None /\ p = <<s, AlarmOf(Forget(e, D), r, s)>>
      OBVIOUS
    <3>2. s \notin D /\ p = <<s, AlarmOf(e, r, s)>> /\ AlarmOf(e, r, s) # None
      BY <1>2, <3>1
    <3> QED BY <3>1, <3>2 DEF Told, Pairs
  <2> QED BY <2>1, <2>2 DEF Told
<1> QED BY <1>1, <1>2, <1>3

\* Alarms that are registered and noted.
LEMMA RegisterTold ==
    ASSUME NEW e, NEW r, NEW n, NEW f, IsAlarms(e), IsAlarms(r), Told(n, e, r), IsAlarms(f),
           \A s \in DOMAIN f : f[s] # None /\ AlarmOf(e, r, s) = None,
           NEW e2, e2 = [s \in DOMAIN e \cup DOMAIN f |-> IF s \in DOMAIN f THEN f[s] ELSE e[s]]
    PROVE  /\ IsAlarms(e2)
           /\ \A s : AlarmOf(e2, r, s) = IF s \in DOMAIN f THEN f[s] ELSE AlarmOf(e, r, s)
           /\ Told(n \cup Pairs(f, DOMAIN f), e2, r)
<1>1. IsAlarms(e2)
  BY DEF IsAlarms
<1>2. \A s : AlarmOf(e2, r, s) = IF s \in DOMAIN f THEN f[s] ELSE AlarmOf(e, r, s)
  BY DEF AlarmOf
<1>3. Told(n \cup Pairs(f, DOMAIN f), e2, r)
  <2> DEFINE m == n \cup Pairs(f, DOMAIN f)
             q == {<<s, AlarmOf(e2, r, s)>> : s \in {t \in Servers : AlarmOf(e2, r, t) # None}}
  <2>1. ASSUME NEW p \in m PROVE p \in q
    <3>1. CASE p \in n
      <4>1. PICK s \in Servers : AlarmOf(e, r, s) # None /\ p = <<s, AlarmOf(e, r, s)>>
        BY <3>1 DEF Told
      <4>2. s \notin DOMAIN f
        BY <4>1
      <4> QED BY <1>2, <4>1, <4>2
    <3>2. CASE p \in Pairs(f, DOMAIN f)
      <4>1. PICK s \in DOMAIN f : p = <<s, f[s]>>
        BY <3>2 DEF Pairs
      <4>2. s \in Servers
        BY DEF IsAlarms
      <4> QED BY <1>2, <4>1, <4>2
    <3> QED BY <3>1, <3>2
  <2>2. ASSUME NEW p \in q PROVE p \in m
    <3>1. PICK s \in Servers : AlarmOf(e2, r, s) # None /\ p = <<s, AlarmOf(e2, r, s)>>
      OBVIOUS
    <3>2. CASE s \in DOMAIN f
      BY <1>2, <3>1, <3>2 DEF Pairs
    <3>3. CASE s \notin DOMAIN f
      <4>1. p = <<s, AlarmOf(e, r, s)>> /\ AlarmOf(e, r, s) # None
        BY <1>2, <3>1, <3>3
      <4> QED BY <4>1 DEF Told
    <3> QED BY <3>2, <3>3
  <2> QED BY <2>1, <2>2 DEF Told
<1> QED BY <1>1, <1>2, <1>3

\* What a script works on: maps of alarms that account for the notifier,
\* together with row r.
Accounts(x, r) ==
    IsAlarms(x.inst) /\ IsAlarms(x.err) /\ IsAlarms(r) /\ Told(x.notifier, x.err, r)

\* The alarms in the instance are those of the error data and row r.
Agrees(x, r) == \A s \in DOMAIN x.inst : x.inst[s] = AlarmOf(x.err, r, s)

\* y is x without the servers that the instance has not, and with the alarms
\* that the error data names.
MergedTo(x, r, y) ==
    /\ Accounts(y, r)
    /\ DOMAIN y.inst = DOMAIN x.inst
    /\ \A s \in DOMAIN x.inst : y.inst[s] = IF s \in DOMAIN x.err THEN x.err[s] ELSE x.inst[s]
    /\ DOMAIN y.err = DOMAIN x.err \cap DOMAIN x.inst
    /\ \A s \in DOMAIN y.err : y.err[s] = x.err[s]

\* _merge_recent_register leaves the notifier with the alarms of the instance and of the error data.
LEMMA MergeTold ==
    ASSUME NEW x, NEW r, Accounts(x, r), DOMAIN r \cap DOMAIN x.err \subseteq DOMAIN x.inst
    PROVE  MergedTo(x, r, _merge_recent_register(x, {}))
<1> DEFINE y == _merge_recent_register(x, {})
<1> USE DEF Accounts
<1> DEFINE e == Forget(x.err, Lost(x))
<1>1. /\ y.inst = Updated(x.inst, x.err, DOMAIN x.inst)
      /\ y.err = Keep(e, DOMAIN e \ Strange(x))
      /\ y.notifier = x.notifier \ Pairs(x.err, Lost(x))
  BY MergeIs, Zenon
<1> HIDE DEF y
<1>2. Lost(x) \in SUBSET Servers /\ \A s \in Lost(x) : x.err[s] = AlarmOf(x.err, r, s)
  BY DEF IsAlarms, AlarmOf, Lost, Strange
<1>3. /\ IsAlarms(e) /\ DOMAIN e = DOMAIN x.err \cup Lost(x)
      /\ \A s : AlarmOf(e, r, s) = IF s \in Lost(x) THEN None ELSE AlarmOf(x.err, r, s)
      /\ Told(y.notifier, e, r)
  <2>1. /\ IsAlarms(e) /\ DOMAIN e = DOMAIN x.err \cup Lost(x)
        /\ \A s : AlarmOf(e, r, s) = IF s \in Lost(x) THEN None ELSE AlarmOf(x.err, r, s)
        /\ Told(x.notifier \ Pairs(x.err, Lost(x)), e, r)
    BY <1>2, ForgetTold, Zenon
  <2> QED BY <1>1, <2>1, Zenon
<1>4. \A s \in DOMAIN x.err : s \notin Lost(x) => e[s] = x.err[s]
  BY DEF Forget
<1>5. \A s \in Strange(x) : AlarmOf(e, r, s) = None /\ s \notin DOMAIN r
  BY <1>3 DEF Watched, AlarmOf, Lost, Strange
<1> HIDE DEF e
<1>6. /\ DOMAIN y.err = DOMAIN x.err \cap DOMAIN x.inst
      /\ \A s \in DOMAIN y.err : y.err[s] = e[s]
  BY <1>1, <1>3 DEF Keep, Lost, Strange
<1>7. IsAlarms(y.err)
  BY <1>1, <1>3 DEF Keep, IsAlarms
<1>8. \A s \in Servers : AlarmOf(y.err, r, s) = AlarmOf(e, r, s)
  <2> TAKE s \in Servers
  <2>1. CASE s \in Strange(x)
    BY <1>5, <1>6, <2>1 DEF AlarmOf, Strange
  <2>2. CASE s \notin Strange(x)
    <3>1. s \in DOMAIN y.err <=> s \in DOMAIN e
      BY <1>3, <1>6, <2>2 DEF Lost, Strange
    <3> QED BY <1>6, <3>1 DEF AlarmOf
  <2> QED BY <2>1, <2>2
<1>9. Told(y.notifier, y.err, r)
  BY <1>3, <1>8, SameTold
<1>10. /\ IsAlarms(y.inst) /\ DOMAIN y.inst = DOMAIN x.inst
       /\ \A s \in DOMAIN x.inst : y.inst[s] = IF s \in DOMAIN x.err THEN x.err[s] ELSE x.inst[s]
  BY <1>1 DEF Updated, IsAlarms
<1>11. \A s \in DOMAIN y.err : y.err[s] = x.err[s]
  BY <1>4, <1>6 DEF Lost, Strange
<1> QED BY <1>6, <1>7, <1>9, <1>10, <1>11 DEF MergedTo, y

\* request_unregister of servers whose alarms are known.
UnregisteredTo(x, r, ss, y) ==
    /\ Accounts(y, r) /\ Agrees(y, r)
    /\ DOMAIN y.inst = DOMAIN x.inst
    /\ DOMAIN y.err \subseteq DOMAIN x.err \cup (ss \cap DOMAIN x.inst)
    /\ \A s \in ss \cap DOMAIN x.inst : AlarmOf(y.err, r, s) = None

\* request_unregister leaves it without those of the servers it was given.
LEMMA UnregisterTold ==
    ASSUME NEW x, NEW r, NEW ss, Accounts(x, r), Agrees(x, r)
    PROVE  UnregisteredTo(x, r, ss, request_unregister(x, ss, {}))
<1> DEFINE y == request_unregister(x, ss, {})
<1> USE DEF Accounts, Agrees
<1>1. /\ y.inst = [s \in DOMAIN x.inst |-> IF s \in Todo(x, ss) THEN None ELSE x.inst[s]]
      /\ y.err = Forget(x.err, Todo(x, ss))
      /\ y.notifier = x.notifier \ Pairs(x.inst, Todo(x, ss))
  BY UnregisterIs, Zenon
<1> HIDE DEF y
<1>2. Todo(x, ss) \in SUBSET Servers /\ Todo(x, ss) \subseteq ss \cap DOMAIN x.inst /\ \A s \in Todo(x, ss) : x.inst[s] = AlarmOf(x.err, r, s)
  BY DEF IsAlarms, Watched, Todo
<1>3. /\ IsAlarms(y.err) /\ DOMAIN y.err = DOMAIN x.err \cup Todo(x, ss)
      /\ \A s : AlarmOf(y.err, r, s) = IF s \in Todo(x, ss) THEN None ELSE AlarmOf(x.err, r, s)
      /\ Told(y.notifier, y.err, r)
  <2> DEFINE e == Forget(x.err, Todo(x, ss))
  <2>1. /\ IsAlarms(e) /\ DOMAIN e = DOMAIN x.err \cup Todo(x, ss)
        /\ \A s : AlarmOf(e, r, s) = IF s \in Todo(x, ss) THEN None ELSE AlarmOf(x.err, r, s)
        /\ Told(x.notifier \ Pairs(x.inst, Todo(x, ss)), e, r)
    BY <1>2, ForgetTold, Zenon
  <2> QED BY <1>1, <2>1, Zenon
<1>4. /\ IsAlarms(y.inst) /\ DOMAIN y.inst = DOMAIN x.inst
      /\ \A s \in DOMAIN x.inst : y.inst[s] = AlarmOf(y.err, r, s)
  BY <1>1, <1>3 DEF IsAlarms, None
<1>5. \A s \in ss \cap DOMAIN x.inst : AlarmOf(y.err, r, s) = None
  BY <1>3 DEF Watched, Todo
<1> QED BY <1>2, <1>3, <1>4, <1>5 DEF UnregisteredTo, y

\* Registrations, as noted.
RegisteredTo(x, r, f, y) ==
    /\ Accounts(y, r) /\ Agrees(y, r)
    /\ DOMAIN y.inst = DOMAIN x.inst
    /\ DOMAIN y.err = DOMAIN x.err \cup DOMAIN f
    /\ \A s \in DOMAIN x.inst : y.inst[s] = IF s \in DOMAIN f THEN f[s] ELSE x.inst[s]
    /\ \A s : AlarmOf(y.err, r, s) = IF s \in DOMAIN f THEN f[s] ELSE AlarmOf(x.err, r, s)

\* Registration leaves it with one alarm more for each server that had none.
LEMMA RegisteredIs ==
    ASSUME NEW x, NEW r, NEW f, Accounts(x, r), Agrees(x, r), IsAlarms(f),
           DOMAIN f \subseteq DOMAIN x.inst, \A s \in DOMAIN f : f[s] # None /\ x.inst[s] = None
    PROVE  RegisteredTo(x, r, f, Registered(x, f))
<1> DEFINE y == Registered(x, f)
<1> USE DEF Accounts, Agrees
<1>1. /\ y.inst = Updated(x.inst, f, DOMAIN x.inst)
      /\ y.err = Updated(x.err, f, DOMAIN x.err \cup DOMAIN f)
      /\ y.notifier = x.notifier \cup Pairs(f, DOMAIN f)
  BY DEF Registered
<1> HIDE DEF y
<1>2. y.err = [s \in DOMAIN x.err \cup DOMAIN f |-> IF s \in DOMAIN f THEN f[s] ELSE x.err[s]]
  BY <1>1 DEF Updated
<1>3. /\ IsAlarms(y.err)
      /\ \A s : AlarmOf(y.err, r, s) = IF s \in DOMAIN f THEN f[s] ELSE AlarmOf(x.err, r, s)
      /\ Told(y.notifier, y.err, r)
  <2>1. \A s \in DOMAIN f : f[s] # None /\ AlarmOf(x.err, r, s) = None
    OBVIOUS
  <2>2. /\ IsAlarms(y.err)
        /\ \A s : AlarmOf(y.err, r, s) = IF s \in DOMAIN f THEN f[s] ELSE AlarmOf(x.err, r, s)
        /\ Told(x.notifier \cup Pairs(f, DOMAIN f), y.err, r)
    BY <1>2, <2>1, RegisterTold, Zenon
  <2> QED BY <1>1, <2>2, Zenon
<1>4. /\ IsAlarms(y.inst) /\ DOMAIN y.inst = DOMAIN x.inst
      /\ \A s \in DOMAIN x.inst : y.inst[s] = IF s \in DOMAIN f THEN f[s] ELSE x.inst[s]
  BY <1>1 DEF Updated, IsAlarms
<1> QED BY <1>2, <1>3, <1>4 DEF RegisteredTo, y

----------------------------------------------------------------------------
(* The steps.                                                              *)

\* There is nothing to be told at the start.
LEMMA SnInitial == ASSUME ServerNotifierInit PROVE SnInv
<1>1. IsAlarms(Empty) /\ DOMAIN Empty = {} /\ \A s : AlarmOf(Empty, Empty, s) = None
  BY DEF IsAlarms, Empty, AlarmOf
<1>2. Told({}, Empty, Empty)
  BY <1>1 DEF Told
<1> QED BY <1>1, <1>2 DEF ServerNotifierInit, SnInv, SnGood

\* A new operation has no error data.
LEMMA BeginOpStep ==
    ASSUME SnInv, NEW op \in SnOps, NEW ss \in SUBSET Servers, BeginOp(op, ss)
    PROVE  SnInv'
<1> SUFFICES ASSUME ~snLeak PROVE SnGood'
  BY DEF SnInv, BeginOp
<1>1. SnGood /\ snOcc = NoOcc /\ Told(snNotifier, Empty, snRow) /\ DOMAIN snRow = snVim
  BY DEF SnInv, SnGood, BeginOp, OccOk, NoOcc, AtWork
<1>2. /\ snOcc' = [op |-> op, targets |-> ss, state |-> "PROCESSING", err |-> Empty]
      /\ snWork' = [pc |-> "start", inst |-> snRow, err |-> Empty]
      /\ UNCHANGED <<snRow, snVim, snMade, snNotifier, snAlarms>>
  BY DEF BeginOp
<1>3. IsAlarms(Empty) /\ DOMAIN Empty = {}
  BY DEF IsAlarms, Empty
<1>4. OccOk'
  BY <1>2 DEF OccOk, Grows, BeginOp, SnOps
<1>5. ErrOk(Empty)'
  BY <1>1, <1>2, <1>3 DEF ErrOk, Grows
<1>6. WorkOk'
  BY <1>2 DEF WorkOk
<1>7. snWork'.err = Empty /\ snWork'.pc = "start" /\ snOcc'.state = "PROCESSING"
  BY <1>2
<1> QED BY <1>1, <1>2, <1>4, <1>5, <1>6, <1>7 DEF SnGood, AtWork

\* A retry starts with the error data of the attempt before it.
LEMMA RetryStep == ASSUME SnInv, retry PROVE SnInv'
<1> SUFFICES ASSUME ~snLeak PROVE SnGood'
  BY DEF SnInv, retry
<1>1. SnGood /\ OccOk /\ snOcc.state = "FAILED_TEMP" /\ ErrOk(snOcc.err)
  BY DEF SnInv, SnGood, retry, AtWork
<1>2. /\ snOcc' = [snOcc EXCEPT !.state = "PROCESSING"]
      /\ snWork' = [pc |-> "start", inst |-> snRow, err |-> snOcc.err]
      /\ UNCHANGED <<snRow, snVim, snMade, snNotifier, snAlarms>>
  BY DEF retry
<1>3. /\ snOcc' = [op |-> snOcc.op, targets |-> snOcc.targets, state |-> "PROCESSING", err |-> snOcc.err]
      /\ snOcc'.op = snOcc.op /\ snOcc'.targets = snOcc.targets
  BY <1>1, <1>2 DEF OccOk
<1>4. OccOk'
  BY <1>1, <1>2, <1>3 DEF OccOk, Grows
<1>5. ErrOk(snWork.err)'
  BY <1>1, <1>2, <1>3 DEF ErrOk, Grows
<1>6. WorkOk'
  BY <1>2 DEF WorkOk
<1> QED BY <1>1, <1>2, <1>3, <1>4, <1>5, <1>6 DEF SnGood, AtWork

\* fail gives the operation up.
LEMMA FailStep == ASSUME SnInv, fail PROVE SnInv'
BY DEF SnInv, fail

\* The row as a map of alarms, with no error data.
LEMMA NoErr == ASSUME NEW r PROVE \A s : AlarmOf(Empty, r, s) = IF s \in DOMAIN r THEN r[s] ELSE None
BY DEF AlarmOf, Empty

\* The row gets what the notifier has.
LEMMA CommitStep == ASSUME SnInv, commit PROVE SnInv'
<1> SUFFICES ASSUME ~snLeak PROVE SnGood'
  BY DEF SnInv, commit
<1>1. SnGood /\ AtWork /\ snWork.pc \in {"end", "commit"}
  BY DEF SnInv, SnGood, commit, SnIdle
<1>2. /\ snRow' = snWork.inst /\ snOcc' = NoOcc /\ snWork' = SnIdle
      /\ UNCHANGED <<snVim, snMade, snNotifier, snAlarms>>
  BY DEF commit
<1>3. /\ DOMAIN snWork.inst = snVim /\ IsAlarms(snWork.inst)
      /\ \A s \in snVim : snWork.inst[s] # None
      /\ Told(snNotifier, Empty, snWork.inst)
  <2>1. CASE snWork.pc = "commit"
    BY <1>1, <2>1 DEF AtWork, WorkOk
  <2>2. CASE snWork.pc = "end"
    <3>1. snOcc.op \in {"TERMINATE", "SCALE_IN"} /\ ~Grows
      BY <2>2 DEF commit, Grows
    <3>2. /\ ErrOk(snWork.err) /\ WorkOk /\ OccOk
          /\ DOMAIN snWork.err \subseteq DOMAIN snRow
          /\ \A s \in DOMAIN snWork.inst : snWork.inst[s] = AlarmOf(snWork.err, snRow, s)
          /\ \A s \in Going : AlarmOf(snWork.err, snRow, s) = None
          /\ DOMAIN snWork.inst = snVim /\ snVim = DOMAIN snRow \ Going
      BY <1>1, <2>2, <3>1 DEF AtWork, WorkOk
    <3>3. IsAlarms(snRow) /\ (\A s \in DOMAIN snRow : snRow[s] # None) /\ IsAlarms(snWork.err)
      BY <1>1, <3>2 DEF SnGood, ErrOk
    <3>4. \A s \in snVim : snWork.inst[s] = snRow[s] /\ s \in DOMAIN snRow
      BY <3>1, <3>2 DEF ErrOk, Going, AlarmOf
    <3>5. IsAlarms(snWork.inst)
      BY <1>1 DEF AtWork
    <3>6. \A s \in Servers : AlarmOf(Empty, snWork.inst, s) = AlarmOf(snWork.err, snRow, s)
      <4> TAKE s \in Servers
      <4>1. CASE s \in snVim
        BY <3>2, <4>1, NoErr
      <4>2. CASE s \notin snVim
        <5>1. AlarmOf(snWork.err, snRow, s) = None
          BY <3>2, <4>2 DEF AlarmOf
        <5> QED BY <3>2, <4>2, <5>1, NoErr
      <4> QED BY <4>1, <4>2
    <3>7. Told(snNotifier, snWork.err, snRow)
      BY <3>2 DEF ErrOk
    <3> QED BY <3>2, <3>3, <3>4, <3>5, <3>6, <3>7, SameTold
  <2> QED BY <1>1, <2>1, <2>2
<1> QED BY <1>1, <1>2, <1>3 DEF SnGood

\* rollback takes back what the operation registered.
LEMMA RollbackStep == ASSUME SnInv, rollback PROVE SnInv'
<1> DEFINE x == [inst |-> snRow, err |-> snOcc.err, notifier |-> snNotifier, leak |-> snLeak]
<1>1. PICK bad0 \in {{}, Servers}, ok \in BOOLEAN :
         LET y == _instantiate_scale_rollback(x, bad0 \cap Watched(x.err))
         IN /\ snNotifier' = y.notifier
            /\ snLeak' = y.leak
            /\ snOcc' = IF ok THEN NoOcc ELSE [snOcc EXCEPT !.err = y.err]
            /\ snVim' = IF ok THEN DOMAIN snRow ELSE snVim
  BY DEF rollback
<1> DEFINE e == snOcc.err
           D == Watched(e)
           bad == bad0 \cap D
           y == UnregisterAll(x, Keep(e, D), bad)
<1>2. /\ snNotifier' = y.notifier /\ snLeak' = y.leak
      /\ snOcc' = IF ok THEN NoOcc ELSE [snOcc EXCEPT !.err = y.err]
      /\ snVim' = IF ok THEN DOMAIN snRow ELSE snVim
  BY <1>1 DEF _instantiate_scale_rollback
<1>3. x.leak = snLeak /\ snLeak \in BOOLEAN
  BY DEF SnInv
<1>4. snLeak' \in BOOLEAN /\ (~snLeak' => ~snLeak /\ bad = {})
  <2>1. y.leak = (snLeak \/ bad # {})
    BY DEF UnregisterAll
  <2> QED BY <1>2, <1>3, <2>1
<1> SUFFICES ASSUME ~snLeak, bad = {} PROVE SnGood'
  BY <1>4 DEF SnInv
<1>5. SnGood /\ OccOk /\ snOcc.state = "FAILED_TEMP" /\ ErrOk(e) /\ snWork = SnIdle /\ Grows
  BY DEF SnInv, SnGood, rollback, AtWork, Grows
<1>6. UNCHANGED <<snRow, snWork, snMade, snAlarms>>
  BY DEF rollback
<1>7. D \subseteq DOMAIN e /\ D \in SUBSET Servers /\ \A s \in D : e[s] = AlarmOf(e, snRow, s)
  BY <1>5 DEF Watched, ErrOk, IsAlarms, AlarmOf
<1> HIDE DEF D
<1>8. DOMAIN Keep(e, D) \ bad = D /\ Pairs(Keep(e, D), D) = Pairs(e, D)
  BY <1>7, KeepIs
<1>9. y.err = Forget(e, D) /\ y.notifier = snNotifier \ Pairs(e, D)
  BY <1>8 DEF UnregisterAll
<1> HIDE DEF y, bad, x
<1>10. IsAlarms(e) /\ IsAlarms(snRow) /\ Told(snNotifier, e, snRow) /\ DOMAIN e \cap DOMAIN snRow = {}
  BY <1>5 DEF ErrOk, SnGood
<1>11. /\ IsAlarms(Forget(e, D)) /\ DOMAIN Forget(e, D) = DOMAIN e \cup D
       /\ \A s : AlarmOf(Forget(e, D), snRow, s) = IF s \in D THEN None ELSE AlarmOf(e, snRow, s)
       /\ Told(snNotifier \ Pairs(e, D), Forget(e, D), snRow)
  BY <1>7, <1>10, ForgetTold, Zenon
<1>12. Told(snNotifier', Forget(e, D), snRow)
  BY <1>2, <1>9, <1>11, Zenon
<1>13. CASE ok
  <2>1. snOcc' = NoOcc /\ snVim' = DOMAIN snRow
    BY <1>2, <1>13
  <2>2. \A s \in Servers : AlarmOf(Empty, snRow, s) = AlarmOf(Forget(e, D), snRow, s)
    <3> TAKE s \in Servers
    <3>1. CASE s \in DOMAIN e
      BY <1>10, <1>11, <3>1, NoErr DEF D, Watched, AlarmOf
    <3>2. CASE s \notin DOMAIN e
      BY <1>7, <1>11, <3>2, NoErr DEF AlarmOf
    <3> QED BY <3>1, <3>2
  <2>3. Told(snNotifier', Empty, snRow)
    BY <1>12, <2>2, SameTold
  <2> QED BY <1>5, <1>6, <2>1, <2>3 DEF SnGood
<1>14. CASE ~ok
  <2>1. snOcc' = [op |-> snOcc.op, targets |-> snOcc.targets, state |-> "FAILED_TEMP", err |-> Forget(e, D)]
    BY <1>2, <1>5, <1>9, <1>14 DEF OccOk
  <2>2. snOcc'.op = snOcc.op /\ snOcc'.targets = snOcc.targets /\ snOcc'.err = Forget(e, D)
    BY <2>1
  <2>3. OccOk'
    BY <1>5, <1>6, <2>1, <2>2 DEF OccOk, Grows
  <2>4. ErrOk(snOcc.err)'
    BY <1>5, <1>6, <1>7, <1>10, <1>11, <1>12, <2>2 DEF ErrOk, Grows
  <2>5. snVim' = snVim
    BY <1>2, <1>14
  <2> QED BY <1>5, <1>6, <2>1, <2>3, <2>4, <2>5 DEF SnGood
<1> QED BY <1>13, <1>14

\* The operation fails with error data that accounts for the notifier.
LEMMA FailedTempStep ==
    ASSUME SnGood, AtWork, NEW e, FailedTemp(e), IsAlarms(e), Told(snNotifier', e, snRow),
           Grows => DOMAIN e \cap DOMAIN snRow = {},
           snOcc.op = "SCALE_IN" => DOMAIN e \subseteq snOcc.targets,
           snOcc.op = "TERMINATE" => DOMAIN e \subseteq DOMAIN snRow,
           snRow' = snRow, snAlarms' \in Nat,
           snMade \subseteq snMade', snVim' \subseteq snMade', snMade' \subseteq Servers
    PROVE  SnGood'
<1>1. OccOk /\ snWork' = SnIdle
  BY DEF AtWork, FailedTemp
<1>2. snOcc' = [op |-> snOcc.op, targets |-> snOcc.targets, state |-> "FAILED_TEMP", err |-> e]
  BY <1>1 DEF FailedTemp, OccOk
<1>3. snOcc'.op = snOcc.op /\ snOcc'.targets = snOcc.targets /\ snOcc'.err = e /\ snOcc'.state = "FAILED_TEMP"
  BY <1>2
<1>4. OccOk'
  BY <1>1, <1>2, <1>3 DEF OccOk, Grows
<1>5. ErrOk(snOcc.err)'
  BY <1>3 DEF ErrOk, Grows
<1> QED BY <1>1, <1>3, <1>4, <1>5 DEF SnGood

\* The operation itself makes and deletes servers.
LEMMA MainProcessStep ==
    ASSUME SnInv, NEW ok \in BOOLEAN, NEW done \in BOOLEAN, main_process(ok, done)
    PROVE  SnInv'
<1> SUFFICES ASSUME ~snLeak PROVE SnGood'
  BY DEF SnInv, main_process
<1>1. PICK new \in NewServers \cup {{}} :
         /\ snWork.pc = "process"
         /\ ok => done
         /\ (new = {}) <=> (snOcc.op \in {"TERMINATE", "SCALE_IN"})
         /\ snVim' = IF done THEN Wanted(snOcc.op, new) ELSE snVim
         /\ snMade' = IF done THEN snMade \cup new ELSE snMade
         /\ IF ok
            THEN /\ snWork' = [snWork EXCEPT !.pc = "end",
                                   !.inst = [s \in Wanted(snOcc.op, new) |->
                                                 IF s \in DOMAIN @ THEN @[s] ELSE None]]
                 /\ UNCHANGED snOcc
            ELSE FailedTemp(snWork.err)
         /\ UNCHANGED <<snRow, snNotifier, snAlarms, snOpsDone, snLeak>>
  BY DEF main_process
<1>2. SnGood /\ AtWork /\ ErrOk(snWork.err) /\ WorkOk /\ OccOk
  BY <1>1 DEF SnInv, SnGood, SnIdle, AtWork
<1> DEFINE W == Wanted(snOcc.op, new)
<1>3. new \subseteq Servers /\ new \cap DOMAIN snRow = {}
  BY <1>2 DEF NewServers, SnGood
<1>4. /\ snOcc.op = "INSTANTIATE" => W = new /\ DOMAIN snRow = {}
      /\ snOcc.op = "TERMINATE" => W = {}
      /\ snOcc.op = "SCALE_IN" => W = DOMAIN snRow \ snOcc.targets
      /\ snOcc.op = "SCALE_OUT" => W = DOMAIN snRow \cup new
      /\ snOcc.op = "HEAL" => W = (DOMAIN snRow \ snOcc.targets) \cup new
      /\ snOcc.op \in SnOps
  BY <1>2 DEF Wanted, OccOk
<1> HIDE DEF W
<1>5. W \subseteq DOMAIN snRow \cup new
  BY <1>4 DEF SnOps
<1>6. snMade \subseteq snMade' /\ snVim' \subseteq snMade' /\ snMade' \subseteq Servers
  BY <1>1, <1>2, <1>3, <1>5 DEF SnGood, W
<1>7. CASE ~ok
  <2>1. FailedTemp(snWork.err) /\ snNotifier' = snNotifier /\ snRow' = snRow /\ snAlarms' = snAlarms
    BY <1>1, <1>7
  <2>2. /\ IsAlarms(snWork.err) /\ Told(snNotifier', snWork.err, snRow)
        /\ Grows => DOMAIN snWork.err \cap DOMAIN snRow = {}
        /\ snOcc.op = "SCALE_IN" => DOMAIN snWork.err \subseteq snOcc.targets
        /\ snOcc.op = "TERMINATE" => DOMAIN snWork.err \subseteq DOMAIN snRow
    BY <1>2, <2>1 DEF ErrOk
  <2>3. snAlarms' \in Nat
    BY <1>2, <2>1 DEF SnGood
  <2> QED BY <1>2, <1>6, <2>1, <2>2, <2>3, FailedTempStep
<1>8. CASE ok
  <2> DEFINE i == [s \in W |-> IF s \in DOMAIN snWork.inst THEN snWork.inst[s] ELSE None]
  <2>1. /\ snWork' = [pc |-> "end", inst |-> i, err |-> snWork.err] /\ snOcc' = snOcc /\ snVim' = W
        /\ snRow' = snRow /\ snNotifier' = snNotifier /\ snAlarms' = snAlarms
    BY <1>1, <1>2, <1>8 DEF AtWork, W
  <2>2. snWork'.pc = "end" /\ snWork'.inst = i /\ snWork'.err = snWork.err
    BY <2>1
  <2>3. IsAlarms(i) /\ DOMAIN i = W
    BY <1>2, <1>3, <1>5 DEF AtWork, SnGood, IsAlarms, None
  <2>4. Grows' = Grows /\ Going' = Going
    BY <2>1 DEF Grows, Going
  <2>5. OccOk' /\ ErrOk(snWork.err)'
    BY <1>2, <2>1, <2>2, <2>4 DEF OccOk, ErrOk
  <2>6. Grows => \A s \in W : i[s] = AlarmOf(Empty, snRow, s)
    <3> SUFFICES ASSUME Grows, NEW s \in W PROVE i[s] = AlarmOf(Empty, snRow, s)
      OBVIOUS
    <3>1. snWork.inst = snRow
      BY <1>1, <1>2 DEF WorkOk
    <3> QED BY <3>1, NoErr
  <2>7. ~Grows => /\ DOMAIN snWork.err \subseteq DOMAIN snRow
                  /\ \A s \in W : i[s] = AlarmOf(snWork.err, snRow, s)
                  /\ \A s \in Going : AlarmOf(snWork.err, snRow, s) = None
    <3> SUFFICES ASSUME ~Grows
                 PROVE  /\ DOMAIN snWork.err \subseteq DOMAIN snRow
                        /\ \A s \in W : i[s] = AlarmOf(snWork.err, snRow, s)
                        /\ \A s \in Going : AlarmOf(snWork.err, snRow, s) = None
      OBVIOUS
    <3>1. /\ DOMAIN snWork.inst = DOMAIN snRow /\ DOMAIN snWork.err \subseteq DOMAIN snRow
          /\ \A s \in DOMAIN snWork.inst : snWork.inst[s] = AlarmOf(snWork.err, snRow, s)
          /\ \A s \in Going : AlarmOf(snWork.err, snRow, s) = None
      BY <1>1, <1>2 DEF WorkOk
    <3>2. \A s \in W : i[s] = AlarmOf(snWork.err, snRow, s)
      BY <3>1 DEF AlarmOf
    <3> QED BY <3>1, <3>2
  <2>8. /\ DOMAIN snRow \ Going \subseteq W
        /\ snOcc.op \in {"TERMINATE", "SCALE_IN"} => W = DOMAIN snRow \ Going
    BY <1>2, <1>4 DEF Going, SnOps, Grows, OccOk
  <2> HIDE DEF i
  <2>9. WorkOk'
    BY <2>1, <2>2, <2>3, <2>4, <2>6, <2>7, <2>8 DEF WorkOk
  <2>10. AtWork'
    BY <1>2, <2>1, <2>2, <2>3, <2>5, <2>9 DEF AtWork
  <2> QED BY <1>2, <1>6, <2>1, <2>10 DEF SnGood
<1> QED BY <1>7, <1>8

\* The start script unregisters servers that go.
LEMMA StartScriptStep == ASSUME SnInv, start_script PROVE SnInv'
<1>1. PICK bad1, bad2 \in {{}, Servers} :
         LET x == _merge_recent_register(View, bad1 \cap (DOMAIN snWork.err \ DOMAIN snWork.inst)
                                                    \cap Watched(snWork.err))
             ss == IF snOcc.op = "TERMINATE" THEN DOMAIN x.inst ELSE snOcc.targets
             y == IF snOcc.op \in {"TERMINATE", "SCALE_IN", "HEAL"}
                  THEN request_unregister(x, ss, bad2 \cap ss \cap Watched(x.inst))
                  ELSE View
         IN Scripted(y, TRUE, "process")
  BY DEF start_script
<1> DEFINE bad == bad1 \cap (DOMAIN snWork.err \ DOMAIN snWork.inst) \cap Watched(snWork.err)
           x == _merge_recent_register(View, bad)
           ss == IF snOcc.op = "TERMINATE" THEN DOMAIN x.inst ELSE snOcc.targets
           badd == bad2 \cap ss \cap Watched(x.inst)
           z == request_unregister(x, ss, badd)
           y == IF snOcc.op \in {"TERMINATE", "SCALE_IN", "HEAL"} THEN z ELSE View
<1>2. snNotifier' = y.notifier /\ snLeak' = y.leak /\ snOcc' = snOcc
      /\ snWork' = [pc |-> "process", inst |-> y.inst, err |-> y.err]
  BY <1>1 DEF Scripted
<1>3. snWork.pc = "start" /\ UNCHANGED <<snRow, snVim, snMade, snAlarms>>
  BY DEF start_script
<1> HIDE DEF bad, badd, ss
<1>4. /\ View.inst = snWork.inst /\ View.err = snWork.err /\ View.notifier = snNotifier
      /\ View.leak = snLeak /\ snLeak \in BOOLEAN
  BY DEF View, SnInv
<1>5. Answered(View, bad, x)
  <2>1. View.leak \in BOOLEAN
    BY <1>4
  <2> QED BY <2>1, MergeAnswered
<1>6. Answered(x, badd, z)
  <2>1. x.leak \in BOOLEAN
    BY <1>5 DEF Answered
  <2> HIDE DEF x
  <2> QED BY <2>1, UnregisterAnswered
<1> HIDE DEF x, z
<1>7. CASE ~(snOcc.op \in {"TERMINATE", "SCALE_IN", "HEAL"})
  <2>1. y = View
    BY <1>7
  <2>2. snNotifier' = snNotifier /\ snLeak' = snLeak /\ snWork' = [pc |-> "process", inst |-> snWork.inst, err |-> snWork.err]
    BY <1>2, <1>4, <2>1, Zenon
  <2> SUFFICES ASSUME ~snLeak PROVE SnGood'
    BY <1>4, <2>2 DEF SnInv
  <2>3. SnGood /\ AtWork /\ Grows
    BY <1>3, <1>7 DEF SnInv, SnGood, SnIdle, AtWork, OccOk, SnOps, Grows
  <2>4. AtWork'
    <3>1. snWork'.pc = "process" /\ snWork'.inst = snWork.inst /\ snWork'.err = snWork.err /\ Grows'
      BY <1>2, <2>2, <2>3 DEF Grows
    <3>2. OccOk' /\ ErrOk(snWork.err)'
      BY <1>2, <1>3, <2>2, <2>3, <3>1 DEF AtWork, OccOk, ErrOk, Grows
    <3>3. WorkOk'
      BY <1>3, <2>3, <3>1 DEF WorkOk, AtWork
    <3> QED BY <1>2, <2>2, <2>3, <3>1, <3>2, <3>3 DEF AtWork
  <2> QED BY <1>3, <2>3, <2>4 DEF SnGood
<1>8. CASE snOcc.op \in {"TERMINATE", "SCALE_IN", "HEAL"}
  <2>1. y = z
    BY <1>8
  <2>2. snNotifier' = z.notifier /\ snLeak' = z.leak /\ snWork' = [pc |-> "process", inst |-> z.inst, err |-> z.err]
    BY <1>2, <2>1, Zenon
  <2> SUFFICES ASSUME ~snLeak, bad = {}, badd = {} PROVE SnGood'
    BY <1>4, <1>5, <1>6, <2>2 DEF SnInv, Answered
  <2>3. SnGood /\ AtWork /\ ~Grows /\ ErrOk(snWork.err) /\ OccOk /\ snWork.inst = snRow
    BY <1>3, <1>8 DEF SnInv, SnGood, SnIdle, AtWork, WorkOk, Grows
  <2>4. IsAlarms(snRow) /\ IsAlarms(snWork.err) /\ Told(snNotifier, snWork.err, snRow)
    BY <2>3 DEF SnGood, ErrOk
  <2>5. x = _merge_recent_register(View, {})
    BY DEF x
  <2>6. Accounts(View, snRow) /\ DOMAIN snRow \cap DOMAIN View.err \subseteq DOMAIN View.inst
    BY <1>4, <2>3, <2>4 DEF Accounts
  <2>7. MergedTo(View, snRow, x)
    BY <2>5, <2>6, MergeTold, Zenon
  <2>8. /\ DOMAIN x.inst = DOMAIN snRow /\ DOMAIN x.err \subseteq DOMAIN snRow
        /\ DOMAIN x.err \subseteq DOMAIN snWork.err
    BY <1>4, <2>3, <2>7 DEF MergedTo
  <2>9. Accounts(x, snRow) /\ Agrees(x, snRow)
    BY <1>4, <2>3, <2>7 DEF AlarmOf, MergedTo, Agrees
  <2>10. z = request_unregister(x, ss, {})
    BY DEF z
  <2>11a. UnregisteredTo(x, snRow, ss, z)
    BY <2>9, <2>10, UnregisterTold, Zenon
  <2>11. /\ IsAlarms(z.inst) /\ IsAlarms(z.err)
         /\ DOMAIN z.inst = DOMAIN x.inst
         /\ DOMAIN z.err \subseteq DOMAIN x.err \cup (ss \cap DOMAIN x.inst)
         /\ \A s \in DOMAIN x.inst : z.inst[s] = AlarmOf(z.err, snRow, s)
         /\ \A s \in ss \cap DOMAIN x.inst : AlarmOf(z.err, snRow, s) = None
         /\ Told(z.notifier, z.err, snRow)
    BY <2>11a DEF UnregisteredTo, Accounts, Agrees
  <2>12. ss = Going /\ Going \subseteq DOMAIN snRow
    BY <2>3, <2>8 DEF ss, Going, OccOk
  <2>13. snWork'.pc = "process" /\ snWork'.inst = z.inst /\ snWork'.err = z.err /\ ~Grows' /\ Going' = Going
    BY <1>2, <1>3, <2>2, <2>3 DEF Grows, Going
  <2>14. DOMAIN z.err \subseteq DOMAIN snRow /\ DOMAIN z.err \subseteq DOMAIN snWork.err \cup Going
    BY <2>8, <2>11, <2>12
  <2>15. OccOk' /\ ErrOk(snWork.err)'
    <3>1. OccOk'
      BY <1>2, <1>3, <2>3, <2>13 DEF OccOk, Grows
    <3>2. snOcc.op = "SCALE_IN" => DOMAIN z.err \subseteq snOcc.targets
      BY <2>3, <2>14 DEF ErrOk, Going
    <3>3. Told(snNotifier', z.err, snRow)
      BY <2>2, <2>11
    <3> QED BY <1>2, <1>3, <2>11, <2>13, <2>14, <3>1, <3>2, <3>3 DEF ErrOk
  <2>16. WorkOk'
    BY <1>3, <2>8, <2>11, <2>12, <2>13, <2>14 DEF WorkOk
  <2>17. AtWork'
    BY <1>2, <2>2, <2>3, <2>11, <2>13, <2>15, <2>16 DEF AtWork
  <2> QED BY <1>3, <2>3, <2>17 DEF SnGood
<1> QED BY <1>7, <1>8

\* The end script registers servers that are new.
LEMMA EndScriptStep == ASSUME SnInv, end_script PROVE SnInv'
<1>1. PICK bad0 \in {{}, Servers}, result \in {"ok", "status", "noAnswer"} :
         LET x == IF snOcc.op = "HEAL" THEN View
                  ELSE _merge_recent_register(View, bad0 \cap (DOMAIN snWork.err \ DOMAIN snWork.inst)
                                                         \cap Watched(snWork.err))
         IN \E done \in SUBSET Unwatched(x) :
               \E f \in Numberings(done) :
                  /\ (result = "ok") <=> (done = Unwatched(x))
                  /\ snAlarms + Cardinality(done) <= MaxSnAlarm
                  /\ snAlarms' = snAlarms + Cardinality(done)
                  /\ Scripted(request_register(x, result, f, bad0 \cap done), result = "ok", "commit")
  BY DEF end_script
<1> DEFINE bad == bad0 \cap (DOMAIN snWork.err \ DOMAIN snWork.inst) \cap Watched(snWork.err)
           m == _merge_recent_register(View, bad)
           x == IF snOcc.op = "HEAL" THEN View ELSE m
<1>2. PICK done \in SUBSET Unwatched(x) : \E f \in Numberings(done) :
         /\ (result = "ok") <=> (done = Unwatched(x))
         /\ snAlarms' = snAlarms + Cardinality(done)
         /\ Scripted(request_register(x, result, f, bad0 \cap done), result = "ok", "commit")
  BY <1>1
<1>3. PICK f \in Numberings(done) :
         /\ (result = "ok") <=> (done = Unwatched(x))
         /\ snAlarms' = snAlarms + Cardinality(done)
         /\ Scripted(request_register(x, result, f, bad0 \cap done), result = "ok", "commit")
  BY <1>2
<1> DEFINE badd == bad0 \cap done
           z == Registered(x, f)
           u == request_unregister(z, DOMAIN f, badd)
           y == IF result = "noAnswer" THEN u ELSE z
<1>4. /\ Scripted(y, result = "ok", "commit")
      /\ snWork.pc = "end" /\ snOcc.op \in {"INSTANTIATE", "SCALE_OUT", "HEAL"}
      /\ UNCHANGED <<snRow, snVim, snMade>>
  <2>1. request_register(x, result, f, badd) = y
    BY DEF request_register
  <2> QED BY <1>3, <2>1 DEF end_script
<1> HIDE DEF bad, badd
<1>5. /\ View.inst = snWork.inst /\ View.err = snWork.err /\ View.notifier = snNotifier
      /\ View.leak = snLeak /\ snLeak \in BOOLEAN
  BY DEF View, SnInv
<1>6. Answered(View, bad, m)
  <2>1. View.leak \in BOOLEAN
    BY <1>5
  <2> QED BY <2>1, MergeAnswered
<1> HIDE DEF m
<1>7. x.leak \in BOOLEAN /\ (~x.leak => ~snLeak /\ (snOcc.op # "HEAL" => bad = {}))
  BY <1>5, <1>6 DEF Answered
<1> HIDE DEF x
<1>8. z.leak = x.leak
  BY DEF Registered
<1> HIDE DEF z
<1>9. Answered(z, badd, u)
  <2>1. z.leak \in BOOLEAN
    BY <1>7, <1>8
  <2> QED BY <2>1, UnregisterAnswered
<1> HIDE DEF u
<1>10. y.leak \in BOOLEAN /\ (~y.leak => ~x.leak /\ (result = "noAnswer" => badd = {}))
  BY <1>7, <1>8, <1>9 DEF Answered
<1> HIDE DEF y
<1>11. snLeak' = y.leak /\ snNotifier' = y.notifier
  BY <1>4 DEF Scripted
<1> SUFFICES ASSUME ~snLeak, snOcc.op # "HEAL" => bad = {}, result = "noAnswer" => badd = {}
             PROVE  SnGood'
  BY <1>7, <1>10, <1>11 DEF SnInv
<1>12. /\ SnGood /\ AtWork /\ ErrOk(snWork.err) /\ OccOk /\ WorkOk
       /\ DOMAIN snWork.inst = snVim /\ DOMAIN snRow \ Going \subseteq snVim
       /\ snOcc.op # "HEAL" <=> Grows
  BY <1>4 DEF SnInv, SnGood, SnIdle, AtWork, WorkOk, Grows
<1>13. Accounts(View, snRow)
  BY <1>5, <1>12 DEF Accounts, ErrOk, SnGood, AtWork
\* After the merge, or for HEAL without it, the instance has the servers there
\* are with their alarms, and no other server has one.
<1>14. /\ Accounts(x, snRow) /\ Agrees(x, snRow) /\ DOMAIN x.inst = snVim
       /\ Grows => DOMAIN x.err \cap DOMAIN snRow = {}
       /\ \A s \in Servers \ snVim : AlarmOf(x.err, snRow, s) = None
  <2>1. CASE snOcc.op = "HEAL"
    <3>1. x.inst = snWork.inst /\ x.err = snWork.err /\ x.notifier = snNotifier
      BY <1>5, <2>1 DEF x
    <3>2. /\ DOMAIN snWork.err \subseteq DOMAIN snRow
          /\ \A s \in DOMAIN snWork.inst : snWork.inst[s] = AlarmOf(snWork.err, snRow, s)
          /\ \A s \in Going : AlarmOf(snWork.err, snRow, s) = None
      BY <1>4, <1>12, <2>1 DEF WorkOk
    <3>3. \A s \in Servers \ snVim : AlarmOf(snWork.err, snRow, s) = None
      BY <1>12, <3>2 DEF AlarmOf
    <3> QED BY <1>5, <1>12, <1>13, <2>1, <3>1, <3>2, <3>3 DEF Accounts, Agrees
  <2>2. CASE snOcc.op # "HEAL"
    <3>1. x = _merge_recent_register(View, {})
      BY <2>2 DEF x, m
    <3>2. Grows /\ DOMAIN snWork.err \cap DOMAIN snRow = {} /\ DOMAIN snRow \subseteq snVim
          /\ \A s \in snVim : snWork.inst[s] = AlarmOf(Empty, snRow, s)
      BY <1>4, <1>12, <2>2 DEF WorkOk, ErrOk, Going, OccOk, Grows
    <3>3. MergedTo(View, snRow, x)
      <4>1. DOMAIN snRow \cap DOMAIN View.err \subseteq DOMAIN View.inst
        BY <1>5, <3>2
      <4> QED BY <1>13, <3>1, <4>1, MergeTold, Zenon
    <3>4. DOMAIN x.inst = snVim /\ DOMAIN x.err = DOMAIN snWork.err \cap snVim /\ Accounts(x, snRow)
      BY <1>5, <1>12, <3>3 DEF MergedTo
    <3>5. Agrees(x, snRow)
      <4> SUFFICES ASSUME NEW s \in snVim PROVE x.inst[s] = AlarmOf(x.err, snRow, s)
        BY <3>4 DEF Agrees
      <4>1. x.inst[s] = IF s \in DOMAIN snWork.err THEN snWork.err[s] ELSE snWork.inst[s]
        BY <1>5, <1>12, <3>3 DEF MergedTo
      <4>2. s \in DOMAIN x.err <=> s \in DOMAIN snWork.err
        BY <3>4
      <4>3. s \in DOMAIN x.err => x.err[s] = snWork.err[s]
        BY <1>5, <3>3 DEF MergedTo
      <4>4. snWork.inst[s] = IF s \in DOMAIN snRow THEN snRow[s] ELSE None
        BY <3>2, NoErr
      <4> QED BY <4>1, <4>2, <4>3, <4>4 DEF AlarmOf
    <3>6. \A s \in Servers \ snVim : AlarmOf(x.err, snRow, s) = None
      BY <3>2, <3>4 DEF AlarmOf
    <3> QED BY <3>2, <3>4, <3>5, <3>6
  <2> QED BY <2>1, <2>2
<1>15. snAlarms' \in Nat
  <2>1. done \subseteq Servers
    BY <1>14 DEF Unwatched, Accounts, IsAlarms
  <2>2. Cardinality(done) \in Nat
    BY <2>1, FS_Subset, FS_CardinalityType, ServerNotifierAssumption
  <2> QED BY <1>3, <1>12, <2>2 DEF SnGood
<1>16. /\ IsAlarms(f) /\ DOMAIN f = done /\ DOMAIN f \subseteq DOMAIN x.inst
       /\ \A s \in DOMAIN f : f[s] # None /\ x.inst[s] = None
  <2>1. f \in [done -> (snAlarms + 1)..(snAlarms + Cardinality(done))]
    BY DEF Numberings
  <2>2. done \subseteq DOMAIN x.inst /\ done \subseteq Servers /\ \A s \in done : x.inst[s] = None
    BY <1>14 DEF Unwatched, Accounts, IsAlarms
  <2>3. \A n \in (snAlarms + 1)..(snAlarms + Cardinality(done)) : n \in Nat /\ n # 0
    BY <1>12 DEF SnGood
  <2> QED BY <2>1, <2>2, <2>3 DEF IsAlarms, None
<1>17. RegisteredTo(x, snRow, f, z)
  BY <1>14, <1>16, RegisteredIs, Zenon DEF z
<1>18. /\ Accounts(z, snRow) /\ Agrees(z, snRow) /\ DOMAIN z.inst = snVim
       /\ DOMAIN z.err = DOMAIN x.err \cup done
       /\ \A s \in snVim : z.inst[s] = IF s \in done THEN f[s] ELSE x.inst[s]
       /\ \A s \in Servers \ snVim : AlarmOf(z.err, snRow, s) = None
  BY <1>14, <1>16, <1>17 DEF RegisteredTo
\* A server of the row has an alarm already.
<1>19. Grows => DOMAIN z.err \cap DOMAIN snRow = {}
  <2> SUFFICES ASSUME Grows, NEW s \in done, s \in DOMAIN snRow PROVE FALSE
    BY <1>14, <1>18
  <2>1. x.inst[s] = None /\ x.inst[s] = AlarmOf(x.err, snRow, s)
    BY <1>14, <1>16 DEF Agrees
  <2>2. AlarmOf(x.err, snRow, s) = snRow[s] /\ snRow[s] # None
    BY <1>12, <1>14 DEF AlarmOf, SnGood
  <2> QED BY <2>1, <2>2
<1>20. CASE result = "ok"
  <2>1. y = z
    BY <1>20 DEF y
  <2>2. snWork' = [pc |-> "commit", inst |-> z.inst, err |-> z.err] /\ snOcc' = snOcc
    BY <1>4, <1>20, <2>1 DEF Scripted
  <2>3. \A s \in snVim : z.inst[s] # None
    BY <1>3, <1>14, <1>16, <1>18, <1>20 DEF Unwatched
  <2>4. \A s \in Servers : AlarmOf(Empty, z.inst, s) = AlarmOf(z.err, snRow, s)
    BY <1>18, NoErr DEF Agrees
  <2>5. Told(snNotifier', Empty, z.inst)
    <3>1. Told(z.notifier, Empty, z.inst)
      BY <1>18, <2>4, SameTold DEF Accounts
    <3> QED BY <1>11, <2>1, <3>1
  <2>6. snWork'.pc = "commit" /\ snWork'.inst = z.inst /\ snWork'.err = z.err
    BY <2>2
  <2>7. WorkOk'
    BY <1>4, <1>18, <2>3, <2>5, <2>6 DEF WorkOk
  <2>8. OccOk'
    BY <1>4, <1>12, <2>2 DEF OccOk, Grows
  <2>9. AtWork'
    BY <1>12, <1>18, <2>2, <2>6, <2>7, <2>8 DEF AtWork, Accounts
  <2> QED BY <1>4, <1>12, <1>15, <2>9 DEF SnGood
<1>21. CASE result # "ok"
  <2>1. FailedTemp(y.err)
    BY <1>4, <1>21 DEF Scripted
  <2>2. Accounts(y, snRow) /\ DOMAIN y.err \subseteq DOMAIN z.err
    <3>1. CASE result = "noAnswer"
      <4>1. u = request_unregister(z, DOMAIN f, {})
        BY <3>1 DEF u
      <4>2. UnregisteredTo(z, snRow, DOMAIN f, u)
        BY <1>18, <4>1, UnregisterTold, Zenon
      <4>3. y = u
        BY <3>1 DEF y
      <4> QED BY <1>16, <1>18, <4>2, <4>3 DEF UnregisteredTo
    <3>2. CASE result # "noAnswer"
      BY <1>18, <3>2 DEF y
    <3> QED BY <3>1, <3>2
  <2>3. IsAlarms(y.err) /\ Told(snNotifier', y.err, snRow)
    BY <1>11, <2>2 DEF Accounts
  <2>4. Grows => DOMAIN y.err \cap DOMAIN snRow = {}
    BY <1>19, <2>2
  <2>5. snMade \subseteq snMade' /\ snVim' \subseteq snMade' /\ snMade' \subseteq Servers /\ snRow' = snRow
    BY <1>4, <1>12 DEF SnGood
  <2>6. snOcc.op # "SCALE_IN" /\ snOcc.op # "TERMINATE"
    BY <1>4
  <2> QED BY <1>12, <1>15, <2>1, <2>3, <2>4, <2>5, <2>6, FailedTempStep
<1> QED BY <1>20, <1>21

----------------------------------------------------------------------------
(* The theorems.                                                           *)

\* Every step keeps the invariant.
LEMMA SnStep == ASSUME SnInv, [ServerNotifierNext]_snVars PROVE SnInv'
<1>1. CASE UNCHANGED snVars
  BY <1>1 DEF snVars, SnInv, SnGood, AtWork, OccOk, ErrOk, WorkOk, Grows, Going
<1>2. CASE ServerNotifierNext
  BY <1>2, BeginOpStep, StartScriptStep, EndScriptStep, CommitStep, RetryStep, RollbackStep, FailStep, MainProcessStep
     DEF ServerNotifierNext
<1> QED BY <1>1, <1>2

\* The inductive invariant of the server notification driver: whatever failed,
\* the notifier has for each server the alarm that the error data of the
\* operation names, and where that names none, the alarm of the row.
THEOREM RegistrationsAccounted == ServerNotifierSpec => []SnInv
<1>1. ServerNotifierInit => SnInv
  BY SnInitial
<1>2. SnInv /\ [ServerNotifierNext]_snVars => SnInv'
  BY SnStep
<1> QED BY <1>1, <1>2, PTL DEF ServerNotifierSpec

\* Between operations the notifier watches exactly the servers of the VNF, with
\* the alarms of the row, for any number of servers, registrations, failures,
\* retries and rollbacks.
THEOREM AlarmsFollow == ServerNotifierSpec => []AlarmsMatch
<1>1. SnInv => AlarmsMatch
  <2> SUFFICES ASSUME SnInv, snOcc = NoOcc, ~snLeak
               PROVE  snNotifier = {<<s, snRow[s]>> : s \in DOMAIN snRow} /\ DOMAIN snRow = snVim
    BY DEF AlarmsMatch
  <2>1. SnGood /\ Told(snNotifier, Empty, snRow) /\ DOMAIN snRow = snVim
    BY DEF SnInv, SnGood, AtWork, OccOk, NoOcc
  <2>2. {t \in Servers : AlarmOf(Empty, snRow, t) # None} = DOMAIN snRow
    BY <2>1, NoErr DEF SnGood, IsAlarms
  <2>3. \A s \in DOMAIN snRow : AlarmOf(Empty, snRow, s) = snRow[s]
    BY NoErr
  <2> QED BY <2>1, <2>2, <2>3 DEF Told
<1> QED BY <1>1, RegistrationsAccounted, PTL

\* While an operation has failed, the row or the error data knows every alarm at
\* the notifier.
THEOREM AlarmsRemembered == ServerNotifierSpec => []AlarmsKnown
<1>1. SnInv => AlarmsKnown
  <2> SUFFICES ASSUME SnInv, snOcc # NoOcc, snWork = SnIdle, ~snLeak, NEW p \in snNotifier
               PROVE  \/ p[1] \in DOMAIN snRow /\ snRow[p[1]] = p[2]
                      \/ p[1] \in DOMAIN snOcc.err /\ snOcc.err[p[1]] = p[2]
    BY DEF AlarmsKnown
  <2>1. Told(snNotifier, snOcc.err, snRow)
    BY DEF SnInv, SnGood, AtWork, ErrOk, SnIdle
  <2>2. PICK s \in Servers : AlarmOf(snOcc.err, snRow, s) # None /\ p = <<s, AlarmOf(snOcc.err, snRow, s)>>
    BY <2>1 DEF Told
  <2> QED BY <2>2 DEF AlarmOf
<1> QED BY <1>1, RegistrationsAccounted, PTL

============================================================================
