--------------------------- MODULE AutoHealTimer ---------------------------
(***************************************************************************)
(* Auto-healing started by monitoring: the alert and fault notification     *)
(* requests of the API server, their casts, and the timers with which the   *)
(* conductor packs the VNFCs of several notifications into one heal.        *)
(* Both monitoring drivers of the conductor are modelled, they are twins:   *)
(* "prom" (prometheus_plugin_driver.py), "sn" (server_notification_driver). *)
(*                                                                         *)
(* Methods of the conductor run in green threads, which switch only where   *)
(* they block.  In notify and enqueue_heal that is Timer.start(), between   *)
(* the look into timer_map and the store into it; everything else there,    *)
(* and the expiry of a timer up to its heal request, is one step.           *)
(***************************************************************************)
EXTENDS Naturals

CONSTANTS HealVnfs,     \* VNF instances with isAutohealEnabled
          HealVnfcs,    \* VNFC names
          HealRpcs,     \* green threads that serve casts
          Timers,       \* timer objects; bounds how many are ever made
          MaxAlerts     \* bounds alerts and fault notifications

NoTimer == "noTimer"
Drivers == {"prom", "sn"}

ASSUME TimersAssumption == NoTimer \notin Timers
ASSUME HealVnfsAssumption == HealVnfs # {}
ASSUME MaxAlertsAssumption == MaxAlerts \in Nat

VARIABLES timer_map,    \* timer_map[d][v]: timer of instance v in driver d
          timer,        \* the timer objects: state, instance, queue
          healRpc,      \* a green thread between Timer.start() and the store
          healCasts,    \* casts not received yet
          deployed,     \* instances that are INSTANTIATED
          healReqs,     \* history: heal requests made, [vnf, vnfcs]
          owed,         \* history: VNFCs notified to a driver, not healed yet
          alerts        \* number of alerts so far

healVars == <<timer_map, timer, healRpc, healCasts, deployed, healReqs, owed, alerts>>

NoTimerObj == [state |-> "unused", drv |-> "prom", vnf |-> CHOOSE v \in HealVnfs : TRUE, queue |-> {}]
IdleRpc == [pc |-> "idle", timer |-> NoTimer, vnfcs |-> {}]

HealTypeOK ==
    /\ timer_map \in [Drivers -> [HealVnfs -> Timers \cup {NoTimer}]]
    /\ timer \in [Timers -> [state : {"unused", "running", "expired"}, drv : Drivers,
                             vnf : HealVnfs, queue : SUBSET HealVnfcs]]
    /\ healRpc \in [HealRpcs -> [pc : {"idle", "store"}, timer : Timers \cup {NoTimer},
                                 vnfcs : SUBSET HealVnfcs]]
    /\ healCasts \subseteq [op : {"notify", "remove"}, drv : Drivers, vnf : HealVnfs,
                            vnfcs : SUBSET HealVnfcs]
    /\ deployed \subseteq HealVnfs
    /\ healReqs \subseteq [vnf : HealVnfs, vnfcs : SUBSET HealVnfcs]
    /\ owed \in [Drivers -> [HealVnfs -> SUBSET HealVnfcs]]
    /\ alerts \in Nat

HealInit ==
    /\ timer_map = [d \in Drivers |-> [v \in HealVnfs |-> NoTimer]]
    /\ timer = [t \in Timers |-> NoTimerObj]
    /\ healRpc = [r \in HealRpcs |-> IdleRpc]
    /\ healCasts = {}
    /\ deployed = HealVnfs
    /\ healReqs = {}
    /\ owed = [d \in Drivers |-> [v \in HealVnfs |-> {}]]
    /\ alerts = 0

----------------------------------------------------------------------------
(* The API server and the management driver. *)

Cast(op, d, v, cs) ==
    healCasts' = healCasts \cup {[op |-> op, drv |-> d, vnf |-> v, vnfcs |-> cs]}

\* An alert for an instance that is not instantiated dequeues its heal; the
\* look for the VNFC then raises, which alert() swallows.
auto_heal_alert(v, c) ==
    /\ alerts < MaxAlerts
    /\ alerts' = alerts + 1
    /\ IF v \in deployed THEN Cast("notify", "prom", v, {c}) ELSE Cast("remove", "prom", v, {})
    /\ UNCHANGED <<timer_map, timer, healRpc, deployed, healReqs, owed>>

fault_notify(v, c) ==
    /\ alerts < MaxAlerts
    /\ v \in deployed
    /\ alerts' = alerts + 1
    /\ Cast("notify", "sn", v, {c})
    /\ UNCHANGED <<timer_map, timer, healRpc, deployed, healReqs, owed>>

\* terminate_start of the management driver unregisters the servers of the
\* instance from the notifier and has its timer removed.
terminate_vnf(v) ==
    /\ v \in deployed
    /\ deployed' = deployed \ {v}
    /\ Cast("remove", "sn", v, {})
    /\ UNCHANGED <<timer_map, timer, healRpc, healReqs, owed, alerts>>

----------------------------------------------------------------------------
(* The timers. *)

\* Mutant of Appended: a timer that runs already takes nothing more.
AppendedFirst(ts, t, cs) ==
    IF ts[t].state = "running" /\ ts[t].queue = {} THEN [ts EXCEPT ![t].queue = cs] ELSE ts

\* append and add_vnfc_info_id: an expired timer takes nothing.
Appended(ts, t, cs) ==
    IF ts[t].state = "running" THEN [ts EXCEPT ![t].queue = @ \cup cs] ELSE ts

Cancelled(ts, t) ==
    IF t = NoTimer THEN ts ELSE [ts EXCEPT ![t].state = "expired"]

Receive(r, op, d, m) ==
    /\ healRpc[r].pc = "idle"
    /\ m \in healCasts
    /\ m.op = op
    /\ m.drv = d
    /\ healCasts' = healCasts \ {m}

Enqueue(r, d, m) ==
    /\ Receive(r, "notify", d, m)
    /\ owed' = [owed EXCEPT ![d][m.vnf] = @ \cup m.vnfcs]
    /\ \/ /\ timer_map[d][m.vnf] # NoTimer
          /\ timer' = Appended(timer, timer_map[d][m.vnf], m.vnfcs)
          /\ UNCHANGED healRpc
       \/ /\ timer_map[d][m.vnf] = NoTimer
          /\ \E t \in Timers :
                /\ timer[t].state = "unused"
                /\ timer' = [timer EXCEPT ![t] = [state |-> "running", drv |-> d, vnf |-> m.vnf, queue |-> {}]]
                /\ healRpc' = [healRpc EXCEPT ![r] = [pc |-> "store", timer |-> t, vnfcs |-> m.vnfcs]]
    /\ UNCHANGED <<timer_map, deployed, healReqs, alerts>>

notify(r, m) == Enqueue(r, "sn", m)
enqueue_heal(r, m) == Enqueue(r, "prom", m)

\* Mutant of StoreTimer: the VNFCs that started the timer are not appended.
StoreTimerOnly(r) ==
    /\ healRpc[r].pc = "store"
    /\ timer_map' = [timer_map EXCEPT ![timer[healRpc[r].timer].drv]
                                     [timer[healRpc[r].timer].vnf] = healRpc[r].timer]
    /\ healRpc' = [healRpc EXCEPT ![r] = IdleRpc]
    /\ UNCHANGED <<timer, healCasts, deployed, healReqs, owed, alerts>>

StoreTimer(r) ==
    LET t == healRpc[r].timer IN
    /\ healRpc[r].pc = "store"
    /\ timer_map' = [timer_map EXCEPT ![timer[t].drv][timer[t].vnf] = t]
    /\ timer' = Appended(timer, t, healRpc[r].vnfcs)
    /\ healRpc' = [healRpc EXCEPT ![r] = IdleRpc]
    /\ UNCHANGED <<healCasts, deployed, healReqs, owed, alerts>>

Dequeue(r, d, m) ==
    /\ Receive(r, "remove", d, m)
    /\ timer' = Cancelled(timer, timer_map[d][m.vnf])
    /\ timer_map' = [timer_map EXCEPT ![d][m.vnf] = NoTimer]
    /\ owed' = [owed EXCEPT ![d][m.vnf] = {}]
    /\ UNCHANGED <<healRpc, deployed, healReqs, alerts>>

remove_timer(r, m) == Dequeue(r, "sn", m)
dequeue_heal(r, m) == Dequeue(r, "prom", m)

\* The interval of a timer, seconds, is longer than the switch in which a
\* green thread is between Timer.start() and the store.
Due(t) ==
    /\ timer[t].state = "running"
    /\ \A r \in HealRpcs : healRpc[r].timer # t

\* Mutant of Expire: the timer stays in timer_map.
ExpireKeepsEntry(t) ==
    /\ Due(t)
    /\ timer' = [timer EXCEPT ![t].state = "expired"]
    /\ healReqs' = healReqs \cup {[vnf |-> timer[t].vnf, vnfcs |-> timer[t].queue]}
    /\ owed' = [owed EXCEPT ![timer[t].drv][timer[t].vnf] = @ \ timer[t].queue]
    /\ UNCHANGED <<timer_map, healRpc, healCasts, deployed, alerts>>

\* expire: the timer that timer_map holds now, whichever it is, is cancelled
\* and removed, and the VNFCs of the one that expired are healed.
Expire(t) ==
    LET d == timer[t].drv
        v == timer[t].vnf
    IN
    /\ Due(t)
    /\ timer' = Cancelled([timer EXCEPT ![t].state = "expired"], timer_map[d][v])
    /\ timer_map' = [timer_map EXCEPT ![d][v] = NoTimer]
    /\ healReqs' = healReqs \cup {[vnf |-> v, vnfcs |-> timer[t].queue]}
    /\ owed' = [owed EXCEPT ![d][v] = @ \ timer[t].queue]
    /\ UNCHANGED <<healRpc, healCasts, deployed, alerts>>

----------------------------------------------------------------------------
HealConductor ==
    \/ \E r \in HealRpcs, m \in healCasts :
          \/ notify(r, m)
          \/ enqueue_heal(r, m)
          \/ remove_timer(r, m)
          \/ dequeue_heal(r, m)
    \/ \E r \in HealRpcs : StoreTimer(r)
    \/ \E t \in Timers : Expire(t)

HealNext ==
    \/ \E v \in HealVnfs, c \in HealVnfcs : auto_heal_alert(v, c) \/ fault_notify(v, c)
    \/ \E v \in HealVnfs : terminate_vnf(v)
    \/ HealConductor

\* Green threads and timers are served by the hub in turn.
HealFairness ==
    /\ \A r \in HealRpcs : WF_healVars(StoreTimer(r))
    /\ \A t \in Timers : WF_healVars(Expire(t))

HealSpec == HealInit /\ [][HealNext]_healVars /\ HealFairness

----------------------------------------------------------------------------
(* Properties *)

\* The timer that timer_map holds for an instance is running.  append drops
\* what it is given for an expired timer without a word, so an expired timer
\* left in the map would make the driver deaf for that instance.
NoDeadTimer ==
    \A d \in Drivers, v \in HealVnfs :
        timer_map[d][v] # NoTimer => timer[timer_map[d][v]].state = "running"

\* No heal is requested for an empty list of VNFCs: HealVnfRequest takes that
\* for the whole VNF.
HealsNamedVnfcs == \A q \in healReqs : q.vnfcs # {}

\* Two casts for the same instance are creating its timer.
Overlap ==
    \E r1, r2 \in HealRpcs :
        /\ r1 # r2
        /\ healRpc[r1].pc = "store"
        /\ healRpc[r2].pc = "store"
        /\ timer[healRpc[r1].timer].drv = timer[healRpc[r2].timer].drv
        /\ timer[healRpc[r1].timer].vnf = timer[healRpc[r2].timer].vnf

\* If no two casts ever create the timer of one instance at the same time, and
\* notifications stop (MaxAlerts), every VNFC that a driver was notified of is
\* healed, or its instance is terminated first.  (When two do, the first timer
\* to expire cancels the other, and with it the VNFCs in its queue.)
NotifiedHealed ==
    [](~Overlap) => []<>(\A d \in Drivers, v \in HealVnfs : owed[d][v] = {})

============================================================================
