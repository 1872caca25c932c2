------------------------- MODULE ConductorRecovery -------------------------
(***************************************************************************)
(* The life of the conductor process: it dies at any point, is started      *)
(* again, and _change_lcm_op_state repairs the lcmoccs its predecessor left *)
(* behind before a single message is consumed (ConductorV2.__init__ runs in *)
(* initialize_service_hook, before consume_in_threads).                    *)
(***************************************************************************)
EXTENDS LcmState

\* Threads and locks of the process are gone; the messages are not.
ConductorCrash ==
    /\ conductor # "down"
    /\ spent.crash < MaxCrash
    /\ spent' = [spent EXCEPT !.crash = @ + 1]
    /\ conductor' = "down"
    /\ boot' = NotBooting
    /\ wk' = [w \in Workers |-> IdleWorker]
    /\ sync' = IdleSync
    /\ ReleaseAll(Workers \cup {SyncTask})
    /\ UNCHANGED <<inst, lcmocc, grants, queue, stack, api>>

\* Mutants of Before and After: ROLLING_BACK is not listed; PROCESSING becomes
\* ROLLED_BACK; STARTING becomes FAILED_TEMP.
BeforeShort(phase) == IF phase = 1 THEN "STARTING" ELSE "PROCESSING"
AfterLost(phase) == IF phase = 3 THEN "FAILED_TEMP" ELSE "ROLLED_BACK"
AfterKept(phase) == "FAILED_TEMP"

\* state_list
Before(phase) == IF phase = 1 THEN "STARTING" ELSE IF phase = 2 THEN "PROCESSING" ELSE "ROLLING_BACK"

After(phase) == IF phase = 1 THEN "ROLLED_BACK" ELSE "FAILED_TEMP"

\* get_by_filter(operationState=before_state): the rows are read here once.
Listed(phase) == {o \in Occs : lcmocc[o].state = Before(phase)}

ConductorStart ==
    /\ conductor = "down"
    /\ conductor' = "starting"
    /\ boot' = [phase |-> 1, todo |-> Listed(1)]
    /\ UNCHANGED <<inst, lcmocc, grants, lock, queue, stack, api, wk, sync, spent>>

\* recv_lcmocc_notification of the built-in NFVO reads vimConnectionInfo of
\* the instance of an INSTANTIATE that is ROLLED_BACK; not set, it raises.
NotifyRaises(o, phase) ==
    /\ LocalNfvo
    /\ phase = 1
    /\ lcmocc[o].op = "INSTANTIATE"
    /\ inst[lcmocc[o].inst].vimInfo = "UNSET"

\* Mutant of RecoverOcc: the notification comes before the update.
RecoverNotifyFirst(o) ==
    /\ conductor = "starting"
    /\ o \in boot.todo
    /\ Exists(inst[lcmocc[o].inst])
    /\ IF NotifyRaises(o, boot.phase)
       THEN conductor' = "down" /\ boot' = NotBooting /\ UNCHANGED lcmocc
       ELSE /\ update_lcmocc_status(o, After(boot.phase))
            /\ boot' = [boot EXCEPT !.todo = @ \ {o}] /\ UNCHANGED conductor
    /\ UNCHANGED <<inst, grants, lock, queue, stack, api, wk, sync, spent>>

\* One lcmocc of the list: get_inst, update, notification.
RecoverOcc(o) ==
    /\ conductor = "starting"
    /\ o \in boot.todo
    /\ Exists(inst[lcmocc[o].inst])
    /\ update_lcmocc_status(o, After(boot.phase))
    /\ IF NotifyRaises(o, boot.phase)
       THEN conductor' = "down" /\ boot' = NotBooting
       ELSE boot' = [boot EXCEPT !.todo = @ \ {o}] /\ UNCHANGED conductor
    /\ UNCHANGED <<inst, grants, lock, queue, stack, api, wk, sync, spent>>

\* get_inst raises VnfInstanceNotFound, before the lcmocc is written: the
\* constructor fails and so does the start of the service.
RecoverAbort(o) ==
    /\ conductor = "starting"
    /\ o \in boot.todo
    /\ ~Exists(inst[lcmocc[o].inst])
    /\ conductor' = "down"
    /\ boot' = NotBooting
    /\ UNCHANGED <<inst, lcmocc, grants, lock, queue, stack, api, wk, sync, spent>>

RecoverNext ==
    /\ conductor = "starting"
    /\ boot.todo = {}
    /\ IF boot.phase < 3
       THEN /\ boot' = [phase |-> boot.phase + 1, todo |-> Listed(boot.phase + 1)]
            /\ UNCHANGED conductor
       ELSE conductor' = "up" /\ boot' = NotBooting
    /\ UNCHANGED <<inst, lcmocc, grants, lock, queue, stack, api, wk, sync, spent>>

BootStep ==
    \/ ConductorStart
    \/ \E o \in Occs : RecoverOcc(o) \/ RecoverAbort(o)
    \/ RecoverNext

============================================================================
