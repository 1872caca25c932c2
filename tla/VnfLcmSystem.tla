---------------------------- MODULE VnfLcmSystem ----------------------------
(***************************************************************************)
(* The v2 LCM stack: request threads of the API server and handler threads, *)
(* recovery and database synchronization of the conductor, over one         *)
(* database, one coordinator and one message queue.                        *)
(***************************************************************************)
EXTENDS VnfLcmController, ConductorV2, ConductorRecovery, DbSync

Next ==
    \/ \E i \in Insts : Create(i)
    \/ \E a \in Apis : Client(a) \/ ApiStep(a) \/ ApiCrash(a)
    \/ \E w \in Workers :
          \/ \E m \in Methods, o \in Occs : ReceiveCast(w, m, o)
          \/ \E i \in Insts, op \in AutoOps, o \in Occs : AutoStart(w, i, op, o)
          \/ WorkerStep(w)
    \/ ConductorCrash
    \/ BootStep
    \/ \E i \in Insts : SyncList(i) \/ \E l \in 0..(MaxLevel + 1) : VimDrift(i, l)
    \/ SyncStep

Spec == Init /\ [][Next]_vars

(***************************************************************************)
(* Fairness.  A request thread and a handler thread that can go on do: the  *)
(* calls they make to the NFVO and the VIM end by themselves or by timeout. *)
(* A handler waits for the lock for ten seconds: nobody can take it again   *)
(* and again in that time (_sync_db holds it once per interval).            *)
(* The broker delivers every cast to a free handler thread of a conductor   *)
(* that is up.  A conductor that is down is started again (a supervisor's   *)
(* job).  _sync_db is periodic.  Clients and faults are not fair.           *)
(***************************************************************************)
Fairness ==
    /\ \A a \in Apis : WF_vars(ApiStep(a))
    /\ \A w \in Workers : WF_vars(WorkerStep(w))
    /\ \A w \in Workers : SF_vars(HandlerBegin(w) \/ HandlerDrop(w))
    /\ \A m \in Methods, o \in Occs : WF_vars(\E w \in Workers : ReceiveCast(w, m, o))
    /\ WF_vars(BootStep)
    /\ WF_vars(SyncStep)
    /\ \A i \in Insts : WF_vars(SyncList(i))

FairSpec == Spec /\ Fairness

----------------------------------------------------------------------------
(* Properties of every behaviour: any clients, any interleaving, crashes.   *)

\* The instance a handler thread, a request thread or the synchronization has
\* for itself.
WorkerIn(w, i) == wk[w].pc \in CritPcs /\ InstOf(w) = i
ApiIn(a, i) == api[a].pc \in {"deleting", "failing", "failed"} /\ api[a].inst = i
SyncIn(i) == sync.pc = "locked" /\ sync.inst = i

(* "used to prevent operation for the same vnf instance from being processed *)
(* at the same time" (coordinate.py): of the handlers, the delete and fail   *)
(* requests and the synchronization, at most one is at work on an instance.  *)
ExclusiveAccess ==
    \A i \in Insts :
        /\ \A v, w \in Workers : WorkerIn(v, i) /\ WorkerIn(w, i) => v = w
        /\ \A a, b \in Apis : ApiIn(a, i) /\ ApiIn(b, i) => a = b
        /\ \A w \in Workers : WorkerIn(w, i) => ~SyncIn(i) /\ \A a \in Apis : ~ApiIn(a, i)
        /\ SyncIn(i) => \A a \in Apis : ~ApiIn(a, i)

\* Where the handler is in its flow tells which operationState it last stored.
StateAt(w) ==
    CASE wk[w].pc \in {"granting", "granted"} -> "STARTING"
      [] wk[w].pc = "commit3" -> IF wk[w].method = "rollback_lcm_op" THEN "ROLLED_BACK" ELSE "COMPLETED"
      [] wk[w].pc = "commit2" -> IF wk[w].method = "rollback_lcm_op" THEN "ROLLED_BACK" ELSE "PROCESSING"
      [] OTHER -> IF wk[w].method = "rollback_lcm_op" THEN "ROLLING_BACK" ELSE "PROCESSING"

(* While start_lcm_op, retry_lcm_op or rollback_lcm_op works on an lcmocc      *)
(* nobody else changes its operationState: not another handler, not a fail    *)
(* request that read it long ago, not the recovery at start.                  *)
HandlerOwnsOcc ==
    \A w \in Workers :
        wk[w].pc \in CritPcs /\ wk[w].method # "modify_vnfinfo" =>
            lcmocc[wk[w].occ].state = StateAt(w)

(* The handlers and the synchronization write back whole rows they read       *)
(* earlier: at the write the row in the database is still the one they read,  *)
(* so no update of another thread is lost and no deleted row comes back.      *)
NoLostUpdate ==
    /\ \A w \in Workers :
          wk[w].pc \in {"granting", "granted", "regrant", "process", "rollback", "commit1"} =>
             /\ Exists(inst[InstOf(w)])
             /\ post_grant(inst[InstOf(w)], Op(w)) = post_grant(wk[w].row, Op(w))
    /\ sync.pc = "locked" => sync.row = inst[sync.inst]

(* The VIM is called only for an operation whose grant is on record.          *)
VimUnderGrant ==
    \A w \in Workers : wk[w].pc \in {"process", "rollback"} => GrantFound(wk[w].occ)

(* grant_req and grant "will be deleted when operationState becomes an end    *)
(* state" (conductor_v2.py): none is left behind, and none exists before.     *)
GrantOnlyWhileOpen ==
    \A o \in grants : lcmocc[o].state \in {"PROCESSING", "FAILED_TEMP", "ROLLING_BACK"}

----------------------------------------------------------------------------
(* Properties of a client that waits for the end of what it started.        *)

(* An operation in FAILED_TEMP still has its grant, without which it can      *)
(* neither be retried, rolled back nor failed.                               *)
FailedTempHasGrant ==
    \A o \in Occs : lcmocc[o].state = "FAILED_TEMP" => GrantFound(o)

(* The instance of an operation that is not over exists: the recovery at      *)
(* start needs it (get_inst in _change_lcm_op_state).                         *)
OpenOccHasInst ==
    \A o \in Occs : lcmocc[o].state \in IngStates \cup {"FAILED_TEMP"} => Exists(inst[lcmocc[o].inst])

(* The scale level stays between 0 and maxScaleLevel.                         *)
ScaleWithinLimits ==
    \A i \in Insts : inst[i].state = "INSTANTIATED" =>
        inst[i].level >= 0 /\ inst[i].level <= MaxLevel

(* When every operation on an instance is COMPLETED or ROLLED_BACK, the VIM   *)
(* holds exactly what the instance row says: a crash between the call to the  *)
(* VIM and the write, a failure half way and a retry or a rollback included.  *)
VimMatchesDb ==
    \A i \in Insts :
        (\A o \in Occs : lcmocc[o].inst = i => lcmocc[o].state \in {"COMPLETED", "ROLLED_BACK"})
            => stack[i] = StackOf(inst[i])

(* "update inst and lcmocc at the same time" (conductor_v2.py): when nobody is *)
(* at work on an instance, the operation its row carries is COMPLETED.        *)
UpdatedTogether ==
    \A i \in Insts, o \in Occs :
        inst[i].conf = o /\ (\A w \in Workers : ~WorkerIn(w, i)) => lcmocc[o].state = "COMPLETED"

(* The occurrences follow SOL003's state machine, one at a time per instance. *)
Abstract == INSTANCE LcmOpOcc WITH Occ <- Occs, Inst <- Insts, NoneInst <- NoInst, occ <- lcmocc
OpOccProtocol == Abstract!OccSpec

----------------------------------------------------------------------------
(* Liveness.                                                               *)

(* Every operation leaves its transient state, whatever happens to the        *)
(* conductor on the way: finished, put in FAILED_TEMP, or repaired at start.  *)
OpSettles ==
    \A o \in Occs : lcmocc[o].state \in IngStates ~> lcmocc[o].state \notin IngStates

(* A conductor that is down comes up again: the recovery always terminates.   *)
StartupCompletes == conductor # "up" ~> conductor = "up"

(* A change of the pods made behind Tacker's back reaches the database,       *)
(* unless an operation is open or has FAILED, or the pods are out of range.   *)
SyncCatchesUp ==
    \A i \in CnfInsts :
        stack[i].level # inst[i].level ~>
            \/ stack[i].level = inst[i].level
            \/ ~stack[i].up
            \/ stack[i].level \notin 0..MaxLevel
            \/ \E o \in Occs : lcmocc[o].inst = i /\ lcmocc[o].state \notin {"COMPLETED", "ROLLED_BACK"}

============================================================================
