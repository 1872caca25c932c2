------------------------------- MODULE LcmV1 -------------------------------
(***************************************************************************)
(* The version 1 stack: one VNF instance, the requests of its client        *)
(* (api/vnflcm/v1/controller.py), the conductor that serves them one at a   *)
(* time under coordination.synchronized (conductor_server.py), the LCM      *)
(* driver (vnflcm_driver.py) and a Heat stack.                              *)
(*                                                                         *)
(* What an operation may do is decided by three fields in two tables:       *)
(* instantiation_state and task_state of vnf_instances, and status of vnf.  *)
(* Where a failed operation goes on when it is retried, and what a rollback *)
(* undoes, is decided by its error_point.  Nothing else is recorded, and a  *)
(* conductor that dies is not followed by any recovery.                     *)
(*                                                                         *)
(* The client is patient: it sends a request when the last one was served,  *)
(* or was cancelled; a cancelled operation goes on in the conductor.  The   *)
(* database does not fail.  A call to Heat that raises did nothing; waiting *)
(* for its result may fail whether it was done or not.                      *)
(***************************************************************************)
EXTENDS Naturals, Sequences

CONSTANTS V1MaxOccs,    \* bounds operation occurrences
          V1MaxLevel,   \* maxLevel of the only scaling aspect
          V1MaxCrash,   \* bounds crashes of the conductor
          V1MaxTries    \* bounds crashes, retries and rollbacks together

ASSUME V1Assumption == {V1MaxOccs, V1MaxLevel, V1MaxTries, V1MaxCrash} \subseteq Nat

VARIABLES v1Row,    \* vnf_instances: instantiation_state, task_state, instance_id known, scale level
          v1Vnf,    \* vnf: status, and the size kept in its attribute scale_group
          v1Occ,    \* vnf_lcm_op_occs in the order of creation
          v1Cast,   \* the cast that was not received yet
          v1Work,   \* the handler that runs: the cast, its step, its copies of the row, whether it was cancelled
          v1Vim,    \* the Heat stack and its size
          v1Crashes, v1Tries,
          v1Late,   \* history: occurrences cancelled while their handler ran
          v1Taint   \* history: what the properties make an exception for, see V1Taints

v1Vars == <<v1Row, v1Vnf, v1Occ, v1Cast, v1Work, v1Vim, v1Crashes, v1Tries, v1Late, v1Taint>>

Scales == {"SCALE_OUT", "SCALE_IN"}
Heals == {"HEAL", "HEAL_VNFC"}      \* the whole VNF, named VNFCs
V1Ops == {"INSTANTIATE", "TERMINATE", "CHANGE_EXT_CONN", "MODIFY_INFO"} \cup Scales \cup Heals

\* The task_state and the status of an operation under way.
TaskOf(op) ==
    CASE op = "INSTANTIATE" -> "INSTANTIATING"
      [] op = "TERMINATE" -> "TERMINATING"
      [] op \in Heals -> "HEALING"
      [] op \in Scales -> "SCALING"
      [] OTHER -> "None"
Pending == [op \in V1Ops \ {"MODIFY_INFO"} |->
    CASE op = "INSTANTIATE" -> "PENDING_CREATE"
      [] op = "TERMINATE" -> "PENDING_TERMINATE"
      [] op = "SCALE_OUT" -> "PENDING_SCALE_OUT"
      [] op = "SCALE_IN" -> "PENDING_SCALE_IN"
      [] op \in Heals -> "PENDING_HEAL"
      [] OTHER -> "PENDING_CHANGE_EXT_CONN"]
PENDING_STATUSES == {Pending[op] : op \in DOMAIN Pending}

V1Ended == {"COMPLETED", "FAILED", "ROLLED_BACK"}

\* second: an operation was started before the one before it had ended, or made
\* by the retry of one; between: a crash between the two writes with which the
\* retry of a SCALE begins; outage: the VIM failed an operation and its error
\* handling both; apart: the VNF and Heat may disagree, after fail, after cancel,
\* after the retry of a SCALE that failed while Heat was waited for (it is
\* signalled again), after the rollback of a SCALE that failed later than that
\* (the saved level is not taken back), when a retry fails earlier than the
\* attempt before it (a rollback forgets what Heat was told), when the rollback
\* of an INSTANTIATE fails (the instance_id is forgotten), and when a HEAL
\* fails that has forgotten the level (scale_group still has it).
V1Taints == {"second", "between", "outage", "apart"}

NoCast == [op |-> "none"]
NoWork == [op |-> "none", occ |-> 0, pc |-> "idle", late |-> TRUE]
V1Idle == v1Cast = NoCast /\ v1Work = NoWork

LcmV1Init ==
    /\ v1Row = [inst |-> "NOT_INSTANTIATED", task |-> "None", stack |-> FALSE, level |-> 0]
    /\ v1Vnf = [status |-> "INACTIVE", cap |-> 0]
    /\ v1Occ = <<>>
    /\ v1Cast = NoCast
    /\ v1Work = NoWork
    /\ v1Vim = [stack |-> FALSE, level |-> 0]
    /\ v1Crashes = 0
    /\ v1Tries = 0
    /\ v1Late = {}
    /\ v1Taint = {}

----------------------------------------------------------------------------
(* VnfLcmController *)

\* check_vnf_state; heal and change_ext_conn look themselves, in the request only.
check_vnf_state(op, new) ==
    /\ op \in {"INSTANTIATE", "TERMINATE"} \cup Scales \/ (op \in Heals /\ new) => v1Row.task = "None"
    /\ op = "INSTANTIATE" => v1Row.inst = "NOT_INSTANTIATED"
    /\ op \in Scales \/ (new /\ op \in Heals \cup {"CHANGE_EXT_CONN"}) => v1Row.inst = "INSTANTIATED"

\* before is the error_point of the occurrence that is retried, 0 for a new
\* operation.
check_vnf_status_and_error_point(op, before) ==
    /\ op \notin {"CHANGE_EXT_CONN", "MODIFY_INFO"} /\ before = 0 =>
          v1Vnf.status = IF op = "INSTANTIATE" THEN "INACTIVE" ELSE "ACTIVE"
    /\ op = "MODIFY_INFO" => v1Vnf.status \in {"ACTIVE", "INACTIVE"}

\* The level is checked again when the operation is retried.
LevelAllowed(op) ==
    /\ op = "SCALE_OUT" => v1Row.level + 1 <= V1MaxLevel
    /\ op = "SCALE_IN" => v1Row.level >= 1

Accepted(op, before, new) ==
    check_vnf_state(op, new) /\ check_vnf_status_and_error_point(op, before) /\ LevelAllowed(op)

\* A request that passed: the occurrence is created (that of MODIFY_INFO by the
\* conductor, that of SCALE with error_point 1), task_state is saved and the
\* conductor called with copies of the rows.
Submit(op, before, o) ==
    LET row == [v1Row EXCEPT !.task = IF TaskOf(op) = "None" THEN @ ELSE TaskOf(op)] IN
    /\ before = 0 => Len(v1Occ) < V1MaxOccs
    /\ v1Row' = row
    /\ v1Occ' = IF before = 0 /\ op # "MODIFY_INFO"
                THEN Append(v1Occ, [op |-> op, state |-> "STARTING", ep |-> IF op \in Scales THEN 1 ELSE 0])
                ELSE v1Occ
    /\ v1Cast' = [op |-> op, occ |-> IF before = 0 THEN Len(v1Occ) + 1 ELSE o, before |-> before,
                  status |-> v1Vnf.status, row |-> row]

v1_request(op) ==
    /\ V1Idle
    /\ v1Row.inst # "none"
    /\ Accepted(op, 0, TRUE)
    /\ Submit(op, 0, 0)
    /\ v1Taint' = IF \E o \in DOMAIN v1Occ : v1Occ[o].state \notin V1Ended
                  THEN v1Taint \cup {"second"} ELSE v1Taint
    /\ UNCHANGED <<v1Vnf, v1Work, v1Vim, v1Crashes, v1Tries, v1Late>>

\* The client deals with an occurrence in FAILED_TEMP.
V1FailedTemp(o) ==
    /\ v1Cast = NoCast
    /\ v1Work.late
    /\ v1Row.inst # "none"
    /\ v1Occ[o].state = "FAILED_TEMP"

\* The bound on retries and rollbacks.
Tried == v1Crashes + v1Tries < V1MaxTries /\ v1Tries' = v1Tries + 1

v1_retry(o) ==
    LET op == v1Occ[o].op IN
    /\ V1FailedTemp(o)
    /\ Tried
    /\ op # "MODIFY_INFO"
    /\ Accepted(op, v1Occ[o].ep, FALSE)
    /\ Submit(op, v1Occ[o].ep, o)
    /\ v1Taint' = v1Taint \cup (IF op \in Scales /\ v1Occ[o].ep = 4 THEN {"apart"} ELSE {})
                          \cup (IF v1Occ[o].ep = 0 THEN {"second"} ELSE {})
    /\ UNCHANGED <<v1Vnf, v1Work, v1Vim, v1Crashes, v1Late>>

v1_rollback(o) ==
    /\ V1FailedTemp(o)
    /\ Tried
    /\ v1Occ[o].op \in {"INSTANTIATE", "SCALE_OUT"}
    /\ v1Cast' = [op |-> "ROLLBACK", occ |-> o, before |-> v1Occ[o].ep, status |-> v1Vnf.status, row |-> v1Row]
    /\ v1Taint' = IF v1Occ[o].op = "SCALE_OUT" /\ v1Occ[o].ep > 4 THEN v1Taint \cup {"apart"} ELSE v1Taint
    /\ UNCHANGED <<v1Row, v1Vnf, v1Occ, v1Work, v1Vim, v1Crashes, v1Late>>

\* update_vnf_fail_status raises unless the status is ERROR.
v1_fail(o) ==
    /\ V1FailedTemp(o)
    /\ v1Vnf.status = "ERROR"
    /\ v1Vnf' = [v1Vnf EXCEPT !.status = IF v1Row.inst = "INSTANTIATED" THEN "ACTIVE" ELSE "INACTIVE"]
    /\ v1Row' = [v1Row EXCEPT !.task = "None"]
    /\ v1Occ' = [v1Occ EXCEPT ![o].state = "FAILED"]
    /\ v1Taint' = v1Taint \cup {"apart"}
    /\ UNCHANGED <<v1Cast, v1Work, v1Vim, v1Crashes, v1Tries, v1Late>>

\* update_vnf_cancel_status raises unless the status is one of PENDING_STATUSES.
\* The error_point stays that of the last failure.
v1_cancel(o) ==
    /\ v1Occ[o].state = "PROCESSING"
    /\ v1Vnf.status \in PENDING_STATUSES
    /\ v1Vnf' = [v1Vnf EXCEPT !.status = "ERROR"]
    /\ v1Row' = [v1Row EXCEPT !.task = "None"]
    /\ v1Occ' = [v1Occ EXCEPT ![o].state = "FAILED_TEMP"]
    /\ v1Work' = IF v1Work.occ = o THEN [v1Work EXCEPT !.late = TRUE] ELSE v1Work
    /\ v1Late' = IF v1Work.occ = o THEN v1Late \cup {o} ELSE v1Late
    /\ v1Taint' = v1Taint \cup {"apart"}
    /\ UNCHANGED <<v1Cast, v1Vim, v1Crashes, v1Tries>>

v1_delete ==
    /\ V1Idle
    /\ v1Row.inst = "NOT_INSTANTIATED"
    /\ v1Row.task = "None"
    /\ v1Vnf.status = "INACTIVE"
    /\ v1Row' = [v1Row EXCEPT !.inst = "none"]
    /\ UNCHANGED <<v1Vnf, v1Occ, v1Cast, v1Work, v1Vim, v1Crashes, v1Tries, v1Late, v1Taint>>

----------------------------------------------------------------------------
(* The conductor.  v1Work.base is the row as the handler read or saved it    *)
(* last, v1Work.obj its object: save() writes the fields that differ, and    *)
(* the lists of instantiated_vnf_info (the level) always.                    *)

Saved(obj) ==
    [f \in DOMAIN v1Row |-> IF f = "level" \/ obj[f] # v1Work.base[f] THEN obj[f] ELSE v1Row[f]]

\* The handler goes on at pc with obj not saved, or saved.
GoOn(pc, obj) == v1Work' = [v1Work EXCEPT !.pc = pc, !.obj = obj]
SaveGoOn(pc, obj) ==
    /\ v1Row' = Saved(obj)
    /\ v1Work' = [v1Work EXCEPT !.pc = pc, !.base = Saved(obj), !.obj = Saved(obj)]

SetState(s) == v1Occ' = [v1Occ EXCEPT ![v1Work.occ].state = s]
SetFailed(ep) == v1Occ' = [v1Occ EXCEPT ![v1Work.occ].state = "FAILED_TEMP", ![v1Work.occ].ep = ep]
SetStatus(s) == v1Vnf' = [v1Vnf EXCEPT !.status = s]
Reinitialized(obj) == [obj EXCEPT !.stack = FALSE, !.level = 0]

At(pc) == v1Work.pc = pc
FullOp == v1Work.op \notin Scales \cup {"ROLLBACK", "MODIFY_INFO"}

\* Mutant of grant_error_common: the occurrence is forgotten.
GrantErrorLeavesOcc ==
    /\ v1Row' = [v1Row EXCEPT !.task = "None"]
    /\ UNCHANGED v1Occ

grant_error_common ==
    /\ v1Row' = [v1Row EXCEPT !.task = "None"]
    /\ v1Occ' = [v1Occ EXCEPT ![v1Cast.occ].state = "ROLLED_BACK"]

\* The lock is free: a cast is received, and the grant asked for.
v1_receive ==
    /\ v1Cast # NoCast
    /\ v1Work = NoWork
    /\ v1Cast' = NoCast
    /\ \/ /\ v1Work' = [op |-> v1Cast.op, occ |-> v1Cast.occ, before |-> v1Cast.before, status |-> v1Cast.status,
                        base |-> v1Cast.row, obj |-> v1Cast.row, pc |-> "begin", late |-> FALSE]
          /\ UNCHANGED <<v1Row, v1Occ>>
       \/ /\ v1Cast.before = 0
          /\ v1Cast.op \notin {"ROLLBACK", "MODIFY_INFO"}
          /\ grant_error_common
          /\ UNCHANGED v1Work
    /\ UNCHANGED <<v1Vnf, v1Vim, v1Crashes, v1Tries, v1Late, v1Taint>>

\* task_state after the driver raised, or another part of the handler did.
revert_to_error_task_state(raised) == IF raised THEN "ERROR" ELSE v1Row.task

\* The except clause of instantiate, terminate, heal and change_ext_conn.  When
\* the VIM cannot be reached either, instantiate forgets the stack and leaves
\* task_state.  raised: the driver raised, and revert_to_error_task_state saved
\* task_state ERROR (which terminate sets back to None).
FailedIn(ep, obj, raised) ==
    LET op == v1Work.op
        task == IF op \in {"INSTANTIATE", "TERMINATE"} THEN "None" ELSE revert_to_error_task_state(raised)
        lost == \/ v1Work.before >= 4 /\ ep < 4
                \/ op = "HEAL" /\ obj.level # v1Work.obj.level
        apart == IF lost THEN {"apart"} ELSE {}
    IN
    /\ SetStatus("ERROR")
    /\ SetFailed(ep)
    /\ v1Work' = NoWork
    /\ \/ /\ v1Row' = IF op \in {"INSTANTIATE", "TERMINATE"} \/ raised
                      THEN [Saved(obj) EXCEPT !.task = task] ELSE v1Row
          /\ v1Taint' = v1Taint \cup apart
                                \cup (IF op = "INSTANTIATE" /\ v1Work.obj.stack /\ ~obj.stack THEN {"outage"} ELSE {})
       \/ /\ op = "INSTANTIATE"
          /\ v1Row' = Reinitialized(v1Row)
          /\ v1Taint' = v1Taint \cup apart \cup {"outage"}

FullBegin ==
    /\ FullOp
    /\ At("begin")
    /\ SetState("PROCESSING")
    /\ GoOn("status", v1Work.obj)
    /\ UNCHANGED <<v1Row, v1Vnf, v1Cast, v1Vim, v1Crashes, v1Tries, v1Late, v1Taint>>

\* _change_vnf_status to PENDING_*, by the status the request saw.
FullStatus ==
    LET op == v1Work.op
        from == IF v1Work.status = "ERROR" THEN {"ERROR"}
                ELSE IF v1Work.before > 1 THEN {v1Vnf.status}
                ELSE {IF op = "INSTANTIATE" THEN "INACTIVE" ELSE "ACTIVE"}
        skip == v1Work.status # "ERROR" /\ v1Work.before > 1
    IN
    /\ FullOp
    /\ At("status")
    /\ \/ /\ v1Vnf.status \in from
          /\ SetStatus(IF skip THEN v1Vnf.status ELSE Pending[op])
          /\ GoOn(IF v1Work.before <= 6 \/ op = "CHANGE_EXT_CONN" THEN "script" ELSE "save", v1Work.obj)
          /\ UNCHANGED <<v1Row, v1Occ, v1Taint>>
       \/ /\ v1Vnf.status \notin from
          /\ FailedIn(1, v1Work.obj, FALSE)
    /\ UNCHANGED <<v1Cast, v1Vim, v1Crashes, v1Tries, v1Late>>

\* The lookup of the VIM and the *_start script, which is left out when it was
\* passed before.
FullScript ==
    /\ FullOp
    /\ At("script")
    /\ \/ /\ GoOn("vim", v1Work.obj)
          /\ UNCHANGED <<v1Row, v1Vnf, v1Occ, v1Taint>>
       \/ FailedIn(2, v1Work.obj, TRUE)
    /\ UNCHANGED <<v1Cast, v1Vim, v1Crashes, v1Tries, v1Late>>

\* The stage was passed by the attempt that is retried.
SkipVim ==
    /\ At("vim")
    /\ v1Work.op \in {"INSTANTIATE", "CHANGE_EXT_CONN"} \cup Heals
    /\ v1Work.before > 4
    /\ GoOn("end", v1Work.obj)
    /\ UNCHANGED <<v1Row, v1Vnf, v1Occ, v1Cast, v1Vim, v1Crashes, v1Tries, v1Late, v1Taint>>

KnownPoint(obj) == IF obj.stack THEN 4 ELSE 3

\* A stack of the name of the instance is created, or updated when the creation
\* was reached before; obj knows it then, and the waiting may still fail.
StackMade(obj, size) ==
    /\ IF v1Work.before <= 3 THEN ~v1Vim.stack ELSE v1Vim.stack
    /\ v1Vim' = [stack |-> TRUE, level |-> size]

_instantiate_vnf ==
    LET made == [v1Work.obj EXCEPT !.stack = TRUE, !.level = 0] IN
    /\ v1Work.op = "INSTANTIATE"
    /\ At("vim")
    /\ v1Work.before <= 4
    /\ \/ /\ StackMade(made, 0)
          /\ \/ GoOn("end", made) /\ UNCHANGED <<v1Row, v1Vnf, v1Occ, v1Taint>>
             \/ FailedIn(4, made, TRUE)
       \/ /\ UNCHANGED v1Vim
          /\ FailedIn(KnownPoint(v1Work.obj), v1Work.obj, TRUE)
    /\ UNCHANGED <<v1Cast, v1Crashes, v1Tries, v1Late>>

\* terminate_vnf: the row is NOT_INSTANTIATED once Heat took the deletion; the
\* rest is reset and saved when it is over.
_delete_vnf_instance_resources ==
    LET obj == v1Work.obj
        gone == [obj EXCEPT !.inst = "NOT_INSTANTIATED"]
    IN
    /\ v1Work.op = "TERMINATE"
    /\ At("vim")
    /\ \/ /\ v1Work.before <= 4 /\ obj.stack
          /\ \/ UNCHANGED v1Vim /\ FailedIn(4, obj, TRUE)
             \/ \E s \in {TRUE, FALSE} : v1Vim' = [v1Vim EXCEPT !.stack = @ /\ s] /\ FailedIn(4, gone, TRUE)
             \/ /\ v1Vim' = [v1Vim EXCEPT !.stack = FALSE]
                /\ SaveGoOn("end", [Reinitialized(gone) EXCEPT !.task = "None"])
                /\ UNCHANGED <<v1Vnf, v1Occ, v1Taint>>
       \/ /\ ~(v1Work.before <= 4 /\ obj.stack)
          /\ SaveGoOn("end", [Reinitialized(obj) EXCEPT !.task = "None"])
          /\ UNCHANGED <<v1Vnf, v1Occ, v1Vim, v1Taint>>
    /\ UNCHANGED <<v1Cast, v1Crashes, v1Tries, v1Late>>

_heal_vnf ==
    /\ v1Work.op = "HEAL_VNFC"
    /\ At("vim")
    /\ v1Work.before <= 4
    /\ \/ /\ SaveGoOn("end", [v1Work.obj EXCEPT !.task = "None"])
          /\ UNCHANGED <<v1Vnf, v1Occ, v1Taint>>
       \/ \E ep \in {3, 4} : FailedIn(ep, v1Work.obj, TRUE)
    /\ UNCHANGED <<v1Cast, v1Vim, v1Crashes, v1Tries, v1Late>>

\* The stack is deleted, unless that was passed, and made again at its level.
\* Once it is deleted its instance_id is forgotten; the scale status survives
\* unless the grant came with a description of the VNF.
_respawn_vnf ==
    LET obj == v1Work.obj
        kept == v1Work.before = 4
        there == v1Vim.stack /\ (kept \/ ~obj.stack)
        bare == [obj EXCEPT !.stack = FALSE]
        made == [obj EXCEPT !.stack = TRUE]
    IN
    /\ v1Work.op = "HEAL"
    /\ At("vim")
    /\ v1Work.before <= 4
    /\ \/ /\ ~kept /\ obj.stack
          /\ \E s \in {TRUE, FALSE} : v1Vim' = [v1Vim EXCEPT !.stack = @ /\ s]
          /\ FailedIn(4, obj, TRUE)
       \/ /\ v1Vim' = [v1Vim EXCEPT !.stack = there]
          /\ \E l \in {0, obj.level} : FailedIn(3, [bare EXCEPT !.level = l], TRUE)
       \/ /\ there = kept
          /\ v1Vim' = [stack |-> TRUE, level |-> obj.level]
          /\ \/ /\ SaveGoOn("end", [made EXCEPT !.inst = "INSTANTIATED", !.task = "None"])
                /\ UNCHANGED <<v1Vnf, v1Occ, v1Taint>>
             \/ FailedIn(4, made, TRUE)
    /\ UNCHANGED <<v1Cast, v1Crashes, v1Tries, v1Late>>

_change_ext_conn_vnf ==
    /\ v1Work.op = "CHANGE_EXT_CONN"
    /\ At("vim")
    /\ v1Work.before <= 4
    /\ \/ GoOn("end", v1Work.obj) /\ UNCHANGED <<v1Row, v1Vnf, v1Occ, v1Taint>>
       \/ \E ep \in {3, 4} : FailedIn(ep, v1Work.obj, TRUE)
    /\ UNCHANGED <<v1Cast, v1Vim, v1Crashes, v1Tries, v1Late>>

\* The *_end script.
FullEnd ==
    /\ FullOp
    /\ At("end")
    /\ \/ GoOn("final", v1Work.obj) /\ UNCHANGED <<v1Row, v1Vnf, v1Occ, v1Taint>>
       \/ v1Work.before <= 6 /\ FailedIn(6, v1Work.obj, TRUE)
    /\ UNCHANGED <<v1Cast, v1Vim, v1Crashes, v1Tries, v1Late>>

\* Mutant of Finishable: whatever the status is.
AlwaysFinishable == TRUE

\* _change_vnf_status and _update_vnf_attributes from PENDING_STATUSES.
Finishable == v1Vnf.status \in PENDING_STATUSES

\* All but terminate ask the VIM once more before; instantiate forgets the stack
\* when that fails.  change_ext_conn saves no task_state.
FullFinal ==
    LET op == v1Work.op
        conn == op = "CHANGE_EXT_CONN"
    IN
    /\ FullOp
    /\ At("final")
    /\ \/ /\ Finishable
          /\ v1Vnf' = [status |-> IF op = "TERMINATE" THEN "INACTIVE" ELSE "ACTIVE",
                       cap |-> IF op = "INSTANTIATE" THEN 0 ELSE v1Vnf.cap]
          /\ GoOn(IF conn THEN "complete" ELSE "save", v1Work.obj)
          /\ UNCHANGED <<v1Row, v1Occ, v1Taint>>
       \/ /\ ~Finishable \/ (op # "TERMINATE" /\ op # "INSTANTIATE")
          /\ FailedIn(IF conn THEN 7 ELSE 6, v1Work.obj, FALSE)
       \/ op = "INSTANTIATE" /\ FailedIn(6, Reinitialized(v1Work.obj), FALSE)
    /\ UNCHANGED <<v1Cast, v1Vim, v1Crashes, v1Tries, v1Late>>

\* terminate looks for the default VIM, which there may not be.
FullSave ==
    LET op == v1Work.op
        inst == CASE op = "INSTANTIATE" -> "INSTANTIATED"
                  [] op = "TERMINATE" -> "NOT_INSTANTIATED"
                  [] OTHER -> v1Work.obj.inst
    IN
    /\ FullOp
    /\ At("save")
    /\ \/ /\ SaveGoOn("complete", [v1Work.obj EXCEPT !.inst = inst, !.task = "None"])
          /\ UNCHANGED <<v1Vnf, v1Occ, v1Taint>>
       \/ op = "TERMINATE" /\ FailedIn(7, v1Work.obj, FALSE)
    /\ UNCHANGED <<v1Cast, v1Vim, v1Crashes, v1Tries, v1Late>>

FullComplete ==
    /\ FullOp
    /\ At("complete")
    /\ SetState("COMPLETED")
    /\ v1Work' = NoWork
    /\ UNCHANGED <<v1Row, v1Vnf, v1Cast, v1Vim, v1Crashes, v1Tries, v1Late, v1Taint>>

----------------------------------------------------------------------------
(* scale *)

\* Mutant of _update_vnf_scaling_status_err: only an operation that got to
\* PENDING_SCALE_* is marked.
ScalingErrPendingOnly(status) == IF status \in {Pending[op] : op \in Scales} THEN "ERROR" ELSE status

_update_vnf_scaling_status_err(status) ==
    IF status \in {Pending[op] : op \in Scales} \cup {"ACTIVE"} THEN "ERROR" ELSE status

\* The level saved on an error: that of the request, unless
\* _scale_resource_update was through.
ErrorLevel(obj, updated) == IF updated THEN obj.level ELSE v1Work.base.level

\* revert_to_error_scale.  It asks the VIM too: when that fails its variable
\* resource_changes is unbound, and the occurrence stays in PROCESSING.
revert_to_error_scale(ep, obj, updated) ==
    /\ SetStatus(_update_vnf_scaling_status_err(v1Vnf.status))
    /\ v1Row' = Saved([obj EXCEPT !.task = "None", !.level = ErrorLevel(obj, updated)])
    /\ v1Work' = NoWork
    /\ \/ /\ SetFailed(ep)
          /\ v1Taint' = IF v1Work.before >= 4 /\ ep < 4 THEN v1Taint \cup {"apart"} ELSE v1Taint
       \/ /\ ~updated
          /\ v1Taint' = v1Taint \cup {"outage"}
          /\ UNCHANGED v1Occ

\* A retry that does not find the status ERROR raises, and nothing is written.
ScaleBegin ==
    /\ v1Work.op \in Scales
    /\ At("begin")
    /\ \/ /\ v1Work.status = "ERROR" => v1Vnf.status = "ERROR"
          /\ SetStatus(IF v1Work.status = "ERROR" THEN Pending[v1Work.op] ELSE v1Vnf.status)
          /\ GoOn("process", v1Work.obj)
       \/ /\ v1Work.status = "ERROR" /\ v1Vnf.status # "ERROR"
          /\ v1Work' = NoWork
          /\ UNCHANGED v1Vnf
    /\ UNCHANGED <<v1Row, v1Occ, v1Cast, v1Vim, v1Crashes, v1Tries, v1Late, v1Taint>>

ScaleProcess ==
    /\ v1Work.op \in Scales
    /\ At("process")
    /\ SetState("PROCESSING")
    /\ GoOn("pre", v1Work.obj)
    /\ UNCHANGED <<v1Row, v1Vnf, v1Cast, v1Vim, v1Crashes, v1Tries, v1Late, v1Taint>>

\* The lookup of the VIM, the status (silently only from ACTIVE), the *_start
\* script.
_scale_vnf_pre ==
    /\ v1Work.op \in Scales
    /\ At("pre")
    /\ \/ /\ SetStatus(IF v1Work.before <= 1 /\ v1Vnf.status = "ACTIVE" THEN Pending[v1Work.op] ELSE v1Vnf.status)
          /\ GoOn("vim", v1Work.obj)
          /\ UNCHANGED <<v1Row, v1Occ, v1Taint>>
       \/ \E ep \in {1, 2} : revert_to_error_scale(ep, v1Work.obj, FALSE)
    /\ UNCHANGED <<v1Cast, v1Vim, v1Crashes, v1Tries, v1Late>>

\* A signal to Heat changes the size by one step, within min_size and max_size.
Signalled == IF v1Work.op = "SCALE_OUT" THEN IF v1Vim.level < V1MaxLevel THEN v1Vim.level + 1 ELSE v1Vim.level
             ELSE IF v1Vim.level > 0 THEN v1Vim.level - 1 ELSE 0
After(obj) == IF v1Work.op = "SCALE_OUT" THEN obj.level + 1 ELSE obj.level - 1

_scale_vnf ==
    /\ v1Work.op \in Scales
    /\ At("vim")
    /\ \/ /\ v1Work.before <= 4
          /\ \/ /\ v1Vim' = [v1Vim EXCEPT !.level = Signalled]
                /\ GoOn("end", [v1Work.obj EXCEPT !.level = After(v1Work.obj)])
                /\ UNCHANGED <<v1Row, v1Vnf, v1Occ, v1Taint>>
             \/ UNCHANGED v1Vim /\ revert_to_error_scale(3, v1Work.obj, FALSE)
             \/ /\ \E l \in {v1Vim.level, Signalled} : v1Vim' = [v1Vim EXCEPT !.level = l]
                /\ revert_to_error_scale(4, v1Work.obj, FALSE)
       \/ /\ v1Work.before > 4
          /\ GoOn("end", v1Work.obj)
          /\ UNCHANGED <<v1Row, v1Vnf, v1Occ, v1Vim, v1Taint>>
    /\ UNCHANGED <<v1Cast, v1Crashes, v1Tries, v1Late>>

_scale_vnf_post ==
    /\ v1Work.op \in Scales
    /\ At("end")
    /\ \/ /\ v1Vnf' = [status |-> IF v1Vnf.status = Pending[v1Work.op] THEN "ACTIVE" ELSE v1Vnf.status,
                       cap |-> v1Vim.level]
          /\ SetState("COMPLETED")
          /\ v1Row' = Saved([v1Work.obj EXCEPT !.task = "None"])
          /\ v1Work' = NoWork
          /\ UNCHANGED v1Taint
       \/ v1Work.op = "SCALE_OUT" /\ revert_to_error_scale(6, v1Work.obj, TRUE)
    /\ UNCHANGED <<v1Cast, v1Vim, v1Crashes, v1Tries, v1Late>>

----------------------------------------------------------------------------
(* rollback and update *)

Undone == v1Occ[v1Work.occ].op      \* the operation that is rolled back

\* revert_to_error_rollback: the information of an instantiation is reset and
\* saved, unless the VIM cannot be looked up.
revert_to_error_rollback(ep) ==
    /\ SetFailed(ep)
    /\ v1Work' = NoWork
    /\ v1Row' \in {Saved(v1Work.obj)} \cup
           IF Undone = "INSTANTIATE" THEN {Saved([Reinitialized(v1Work.obj) EXCEPT !.task = "None"])} ELSE {}
    /\ v1Taint' = IF Undone = "INSTANTIATE" THEN v1Taint \cup {"apart"} ELSE v1Taint

RollbackBegin ==
    /\ v1Work.op = "ROLLBACK"
    /\ At("begin")
    /\ SetState("ROLLING_BACK")
    /\ GoOn("vim", v1Work.obj)
    /\ UNCHANGED <<v1Row, v1Vnf, v1Cast, v1Vim, v1Crashes, v1Tries, v1Late, v1Taint>>

\* Mutant of UndoneVim: a failure after the creation was waited for is not undone.
UndoneVimOnlyWait == v1Work.before = 4

\* The error_point says that Heat was called.
UndoneVim == v1Work.before >= 4

_rollback_vnf ==
    LET less == [v1Vim EXCEPT !.level = v1Vnf.cap]
        none == [v1Vim EXCEPT !.stack = @ /\ ~v1Work.obj.stack]
        undone == IF ~UndoneVim THEN v1Vim ELSE IF Undone = "SCALE_OUT" THEN less ELSE none
    IN
    /\ v1Work.op = "ROLLBACK"
    /\ At("vim")
    /\ \/ /\ v1Vim' = undone
          /\ GoOn("end", v1Work.obj)
          /\ UNCHANGED <<v1Row, v1Occ, v1Taint>>
       \/ /\ v1Vim' \in {v1Vim, undone}
          /\ revert_to_error_rollback(v1Work.before)
    /\ UNCHANGED <<v1Vnf, v1Cast, v1Crashes, v1Tries, v1Late>>

\* Mutant of RolledBackStatus: always as after a SCALE.
RolledBackActive == "ACTIVE"

RolledBackStatus == IF Undone = "SCALE_OUT" THEN "ACTIVE" ELSE "INACTIVE"

\* _rollback_vnf_post and _update_vnf_rollback.
_rollback_vnf_post ==
    LET obj == IF Undone = "SCALE_OUT" THEN v1Work.obj ELSE Reinitialized(v1Work.obj) IN
    /\ v1Work.op = "ROLLBACK"
    /\ At("end")
    /\ \/ /\ SetStatus(IF v1Vnf.status = "ERROR" THEN RolledBackStatus ELSE v1Vnf.status)
          /\ v1Occ' = [v1Occ EXCEPT ![v1Work.occ].state = "ROLLED_BACK", ![v1Work.occ].ep = 2]
          /\ v1Row' = Saved([obj EXCEPT !.task = "None"])
          /\ v1Work' = NoWork
          /\ UNCHANGED <<v1Vim, v1Taint>>
       \/ /\ UNCHANGED <<v1Vnf, v1Vim>>
          /\ revert_to_error_rollback(3)
    /\ UNCHANGED <<v1Cast, v1Crashes, v1Tries, v1Late>>

\* Sets the status without a condition.
revert_update_lcm == SetFailed(0) /\ SetStatus("ERROR")

\* update creates its occurrence, modify_vnf changes fields of the instance that
\* are not modelled.
UpdateBegin ==
    /\ v1Work.op = "MODIFY_INFO"
    /\ At("begin")
    /\ v1Occ' = Append(v1Occ, [op |-> "MODIFY_INFO", state |-> "PROCESSING", ep |-> 0])
    /\ GoOn("modify", v1Work.obj)
    /\ UNCHANGED <<v1Row, v1Vnf, v1Cast, v1Vim, v1Crashes, v1Tries, v1Late, v1Taint>>

modify_vnf ==
    /\ v1Work.op = "MODIFY_INFO"
    /\ At("modify")
    /\ v1Work' = NoWork
    /\ \/ SetState("COMPLETED") /\ UNCHANGED v1Vnf
       \/ revert_update_lcm
    /\ UNCHANGED <<v1Row, v1Cast, v1Vim, v1Crashes, v1Tries, v1Late, v1Taint>>

\* The handler is lost with the conductor, a cast not received is not.
v1_crash ==
    /\ v1Work # NoWork
    /\ v1Crashes < V1MaxCrash /\ v1Crashes + v1Tries < V1MaxTries
    /\ v1Crashes' = v1Crashes + 1
    /\ v1Work' = NoWork
    /\ v1Taint' = IF At("process") THEN v1Taint \cup {"between"} ELSE v1Taint
    /\ UNCHANGED <<v1Row, v1Vnf, v1Occ, v1Cast, v1Vim, v1Tries, v1Late>>

----------------------------------------------------------------------------
V1Driver ==
    \/ SkipVim \/ _instantiate_vnf \/ _delete_vnf_instance_resources \/ _heal_vnf \/ _respawn_vnf
    \/ _change_ext_conn_vnf \/ _scale_vnf \/ _rollback_vnf

V1Conductor ==
    \/ v1_receive
    \/ FullBegin \/ FullStatus \/ FullScript \/ FullEnd \/ FullFinal \/ FullSave \/ FullComplete
    \/ ScaleBegin \/ ScaleProcess \/ _scale_vnf_pre \/ _scale_vnf_post
    \/ RollbackBegin \/ _rollback_vnf_post
    \/ UpdateBegin \/ modify_vnf
    \/ V1Driver

LcmV1Next ==
    \/ \E op \in V1Ops : v1_request(op)
    \/ \E o \in DOMAIN v1Occ : v1_retry(o) \/ v1_rollback(o) \/ v1_fail(o) \/ v1_cancel(o)
    \/ v1_delete
    \/ V1Conductor
    \/ v1_crash

\* The conductor serves its queue and goes on with what it began.
LcmV1Fairness == WF_v1Vars(V1Conductor)

LcmV1Spec == LcmV1Init /\ [][LcmV1Next]_v1Vars /\ LcmV1Fairness

----------------------------------------------------------------------------
(* Properties *)

V1UnderWay(o) == v1Occ[o].state \in {"STARTING", "PROCESSING", "ROLLING_BACK"}
V1Quiet == V1Idle /\ v1Row.inst # "none"
V1Settled == V1Quiet /\ \A o \in DOMAIN v1Occ : v1Occ[o].state \in V1Ended

\* An operation in FAILED_TEMP that nothing is being done about has left the
\* VNF in ERROR: fail and the retry of a SCALE are refused in any other
\* status, and the operation could never be ended.  (Not when a second operation
\* was started before the first one ended: change_ext_conn, which checks neither
\* status nor task_state, can take the status away from the operation that
\* failed.  Nor after a crash between the two writes with which the retry of a
\* SCALE begins.)
FailedTempIsError ==
    V1Quiet /\ v1Taint \cap {"second", "between"} = {} =>
        \A o \in DOMAIN v1Occ : v1Occ[o].state = "FAILED_TEMP" => v1Vnf.status = "ERROR"

\* When every operation has ended the VNF can be operated again: its status
\* goes with its instantiation_state and task_state is None.  Not after an
\* operation completed late, although it was cancelled; nor when a second
\* operation was started before the first one ended, or after a crash between
\* those two writes; nor after the retries that RetriedOperational is about.
Operational ==
    (/\ V1Settled
     /\ v1Late = {}
     /\ v1Taint \cap {"second", "between"} = {}
     /\ \A o \in DOMAIN v1Occ :
          v1Occ[o].state = "COMPLETED" => v1Occ[o].ep # 7 /\ (v1Occ[o].op = "CHANGE_EXT_CONN" => v1Occ[o].ep = 0))
    => /\ v1Row.task = "None"
       /\ v1Vnf.status = IF v1Row.inst = "INSTANTIATED" THEN "ACTIVE" ELSE "INACTIVE"

\* When every operation has ended, whatever failures, retries and rollbacks it
\* went through, there is a stack if and only if the VNF is INSTANTIATED, its
\* instance_id is known, and it has the level of the VNF.  What excludes it:
\* fail and cancel leave Heat as it is, and the cases in v1Taint.
V1VimMatches ==
    V1Settled /\ v1Taint = {} /\ v1Crashes = 0 =>
        /\ v1Vim.stack = (v1Row.inst = "INSTANTIATED")
        /\ v1Row.stack = v1Vim.stack
        /\ v1Vim.stack => v1Vim.level = v1Row.level

\* An operation that was cancelled while it ran, and is in FAILED_TEMP for its
\* client to retry, roll back or fail, is not COMPLETED by its handler.  Unless
\* it is a SCALE, or a retry that is past its last change of the status, or
\* another operation took the status away.
CancelHolds ==
    [][/\ v1Work # NoWork /\ v1Work.late /\ v1Occ[v1Work.occ].state = "FAILED_TEMP"
       /\ v1Occ' # v1Occ /\ v1Work' # v1Work
       /\ v1Taint \cap {"second", "between"} = {}
       => \/ v1Occ'[v1Work.occ].state # "COMPLETED"
          \/ v1Work.op \in Scales
          \/ v1Work.before = 7]_v1Vars

\* Operations that are accepted, retried or rolled back all end or come back to
\* FAILED_TEMP: unless the conductor dies, or the VIM fails a SCALE and its
\* error handling both.
V1Settles ==
    (\E o \in DOMAIN v1Occ : V1UnderWay(o))
        ~> ((\A o \in DOMAIN v1Occ : ~V1UnderWay(o)) \/ v1Crashes > 0 \/ "outage" \in v1Taint)

\* A retry that is successful makes the VNF operational: what
\* doc/source/user/etsi_vnf_error_handling.rst says of it.  The retry of a
\* CHANGE_EXT_CONN leaves task_state ERROR behind, that of a TERMINATE which
\* failed in its last step the status PENDING_TERMINATE.
RetriedOperational ==
    V1Quiet /\ Len(v1Occ) > 0 /\ v1Taint = {} /\ v1Crashes = 0 /\ v1Occ[Len(v1Occ)].state = "COMPLETED" =>
            v1Row.task = "None" /\ v1Vnf.status \in {"ACTIVE", "INACTIVE"}

============================================================================
