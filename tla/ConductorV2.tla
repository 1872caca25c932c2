---------------------------- MODULE ConductorV2 ----------------------------
(***************************************************************************)
(* tacker-conductor: the RPC handlers of conductor/conductor_v2.py, the     *)
(* operations it starts by itself (conductor/vnflcm_auto.py), the recovery  *)
(* at its start and its periodic database synchronization.                 *)
(*                                                                         *)
(* lock_vnf_instance(delay=True) waits up to ten seconds and then raises:   *)
(* the message is gone and the lcmocc stays as it is.                      *)
(***************************************************************************)
EXTENDS LcmState

Op(w) == lcmocc[wk[w].occ].op
InstOf(w) == lcmocc[wk[w].occ].inst

To(w, pc) == wk' = [wk EXCEPT ![w].pc = pc]
ToWith(w, pc, row) == wk' = [wk EXCEPT ![w].pc = pc, ![w].row = row]
Finish(w) == wk' = [wk EXCEPT ![w] = IdleWorker]

----------------------------------------------------------------------------
(* Receiving a cast: get_lcmocc, before the lock.                          *)

\* Mutant of ReceiveCast: a handler runs without a message.
ReceiveUnsent(w, m, o) ==
    /\ conductor = "up"
    /\ wk[w].pc = "idle"
    /\ queue' = [queue EXCEPT ![m][o] = @ - 1]
    /\ wk' = [wk EXCEPT ![w] =
         [pc |-> "recv", method |-> m, occ |-> o, seen |-> lcmocc[o].state, row |-> NoRow]]
    /\ UNCHANGED <<inst, lcmocc, grants, lock, stack, api, sync, conductor, boot, spent>>

ReceiveCast(w, m, o) ==
    /\ conductor = "up"
    /\ wk[w].pc = "idle"
    /\ queue[m][o] > 0
    /\ queue' = [queue EXCEPT ![m][o] = @ - 1]
    /\ wk' = [wk EXCEPT ![w] =
         [pc |-> "recv", method |-> m, occ |-> o, seen |-> lcmocc[o].state, row |-> NoRow]]
    /\ UNCHANGED <<inst, lcmocc, grants, lock, stack, api, sync, conductor, boot, spent>>

\* _auto_heal_pre and _auto_scale_pre: non-blocking lock, checks, new lcmocc,
\* lock released; start_lcm_op_internal then gets the lcmocc in memory.
AutoStart(w, i, op, o) ==
    /\ conductor = "up"
    /\ wk[w].pc = "idle"
    /\ FreshOcc(o)
    /\ lock[i] = Nobody
    /\ inst[i].state = "INSTANTIATED"
    /\ check_lcmocc_in_progress(i)
    /\ check_scale_level(inst[i], op)
    /\ new_lcmocc(o, i, op)
    /\ wk' = [wk EXCEPT ![w] =
         [pc |-> "recv", method |-> "start_lcm_op", occ |-> o, seen |-> "STARTING", row |-> NoRow]]
    /\ UNCHANGED <<inst, grants, lock, queue, stack, api, sync, conductor, boot, spent>>

\* "just consistency check" of each handler.
ExpectedState(m) ==
    CASE m = "start_lcm_op" -> "STARTING"
      [] m = "modify_vnfinfo" -> "PROCESSING"
      [] OTHER -> "FAILED_TEMP"

FirstPc(m) ==
    CASE m = "start_lcm_op" -> "granting"
      [] m = "modify_vnfinfo" -> "process"
      [] OTHER -> "regrant"

\* Mutant of FirstWrite: the transient state is not stored.
FirstWriteMissing(m, o) == UNCHANGED lcmocc

\* retry and rollback store PROCESSING and ROLLING_BACK at once.
FirstWrite(m, o) ==
    CASE m = "retry_lcm_op" -> update_lcmocc_status(o, "PROCESSING")
      [] m = "rollback_lcm_op" -> update_lcmocc_status(o, "ROLLING_BACK")
      [] OTHER -> UNCHANGED lcmocc

\* Mutant of HandlerLock.
HandlerNoLock(w) == UNCHANGED lock

\* The handler gets the lock and reads the instance.
HandlerLock(w) == Acquire(InstOf(w), w)

\* Mutant of HandlerBegin: no consistency check of operationState.
HandlerBeginUnchecked(w) ==
    /\ wk[w].pc = "recv"
    /\ HandlerLock(w)
    /\ Exists(inst[InstOf(w)])
    /\ ToWith(w, FirstPc(wk[w].method), inst[InstOf(w)])
    /\ FirstWrite(wk[w].method, wk[w].occ)
    /\ UNCHANGED <<inst, grants, queue, stack, api, sync, conductor, boot, spent>>

HandlerBegin(w) ==
    /\ wk[w].pc = "recv"
    /\ HandlerLock(w)
    /\ wk[w].seen = ExpectedState(wk[w].method)
    /\ Exists(inst[InstOf(w)])
    /\ ToWith(w, FirstPc(wk[w].method), inst[InstOf(w)])
    /\ FirstWrite(wk[w].method, wk[w].occ)
    /\ UNCHANGED <<inst, grants, queue, stack, api, sync, conductor, boot, spent>>

\* It gives up: unexpected operationState, or the instance is gone.
HandlerDrop(w) ==
    /\ wk[w].pc = "recv"
    /\ lock[InstOf(w)] = Nobody
    /\ wk[w].seen # ExpectedState(wk[w].method) \/ ~Exists(inst[InstOf(w)])
    /\ Finish(w)
    /\ UNCHANGED <<inst, lcmocc, grants, lock, queue, stack, api, sync, conductor, boot, spent>>

\* Ten seconds have passed: OtherOperationInProgress.  The holder of the lock
\* is waiting for the NFVO or the VIM, or (SlowSteps) just takes its time.
LongPcs == {"granting", "regrant", "process", "rollback"}

HandlerTimeout(w) ==
    /\ wk[w].pc = "recv"
    /\ lock[InstOf(w)] # Nobody
    /\ SlowSteps \/ \E v \in Workers : lock[InstOf(w)] = v /\ wk[v].pc \in LongPcs
    /\ Finish(w)
    /\ UNCHANGED <<inst, lcmocc, grants, lock, queue, stack, api, sync, conductor, boot, spent>>

----------------------------------------------------------------------------
(* start_lcm_op_internal: the grant.                                       *)

\* vnfd, grant, post_grant; grant_req and grant are stored.
GrantSave(w) ==
    /\ wk[w].pc = "granting"
    /\ GrantPossible(wk[w].row, Op(w))
    /\ grants' = grants \cup {wk[w].occ}
    /\ IF TxAtomic
       THEN /\ update_lcmocc_status(wk[w].occ, "PROCESSING")
            /\ ToWith(w, "process", post_grant(wk[w].row, Op(w)))
       ELSE /\ UNCHANGED lcmocc
            /\ ToWith(w, "granted", post_grant(wk[w].row, Op(w)))
    /\ UNCHANGED <<inst, lock, queue, stack, api, sync, conductor, boot, spent>>

\* The third write of the block, when it is not one transaction.
GrantProcessing(w) ==
    /\ wk[w].pc = "granted"
    /\ update_lcmocc_status(wk[w].occ, "PROCESSING")
    /\ To(w, "process")
    /\ UNCHANGED <<inst, grants, lock, queue, stack, api, sync, conductor, boot, spent>>

\* Refused by the NFVO, a bad request, or a write that raised: ROLLED_BACK.
GrantFail(w) ==
    /\ wk[w].pc = "granting" \/ (wk[w].pc = "granted" /\ DbFaults)
    /\ update_lcmocc_status(wk[w].occ, "ROLLED_BACK")
    /\ Release(InstOf(w))
    /\ Finish(w)
    /\ UNCHANGED <<inst, grants, queue, stack, api, sync, conductor, boot, spent>>

----------------------------------------------------------------------------
(* _retry_lcm_op and _rollback_lcm_op: the saved grant is read back.       *)

\* Mutant of Regrant: a missing grant goes unnoticed.
RegrantUnchecked(w) ==
    /\ wk[w].pc = "regrant"
    /\ ToWith(w, IF wk[w].method = "retry_lcm_op" THEN "process" ELSE "rollback",
              post_grant(wk[w].row, Op(w)))
    /\ UNCHANGED <<inst, lcmocc, grants, lock, queue, stack, api, sync, conductor, boot, spent>>

Regrant(w) ==
    /\ wk[w].pc = "regrant"
    /\ GrantFound(wk[w].occ)
    /\ ToWith(w, IF wk[w].method = "retry_lcm_op" THEN "process" ELSE "rollback",
              post_grant(wk[w].row, Op(w)))
    /\ UNCHANGED <<inst, lcmocc, grants, lock, queue, stack, api, sync, conductor, boot, spent>>

\* No grant, no VNFD, no VIM: the handler's except branch.
RegrantFail(w) ==
    /\ wk[w].pc = "regrant"
    /\ To(w, "abort")
    /\ UNCHANGED <<inst, lcmocc, grants, lock, queue, stack, api, sync, conductor, boot, spent>>

----------------------------------------------------------------------------
(* vnflcm_driver.process and rollback: the calls to the VIM.               *)

\* only OpenStack supports CHANGE_EXT_CONN.
VimSupports(w) == Op(w) = "CHANGE_EXT_CONN" => InstOf(w) \notin CnfInsts

VimEffect(w) ==
    LET i == InstOf(w)
    IN  /\ wk[w].pc \in {"process", "rollback"}
        /\ VimSupports(w)
        /\ \/ /\ wk[w].pc = "process"
              /\ ProcessPossible(wk[w].row, Op(w), stack[i])
              /\ stack' = [stack EXCEPT ![i] = ProcessedStack(wk[w].row, Op(w), wk[w].occ, @)]
           \/ /\ wk[w].pc = "rollback"
              /\ RollbackPossible(wk[w].row, Op(w), stack[i])
              /\ stack' = [stack EXCEPT ![i] = RolledBackStack(wk[w].row, Op(w), @)]

VimOk(w) ==
    /\ VimEffect(w)
    /\ To(w, "commit1")
    /\ UNCHANGED <<inst, lcmocc, grants, lock, queue, api, sync, conductor, boot, spent>>

\* It raised, with or without effect.
VimFail(w) ==
    /\ wk[w].pc \in {"process", "rollback"}
    /\ VimEffect(w) \/ UNCHANGED stack
    /\ To(w, "abort")
    /\ UNCHANGED <<inst, lcmocc, grants, lock, queue, api, sync, conductor, boot, spent>>

----------------------------------------------------------------------------
(* The end of a handler.  process: inst, lcmocc COMPLETED, grants.          *)
(* rollback: lcmocc ROLLED_BACK, inst for the two change operations, grants.*)

WriteInst(w) ==
    LET o == wk[w].occ
    IN  IF wk[w].method # "rollback_lcm_op"
        THEN inst' = [inst EXCEPT ![InstOf(w)] = Processed(wk[w].row, Op(w), o)]
        ELSE IF Op(w) \in ChangeOps
             THEN inst' = [inst EXCEPT ![InstOf(w)] = wk[w].row]
             ELSE UNCHANGED inst

WriteOcc(w) ==
    update_lcmocc_status(wk[w].occ,
        IF wk[w].method = "rollback_lcm_op" THEN "ROLLED_BACK" ELSE "COMPLETED")

\* Mutant of DeleteGrants.
KeepGrants(w) == UNCHANGED grants

DeleteGrants(w) == grants' = grants \ {wk[w].occ}

\* One transaction.
Commit(w) ==
    /\ wk[w].pc = "commit1"
    /\ TxAtomic
    /\ WriteInst(w)
    /\ WriteOcc(w)
    /\ DeleteGrants(w)
    /\ Release(InstOf(w))
    /\ Finish(w)
    /\ UNCHANGED <<queue, stack, api, sync, conductor, boot, spent>>

\* One transaction per row.
CommitRow(w) ==
    /\ ~TxAtomic
    /\ \/ /\ wk[w].pc = "commit1"
          /\ IF wk[w].method = "rollback_lcm_op"
             THEN WriteOcc(w) /\ UNCHANGED inst
             ELSE WriteInst(w) /\ UNCHANGED lcmocc
          /\ To(w, "commit2")
          /\ UNCHANGED <<grants, lock>>
       \/ /\ wk[w].pc = "commit2"
          /\ IF wk[w].method = "rollback_lcm_op"
             THEN WriteInst(w) /\ UNCHANGED lcmocc
             ELSE WriteOcc(w) /\ UNCHANGED inst
          /\ To(w, "commit3")
          /\ UNCHANGED <<grants, lock>>
       \/ /\ wk[w].pc = "commit3"
          /\ DeleteGrants(w)
          /\ Release(InstOf(w))
          /\ Finish(w)
          /\ UNCHANGED <<inst, lcmocc>>
    /\ UNCHANGED <<queue, stack, api, sync, conductor, boot, spent>>

\* The except branch: FAILED_TEMP.
Abort(w) ==
    /\ \/ wk[w].pc = "abort"
       \/ wk[w].pc \in {"commit1", "commit2", "commit3"} /\ DbFaults
    /\ update_lcmocc_status(wk[w].occ, "FAILED_TEMP")
    /\ Release(InstOf(w))
    /\ Finish(w)
    /\ UNCHANGED <<inst, grants, queue, stack, api, sync, conductor, boot, spent>>

WorkerStep(w) ==
    \/ HandlerBegin(w)
    \/ HandlerDrop(w)
    \/ HandlerTimeout(w)
    \/ GrantSave(w)
    \/ GrantProcessing(w)
    \/ GrantFail(w)
    \/ Regrant(w)
    \/ RegrantFail(w)
    \/ VimOk(w)
    \/ VimFail(w)
    \/ Commit(w)
    \/ CommitRow(w)
    \/ Abort(w)

============================================================================
