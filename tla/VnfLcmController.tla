-------------------------- MODULE VnfLcmController --------------------------
(***************************************************************************)
(* The requests of the VNF LCM v2 API (controller/vnflcm_v2.py).  A request *)
(* runs in a thread of tacker-server.  One that is refused (409, 404, 422)  *)
(* changes nothing, so only requests that get through have steps.          *)
(*                                                                         *)
(* lock_vnf_instance is non-blocking here: a busy lock refuses the request. *)
(***************************************************************************)
EXTENDS LcmState

\* A client that waits sees nothing of its earlier requests under way on
\* instance i: they have returned, no lcmocc is in a transient state, and the
\* retries and rollbacks it was promised (202) have been handled.  What it
\* cannot see is a start or modify cast that outlived a crash of the conductor.
Quiet(i) ==
    /\ \A a \in Apis : api[a].inst # i
    /\ \A o \in Occs : lcmocc[o].inst = i =>
          /\ lcmocc[o].state \notin IngStates
          /\ \A m \in {"retry_lcm_op", "rollback_lcm_op"} :
                /\ queue[m][o] = 0
                /\ \A w \in Workers : ~(wk[w].occ = o /\ wk[w].method = m)

MayRequest(i) == SerialClient => Quiet(i)

Goto(a, pc) == api' = [api EXCEPT ![a].pc = pc]
Return(a) == api' = [api EXCEPT ![a] = IdleApi]

----------------------------------------------------------------------------
(* POST and DELETE vnf_instances *)

Create(i) ==
    /\ inst[i].state = "ABSENT"
    /\ inst' = [inst EXCEPT ![i] = NewRow]
    /\ UNCHANGED <<lcmocc, grants, lock, queue, stack, api, wk, sync, conductor, boot, spent>>

\* Mutant of DeleteAccept: the instance is not locked.
DeleteUnlocked(a, i) ==
    /\ api[a].pc = "idle"
    /\ MayRequest(i)
    /\ inst[i].state = "NOT_INSTANTIATED"
    /\ check_lcmocc_in_progress(i)
    /\ api' = [api EXCEPT ![a] = [pc |-> "deleting", req |-> "delete", inst |-> i, occ |-> NoOcc]]
    /\ UNCHANGED <<inst, lcmocc, grants, lock, queue, stack, wk, sync, conductor, boot, spent>>

DeleteAccept(a, i) ==
    /\ api[a].pc = "idle"
    /\ MayRequest(i)
    /\ Acquire(i, a)
    /\ inst[i].state = "NOT_INSTANTIATED"
    /\ check_lcmocc_in_progress(i)
    /\ api' = [api EXCEPT ![a] = [pc |-> "deleting", req |-> "delete", inst |-> i, occ |-> NoOcc]]
    /\ UNCHANGED <<inst, lcmocc, grants, queue, stack, wk, sync, conductor, boot, spent>>

DeleteCommit(a) ==
    /\ api[a].pc = "deleting"
    /\ inst' = [inst EXCEPT ![api[a].inst] = [NoRow EXCEPT !.state = "DELETED"]]
    /\ Release(api[a].inst)
    /\ Return(a)
    /\ UNCHANGED <<lcmocc, grants, queue, stack, wk, sync, conductor, boot, spent>>

----------------------------------------------------------------------------
(* instantiate, terminate, scale, heal, change_ext_conn, change_vnfpkg and  *)
(* update: check the instance, store an lcmocc, cast to the conductor.      *)

RequestLock(a, i, op) ==
    IF Locked(op) THEN Acquire(i, a) ELSE UNCHANGED lock

RequestOk(i, op) ==
    /\ InstantiationStateOk(inst[i], op)
    /\ check_lcmocc_in_progress(i)
    /\ check_scale_level(inst[i], op)

RequestAccept(a, i, op, o) ==
    /\ api[a].pc = "idle"
    /\ MayRequest(i)
    /\ FreshOcc(o)
    /\ RequestLock(a, i, op)
    /\ RequestOk(i, op)
    /\ api' = [api EXCEPT ![a] = [pc |-> "checked", req |-> op, inst |-> i, occ |-> o]]
    /\ UNCHANGED <<inst, lcmocc, grants, queue, stack, wk, sync, conductor, boot, spent>>

RequestCreate(a) ==
    /\ api[a].pc = "checked"
    /\ new_lcmocc(api[a].occ, api[a].inst, api[a].req)
    /\ Goto(a, "created")
    /\ UNCHANGED <<inst, grants, lock, queue, stack, wk, sync, conductor, boot, spent>>

MethodOf(req) ==
    CASE req = "retry" -> "retry_lcm_op"
      [] req = "rollback" -> "rollback_lcm_op"
      [] req = "MODIFY_INFO" -> "modify_vnfinfo"
      [] OTHER -> "start_lcm_op"

\* The cast is the last thing a request does; a request that holds the lock
\* releases it afterwards (lock_vnf_instance's finally).
RequestCast(a) ==
    /\ api[a].pc = "created"
    /\ queue' = [queue EXCEPT ![MethodOf(api[a].req)][api[a].occ] = @ + 1]
    /\ IF Locked(api[a].req) THEN Goto(a, "cast") ELSE Return(a)
    /\ UNCHANGED <<inst, lcmocc, grants, lock, stack, wk, sync, conductor, boot, spent>>

RequestRelease(a) ==
    /\ api[a].pc = "cast"
    /\ Release(api[a].inst)
    /\ Return(a)
    /\ UNCHANGED <<inst, lcmocc, grants, queue, stack, wk, sync, conductor, boot, spent>>

----------------------------------------------------------------------------
(* lcm_op_occ_retry, _rollback and _fail: the lcmocc is read first, the     *)
(* lock is taken afterwards, and operationState is checked on what was read.*)

ErrRead(a, o, kind) ==
    /\ api[a].pc = "idle"
    /\ lcmocc[o].state = "FAILED_TEMP"
    /\ MayRequest(lcmocc[o].inst)
    /\ spent.err < MaxErr
    /\ spent' = [spent EXCEPT !.err = @ + 1]
    /\ api' = [api EXCEPT ![a] = [pc |-> "errread", req |-> kind, inst |-> lcmocc[o].inst, occ |-> o]]
    /\ UNCHANGED <<inst, lcmocc, grants, lock, queue, stack, wk, sync, conductor, boot>>

\* Retry and rollback look up the VIM; a vimConnectionInfo that was never set
\* raises.  Fail needs the instance and the saved grant.
ErrOk(kind, o, i) ==
    IF kind = "fail" THEN Exists(inst[i]) /\ GrantFound(o)
    ELSE lcmocc[o].op = "INSTANTIATE" \/ (Exists(inst[i]) /\ inst[i].vimInfo # "UNSET")

\* Mutant of ErrLock: the lock is forgotten.
ErrLockSkipped(a) ==
    /\ api[a].pc = "errread"
    /\ ErrOk(api[a].req, api[a].occ, api[a].inst)
    /\ Goto(a, IF api[a].req = "fail" THEN "failing" ELSE "created")
    /\ UNCHANGED <<inst, lcmocc, grants, lock, queue, stack, wk, sync, conductor, boot, spent>>

ErrLock(a) ==
    /\ api[a].pc = "errread"
    /\ Acquire(api[a].inst, a)
    /\ ErrOk(api[a].req, api[a].occ, api[a].inst)
    /\ Goto(a, IF api[a].req = "fail" THEN "failing" ELSE "created")
    /\ UNCHANGED <<inst, lcmocc, grants, queue, stack, wk, sync, conductor, boot, spent>>

ErrReject(a) ==
    /\ api[a].pc = "errread"
    /\ lock[api[a].inst] # Nobody \/ ~ErrOk(api[a].req, api[a].occ, api[a].inst)
    /\ Return(a)
    /\ UNCHANGED <<inst, lcmocc, grants, lock, queue, stack, wk, sync, conductor, boot, spent>>

\* The end of _lcm_op_occ_fail: lcmocc, then the grants; one transaction or two.
FailCommit(a) ==
    /\ api[a].pc = "failing"
    /\ update_lcmocc_status(api[a].occ, "FAILED")
    /\ IF TxAtomic
       THEN /\ grants' = grants \ {api[a].occ}
            /\ Release(api[a].inst)
            /\ Return(a)
       ELSE Goto(a, "failed") /\ UNCHANGED <<grants, lock>>
    /\ UNCHANGED <<inst, queue, stack, wk, sync, conductor, boot, spent>>

FailGrants(a) ==
    /\ api[a].pc = "failed"
    /\ grants' = grants \ {api[a].occ}
    /\ Release(api[a].inst)
    /\ Return(a)
    /\ UNCHANGED <<inst, lcmocc, queue, stack, wk, sync, conductor, boot, spent>>

----------------------------------------------------------------------------
\* The thread dies with its process; the coordinator frees its locks.
ApiCrash(a) ==
    /\ api[a].pc # "idle"
    /\ spent.api < MaxApiCrash
    /\ spent' = [spent EXCEPT !.api = @ + 1]
    /\ ReleaseAll({a})
    /\ Return(a)
    /\ UNCHANGED <<inst, lcmocc, grants, queue, stack, wk, sync, conductor, boot>>

\* What a request does once it is let in.
ApiStep(a) ==
    \/ DeleteCommit(a)
    \/ RequestCreate(a)
    \/ RequestCast(a)
    \/ RequestRelease(a)
    \/ ErrLock(a)
    \/ ErrReject(a)
    \/ FailCommit(a)
    \/ FailGrants(a)

Client(a) ==
    \/ \E i \in Insts : DeleteAccept(a, i)
    \/ \E i \in Insts, op \in ClientOps, o \in Occs : RequestAccept(a, i, op, o)
    \/ \E o \in Occs, kind \in ErrKinds : ErrRead(a, o, kind)

============================================================================
