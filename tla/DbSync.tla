------------------------------- MODULE DbSync -------------------------------
(***************************************************************************)
(* The periodic task _sync_db: it copies what Kubernetes or Helm did to the *)
(* pods of a VNF into the instance row, under a non-blocking lock.  Pods    *)
(* are seen through the scale level only.                                  *)
(***************************************************************************)
EXTENDS LcmState

\* The VIM scales, or loses, pods by itself (external).
VimDrift(i, l) ==
    /\ i \in CnfInsts
    /\ stack[i].up
    /\ stack[i].level # l
    /\ spent.drift < MaxDrift
    /\ spent' = [spent EXCEPT !.drift = @ + 1]
    /\ stack' = [stack EXCEPT ![i].level = l]
    /\ UNCHANGED <<inst, lcmocc, grants, lock, queue, api, wk, sync, conductor, boot>>

\* get_by_filter(instantiationState='INSTANTIATED') and diff_check_inst.
SyncList(i) ==
    /\ conductor = "up"
    /\ sync.pc = "idle"
    /\ i \in CnfInsts
    /\ inst[i].state = "INSTANTIATED"
    /\ stack[i].level # inst[i].level
    /\ sync' = [pc |-> "listed", inst |-> i, row |-> NoRow]
    /\ UNCHANGED <<inst, lcmocc, grants, lock, queue, stack, api, wk, conductor, boot, spent>>

\* is_lcmocc_failure_status.  Which lcmocc is the latest is not modelled: when
\* one is FAILED, it may be.
FailureStatus(i) == \E o \in Occs : lcmocc[o].inst = i /\ lcmocc[o].state = "FAILED_TEMP"
MaybeFailureStatus(i) == \E o \in Occs : lcmocc[o].inst = i /\ lcmocc[o].state \in {"FAILED_TEMP", "FAILED"}

\* Mutant of SyncLock: no lock.
SyncLockStale ==
    /\ sync.pc = "listed"
    /\ ~FailureStatus(sync.inst)
    /\ sync' = [sync EXCEPT !.pc = "locked", !.row = inst[sync.inst]]
    /\ UNCHANGED <<inst, lcmocc, grants, lock, queue, stack, api, wk, conductor, boot, spent>>

\* _sync_inst: lock, check, read the instance again.
SyncLock ==
    /\ sync.pc = "listed"
    /\ Acquire(sync.inst, SyncTask)
    /\ ~FailureStatus(sync.inst)
    /\ inst[sync.inst].state = "INSTANTIATED"
    /\ sync' = [sync EXCEPT !.pc = "locked", !.row = inst[sync.inst]]
    /\ UNCHANGED <<inst, lcmocc, grants, queue, stack, api, wk, conductor, boot, spent>>

SyncSkip ==
    /\ sync.pc = "listed"
    /\ \/ lock[sync.inst] # Nobody
       \/ MaybeFailureStatus(sync.inst)
       \/ inst[sync.inst].state # "INSTANTIATED"
    /\ sync' = IdleSync
    /\ UNCHANGED <<inst, lcmocc, grants, lock, queue, stack, api, wk, conductor, boot, spent>>

\* Mutant of PodsInRange: the largest level is refused.
PodsBelowMax(i) == stack[i].level >= 0 /\ stack[i].level < MaxLevel

\* diff_check_and_update_vnfc, _calc_scale_level and _check_pod_range.
PodsInRange(i) == stack[i].level >= 0 /\ stack[i].level <= MaxLevel

SyncCommit ==
    /\ sync.pc = "locked"
    /\ IF stack[sync.inst].up /\ PodsInRange(sync.inst)
       THEN inst' = [inst EXCEPT ![sync.inst] = [sync.row EXCEPT !.level = stack[sync.inst].level]]
       ELSE UNCHANGED inst
    /\ Release(sync.inst)
    /\ sync' = IdleSync
    /\ UNCHANGED <<lcmocc, grants, queue, stack, api, wk, conductor, boot, spent>>

SyncStep == SyncLock \/ SyncSkip \/ SyncCommit

============================================================================
