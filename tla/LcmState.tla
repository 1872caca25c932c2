------------------------------ MODULE LcmState ------------------------------
(***************************************************************************)
(* The state the API server (tacker-server) and the conductor              *)
(* (tacker-conductor) of the v2 stack share, and the private state of their *)
(* threads.                                                                *)
(*                                                                         *)
(*   inst, lcmocc, grants   the tables VnfInstanceV2, VnfLcmOpOccV2, and   *)
(*                          GrantRequestV1/GrantV1 (kept as one set)       *)
(*   lock                   the coordinator's lock of each VNF instance    *)
(*   queue                  RPC casts sent and not yet received            *)
(*   stack                  the VNF's resources in the VIM                 *)
(*   api, wk, sync          request threads of the API server; RPC and     *)
(*                          timer threads of the conductor; its periodic   *)
(*                          database synchronization                       *)
(*   conductor, boot        life of the conductor process and the progress *)
(*                          of _change_lcm_op_state at its start           *)
(*   spent                  how much of each bound has been used           *)
(***************************************************************************)
EXTENDS LcmTypes

CONSTANTS Insts,        \* VNF instances
          CnfInsts,     \* the instances on a Kubernetes or Helm VIM
          Apis,         \* request threads of tacker-server
          Workers,      \* handler threads of tacker-conductor
          ClientOps,    \* operations clients request
          AutoOps,      \* operations the conductor starts by itself
          MaxErr,       \* bound: retry, rollback and fail requests
          MaxCrash,     \* bound: crashes of the conductor
          MaxApiCrash,  \* bound: crashes of API request threads
          MaxDrift,     \* bound: changes of VIM resources from outside
          SerialClient, \* clients wait for the end of what they started
          SlowSteps,    \* steps that call no NFVO or VIM may also take ten seconds
          LocalNfvo,    \* notifications also go to the built-in NFVO
          TxAtomic,     \* a session.begin block commits as a whole
          DbFaults      \* a write in such a block may raise

NoInst == "noInst"
Nobody == "nobody"
SyncTask == "syncTask"

ASSUME NamesAssumption ==
    /\ NoInst \notin Insts
    /\ Apis \cap Workers = {}
    /\ {Nobody, SyncTask} \cap (Apis \cup Workers) = {}
ASSUME EnvAssumption ==
    /\ CnfInsts \subseteq Insts
    /\ ClientOps \subseteq Ops
    /\ AutoOps \subseteq ScaleOps \cup {"HEAL"}
    /\ {MaxErr, MaxCrash, MaxApiCrash, MaxDrift} \subseteq Nat
    /\ {SerialClient, SlowSteps, LocalNfvo, TxAtomic, DbFaults} \subseteq BOOLEAN

VARIABLES inst, lcmocc, grants, lock, queue, stack, api, wk, sync,
          conductor, boot, spent

db == <<inst, lcmocc, grants>>
vars == <<inst, lcmocc, grants, lock, queue, stack, api, wk, sync,
          conductor, boot, spent>>

----------------------------------------------------------------------------
(* The values of the variables.                                            *)

OccRow == [state : OpStates, op : Ops \cup {"NONE"}, inst : Insts \cup {NoInst}]
NoOccRow == [state |-> "NONE", op |-> "NONE", inst |-> NoInst]

NoRow == [state |-> "ABSENT", level |-> 0, vimInfo |-> "UNSET", conf |-> NoOcc]

\* Methods of the conductor's RPC endpoint.
Methods == {"start_lcm_op", "retry_lcm_op", "rollback_lcm_op", "modify_vnfinfo"}

ErrKinds == {"retry", "rollback", "fail"}

\* idle; errread: lcmocc read by an error-handling request, before its lock;
\* checked: request accepted; created: lcmocc stored, or retry or rollback
\* accepted; cast: message sent, lock still held; failing, failed: in
\* _lcm_op_occ_fail, before and after the lcmocc is stored; deleting: delete
\* accepted.
ApiPcs == {"idle", "errread", "checked", "created", "cast", "failing", "failed", "deleting"}

ApiThread == [pc : ApiPcs, req : Ops \cup ErrKinds \cup {"delete", "none"},
              inst : Insts \cup {NoInst}, occ : Occs \cup {NoOcc}]
IdleApi == [pc |-> "idle", req |-> "none", inst |-> NoInst, occ |-> NoOcc]

\* idle; recv: lcmocc read, waiting for the lock; granting: start_lcm_op before
\* the grant; granted: grant rows stored; regrant: retry or rollback before the
\* grant is read back; process, rollback: before the VIM is called; commit1,
\* commit2, commit3: before the first, second and third write of the end of
\* the handler; abort: before the write of FAILED_TEMP.
CritPcs == {"granting", "granted", "regrant", "process", "rollback",
            "commit1", "commit2", "commit3", "abort"}

Worker == [pc : CritPcs \cup {"idle", "recv"}, method : Methods \cup {"none"},
           occ : Occs \cup {NoOcc}, seen : OpStates, row : InstRow]
IdleWorker == [pc |-> "idle", method |-> "none", occ |-> NoOcc, seen |-> "NONE", row |-> NoRow]

SyncThread == [pc : {"idle", "listed", "locked"}, inst : Insts \cup {NoInst}, row : InstRow]
IdleSync == [pc |-> "idle", inst |-> NoInst, row |-> NoRow]

Boot == [phase : 0..3, todo : SUBSET Occs]
NotBooting == [phase |-> 0, todo |-> {}]

Spent == [err : Nat, crash : Nat, api : Nat, drift : Nat]

TypeOK ==
    /\ inst \in [Insts -> InstRow]
    /\ lcmocc \in [Occs -> OccRow]
    /\ grants \subseteq Occs
    /\ lock \in [Insts -> Apis \cup Workers \cup {Nobody, SyncTask}]
    /\ queue \in [Methods -> [Occs -> Nat]]
    /\ stack \in [Insts -> Stack]
    /\ api \in [Apis -> ApiThread]
    /\ wk \in [Workers -> Worker]
    /\ sync \in SyncThread
    /\ conductor \in {"up", "down", "starting"}
    /\ boot \in Boot
    /\ spent \in Spent

Init ==
    /\ inst = [i \in Insts |-> NoRow]
    /\ lcmocc = [o \in Occs |-> NoOccRow]
    /\ grants = {}
    /\ lock = [i \in Insts |-> Nobody]
    /\ queue = [m \in Methods |-> [o \in Occs |-> 0]]
    /\ stack = [i \in Insts |-> NoStack]
    /\ api = [a \in Apis |-> IdleApi]
    /\ wk = [w \in Workers |-> IdleWorker]
    /\ sync = IdleSync
    /\ conductor = "up"
    /\ boot = NotBooting
    /\ spent = [err |-> 0, crash |-> 0, api |-> 0, drift |-> 0]

----------------------------------------------------------------------------
(* Helpers of both processes.                                              *)

\* Mutant of check_lcmocc_in_progress.
check_lcmocc_in_progress_none(i) == TRUE

\* Only FAILED_TEMP is looked at.
check_lcmocc_in_progress(i) ==
    \A o \in Occs : ~(lcmocc[o].inst = i /\ lcmocc[o].state = "FAILED_TEMP")

\* A new lcmocc takes an identifier nobody uses or is about to use.
FreshOcc(o) == /\ lcmocc[o].state = "NONE"
               /\ \A a \in Apis : api[a].occ # o

new_lcmocc(o, i, op) ==
    lcmocc' = [lcmocc EXCEPT ![o] =
        [state |-> IF op = "MODIFY_INFO" THEN "PROCESSING" ELSE "STARTING",
         op |-> op, inst |-> i]]

update_lcmocc_status(o, s) == lcmocc' = [lcmocc EXCEPT ![o].state = s]

\* get_grant_req_and_grant finds what it needs.
GrantFound(o) == lcmocc[o].op = "MODIFY_INFO" \/ o \in grants

Acquire(i, t) == lock[i] = Nobody /\ lock' = [lock EXCEPT ![i] = t]
Release(i) == lock' = [lock EXCEPT ![i] = Nobody]
ReleaseAll(T) == lock' = [i \in Insts |-> IF lock[i] \in T THEN Nobody ELSE lock[i]]

============================================================================
