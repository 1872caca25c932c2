------------------------ MODULE VnfLcmSystem_proofs ------------------------
(***************************************************************************)
(* Safety of the v2 LCM stack for any number of instances, operations and   *)
(* threads, any bounds, and any setting of the switches of LcmState.        *)
(*                                                                         *)
(* The inductive invariant IInv has four parts besides TypeOK: what a       *)
(* thread, a message or the recovery refers to exists and does not change   *)
(* its instance (RefInv); who is at work on an instance holds its lock      *)
(* (LockInv); the rows in memory are the rows of the database (RowInv); and *)
(* the grant of an operation that calls the VIM is on record (GrantInv).    *)
(***************************************************************************)
EXTENDS VnfLcmSystem, TLAPS

----------------------------------------------------------------------------
\* The lcmocc o is a row of the table, and its instance is one of Insts.
Stored(o) == /\ lcmocc[o].state # "NONE"
             /\ lcmocc[o].inst \in Insts

ApiRef(a) ==
    /\ api[a].pc # "idle" => api[a].inst \in Insts
    /\ api[a].pc = "checked" =>
          api[a].occ \in Occs /\ api[a].req \in Ops /\ lcmocc[api[a].occ].state = "NONE"
    /\ api[a].pc \in {"errread", "created", "cast", "failing", "failed"} =>
          api[a].occ \in Occs /\ Stored(api[a].occ) /\ lcmocc[api[a].occ].inst = api[a].inst
    /\ api[a].pc = "errread" => api[a].req # "MODIFY_INFO"
    /\ api[a].pc = "created" /\ api[a].req = "MODIFY_INFO" => lcmocc[api[a].occ].op = "MODIFY_INFO"

OccApart(a, b) == api[a].pc = "checked" /\ api[b].pc # "idle" /\ a # b => api[a].occ # api[b].occ

QueueRef(m, o) ==
    queue[m][o] > 0 => /\ Stored(o)
                       /\ m = "modify_vnfinfo" => lcmocc[o].op = "MODIFY_INFO"

WorkerRef(w) ==
    wk[w].pc # "idle" =>
        /\ wk[w].occ \in Occs
        /\ wk[w].method \in Methods
        /\ Stored(wk[w].occ)
        /\ wk[w].method = "modify_vnfinfo" => lcmocc[wk[w].occ].op = "MODIFY_INFO"

RefInv ==
    /\ \A a \in Apis : ApiRef(a)
    /\ \A a, b \in Apis : OccApart(a, b)
    /\ \A m \in Methods, o \in Occs : QueueRef(m, o)
    /\ \A w \in Workers : WorkerRef(w)
    /\ \A o \in boot.todo : Stored(o)
    /\ \A o \in Occs : lcmocc[o].state # "NONE" => Stored(o)
    /\ sync.pc # "idle" => sync.inst \in Insts

\* A request thread that holds the lock of its instance.
Holds(a) ==
    \/ api[a].pc \in {"deleting", "failing", "failed", "cast"}
    \/ api[a].pc \in {"checked", "created"} /\ Locked(api[a].req)

LockInv ==
    /\ \A w \in Workers : wk[w].pc \in CritPcs => lock[InstOf(w)] = w
    /\ \A a \in Apis : Holds(a) => lock[api[a].inst] = a
    /\ sync.pc = "locked" => lock[sync.inst] = SyncTask

RowInv ==
    /\ NoLostUpdate
    /\ sync.pc = "locked" => Exists(inst[sync.inst])

GrantInv ==
    \A w \in Workers : wk[w].pc \in {"granted", "process", "rollback"} => GrantFound(wk[w].occ)

IInv == TypeOK /\ RefInv /\ LockInv /\ RowInv /\ GrantInv

----------------------------------------------------------------------------
(* What the operators of LcmTypes return.                                  *)

\* _make_inst_info_common, post_grant and the VIM calls keep rows and stacks
\* well formed.
LEMMA RowTypes ==
    ASSUME NEW row \in InstRow, NEW op \in Ops \cup {"NONE"}, NEW o \in Occs, NEW s \in Stack
    PROVE  /\ post_grant(row, op) \in InstRow
           /\ Processed(row, op, o) \in InstRow
           /\ ProcessedStack(row, op, o, s) \in Stack
           /\ RolledBackStack(row, op, s) \in Stack
<1>1. Steps(op) \in Int
  BY DEF Steps
<1>2. post_grant(row, op) \in InstRow
  BY DEF post_grant, InstRow
<1>3. Processed(row, op, o) \in InstRow
  BY <1>1, LevelAssumption DEF Processed, instantiate_process, terminate_process,
     AdjustScaleStatus, Reconfigure, InstRow, InstStates, ScaleOps, ChangeOps
<1>4. ProcessedStack(row, op, o, s) \in Stack
  BY <1>1, LevelAssumption DEF ProcessedStack, vim_instantiate, vim_terminate,
     vim_scale, vim_change, Stack, NoStack, InstRow, ScaleOps, ChangeOps
<1>5. RolledBackStack(row, op, s) \in Stack
  BY DEF RolledBackStack, vim_instantiate_rollback,
     vim_scale_rollback, vim_change_rollback, Stack, NoStack, InstRow, ChangeOps
<1> QED
  BY <1>2, <1>3, <1>4, <1>5

\* NoRow, NewRow and NoStack are well formed.
LEMMA Constants ==
    /\ NoRow \in InstRow
    /\ NewRow \in InstRow
    /\ [NoRow EXCEPT !.state = "DELETED"] \in InstRow
    /\ NoStack \in Stack
    /\ IdleApi \in ApiThread
    /\ IdleWorker \in Worker
    /\ IdleSync \in SyncThread
    /\ NotBooting \in Boot
    /\ NoOccRow \in OccRow
  BY DEF NoRow, NewRow, NoStack, IdleApi, IdleWorker, IdleSync, NotBooting, NoOccRow, InstRow,
         InstStates, Stack, ApiThread, ApiPcs, Worker, SyncThread, Boot, OccRow, OpStates

----------------------------------------------------------------------------
(* Type correctness.                                                       *)

\* The tables, queue and threads have their types at the start.
LEMMA TypeInit == Init => TypeOK
  BY Constants DEF Init, TypeOK, Spent

\* The ways a thread, an lcmocc and a lock change keep their types.
LEMMA Moves ==
    ASSUME TypeOK
    PROVE  /\ \A a \in Apis : Return(a) => api' \in [Apis -> ApiThread]
           /\ \A a \in Apis, pc \in ApiPcs : Goto(a, pc) => api' \in [Apis -> ApiThread]
           /\ \A w \in Workers : Finish(w) => wk' \in [Workers -> Worker]
           /\ \A w \in Workers, pc \in CritPcs : To(w, pc) => wk' \in [Workers -> Worker]
           /\ \A w \in Workers, pc \in CritPcs, row \in InstRow :
                 ToWith(w, pc, row) => wk' \in [Workers -> Worker]
           /\ \A o \in Occs, st \in OpStates :
                 update_lcmocc_status(o, st) => lcmocc' \in [Occs -> OccRow]
           /\ \A i \in Insts :
                 Release(i) => lock' \in [Insts -> Apis \cup Workers \cup {Nobody, SyncTask}]
           /\ \A i \in Insts, t \in Apis \cup Workers \cup {SyncTask} :
                 Acquire(i, t) => lock' \in [Insts -> Apis \cup Workers \cup {Nobody, SyncTask}]
<1> USE DEF TypeOK
<1>1. ASSUME NEW a \in Apis, Return(a) PROVE api' \in [Apis -> ApiThread]
  BY <1>1, Constants DEF Return
<1>2. ASSUME NEW a \in Apis, NEW pc \in ApiPcs, Goto(a, pc) PROVE api' \in [Apis -> ApiThread]
  <2>1. [api[a] EXCEPT !.pc = pc] \in ApiThread
    BY DEF ApiThread
  <2>2. api' = [api EXCEPT ![a] = [api[a] EXCEPT !.pc = pc]]
    BY <1>2 DEF Goto
  <2> QED
    BY <2>1, <2>2
<1>3. ASSUME NEW w \in Workers, Finish(w) PROVE wk' \in [Workers -> Worker]
  BY <1>3, Constants DEF Finish
<1>4. ASSUME NEW w \in Workers, NEW pc \in CritPcs, To(w, pc) PROVE wk' \in [Workers -> Worker]
  <2>1. [wk[w] EXCEPT !.pc = pc] \in Worker
    BY DEF Worker
  <2>2. wk' = [wk EXCEPT ![w] = [wk[w] EXCEPT !.pc = pc]]
    BY <1>4 DEF To
  <2> QED
    BY <2>1, <2>2
<1>8. ASSUME NEW w \in Workers, NEW pc \in CritPcs, NEW row \in InstRow, ToWith(w, pc, row)
      PROVE  wk' \in [Workers -> Worker]
  <2>1. [wk[w] EXCEPT !.pc = pc] \in Worker
    BY DEF Worker
  <2>2. [[wk[w] EXCEPT !.pc = pc] EXCEPT !.row = row] \in Worker
    BY <2>1 DEF Worker
  <2>3. wk' = [wk EXCEPT ![w] = [[wk[w] EXCEPT !.pc = pc] EXCEPT !.row = row]]
    BY <1>8 DEF ToWith
  <2> QED
    BY <2>2, <2>3
<1>5. ASSUME NEW o \in Occs, NEW st \in OpStates, update_lcmocc_status(o, st)
      PROVE  lcmocc' \in [Occs -> OccRow]
  BY <1>5 DEF update_lcmocc_status, OccRow
<1>6. ASSUME NEW i \in Insts, Release(i)
      PROVE  lock' \in [Insts -> Apis \cup Workers \cup {Nobody, SyncTask}]
  BY <1>6 DEF Release
<1>7. ASSUME NEW i \in Insts, NEW t \in Apis \cup Workers \cup {SyncTask}, Acquire(i, t)
      PROVE  lock' \in [Insts -> Apis \cup Workers \cup {Nobody, SyncTask}]
  BY <1>7 DEF Acquire
<1> QED
  BY <1>1, <1>2, <1>3, <1>4, <1>5, <1>6, <1>7, <1>8

\* Accepting a request keeps the types.
LEMMA TypeClient ==
    ASSUME IInv, NEW a \in Apis, Client(a)
    PROVE  TypeOK'
<1> USE DEF IInv, TypeOK
<1>1. ASSUME NEW i \in Insts, DeleteAccept(a, i)
      PROVE  TypeOK'
  BY <1>1 DEF DeleteAccept, Acquire, ApiThread, ApiPcs
<1>2. ASSUME NEW i \in Insts, NEW op \in ClientOps, NEW o \in Occs, RequestAccept(a, i, op, o)
      PROVE  TypeOK'
  BY <1>2, EnvAssumption DEF RequestAccept, RequestLock, Acquire, ApiThread, ApiPcs
<1>3. ASSUME NEW o \in Occs, NEW kind \in ErrKinds, ErrRead(a, o, kind)
      PROVE  TypeOK'
  BY <1>3, SMTT(30) DEF ErrRead, ApiThread, ApiPcs, Spent, OccRow, OpStates
<1> QED
  BY <1>1, <1>2, <1>3 DEF Client

\* The steps and the death of a request thread keep the types.
LEMMA TypeApiStep ==
    ASSUME IInv, NEW a \in Apis, ApiStep(a) \/ ApiCrash(a)
    PROVE  TypeOK'
<1> USE Moves DEF IInv, TypeOK
<1>0. api[a].pc # "idle" => api[a].inst \in Insts
  BY DEF RefInv, ApiRef
<1>1. CASE DeleteCommit(a)
  BY <1>0, <1>1, Constants DEF DeleteCommit
<1>2. CASE RequestCreate(a)
  <2>1. lcmocc' \in [Occs -> OccRow]
    BY <1>2 DEF RequestCreate, new_lcmocc, RefInv, ApiRef, OccRow, OpStates, IngStates
  <2> QED
    BY <1>2, <2>1 DEF RequestCreate, ApiPcs
<1>3. CASE RequestCast(a)
  <2>1. MethodOf(api[a].req) \in Methods
    BY DEF MethodOf, Methods
  <2>2. api[a].occ \in Occs
    BY <1>3 DEF RequestCast, RefInv, ApiRef
  <2>3. queue' \in [Methods -> [Occs -> Nat]]
    BY <1>3, <2>1, <2>2 DEF RequestCast
  <2> QED
    BY <1>3, <2>3 DEF RequestCast, ApiPcs
<1>4. CASE RequestRelease(a)
  BY <1>0, <1>4 DEF RequestRelease
<1>5. CASE ErrLock(a)
  BY <1>0, <1>5 DEF ErrLock, ApiPcs
<1>6. CASE ErrReject(a)
  BY <1>6 DEF ErrReject
<1>7. CASE FailCommit(a)
  <2>1. api[a].occ \in Occs /\ "FAILED" \in OpStates
    BY <1>7 DEF FailCommit, RefInv, ApiRef, OpStates, EndStates
  <2> QED
    BY <1>0, <1>7, <2>1 DEF FailCommit, ApiPcs
<1>8. CASE FailGrants(a)
  BY <1>0, <1>8 DEF FailGrants
<1>9. CASE ApiCrash(a)
  BY <1>9 DEF ApiCrash, ReleaseAll, Spent
<1> QED
  BY <1>1, <1>2, <1>3, <1>4, <1>5, <1>6, <1>7, <1>8, <1>9 DEF ApiStep

\* What a handler works on.
LEMMA WorkerFacts ==
    ASSUME TypeOK, RefInv, NEW w \in Workers, wk[w].pc # "idle"
    PROVE  /\ wk[w].occ \in Occs
           /\ wk[w].method \in Methods
           /\ InstOf(w) \in Insts
           /\ Op(w) \in Ops \cup {"NONE"}
           /\ wk[w].row \in InstRow
           /\ Stored(wk[w].occ)
  BY DEF TypeOK, RefInv, WorkerRef, Stored, InstOf, Op, OccRow, Worker

\* The steps of an RPC handler keep the types.
LEMMA TypeWorkerStep ==
    ASSUME IInv, NEW w \in Workers, WorkerStep(w)
    PROVE  TypeOK'
<1> USE Moves DEF IInv, TypeOK
<1>0. wk[w].pc # "idle"
  BY DEF WorkerStep, HandlerBegin, HandlerDrop, HandlerTimeout, GrantSave, GrantProcessing, GrantFail,
         Regrant, RegrantFail, VimOk, VimEffect, VimFail, Commit, CommitRow, Abort
<1>w. /\ wk[w].occ \in Occs /\ wk[w].method \in Methods /\ InstOf(w) \in Insts
      /\ Op(w) \in Ops \cup {"NONE"} /\ wk[w].row \in InstRow
      /\ post_grant(wk[w].row, Op(w)) \in InstRow
      /\ Processed(wk[w].row, Op(w), wk[w].occ) \in InstRow
      /\ ProcessedStack(wk[w].row, Op(w), wk[w].occ, stack[InstOf(w)]) \in Stack
      /\ RolledBackStack(wk[w].row, Op(w), stack[InstOf(w)]) \in Stack
  BY <1>0, WorkerFacts, RowTypes
<1>s. OpStates = {"NONE", "STARTING", "PROCESSING", "COMPLETED", "FAILED_TEMP", "FAILED",
                  "ROLLING_BACK", "ROLLED_BACK"}
  BY DEF OpStates, IngStates, EndStates
<1>1. CASE HandlerBegin(w)
  <2>1. FirstPc(wk[w].method) \in CritPcs
    BY DEF FirstPc, CritPcs
  <2>2. wk' \in [Workers -> Worker]
    BY <1>1, <1>w, <2>1 DEF HandlerBegin
  <2>3. lcmocc' \in [Occs -> OccRow]
    BY <1>1, <1>w, <1>s DEF HandlerBegin, FirstWrite, Methods
  <2> QED
    BY <1>1, <1>w, <2>2, <2>3 DEF HandlerBegin, HandlerLock
<1>2. CASE HandlerDrop(w) \/ HandlerTimeout(w)
  BY <1>2 DEF HandlerDrop, HandlerTimeout
<1>3. CASE GrantSave(w)
  <2>1. wk' \in [Workers -> Worker]
    BY <1>3, <1>w DEF GrantSave, CritPcs
  <2> QED
    BY <1>3, <1>w, <1>s, <2>1 DEF GrantSave
<1>4. CASE GrantProcessing(w)
  BY <1>4, <1>w, <1>s DEF GrantProcessing, CritPcs
<1>5. CASE GrantFail(w)
  BY <1>5, <1>w, <1>s DEF GrantFail
<1>6. CASE Regrant(w)
  BY <1>6, <1>w DEF Regrant, CritPcs
<1>7. CASE RegrantFail(w)
  BY <1>7 DEF RegrantFail, CritPcs
<1>8. CASE VimOk(w) \/ VimFail(w)
  <2>1. stack' \in [Insts -> Stack]
    BY <1>8, <1>w DEF VimOk, VimFail, VimEffect
  <2> QED
    BY <1>8, <2>1 DEF VimOk, VimFail, CritPcs
<1>9. CASE Commit(w) \/ CommitRow(w)
  <2>1. WriteInst(w) => inst' \in [Insts -> InstRow]
    BY <1>w DEF WriteInst
  <2>2. WriteOcc(w) => lcmocc' \in [Occs -> OccRow]
    BY <1>w, <1>s DEF WriteOcc
  <2>3. CASE Commit(w)
    BY <1>w, <2>1, <2>2, <2>3 DEF Commit, DeleteGrants
  <2>4. CASE CommitRow(w)
    BY <1>w, <2>1, <2>2, <2>4 DEF CommitRow, DeleteGrants, CritPcs
  <2> QED
    BY <1>9, <2>3, <2>4
<1>10. CASE Abort(w)
  BY <1>10, <1>w, <1>s DEF Abort
<1> QED
  BY <1>1, <1>2, <1>3, <1>4, <1>5, <1>6, <1>7, <1>8, <1>9, <1>10 DEF WorkerStep

\* So do create, the receipt of a cast, an auto operation, the crash, the
\* recovery and the synchronization.
LEMMA TypeOther ==
    ASSUME IInv, [Next]_vars,
           \A a \in Apis : ~Client(a) /\ ~ApiStep(a) /\ ~ApiCrash(a),
           \A w \in Workers : ~WorkerStep(w)
    PROVE  TypeOK'
<1> USE Moves, Constants DEF IInv, TypeOK
<1>1. ASSUME NEW i \in Insts, Create(i) PROVE TypeOK'
  BY <1>1 DEF Create
<1>2. ASSUME NEW w \in Workers, NEW m \in Methods, NEW o \in Occs, ReceiveCast(w, m, o) PROVE TypeOK'
  <2>1. queue' \in [Methods -> [Occs -> Nat]]
    BY <1>2 DEF ReceiveCast
  <2>2. wk' \in [Workers -> Worker]
    BY <1>2 DEF ReceiveCast, Worker, OccRow
  <2> QED
    BY <1>2, <2>1, <2>2 DEF ReceiveCast
<1>3. ASSUME NEW w \in Workers, NEW i \in Insts, NEW op \in AutoOps, NEW o \in Occs, AutoStart(w, i, op, o)
      PROVE  TypeOK'
  <2>1. op \in Ops
    BY EnvAssumption DEF Ops
  <2>2. lcmocc' \in [Occs -> OccRow]
    BY <1>3, <2>1 DEF AutoStart, new_lcmocc, OccRow, OpStates, IngStates
  <2>3. wk' \in [Workers -> Worker]
    BY <1>3 DEF AutoStart, Worker, OpStates, IngStates, Methods
  <2> QED
    BY <1>3, <2>2, <2>3 DEF AutoStart
<1>4. CASE ConductorCrash
  BY <1>4 DEF ConductorCrash, ReleaseAll, Spent
<1>5. CASE ConductorStart \/ RecoverNext
  BY <1>5 DEF ConductorStart, RecoverNext, Boot, Listed
<1>6. ASSUME NEW o \in Occs, RecoverOcc(o) \/ RecoverAbort(o) PROVE TypeOK'
  <2>1. After(boot.phase) \in OpStates
    BY DEF After, OpStates, EndStates
  <2>2. boot' \in Boot /\ conductor' \in {"up", "down", "starting"}
    BY <1>6 DEF RecoverOcc, RecoverAbort, Boot
  <2> QED
    BY <1>6, <2>1, <2>2 DEF RecoverOcc, RecoverAbort
<1>7. ASSUME NEW i \in Insts, SyncList(i) PROVE TypeOK'
  BY <1>7 DEF SyncList, SyncThread
<1>8. ASSUME NEW i \in Insts, NEW l \in 0..(MaxLevel + 1), VimDrift(i, l) PROVE TypeOK'
  <2>1. l \in Int
    BY LevelAssumption
  <2>2. [stack[i] EXCEPT !.level = l] \in Stack
    BY <2>1 DEF Stack
  <2>3. stack' = [stack EXCEPT ![i] = [stack[i] EXCEPT !.level = l]]
    BY <1>8 DEF VimDrift
  <2>4. spent' \in Spent
    BY <1>8 DEF VimDrift, Spent
  <2> QED
    BY <1>8, <2>2, <2>3, <2>4 DEF VimDrift
<1>9. CASE SyncStep
  <2>1. sync.pc # "idle" => sync.inst \in Insts
    BY DEF RefInv
  <2>2. CASE SyncLock
    BY <2>1, <2>2 DEF SyncLock, SyncThread
  <2>3. CASE SyncSkip
    BY <2>3 DEF SyncSkip
  <2>4. CASE SyncCommit
    <3>1. inst' \in [Insts -> InstRow]
      <4>1. [sync.row EXCEPT !.level = stack[sync.inst].level] \in InstRow
        BY <2>1, <2>4 DEF SyncCommit, SyncThread, InstRow, Stack
      <4> QED
        BY <2>1, <2>4, <4>1 DEF SyncCommit
    <3> QED
      BY <2>1, <2>4, <3>1 DEF SyncCommit
  <2> QED
    BY <1>9, <2>2, <2>3, <2>4 DEF SyncStep
<1>10. CASE UNCHANGED vars
  BY <1>10 DEF vars
<1> QED
  BY <1>1, <1>2, <1>3, <1>4, <1>5, <1>6, <1>7, <1>8, <1>9, <1>10 DEF Next, BootStep

\* TypeOK is kept by every step.
LEMMA TypeStep == IInv /\ [Next]_vars => TypeOK'
  BY TypeClient, TypeApiStep, TypeWorkerStep, TypeOther

----------------------------------------------------------------------------
(* How a step changes the table of lcmoccs: not at all, in the state of one *)
(* row, or by a new row no other thread has its eyes on.                    *)

OccWrite == \E o \in Occs, st \in OpStates \ {"NONE", "STARTING"} : Stored(o) /\ update_lcmocc_status(o, st)

OccNew ==
    \E o \in Occs, i \in Insts, op \in Ops :
        /\ lcmocc[o].state = "NONE"
        /\ new_lcmocc(o, i, op)
        /\ \A a \in Apis : api[a].pc = "checked" /\ api[a].occ = o => api'[a].pc # "checked"

\* A row keeps its operation and its instance and never disappears.
OccKept ==
    \A o \in Occs : Stored(o) =>
        /\ Stored(o)'
        /\ lcmocc'[o].inst = lcmocc[o].inst
        /\ lcmocc'[o].op = lcmocc[o].op

\* Every step changes the table of lcmoccs in one of these ways.
LEMMA OccCases ==
    ASSUME IInv, [Next]_vars
    PROVE  UNCHANGED lcmocc \/ OccWrite \/ OccNew
<1> USE DEF IInv
<1>s. OpStates \ {"NONE", "STARTING"} = {"PROCESSING", "COMPLETED", "FAILED_TEMP", "FAILED",
                                         "ROLLING_BACK", "ROLLED_BACK"}
  BY DEF OpStates, IngStates, EndStates
<1>1. ASSUME NEW a \in Apis, Client(a) PROVE UNCHANGED lcmocc
  BY <1>1 DEF Client, DeleteAccept, RequestAccept, ErrRead
<1>2. ASSUME NEW a \in Apis, ApiStep(a) \/ ApiCrash(a)
      PROVE  UNCHANGED lcmocc \/ OccWrite \/ OccNew
  <2>1. CASE RequestCreate(a)
    <3>1. api[a].occ \in Occs /\ api[a].inst \in Insts /\ api[a].req \in Ops /\ lcmocc[api[a].occ].state = "NONE"
      BY <2>1 DEF RequestCreate, RefInv, ApiRef
    <3>2. \A b \in Apis : api[b].pc = "checked" /\ api[b].occ = api[a].occ => api'[b].pc # "checked"
      BY <2>1 DEF RequestCreate, RefInv, OccApart, Goto, TypeOK
    <3> QED
      BY <2>1, <3>1, <3>2 DEF RequestCreate, OccNew
  <2>2. CASE FailCommit(a)
    <3>1. api[a].occ \in Occs /\ Stored(api[a].occ)
      BY <2>2 DEF FailCommit, RefInv, ApiRef
    <3> QED
      BY <2>2, <1>s, <3>1 DEF FailCommit, OccWrite
  <2>3. CASE ~RequestCreate(a) /\ ~FailCommit(a)
    BY <1>2, <2>3 DEF ApiStep, ApiCrash, DeleteCommit, RequestCast, RequestRelease, ErrLock, ErrReject, FailGrants
  <2> QED
    BY <2>1, <2>2, <2>3
<1>3. ASSUME NEW w \in Workers, WorkerStep(w)
      PROVE  UNCHANGED lcmocc \/ OccWrite \/ OccNew
  <2>1. wk[w].pc # "idle"
    BY <1>3 DEF WorkerStep, HandlerBegin, HandlerDrop, HandlerTimeout, GrantSave, GrantProcessing, GrantFail,
           Regrant, RegrantFail, VimOk, VimEffect, VimFail, Commit, CommitRow, Abort
  <2>2. wk[w].occ \in Occs /\ Stored(wk[w].occ) /\ wk[w].method \in Methods
    BY <2>1, WorkerFacts
  <2>3. \A st \in OpStates \ {"NONE", "STARTING"} : update_lcmocc_status(wk[w].occ, st) => OccWrite
    BY <2>2 DEF OccWrite
  <2>4. CASE HandlerBegin(w)
    BY <2>2, <2>3, <2>4, <1>s DEF HandlerBegin, FirstWrite, Methods
  <2>5. CASE GrantSave(w) \/ GrantProcessing(w) \/ GrantFail(w) \/ Abort(w)
    BY <2>3, <2>5, <1>s DEF GrantSave, GrantProcessing, GrantFail, Abort
  <2>6. CASE Commit(w) \/ CommitRow(w)
    BY <2>3, <2>6, <1>s DEF Commit, CommitRow, WriteOcc
  <2>7. CASE HandlerDrop(w) \/ HandlerTimeout(w) \/ Regrant(w) \/ RegrantFail(w) \/ VimOk(w) \/ VimFail(w)
    BY <2>7 DEF HandlerDrop, HandlerTimeout, Regrant, RegrantFail, VimOk, VimFail
  <2> QED
    BY <1>3, <2>4, <2>5, <2>6, <2>7 DEF WorkerStep
<1>4. ASSUME NEW w \in Workers, NEW i \in Insts, NEW op \in AutoOps, NEW o \in Occs, AutoStart(w, i, op, o)
      PROVE  OccNew
  <2>1. op \in Ops
    BY EnvAssumption DEF Ops
  <2> QED
    BY <1>4, <2>1 DEF AutoStart, FreshOcc, OccNew
<1>5. ASSUME NEW o \in Occs, RecoverOcc(o) PROVE OccWrite
  <2>1. After(boot.phase) \in OpStates \ {"NONE", "STARTING"}
    BY DEF After, OpStates, EndStates
  <2>2. Stored(o)
    BY <1>5 DEF RecoverOcc, RefInv
  <2> QED
    BY <1>5, <2>1, <2>2 DEF RecoverOcc, OccWrite
<1>6. CASE UNCHANGED vars
  BY <1>6 DEF vars
<1>7. ASSUME NEW i \in Insts, Create(i) \/ SyncList(i) \/ \E l \in 0..(MaxLevel + 1) : VimDrift(i, l)
      PROVE  UNCHANGED lcmocc
  BY <1>7 DEF Create, SyncList, VimDrift
<1>8. ASSUME NEW w \in Workers, NEW m \in Methods, NEW o \in Occs, ReceiveCast(w, m, o)
      PROVE  UNCHANGED lcmocc
  BY <1>8 DEF ReceiveCast
<1>9. ASSUME NEW o \in Occs, RecoverAbort(o) PROVE UNCHANGED lcmocc
  BY <1>9 DEF RecoverAbort
<1>10. CASE ConductorCrash \/ ConductorStart \/ RecoverNext \/ SyncStep
  BY <1>10 DEF ConductorCrash, ConductorStart, RecoverNext, SyncStep, SyncLock, SyncSkip, SyncCommit
<1> QED
  BY <1>1, <1>2, <1>3, <1>4, <1>5, <1>6, <1>7, <1>8, <1>9, <1>10 DEF Next, BootStep

\* Hence a row is kept, a new row is complete, and the identifier of a request
\* that has not stored its lcmocc yet stays unused.
LEMMA OccStep ==
    ASSUME IInv, [Next]_vars
    PROVE  /\ OccKept
           /\ \A o \in Occs : lcmocc'[o].state # "NONE" => Stored(o)'
           /\ \A a \in Apis : api[a].pc = "checked" /\ api'[a].pc = "checked"
                                 => lcmocc'[api[a].occ].state = "NONE"
<1> USE DEF IInv, TypeOK
<1>1. CASE UNCHANGED lcmocc
  BY <1>1 DEF OccKept, Stored, RefInv, ApiRef
<1>2. CASE OccWrite
  <2>1. PICK o \in Occs, st \in OpStates \ {"NONE", "STARTING"} : Stored(o) /\ update_lcmocc_status(o, st)
    BY <1>2 DEF OccWrite
  <2>2. lcmocc' = [lcmocc EXCEPT ![o] = [lcmocc[o] EXCEPT !.state = st]]
    BY <2>1 DEF update_lcmocc_status
  <2>3. \A p \in Occs : /\ lcmocc'[p].inst = lcmocc[p].inst
                        /\ lcmocc'[p].op = lcmocc[p].op
                        /\ (lcmocc'[p].state = "NONE") = (lcmocc[p].state = "NONE")
    BY <2>1, <2>2 DEF OccRow, Stored
  <2> QED
    BY <2>3 DEF OccKept, Stored, RefInv, ApiRef
<1>3. CASE OccNew
  <2>1. PICK o \in Occs, i \in Insts, op \in Ops :
           /\ lcmocc[o].state = "NONE"
           /\ new_lcmocc(o, i, op)
           /\ \A a \in Apis : api[a].pc = "checked" /\ api[a].occ = o => api'[a].pc # "checked"
    BY <1>3 DEF OccNew
  <2>2. \A p \in Occs : p # o => lcmocc'[p] = lcmocc[p]
    BY <2>1 DEF new_lcmocc
  <2>3. lcmocc'[o].inst = i /\ lcmocc'[o].state # "NONE"
    BY <2>1 DEF new_lcmocc
  <2> QED
    BY <2>1, <2>2, <2>3 DEF OccKept, Stored, RefInv, ApiRef
<1> QED
  BY <1>1, <1>2, <1>3, OccCases

----------------------------------------------------------------------------
(* RefInv: each of its parts is disturbed by the steps of one actor.        *)

\* The request threads change by their own steps only.
LEMMA ApiCases ==
    ASSUME TypeOK, [Next]_vars
    PROVE  \/ UNCHANGED api
           \/ \E b \in Apis : /\ Client(b) \/ ApiStep(b) \/ ApiCrash(b)
                             /\ \A a \in Apis : a # b => api'[a] = api[a]
<1>1. ASSUME NEW b \in Apis, Client(b) \/ ApiStep(b) \/ ApiCrash(b), NEW a \in Apis, a # b
      PROVE  api'[a] = api[a]
  <2>1. CASE Client(b)
    BY <1>1, <2>1 DEF Client, DeleteAccept, RequestAccept, ErrRead, TypeOK
  <2>2. CASE ApiStep(b) \/ ApiCrash(b)
    BY <1>1, <2>2 DEF ApiStep, ApiCrash, DeleteCommit, RequestCreate, RequestCast, RequestRelease, ErrLock,
                      ErrReject, FailCommit, FailGrants, Goto, Return, TypeOK
  <2> QED
    BY <1>1, <2>1, <2>2
<1>2. CASE \E b \in Apis : Client(b) \/ ApiStep(b) \/ ApiCrash(b)
  BY <1>1, <1>2
<1>3. CASE ~\E b \in Apis : Client(b) \/ ApiStep(b) \/ ApiCrash(b)
  <2>1. ASSUME NEW w \in Workers, WorkerStep(w) PROVE UNCHANGED api
    BY <2>1 DEF WorkerStep, HandlerBegin, HandlerDrop, HandlerTimeout, GrantSave, GrantProcessing, GrantFail,
           Regrant, RegrantFail, VimOk, VimFail, Commit, CommitRow, Abort
  <2> QED
    BY <1>3, <2>1 DEF Next, vars, Create, ReceiveCast, AutoStart, ConductorCrash, BootStep, ConductorStart,
       RecoverOcc, RecoverAbort, RecoverNext, SyncList, VimDrift, SyncStep, SyncLock, SyncSkip, SyncCommit
<1> QED
  BY <1>2, <1>3

\* What a request thread refers to exists.
LEMMA ApiRefStep ==
    ASSUME IInv, [Next]_vars, NEW a \in Apis
    PROVE  ApiRef(a)'
<1> USE DEF IInv
<1>k. OccKept /\ (api[a].pc = "checked" /\ api'[a].pc = "checked" => lcmocc'[api[a].occ].state = "NONE")
  BY OccStep
<1>1. CASE api'[a] = api[a]
  BY <1>1, <1>k DEF ApiRef, RefInv, OccKept
<1>2. CASE api'[a] = IdleApi
  BY <1>2 DEF ApiRef, IdleApi
<1>3. CASE Client(a)
  <2>1. ASSUME NEW i \in Insts, DeleteAccept(a, i) PROVE ApiRef(a)'
    BY <2>1 DEF DeleteAccept, ApiRef, TypeOK
  <2>2. ASSUME NEW i \in Insts, NEW op \in ClientOps, NEW o \in Occs, RequestAccept(a, i, op, o)
        PROVE  ApiRef(a)'
    BY <2>2, EnvAssumption DEF RequestAccept, FreshOcc, ApiRef, TypeOK
  <2>3. ASSUME NEW o \in Occs, NEW kind \in ErrKinds, ErrRead(a, o, kind) PROVE ApiRef(a)'
    <3>1. Stored(o)
      BY <2>3 DEF ErrRead, RefInv
    <3>2. api'[a] = [pc |-> "errread", req |-> kind, inst |-> lcmocc[o].inst, occ |-> o] /\ lcmocc' = lcmocc
      BY <2>3 DEF ErrRead, TypeOK
    <3> QED
      BY <3>1, <3>2 DEF ApiRef, Stored, ErrKinds
  <2> QED
    BY <1>3, <2>1, <2>2, <2>3 DEF Client
<1>4. CASE RequestCreate(a)
  <2>1. api[a].occ \in Occs /\ api[a].inst \in Insts
    BY <1>4 DEF RequestCreate, RefInv, ApiRef
  <2>2. /\ lcmocc'[api[a].occ].state # "NONE"
        /\ lcmocc'[api[a].occ].inst = api[a].inst
        /\ lcmocc'[api[a].occ].op = api[a].req
    BY <1>4, <2>1 DEF RequestCreate, new_lcmocc, TypeOK
  <2>3. api'[a] = [api[a] EXCEPT !.pc = "created"]
    BY <1>4 DEF RequestCreate, Goto, TypeOK
  <2> QED
    BY <2>1, <2>2, <2>3 DEF ApiRef, Stored, TypeOK, ApiThread
<1>5. CASE RequestCast(a) \/ ErrLock(a) \/ FailCommit(a)
  <2>1. CASE api'[a] = IdleApi
    BY <2>1, <1>2
  <2>2. CASE api'[a] # IdleApi
    <3>1. PICK pc \in {"created", "cast", "failing", "failed"} : api'[a] = [api[a] EXCEPT !.pc = pc]
      BY <1>5, <2>2 DEF RequestCast, ErrLock, FailCommit, Goto, Return, TypeOK
    <3>2. api[a].pc \in {"errread", "created", "failing"} /\ (pc = "created" => api[a].pc = "errread")
      BY <1>5, <3>1, <2>2 DEF RequestCast, ErrLock, FailCommit, Goto, Return, TypeOK, ApiThread
    <3>3. /\ api'[a].pc = pc /\ api'[a].req = api[a].req
          /\ api'[a].inst = api[a].inst /\ api'[a].occ = api[a].occ
      BY <3>1 DEF TypeOK, ApiThread
    <3>4. /\ api[a].inst \in Insts /\ api[a].occ \in Occs
          /\ Stored(api[a].occ)' /\ lcmocc'[api[a].occ].inst = api[a].inst
          /\ pc = "created" => api[a].req # "MODIFY_INFO"
      BY <3>1, <3>2, <1>k DEF ApiRef, RefInv, OccKept
    <3> QED
      BY <3>1, <3>3, <3>4 DEF ApiRef, Stored
  <2> QED
    BY <2>1, <2>2
<1>6. CASE DeleteCommit(a) \/ RequestRelease(a) \/ ErrReject(a) \/ FailGrants(a) \/ ApiCrash(a)
  <2>1. api'[a] = IdleApi
    BY <1>6 DEF DeleteCommit, RequestRelease, ErrReject, FailGrants, ApiCrash, Return, TypeOK
  <2> QED
    BY <1>2, <2>1
<1> QED
  BY <1>1, <1>3, <1>4, <1>5, <1>6, ApiCases DEF ApiStep

\* No other request has the identifier of an lcmocc that is not stored yet.
LEMMA OccApartStep ==
    ASSUME IInv, [Next]_vars, NEW a \in Apis, NEW b \in Apis
    PROVE  OccApart(a, b)'
<1> USE DEF IInv
<1> SUFFICES ASSUME a # b, api'[a].pc = "checked", api'[b].pc # "idle"
             PROVE  api'[a].occ # api'[b].occ
  BY DEF OccApart
<1>1. CASE UNCHANGED api
  BY <1>1 DEF RefInv, OccApart
<1>2. ASSUME NEW c \in Apis, Client(c) PROVE api'[a].occ # api'[b].occ
  <2>1. ASSUME NEW i \in Insts, DeleteAccept(c, i) PROVE api'[a].occ # api'[b].occ
    BY <2>1, OccsAssumption DEF DeleteAccept, RefInv, OccApart, ApiRef, TypeOK
  <2>2. ASSUME NEW i \in Insts, NEW op \in ClientOps, NEW o \in Occs, RequestAccept(c, i, op, o)
        PROVE  api'[a].occ # api'[b].occ
    BY <2>2 DEF RequestAccept, FreshOcc, RefInv, OccApart, TypeOK
  <2>3. ASSUME NEW o \in Occs, NEW kind \in ErrKinds, ErrRead(c, o, kind) PROVE api'[a].occ # api'[b].occ
    BY <2>3 DEF ErrRead, RefInv, OccApart, ApiRef, TypeOK
  <2> QED
    BY <1>2, <2>1, <2>2, <2>3 DEF Client
<1>3. ASSUME NEW c \in Apis, ApiStep(c) \/ ApiCrash(c) PROVE api'[a].occ # api'[b].occ
  <2>1. \/ api'[c] = IdleApi
        \/ \E pc \in {"created", "cast", "failing", "failed"} : api'[c] = [api[c] EXCEPT !.pc = pc]
    BY <1>3 DEF ApiStep, ApiCrash, DeleteCommit, RequestCreate, RequestCast, RequestRelease, ErrLock,
                ErrReject, FailCommit, FailGrants, Goto, Return, TypeOK
  <2>2. api[c].pc # "idle"
    BY <1>3 DEF ApiStep, ApiCrash, DeleteCommit, RequestCreate, RequestCast, RequestRelease, ErrLock,
                ErrReject, FailCommit, FailGrants
  <2>3. \A d \in Apis : d # c => api'[d] = api[d]
    BY <1>3 DEF ApiStep, ApiCrash, DeleteCommit, RequestCreate, RequestCast, RequestRelease, ErrLock,
                ErrReject, FailCommit, FailGrants, Goto, Return, TypeOK
  <2>4. a # c
    BY <2>1 DEF IdleApi, TypeOK, ApiThread
  <2>5. api'[b].occ = api[b].occ /\ api[b].pc # "idle"
    BY <2>1, <2>2, <2>3 DEF IdleApi, TypeOK, ApiThread
  <2> QED
    BY <2>3, <2>4, <2>5 DEF RefInv, OccApart
<1> QED
  BY <1>1, <1>2, <1>3, ApiCases

\* Only casts put messages in the queue.
LEMMA QueueRefStep ==
    ASSUME IInv, [Next]_vars, NEW m \in Methods, NEW o \in Occs
    PROVE  QueueRef(m, o)'
<1> USE DEF IInv
<1>k. OccKept
  BY OccStep
<1>1. CASE queue'[m][o] <= queue[m][o]
  <2>1. queue[m][o] \in Nat /\ queue'[m][o] \in Nat
    BY TypeStep DEF TypeOK
  <2> QED
    BY <1>1, <1>k, <2>1 DEF QueueRef, RefInv, OccKept
<1>2. ASSUME NEW a \in Apis, RequestCast(a) PROVE QueueRef(m, o)'
  <2>1. api[a].occ \in Occs /\ Stored(api[a].occ) /\ (api[a].req = "MODIFY_INFO" => lcmocc[api[a].occ].op = "MODIFY_INFO")
    BY <1>2 DEF RequestCast, RefInv, ApiRef
  <2>2. MethodOf(api[a].req) \in Methods /\ (MethodOf(api[a].req) = "modify_vnfinfo" => api[a].req = "MODIFY_INFO")
    BY DEF MethodOf, Methods
  <2>3. CASE m = MethodOf(api[a].req) /\ o = api[a].occ
    BY <1>k, <2>1, <2>2, <2>3 DEF QueueRef, OccKept
  <2>4. CASE ~(m = MethodOf(api[a].req) /\ o = api[a].occ)
    <3>1. queue'[m][o] = queue[m][o]
      BY <1>2, <2>1, <2>2, <2>4 DEF RequestCast, TypeOK
    <3> QED
      BY <1>1, <3>1 DEF TypeOK
  <2> QED
    BY <2>3, <2>4
<1>3. ASSUME NEW w \in Workers, NEW n \in Methods, NEW p \in Occs, ReceiveCast(w, n, p) PROVE QueueRef(m, o)'
  <2>1. queue'[m][o] <= queue[m][o]
    BY <1>3 DEF ReceiveCast, TypeOK
  <2> QED
    BY <1>1, <2>1
<1>4. CASE UNCHANGED queue
  BY <1>1, <1>4 DEF TypeOK
<1>5. ASSUME NEW w \in Workers, WorkerStep(w) PROVE UNCHANGED queue
  BY <1>5 DEF WorkerStep, HandlerBegin, HandlerDrop, HandlerTimeout, GrantSave, GrantProcessing, GrantFail,
         Regrant, RegrantFail, VimOk, VimFail, Commit, CommitRow, Abort
<1>6. ASSUME NEW a \in Apis, Client(a) \/ ApiStep(a) \/ ApiCrash(a), ~RequestCast(a) PROVE UNCHANGED queue
  BY <1>6 DEF Client, DeleteAccept, RequestAccept, ErrRead, ApiStep, ApiCrash, DeleteCommit, RequestCreate,
         RequestRelease, ErrLock, ErrReject, FailCommit, FailGrants
<1>7. \/ UNCHANGED queue
      \/ \E a \in Apis : RequestCast(a)
      \/ \E w \in Workers, n \in Methods, p \in Occs : ReceiveCast(w, n, p)
  BY <1>5, <1>6 DEF Next, vars, Create, AutoStart, ConductorCrash, BootStep, ConductorStart, RecoverOcc,
     RecoverAbort, RecoverNext, SyncList, VimDrift, SyncStep, SyncLock, SyncSkip, SyncCommit
<1> QED
  BY <1>2, <1>3, <1>4, <1>7

\* The handler threads change by a message, an automatic start, their own steps
\* and the death of the process.
LEMMA WorkerCases ==
    ASSUME TypeOK, [Next]_vars
    PROVE  \/ UNCHANGED wk
           \/ ConductorCrash
           \/ \E w \in Workers :
                 /\ \/ WorkerStep(w)
                    \/ \E m \in Methods, o \in Occs : ReceiveCast(w, m, o)
                    \/ \E i \in Insts, op \in AutoOps, o \in Occs : AutoStart(w, i, op, o)
                 /\ \A v \in Workers : v # w => wk'[v] = wk[v]
<1>1. ASSUME NEW w \in Workers, WorkerStep(w), NEW v \in Workers, v # w PROVE wk'[v] = wk[v]
  BY <1>1 DEF WorkerStep, HandlerBegin, HandlerDrop, HandlerTimeout, GrantSave, GrantProcessing, GrantFail,
         Regrant, RegrantFail, VimOk, VimFail, Commit, CommitRow, Abort, To, ToWith, Finish, TypeOK
<1>2. ASSUME NEW w \in Workers, NEW m \in Methods, NEW o \in Occs, ReceiveCast(w, m, o),
             NEW v \in Workers, v # w
      PROVE  wk'[v] = wk[v]
  BY <1>2 DEF ReceiveCast, TypeOK
<1>3. ASSUME NEW w \in Workers, NEW i \in Insts, NEW op \in AutoOps, NEW o \in Occs, AutoStart(w, i, op, o),
             NEW v \in Workers, v # w
      PROVE  wk'[v] = wk[v]
  BY <1>3 DEF AutoStart, TypeOK
<1>4. ASSUME NEW a \in Apis, Client(a) \/ ApiStep(a) \/ ApiCrash(a) PROVE UNCHANGED wk
  BY <1>4 DEF Client, DeleteAccept, RequestAccept, ErrRead, ApiStep, ApiCrash, DeleteCommit, RequestCreate,
         RequestCast, RequestRelease, ErrLock, ErrReject, FailCommit, FailGrants
<1>5. CASE UNCHANGED wk \/ ConductorCrash
  BY <1>5
<1>6. CASE BootStep \/ SyncStep \/ UNCHANGED vars
  <2>1. UNCHANGED wk
    BY <1>6 DEF vars, BootStep, ConductorStart, RecoverOcc, RecoverAbort, RecoverNext, SyncStep, SyncLock,
                SyncSkip, SyncCommit
  <2> QED
    BY <2>1
<1>7. ASSUME NEW i \in Insts, Create(i) \/ SyncList(i) \/ \E l \in 0..(MaxLevel + 1) : VimDrift(i, l)
      PROVE  UNCHANGED wk
  BY <1>7 DEF Create, SyncList, VimDrift
<1>8. \/ UNCHANGED wk
      \/ ConductorCrash
      \/ BootStep \/ SyncStep \/ UNCHANGED vars
      \/ \E w \in Workers :
            \/ \E m \in Methods, o \in Occs : ReceiveCast(w, m, o)
            \/ \E i \in Insts, op \in AutoOps, o \in Occs : AutoStart(w, i, op, o)
            \/ WorkerStep(w)
  BY <1>4, <1>7 DEF Next
<1> QED
  BY <1>1, <1>2, <1>3, <1>5, <1>6, <1>8

\* What a handler refers to exists.
LEMMA WorkerRefStep ==
    ASSUME IInv, [Next]_vars, NEW w \in Workers
    PROVE  WorkerRef(w)'
<1> USE DEF IInv
<1>k. OccKept
  BY OccStep
<1>1. CASE wk'[w] = wk[w]
  BY <1>1, <1>k DEF WorkerRef, RefInv, OccKept
<1>2. CASE wk'[w] = IdleWorker
  BY <1>2 DEF WorkerRef, IdleWorker
<1>3. CASE WorkerStep(w)
  <2>1. \/ wk'[w] = IdleWorker
        \/ wk'[w].occ = wk[w].occ /\ wk'[w].method = wk[w].method
    BY <1>3 DEF WorkerStep, HandlerBegin, HandlerDrop, HandlerTimeout, GrantSave, GrantProcessing, GrantFail,
           Regrant, RegrantFail, VimOk, VimFail, Commit, CommitRow, Abort, To, ToWith, Finish, TypeOK, Worker
  <2>2. wk[w].pc # "idle"
    BY <1>3 DEF WorkerStep, HandlerBegin, HandlerDrop, HandlerTimeout, GrantSave, GrantProcessing, GrantFail,
           Regrant, RegrantFail, VimOk, VimEffect, VimFail, Commit, CommitRow, Abort
  <2> QED
    BY <1>2, <1>k, <2>1, <2>2 DEF WorkerRef, RefInv, OccKept
<1>4. ASSUME NEW m \in Methods, NEW o \in Occs, ReceiveCast(w, m, o) PROVE WorkerRef(w)'
  <2>1. QueueRef(m, o) /\ queue[m][o] > 0
    BY <1>4 DEF ReceiveCast, RefInv
  <2>2. wk'[w].occ = o /\ wk'[w].method = m
    BY <1>4 DEF ReceiveCast, TypeOK
  <2> QED
    BY <1>k, <2>1, <2>2 DEF QueueRef, WorkerRef, OccKept
<1>5. ASSUME NEW i \in Insts, NEW op \in AutoOps, NEW o \in Occs, AutoStart(w, i, op, o) PROVE WorkerRef(w)'
  <2>1. wk'[w].occ = o /\ wk'[w].method = "start_lcm_op"
    BY <1>5 DEF AutoStart, TypeOK
  <2>2. lcmocc'[o].state # "NONE" /\ lcmocc'[o].inst = i
    BY <1>5 DEF AutoStart, new_lcmocc, TypeOK
  <2> QED
    BY <2>1, <2>2 DEF WorkerRef, Stored, Methods
<1>6. CASE ConductorCrash
  BY <1>2, <1>6 DEF ConductorCrash
<1> QED
  BY <1>1, <1>3, <1>4, <1>5, <1>6, WorkerCases

\* The synchronization changes by its own steps only.
LEMMA SyncCases ==
    ASSUME [Next]_vars
    PROVE  UNCHANGED sync \/ SyncStep \/ ConductorCrash \/ \E i \in Insts : SyncList(i)
<1>1. ASSUME NEW a \in Apis, Client(a) \/ ApiStep(a) \/ ApiCrash(a) PROVE UNCHANGED sync
  BY <1>1 DEF Client, DeleteAccept, RequestAccept, ErrRead, ApiStep, ApiCrash, DeleteCommit, RequestCreate,
         RequestCast, RequestRelease, ErrLock, ErrReject, FailCommit, FailGrants
<1>2. ASSUME NEW w \in Workers, WorkerStep(w) PROVE UNCHANGED sync
  BY <1>2 DEF WorkerStep, HandlerBegin, HandlerDrop, HandlerTimeout, GrantSave, GrantProcessing, GrantFail,
         Regrant, RegrantFail, VimOk, VimFail, Commit, CommitRow, Abort
<1> QED
  BY <1>1, <1>2 DEF Next, vars, Create, ReceiveCast, AutoStart, BootStep, ConductorStart,
     RecoverOcc, RecoverAbort, RecoverNext, VimDrift

\* Nothing is referred to at the start.
LEMMA RefInit == Init => RefInv
  BY DEF Init, RefInv, ApiRef, OccApart, QueueRef, WorkerRef, Stored, IdleApi, IdleWorker, IdleSync, NotBooting, NoOccRow

\* RefInv is kept by every step.
LEMMA RefStep == IInv /\ [Next]_vars => RefInv'
<1> SUFFICES ASSUME IInv, [Next]_vars PROVE RefInv'
  OBVIOUS
<1> USE DEF IInv
<1>k. OccKept
  BY OccStep
<1>1. \A o \in boot'.todo : Stored(o)'
  <2>1. \A o \in Occs : lcmocc[o].state # "NONE" => Stored(o)'
    BY <1>k DEF RefInv, OccKept
  <2>2. CASE UNCHANGED boot
    BY <2>2, <1>k DEF RefInv, OccKept, TypeOK, Boot
  <2>3. CASE ConductorStart \/ RecoverNext
    BY <2>1, <2>3 DEF ConductorStart, RecoverNext, Listed, Before, NotBooting
  <2>4. ASSUME NEW o \in Occs, RecoverOcc(o) \/ RecoverAbort(o) PROVE \A p \in boot'.todo : Stored(p)'
    BY <1>k, <2>4 DEF RecoverOcc, RecoverAbort, NotBooting, RefInv, OccKept, TypeOK, Boot
  <2>5. CASE ConductorCrash
    BY <2>5 DEF ConductorCrash, NotBooting
  <2>6. ASSUME NEW a \in Apis, Client(a) \/ ApiStep(a) \/ ApiCrash(a) PROVE UNCHANGED boot
    BY <2>6 DEF Client, DeleteAccept, RequestAccept, ErrRead, ApiStep, ApiCrash, DeleteCommit, RequestCreate,
           RequestCast, RequestRelease, ErrLock, ErrReject, FailCommit, FailGrants
  <2>7. ASSUME NEW w \in Workers, WorkerStep(w) PROVE UNCHANGED boot
    BY <2>7 DEF WorkerStep, HandlerBegin, HandlerDrop, HandlerTimeout, GrantSave, GrantProcessing, GrantFail,
           Regrant, RegrantFail, VimOk, VimFail, Commit, CommitRow, Abort
  <2> QED
    BY <2>2, <2>3, <2>4, <2>5, <2>6, <2>7 DEF Next, vars, Create, ReceiveCast, AutoStart, BootStep, SyncList,
       VimDrift, SyncStep, SyncLock, SyncSkip, SyncCommit
<1>2. sync'.pc # "idle" => sync'.inst \in Insts
  <2>1. CASE SyncLock
    BY <2>1 DEF SyncLock, RefInv, TypeOK, SyncThread
  <2>2. CASE SyncSkip \/ SyncCommit \/ ConductorCrash
    BY <2>2 DEF SyncSkip, SyncCommit, ConductorCrash, IdleSync
  <2>3. CASE UNCHANGED sync
    BY <2>3 DEF RefInv
  <2>4. CASE \E i \in Insts : SyncList(i)
    BY <2>4 DEF SyncList
  <2> QED
    BY <2>1, <2>2, <2>3, <2>4, SyncCases DEF SyncStep
<1> QED
  BY <1>1, <1>2, ApiRefStep, OccApartStep, QueueRefStep, WorkerRefStep, OccStep DEF RefInv

----------------------------------------------------------------------------
(* LockInv.                                                                *)

\* The handler threads, the request threads and the synchronization are apart.
LEMMA Names ==
    /\ \A w \in Workers : w \notin Apis /\ w # SyncTask /\ w # Nobody
    /\ \A a \in Apis : a \notin Workers /\ a # SyncTask /\ a # Nobody
    /\ SyncTask # Nobody
  BY NamesAssumption DEF SyncTask, Nobody

\* lock_vnf_instance: the lock is released by its holder only, who is done.
LEMMA LockMoves ==
    ASSUME IInv, [Next]_vars, NEW i \in Insts, lock[i] # Nobody
    PROVE  \/ lock'[i] = lock[i]
           \/ lock[i] \in Workers /\ wk'[lock[i]] = IdleWorker
           \/ lock[i] \in Apis /\ api'[lock[i]] = IdleApi
           \/ lock[i] = SyncTask /\ sync' = IdleSync
<1> USE DEF IInv
<1>1. ASSUME NEW w \in Workers, wk[w].pc \in CritPcs, Release(InstOf(w)), Finish(w)
      PROVE  lock'[i] = lock[i] \/ (lock[i] \in Workers /\ wk'[lock[i]] = IdleWorker)
  <2>1. lock[InstOf(w)] = w
    BY <1>1 DEF LockInv
  <2> QED
    BY <1>1, <2>1 DEF Release, Finish, TypeOK
<1>2. ASSUME NEW a \in Apis, Holds(a), Release(api[a].inst), Return(a)
      PROVE  lock'[i] = lock[i] \/ (lock[i] \in Apis /\ api'[lock[i]] = IdleApi)
  <2>1. lock[api[a].inst] = a
    BY <1>2 DEF LockInv
  <2> QED
    BY <1>2, <2>1 DEF Release, Return, TypeOK
<1>3. ASSUME NEW j \in Insts, NEW t, Acquire(j, t) PROVE lock'[i] = lock[i]
  BY <1>3 DEF Acquire, TypeOK
<1>4. ASSUME NEW a \in Apis, Client(a)
      PROVE  lock'[i] = lock[i]
  BY <1>3, <1>4 DEF Client, DeleteAccept, RequestAccept, RequestLock, ErrRead
<1>5. ASSUME NEW a \in Apis, ApiStep(a) \/ ApiCrash(a)
      PROVE  lock'[i] = lock[i] \/ (lock[i] \in Apis /\ api'[lock[i]] = IdleApi)
  <2>1. CASE DeleteCommit(a) \/ RequestRelease(a) \/ FailGrants(a)
    BY <1>2, <2>1 DEF DeleteCommit, RequestRelease, FailGrants, Holds
  <2>2. CASE FailCommit(a)
    BY <1>2, <2>2 DEF FailCommit, Holds
  <2>3. CASE ErrLock(a)
    <3>1. api[a].inst \in Insts
      BY <2>3 DEF ErrLock, RefInv, ApiRef
    <3> QED
      BY <1>3, <2>3, <3>1 DEF ErrLock
  <2>4. CASE RequestCreate(a) \/ RequestCast(a) \/ ErrReject(a)
    BY <2>4 DEF RequestCreate, RequestCast, ErrReject
  <2>5. CASE ApiCrash(a)
    BY <2>5 DEF ApiCrash, ReleaseAll, Return, TypeOK
  <2> QED
    BY <1>5, <2>1, <2>2, <2>3, <2>4, <2>5 DEF ApiStep
<1>6. ASSUME NEW w \in Workers, WorkerStep(w)
      PROVE  lock'[i] = lock[i] \/ (lock[i] \in Workers /\ wk'[lock[i]] = IdleWorker)
  <2>1. CASE HandlerBegin(w)
    <3>1. InstOf(w) \in Insts
      BY <2>1, WorkerFacts DEF HandlerBegin
    <3> QED
      BY <1>3, <2>1, <3>1 DEF HandlerBegin, HandlerLock
  <2>2. CASE GrantFail(w) \/ Commit(w) \/ Abort(w)
    BY <1>1, <2>2 DEF GrantFail, Commit, Abort, CritPcs
  <2>3. CASE CommitRow(w)
    BY <1>1, <2>3 DEF CommitRow, CritPcs
  <2>4. CASE \/ HandlerDrop(w) \/ HandlerTimeout(w) \/ GrantSave(w) \/ GrantProcessing(w)
             \/ Regrant(w) \/ RegrantFail(w) \/ VimOk(w) \/ VimFail(w)
    BY <2>4 DEF HandlerDrop, HandlerTimeout, GrantSave, GrantProcessing, Regrant, RegrantFail, VimOk, VimFail
  <2> QED
    BY <1>6, <2>1, <2>2, <2>3, <2>4 DEF WorkerStep
<1>7. CASE ConductorCrash
  BY <1>7 DEF ConductorCrash, ReleaseAll, TypeOK
<1>8. CASE SyncStep
  <2>1. CASE SyncLock
    BY <1>3, <2>1 DEF SyncLock, RefInv
  <2>2. CASE SyncCommit
    BY <2>2 DEF SyncCommit, Release, LockInv, TypeOK
  <2>3. CASE SyncSkip
    BY <2>3 DEF SyncSkip
  <2> QED
    BY <1>8, <2>1, <2>2, <2>3 DEF SyncStep
<1>9. CASE BootStep \/ UNCHANGED vars
  BY <1>9 DEF BootStep, ConductorStart, RecoverOcc, RecoverAbort, RecoverNext, vars
<1>10. ASSUME NEW j \in Insts, Create(j) \/ SyncList(j) \/ \E l \in 0..(MaxLevel + 1) : VimDrift(j, l)
       PROVE  lock'[i] = lock[i]
  BY <1>10 DEF Create, SyncList, VimDrift
<1>11. ASSUME NEW w \in Workers,
              \/ \E m \in Methods, o \in Occs : ReceiveCast(w, m, o)
              \/ \E j \in Insts, op \in AutoOps, o \in Occs : AutoStart(w, j, op, o)
       PROVE  lock'[i] = lock[i]
  BY <1>11 DEF ReceiveCast, AutoStart
<1> QED
  BY <1>4, <1>5, <1>6, <1>7, <1>8, <1>9, <1>10, <1>11 DEF Next

\* Nothing is locked at the start.
LEMMA LockInit == Init => LockInv
  BY DEF Init, LockInv, Holds, IdleApi, IdleWorker, IdleSync, CritPcs

\* The lock of a handler at work.
LEMMA WorkerLockStep ==
    ASSUME IInv, [Next]_vars, NEW w \in Workers, wk'[w].pc \in CritPcs
    PROVE  lock'[InstOf(w)'] = w
<1> USE DEF IInv
<1>k. OccKept
  BY OccStep
<1>1. CASE wk[w].pc \in CritPcs /\ wk'[w].occ = wk[w].occ
  <2>1. wk[w].pc # "idle" /\ wk'[w] # IdleWorker
    BY <1>1 DEF CritPcs, IdleWorker
  <2>2. InstOf(w) \in Insts /\ Stored(wk[w].occ) /\ wk[w].occ \in Occs
    BY <2>1, WorkerFacts
  <2>3. InstOf(w)' = InstOf(w)
    BY <1>1, <1>k, <2>2 DEF InstOf, OccKept
  <2>4. lock[InstOf(w)] = w
    BY <1>1 DEF LockInv
  <2> QED
    BY <2>1, <2>2, <2>3, <2>4, LockMoves, Names
<1>2. CASE wk'[w] = wk[w]
  BY <1>1, <1>2
<1>3. CASE WorkerStep(w)
  <2>1. CASE HandlerBegin(w)
    <3>1. wk[w].pc # "idle"
      BY <2>1 DEF HandlerBegin
    <3>2. InstOf(w) \in Insts /\ Stored(wk[w].occ) /\ wk[w].occ \in Occs
      BY <3>1, WorkerFacts
    <3>3. wk'[w].occ = wk[w].occ
      BY <2>1 DEF HandlerBegin, ToWith, TypeOK, Worker
    <3>4. InstOf(w)' = InstOf(w)
      BY <1>k, <3>2, <3>3 DEF InstOf, OccKept
    <3> QED
      BY <2>1, <3>2, <3>4 DEF HandlerBegin, HandlerLock, Acquire, TypeOK
  <2>2. CASE ~HandlerBegin(w)
    <3>1. wk'[w] # IdleWorker
      BY DEF IdleWorker, CritPcs
    <3>2. wk[w].pc \in CritPcs
      BY <1>3, <2>2, <3>1 DEF WorkerStep, HandlerDrop, HandlerTimeout, GrantSave, GrantProcessing, GrantFail,
         Regrant, RegrantFail, VimOk, VimEffect, VimFail, Commit, CommitRow, Abort, Finish, CritPcs, TypeOK
    <3>3. wk'[w].occ = wk[w].occ
      BY <1>3, <2>2, <3>1 DEF WorkerStep, HandlerDrop, HandlerTimeout, GrantSave, GrantProcessing, GrantFail,
         Regrant, RegrantFail, VimOk, VimFail, Commit, CommitRow, Abort, Finish, To, ToWith, TypeOK, Worker
    <3> QED
      BY <1>1, <3>2, <3>3
  <2> QED
    BY <2>1, <2>2
<1>4. CASE \/ \E m \in Methods, o \in Occs : ReceiveCast(w, m, o)
           \/ \E i \in Insts, op \in AutoOps, o \in Occs : AutoStart(w, i, op, o)
  BY <1>4 DEF ReceiveCast, AutoStart, TypeOK, CritPcs
<1>5. CASE ConductorCrash
  BY <1>5 DEF ConductorCrash, IdleWorker, CritPcs
<1> QED
  BY <1>2, <1>3, <1>4, <1>5, WorkerCases

\* The lock of a request that is being worked on.
LEMMA ApiLockStep ==
    ASSUME IInv, [Next]_vars, NEW a \in Apis, Holds(a)'
    PROVE  lock'[api'[a].inst] = a
<1> USE DEF IInv
<1>1. CASE Holds(a) /\ api'[a].inst = api[a].inst
  <2>1. api[a].pc # "idle" /\ api'[a] # IdleApi
    BY <1>1 DEF Holds, IdleApi
  <2>2. api[a].inst \in Insts
    BY <2>1 DEF RefInv, ApiRef
  <2>3. lock[api[a].inst] = a
    BY <1>1 DEF LockInv
  <2> QED
    BY <1>1, <2>1, <2>2, <2>3, LockMoves, Names
<1>2. CASE api'[a] = api[a]
  BY <1>1, <1>2 DEF Holds
<1>3. CASE Client(a)
  <2>1. ASSUME NEW i \in Insts, DeleteAccept(a, i) PROVE lock'[api'[a].inst] = a
    BY <2>1 DEF DeleteAccept, Acquire, TypeOK
  <2>2. ASSUME NEW i \in Insts, NEW op \in ClientOps, NEW o \in Occs, RequestAccept(a, i, op, o)
        PROVE  lock'[api'[a].inst] = a
    BY <2>2 DEF RequestAccept, RequestLock, Acquire, Holds, TypeOK
  <2>3. ASSUME NEW o \in Occs, NEW kind \in ErrKinds, ErrRead(a, o, kind) PROVE FALSE
    BY <2>3 DEF ErrRead, Holds, TypeOK
  <2> QED
    BY <1>3, <2>1, <2>2, <2>3 DEF Client
<1>4. CASE ErrLock(a)
  <2>1. api[a].inst \in Insts /\ api'[a].inst = api[a].inst
    BY <1>4 DEF ErrLock, RefInv, ApiRef, Goto, TypeOK, ApiThread
  <2> QED
    BY <1>4, <2>1 DEF ErrLock, Acquire, TypeOK
<1>5. CASE RequestCreate(a) \/ RequestCast(a) \/ FailCommit(a)
  <2>1. api'[a] # IdleApi
    BY DEF Holds, IdleApi
  <2>2. PICK pc \in ApiPcs : api'[a] = [api[a] EXCEPT !.pc = pc]
    BY <1>5, <2>1 DEF RequestCreate, RequestCast, FailCommit, Goto, Return, TypeOK, ApiPcs
  <2>3. api'[a].inst = api[a].inst /\ api'[a].req = api[a].req
    BY <2>2 DEF TypeOK, ApiThread
  <2>4. Holds(a)
    BY <1>5, <2>1, <2>3 DEF RequestCreate, RequestCast, FailCommit, Goto, Return, Holds, TypeOK, ApiThread
  <2> QED
    BY <1>1, <2>3, <2>4
<1>6. CASE DeleteCommit(a) \/ RequestRelease(a) \/ ErrReject(a) \/ FailGrants(a) \/ ApiCrash(a)
  BY <1>6 DEF DeleteCommit, RequestRelease, ErrReject, FailGrants, ApiCrash, Return, TypeOK, IdleApi, Holds
<1> QED
  BY <1>2, <1>3, <1>4, <1>5, <1>6, ApiCases DEF ApiStep

\* The lock of the synchronization.
LEMMA SyncLockStep ==
    ASSUME IInv, [Next]_vars, sync'.pc = "locked"
    PROVE  lock'[sync'.inst] = SyncTask
<1> USE DEF IInv
<1>1. CASE UNCHANGED sync
  <2>1. sync.inst \in Insts /\ lock[sync.inst] = SyncTask /\ sync' # IdleSync
    BY <1>1 DEF RefInv, LockInv, IdleSync
  <2> QED
    BY <1>1, <2>1, LockMoves, Names
<1>2. CASE SyncLock
  <2>1. sync.inst \in Insts /\ sync'.inst = sync.inst
    BY <1>2 DEF SyncLock, RefInv, TypeOK, SyncThread
  <2> QED
    BY <1>2, <2>1 DEF SyncLock, Acquire, TypeOK
<1>3. CASE SyncSkip \/ SyncCommit \/ ConductorCrash \/ \E i \in Insts : SyncList(i)
  BY <1>3 DEF SyncSkip, SyncCommit, ConductorCrash, SyncList, IdleSync
<1> QED
  BY <1>1, <1>2, <1>3, SyncCases DEF SyncStep

\* LockInv is kept by every step.
LEMMA LockStep == IInv /\ [Next]_vars => LockInv'
  BY WorkerLockStep, ApiLockStep, SyncLockStep DEF LockInv

----------------------------------------------------------------------------
(* RowInv.                                                                 *)

\* Where a handler still has its copy of the instance row to write back.
RowPcs == {"granting", "granted", "regrant", "process", "rollback", "commit1"}

\* An instance row is written by a create request, or by the one who holds the
\* lock: a handler that has no copy to write back afterwards, a request, or
\* the synchronization, which is done then.
LEMMA InstMoves ==
    ASSUME IInv, [Next]_vars, NEW i \in Insts
    PROVE  \/ inst'[i] = inst[i]
           \/ inst[i].state = "ABSENT"
           \/ lock[i] \in Workers /\ wk'[lock[i]].pc \notin RowPcs
           \/ lock[i] \in Apis
           \/ lock[i] = SyncTask /\ sync' = IdleSync
<1> USE DEF IInv
<1>1. ASSUME NEW j \in Insts, Create(j) PROVE inst'[i] = inst[i] \/ inst[i].state = "ABSENT"
  BY <1>1 DEF Create, TypeOK
<1>2. ASSUME NEW a \in Apis, Client(a) \/ ApiStep(a) \/ ApiCrash(a)
      PROVE  inst'[i] = inst[i] \/ lock[i] \in Apis
  <2>1. CASE DeleteCommit(a)
    <3>1. lock[api[a].inst] = a
      BY <2>1 DEF DeleteCommit, LockInv, Holds
    <3> QED
      BY <2>1, <3>1 DEF DeleteCommit, TypeOK
  <2>2. CASE ~DeleteCommit(a)
    BY <1>2, <2>2 DEF Client, DeleteAccept, RequestAccept, ErrRead, ApiStep, ApiCrash, RequestCreate,
           RequestCast, RequestRelease, ErrLock, ErrReject, FailCommit, FailGrants
  <2> QED
    BY <2>1, <2>2
<1>3. ASSUME NEW w \in Workers, WorkerStep(w)
      PROVE  inst'[i] = inst[i] \/ (lock[i] \in Workers /\ wk'[lock[i]].pc \notin RowPcs)
  <2>1. CASE Commit(w) \/ CommitRow(w)
    <3>1. wk[w].pc \in CritPcs
      BY <2>1 DEF Commit, CommitRow, CritPcs
    <3>2. lock[InstOf(w)] = w
      BY <3>1 DEF LockInv
    <3>3. wk'[w].pc \notin RowPcs
      BY <2>1 DEF Commit, CommitRow, Finish, To, IdleWorker, RowPcs, TypeOK, Worker
    <3>4. WriteInst(w) \/ UNCHANGED inst
      BY <2>1 DEF Commit, CommitRow
    <3> QED
      BY <3>2, <3>3, <3>4 DEF WriteInst, TypeOK
  <2>2. CASE ~Commit(w) /\ ~CommitRow(w)
    BY <1>3, <2>2 DEF WorkerStep, HandlerBegin, HandlerDrop, HandlerTimeout, GrantSave, GrantProcessing,
           GrantFail, Regrant, RegrantFail, VimOk, VimFail, Abort
  <2> QED
    BY <2>1, <2>2
<1>4. CASE SyncStep
  <2>1. CASE SyncCommit
    BY <2>1 DEF SyncCommit, LockInv, TypeOK
  <2>2. CASE SyncLock \/ SyncSkip
    BY <2>2 DEF SyncLock, SyncSkip
  <2> QED
    BY <1>4, <2>1, <2>2 DEF SyncStep
<1>5. CASE BootStep \/ ConductorCrash \/ UNCHANGED vars
  BY <1>5 DEF BootStep, ConductorStart, RecoverOcc, RecoverAbort, RecoverNext, ConductorCrash, vars
<1>6. ASSUME NEW j \in Insts, SyncList(j) \/ \E l \in 0..(MaxLevel + 1) : VimDrift(j, l) PROVE UNCHANGED inst
  BY <1>6 DEF SyncList, VimDrift
<1>7. ASSUME NEW w \in Workers,
             \/ \E m \in Methods, o \in Occs : ReceiveCast(w, m, o)
             \/ \E j \in Insts, op \in AutoOps, o \in Occs : AutoStart(w, j, op, o)
      PROVE  UNCHANGED inst
  BY <1>7 DEF ReceiveCast, AutoStart
<1> QED
  BY <1>1, <1>2, <1>3, <1>4, <1>5, <1>6, <1>7 DEF Next

\* instantiate_post_grant done twice is instantiate_post_grant.
LEMMA PostGrantTwice ==
    ASSUME NEW row \in InstRow, NEW op
    PROVE  post_grant(post_grant(row, op), op) = post_grant(row, op)
  BY DEF post_grant, InstRow

\* No handler is at work and nothing is locked at the start.
LEMMA RowInit == Init => RowInv
  BY DEF Init, RowInv, NoLostUpdate, IdleWorker, IdleSync

\* The row of handler w, as the handler sees it and as the database has it.
RowKept(w) ==
    wk[w].pc \in RowPcs => /\ Exists(inst[InstOf(w)])
                           /\ post_grant(inst[InstOf(w)], Op(w)) = post_grant(wk[w].row, Op(w))

\* A handler's copy of the instance row stays what the database has.
LEMMA WorkerRowStep ==
    ASSUME IInv, [Next]_vars, NEW w \in Workers
    PROVE  RowKept(w)'
<1> SUFFICES ASSUME wk'[w].pc \in RowPcs
             PROVE  RowKept(w)'
  BY DEF RowKept
<1> USE DEF IInv
<1>k. OccKept
  BY OccStep
<1>1. ASSUME wk[w].pc \in RowPcs, wk'[w].occ = wk[w].occ,
             post_grant(wk'[w].row, Op(w)) = post_grant(wk[w].row, Op(w))
      PROVE  RowKept(w)'
  <2>1. wk[w].pc # "idle" /\ wk[w].pc \in CritPcs
    BY <1>1 DEF RowPcs, CritPcs
  <2>2. InstOf(w) \in Insts /\ Stored(wk[w].occ) /\ wk[w].occ \in Occs
    BY <2>1, WorkerFacts
  <2>3. InstOf(w)' = InstOf(w) /\ Op(w)' = Op(w)
    BY <1>1, <1>k, <2>2 DEF InstOf, Op, OccKept
  <2>4. lock[InstOf(w)] = w
    BY <2>1 DEF LockInv
  <2>5. Exists(inst[InstOf(w)]) /\ post_grant(inst[InstOf(w)], Op(w)) = post_grant(wk[w].row, Op(w))
    BY <1>1 DEF RowInv, NoLostUpdate, RowPcs
  <2>6. inst[InstOf(w)].state # "ABSENT"
    BY <2>5 DEF Exists
  <2>7. inst'[InstOf(w)] = inst[InstOf(w)]
    BY <2>2, <2>4, <2>6, InstMoves, Names
  <2> QED
    BY <1>1, <2>3, <2>5, <2>7 DEF RowKept
<1>2. CASE wk'[w] = wk[w]
  BY <1>1, <1>2
<1>3. CASE WorkerStep(w)
  <2>0. wk[w].pc # "idle"
    BY <1>3 DEF WorkerStep, HandlerBegin, HandlerDrop, HandlerTimeout, GrantSave, GrantProcessing, GrantFail,
           Regrant, RegrantFail, VimOk, VimEffect, VimFail, Commit, CommitRow, Abort
  <2>w. InstOf(w) \in Insts /\ Stored(wk[w].occ) /\ wk[w].occ \in Occs /\ wk[w].row \in InstRow
    BY <2>0, WorkerFacts
  <2>1. CASE HandlerBegin(w)
    <3>1. wk'[w].occ = wk[w].occ /\ wk'[w].row = inst[InstOf(w)]
      BY <2>1 DEF HandlerBegin, ToWith, TypeOK, Worker
    <3>2. InstOf(w)' = InstOf(w) /\ Op(w)' = Op(w)
      BY <1>k, <2>w, <3>1 DEF InstOf, Op, OccKept
    <3> QED
      BY <2>1, <3>1, <3>2 DEF HandlerBegin, RowKept
  <2>2. CASE GrantSave(w) \/ Regrant(w)
    <3>1. wk[w].pc \in RowPcs
      BY <2>2 DEF GrantSave, Regrant, RowPcs
    <3>2. wk'[w].occ = wk[w].occ /\ wk'[w].row = post_grant(wk[w].row, Op(w))
      BY <2>2 DEF GrantSave, Regrant, ToWith, TypeOK, Worker
    <3> QED
      BY <1>1, <2>w, <3>1, <3>2, PostGrantTwice
  <2>3. CASE GrantProcessing(w) \/ RegrantFail(w) \/ VimOk(w) \/ VimFail(w) \/ CommitRow(w)
    <3>1. wk'[w] # IdleWorker
      BY DEF IdleWorker, RowPcs
    <3>2. PICK pc \in CritPcs : To(w, pc)
      BY <2>3, <3>1 DEF GrantProcessing, RegrantFail, VimOk, VimFail, CommitRow, Finish, CritPcs, TypeOK
    <3>3. wk'[w].occ = wk[w].occ /\ wk'[w].row = wk[w].row
      BY <3>2 DEF To, TypeOK, Worker
    <3>4. wk[w].pc \in RowPcs
      BY <2>3, <3>2 DEF GrantProcessing, RegrantFail, VimOk, VimEffect, VimFail, CommitRow, Finish, To, RowPcs,
         TypeOK, Worker, IdleWorker
    <3> QED
      BY <1>1, <3>3, <3>4
  <2>4. CASE HandlerDrop(w) \/ HandlerTimeout(w) \/ GrantFail(w) \/ Commit(w) \/ Abort(w)
    BY <2>4 DEF HandlerDrop, HandlerTimeout, GrantFail, Commit, Abort, Finish, IdleWorker, RowPcs, TypeOK
  <2> QED
    BY <1>3, <2>1, <2>2, <2>3, <2>4 DEF WorkerStep
<1>4. CASE \/ \E m \in Methods, o \in Occs : ReceiveCast(w, m, o)
           \/ \E i \in Insts, op \in AutoOps, o \in Occs : AutoStart(w, i, op, o)
  BY <1>4 DEF ReceiveCast, AutoStart, TypeOK, RowPcs
<1>5. CASE ConductorCrash
  BY <1>5 DEF ConductorCrash, IdleWorker, RowPcs
<1> QED
  BY <1>2, <1>3, <1>4, <1>5, WorkerCases

\* The row the synchronization has read stays what the database has.
LEMMA SyncRowStep ==
    ASSUME IInv, [Next]_vars, sync'.pc = "locked"
    PROVE  sync'.row = inst'[sync'.inst] /\ Exists(inst'[sync'.inst])
<1> USE DEF IInv
<1>1. CASE UNCHANGED sync
  <2>1. sync.inst \in Insts /\ lock[sync.inst] = SyncTask /\ sync' # IdleSync
    BY <1>1 DEF RefInv, LockInv, IdleSync
  <2>2. sync.row = inst[sync.inst] /\ Exists(inst[sync.inst])
    BY <1>1 DEF RowInv, NoLostUpdate
  <2>3. inst'[sync.inst] = inst[sync.inst]
    BY <2>1, <2>2, InstMoves, Names DEF Exists
  <2> QED
    BY <1>1, <2>2, <2>3
<1>2. CASE SyncLock
  BY <1>2 DEF SyncLock, TypeOK, SyncThread, Exists
<1>3. CASE SyncSkip \/ SyncCommit \/ ConductorCrash \/ \E i \in Insts : SyncList(i)
  BY <1>3 DEF SyncSkip, SyncCommit, ConductorCrash, SyncList, IdleSync
<1> QED
  BY <1>1, <1>2, <1>3, SyncCases DEF SyncStep

\* RowInv is kept by every step.
LEMMA RowStep == IInv /\ [Next]_vars => RowInv'
<1> SUFFICES ASSUME IInv, [Next]_vars PROVE RowInv'
  OBVIOUS
<1>1. \A w \in Workers : RowKept(w)'
  BY WorkerRowStep
<1>2. sync'.pc = "locked" => sync'.row = inst'[sync'.inst] /\ Exists(inst'[sync'.inst])
  BY SyncRowStep
<1> QED
  BY <1>1, <1>2 DEF RowInv, NoLostUpdate, RowKept, RowPcs

----------------------------------------------------------------------------
(* GrantInv.                                                               *)

\* Nothing is granted at the start.
LEMMA GrantInit == Init => GrantInv
  BY DEF Init, GrantInv, IdleWorker

\* grant_req and grant of an operation are deleted by the handler at work on it,
\* at its end, or by a fail request that has the lock of its instance.
LEMMA GrantMoves ==
    ASSUME IInv, [Next]_vars, NEW o \in grants
    PROVE  \/ o \in grants'
           \/ \E v \in Workers : wk[v].pc \in CritPcs /\ wk[v].occ = o /\ wk'[v] = IdleWorker
           \/ \E a \in Apis : Holds(a) /\ api[a].occ = o /\ lcmocc[o].inst = api[a].inst
<1> USE DEF IInv
<1>1. ASSUME NEW a \in Apis, ApiStep(a) \/ ApiCrash(a) \/ Client(a)
      PROVE  o \in grants' \/ (Holds(a) /\ api[a].occ = o /\ lcmocc[o].inst = api[a].inst)
  <2>1. CASE FailCommit(a) \/ FailGrants(a)
    BY <2>1 DEF FailCommit, FailGrants, Holds, RefInv, ApiRef
  <2>2. CASE ~FailCommit(a) /\ ~FailGrants(a)
    BY <1>1, <2>2 DEF Client, DeleteAccept, RequestAccept, ErrRead, ApiStep, ApiCrash, DeleteCommit,
           RequestCreate, RequestCast, RequestRelease, ErrLock, ErrReject
  <2> QED
    BY <2>1, <2>2
<1>2. ASSUME NEW w \in Workers, WorkerStep(w)
      PROVE  o \in grants' \/ (wk[w].pc \in CritPcs /\ wk[w].occ = o /\ wk'[w] = IdleWorker)
  <2>1. CASE Commit(w)
    BY <2>1 DEF Commit, DeleteGrants, Finish, CritPcs, TypeOK
  <2>2. CASE CommitRow(w)
    BY <2>2 DEF CommitRow, DeleteGrants, Finish, CritPcs, TypeOK
  <2>3. CASE ~Commit(w) /\ ~CommitRow(w)
    BY <1>2, <2>3 DEF WorkerStep, HandlerBegin, HandlerDrop, HandlerTimeout, GrantSave, GrantProcessing,
           GrantFail, Regrant, RegrantFail, VimOk, VimFail, Abort
  <2> QED
    BY <2>1, <2>2, <2>3
<1>3. CASE ~(\E a \in Apis : ApiStep(a) \/ ApiCrash(a) \/ Client(a)) /\ ~(\E w \in Workers : WorkerStep(w))
  BY <1>3 DEF Next, vars, Create, ReceiveCast, AutoStart, ConductorCrash, BootStep, ConductorStart,
     RecoverOcc, RecoverAbort, RecoverNext, SyncList, VimDrift, SyncStep, SyncLock, SyncSkip, SyncCommit
<1> QED
  BY <1>1, <1>2, <1>3

\* A handler that is past the grant.
GrantPcs == {"granted", "process", "rollback"}

\* The grant of a handler past that point stays on record, and a handler gets
\* there with one.
LEMMA WorkerGrantStep ==
    ASSUME IInv, [Next]_vars, NEW w \in Workers, wk'[w].pc \in GrantPcs
    PROVE  GrantFound(wk[w].occ)' /\ wk'[w].occ = wk[w].occ
<1> USE DEF IInv
<1>k. OccKept
  BY OccStep
<1>1. CASE wk[w].pc \in GrantPcs /\ wk'[w].occ = wk[w].occ
  <2>1. wk[w].pc # "idle" /\ wk[w].pc \in CritPcs /\ wk'[w] # IdleWorker
    BY <1>1 DEF GrantPcs, CritPcs, IdleWorker
  <2>2. Stored(wk[w].occ) /\ wk[w].occ \in Occs
    BY <2>1, WorkerFacts
  <2>3. lock[InstOf(w)] = w
    BY <2>1 DEF LockInv
  <2>4. GrantFound(wk[w].occ)
    BY <1>1 DEF GrantInv, GrantPcs
  <2>5. CASE lcmocc[wk[w].occ].op = "MODIFY_INFO"
    BY <1>1, <1>k, <2>2, <2>5 DEF OccKept, GrantFound
  <2>6. CASE wk[w].occ \in grants
    <3>1. ASSUME NEW v \in Workers, wk[v].pc \in CritPcs, wk[v].occ = wk[w].occ, wk'[v] = IdleWorker
          PROVE  FALSE
      <4>1. lock[InstOf(v)] = v /\ InstOf(v) = InstOf(w)
        BY <3>1 DEF LockInv, InstOf
      <4> QED
        BY <2>1, <2>3, <3>1, <4>1
    <3>2. ASSUME NEW a \in Apis, Holds(a), lcmocc[wk[w].occ].inst = api[a].inst
          PROVE  FALSE
      <4>1. lock[api[a].inst] = a /\ api[a].inst = InstOf(w)
        BY <3>2 DEF LockInv, InstOf
      <4> QED
        BY <2>3, <4>1, Names
    <3>3. wk[w].occ \in grants'
      BY <2>6, <3>1, <3>2, GrantMoves
    <3> QED
      BY <1>1, <3>3 DEF GrantFound
  <2> QED
    BY <2>4, <2>5, <2>6 DEF GrantFound
<1>2. CASE wk'[w] = wk[w]
  BY <1>1, <1>2
<1>3. CASE WorkerStep(w)
  <2>0. wk[w].pc # "idle"
    BY <1>3 DEF WorkerStep, HandlerBegin, HandlerDrop, HandlerTimeout, GrantSave, GrantProcessing, GrantFail,
           Regrant, RegrantFail, VimOk, VimEffect, VimFail, Commit, CommitRow, Abort
  <2>w. Stored(wk[w].occ) /\ wk[w].occ \in Occs
    BY <2>0, WorkerFacts
  <2>1. CASE HandlerBegin(w)
    <3>1. wk'[w].occ = wk[w].occ /\ wk'[w].pc = FirstPc(wk[w].method)
      BY <2>1 DEF HandlerBegin, ToWith, TypeOK, Worker
    <3>2. wk[w].method = "modify_vnfinfo"
      BY <3>1 DEF FirstPc, GrantPcs
    <3>3. lcmocc[wk[w].occ].op = "MODIFY_INFO"
      BY <2>0, <3>2 DEF RefInv, WorkerRef
    <3> QED
      BY <1>k, <2>w, <3>1, <3>3 DEF OccKept, GrantFound
  <2>2. CASE GrantSave(w)
    <3>1. wk'[w].occ = wk[w].occ
      BY <2>2 DEF GrantSave, ToWith, TypeOK, Worker
    <3> QED
      BY <2>2, <3>1 DEF GrantSave, GrantFound
  <2>3. CASE Regrant(w)
    <3>1. wk'[w].occ = wk[w].occ
      BY <2>3 DEF Regrant, ToWith, TypeOK, Worker
    <3> QED
      BY <2>3, <3>1 DEF Regrant, GrantFound
  <2>4. CASE GrantProcessing(w)
    <3>1. wk[w].pc \in GrantPcs /\ wk'[w].occ = wk[w].occ
      BY <2>4 DEF GrantProcessing, GrantPcs, To, TypeOK, Worker
    <3> QED
      BY <1>1, <3>1
  <2>5. CASE RegrantFail(w) \/ VimOk(w) \/ VimFail(w) \/ CommitRow(w)
    BY <2>5 DEF RegrantFail, VimOk, VimFail, CommitRow, To, Finish, IdleWorker, GrantPcs, TypeOK, Worker
  <2>6. CASE HandlerDrop(w) \/ HandlerTimeout(w) \/ GrantFail(w) \/ Commit(w) \/ Abort(w)
    BY <2>6 DEF HandlerDrop, HandlerTimeout, GrantFail, Commit, Abort, Finish, IdleWorker, GrantPcs, TypeOK
  <2> QED
    BY <1>3, <2>1, <2>2, <2>3, <2>4, <2>5, <2>6 DEF WorkerStep
<1>4. CASE \/ \E m \in Methods, o \in Occs : ReceiveCast(w, m, o)
           \/ \E i \in Insts, op \in AutoOps, o \in Occs : AutoStart(w, i, op, o)
  BY <1>4 DEF ReceiveCast, AutoStart, TypeOK, GrantPcs
<1>5. CASE ConductorCrash
  BY <1>5 DEF ConductorCrash, IdleWorker, GrantPcs
<1> QED
  BY <1>2, <1>3, <1>4, <1>5, WorkerCases

\* GrantInv is kept by every step.
LEMMA GrantStep == IInv /\ [Next]_vars => GrantInv'
  BY WorkerGrantStep DEF GrantInv, GrantFound, GrantPcs

----------------------------------------------------------------------------
(* The theorems.                                                           *)

(* The inductive invariant: true at the start of both processes, kept by      *)
(* every step of a request, a handler, the recovery and the synchronization.  *)
THEOREM Inductive == Spec => []IInv
<1>1. Init => IInv
  BY TypeInit, RefInit, LockInit, RowInit, GrantInit DEF IInv
<1>2. IInv /\ [Next]_vars => IInv'
  BY TypeStep, RefStep, LockStep, RowStep, GrantStep DEF IInv
<1> QED
  BY <1>1, <1>2, PTL DEF Spec

(* Type correctness: the three tables, the lock table, the message queue and  *)
(* the program counters of all threads always have the values LcmState gives  *)
(* them, whatever handlers, requests, recovery and synchronization do.        *)
THEOREM TypeCorrect == Spec => []TypeOK
<1>1. IInv => TypeOK
  BY DEF IInv
<1> QED
  BY <1>1, Inductive, PTL

(* Mutual exclusion by lock_vnf_instance: of all handler threads, all delete  *)
(* and fail requests and the synchronization, at most one is at work on an    *)
(* instance, crashes of either process included.                              *)
THEOREM Exclusion == Spec => []ExclusiveAccess
<1>1. IInv => ExclusiveAccess
  <2> SUFFICES ASSUME IInv, NEW i \in Insts
               PROVE  /\ \A v, w \in Workers : WorkerIn(v, i) /\ WorkerIn(w, i) => v = w
                      /\ \A a, b \in Apis : ApiIn(a, i) /\ ApiIn(b, i) => a = b
                      /\ \A w \in Workers : WorkerIn(w, i) => ~SyncIn(i) /\ \A a \in Apis : ~ApiIn(a, i)
                      /\ SyncIn(i) => \A a \in Apis : ~ApiIn(a, i)
    BY DEF ExclusiveAccess
  <2>1. \A w \in Workers : WorkerIn(w, i) => lock[i] = w
    BY DEF IInv, LockInv, WorkerIn
  <2>2. \A a \in Apis : ApiIn(a, i) => lock[i] = a
    BY DEF IInv, LockInv, ApiIn, Holds
  <2>3. SyncIn(i) => lock[i] = SyncTask
    BY DEF IInv, LockInv, SyncIn
  <2> QED
    BY <2>1, <2>2, <2>3, Names
<1> QED
  BY <1>1, Inductive, PTL

(* No lost update: when a handler or the synchronization writes the whole     *)
(* instance row back, the row in the database is the one it read, up to what  *)
(* instantiate_post_grant fills in.                                           *)
THEOREM NoLostUpdates == Spec => []NoLostUpdate
<1>1. IInv => NoLostUpdate
  BY DEF IInv, RowInv
<1> QED
  BY <1>1, Inductive, PTL

(* vnflcm_driver.process and rollback call the VIM only while grant_req and   *)
(* grant of the operation are in the database, although a fail request or the *)
(* end of another handler deletes grants at any time.                         *)
THEOREM GrantBeforeVim == Spec => []VimUnderGrant
<1>1. IInv => VimUnderGrant
  BY DEF IInv, GrantInv, VimUnderGrant
<1> QED
  BY <1>1, Inductive, PTL

============================================================================
