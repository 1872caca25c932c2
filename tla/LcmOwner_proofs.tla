-------------------------- MODULE LcmOwner_proofs --------------------------
(***************************************************************************)
(* Who may write the operationState of an lcmocc, for any number of         *)
(* instances, operations and threads, and what follows for the grants.      *)
(*                                                                         *)
(* HandlerOwnsOcc is not inductive.  A start_lcm_op handler writes no state *)
(* when it takes the lock: it relies on what it read before, so nobody may  *)
(* have written in between.  OInv says why nobody has: there is one         *)
(* start_lcm_op per lcmocc (StartInv); every other writer refers to an      *)
(* lcmocc that has left STARTING for good (PastInv); the recovery runs      *)
(* while no handler does (ProcInv); and a handler is at steps of its own    *)
(* method only (FlowInv).                                                   *)
(***************************************************************************)
EXTENDS VnfLcmSystem_proofs

----------------------------------------------------------------------------
Past(o) == lcmocc[o].state \notin {"NONE", "STARTING"}

ErrMethods == {"retry_lcm_op", "rollback_lcm_op"}

\* A retry, rollback or fail request, before its message or its write.
ErrReq(a) ==
    \/ api[a].pc \in {"errread", "failing"}
    \/ api[a].pc = "created" /\ api[a].req \in {"retry", "rollback"}

\* A request about to cast start_lcm_op, and a handler of that message.
StartReq(a) == api[a].pc = "created" /\ api[a].req \in Ops \ {"MODIFY_INFO"}
StartIn(w, o) == wk[w].pc # "idle" /\ wk[w].method = "start_lcm_op" /\ wk[w].occ = o
ErrIn(w, o) == wk[w].pc # "idle" /\ wk[w].method \in ErrMethods /\ wk[w].occ = o

ApiPast(a) ==
    /\ api[a].pc = "errread" => api[a].req \in ErrKinds
    /\ api[a].pc = "created" => api[a].req \in Ops \cup {"retry", "rollback"}
    /\ ErrReq(a) => Past(api[a].occ)

PastInv ==
    /\ \A a \in Apis : ApiPast(a)
    /\ \A m \in ErrMethods, o \in Occs : queue[m][o] > 0 => Past(o)
    /\ \A w \in Workers, o \in Occs : ErrIn(w, o) => Past(o)
    /\ \A o \in Occs : lcmocc[o].op = "MODIFY_INFO" => lcmocc[o].state # "STARTING"

ProcInv ==
    /\ conductor # "up" => \A w \in Workers : wk[w].pc = "idle"
    /\ conductor # "starting" => boot = NotBooting
    /\ boot.phase = 1 => \A o \in boot.todo : lcmocc[o].state = "STARTING"
    /\ TxAtomic => /\ \A w \in Workers : wk[w].pc \notin {"granted", "commit2", "commit3"}
                   /\ \A a \in Apis : api[a].pc # "failed"

\* At most one of: a request about to send start_lcm_op for o, the message in
\* the queue, a handler of it.
OneStart(o) ==
    /\ queue["start_lcm_op"][o] <= 1
    /\ \A a, b \in Apis : StartReq(a) /\ StartReq(b) /\ api[a].occ = o /\ api[b].occ = o => a = b
    /\ \A v, w \in Workers : StartIn(v, o) /\ StartIn(w, o) => v = w
    /\ \A a \in Apis : StartReq(a) /\ api[a].occ = o =>
          queue["start_lcm_op"][o] = 0 /\ \A w \in Workers : ~StartIn(w, o)
    /\ queue["start_lcm_op"][o] > 0 => \A w \in Workers : ~StartIn(w, o)

\* What a start_lcm_op handler read before it waits for the lock is still true.
SeenTrue(w) ==
    wk[w].pc = "recv" /\ wk[w].method = "start_lcm_op" /\ wk[w].seen = "STARTING" =>
        lcmocc[wk[w].occ].state = "STARTING"

StartInv == (\A o \in Occs : OneStart(o)) /\ (\A w \in Workers : SeenTrue(w))

\* Each handler stays on its own path.
FlowOk(w) ==
    /\ wk[w].pc \in {"granting", "granted"} => wk[w].method = "start_lcm_op"
    /\ wk[w].pc = "regrant" => wk[w].method \in ErrMethods
    /\ wk[w].pc = "process" => wk[w].method # "rollback_lcm_op"
    /\ wk[w].pc = "rollback" => wk[w].method = "rollback_lcm_op"

FlowInv == \A w \in Workers : FlowOk(w)

OInv == PastInv /\ ProcInv /\ FlowInv /\ StartInv /\ HandlerOwnsOcc

FullInv == IInv /\ OInv

----------------------------------------------------------------------------
(* What a step of one thread leaves of the others.                         *)

\* A step of a handler: the thread ends or goes on with the same message.
LEMMA WorkerOutcome ==
    ASSUME IInv, NEW w \in Workers, WorkerStep(w)
    PROVE  /\ wk[w].pc # "idle"
           /\ \/ wk'[w] = IdleWorker
              \/ /\ wk'[w].occ = wk[w].occ
                 /\ wk'[w].method = wk[w].method
                 /\ wk'[w].seen = wk[w].seen
                 /\ wk'[w].pc \in CritPcs
           /\ UNCHANGED <<queue, api, conductor, boot, spent>>
<1> USE DEF IInv, TypeOK
<1>1. wk[w].pc # "idle"
  BY DEF WorkerStep, HandlerBegin, HandlerDrop, HandlerTimeout, GrantSave, GrantProcessing, GrantFail,
         Regrant, RegrantFail, VimOk, VimEffect, VimFail, Commit, CommitRow, Abort
<1>2. UNCHANGED <<queue, api, conductor, boot, spent>>
  BY DEF WorkerStep, HandlerBegin, HandlerDrop, HandlerTimeout, GrantSave, GrantProcessing, GrantFail,
         Regrant, RegrantFail, VimOk, VimFail, Commit, CommitRow, Abort
<1>3. FirstPc(wk[w].method) \in CritPcs
  BY DEF FirstPc, CritPcs
<1>4. \/ wk'[w] = IdleWorker
      \/ \E pc \in CritPcs : To(w, pc)
      \/ \E pc \in CritPcs : \E row : ToWith(w, pc, row)
  <2>1. CASE HandlerBegin(w)
    BY <1>3, <2>1 DEF HandlerBegin
  <2>2. CASE HandlerDrop(w) \/ HandlerTimeout(w) \/ GrantFail(w) \/ Commit(w) \/ Abort(w)
    BY <2>2 DEF HandlerDrop, HandlerTimeout, GrantFail, Commit, Abort, Finish
  <2>3. CASE GrantSave(w)
    BY <2>3 DEF GrantSave, CritPcs
  <2>4. CASE Regrant(w)
    BY <2>4 DEF Regrant, CritPcs
  <2>5. CASE GrantProcessing(w) \/ RegrantFail(w) \/ VimOk(w) \/ VimFail(w)
    BY <2>5 DEF GrantProcessing, RegrantFail, VimOk, VimFail, CritPcs
  <2>6. CASE CommitRow(w)
    BY <2>6 DEF CommitRow, Finish, CritPcs
  <2> QED
    BY <2>1, <2>2, <2>3, <2>4, <2>5, <2>6 DEF WorkerStep
<1>5. ASSUME NEW pc \in CritPcs, To(w, pc) \/ \E row : ToWith(w, pc, row)
      PROVE  /\ wk'[w].occ = wk[w].occ
             /\ wk'[w].method = wk[w].method
             /\ wk'[w].seen = wk[w].seen
             /\ wk'[w].pc \in CritPcs
  BY <1>5 DEF To, ToWith, Worker
<1> QED
  BY <1>1, <1>2, <1>4, <1>5

\* A step of a request thread once it is let in.
LEMMA ApiOutcome ==
    ASSUME IInv, NEW a \in Apis, ApiStep(a) \/ ApiCrash(a)
    PROVE  /\ api[a].pc # "idle"
           /\ \/ api'[a] = IdleApi
              \/ /\ api'[a].occ = api[a].occ
                 /\ api'[a].req = api[a].req
                 /\ api'[a].inst = api[a].inst
                 /\ api'[a].pc \in {"created", "cast", "failing", "failed"}
                 /\ api'[a].pc = "created" => \/ RequestCreate(a)
                                              \/ api[a].pc = "errread" /\ api[a].req # "fail"
                 /\ api'[a].pc = "failing" => api[a].pc = "errread"
                 /\ api'[a].pc = "failed" => FailCommit(a) /\ ~TxAtomic
           /\ UNCHANGED <<wk, sync, conductor, boot>>
<1> USE DEF IInv, TypeOK
<1>1. api[a].pc # "idle"
  BY DEF ApiStep, ApiCrash, DeleteCommit, RequestCreate, RequestCast, RequestRelease, ErrLock,
         ErrReject, FailCommit, FailGrants
<1>2. UNCHANGED <<wk, sync, conductor, boot>>
  BY DEF ApiStep, ApiCrash, DeleteCommit, RequestCreate, RequestCast, RequestRelease, ErrLock,
         ErrReject, FailCommit, FailGrants
<1>3. ASSUME NEW pc, Goto(a, pc)
      PROVE  /\ api'[a].occ = api[a].occ
             /\ api'[a].req = api[a].req
             /\ api'[a].inst = api[a].inst
             /\ api'[a].pc = pc
  BY <1>3 DEF Goto, ApiThread
<1>4. CASE RequestCreate(a)
  BY <1>1, <1>2, <1>3, <1>4 DEF RequestCreate
<1>5. CASE RequestCast(a)
  BY <1>1, <1>2, <1>3, <1>5 DEF RequestCast, Return
<1>6. CASE ErrLock(a)
  BY <1>1, <1>2, <1>3, <1>6 DEF ErrLock
<1>7. CASE FailCommit(a)
  BY <1>1, <1>2, <1>3, <1>7 DEF FailCommit, Return
<1>8. CASE DeleteCommit(a) \/ RequestRelease(a) \/ ErrReject(a) \/ FailGrants(a) \/ ApiCrash(a)
  BY <1>1, <1>2, <1>8 DEF DeleteCommit, RequestRelease, ErrReject, FailGrants, ApiCrash, Return
<1> QED
  BY <1>4, <1>5, <1>6, <1>7, <1>8 DEF ApiStep

----------------------------------------------------------------------------
(* Who writes an lcmocc.                                                   *)

\* The writers of a stored lcmocc: a handler that has or gets the lock, a fail
\* request, and the recovery.
LEMMA OccOwner ==
    ASSUME IInv, [Next]_vars, NEW o \in Occs, Stored(o)
    PROVE  \/ lcmocc'[o] = lcmocc[o]
           \/ \E w \in Workers : /\ WorkerStep(w)
                                /\ wk[w].occ = o
                                /\ \/ wk[w].pc \in CritPcs
                                   \/ HandlerBegin(w) /\ wk[w].method \in ErrMethods
           \/ \E a \in Apis : FailCommit(a) /\ api[a].occ = o
           \/ RecoverOcc(o)
<1> USE DEF IInv, TypeOK
<1>1. ASSUME NEW a \in Apis, Client(a) \/ ApiStep(a) \/ ApiCrash(a)
      PROVE  lcmocc'[o] = lcmocc[o] \/ (FailCommit(a) /\ api[a].occ = o)
  <2>1. CASE RequestCreate(a)
    BY <2>1 DEF RequestCreate, new_lcmocc, RefInv, ApiRef, Stored
  <2>2. CASE FailCommit(a)
    BY <2>2 DEF FailCommit, update_lcmocc_status
  <2>3. CASE ~RequestCreate(a) /\ ~FailCommit(a)
    BY <1>1, <2>3 DEF Client, DeleteAccept, RequestAccept, ErrRead, ApiStep, ApiCrash, DeleteCommit,
           RequestCast, RequestRelease, ErrLock, ErrReject, FailGrants
  <2> QED
    BY <2>1, <2>2, <2>3
<1>2. ASSUME NEW w \in Workers, WorkerStep(w)
      PROVE  \/ lcmocc'[o] = lcmocc[o]
             \/ /\ wk[w].occ = o
                /\ \/ wk[w].pc \in CritPcs
                   \/ HandlerBegin(w) /\ wk[w].method \in ErrMethods
  <2>1. wk[w].occ \in Occs
    BY <1>2, WorkerOutcome, WorkerFacts
  <2>2. CASE HandlerBegin(w)
    BY <2>2 DEF HandlerBegin, FirstWrite, update_lcmocc_status, ErrMethods
  <2>3. CASE HandlerDrop(w) \/ HandlerTimeout(w) \/ Regrant(w) \/ RegrantFail(w) \/ VimOk(w) \/ VimFail(w)
    BY <2>3 DEF HandlerDrop, HandlerTimeout, Regrant, RegrantFail, VimOk, VimFail
  <2>4. CASE GrantSave(w) \/ GrantProcessing(w) \/ GrantFail(w) \/ Abort(w)
    BY <2>1, <2>4 DEF GrantSave, GrantProcessing, GrantFail, Abort, update_lcmocc_status, CritPcs
  <2>5. CASE Commit(w) \/ CommitRow(w)
    <3>1. wk[w].pc \in CritPcs
      BY <2>5 DEF Commit, CommitRow, CritPcs
    <3>2. WriteOcc(w) \/ UNCHANGED lcmocc
      BY <2>5 DEF Commit, CommitRow
    <3> QED
      BY <2>1, <3>1, <3>2 DEF WriteOcc, update_lcmocc_status
  <2> QED
    BY <1>2, <2>2, <2>3, <2>4, <2>5 DEF WorkerStep
<1>3. ASSUME NEW w \in Workers, NEW i \in Insts, NEW op \in AutoOps, NEW p \in Occs, AutoStart(w, i, op, p)
      PROVE  lcmocc'[o] = lcmocc[o]
  BY <1>3 DEF AutoStart, FreshOcc, new_lcmocc, Stored
<1>4. ASSUME NEW p \in Occs, RecoverOcc(p) PROVE lcmocc'[o] = lcmocc[o] \/ RecoverOcc(o)
  BY <1>4 DEF RecoverOcc, update_lcmocc_status
<1>5. CASE /\ ~\E a \in Apis : Client(a) \/ ApiStep(a) \/ ApiCrash(a)
           /\ ~\E w \in Workers : WorkerStep(w)
           /\ ~\E w \in Workers, i \in Insts, op \in AutoOps, p \in Occs : AutoStart(w, i, op, p)
           /\ ~\E p \in Occs : RecoverOcc(p)
  BY <1>5 DEF Next, vars, Create, ReceiveCast, ConductorCrash, BootStep, ConductorStart,
     RecoverAbort, RecoverNext, SyncList, VimDrift, SyncStep, SyncLock, SyncSkip, SyncCommit
<1> QED
  BY <1>1, <1>2, <1>3, <1>4, <1>5

\* An operation never goes back to STARTING.
LEMMA PastKept ==
    ASSUME IInv, [Next]_vars, NEW o \in Occs, Past(o)
    PROVE  Past(o)'
<1> USE DEF IInv, TypeOK
<1>1. CASE UNCHANGED lcmocc
  BY <1>1 DEF Past
<1>2. CASE OccWrite
  <2>1. PICK p \in Occs, st \in OpStates \ {"NONE", "STARTING"} : update_lcmocc_status(p, st)
    BY <1>2 DEF OccWrite
  <2>2. lcmocc' = [lcmocc EXCEPT ![p] = [lcmocc[p] EXCEPT !.state = st]]
    BY <2>1 DEF update_lcmocc_status
  <2>3. lcmocc'[p].state = st
    BY <2>2 DEF OccRow
  <2> QED
    BY <2>1, <2>2, <2>3 DEF Past
<1>3. CASE OccNew
  BY <1>3 DEF OccNew, new_lcmocc, Past
<1> QED
  BY <1>1, <1>2, <1>3, OccCases

\* STARTING is left by the start_lcm_op handler at work on the operation, or by
\* the recovery.
LEMMA StartingKept ==
    ASSUME FullInv, [Next]_vars, NEW o \in Occs, lcmocc[o].state = "STARTING"
    PROVE  \/ lcmocc'[o] = lcmocc[o]
           \/ \E w \in Workers : WorkerStep(w) /\ StartIn(w, o) /\ wk[w].pc \in CritPcs
           \/ RecoverOcc(o)
<1> USE DEF FullInv, IInv, OInv
<1>1. Stored(o) /\ ~Past(o)
  BY DEF RefInv, Past
<1>2. ASSUME NEW w \in Workers, WorkerStep(w), wk[w].occ = o
      PROVE  StartIn(w, o)
  <2>1. wk[w].pc # "idle" /\ wk[w].method \in Methods
    BY <1>2, WorkerOutcome, WorkerFacts
  <2>2. wk[w].method \notin ErrMethods
    BY <1>1, <1>2, <2>1 DEF PastInv, ErrIn
  <2>3. wk[w].method # "modify_vnfinfo"
    BY <1>2, <2>1 DEF PastInv, RefInv, WorkerRef
  <2> QED
    BY <1>2, <2>1, <2>2, <2>3 DEF StartIn, Methods, ErrMethods
<1>3. ASSUME NEW a \in Apis, FailCommit(a), api[a].occ = o PROVE FALSE
  BY <1>1, <1>3 DEF PastInv, ApiPast, ErrReq, FailCommit
<1>4. ASSUME NEW w \in Workers, WorkerStep(w), wk[w].occ = o, wk[w].method \in ErrMethods PROVE FALSE
  BY <1>2, <1>4 DEF StartIn, ErrMethods
<1> QED
  BY <1>1, <1>2, <1>3, <1>4, OccOwner

----------------------------------------------------------------------------
(* HandlerOwnsOcc.                                                         *)

\* While a handler has the lock nobody else writes its lcmocc.
LEMMA OwnKept ==
    ASSUME FullInv, [Next]_vars, NEW w \in Workers, wk[w].pc \in CritPcs, ~WorkerStep(w)
    PROVE  lcmocc'[wk[w].occ] = lcmocc[wk[w].occ]
<1> USE DEF FullInv, IInv, OInv
<1>1. wk[w].pc # "idle" /\ lock[InstOf(w)] = w
  BY DEF CritPcs, LockInv
<1>2. wk[w].occ \in Occs /\ Stored(wk[w].occ)
  BY <1>1, WorkerFacts
<1>3. ASSUME NEW v \in Workers, WorkerStep(v), wk[v].occ = wk[w].occ,
             wk[v].pc \in CritPcs \/ HandlerBegin(v)
      PROVE  FALSE
  <2>1. InstOf(v) = InstOf(w)
    BY <1>3 DEF InstOf
  <2>2. lock[InstOf(v)] \in {v, Nobody}
    BY <1>3 DEF LockInv, HandlerBegin, HandlerLock, Acquire
  <2> QED
    BY <1>1, <1>3, <2>1, <2>2, Names
<1>4. ASSUME NEW a \in Apis, FailCommit(a), api[a].occ = wk[w].occ PROVE FALSE
  <2>1. lock[api[a].inst] = a /\ InstOf(w) = api[a].inst
    BY <1>4 DEF FailCommit, LockInv, Holds, RefInv, ApiRef, InstOf
  <2> QED
    BY <1>1, <2>1, Names
<1>5. ASSUME RecoverOcc(wk[w].occ) PROVE FALSE
  BY <1>1, <1>5 DEF RecoverOcc, ProcInv
<1> QED
  BY <1>2, <1>3, <1>4, <1>5, OccOwner

\* A handler's own steps store the state its next place in the flow stands for.
LEMMA OwnWrite ==
    ASSUME FullInv, NEW w \in Workers, WorkerStep(w), wk'[w].pc \in CritPcs,
           wk[w].method # "modify_vnfinfo"
    PROVE  lcmocc'[wk[w].occ].state = StateAt(w)'
<1> USE DEF FullInv, IInv, OInv
<1>0. wk[w].pc # "idle" /\ wk'[w] # IdleWorker
  BY WorkerOutcome DEF IdleWorker, CritPcs
<1>1. wk[w].occ \in Occs /\ wk[w].method \in Methods /\ lcmocc[wk[w].occ] \in OccRow
  BY <1>0, WorkerFacts DEF TypeOK
<1>2. wk'[w].method = wk[w].method
  BY <1>0, WorkerOutcome
<1>3. wk[w].pc \in CritPcs => lcmocc[wk[w].occ].state = StateAt(w)
  BY DEF HandlerOwnsOcc
<1>4. \A st : update_lcmocc_status(wk[w].occ, st) => lcmocc'[wk[w].occ].state = st
  BY <1>1 DEF update_lcmocc_status, TypeOK, OccRow
<1>5. \A pc : To(w, pc) => wk'[w].pc = pc
  BY DEF To, TypeOK, Worker
<1>6. \A pc, row : ToWith(w, pc, row) => wk'[w].pc = pc
  BY DEF ToWith, TypeOK, Worker
<1>7. CASE HandlerBegin(w)
  <2>1. wk'[w].pc = FirstPc(wk[w].method)
    BY <1>6, <1>7 DEF HandlerBegin
  <2>2. CASE wk[w].method = "start_lcm_op"
    BY <1>2, <1>7, <2>1, <2>2 DEF HandlerBegin, FirstPc, FirstWrite, ExpectedState, StateAt, StartInv, SeenTrue
  <2>3. CASE wk[w].method \in ErrMethods
    BY <1>2, <1>4, <1>7, <2>1, <2>3 DEF HandlerBegin, FirstPc, FirstWrite, StateAt, ErrMethods
  <2> QED
    BY <1>1, <2>2, <2>3 DEF Methods, ErrMethods
<1>8. CASE GrantSave(w)
  <2>1. wk[w].method = "start_lcm_op" => lcmocc'[wk[w].occ].state = StateAt(w)'
    BY <1>2, <1>3, <1>4, <1>6, <1>8 DEF GrantSave, StateAt, CritPcs
  <2>2. wk[w].method = "start_lcm_op"
    <3>1. lcmocc[wk[w].occ].state = "STARTING"
      BY <1>3, <1>8 DEF GrantSave, StateAt, CritPcs
    <3> QED
      BY <1>0, <1>1, <3>1 DEF PastInv, ErrIn, Past, Methods, ErrMethods
  <2> QED
    BY <2>1, <2>2
<1>9. CASE GrantProcessing(w)
  <2>1. lcmocc[wk[w].occ].state = "STARTING"
    BY <1>3, <1>9 DEF GrantProcessing, StateAt, CritPcs
  <2>2. wk[w].method = "start_lcm_op"
    BY <1>0, <1>1, <2>1 DEF PastInv, ErrIn, Past, Methods, ErrMethods
  <2> QED
    BY <1>2, <1>4, <1>5, <1>9, <2>2 DEF GrantProcessing, StateAt
<1>10. CASE Regrant(w)
  <2>1. wk'[w].pc \in {"process", "rollback"} /\ lcmocc' = lcmocc /\ wk[w].pc = "regrant"
    BY <1>6, <1>10 DEF Regrant
  <2> QED
    BY <1>2, <1>3, <2>1 DEF StateAt, CritPcs
<1>11. CASE RegrantFail(w) \/ VimOk(w) \/ VimFail(w)
  <2>1. /\ wk'[w].pc \in {"commit1", "abort"} /\ lcmocc' = lcmocc
        /\ wk[w].pc \in {"regrant", "process", "rollback"}
    BY <1>5, <1>11 DEF RegrantFail, VimOk, VimEffect, VimFail
  <2> QED
    BY <1>2, <1>3, <2>1 DEF StateAt, CritPcs
<1>12. CASE CommitRow(w)
  <2>1. CASE wk[w].pc = "commit1"
    BY <1>2, <1>3, <1>4, <1>5, <1>12, <2>1 DEF CommitRow, WriteOcc, StateAt, CritPcs
  <2>2. CASE wk[w].pc = "commit2"
    BY <1>2, <1>3, <1>4, <1>5, <1>12, <2>2 DEF CommitRow, WriteOcc, StateAt, CritPcs
  <2>3. CASE wk[w].pc = "commit3"
    BY <1>0, <1>12, <2>3 DEF CommitRow, Finish, TypeOK
  <2> QED
    BY <1>12, <2>1, <2>2, <2>3 DEF CommitRow
<1>13. CASE HandlerDrop(w) \/ HandlerTimeout(w) \/ GrantFail(w) \/ Commit(w) \/ Abort(w)
  BY <1>0, <1>13 DEF HandlerDrop, HandlerTimeout, GrantFail, Commit, Abort, Finish, TypeOK
<1> QED
  BY <1>7, <1>8, <1>9, <1>10, <1>11, <1>12, <1>13 DEF WorkerStep

\* HandlerOwnsOcc is kept by every step.
LEMMA OwnStep == FullInv /\ [Next]_vars => HandlerOwnsOcc'
<1> SUFFICES ASSUME FullInv, [Next]_vars, NEW w \in Workers,
                    wk'[w].pc \in CritPcs, wk'[w].method # "modify_vnfinfo"
             PROVE  lcmocc'[wk'[w].occ].state = StateAt(w)'
  BY DEF HandlerOwnsOcc
<1> USE DEF FullInv, IInv, OInv
<1>1. CASE WorkerStep(w)
  <2>1. wk'[w] # IdleWorker
    BY DEF IdleWorker, CritPcs
  <2> QED
    BY <1>1, <2>1, OwnWrite, WorkerOutcome
<1>2. CASE wk'[w] = wk[w] /\ ~WorkerStep(w)
  <2>1. lcmocc[wk[w].occ].state = StateAt(w)
    BY <1>2 DEF HandlerOwnsOcc
  <2>2. StateAt(w)' = StateAt(w)
    BY <1>2 DEF StateAt
  <2> QED
    BY <1>2, <2>1, <2>2, OwnKept
<1>3. CASE \/ \E m \in Methods, o \in Occs : ReceiveCast(w, m, o)
           \/ \E i \in Insts, op \in AutoOps, o \in Occs : AutoStart(w, i, op, o)
  BY <1>3 DEF ReceiveCast, AutoStart, TypeOK, CritPcs
<1>4. CASE ConductorCrash
  BY <1>4 DEF ConductorCrash, IdleWorker, CritPcs
<1> QED
  BY <1>1, <1>2, <1>3, <1>4, WorkerCases

----------------------------------------------------------------------------
(* PastInv.                                                                *)

\* The queue changes by a cast and by the receipt of one.
LEMMA QueueCases ==
    ASSUME IInv, [Next]_vars
    PROVE  \/ UNCHANGED queue
           \/ \E a \in Apis : /\ RequestCast(a)
                             /\ api[a].occ \in Occs
                             /\ MethodOf(api[a].req) \in Methods
                             /\ \A m \in Methods, o \in Occs :
                                   queue'[m][o] = IF m = MethodOf(api[a].req) /\ o = api[a].occ
                                                  THEN queue[m][o] + 1 ELSE queue[m][o]
           \/ \E w \in Workers, n \in Methods, p \in Occs :
                 /\ ReceiveCast(w, n, p)
                 /\ \A m \in Methods, o \in Occs :
                       queue'[m][o] = IF m = n /\ o = p THEN queue[m][o] - 1 ELSE queue[m][o]
<1> USE DEF IInv
<1>1. ASSUME NEW a \in Apis, RequestCast(a)
      PROVE  /\ api[a].occ \in Occs
             /\ MethodOf(api[a].req) \in Methods
             /\ \A m \in Methods, o \in Occs :
                   queue'[m][o] = IF m = MethodOf(api[a].req) /\ o = api[a].occ
                                  THEN queue[m][o] + 1 ELSE queue[m][o]
  <2>1. api[a].occ \in Occs /\ MethodOf(api[a].req) \in Methods
    BY <1>1 DEF RequestCast, RefInv, ApiRef, MethodOf, Methods
  <2> QED
    BY <1>1, <2>1 DEF RequestCast, TypeOK
<1>2. ASSUME NEW w \in Workers, NEW n \in Methods, NEW p \in Occs, ReceiveCast(w, n, p),
             NEW m \in Methods, NEW o \in Occs
      PROVE  queue'[m][o] = IF m = n /\ o = p THEN queue[m][o] - 1 ELSE queue[m][o]
  BY <1>2 DEF ReceiveCast, TypeOK
<1>3. ASSUME NEW a \in Apis, Client(a) \/ ApiStep(a) \/ ApiCrash(a), ~RequestCast(a) PROVE UNCHANGED queue
  BY <1>3 DEF Client, DeleteAccept, RequestAccept, ErrRead, ApiStep, ApiCrash, DeleteCommit, RequestCreate,
         RequestRelease, ErrLock, ErrReject, FailCommit, FailGrants
<1>4. \/ UNCHANGED queue
      \/ \E a \in Apis : RequestCast(a)
      \/ \E w \in Workers, n \in Methods, p \in Occs : ReceiveCast(w, n, p)
  BY <1>3, WorkerOutcome DEF Next, vars, Create, AutoStart, ConductorCrash, BootStep, ConductorStart, RecoverOcc,
     RecoverAbort, RecoverNext, SyncList, VimDrift, SyncStep, SyncLock, SyncSkip, SyncCommit
<1> QED
  BY <1>1, <1>2, <1>4

\* A request leads to the handler of its kind.
LEMMA MethodOfReq ==
    /\ \A req \in Ops \ {"MODIFY_INFO"} : MethodOf(req) = "start_lcm_op"
    /\ MethodOf("MODIFY_INFO") = "modify_vnfinfo"
    /\ MethodOf("retry") = "retry_lcm_op"
    /\ MethodOf("rollback") = "rollback_lcm_op"
    /\ {"retry", "rollback", "fail"} \cap Ops = {}
  BY DEF MethodOf, Ops, ScaleOps, ChangeOps

\* A retry, rollback or fail request has read FAILED_TEMP once.
LEMMA ApiPastStep ==
    ASSUME FullInv, [Next]_vars, NEW a \in Apis
    PROVE  ApiPast(a)'
<1> USE DEF FullInv, IInv, OInv
<1>1. ApiPast(a) /\ ApiRef(a)
  BY DEF PastInv, RefInv
<1>2. ErrReq(a) => lcmocc'[api[a].occ].state \notin {"NONE", "STARTING"}
  <2>1. ErrReq(a) => api[a].occ \in Occs /\ Past(api[a].occ)
    BY <1>1 DEF ApiPast, ApiRef, ErrReq
  <2>2. \A o \in Occs : Past(o) => lcmocc'[o].state \notin {"NONE", "STARTING"}
    BY PastKept DEF Past
  <2> QED
    BY <2>1, <2>2
<1>3. CASE api'[a] = api[a]
  BY <1>1, <1>2, <1>3 DEF ApiPast, ErrReq, Past
<1>4. CASE Client(a)
  <2>1. ASSUME NEW i \in Insts, DeleteAccept(a, i) PROVE ApiPast(a)'
    BY <2>1 DEF DeleteAccept, ApiPast, ErrReq, TypeOK
  <2>2. ASSUME NEW i \in Insts, NEW op \in ClientOps, NEW o \in Occs, RequestAccept(a, i, op, o)
        PROVE  ApiPast(a)'
    BY <2>2 DEF RequestAccept, ApiPast, ErrReq, TypeOK
  <2>3. ASSUME NEW o \in Occs, NEW kind \in ErrKinds, ErrRead(a, o, kind) PROVE ApiPast(a)'
    <3>1. /\ api'[a].pc = "errread" /\ api'[a].req = kind /\ api'[a].occ = o
          /\ lcmocc' = lcmocc /\ lcmocc[o].state = "FAILED_TEMP"
      BY <2>3 DEF ErrRead, TypeOK
    <3> QED
      BY <3>1 DEF ApiPast, Past
  <2> QED
    BY <1>4, <2>1, <2>2, <2>3 DEF Client
<1>5. CASE ApiStep(a) \/ ApiCrash(a)
  <2>1. CASE api'[a] = IdleApi
    BY <2>1 DEF IdleApi, ApiPast, ErrReq
  <2>2. CASE RequestCreate(a)
    <3>1. api'[a].pc = "created" /\ api'[a].req = api[a].req /\ api[a].req \in Ops
      BY <1>1, <2>2 DEF RequestCreate, Goto, ApiRef, TypeOK, ApiThread
    <3> QED
      BY <3>1, MethodOfReq DEF ApiPast, ErrReq
  <2>3. CASE api'[a] # IdleApi /\ ~RequestCreate(a)
    <3>1. /\ api'[a].occ = api[a].occ /\ api'[a].req = api[a].req
          /\ api'[a].pc \in {"created", "cast", "failing", "failed"}
          /\ api'[a].pc = "created" => api[a].pc = "errread" /\ api[a].req # "fail"
          /\ api'[a].pc = "failing" => api[a].pc = "errread"
      BY <1>5, <2>3, ApiOutcome
    <3> QED
      BY <1>1, <1>2, <3>1 DEF ApiPast, ErrReq, ErrKinds, Past
  <2> QED
    BY <2>1, <2>2, <2>3
<1> QED
  BY <1>3, <1>4, <1>5, ApiCases

\* So have the retry and rollback messages and their handlers.
LEMMA PastStep == FullInv /\ [Next]_vars => PastInv'
<1> SUFFICES ASSUME FullInv, [Next]_vars PROVE PastInv'
  OBVIOUS
<1> USE DEF FullInv, IInv, OInv
<1>m. ErrMethods \subseteq Methods
  BY DEF ErrMethods, Methods
<1>1. ASSUME NEW m \in ErrMethods, NEW o \in Occs, queue'[m][o] > 0 PROVE Past(o)'
  <2>1. queue[m][o] \in Nat
    BY <1>m DEF TypeOK
  <2>2. CASE queue[m][o] > 0
    BY <2>2, PastKept DEF PastInv
  <2>3. CASE queue[m][o] = 0
    <3>1. PICK a \in Apis : RequestCast(a) /\ m = MethodOf(api[a].req) /\ o = api[a].occ
      BY <1>1, <1>m, <2>1, <2>3, QueueCases
    <3>2. ErrReq(a)
      BY <3>1, MethodOfReq DEF RequestCast, PastInv, ApiPast, ErrReq, ErrMethods
    <3> QED
      BY <3>1, <3>2, PastKept DEF PastInv, ApiPast
  <2> QED
    BY <2>1, <2>2, <2>3
<1>2. ASSUME NEW w \in Workers, NEW o \in Occs, ErrIn(w, o)' PROVE Past(o)'
  <2>0. wk'[w] # IdleWorker
    BY <1>2 DEF ErrIn, IdleWorker
  <2>1. CASE ErrIn(w, o)
    BY <2>1, PastKept DEF PastInv
  <2>2. CASE wk'[w] = wk[w]
    BY <1>2, <2>1, <2>2 DEF ErrIn
  <2>3. CASE WorkerStep(w)
    BY <1>2, <2>0, <2>1, <2>3, WorkerOutcome DEF ErrIn
  <2>4. ASSUME NEW m \in Methods, NEW p \in Occs, ReceiveCast(w, m, p) PROVE Past(o)'
    <3>1. m \in ErrMethods /\ p = o /\ queue[m][p] > 0
      BY <1>2, <2>4 DEF ReceiveCast, ErrIn, TypeOK
    <3> QED
      BY <3>1, PastKept DEF PastInv
  <2>5. CASE \E i \in Insts, op \in AutoOps, p \in Occs : AutoStart(w, i, op, p)
    BY <1>2, <2>5 DEF AutoStart, ErrIn, ErrMethods, TypeOK
  <2>6. CASE ConductorCrash
    BY <2>0, <2>6 DEF ConductorCrash
  <2> QED
    BY <2>2, <2>3, <2>4, <2>5, <2>6, WorkerCases
<1>3. ASSUME NEW o \in Occs, lcmocc'[o].op = "MODIFY_INFO" PROVE lcmocc'[o].state # "STARTING"
  <2>1. CASE UNCHANGED lcmocc
    BY <1>3, <2>1 DEF PastInv
  <2>2. CASE OccWrite
    <3>1. PICK p \in Occs, st \in OpStates \ {"NONE", "STARTING"} : update_lcmocc_status(p, st)
      BY <2>2 DEF OccWrite
    <3>2. lcmocc' = [lcmocc EXCEPT ![p] = [lcmocc[p] EXCEPT !.state = st]] /\ lcmocc[p] \in OccRow
      BY <3>1 DEF update_lcmocc_status, TypeOK
    <3>3. lcmocc'[p].state = st
      BY <3>2 DEF OccRow, TypeOK
    <3>4. o # p => lcmocc'[o] = lcmocc[o]
      BY <3>2 DEF TypeOK
    <3> QED
      BY <1>3, <3>1, <3>3, <3>4 DEF PastInv
  <2>3. CASE OccNew
    <3>1. PICK p \in Occs, i \in Insts, op \in Ops : new_lcmocc(p, i, op)
      BY <2>3 DEF OccNew
    <3>2. o # p => lcmocc'[o] = lcmocc[o]
      BY <3>1 DEF new_lcmocc, TypeOK
    <3>3. /\ lcmocc'[p].op = op
          /\ lcmocc'[p].state = IF op = "MODIFY_INFO" THEN "PROCESSING" ELSE "STARTING"
      BY <3>1 DEF new_lcmocc, TypeOK
    <3> QED
      BY <1>3, <3>2, <3>3 DEF PastInv
  <2> QED
    BY <2>1, <2>2, <2>3, OccCases
<1> QED
  BY <1>1, <1>2, <1>3, ApiPastStep DEF PastInv

----------------------------------------------------------------------------
(* ProcInv and StartInv.                                                   *)

\* The process of the conductor changes by its crash and its start.
LEMMA ProcCases ==
    ASSUME IInv, [Next]_vars
    PROVE  UNCHANGED <<conductor, boot>> \/ ConductorCrash \/ BootStep
<1>1. ASSUME NEW a \in Apis, Client(a) PROVE UNCHANGED <<conductor, boot>>
  BY <1>1 DEF Client, DeleteAccept, RequestAccept, ErrRead
<1> QED
  BY <1>1, WorkerOutcome, ApiOutcome DEF Next, vars, Create, ReceiveCast, AutoStart, SyncList, VimDrift,
     SyncStep, SyncLock, SyncSkip, SyncCommit

\* No handler runs while the conductor is down or recovers, and the recovery
\* finds what it has listed.
LEMMA ProcStep == FullInv /\ [Next]_vars => ProcInv'
<1> SUFFICES ASSUME FullInv, [Next]_vars PROVE ProcInv'
  OBVIOUS
<1> USE DEF FullInv, IInv, OInv
<1>1. ASSUME conductor # "up" PROVE UNCHANGED wk \/ ConductorCrash
  BY <1>1, WorkerCases, WorkerOutcome DEF ProcInv, ReceiveCast, AutoStart
<1>2. ASSUME conductor' # "up", NEW w \in Workers PROVE wk'[w].pc = "idle"
  <2>1. CASE ConductorCrash
    BY <2>1 DEF ConductorCrash, IdleWorker
  <2>2. CASE conductor # "up"
    BY <1>1, <2>1, <2>2 DEF ProcInv
  <2>3. CASE conductor = "up" /\ ~ConductorCrash
    BY <1>2, <2>3, ProcCases DEF BootStep, ConductorStart, RecoverOcc, RecoverAbort, RecoverNext
  <2> QED
    BY <2>1, <2>2, <2>3
<1>3. conductor' # "starting" => boot' = NotBooting
  <2>1. CASE UNCHANGED <<conductor, boot>>
    BY <2>1 DEF ProcInv
  <2>2. CASE ConductorCrash
    BY <2>2 DEF ConductorCrash
  <2>3. CASE BootStep
    BY <2>3 DEF BootStep, ConductorStart, RecoverOcc, RecoverAbort, RecoverNext
  <2> QED
    BY <2>1, <2>2, <2>3, ProcCases
<1>4. ASSUME boot'.phase = 1, NEW o \in boot'.todo PROVE lcmocc'[o].state = "STARTING"
  <2>1. CASE UNCHANGED <<conductor, boot>>
    <3>1. lcmocc[o].state = "STARTING" /\ o \in Occs
      BY <1>4, <2>1 DEF ProcInv, TypeOK, Boot
    <3>2. conductor = "starting"
      BY <1>4, <2>1 DEF ProcInv, NotBooting
    <3>3. ~\E w \in Workers : StartIn(w, o)
      BY <3>2 DEF ProcInv, StartIn
    <3>4. ~RecoverOcc(o)
      BY <1>4, <2>1, <3>2 DEF RecoverOcc, TypeOK, Boot
    <3> QED
      BY <3>1, <3>3, <3>4, StartingKept
  <2>2. CASE ConductorCrash
    BY <1>4, <2>2 DEF ConductorCrash, NotBooting
  <2>3. CASE ConductorStart \/ RecoverNext
    BY <1>4, <2>3 DEF ConductorStart, RecoverNext, Listed, Before, NotBooting, TypeOK, Boot
  <2>4. ASSUME NEW p \in Occs, RecoverOcc(p) PROVE lcmocc'[o].state = "STARTING"
    <3>1. boot.phase = 1 /\ o \in boot.todo /\ o # p
      BY <1>4, <2>4 DEF RecoverOcc, NotBooting, TypeOK, Boot
    <3>2. lcmocc'[o] = lcmocc[o]
      BY <2>4, <3>1 DEF RecoverOcc, update_lcmocc_status, TypeOK, Boot
    <3> QED
      BY <3>1, <3>2 DEF ProcInv
  <2>5. ASSUME NEW p \in Occs, RecoverAbort(p) PROVE FALSE
    BY <1>4, <2>5 DEF RecoverAbort, NotBooting
  <2> QED
    BY <2>1, <2>2, <2>3, <2>4, <2>5, ProcCases DEF BootStep
<1>5. ASSUME TxAtomic, NEW w \in Workers PROVE wk'[w].pc \notin {"granted", "commit2", "commit3"}
  <2>1. CASE wk'[w] = wk[w]
    BY <1>5, <2>1 DEF ProcInv
  <2>2. CASE wk'[w] = IdleWorker
    BY <2>2 DEF IdleWorker
  <2>3. CASE WorkerStep(w) /\ wk'[w] # IdleWorker
    <3>1. \A pc : To(w, pc) => wk'[w].pc = pc
      BY DEF To, TypeOK, Worker
    <3>2. \A pc, row : ToWith(w, pc, row) => wk'[w].pc = pc
      BY DEF ToWith, TypeOK, Worker
    <3>3. Finish(w) => wk'[w] = IdleWorker
      BY DEF Finish, TypeOK
    <3>4. CASE HandlerBegin(w) \/ GrantSave(w) \/ Regrant(w)
      BY <1>5, <3>2, <3>4 DEF HandlerBegin, GrantSave, Regrant, FirstPc
    <3>5. CASE GrantProcessing(w) \/ RegrantFail(w) \/ VimOk(w) \/ VimFail(w)
      BY <3>1, <3>5 DEF GrantProcessing, RegrantFail, VimOk, VimFail
    <3>6. CASE HandlerDrop(w) \/ HandlerTimeout(w) \/ GrantFail(w) \/ Commit(w) \/ Abort(w)
      BY <2>3, <3>3, <3>6 DEF HandlerDrop, HandlerTimeout, GrantFail, Commit, Abort
    <3>7. CASE CommitRow(w)
      BY <1>5, <3>7 DEF CommitRow
    <3> QED
      BY <2>3, <3>4, <3>5, <3>6, <3>7 DEF WorkerStep
  <2>4. CASE \/ \E m \in Methods, o \in Occs : ReceiveCast(w, m, o)
             \/ \E i \in Insts, op \in AutoOps, o \in Occs : AutoStart(w, i, op, o)
    BY <2>4 DEF ReceiveCast, AutoStart, TypeOK
  <2>5. CASE ConductorCrash
    BY <2>2, <2>5 DEF ConductorCrash
  <2> QED
    BY <2>1, <2>2, <2>3, <2>4, <2>5, WorkerCases
<1>6. ASSUME TxAtomic, NEW a \in Apis PROVE api'[a].pc # "failed"
  <2>1. CASE api'[a] = api[a]
    BY <1>6, <2>1 DEF ProcInv
  <2>2. CASE Client(a)
    BY <2>2 DEF Client, DeleteAccept, RequestAccept, ErrRead, TypeOK
  <2>3. CASE ApiStep(a) \/ ApiCrash(a)
    BY <1>6, <2>3, ApiOutcome DEF IdleApi
  <2> QED
    BY <2>1, <2>2, <2>3, ApiCases
<1> QED
  BY <1>2, <1>3, <1>4, <1>5, <1>6 DEF ProcInv

\* A handler goes through the steps of its method.
LEMMA FlowStep == FullInv /\ [Next]_vars => FlowInv'
<1> SUFFICES ASSUME FullInv, [Next]_vars, NEW w \in Workers PROVE FlowOk(w)'
  BY DEF FlowInv
<1> USE DEF FullInv, IInv, OInv
<1>1. CASE wk'[w] = wk[w]
  BY <1>1 DEF FlowInv, FlowOk
<1>2. CASE wk'[w] = IdleWorker
  BY <1>2 DEF FlowOk, IdleWorker
<1>3. CASE WorkerStep(w) /\ wk'[w] # IdleWorker
  <2>1. FlowOk(w) /\ wk[w].method \in Methods /\ wk'[w].method = wk[w].method
    BY <1>3, WorkerOutcome, WorkerFacts DEF FlowInv
  <2>2. \A pc : To(w, pc) => wk'[w].pc = pc
    BY DEF To, TypeOK, Worker
  <2>3. \A pc, row : ToWith(w, pc, row) => wk'[w].pc = pc
    BY DEF ToWith, TypeOK, Worker
  <2>4. Finish(w) => wk'[w] = IdleWorker
    BY DEF Finish, TypeOK
  <2>5. CASE HandlerBegin(w)
    BY <2>1, <2>3, <2>5 DEF HandlerBegin, FirstPc, FlowOk, Methods, ErrMethods
  <2>6. CASE GrantSave(w)
    BY <2>1, <2>3, <2>6 DEF GrantSave, FlowOk
  <2>7. CASE Regrant(w)
    BY <2>1, <2>3, <2>7 DEF Regrant, FlowOk, ErrMethods
  <2>8. CASE GrantProcessing(w) \/ RegrantFail(w) \/ VimOk(w) \/ VimFail(w)
    BY <2>1, <2>2, <2>8 DEF GrantProcessing, RegrantFail, VimOk, VimFail, FlowOk
  <2>9. CASE HandlerDrop(w) \/ HandlerTimeout(w) \/ GrantFail(w) \/ Commit(w) \/ Abort(w)
    BY <1>3, <2>4, <2>9 DEF HandlerDrop, HandlerTimeout, GrantFail, Commit, Abort
  <2>10. CASE CommitRow(w)
    <3>1. wk'[w].pc \in {"commit2", "commit3"}
      BY <1>3, <2>2, <2>4, <2>10 DEF CommitRow
    <3> QED
      BY <3>1 DEF FlowOk
  <2> QED
    BY <1>3, <2>5, <2>6, <2>7, <2>8, <2>9, <2>10 DEF WorkerStep
<1>4. CASE \/ \E m \in Methods, o \in Occs : ReceiveCast(w, m, o)
           \/ \E i \in Insts, op \in AutoOps, o \in Occs : AutoStart(w, i, op, o)
  BY <1>4 DEF ReceiveCast, AutoStart, FlowOk, TypeOK
<1>5. CASE ConductorCrash
  BY <1>2, <1>5 DEF ConductorCrash
<1> QED
  BY <1>1, <1>2, <1>3, <1>4, <1>5, WorkerCases

\* No step but the creation of o makes a new start_lcm_op for o.
LEMMA OneStartLess ==
    ASSUME FullInv, NEW o \in Occs,
           queue'["start_lcm_op"][o] \in Nat,
           queue'["start_lcm_op"][o] <= queue["start_lcm_op"][o],
           \A a \in Apis : StartReq(a)' /\ api'[a].occ = o => StartReq(a) /\ api[a].occ = o,
           \A w \in Workers : StartIn(w, o)' => StartIn(w, o)
    PROVE  OneStart(o)'
<1>1. OneStart(o) /\ queue["start_lcm_op"][o] \in Nat
  BY DEF FullInv, OInv, StartInv, IInv, TypeOK, Methods
<1> QED
  BY <1>1 DEF OneStart

\* Before o is stored there is no start_lcm_op for it.
LEMMA NoStartYet ==
    ASSUME FullInv, NEW o \in Occs, lcmocc[o].state = "NONE"
    PROVE  /\ queue["start_lcm_op"][o] = 0
           /\ \A a \in Apis : ~(StartReq(a) /\ api[a].occ = o)
           /\ \A w \in Workers : ~StartIn(w, o)
<1> USE DEF FullInv, IInv
<1>1. ~Stored(o)
  BY DEF Stored
<1>2. queue["start_lcm_op"][o] = 0
  BY <1>1 DEF RefInv, QueueRef, TypeOK, Methods
<1> QED
  BY <1>1, <1>2 DEF RefInv, ApiRef, WorkerRef, StartReq, StartIn

\* There is at most one start_lcm_op for an lcmocc: a request, a message or a
\* handler.
LEMMA OneStartStep ==
    ASSUME FullInv, [Next]_vars, NEW o \in Occs
    PROVE  OneStart(o)'
<1> USE DEF FullInv, IInv
<1>t. queue["start_lcm_op"][o] \in Nat /\ queue'["start_lcm_op"][o] \in Nat /\ "start_lcm_op" \in Methods
  BY TypeStep DEF TypeOK, Methods
<1>1. OneStart(o)
  BY DEF OInv, StartInv
<1>2. ASSUME NEW a \in Apis, api'[a] = api[a] \/ Client(a) \/ ((ApiStep(a) \/ ApiCrash(a)) /\ ~RequestCreate(a))
      PROVE  StartReq(a)' /\ api'[a].occ = o => StartReq(a) /\ api[a].occ = o /\ api'[a] = api[a]
  <2>1. CASE api'[a] = api[a]
    BY <2>1 DEF StartReq
  <2>2. CASE Client(a)
    BY <2>2 DEF Client, DeleteAccept, RequestAccept, ErrRead, StartReq, TypeOK
  <2>3. CASE (ApiStep(a) \/ ApiCrash(a)) /\ ~RequestCreate(a)
    <3>1. StartReq(a)' => api[a].pc = "errread" /\ api[a].req \in Ops
      BY <2>3, ApiOutcome DEF StartReq, IdleApi
    <3>2. api[a].pc = "errread" => api[a].req \notin Ops
      BY MethodOfReq DEF OInv, PastInv, ApiPast, ErrKinds
    <3> QED
      BY <3>1, <3>2
  <2> QED
    BY <1>2, <2>1, <2>2, <2>3
<1>3. ASSUME NEW w \in Workers, wk'[w] = wk[w] \/ wk'[w] = IdleWorker \/ WorkerStep(w)
      PROVE  StartIn(w, o)' => StartIn(w, o)
  BY <1>3, WorkerOutcome DEF StartIn, IdleWorker
<1>4. ASSUME NEW a \in Apis, Client(a) \/ ApiStep(a) \/ ApiCrash(a),
             \A b \in Apis : b # a => api'[b] = api[b]
      PROVE  OneStart(o)'
  <2>w. UNCHANGED wk
    BY <1>4, ApiOutcome DEF Client, DeleteAccept, RequestAccept, ErrRead
  <2>1. CASE RequestCreate(a)
    <3>1. lcmocc[api[a].occ].state = "NONE" /\ api[a].occ \in Occs /\ api'[a].occ = api[a].occ /\ UNCHANGED queue
      BY <2>1 DEF RequestCreate, RefInv, ApiRef, Goto, TypeOK, ApiThread
    <3>2. CASE api[a].occ = o
      <4>1. /\ queue'["start_lcm_op"][o] = 0
            /\ \A b \in Apis : b # a => ~(StartReq(b)' /\ api'[b].occ = o)
            /\ \A w \in Workers : ~StartIn(w, o)'
        BY <1>4, <2>w, <3>1, <3>2, NoStartYet DEF StartReq, StartIn
      <4> QED
        BY <4>1 DEF OneStart
    <3>3. CASE api[a].occ # o
      BY <1>3, <1>4, <1>t, <2>w, <3>1, <3>3, OneStartLess DEF StartReq
    <3> QED
      BY <3>2, <3>3
  <2>2. CASE RequestCast(a) /\ StartReq(a) /\ api[a].occ = o
    <3>1. MethodOf(api[a].req) = "start_lcm_op"
      BY <2>2, MethodOfReq DEF StartReq
    <3>2. queue' = [queue EXCEPT !["start_lcm_op"][o] = @ + 1]
      BY <2>2, <3>1 DEF RequestCast
    <3>3. queue'["start_lcm_op"][o] = 1
      BY <1>1, <1>t, <2>2, <3>2 DEF OneStart, TypeOK
    <3>4. ~StartReq(a)'
      BY <2>2, <1>4 DEF RequestCast, Goto, Return, StartReq, IdleApi, TypeOK, ApiThread
    <3>5. \A b \in Apis : ~(StartReq(b)' /\ api'[b].occ = o)
      BY <1>1, <1>4, <2>2, <3>4 DEF OneStart, StartReq
    <3>6. \A w \in Workers : ~StartIn(w, o)'
      BY <1>1, <2>2, <2>w DEF OneStart, StartIn
    <3> QED
      BY <3>3, <3>5, <3>6 DEF OneStart
  <2>3. CASE RequestCast(a) /\ ~(StartReq(a) /\ api[a].occ = o)
    <3>1. MethodOf(api[a].req) = "start_lcm_op" => StartReq(a)
      BY <2>3, MethodOfReq DEF RequestCast, OInv, PastInv, ApiPast, StartReq
    <3>2. api[a].occ \in Occs /\ MethodOf(api[a].req) \in Methods
      BY <2>3 DEF RequestCast, RefInv, ApiRef, MethodOf, Methods
    <3>3. queue'["start_lcm_op"][o] = queue["start_lcm_op"][o]
      BY <1>t, <2>3, <3>1, <3>2 DEF RequestCast, TypeOK
    <3>4. ~RequestCreate(a)
      BY <2>3 DEF RequestCast, RequestCreate
    <3> QED
      BY <1>2, <1>3, <1>4, <1>t, <2>w, <3>3, <3>4, OneStartLess
  <2>4. CASE ~RequestCreate(a) /\ ~RequestCast(a)
    <3>1. UNCHANGED queue
      BY <1>4, <2>4 DEF Client, DeleteAccept, RequestAccept, ErrRead, ApiStep, ApiCrash, DeleteCommit,
         RequestRelease, ErrLock, ErrReject, FailCommit, FailGrants
    <3> QED
      BY <1>2, <1>3, <1>4, <1>t, <2>4, <2>w, <3>1, OneStartLess
  <2> QED
    BY <2>1, <2>2, <2>3, <2>4
<1>5. ASSUME NEW w \in Workers, NEW m \in Methods, NEW p \in Occs, ReceiveCast(w, m, p)
      PROVE  OneStart(o)'
  <2>1. UNCHANGED api /\ \A v \in Workers : v # w => wk'[v] = wk[v]
    BY <1>5 DEF ReceiveCast, TypeOK
  <2>2. wk'[w].method = m /\ wk'[w].occ = p /\ queue[m][p] > 0 /\ wk[w].pc = "idle"
    BY <1>5 DEF ReceiveCast, TypeOK
  <2>3. queue'["start_lcm_op"][o] = IF m = "start_lcm_op" /\ p = o THEN queue["start_lcm_op"][o] - 1
                                                                    ELSE queue["start_lcm_op"][o]
    BY <1>5, <1>t DEF ReceiveCast, TypeOK
  <2>4. CASE m = "start_lcm_op" /\ p = o
    <3>1. queue'["start_lcm_op"][o] = 0
      BY <1>1, <1>t, <2>2, <2>3, <2>4 DEF OneStart
    <3>2. \A b \in Apis : ~(StartReq(b)' /\ api'[b].occ = o)
      BY <1>1, <1>t, <2>1, <2>2, <2>4 DEF OneStart, StartReq
    <3>3. \A v \in Workers : v # w => ~StartIn(v, o)'
      BY <1>1, <2>1, <2>2, <2>4 DEF OneStart, StartIn
    <3> QED
      BY <3>1, <3>2, <3>3 DEF OneStart
  <2>5. CASE ~(m = "start_lcm_op" /\ p = o)
    <3>1. ~StartIn(w, o)'
      BY <2>2, <2>5 DEF StartIn
    <3> QED
      BY <1>2, <1>3, <1>t, <2>1, <2>3, <2>5, <3>1, OneStartLess
  <2> QED
    BY <2>4, <2>5
<1>6. ASSUME NEW w \in Workers, NEW i \in Insts, NEW op \in AutoOps, NEW p \in Occs, AutoStart(w, i, op, p)
      PROVE  OneStart(o)'
  <2>1. UNCHANGED <<api, queue>> /\ \A v \in Workers : v # w => wk'[v] = wk[v]
    BY <1>6 DEF AutoStart, TypeOK
  <2>2. wk'[w].occ = p /\ lcmocc[p].state = "NONE"
    BY <1>6 DEF AutoStart, FreshOcc, TypeOK
  <2>3. CASE p = o
    BY <2>1, <2>2, <2>3, NoStartYet DEF OneStart, StartReq, StartIn
  <2>4. CASE p # o
    <3>1. ~StartIn(w, o)'
      BY <2>2, <2>4 DEF StartIn
    <3> QED
      BY <1>2, <1>3, <1>t, <2>1, <3>1, OneStartLess
  <2> QED
    BY <2>3, <2>4
<1>7. CASE UNCHANGED <<api, queue>> /\ \A w \in Workers : wk'[w] = wk[w] \/ wk'[w] = IdleWorker \/ WorkerStep(w)
  BY <1>2, <1>3, <1>7, <1>t, OneStartLess
<1>8. CASE UNCHANGED <<api, queue, wk>>
  BY <1>7, <1>8
<1>9. CASE ConductorCrash
  BY <1>7, <1>9 DEF ConductorCrash
<1>10. ASSUME NEW w \in Workers, WorkerStep(w), \A v \in Workers : v # w => wk'[v] = wk[v]
       PROVE  OneStart(o)'
  <2>1. UNCHANGED <<api, queue>>
    BY <1>10, WorkerOutcome
  <2> QED
    BY <1>7, <1>10, <2>1
<1>11. CASE \E a \in Apis : Client(a) \/ ApiStep(a) \/ ApiCrash(a)
  <2>1. ASSUME NEW a \in Apis, Client(a) \/ ApiStep(a) \/ ApiCrash(a), NEW b \in Apis, b # a
        PROVE  api'[b] = api[b]
    BY <2>1 DEF Client, DeleteAccept, RequestAccept, ErrRead, ApiStep, ApiCrash, DeleteCommit,
           RequestCreate, RequestCast, RequestRelease, ErrLock, ErrReject, FailCommit, FailGrants, Goto,
           Return, TypeOK
  <2> QED
    BY <1>4, <1>11, <2>1
<1>12. CASE \E w \in Workers : WorkerStep(w)
  <2>1. ASSUME NEW w \in Workers, WorkerStep(w), NEW v \in Workers, v # w PROVE wk'[v] = wk[v]
    BY <2>1 DEF WorkerStep, HandlerBegin, HandlerDrop, HandlerTimeout, GrantSave, GrantProcessing, GrantFail,
         Regrant, RegrantFail, VimOk, VimFail, Commit, CommitRow, Abort, To, ToWith, Finish, TypeOK
  <2> QED
    BY <1>10, <1>12, <2>1
<1>13. CASE BootStep \/ SyncStep \/ UNCHANGED vars
  BY <1>8, <1>13 DEF vars, BootStep, ConductorStart, RecoverOcc, RecoverAbort, RecoverNext, SyncStep, SyncLock,
                SyncSkip, SyncCommit
<1>14. ASSUME NEW i \in Insts, Create(i) \/ SyncList(i) \/ \E l \in 0..(MaxLevel + 1) : VimDrift(i, l)
       PROVE  UNCHANGED <<api, queue, wk>>
  BY <1>14 DEF Create, SyncList, VimDrift
<1> QED
  BY <1>5, <1>6, <1>8, <1>9, <1>11, <1>12, <1>13, <1>14 DEF Next

\* The STARTING a waiting start_lcm_op handler has read is still there.
LEMMA SeenTrueStep ==
    ASSUME FullInv, [Next]_vars, NEW w \in Workers
    PROVE  SeenTrue(w)'
<1> SUFFICES ASSUME wk'[w].pc = "recv", wk'[w].method = "start_lcm_op", wk'[w].seen = "STARTING"
             PROVE  lcmocc'[wk'[w].occ].state = "STARTING"
  BY DEF SeenTrue
<1> USE DEF FullInv, IInv, OInv
<1>1. CASE wk'[w] = wk[w]
  <2>1. wk[w].occ \in Occs /\ lcmocc[wk[w].occ].state = "STARTING" /\ StartIn(w, wk[w].occ)
    BY <1>1 DEF StartInv, SeenTrue, RefInv, WorkerRef, StartIn
  <2>2. ASSUME NEW v \in Workers, StartIn(v, wk[w].occ), wk[v].pc \in CritPcs PROVE FALSE
    <3>1. v = w
      BY <2>1, <2>2 DEF StartInv, OneStart
    <3> QED
      BY <1>1, <2>2, <3>1 DEF CritPcs
  <2>3. ~RecoverOcc(wk[w].occ)
    BY <2>1 DEF RecoverOcc, ProcInv, StartIn
  <2> QED
    BY <1>1, <2>1, <2>2, <2>3, StartingKept
<1>2. CASE WorkerStep(w)
  BY <1>2, WorkerOutcome DEF IdleWorker, CritPcs
<1>3. ASSUME NEW m \in Methods, NEW o \in Occs, ReceiveCast(w, m, o) PROVE lcmocc'[wk'[w].occ].state = "STARTING"
  BY <1>3 DEF ReceiveCast, TypeOK
<1>4. ASSUME NEW i \in Insts, NEW op \in AutoOps, NEW o \in Occs, AutoStart(w, i, op, o)
      PROVE  lcmocc'[wk'[w].occ].state = "STARTING"
  <2>1. op # "MODIFY_INFO"
    BY EnvAssumption DEF ScaleOps
  <2> QED
    BY <1>4, <2>1 DEF AutoStart, new_lcmocc, TypeOK
<1>5. CASE ConductorCrash
  BY <1>5 DEF ConductorCrash, IdleWorker
<1> QED
  BY <1>1, <1>2, <1>3, <1>4, <1>5, WorkerCases

\* StartInv is kept by every step.
LEMMA StartStep == FullInv /\ [Next]_vars => StartInv'
  BY OneStartStep, SeenTrueStep DEF StartInv

\* OInv holds at the start.
LEMMA OwnInit == Init => OInv
<1> SUFFICES ASSUME Init PROVE OInv
  OBVIOUS
<1> USE DEF Init
<1>1. PastInv
  BY DEF PastInv, ApiPast, ErrReq, ErrIn, IdleApi, IdleWorker, NoOccRow, ErrMethods, Methods
<1>2. ProcInv
  BY DEF ProcInv, IdleApi, IdleWorker, NotBooting
<1>3. StartInv
  BY DEF StartInv, OneStart, SeenTrue, StartReq, StartIn, IdleApi, IdleWorker, Methods
<1>4. HandlerOwnsOcc
  BY DEF HandlerOwnsOcc, IdleWorker, CritPcs
<1>5. FlowInv
  BY DEF FlowInv, FlowOk, IdleWorker
<1> QED
  BY <1>1, <1>2, <1>3, <1>4, <1>5 DEF OInv

----------------------------------------------------------------------------
(* The theorems.                                                           *)

(* The inductive invariant of this module: with IInv, it holds at the start    *)
(* and is kept by every request, handler, crash and recovery step.            *)
THEOREM OwnerInductive == Spec => []FullInv
<1>1. Init => FullInv
  BY TypeInit, RefInit, LockInit, RowInit, GrantInit, OwnInit DEF FullInv, IInv
<1>2. FullInv /\ [Next]_vars => FullInv'
  BY TypeStep, RefStep, LockStep, RowStep, GrantStep, PastStep, ProcStep, FlowStep, StartStep, OwnStep
     DEF FullInv, IInv, OInv
<1> QED
  BY <1>1, <1>2, PTL DEF Spec

(* Ownership of operationState: from the moment start_lcm_op, retry_lcm_op or *)
(* rollback_lcm_op has the lock until its last write, the lcmocc has the      *)
(* state that handler stored last.  Stale fail requests, doubled retries, a   *)
(* restart of the conductor: nothing else writes it.                          *)
THEOREM OwnedByHandler == Spec => []HandlerOwnsOcc
<1>1. FullInv => HandlerOwnsOcc
  BY DEF FullInv, OInv
<1> QED
  BY <1>1, OwnerInductive, PTL

\* With whole transactions, a step leaves no grant behind a closed operation.
LEMMA GrantOpenStep ==
    ASSUME TxAtomic, FullInv, GrantOnlyWhileOpen, [Next]_vars
    PROVE  GrantOnlyWhileOpen'
<1> SUFFICES ASSUME NEW o \in grants'
             PROVE  lcmocc'[o].state \in {"PROCESSING", "FAILED_TEMP", "ROLLING_BACK"}
  BY DEF GrantOnlyWhileOpen
<1> USE DEF FullInv, IInv, OInv
<1>0. o \in Occs
  BY TypeStep DEF TypeOK
<1>1. CASE o \notin grants
  <2>1. ASSUME NEW a \in Apis, Client(a) \/ ApiStep(a) \/ ApiCrash(a) PROVE FALSE
    BY <1>1, <2>1 DEF Client, DeleteAccept, RequestAccept, ErrRead, ApiStep, ApiCrash, DeleteCommit, RequestCreate,
           RequestCast, RequestRelease, ErrLock, ErrReject, FailCommit, FailGrants
  <2>2. PICK w \in Workers : GrantSave(w)
    <3>1. ASSUME NEW w \in Workers, WorkerStep(w) PROVE GrantSave(w)
      BY <1>1, <3>1 DEF WorkerStep, HandlerBegin, HandlerDrop, HandlerTimeout, GrantProcessing, GrantFail,
           Regrant, RegrantFail, VimOk, VimFail, Commit, CommitRow, Abort, DeleteGrants
    <3> QED
      BY <1>1, <2>1, <3>1 DEF Next, vars, Create, ReceiveCast, AutoStart, ConductorCrash, BootStep, ConductorStart,
         RecoverOcc, RecoverAbort, RecoverNext, SyncList, VimDrift, SyncStep, SyncLock, SyncSkip, SyncCommit
  <2>3. wk[w].occ = o /\ update_lcmocc_status(o, "PROCESSING")
    BY <1>1, <2>2 DEF GrantSave
  <2> QED
    BY <1>0, <2>3 DEF update_lcmocc_status, TypeOK, OccRow
<1>2. CASE o \in grants /\ lcmocc'[o].state = lcmocc[o].state
  BY <1>2 DEF GrantOnlyWhileOpen
<1>3. CASE o \in grants /\ lcmocc'[o].state # lcmocc[o].state
  <2>1. Past(o) /\ Stored(o)
    BY <1>0, <1>3 DEF GrantOnlyWhileOpen, Past, RefInv
  <2>2. \A st : update_lcmocc_status(o, st) => lcmocc'[o].state = st
    BY <1>0 DEF update_lcmocc_status, TypeOK, OccRow
  <2>3. ASSUME NEW w \in Workers, WorkerStep(w), wk[w].occ = o
        PROVE  lcmocc'[o].state \in {"PROCESSING", "FAILED_TEMP", "ROLLING_BACK"}
    <3>1. CASE HandlerBegin(w)
      BY <1>3, <2>2, <2>3, <3>1 DEF HandlerBegin, FirstWrite
    <3>2. CASE GrantSave(w) \/ GrantProcessing(w) \/ Abort(w)
      BY <1>3, <2>2, <2>3, <3>2 DEF GrantSave, GrantProcessing, Abort
    <3>3. CASE GrantFail(w)
      <4>1. wk[w].pc = "granting"
        BY <2>3, <3>3 DEF GrantFail, ProcInv
      <4>2. wk[w].method # "modify_vnfinfo" => lcmocc[o].state = "STARTING"
        BY <2>3, <4>1 DEF HandlerOwnsOcc, StateAt, CritPcs
      <4>3. wk[w].method # "modify_vnfinfo"
        BY <4>1 DEF FlowInv, FlowOk
      <4> QED
        BY <2>1, <4>2, <4>3 DEF Past
    <3>4. CASE Commit(w)
      BY <2>3, <3>4 DEF Commit, DeleteGrants
    <3>5. CASE CommitRow(w)
      BY <3>5 DEF CommitRow
    <3>6. CASE HandlerDrop(w) \/ HandlerTimeout(w) \/ Regrant(w) \/ RegrantFail(w) \/ VimOk(w) \/ VimFail(w)
      BY <1>3, <3>6 DEF HandlerDrop, HandlerTimeout, Regrant, RegrantFail, VimOk, VimFail
    <3> QED
      BY <2>3, <3>1, <3>2, <3>3, <3>4, <3>5, <3>6 DEF WorkerStep
  <2>4. ASSUME NEW a \in Apis, FailCommit(a), api[a].occ = o PROVE FALSE
    BY <2>4 DEF FailCommit
  <2>5. CASE RecoverOcc(o)
    <3>1. boot.phase = 1 => lcmocc[o].state = "STARTING"
      BY <2>5 DEF RecoverOcc, ProcInv
    <3>2. boot.phase # 1
      BY <2>1, <3>1 DEF Past
    <3> QED
      BY <2>2, <2>5, <3>2 DEF RecoverOcc, After
  <2> QED
    BY <1>0, <1>3, <2>1, <2>3, <2>4, <2>5, OccOwner
<1> QED
  BY <1>1, <1>2, <1>3

(* "grant_req and grant will be deleted when operationState becomes an end    *)
(* state": when a session.begin block commits as a whole, a grant on record   *)
(* belongs to an operation that is PROCESSING, FAILED_TEMP or ROLLING_BACK,    *)
(* whatever crashes, late fail requests and the recovery do.                  *)
THEOREM GrantsClosed ==
    ASSUME TxAtomic
    PROVE  Spec => []GrantOnlyWhileOpen
<1>1. Init => GrantOnlyWhileOpen
  BY DEF Init, GrantOnlyWhileOpen
<1>2. FullInv /\ GrantOnlyWhileOpen /\ [Next]_vars => GrantOnlyWhileOpen'
  BY GrantOpenStep
<1> QED
  BY <1>1, <1>2, OwnerInductive, PTL DEF Spec

============================================================================
