-------------------------- MODULE LcmSerial_proofs --------------------------
(***************************************************************************)
(* What the v2 stack guarantees to a client that waits for the end of what  *)
(* it started (SerialClient), does not use PATCH (MODIFY_INFO), has no      *)
(* automatic operations running beside it, and whose database does not      *)
(* raise between the writes of one block: the occurrences follow SOL003's   *)
(* state machine one at a time (the refinement of LcmOpOcc), an operation   *)
(* in FAILED_TEMP has its grant, and an open operation has its instance.    *)
(* Any number of instances, operations, threads and crashes.               *)
(*                                                                         *)
(* SInv says what makes a waiting client safe: of the requests, messages    *)
(* and handlers of a retry, rollback or fail there is one per lcmocc, and   *)
(* until it acts the lcmocc is in FAILED_TEMP (ErrInv); a request that was  *)
(* let in finds no operation open (RequestInv); the recovery's list is not  *)
(* stale (BootInv).  The last part is about the VIM.                        *)
(***************************************************************************)
EXTENDS LcmOwner_proofs

Serial ==
    /\ SerialClient
    /\ AutoOps = {}
    /\ ~DbFaults
    /\ "MODIFY_INFO" \notin ClientOps

OpenStates == IngStates \cup {"FAILED_TEMP"}

----------------------------------------------------------------------------
(* The inductive invariant.                                                *)

\* One request at a time for an instance.
OneRequest ==
    \A a, b \in Apis : api[a].pc # "idle" /\ api[b].pc # "idle" /\ api[a].inst = api[b].inst => a = b

NoModify ==
    /\ \A o \in Occs : lcmocc[o].op # "MODIFY_INFO"
    /\ \A a \in Apis : api[a].req # "MODIFY_INFO"

\* At most one of: a retry, rollback or fail request for o, the message of one,
\* a handler of it.
OneErr(o) ==
    /\ \A m, n \in ErrMethods : queue[m][o] <= 1 /\ (queue[m][o] > 0 /\ queue[n][o] > 0 => m = n)
    /\ \A v, w \in Workers : ErrIn(v, o) /\ ErrIn(w, o) => v = w
    /\ \A a \in Apis : ErrReq(a) /\ api[a].occ = o =>
          (\A m \in ErrMethods : queue[m][o] = 0) /\ (\A w \in Workers : ~ErrIn(w, o))
    /\ \A m \in ErrMethods : queue[m][o] > 0 => \A w \in Workers : ~ErrIn(w, o)

\* One of them has not been acted upon.
Pending(o) ==
    \/ \E a \in Apis : ErrReq(a) /\ api[a].occ = o
    \/ \E m \in ErrMethods : queue[m][o] > 0
    \/ \E w \in Workers : ErrIn(w, o) /\ wk[w].pc = "recv"

ErrInv == \A o \in Occs : OneErr(o) /\ (Pending(o) => lcmocc[o].state = "FAILED_TEMP")

BootInv == \A o \in boot.todo : lcmocc[o].state = Before(boot.phase)

\* A request let in, or a delete, finds no operation open on its instance.
Settled(a) ==
    api[a].pc \in {"checked", "deleting"} =>
        /\ \A o \in Occs : lcmocc[o].inst = api[a].inst => lcmocc[o].state \notin OpenStates
        /\ Exists(inst[api[a].inst])

FailedTrue(a) == api[a].pc = "failed" => lcmocc[api[a].occ].state = "FAILED"

RequestInv == OneRequest /\ \A a \in Apis : Settled(a) /\ FailedTrue(a)

GrantKept == \A o \in Occs : lcmocc[o].state \in OpenStates \ {"STARTING"} => o \in grants

RowExists == \A w \in Workers : wk[w].pc \in CritPcs => Exists(wk[w].row)

SInv == NoModify /\ ErrInv /\ BootInv /\ RequestInv /\ GrantKept /\ OpenOccHasInst /\ RowExists

SerialInv == FullInv /\ SInv

----------------------------------------------------------------------------
(* Every write of operationState is an edge of SOL003's state machine.      *)

\* The states and the edges, spelled out.
LEMMA Edges ==
    /\ OpenStates = {"STARTING", "PROCESSING", "FAILED_TEMP", "ROLLING_BACK"}
    /\ <<"STARTING", "PROCESSING">> \in Abstract!Edge
    /\ <<"STARTING", "ROLLED_BACK">> \in Abstract!Edge
    /\ <<"PROCESSING", "COMPLETED">> \in Abstract!Edge
    /\ <<"PROCESSING", "FAILED_TEMP">> \in Abstract!Edge
    /\ <<"FAILED_TEMP", "PROCESSING">> \in Abstract!Edge
    /\ <<"FAILED_TEMP", "ROLLING_BACK">> \in Abstract!Edge
    /\ <<"FAILED_TEMP", "FAILED">> \in Abstract!Edge
    /\ <<"ROLLING_BACK", "ROLLED_BACK">> \in Abstract!Edge
    /\ <<"ROLLING_BACK", "FAILED_TEMP">> \in Abstract!Edge
    /\ \A s, t : <<s, t>> \in Abstract!Edge => s \in OpenStates /\ t \in Abstract!States
  BY DEF OpenStates, IngStates, Abstract!Edge, Abstract!States

\* A handler under Serial is not one of modify_vnfinfo.
LEMMA NotModify ==
    ASSUME SerialInv, NEW w \in Workers, wk[w].pc # "idle"
    PROVE  wk[w].method \in {"start_lcm_op", "retry_lcm_op", "rollback_lcm_op"}
  BY WorkerFacts DEF SerialInv, SInv, NoModify, FullInv, IInv, RefInv, WorkerRef, Methods

\* What a handler's step does to the state of its lcmocc.
LEMMA HandlerEdge ==
    ASSUME Serial, SerialInv, NEW w \in Workers, WorkerStep(w), NEW o \in Occs, wk[w].occ = o,
           lcmocc'[o] # lcmocc[o]
    PROVE  \E t : /\ <<lcmocc[o].state, t>> \in Abstract!Edge
                  /\ update_lcmocc_status(o, t)
                  /\ lcmocc[o].state = "FAILED_TEMP" => HandlerBegin(w) /\ ErrIn(w, o)
                  /\ lcmocc[o].state = "STARTING" /\ t = "PROCESSING" =>
                        GrantSave(w) \/ GrantProcessing(w)
<1> USE DEF SerialInv, FullInv, IInv, OInv, SInv, Serial
<1>0. wk[w].pc # "idle" /\ wk[w].method \in {"start_lcm_op", "retry_lcm_op", "rollback_lcm_op"}
  BY WorkerOutcome, NotModify
<1>1. wk[w].pc \in CritPcs => lcmocc[o].state = StateAt(w)
  BY <1>0 DEF HandlerOwnsOcc
<1>2. CASE HandlerBegin(w)
  <2>1. wk[w].method \in ErrMethods
    BY <1>0, <1>2 DEF HandlerBegin, FirstWrite, ErrMethods
  <2>2. ErrIn(w, o) /\ lcmocc[o].state = "FAILED_TEMP"
    BY <1>0, <1>2, <2>1 DEF HandlerBegin, ErrIn, ErrInv, Pending
  <2>3. CASE wk[w].method = "retry_lcm_op"
    BY <1>2, <2>2, <2>3, Edges DEF HandlerBegin, FirstWrite
  <2>4. CASE wk[w].method = "rollback_lcm_op"
    BY <1>2, <2>2, <2>4, Edges DEF HandlerBegin, FirstWrite
  <2> QED
    BY <2>1, <2>3, <2>4 DEF ErrMethods
<1>3. CASE GrantSave(w) \/ GrantProcessing(w)
  <2>1. lcmocc[o].state = "STARTING"
    BY <1>1, <1>3 DEF GrantSave, GrantProcessing, StateAt, CritPcs
  <2>2. update_lcmocc_status(o, "PROCESSING")
    BY <1>3 DEF GrantSave, GrantProcessing
  <2> QED
    BY <1>3, <2>1, <2>2, Edges
<1>4. CASE GrantFail(w)
  <2>1. lcmocc[o].state = "STARTING" /\ update_lcmocc_status(o, "ROLLED_BACK")
    BY <1>1, <1>4 DEF GrantFail, StateAt, CritPcs
  <2> QED
    BY <2>1, Edges
<1>5. CASE Abort(w)
  <2>1. lcmocc[o].state \in {"PROCESSING", "ROLLING_BACK"} /\ update_lcmocc_status(o, "FAILED_TEMP")
    BY <1>1, <1>5 DEF Abort, StateAt, CritPcs
  <2> QED
    BY <2>1, Edges
<1>6. CASE Commit(w) \/ CommitRow(w)
  <2>1. WriteOcc(w) /\ wk[w].pc \in {"commit1", "commit2"}
    BY <1>6 DEF Commit, CommitRow
  <2>2. CASE wk[w].method = "rollback_lcm_op"
    <3>1. wk[w].pc = "commit1" /\ lcmocc[o].state = "ROLLING_BACK"
      BY <1>1, <1>6, <2>2 DEF Commit, CommitRow, StateAt, CritPcs
    <3> QED
      BY <2>1, <2>2, <3>1, Edges DEF WriteOcc
  <2>3. CASE wk[w].method # "rollback_lcm_op"
    <3>1. lcmocc[o].state = "PROCESSING"
      BY <1>1, <2>1, <2>3 DEF StateAt, CritPcs
    <3> QED
      BY <2>1, <2>3, <3>1, Edges DEF WriteOcc
  <2> QED
    BY <2>2, <2>3
<1>7. CASE HandlerDrop(w) \/ HandlerTimeout(w) \/ Regrant(w) \/ RegrantFail(w) \/ VimOk(w) \/ VimFail(w)
  BY <1>7 DEF HandlerDrop, HandlerTimeout, Regrant, RegrantFail, VimOk, VimFail
<1> QED
  BY <1>2, <1>3, <1>4, <1>5, <1>6, <1>7 DEF WorkerStep

\* What any step does to the state of a stored lcmocc.
LEMMA Transition ==
    ASSUME Serial, SerialInv, [Next]_vars, NEW o \in Occs, Stored(o), lcmocc'[o] # lcmocc[o]
    PROVE  \E t : /\ <<lcmocc[o].state, t>> \in Abstract!Edge
                  /\ update_lcmocc_status(o, t)
                  /\ lcmocc[o].state = "FAILED_TEMP" =>
                        \/ \E w \in Workers : HandlerBegin(w) /\ ErrIn(w, o)
                        \/ \E a \in Apis : FailCommit(a) /\ api[a].occ = o
                  /\ lcmocc[o].state = "STARTING" /\ t = "PROCESSING" =>
                        \E w \in Workers : wk[w].occ = o /\ (GrantSave(w) \/ GrantProcessing(w))
<1> USE DEF SerialInv, FullInv, IInv, OInv, SInv
<1>1. CASE \E w \in Workers : WorkerStep(w) /\ wk[w].occ = o
  BY <1>1, HandlerEdge
<1>2. ASSUME NEW a \in Apis, FailCommit(a), api[a].occ = o
      PROVE  lcmocc[o].state = "FAILED_TEMP" /\ update_lcmocc_status(o, "FAILED")
  BY <1>2 DEF FailCommit, ErrInv, Pending, ErrReq
<1>3. CASE \E a \in Apis : FailCommit(a) /\ api[a].occ = o
  BY <1>2, <1>3, Edges
<1>4. CASE RecoverOcc(o)
  <2>1. lcmocc[o].state = Before(boot.phase) /\ update_lcmocc_status(o, After(boot.phase))
    BY <1>4 DEF RecoverOcc, BootInv
  <2>2. /\ <<Before(boot.phase), After(boot.phase)>> \in Abstract!Edge
        /\ Before(boot.phase) # "FAILED_TEMP"
        /\ After(boot.phase) # "PROCESSING"
    BY Edges DEF Before, After
  <2> QED
    BY <2>1, <2>2
<1> QED
  BY <1>1, <1>3, <1>4, OccOwner

----------------------------------------------------------------------------
(* Who stores a new lcmocc.                                                *)

\* Without automatic operations, a request that was let in.
LEMMA NewOcc ==
    ASSUME Serial, SerialInv, [Next]_vars, NEW o \in Occs, ~Stored(o), lcmocc'[o] # lcmocc[o]
    PROVE  \E a \in Apis : RequestCreate(a) /\ api[a].occ = o
<1> USE DEF SerialInv, FullInv, IInv
<1>1. ASSUME NEW a \in Apis, Client(a) \/ ApiStep(a) \/ ApiCrash(a)
      PROVE  RequestCreate(a) /\ api[a].occ = o
  <2>1. CASE RequestCreate(a)
    BY <2>1 DEF RequestCreate, new_lcmocc, TypeOK
  <2>2. CASE FailCommit(a)
    BY <2>2 DEF FailCommit, update_lcmocc_status, RefInv, ApiRef, TypeOK
  <2>3. CASE ~RequestCreate(a) /\ ~FailCommit(a)
    BY <1>1, <2>3 DEF Client, DeleteAccept, RequestAccept, ErrRead, ApiStep, ApiCrash, DeleteCommit,
           RequestCast, RequestRelease, ErrLock, ErrReject, FailGrants
  <2> QED
    BY <2>1, <2>2, <2>3
<1>2. ASSUME NEW w \in Workers, WorkerStep(w) PROVE FALSE
  <2>1. wk[w].occ \in Occs /\ Stored(wk[w].occ)
    BY <1>2, WorkerOutcome, WorkerFacts
  <2>2. UNCHANGED lcmocc \/ \E st : update_lcmocc_status(wk[w].occ, st)
    BY <1>2 DEF WorkerStep, HandlerBegin, FirstWrite, HandlerDrop, HandlerTimeout, GrantSave, GrantProcessing,
           GrantFail, Regrant, RegrantFail, VimOk, VimFail, Commit, CommitRow, WriteOcc, Abort
  <2> QED
    BY <2>1, <2>2 DEF update_lcmocc_status, TypeOK
<1>3. ASSUME NEW p \in Occs, RecoverOcc(p) PROVE FALSE
  BY <1>3 DEF RecoverOcc, update_lcmocc_status, RefInv, TypeOK
<1>4. ~\E w \in Workers, i \in Insts, op \in AutoOps, p \in Occs : AutoStart(w, i, op, p)
  BY DEF Serial
<1> QED
  BY <1>1, <1>2, <1>3, <1>4 DEF Next, vars, Create, ReceiveCast, ConductorCrash, BootStep, ConductorStart,
     RecoverAbort, RecoverNext, SyncList, VimDrift, SyncStep, SyncLock, SyncSkip, SyncCommit

----------------------------------------------------------------------------
(* NoModify and OneRequest.                                                *)

\* What a request thread does in a step: nothing, a new request, its end, or one
\* step further with the same request.
LEMMA ApiMoves ==
    ASSUME IInv, [Next]_vars, NEW a \in Apis
    PROVE  \/ api'[a] = api[a]
           \/ Client(a)
           \/ api'[a] = IdleApi
           \/ /\ ApiStep(a)
              /\ api[a].pc # "idle"
              /\ api'[a].occ = api[a].occ
              /\ api'[a].req = api[a].req
              /\ api'[a].inst = api[a].inst
              /\ api'[a].pc \in {"created", "cast", "failing", "failed"}
              /\ api'[a].pc = "created" => RequestCreate(a) \/ (api[a].pc = "errread" /\ api[a].req # "fail")
              /\ api'[a].pc = "failing" => api[a].pc = "errread"
              /\ api'[a].pc = "failed" => FailCommit(a)
<1>1. CASE ApiCrash(a)
  BY <1>1 DEF ApiCrash, Return, IInv, TypeOK
<1>2. CASE ApiStep(a)
  BY <1>2, ApiOutcome
<1> QED
  BY <1>1, <1>2, ApiCases DEF IInv

\* No PATCH is ever under way.
LEMMA NoModifyStep ==
    ASSUME Serial, SerialInv, [Next]_vars
    PROVE  NoModify'
<1> USE DEF SerialInv, FullInv, IInv, SInv, NoModify
<1>1. ASSUME NEW a \in Apis PROVE api'[a].req # "MODIFY_INFO"
  <2>1. CASE Client(a)
    BY <2>1 DEF Client, DeleteAccept, RequestAccept, ErrRead, ErrKinds, Serial, TypeOK
  <2>2. CASE api'[a] = IdleApi
    BY <2>2 DEF IdleApi
  <2> QED
    BY <2>1, <2>2, ApiMoves
<1>2. ASSUME NEW o \in Occs PROVE lcmocc'[o].op # "MODIFY_INFO"
  <2>1. CASE Stored(o)
    BY <2>1, OccStep DEF OccKept
  <2>2. CASE ~Stored(o)
    <3>1. lcmocc[o].state = "NONE"
      BY <2>2 DEF RefInv
    <3>2. CASE lcmocc'[o] = lcmocc[o]
      BY <3>2
    <3>3. CASE lcmocc'[o] # lcmocc[o]
      <4>1. PICK a \in Apis : RequestCreate(a) /\ api[a].occ = o
        BY <2>2, <3>3, NewOcc
      <4>2. lcmocc'[o].op = api[a].req
        BY <4>1 DEF RequestCreate, new_lcmocc, TypeOK
      <4> QED
        BY <4>2
    <3> QED
      BY <3>2, <3>3
  <2> QED
    BY <2>1, <2>2
<1> QED
  BY <1>1, <1>2

\* A request is let in when no other is under way on its instance.
LEMMA OneRequestStep ==
    ASSUME Serial, SerialInv, [Next]_vars
    PROVE  OneRequest'
<1> SUFFICES ASSUME NEW a \in Apis, NEW b \in Apis, api'[a].pc # "idle", api'[b].pc # "idle",
                    api'[a].inst = api'[b].inst, a # b
             PROVE  FALSE
  BY DEF OneRequest
<1> USE DEF SerialInv, FullInv, IInv, SInv, RequestInv
<1>1. ASSUME NEW c \in Apis, NEW d \in Apis, c # d, Client(c), api'[d] = api[d], api'[c].inst = api'[d].inst
      PROVE  FALSE
  BY <1>1 DEF Client, DeleteAccept, RequestAccept, ErrRead, MayRequest, Quiet, Serial, TypeOK
<1>2. ASSUME NEW c \in Apis, api'[c].pc # "idle", ~Client(c)
      PROVE  api[c].pc # "idle" /\ api'[c].inst = api[c].inst
  BY <1>2, ApiMoves DEF IdleApi
<1>3. CASE ~Client(a) /\ ~Client(b)
  BY <1>2, <1>3 DEF OneRequest
<1>4. ASSUME NEW c \in Apis, Client(c), NEW d \in Apis, d # c PROVE api'[d] = api[d]
  BY <1>4 DEF Client, DeleteAccept, RequestAccept, ErrRead, TypeOK
<1> QED
  BY <1>1, <1>3, <1>4

----------------------------------------------------------------------------
(* ErrInv: one retry, rollback or fail at a time, on an lcmocc that is in    *)
(* FAILED_TEMP until it is acted upon.                                      *)

\* A retry, rollback or fail request is new, or was one before the step.
LEMMA ErrReqMoves ==
    ASSUME SerialInv, [Next]_vars, NEW a \in Apis, ErrReq(a)'
    PROVE  \/ /\ ErrReq(a)
              /\ api'[a].occ = api[a].occ
              /\ api'[a].inst = api[a].inst
           \/ \E kind \in ErrKinds : api'[a].occ \in Occs /\ ErrRead(a, api'[a].occ, kind)
<1> USE DEF SerialInv, FullInv, IInv
<1>1. CASE api'[a] = api[a]
  BY <1>1 DEF ErrReq
<1>2. CASE Client(a)
  <2>1. ASSUME NEW o \in Occs, NEW kind \in ErrKinds, ErrRead(a, o, kind)
        PROVE  api'[a].occ = o
    BY <2>1 DEF ErrRead, TypeOK
  <2>2. ~(\E i \in Insts : DeleteAccept(a, i))
        /\ ~(\E i \in Insts, op \in ClientOps, o \in Occs : RequestAccept(a, i, op, o))
    BY DEF DeleteAccept, RequestAccept, ErrReq, TypeOK
  <2> QED
    BY <1>2, <2>1, <2>2 DEF Client
<1>3. CASE api'[a] = IdleApi
  BY <1>3 DEF IdleApi, ErrReq
<1>4. CASE RequestCreate(a)
  <2>1. api'[a].pc = "created" /\ api'[a].req \in Ops
    BY <1>4 DEF RequestCreate, Goto, RefInv, ApiRef, TypeOK, ApiThread
  <2> QED
    BY <2>1, MethodOfReq DEF ErrReq
<1> QED
  BY <1>1, <1>2, <1>3, <1>4, ApiMoves DEF ErrReq

\* A retry or rollback handler has received its message now or earlier; one that
\* waits for the lock has not moved.
LEMMA ErrInMoves ==
    ASSUME SerialInv, [Next]_vars, NEW w \in Workers, NEW o \in Occs, ErrIn(w, o)'
    PROVE  \/ ErrIn(w, o) /\ (wk'[w].pc = "recv" => wk'[w] = wk[w])
           \/ \E m \in ErrMethods : ReceiveCast(w, m, o)
<1> USE DEF SerialInv, FullInv, IInv
<1>0. wk'[w] # IdleWorker
  BY DEF ErrIn, IdleWorker
<1>1. CASE wk'[w] = wk[w]
  BY <1>1 DEF ErrIn
<1>2. CASE WorkerStep(w)
  BY <1>0, <1>2, WorkerOutcome DEF ErrIn, CritPcs
<1>3. ASSUME NEW m \in Methods, NEW p \in Occs, ReceiveCast(w, m, p) PROVE m \in ErrMethods /\ p = o
  BY <1>3 DEF ReceiveCast, ErrIn, TypeOK
<1>4. CASE \E i \in Insts, op \in AutoOps, p \in Occs : AutoStart(w, i, op, p)
  BY <1>4 DEF AutoStart, ErrIn, ErrMethods, TypeOK
<1>5. CASE ConductorCrash
  BY <1>0, <1>5 DEF ConductorCrash
<1> QED
  BY <1>1, <1>2, <1>3, <1>4, <1>5, WorkerCases

\* A retry or rollback message comes from such a request.
LEMMA ErrQueueMoves ==
    ASSUME SerialInv, [Next]_vars, NEW m \in ErrMethods, NEW o \in Occs
    PROVE  /\ queue[m][o] \in Nat /\ queue'[m][o] \in Nat
           /\ \/ queue'[m][o] <= queue[m][o]
              \/ \E a \in Apis : /\ RequestCast(a)
                                 /\ ErrReq(a)
                                 /\ api[a].occ = o
                                 /\ queue'[m][o] = queue[m][o] + 1
                                 /\ \A n \in ErrMethods : n # m => queue'[n][o] = queue[n][o]
<1> USE DEF SerialInv, FullInv, IInv
<1>1. ErrMethods \subseteq Methods
  BY DEF ErrMethods, Methods
<1>2. queue[m][o] \in Nat /\ queue'[m][o] \in Nat
  BY <1>1, TypeStep DEF TypeOK
<1>3. ASSUME NEW a \in Apis, RequestCast(a), MethodOf(api[a].req) = m PROVE ErrReq(a)
  BY <1>3, MethodOfReq DEF RequestCast, OInv, PastInv, ApiPast, ErrReq, ErrMethods
<1> QED
  BY <1>1, <1>2, <1>3, QueueCases

\* There is at most one of them for an lcmocc.
LEMMA OneErrStep ==
    ASSUME Serial, SerialInv, [Next]_vars, NEW o \in Occs
    PROVE  OneErr(o)'
<1> USE DEF SerialInv, FullInv, IInv, SInv
<1>1. OneErr(o)
  BY DEF ErrInv
<1>2. \A m \in ErrMethods : queue[m][o] \in Nat /\ queue'[m][o] \in Nat
  BY ErrQueueMoves
<1>3. ASSUME NEW a \in Apis, NEW b \in Apis, ErrReq(a), ErrReq(b), api[a].occ = o, api[b].occ = o
      PROVE  a = b
  BY <1>3 DEF ErrReq, RefInv, ApiRef, RequestInv, OneRequest
<1>4. ASSUME NEW a \in Apis, NEW kind \in ErrKinds, ErrRead(a, o, kind) PROVE OneErr(o)'
  <2>1. UNCHANGED <<queue, wk>>
    BY <1>4 DEF ErrRead
  <2>2. \A m \in ErrMethods : queue[m][o] = 0 /\ \A w \in Workers : ~(wk[w].occ = o /\ wk[w].method = m)
    BY <1>4 DEF ErrRead, MayRequest, Quiet, Serial, ErrMethods
  <2> QED
    BY <2>1, <2>2 DEF OneErr, ErrIn
<1>5. ASSUME NEW a \in Apis, RequestCast(a), ErrReq(a), api[a].occ = o PROVE OneErr(o)'
  <2>1. UNCHANGED wk /\ \A b \in Apis : b # a => api'[b] = api[b]
    BY <1>5 DEF RequestCast, Goto, Return, TypeOK
  <2>2. ~ErrReq(a)'
    BY <1>5 DEF RequestCast, Goto, Return, ErrReq, IdleApi, TypeOK, ApiThread
  <2>3. \A b \in Apis : ~(ErrReq(b)' /\ api'[b].occ = o)
    BY <1>3, <1>5, <2>1, <2>2 DEF ErrReq
  <2>4. /\ \A m \in ErrMethods : queue[m][o] = 0
        /\ \A w \in Workers : ~ErrIn(w, o)'
    BY <1>1, <1>5, <2>1 DEF OneErr, ErrIn
  <2>5. \A m, n \in ErrMethods : queue'[m][o] <= 1 /\ (queue'[m][o] > 0 /\ queue'[n][o] > 0 => m = n)
    BY <1>2, <2>4, ErrQueueMoves
  <2> QED
    BY <2>3, <2>4, <2>5 DEF OneErr
<1>6. ASSUME NEW w \in Workers, NEW m \in ErrMethods, ReceiveCast(w, m, o) PROVE OneErr(o)'
  <2>1. UNCHANGED api /\ (\A v \in Workers : v # w => wk'[v] = wk[v]) /\ queue[m][o] > 0
    BY <1>6 DEF ReceiveCast, TypeOK
  <2>2. queue'[m][o] = queue[m][o] - 1 /\ \A n \in ErrMethods : n # m => queue'[n][o] = queue[n][o]
    BY <1>6 DEF ReceiveCast, ErrMethods, Methods, TypeOK
  <2>3. \A n \in ErrMethods : queue'[n][o] = 0
    BY <1>1, <1>2, <2>1, <2>2 DEF OneErr
  <2>4. \A v \in Workers : v # w => ~ErrIn(v, o)'
    BY <1>1, <2>1 DEF OneErr, ErrIn
  <2>5. \A a \in Apis : ~(ErrReq(a)' /\ api'[a].occ = o)
    BY <1>1, <1>2, <2>1 DEF OneErr, ErrReq
  <2> QED
    BY <2>3, <2>4, <2>5 DEF OneErr
<1>7. CASE /\ ~\E a \in Apis, kind \in ErrKinds : ErrRead(a, o, kind)
           /\ ~\E a \in Apis : RequestCast(a) /\ ErrReq(a) /\ api[a].occ = o
           /\ ~\E w \in Workers, m \in ErrMethods : ReceiveCast(w, m, o)
  <2>1. \A m \in ErrMethods : queue'[m][o] <= queue[m][o]
    BY <1>7, ErrQueueMoves
  <2>2. \A a \in Apis : ErrReq(a)' /\ api'[a].occ = o => ErrReq(a) /\ api[a].occ = o
    BY <1>7, ErrReqMoves
  <2>3. \A w \in Workers : ErrIn(w, o)' => ErrIn(w, o)
    BY <1>7, ErrInMoves
  <2>4. \A m, n \in ErrMethods : queue'[m][o] <= 1 /\ (queue'[m][o] > 0 /\ queue'[n][o] > 0 => m = n)
    BY <1>1, <1>2, <2>1 DEF OneErr
  <2>5. \A a \in Apis : ErrReq(a)' /\ api'[a].occ = o =>
          (\A m \in ErrMethods : queue'[m][o] = 0) /\ (\A w \in Workers : ~ErrIn(w, o)')
    BY <1>1, <1>2, <2>1, <2>2, <2>3 DEF OneErr
  <2>6. \A m \in ErrMethods : queue'[m][o] > 0 => \A w \in Workers : ~ErrIn(w, o)'
    BY <1>1, <1>2, <2>1, <2>3 DEF OneErr
  <2> QED
    BY <1>1, <2>3, <2>4, <2>5, <2>6 DEF OneErr
<1> QED
  BY <1>4, <1>5, <1>6, <1>7

\* What is pending after a step was pending before, or is a new request.
LEMMA PendingMoves ==
    ASSUME Serial, SerialInv, [Next]_vars, NEW o \in Occs, Pending(o)'
    PROVE  /\ Pending(o) \/ \E a \in Apis, kind \in ErrKinds : ErrRead(a, o, kind)
           /\ ~\E a \in Apis : FailCommit(a) /\ api[a].occ = o
           /\ ~\E w \in Workers : HandlerBegin(w) /\ ErrIn(w, o)
<1> USE DEF SerialInv, FullInv, IInv, SInv
<1>0. OneErr(o) /\ \A m \in ErrMethods : queue[m][o] \in Nat /\ queue'[m][o] \in Nat
  BY ErrQueueMoves DEF ErrInv
<1>1. Pending(o) \/ \E a \in Apis, kind \in ErrKinds : ErrRead(a, o, kind)
  <2>1. ASSUME NEW m \in ErrMethods, queue'[m][o] > 0 PROVE Pending(o)
    BY <1>0, <2>1, ErrQueueMoves DEF Pending
  <2>2. ASSUME NEW w \in Workers, ErrIn(w, o)', wk'[w].pc = "recv" PROVE Pending(o)
    <3>1. CASE ErrIn(w, o) /\ wk'[w] = wk[w]
      BY <2>2, <3>1 DEF Pending
    <3>2. CASE \E m \in ErrMethods : ReceiveCast(w, m, o)
      BY <3>2 DEF Pending, ReceiveCast
    <3> QED
      BY <2>2, <3>1, <3>2, ErrInMoves
  <2>3. ASSUME NEW a \in Apis, ErrReq(a)', api'[a].occ = o
        PROVE  Pending(o) \/ \E kind \in ErrKinds : ErrRead(a, o, kind)
    BY <2>3, ErrReqMoves DEF Pending
  <2> QED
    BY <2>1, <2>2, <2>3 DEF Pending
<1>2. ASSUME NEW a \in Apis, FailCommit(a), api[a].occ = o PROVE FALSE
  <2>1. ErrReq(a) /\ UNCHANGED <<queue, wk>> /\ \A b \in Apis : b # a => api'[b] = api[b]
    BY <1>2 DEF FailCommit, ErrReq, Goto, Return, TypeOK
  <2>2. ~ErrReq(a)'
    BY <1>2 DEF FailCommit, Goto, Return, ErrReq, IdleApi, TypeOK, ApiThread
  <2>3. \A b \in Apis : b # a => ~(ErrReq(b) /\ api[b].occ = o)
    BY <1>2, <2>1 DEF ErrReq, RefInv, ApiRef, RequestInv, OneRequest
  <2>4. (\A m \in ErrMethods : queue[m][o] = 0) /\ (\A w \in Workers : ~ErrIn(w, o))
    BY <1>0, <1>2, <2>1 DEF OneErr
  <2> QED
    BY <2>1, <2>2, <2>3, <2>4 DEF Pending, ErrReq, ErrIn
<1>3. ASSUME NEW w \in Workers, HandlerBegin(w), ErrIn(w, o) PROVE FALSE
  <2>1. UNCHANGED <<queue, api>> /\ \A v \in Workers : v # w => wk'[v] = wk[v]
    BY <1>3 DEF HandlerBegin, ToWith, TypeOK
  <2>2. wk'[w].pc # "recv"
    BY <1>3, WorkerOutcome DEF WorkerStep, IdleWorker, CritPcs
  <2>3. \A v \in Workers : v # w => ~ErrIn(v, o)
    BY <1>0, <1>3 DEF OneErr
  <2>4. \A m \in ErrMethods : queue[m][o] = 0
    BY <1>0, <1>3 DEF OneErr
  <2>5. \A a \in Apis : ~(ErrReq(a) /\ api[a].occ = o)
    BY <1>0, <1>3 DEF OneErr
  <2> QED
    BY <2>1, <2>2, <2>3, <2>4, <2>5 DEF Pending, ErrReq, ErrIn
<1> QED
  BY <1>1, <1>2, <1>3

\* ErrInv is kept by every step.
LEMMA ErrStep ==
    ASSUME Serial, SerialInv, [Next]_vars
    PROVE  ErrInv'
<1> SUFFICES ASSUME NEW o \in Occs, Pending(o)' PROVE lcmocc'[o].state = "FAILED_TEMP"
  BY OneErrStep DEF ErrInv
<1> USE DEF SerialInv, FullInv, IInv, SInv
<1>1. lcmocc[o].state = "FAILED_TEMP"
  BY PendingMoves DEF ErrInv, ErrRead
<1>2. Stored(o)
  BY <1>1 DEF RefInv
<1> QED
  BY <1>1, <1>2, PendingMoves, Transition

----------------------------------------------------------------------------
(* BootInv and RowExists.                                                  *)

\* What the recovery has listed stays as it was listed until its turn comes.
LEMMA BootInvStep ==
    ASSUME Serial, SerialInv, [Next]_vars
    PROVE  BootInv'
<1> SUFFICES ASSUME NEW o \in boot'.todo PROVE lcmocc'[o].state = Before(boot'.phase)
  BY DEF BootInv
<1> USE DEF SerialInv, FullInv, IInv, SInv, OInv
<1>1. CASE UNCHANGED <<conductor, boot>>
  <2>1. o \in Occs /\ Stored(o) /\ lcmocc[o].state = Before(boot.phase)
    BY <1>1 DEF BootInv, RefInv, TypeOK, Boot
  <2>2. \A w \in Workers : wk[w].pc = "idle"
    BY <1>1 DEF ProcInv, NotBooting
  <2>3. ~\E w \in Workers : WorkerStep(w)
    BY <2>2, WorkerOutcome
  <2>4. ASSUME NEW a \in Apis, FailCommit(a), api[a].occ = o PROVE FALSE
    <3>1. Pending(o)
      BY <2>4 DEF FailCommit, Pending, ErrReq
    <3> QED
      BY <2>1, <3>1 DEF ErrInv, Before
  <2>5. ~RecoverOcc(o)
    BY <1>1 DEF RecoverOcc, NotBooting, TypeOK, Boot
  <2> QED
    BY <1>1, <2>1, <2>3, <2>4, <2>5, OccOwner
<1>2. CASE ConductorCrash
  BY <1>2 DEF ConductorCrash, NotBooting
<1>3. CASE ConductorStart \/ RecoverNext
  BY <1>3 DEF ConductorStart, RecoverNext, Listed, NotBooting
<1>4. ASSUME NEW p \in Occs, RecoverOcc(p) PROVE lcmocc'[o].state = Before(boot'.phase)
  <2>1. boot'.phase = boot.phase /\ o \in boot.todo /\ o # p
    BY <1>4 DEF RecoverOcc, NotBooting, TypeOK, Boot
  <2>2. lcmocc'[o] = lcmocc[o]
    BY <1>4, <2>1 DEF RecoverOcc, update_lcmocc_status, TypeOK, Boot
  <2> QED
    BY <2>1, <2>2 DEF BootInv
<1>5. ASSUME NEW p \in Occs, RecoverAbort(p) PROVE FALSE
  BY <1>5 DEF RecoverAbort, NotBooting
<1> QED
  BY <1>1, <1>2, <1>3, <1>4, <1>5, ProcCases DEF BootStep

\* instantiate_post_grant and the processing of an operation keep a row that
\* exists one that exists.
LEMMA RowStays ==
    ASSUME NEW row \in InstRow, NEW op, NEW o, Exists(row)
    PROVE  Exists(post_grant(row, op)) /\ Exists(Processed(row, op, o))
<1>1. Exists(post_grant(row, op))
  BY DEF Exists, post_grant, InstRow
<1>2. Exists(instantiate_process(row, o)) /\ Exists(terminate_process)
  BY DEF Exists, instantiate_process, terminate_process
<1>3. Exists(AdjustScaleStatus(row, op)) /\ Exists(Reconfigure(row, o))
  BY DEF Exists, AdjustScaleStatus, Reconfigure, InstRow
<1>4. Exists(Processed(row, op, o))
  BY <1>2, <1>3 DEF Processed
<1> QED
  BY <1>1, <1>4

\* A handler at work has read a row that exists.
LEMMA RowExistsStep ==
    ASSUME SerialInv, [Next]_vars
    PROVE  RowExists'
<1> SUFFICES ASSUME NEW w \in Workers, wk'[w].pc \in CritPcs PROVE Exists(wk'[w].row)
  BY DEF RowExists
<1> USE DEF SerialInv, FullInv, IInv, SInv
<1>0. wk'[w] # IdleWorker
  BY DEF IdleWorker, CritPcs
<1>1. CASE wk'[w] = wk[w]
  BY <1>1 DEF RowExists
<1>2. CASE WorkerStep(w)
  <2>1. \A pc : To(w, pc) => wk'[w].row = wk[w].row
    BY DEF To, TypeOK, Worker
  <2>2. \A pc, row : ToWith(w, pc, row) => wk'[w].row = row
    <3> SUFFICES ASSUME NEW pc, NEW row, ToWith(w, pc, row) PROVE wk'[w].row = row
      OBVIOUS
    <3>1. wk' = [wk EXCEPT ![w] = [[wk[w] EXCEPT !.pc = pc] EXCEPT !.row = row]]
      BY DEF ToWith, TypeOK
    <3>2. "row" \in DOMAIN [wk[w] EXCEPT !.pc = pc]
      BY DEF TypeOK, Worker
    <3> QED
      BY <3>1, <3>2 DEF TypeOK
  <2>3. wk[w].row \in InstRow
    BY DEF TypeOK, Worker
  <2>4. CASE HandlerBegin(w)
    BY <2>2, <2>4 DEF HandlerBegin
  <2>5. CASE GrantSave(w) \/ Regrant(w)
    <3>1. Exists(post_grant(wk[w].row, Op(w)))
      BY <2>3, <2>5, RowStays DEF GrantSave, Regrant, RowExists, CritPcs
    <3> QED
      BY <2>2, <2>5, <3>1 DEF GrantSave, Regrant
  <2>6. CASE GrantProcessing(w) \/ RegrantFail(w) \/ VimOk(w) \/ VimFail(w)
    BY <2>1, <2>6 DEF GrantProcessing, RegrantFail, VimOk, VimEffect, VimFail, RowExists, CritPcs
  <2>7. CASE HandlerDrop(w) \/ HandlerTimeout(w) \/ GrantFail(w) \/ Commit(w) \/ Abort(w)
    BY <1>0, <2>7 DEF HandlerDrop, HandlerTimeout, GrantFail, Commit, Abort, Finish, TypeOK
  <2>8. CASE CommitRow(w)
    BY <1>0, <2>1, <2>8 DEF CommitRow, Finish, RowExists, CritPcs, TypeOK
  <2> QED
    BY <1>2, <2>4, <2>5, <2>6, <2>7, <2>8 DEF WorkerStep
<1>3. CASE \/ \E m \in Methods, o \in Occs : ReceiveCast(w, m, o)
           \/ \E i \in Insts, op \in AutoOps, o \in Occs : AutoStart(w, i, op, o)
  BY <1>3 DEF ReceiveCast, AutoStart, TypeOK, CritPcs
<1>4. CASE ConductorCrash
  BY <1>0, <1>4 DEF ConductorCrash
<1> QED
  BY <1>1, <1>2, <1>3, <1>4, WorkerCases

----------------------------------------------------------------------------
(* The instances of open operations.                                       *)

\* An instance row goes away by a delete request only.
LEMMA ExistsKept ==
    ASSUME SerialInv, [Next]_vars, NEW i \in Insts, Exists(inst[i]), ~Exists(inst'[i])
    PROVE  \E b \in Apis : DeleteCommit(b) /\ api[b].inst = i
<1> USE DEF SerialInv, FullInv, IInv, SInv
<1>1. ASSUME NEW a \in Apis, Client(a) \/ ApiStep(a) \/ ApiCrash(a)
      PROVE  DeleteCommit(a) /\ api[a].inst = i
  <2>1. CASE DeleteCommit(a)
    BY <2>1 DEF DeleteCommit, TypeOK
  <2>2. CASE ~DeleteCommit(a)
    BY <1>1, <2>2 DEF Client, DeleteAccept, RequestAccept, ErrRead, ApiStep, ApiCrash, RequestCreate,
           RequestCast, RequestRelease, ErrLock, ErrReject, FailCommit, FailGrants
  <2> QED
    BY <2>1, <2>2
<1>2. ASSUME NEW w \in Workers, WorkerStep(w) PROVE FALSE
  <2>1. CASE Commit(w) \/ CommitRow(w)
    <3>1. wk[w].pc \in CritPcs
      BY <2>1 DEF Commit, CommitRow, CritPcs
    <3>2. wk[w].row \in InstRow /\ Exists(wk[w].row)
      BY <3>1 DEF RowExists, TypeOK, Worker
    <3>3. Exists(Processed(wk[w].row, Op(w), wk[w].occ))
      BY <3>2, RowStays
    <3>4. WriteInst(w) \/ UNCHANGED inst
      BY <2>1 DEF Commit, CommitRow
    <3> QED
      BY <3>2, <3>3, <3>4 DEF WriteInst, TypeOK
  <2>2. CASE ~Commit(w) /\ ~CommitRow(w)
    BY <1>2, <2>2 DEF WorkerStep, HandlerBegin, HandlerDrop, HandlerTimeout, GrantSave, GrantProcessing,
           GrantFail, Regrant, RegrantFail, VimOk, VimFail, Abort
  <2> QED
    BY <2>1, <2>2
<1>3. ASSUME NEW j \in Insts, Create(j) PROVE FALSE
  BY <1>3 DEF Create, NewRow, Exists, TypeOK
<1>4. CASE SyncStep
  <2>1. CASE SyncCommit
    <3>1. Exists(sync.row) /\ sync.row \in InstRow
      BY <2>1 DEF SyncCommit, RowInv, NoLostUpdate, TypeOK, SyncThread
    <3>2. Exists([sync.row EXCEPT !.level = stack[sync.inst].level])
      BY <3>1 DEF Exists, InstRow
    <3> QED
      BY <2>1, <3>2 DEF SyncCommit, TypeOK
  <2>2. CASE SyncLock \/ SyncSkip
    BY <2>2 DEF SyncLock, SyncSkip
  <2> QED
    BY <1>4, <2>1, <2>2 DEF SyncStep
<1>5. CASE BootStep \/ ConductorCrash \/ UNCHANGED vars
  BY <1>5 DEF BootStep, ConductorStart, RecoverOcc, RecoverAbort, RecoverNext, ConductorCrash, vars
<1>6. ASSUME NEW j \in Insts, SyncList(j) \/ \E l \in 0..(MaxLevel + 1) : VimDrift(j, l) PROVE UNCHANGED inst
  BY <1>6 DEF SyncList, VimDrift
<1>7. ASSUME NEW w \in Workers,
             \/ \E m \in Methods, o \in Occs : ReceiveCast(w, m, o)
             \/ \E j \in Insts, op \in AutoOps, o \in Occs : AutoStart(w, j, op, o)
      PROVE  UNCHANGED inst
  BY <1>7 DEF ReceiveCast, AutoStart
<1> QED
  BY <1>1, <1>2, <1>3, <1>4, <1>5, <1>6, <1>7 DEF Next

\* An operation is open after a step when it was before, or when a request has
\* just stored it.
LEMMA OpenMoves ==
    ASSUME Serial, SerialInv, [Next]_vars, NEW o \in Occs, lcmocc'[o].state \in OpenStates
    PROVE  \/ /\ Stored(o)
              /\ lcmocc[o].state \in OpenStates
              /\ lcmocc'[o].inst = lcmocc[o].inst
              /\ lcmocc'[o].op = lcmocc[o].op
           \/ \E a \in Apis : /\ RequestCreate(a)
                             /\ api[a].occ = o
                             /\ lcmocc'[o].inst = api[a].inst
                             /\ lcmocc'[o].op = api[a].req
                             /\ lcmocc'[o].state = "STARTING"
<1> USE DEF SerialInv, FullInv, IInv, SInv
<1>1. CASE Stored(o)
  <2>1. lcmocc'[o] = lcmocc[o] \/ lcmocc[o].state \in OpenStates
    BY <1>1, Transition, Edges
  <2> QED
    BY <1>1, <2>1, OccStep DEF OccKept
<1>2. CASE ~Stored(o)
  <2>1. lcmocc'[o] # lcmocc[o]
    BY <1>2, Edges DEF RefInv
  <2>2. PICK a \in Apis : RequestCreate(a) /\ api[a].occ = o
    BY <1>2, <2>1, NewOcc
  <2>3. /\ lcmocc'[o].inst = api[a].inst
        /\ lcmocc'[o].op = api[a].req
        /\ lcmocc'[o].state = "STARTING"
    BY <2>2 DEF RequestCreate, new_lcmocc, NoModify, TypeOK
  <2> QED
    BY <2>2, <2>3
<1> QED
  BY <1>1, <1>2

\* Nobody starts an operation beside a request that has been let in.
LEMMA SettledStep ==
    ASSUME Serial, SerialInv, [Next]_vars, NEW a \in Apis
    PROVE  Settled(a)'
<1> USE DEF SerialInv, FullInv, IInv, SInv, RequestInv
<1>1. CASE Client(a)
  <2>1. ASSUME NEW i \in Insts, Quiet(i), check_lcmocc_in_progress(i), NEW o \in Occs, lcmocc[o].inst = i
        PROVE  lcmocc[o].state \notin OpenStates
    BY <2>1 DEF Quiet, check_lcmocc_in_progress, OpenStates
  <2>2. ASSUME NEW i \in Insts, DeleteAccept(a, i) PROVE Settled(a)'
    <3>1. Exists(inst[i]) /\ Quiet(i) /\ check_lcmocc_in_progress(i)
      BY <2>2 DEF DeleteAccept, MayRequest, Serial, Exists
    <3>2. api'[a].inst = i /\ UNCHANGED <<inst, lcmocc>>
      BY <2>2 DEF DeleteAccept, TypeOK
    <3> QED
      BY <2>1, <3>1, <3>2 DEF Settled
  <2>3. ASSUME NEW i \in Insts, NEW op \in ClientOps, NEW o \in Occs, RequestAccept(a, i, op, o)
        PROVE  Settled(a)'
    <3>1. Exists(inst[i]) /\ Quiet(i) /\ check_lcmocc_in_progress(i)
      BY <2>3 DEF RequestAccept, MayRequest, RequestOk, InstantiationStateOk, Serial, Exists
    <3>2. api'[a].inst = i /\ UNCHANGED <<inst, lcmocc>>
      BY <2>3 DEF RequestAccept, TypeOK
    <3> QED
      BY <2>1, <3>1, <3>2 DEF Settled
  <2>4. ASSUME NEW o \in Occs, NEW kind \in ErrKinds, ErrRead(a, o, kind) PROVE Settled(a)'
    BY <2>4 DEF ErrRead, Settled, TypeOK
  <2> QED
    BY <1>1, <2>2, <2>3, <2>4 DEF Client
<1>2. CASE api'[a] = api[a] /\ api[a].pc \in {"checked", "deleting"}
  <2>1. Settled(a) /\ api[a].inst \in Insts
    BY <1>2 DEF RefInv, ApiRef
  <2>2. ASSUME NEW b \in Apis, RequestCreate(b) \/ DeleteCommit(b), api[b].inst = api[a].inst PROVE FALSE
    <3>1. a = b
      BY <1>2, <2>2 DEF OneRequest, RequestCreate, DeleteCommit
    <3> QED
      BY <1>2, <2>2, <3>1 DEF RequestCreate, DeleteCommit, Goto, Return, IdleApi, TypeOK, ApiThread
  <2>3. ASSUME NEW o \in Occs, lcmocc'[o].inst = api[a].inst, lcmocc'[o].state \in OpenStates PROVE FALSE
    BY <1>2, <2>1, <2>2, <2>3, OpenMoves DEF Settled
  <2>4. Exists(inst'[api[a].inst])
    BY <1>2, <2>1, <2>2, ExistsKept DEF Settled
  <2> QED
    BY <1>2, <2>3, <2>4 DEF Settled
<1>3. CASE api'[a].pc \notin {"checked", "deleting"}
  BY <1>3 DEF Settled
<1> QED
  BY <1>1, <1>2, <1>3, ApiMoves DEF IdleApi

\* A failed operation stays failed.
LEMMA FailedTrueStep ==
    ASSUME Serial, SerialInv, [Next]_vars, NEW a \in Apis
    PROVE  FailedTrue(a)'
<1> SUFFICES ASSUME api'[a].pc = "failed" PROVE lcmocc'[api'[a].occ].state = "FAILED"
  BY DEF FailedTrue
<1> USE DEF SerialInv, FullInv, IInv, SInv
<1>1. CASE api'[a] = api[a]
  <2>1. api[a].occ \in Occs /\ Stored(api[a].occ) /\ lcmocc[api[a].occ].state = "FAILED"
    BY <1>1 DEF RequestInv, FailedTrue, RefInv, ApiRef
  <2>2. lcmocc'[api[a].occ] = lcmocc[api[a].occ]
    BY <2>1, Transition, Edges
  <2> QED
    BY <1>1, <2>1, <2>2
<1>2. CASE FailCommit(a)
  <2>1. api[a].occ \in Occs
    BY <1>2 DEF FailCommit, RefInv, ApiRef
  <2>2. lcmocc'[api[a].occ].state = "FAILED"
    BY <1>2, <2>1 DEF FailCommit, update_lcmocc_status, TypeOK, OccRow
  <2>3. api'[a].occ = api[a].occ
    BY <1>2, ApiOutcome DEF ApiStep, IdleApi
  <2> QED
    BY <2>2, <2>3
<1>3. CASE Client(a)
  BY <1>3 DEF Client, DeleteAccept, RequestAccept, ErrRead, TypeOK
<1> QED
  BY <1>1, <1>2, <1>3, ApiMoves DEF IdleApi

\* The instance of an open operation stays.
LEMMA OpenInstStep ==
    ASSUME Serial, SerialInv, [Next]_vars
    PROVE  OpenOccHasInst'
<1> SUFFICES ASSUME NEW o \in Occs, lcmocc'[o].state \in OpenStates
             PROVE  Exists(inst'[lcmocc'[o].inst])
  BY DEF OpenOccHasInst, OpenStates
<1> USE DEF SerialInv, FullInv, IInv, SInv
<1>1. CASE Stored(o) /\ lcmocc[o].state \in OpenStates /\ lcmocc'[o].inst = lcmocc[o].inst
  <2>1. lcmocc[o].inst \in Insts /\ Exists(inst[lcmocc[o].inst])
    BY <1>1 DEF Stored, OpenOccHasInst, OpenStates
  <2>2. ASSUME NEW b \in Apis, DeleteCommit(b), api[b].inst = lcmocc[o].inst PROVE FALSE
    BY <1>1, <2>2 DEF DeleteCommit, RequestInv, Settled
  <2> QED
    BY <1>1, <2>1, <2>2, ExistsKept
<1>2. ASSUME NEW a \in Apis, RequestCreate(a), lcmocc'[o].inst = api[a].inst
      PROVE  Exists(inst'[lcmocc'[o].inst])
  BY <1>2 DEF RequestCreate, RequestInv, Settled
<1> QED
  BY <1>1, <1>2, OpenMoves

----------------------------------------------------------------------------
(* The grants of open operations.                                          *)

\* grant_req and grant are deleted when the operation is over.
LEMMA GrantGone ==
    ASSUME Serial, SerialInv, [Next]_vars, NEW o \in grants, o \notin grants'
    PROVE  lcmocc'[o].state \in EndStates
<1> USE DEF SerialInv, FullInv, IInv, SInv, OInv
<1>0. o \in Occs /\ \A st : update_lcmocc_status(o, st) => lcmocc'[o].state = st
  BY DEF update_lcmocc_status, TypeOK, OccRow
<1>1. ASSUME NEW a \in Apis, Client(a) \/ ApiStep(a) \/ ApiCrash(a) PROVE lcmocc'[o].state = "FAILED"
  <2>1. CASE FailCommit(a)
    BY <1>0, <2>1 DEF FailCommit
  <2>2. CASE FailGrants(a)
    BY <2>2 DEF FailGrants, RequestInv, FailedTrue
  <2>3. CASE ~FailCommit(a) /\ ~FailGrants(a)
    BY <1>1, <2>3 DEF Client, DeleteAccept, RequestAccept, ErrRead, ApiStep, ApiCrash, DeleteCommit,
           RequestCreate, RequestCast, RequestRelease, ErrLock, ErrReject
  <2> QED
    BY <2>1, <2>2, <2>3
<1>2. ASSUME NEW w \in Workers, WorkerStep(w) PROVE lcmocc'[o].state \in {"COMPLETED", "ROLLED_BACK"}
  <2>1. CASE Commit(w)
    BY <1>0, <2>1 DEF Commit, DeleteGrants, WriteOcc
  <2>2. CASE CommitRow(w)
    <3>1. wk[w].pc = "commit3" /\ wk[w].occ = o /\ UNCHANGED lcmocc
      BY <2>2 DEF CommitRow, DeleteGrants
    <3>2. wk[w].method # "modify_vnfinfo"
      BY <3>1, NotModify
    <3> QED
      BY <3>1, <3>2 DEF HandlerOwnsOcc, StateAt, CritPcs
  <2>3. CASE ~Commit(w) /\ ~CommitRow(w)
    BY <1>2, <2>3 DEF WorkerStep, HandlerBegin, HandlerDrop, HandlerTimeout, GrantSave, GrantProcessing,
           GrantFail, Regrant, RegrantFail, VimOk, VimFail, Abort
  <2> QED
    BY <2>1, <2>2, <2>3
<1>3. CASE ~(\E a \in Apis : ApiStep(a) \/ ApiCrash(a) \/ Client(a)) /\ ~(\E w \in Workers : WorkerStep(w))
  BY <1>3 DEF Next, vars, Create, ReceiveCast, AutoStart, ConductorCrash, BootStep, ConductorStart,
     RecoverOcc, RecoverAbort, RecoverNext, SyncList, VimDrift, SyncStep, SyncLock, SyncSkip, SyncCommit
<1> QED
  BY <1>1, <1>2, <1>3 DEF EndStates

\* An operation past STARTING that is not over has its grant.
LEMMA GrantKeptStep ==
    ASSUME Serial, SerialInv, [Next]_vars
    PROVE  GrantKept'
<1> SUFFICES ASSUME NEW o \in Occs, lcmocc'[o].state \in OpenStates, lcmocc'[o].state # "STARTING"
             PROVE  o \in grants'
  BY DEF GrantKept
<1> USE DEF SerialInv, FullInv, IInv, SInv
<1>1. Stored(o) /\ lcmocc[o].state \in OpenStates
  BY OpenMoves
<1>2. CASE o \in grants
  BY <1>2, GrantGone, Edges DEF EndStates
<1>3. CASE o \notin grants
  <2>1. lcmocc[o].state = "STARTING"
    BY <1>1, <1>3 DEF GrantKept
  <2>2. PICK t : /\ <<lcmocc[o].state, t>> \in Abstract!Edge
                 /\ update_lcmocc_status(o, t)
                 /\ t = "PROCESSING" => \E w \in Workers : wk[w].occ = o /\ (GrantSave(w) \/ GrantProcessing(w))
    BY <1>1, <2>1, Transition
  <2>3. lcmocc'[o].state = t
    BY <2>2 DEF update_lcmocc_status, TypeOK, OccRow
  <2>4. t = "PROCESSING"
    BY <2>1, <2>2, <2>3, Edges DEF Abstract!Edge
  <2>5. PICK w \in Workers : wk[w].occ = o /\ (GrantSave(w) \/ GrantProcessing(w))
    BY <2>2, <2>4
  <2>6. CASE GrantSave(w)
    BY <2>5, <2>6 DEF GrantSave
  <2>7. CASE GrantProcessing(w)
    BY <1>3, <2>5, <2>7 DEF GrantProcessing, GrantInv, GrantFound, NoModify
  <2> QED
    BY <2>5, <2>6, <2>7
<1> QED
  BY <1>2, <1>3

----------------------------------------------------------------------------
(* The theorems.                                                           *)

\* The inductive invariant holds at the start.
LEMMA SerialInit == Init => SInv
<1> SUFFICES ASSUME Init PROVE SInv
  OBVIOUS
<1> USE DEF Init
<1>1. NoModify /\ BootInv /\ RequestInv /\ RowExists
  BY DEF NoModify, BootInv, RequestInv, OneRequest, Settled, FailedTrue, RowExists, IdleApi, IdleWorker,
         NoOccRow, NotBooting, CritPcs
<1>2. ErrInv
  <2>1. \A m \in ErrMethods, o \in Occs : queue[m][o] = 0
    BY DEF ErrMethods, Methods
  <2>2. (\A a \in Apis : ~ErrReq(a)) /\ (\A w \in Workers, o \in Occs : ~ErrIn(w, o))
    BY DEF ErrReq, ErrIn, IdleApi, IdleWorker
  <2>3. ASSUME NEW o \in Occs PROVE OneErr(o) /\ ~Pending(o)
    <3>1. \A m \in ErrMethods : queue[m][o] <= 1 /\ ~(queue[m][o] > 0)
      BY <2>1
    <3> QED
      BY <2>1, <2>2, <3>1 DEF OneErr, Pending
  <2> QED
    BY <2>3 DEF ErrInv
<1>3. GrantKept /\ OpenOccHasInst
  BY DEF GrantKept, OpenOccHasInst, OpenStates, IngStates, NoOccRow
<1> QED
  BY <1>1, <1>2, <1>3 DEF SInv

(* The inductive invariant of this module: with FullInv, it holds at the start *)
(* and is kept by every request, handler, crash and recovery step.            *)
THEOREM SerialInductive ==
    ASSUME Serial
    PROVE  Spec => []SerialInv
<1>1. Init => SInv
  BY SerialInit
<1>2. SerialInv /\ [Next]_vars => SInv'
  BY NoModifyStep, ErrStep, BootInvStep, OneRequestStep, SettledStep, FailedTrueStep, GrantKeptStep,
     OpenInstStep, RowExistsStep DEF SInv, RequestInv
<1>3. SerialInv <=> FullInv /\ SInv
  BY DEF SerialInv
<1> QED
  BY <1>1, <1>2, <1>3, OwnerInductive, PTL DEF Spec

(* An operation in FAILED_TEMP can be retried, rolled back or failed: its      *)
(* grant is on record, however often the handlers and the conductor died and   *)
(* in whatever order the writes of a session.begin block reach the database.  *)
THEOREM FailedTempRetryable ==
    ASSUME Serial
    PROVE  Spec => []FailedTempHasGrant
<1>1. SerialInv => FailedTempHasGrant
  BY Edges DEF SerialInv, SInv, GrantKept, FailedTempHasGrant, GrantFound
<1> QED
  BY <1>1, SerialInductive, PTL

(* The recovery at start finds the instance of every operation it has to       *)
(* repair: no delete gets in beside an operation that is not over.             *)
THEOREM OpenOccsHaveInst ==
    ASSUME Serial
    PROVE  Spec => []OpenOccHasInst
<1>1. SerialInv => OpenOccHasInst
  BY DEF SerialInv, SInv
<1> QED
  BY <1>1, SerialInductive, PTL

\* A step of the stack is a step of SOL003's state machine, or none.
LEMMA RefinementStep ==
    ASSUME Serial, SerialInv, [Next]_vars
    PROVE  [Abstract!OccNext]_lcmocc
<1> SUFFICES ASSUME lcmocc' # lcmocc PROVE Abstract!OccNext
  OBVIOUS
<1> USE DEF SerialInv, FullInv, IInv, SInv
<1>1. PICK o \in Occs : lcmocc'[o] # lcmocc[o]
  BY TypeStep DEF TypeOK
<1>2. CASE Stored(o)
  <2>1. PICK t : <<lcmocc[o].state, t>> \in Abstract!Edge /\ update_lcmocc_status(o, t)
    BY <1>1, <1>2, Transition
  <2>2. t \in Abstract!States
    BY <2>1, Edges
  <2>3. Abstract!Move(o, t)
    BY <2>1 DEF Abstract!Move, update_lcmocc_status
  <2> QED
    BY <2>2, <2>3 DEF Abstract!OccNext
<1>3. CASE ~Stored(o)
  <2>1. PICK a \in Apis : RequestCreate(a) /\ api[a].occ = o
    BY <1>1, <1>3, NewOcc
  <2>2. api[a].inst \in Insts /\ api[a].req \in Ops /\ lcmocc[o].state = "NONE"
    BY <2>1 DEF RequestCreate, RefInv, ApiRef
  <2>3. \A p \in Occs : lcmocc[p].inst = api[a].inst => lcmocc[p].state \notin Abstract!Open
    BY <2>1, Edges DEF RequestCreate, RequestInv, Settled, Abstract!Open
  <2>4. Abstract!Begin(o, api[a].inst, api[a].req)
    BY <2>1, <2>2, <2>3 DEF RequestCreate, new_lcmocc, Abstract!Begin
  <2>5. api[a].req \in Abstract!Ops
    BY <2>2 DEF Ops, ScaleOps, ChangeOps, Abstract!Ops
  <2> QED
    BY <2>2, <2>4, <2>5 DEF Abstract!OccNext
<1> QED
  BY <1>2, <1>3

(* The v2 stack implements LcmOpOcc: the occurrences follow the state machine  *)
(* of SOL003, and an operation begins when no other is open on its instance.   *)
(* Init maps to OccInit; every request, handler, crash and recovery step maps  *)
(* to Begin, Move or a stutter.                                              *)
THEOREM ImplementsSol003 ==
    ASSUME Serial
    PROVE  Spec => OpOccProtocol
<1>1. Init => Abstract!OccInit
  BY DEF Init, NoOccRow, Abstract!OccInit
<1>2. SerialInv /\ [Next]_vars => [Abstract!OccNext]_lcmocc
  BY RefinementStep
<1> QED
  BY <1>1, <1>2, SerialInductive, PTL DEF Spec, OpOccProtocol, Abstract!OccSpec

----------------------------------------------------------------------------
(* The VIM.  Beside Serial: a session.begin block commits as a whole, and    *)
(* nothing but Tacker changes the resources (no Kubernetes or Helm VIM,      *)
(* whose pods _sync_db follows).  The invariant VInv says what the stack in   *)
(* the VIM can be while an operation is open: what the instance row says, or  *)
(* what the operation makes of it (Target); nothing in between, whatever has  *)
(* failed or died, because every call to the VIM can be repeated and undone.  *)

Controlled == Serial /\ TxAtomic /\ CnfInsts = {}

\* One operation is open on an instance.
OneOpen ==
    \A o, p \in Occs :
        lcmocc[o].state \in OpenStates /\ lcmocc[p].state \in OpenStates /\ lcmocc[o].inst = lcmocc[p].inst
            => o = p

\* What a request was checked for still holds when its operation is at work.
Allowed(i, op) == InstantiationStateOk(inst[i], op) /\ check_scale_level(inst[i], op)

AllowedInv ==
    /\ \A o \in Occs : lcmocc[o].state \in OpenStates => Allowed(lcmocc[o].inst, lcmocc[o].op)
    /\ \A a \in Apis : api[a].pc = "checked" => Allowed(api[a].inst, api[a].req)
    /\ \A a \in Apis : api[a].pc = "deleting" => inst[api[a].inst].state = "NOT_INSTANTIATED"

\* What operation o makes of the stack its instance row describes.
Target(o) ==
    ProcessedStack(inst[lcmocc[o].inst], lcmocc[o].op, o, StackOf(inst[lcmocc[o].inst]))

\* No operation on i was given up by a fail request.
Clean(i) == \A o \in Occs : lcmocc[o].inst = i => lcmocc[o].state # "FAILED"

StackInv ==
    \A i \in Insts : Clean(i) =>
        \/ stack[i] = StackOf(inst[i])
        \/ \E o \in Occs : /\ lcmocc[o].inst = i
                           /\ lcmocc[o].state \in OpenStates \ {"STARTING"}
                           /\ stack[i] = Target(o)

\* The call to the VIM has succeeded, and the rows are about to say so.
CommitOk(w) ==
    wk[w].pc = "commit1" /\ Clean(InstOf(w)) =>
        stack[InstOf(w)] = IF wk[w].method = "rollback_lcm_op" THEN StackOf(inst[InstOf(w)])
                           ELSE Target(wk[w].occ)

CommitInv == \A w \in Workers : CommitOk(w)

VInv == sync.pc = "idle" /\ OneOpen /\ AllowedInv /\ ScaleWithinLimits /\ StackInv /\ CommitInv

VimInv == SerialInv /\ VInv

----------------------------------------------------------------------------
(* The operations on rows and stacks.                                      *)

\* instantiate_post_grant touches vimConnectionInfo only, and only for
\* INSTANTIATE.
LEMMA PostGrantSame ==
    ASSUME NEW row \in InstRow, NEW r \in InstRow, NEW op, post_grant(row, op) = post_grant(r, op)
    PROVE  /\ row.state = r.state /\ row.level = r.level /\ row.conf = r.conf
           /\ op # "INSTANTIATE" => row = r
  BY DEF post_grant, InstRow

\* A stack that is up, by its level and its configuration: nothing else is in it.
UpAt(s, l, c) == s \in Stack /\ s.up /\ s.level = l /\ s.conf = c

\* Two such stacks are the same.
LEMMA UpAtUnique ==
    ASSUME NEW s, NEW t, NEW l, NEW c, UpAt(s, l, c), UpAt(t, l, c)
    PROVE  s = t
  BY DEF Stack, UpAt

\* The stack of an instantiated row.
LEMMA StackUp ==
    ASSUME NEW row \in InstRow, row.state = "INSTANTIATED"
    PROVE  UpAt(StackOf(row), row.level, row.conf)
  BY DEF StackOf, Stack, InstRow, UpAt

\* What scale, change and their rollbacks do to a stack.
LEMMA VimCalls ==
    ASSUME NEW row \in InstRow, NEW op, NEW o \in Occs, NEW s, NEW l, NEW c, UpAt(s, l, c)
    PROVE  /\ UpAt(vim_scale(row, op, s), AdjustScaleStatus(row, op).level, c)
           /\ UpAt(vim_scale_rollback(row, s), row.level, c)
           /\ UpAt(vim_change(o, s), l, o)
           /\ UpAt(vim_change_rollback(row, s), l, row.conf)
<1>1. Steps(op) \in Int
  BY DEF Steps
<1>2. UpAt(vim_scale(row, op, s), AdjustScaleStatus(row, op).level, c)
  BY <1>1 DEF vim_scale, AdjustScaleStatus, Stack, InstRow, UpAt
<1>3. UpAt(vim_scale_rollback(row, s), row.level, c)
  BY DEF vim_scale_rollback, Stack, InstRow, UpAt
<1>4. UpAt(vim_change(o, s), l, o)
  BY DEF vim_change, Stack, UpAt
<1>5. UpAt(vim_change_rollback(row, s), l, row.conf)
  BY DEF vim_change_rollback, Stack, InstRow, UpAt
<1> QED
  BY <1>2, <1>3, <1>4, <1>5

\* The calls to the VIM do what is written to the row, can be repeated, and can
\* be undone wherever there is a rollback.
LEMMA StackAlgebra ==
    ASSUME NEW row \in InstRow, NEW op \in Ops \cup {"NONE"}, NEW o \in Occs,
           InstantiationStateOk(row, op)
    PROVE  /\ StackOf(Processed(row, op, o)) = ProcessedStack(row, op, o, StackOf(row))
           /\ ProcessedStack(row, op, o, ProcessedStack(row, op, o, StackOf(row)))
                = ProcessedStack(row, op, o, StackOf(row))
           /\ op \in {"INSTANTIATE", "SCALE_OUT"} \cup ChangeOps =>
                 /\ RolledBackStack(row, op, StackOf(row)) = StackOf(row)
                 /\ RolledBackStack(row, op, ProcessedStack(row, op, o, StackOf(row))) = StackOf(row)
<1> DEFINE s == StackOf(row)
           t == ProcessedStack(row, op, o, s)
<1>1. CASE op = "INSTANTIATE"
  <2>1. Processed(row, op, o) = instantiate_process(row, o)
    BY <1>1 DEF Processed, ScaleOps, ChangeOps
  <2>2. \A u : /\ ProcessedStack(row, op, o, u) = vim_instantiate(o)
               /\ RolledBackStack(row, op, u) = NoStack
    BY <1>1 DEF ProcessedStack, RolledBackStack, vim_instantiate_rollback, ScaleOps, ChangeOps
  <2>3. StackOf(instantiate_process(row, o)) = vim_instantiate(o)
    BY DEF StackOf, instantiate_process, vim_instantiate
  <2>4. s = NoStack
    BY <1>1 DEF StackOf, InstantiationStateOk
  <2> QED
    BY <2>1, <2>2, <2>3, <2>4
<1>2. CASE op = "TERMINATE"
  <2>1. Processed(row, op, o) = terminate_process
    BY <1>2 DEF Processed, ScaleOps, ChangeOps
  <2>2. \A u : ProcessedStack(row, op, o, u) = NoStack
    BY <1>2 DEF ProcessedStack, vim_terminate, ScaleOps, ChangeOps
  <2>3. StackOf(terminate_process) = NoStack
    BY DEF StackOf, terminate_process
  <2> QED
    BY <1>2, <2>1, <2>2, <2>3 DEF ChangeOps
<1>3. CASE op \in ScaleOps
  <2>0. row.state = "INSTANTIATED" /\ op \notin ChangeOps /\ op \notin {"INSTANTIATE", "TERMINATE"}
    BY <1>3 DEF InstantiationStateOk, ScaleOps, ChangeOps
  <2>1. Processed(row, op, o) = AdjustScaleStatus(row, op)
    BY <1>3, <2>0 DEF Processed
  <2>2. \A u : /\ ProcessedStack(row, op, o, u) = vim_scale(row, op, u)
               /\ op = "SCALE_OUT" => RolledBackStack(row, op, u) = vim_scale_rollback(row, u)
    BY <1>3, <2>0 DEF ProcessedStack, RolledBackStack
  <2>3. /\ AdjustScaleStatus(row, op) \in InstRow
        /\ AdjustScaleStatus(row, op).state = "INSTANTIATED"
        /\ AdjustScaleStatus(row, op).conf = row.conf
    BY <2>0 DEF AdjustScaleStatus, Steps, InstRow
  <2>4. UpAt(s, row.level, row.conf)
    BY <2>0, StackUp
  <2>5. UpAt(t, AdjustScaleStatus(row, op).level, row.conf)
    <3>1. t = vim_scale(row, op, s)
      BY <2>2
    <3> HIDE DEF s, t
    <3> QED
      BY <2>4, <3>1, VimCalls
  <2>6. StackOf(Processed(row, op, o)) = t
    <3> HIDE DEF s, t
    <3> QED
      BY <2>1, <2>3, <2>5, StackUp, UpAtUnique
  <2>7. vim_scale(row, op, t) = t /\ vim_scale_rollback(row, s) = s /\ vim_scale_rollback(row, t) = s
    <3> HIDE DEF s, t
    <3> QED
      BY <2>4, <2>5, VimCalls, UpAtUnique
  <2> QED
    BY <2>0, <2>2, <2>6, <2>7
<1>4. CASE op \in ChangeOps
  <2>0. row.state = "INSTANTIATED" /\ op \notin ScaleOps /\ op \notin {"INSTANTIATE", "TERMINATE"}
    BY <1>4 DEF InstantiationStateOk, ScaleOps, ChangeOps
  <2>1. Processed(row, op, o) = Reconfigure(row, o)
    BY <1>4, <2>0 DEF Processed
  <2>2. \A u : /\ ProcessedStack(row, op, o, u) = vim_change(o, u)
               /\ RolledBackStack(row, op, u) = vim_change_rollback(row, u)
    BY <1>4, <2>0 DEF ProcessedStack, RolledBackStack, ScaleOps
  <2>3. /\ Reconfigure(row, o) \in InstRow
        /\ Reconfigure(row, o).state = "INSTANTIATED"
        /\ Reconfigure(row, o).level = row.level
        /\ Reconfigure(row, o).conf = o
    BY <2>0 DEF Reconfigure, InstRow
  <2>4. UpAt(s, row.level, row.conf)
    BY <2>0, StackUp
  <2>5. UpAt(t, row.level, o)
    <3>1. t = vim_change(o, s)
      BY <2>2
    <3> HIDE DEF s, t
    <3> QED
      BY <2>4, <3>1, VimCalls
  <2>6. StackOf(Processed(row, op, o)) = t
    <3> HIDE DEF s, t
    <3> QED
      BY <2>1, <2>3, <2>5, StackUp, UpAtUnique
  <2>7. vim_change(o, t) = t /\ vim_change_rollback(row, s) = s /\ vim_change_rollback(row, t) = s
    <3> HIDE DEF s, t
    <3> QED
      BY <2>4, <2>5, VimCalls, UpAtUnique
  <2> QED
    BY <2>2, <2>6, <2>7
<1>5. CASE op \in {"HEAL", "MODIFY_INFO", "NONE"}
  BY <1>5 DEF Processed, ProcessedStack, ScaleOps, ChangeOps
<1> QED
  BY <1>1, <1>2, <1>3, <1>4, <1>5 DEF Ops

\* They do not look at vimConnectionInfo.
LEMMA StackSame ==
    ASSUME NEW row \in InstRow, NEW r \in InstRow, NEW op \in Ops \cup {"NONE"}, NEW o, NEW s,
           row.state = r.state, row.level = r.level, row.conf = r.conf
    PROVE  /\ ProcessedStack(row, op, o, s) = ProcessedStack(r, op, o, s)
           /\ RolledBackStack(row, op, s) = RolledBackStack(r, op, s)
<1>1. ProcessedStack(row, op, o, s) = ProcessedStack(r, op, o, s)
  BY DEF ProcessedStack, vim_scale
<1>2. RolledBackStack(row, op, s) = RolledBackStack(r, op, s)
  BY DEF RolledBackStack, vim_scale_rollback, vim_change_rollback
<1> QED
  BY <1>1, <1>2

\* Nor is it seen in the VIM.
LEMMA RowSame ==
    ASSUME NEW row \in InstRow, NEW r \in InstRow, NEW op \in Ops \cup {"NONE"}, NEW o,
           row.state = r.state, row.level = r.level, row.conf = r.conf
    PROVE  StackOf(Processed(row, op, o)) = StackOf(Processed(r, op, o))
<1>1. /\ Processed(row, op, o).state = Processed(r, op, o).state
      /\ Processed(row, op, o).level = Processed(r, op, o).level
      /\ Processed(row, op, o).conf = Processed(r, op, o).conf
  BY DEF Processed, instantiate_process, terminate_process, AdjustScaleStatus, Reconfigure, InstRow
<1> QED
  BY <1>1 DEF StackOf

----------------------------------------------------------------------------
(* Who changes the row and the stack of an instance.                       *)

\* A handler that calls the VIM or is about to commit: its operation is the open
\* one, was checked for the row as it is, and the handler's copy is that row.
LEMMA AtWork ==
    ASSUME Controlled, VimInv, NEW w \in Workers, wk[w].pc \in {"process", "rollback", "commit1"}
    PROVE  /\ wk[w].occ \in Occs
           /\ InstOf(w) \in Insts
           /\ Op(w) \in Ops \cup {"NONE"}
           /\ lcmocc[wk[w].occ].state \in OpenStates \ {"STARTING"}
           /\ Allowed(InstOf(w), Op(w))
           /\ inst[InstOf(w)] \in InstRow
           /\ wk[w].row \in InstRow
           /\ inst[InstOf(w)].state = wk[w].row.state
           /\ inst[InstOf(w)].level = wk[w].row.level
           /\ inst[InstOf(w)].conf = wk[w].row.conf
           /\ Op(w) # "INSTANTIATE" => inst[InstOf(w)] = wk[w].row
           /\ lock[InstOf(w)] = w
<1> USE DEF VimInv, VInv, SerialInv, FullInv, IInv, OInv
<1>1. wk[w].pc # "idle" /\ wk[w].pc \in CritPcs
  BY DEF CritPcs
<1>2. wk[w].occ \in Occs /\ InstOf(w) \in Insts /\ Op(w) \in Ops \cup {"NONE"} /\ wk[w].row \in InstRow
  BY <1>1, WorkerFacts
<1>3. wk[w].method # "modify_vnfinfo"
  BY <1>1, NotModify
<1>4. lcmocc[wk[w].occ].state = StateAt(w)
  BY <1>1, <1>3 DEF HandlerOwnsOcc
<1>5. lcmocc[wk[w].occ].state \in OpenStates \ {"STARTING"}
  BY <1>4, Edges DEF StateAt
<1>6. Allowed(InstOf(w), Op(w))
  BY <1>2, <1>5 DEF AllowedInv, InstOf, Op
<1>7. post_grant(inst[InstOf(w)], Op(w)) = post_grant(wk[w].row, Op(w))
  BY DEF RowInv, NoLostUpdate
<1>8. inst[InstOf(w)] \in InstRow
  BY <1>2 DEF TypeOK
<1>9. lock[InstOf(w)] = w
  BY <1>1 DEF LockInv
<1> QED
  BY <1>2, <1>5, <1>6, <1>7, <1>8, <1>9, PostGrantSame

\* An instance row is created, deleted, or written by the handler that ends the
\* open operation; a rollback writes back what is there.
LEMMA InstChange ==
    ASSUME Controlled, VimInv, [Next]_vars, NEW i \in Insts, inst'[i] # inst[i]
    PROVE  \/ Create(i)
           \/ \E b \in Apis : DeleteCommit(b) /\ api[b].inst = i
           \/ \E w \in Workers : /\ Commit(w)
                                 /\ InstOf(w) = i
                                 /\ wk[w].method # "rollback_lcm_op"
                                 /\ inst'[i] = Processed(wk[w].row, Op(w), wk[w].occ)
<1> USE DEF VimInv, VInv, SerialInv, FullInv, IInv
<1>1. ASSUME NEW a \in Apis, Client(a) \/ ApiStep(a) \/ ApiCrash(a)
      PROVE  DeleteCommit(a) /\ api[a].inst = i
  <2>1. CASE DeleteCommit(a)
    BY <2>1 DEF DeleteCommit, TypeOK
  <2>2. CASE ~DeleteCommit(a)
    BY <1>1, <2>2 DEF Client, DeleteAccept, RequestAccept, ErrRead, ApiStep, ApiCrash, RequestCreate,
           RequestCast, RequestRelease, ErrLock, ErrReject, FailCommit, FailGrants
  <2> QED
    BY <2>1, <2>2
<1>2. ASSUME NEW w \in Workers, WorkerStep(w)
      PROVE  /\ Commit(w)
             /\ InstOf(w) = i
             /\ wk[w].method # "rollback_lcm_op"
             /\ inst'[i] = Processed(wk[w].row, Op(w), wk[w].occ)
  <2>1. CASE Commit(w)
    <3>1. WriteInst(w) /\ wk[w].pc = "commit1"
      BY <2>1 DEF Commit
    <3>2. /\ InstOf(w) \in Insts
          /\ Op(w) # "INSTANTIATE" => inst[InstOf(w)] = wk[w].row
      BY <3>1, AtWork
    <3>3. ~(wk[w].method = "rollback_lcm_op" /\ Op(w) \in ChangeOps)
      BY <3>1, <3>2 DEF WriteInst, ChangeOps, TypeOK
    <3> QED
      BY <2>1, <3>1, <3>2, <3>3 DEF WriteInst, TypeOK
  <2>2. CASE ~Commit(w)
    BY <1>2, <2>2 DEF WorkerStep, HandlerBegin, HandlerDrop, HandlerTimeout, GrantSave, GrantProcessing,
           GrantFail, Regrant, RegrantFail, VimOk, VimFail, CommitRow, Abort, Controlled
  <2> QED
    BY <2>1, <2>2
<1>3. ASSUME NEW j \in Insts, Create(j) PROVE j = i
  BY <1>3 DEF Create, TypeOK
<1>4. CASE SyncStep
  BY <1>4 DEF SyncStep, SyncLock, SyncSkip, SyncCommit
<1>5. CASE BootStep \/ ConductorCrash \/ UNCHANGED vars
  BY <1>5 DEF BootStep, ConductorStart, RecoverOcc, RecoverAbort, RecoverNext, ConductorCrash, vars
<1>6. ASSUME NEW j \in Insts, SyncList(j) \/ \E l \in 0..(MaxLevel + 1) : VimDrift(j, l) PROVE UNCHANGED inst
  BY <1>6 DEF SyncList, VimDrift
<1>7. ASSUME NEW w \in Workers,
             \/ \E m \in Methods, o \in Occs : ReceiveCast(w, m, o)
             \/ \E j \in Insts, op \in AutoOps, o \in Occs : AutoStart(w, j, op, o)
      PROVE  UNCHANGED inst
  BY <1>7 DEF ReceiveCast, AutoStart
<1> QED
  BY <1>1, <1>2, <1>3, <1>4, <1>5, <1>6, <1>7 DEF Next

\* A stack is changed by a call of the handler at work on its instance.
LEMMA StackChange ==
    ASSUME Controlled, VimInv, [Next]_vars, NEW i \in Insts, stack'[i] # stack[i]
    PROVE  \E w \in Workers : VimEffect(w) /\ InstOf(w) = i /\ UNCHANGED <<inst, lcmocc>>
<1> USE DEF VimInv, VInv, SerialInv, FullInv, IInv
<1>1. ASSUME NEW a \in Apis, Client(a) \/ ApiStep(a) \/ ApiCrash(a) PROVE UNCHANGED stack
  BY <1>1 DEF Client, DeleteAccept, RequestAccept, ErrRead, ApiStep, ApiCrash, DeleteCommit, RequestCreate,
         RequestCast, RequestRelease, ErrLock, ErrReject, FailCommit, FailGrants
<1>2. ASSUME NEW w \in Workers, WorkerStep(w)
      PROVE  VimEffect(w) /\ InstOf(w) = i /\ UNCHANGED <<inst, lcmocc>>
  <2>1. CASE VimOk(w) \/ VimFail(w)
    <3>1. VimEffect(w) /\ UNCHANGED <<inst, lcmocc>>
      BY <2>1 DEF VimOk, VimFail
    <3>2. \E s : stack' = [stack EXCEPT ![InstOf(w)] = s]
      BY <3>1 DEF VimEffect
    <3> QED
      BY <3>1, <3>2 DEF TypeOK
  <2>2. CASE ~VimOk(w) /\ ~VimFail(w)
    BY <1>2, <2>2 DEF WorkerStep, HandlerBegin, HandlerDrop, HandlerTimeout, GrantSave, GrantProcessing,
           GrantFail, Regrant, RegrantFail, Commit, CommitRow, Abort
  <2> QED
    BY <2>1, <2>2
<1>3. ASSUME NEW j \in Insts, Create(j) \/ SyncList(j) \/ \E l \in 0..(MaxLevel + 1) : VimDrift(j, l)
      PROVE  UNCHANGED stack
  BY <1>3 DEF Create, SyncList, VimDrift, Controlled
<1>4. CASE SyncStep \/ BootStep \/ ConductorCrash \/ UNCHANGED vars
  BY <1>4 DEF SyncStep, SyncLock, SyncSkip, SyncCommit, BootStep, ConductorStart, RecoverOcc, RecoverAbort,
     RecoverNext, ConductorCrash, vars
<1>5. ASSUME NEW w \in Workers,
             \/ \E m \in Methods, o \in Occs : ReceiveCast(w, m, o)
             \/ \E j \in Insts, op \in AutoOps, o \in Occs : AutoStart(w, j, op, o)
      PROVE  UNCHANGED stack
  BY <1>5 DEF ReceiveCast, AutoStart
<1> QED
  BY <1>1, <1>2, <1>3, <1>4, <1>5 DEF Next

\* A call to the VIM leaves Target, and its rollback what the row says, whatever
\* of the two was there: after a failed call, a crash, or the first time.
LEMMA VimEffectOk ==
    ASSUME Controlled, VimInv, NEW w \in Workers, VimEffect(w), Clean(InstOf(w))
    PROVE  /\ wk[w].pc = "process" => stack'[InstOf(w)] = Target(wk[w].occ)
           /\ wk[w].pc # "process" => stack'[InstOf(w)] = StackOf(inst[InstOf(w)])
<1> DEFINE i == InstOf(w)
           o == wk[w].occ
           op == Op(w)
           row == inst[i]
           r == wk[w].row
<1>0. wk[w].pc \in {"process", "rollback"}
  BY DEF VimEffect
<1>1. /\ o \in Occs /\ i \in Insts /\ op \in Ops \cup {"NONE"} /\ row \in InstRow /\ r \in InstRow
      /\ lcmocc[o].state \in OpenStates \ {"STARTING"}
      /\ Allowed(i, op)
      /\ row.state = r.state /\ row.level = r.level /\ row.conf = r.conf
  BY <1>0, AtWork
<1>2. stack[i] = StackOf(row) \/ stack[i] = Target(o)
  <2>1. ASSUME NEW p \in Occs, lcmocc[p].inst = i, lcmocc[p].state \in OpenStates PROVE p = o
    BY <1>1, <2>1 DEF VimInv, VInv, OneOpen, InstOf
  <2> QED
    BY <1>1, <2>1 DEF VimInv, VInv, StackInv
<1>3. Target(o) = ProcessedStack(row, op, o, StackOf(row))
  BY DEF Target, InstOf, Op
<1>4. InstantiationStateOk(row, op)
  BY <1>1 DEF Allowed
<1>5. stack \in [Insts -> Stack]
  BY DEF VimInv, SerialInv, FullInv, IInv, TypeOK
<1>6. CASE wk[w].pc = "process"
  <2>1. stack'[i] = ProcessedStack(r, op, o, stack[i])
    BY <1>1, <1>5, <1>6 DEF VimEffect
  <2>2. ProcessedStack(r, op, o, stack[i]) = ProcessedStack(row, op, o, stack[i])
    <3> HIDE DEF i, o, op, row, r
    <3> QED BY <1>1, StackSame
  <2>3. ProcessedStack(row, op, o, stack[i]) = Target(o)
    BY <1>1, <1>2, <1>3, <1>4, StackAlgebra
  <2> QED
    BY <1>6, <2>1, <2>2, <2>3
<1>7. CASE wk[w].pc = "rollback"
  <2>1. stack'[i] = RolledBackStack(r, op, stack[i]) /\ RollbackPossible(r, op, stack[i])
    BY <1>1, <1>5, <1>7 DEF VimEffect
  <2>2. RolledBackStack(r, op, stack[i]) = RolledBackStack(row, op, stack[i])
    <3> HIDE DEF i, o, op, row, r
    <3> QED BY <1>1, StackSame
  <2>3. op \in {"INSTANTIATE", "SCALE_OUT"} \cup ChangeOps \/ op = "MODIFY_INFO"
    BY <2>1 DEF RollbackPossible
  <2>4. op # "MODIFY_INFO"
    BY <1>1 DEF VimInv, SerialInv, SInv, NoModify, Op
  <2>5. RolledBackStack(row, op, stack[i]) = StackOf(row)
    BY <1>1, <1>2, <1>3, <1>4, <2>3, <2>4, StackAlgebra
  <2> QED
    BY <1>7, <2>1, <2>2, <2>5
<1> QED
  BY <1>0, <1>6, <1>7

----------------------------------------------------------------------------
(* VInv is kept.                                                           *)

\* _sync_db has nothing to do.
LEMMA SyncIdleStep ==
    ASSUME Controlled, VimInv, [Next]_vars
    PROVE  sync'.pc = "idle"
<1> USE DEF VimInv, VInv
<1>1. CASE UNCHANGED sync
  BY <1>1
<1>2. CASE SyncStep
  BY <1>2 DEF SyncStep, SyncLock, SyncSkip, SyncCommit
<1>3. CASE ConductorCrash
  BY <1>3 DEF ConductorCrash, IdleSync
<1>4. ASSUME NEW i \in Insts, SyncList(i) PROVE FALSE
  BY <1>4 DEF SyncList, Controlled
<1> QED
  BY <1>1, <1>2, <1>3, <1>4, SyncCases

\* An operation is stored when no other is open on its instance.
LEMMA OneOpenStep ==
    ASSUME Controlled, VimInv, [Next]_vars
    PROVE  OneOpen'
<1> SUFFICES ASSUME NEW o \in Occs, NEW p \in Occs, o # p,
                    lcmocc'[o].state \in OpenStates, lcmocc'[p].state \in OpenStates,
                    lcmocc'[o].inst = lcmocc'[p].inst
             PROVE  FALSE
  BY DEF OneOpen
<1> USE DEF VimInv, VInv, SerialInv, FullInv, IInv, SInv, Controlled
<1>1. ASSUME NEW a \in Apis, RequestCreate(a), NEW q \in Occs, api[a].occ # q,
             lcmocc'[q].state \in OpenStates, lcmocc'[q].inst = api[a].inst
      PROVE  FALSE
  <2>1. lcmocc'[q] = lcmocc[q]
    BY <1>1 DEF RequestCreate, new_lcmocc, TypeOK
  <2>2. Settled(a) /\ api[a].pc = "checked"
    BY <1>1 DEF RequestInv, RequestCreate
  <2> QED
    BY <1>1, <2>1, <2>2 DEF Settled
<1>2. CASE \E a \in Apis : RequestCreate(a) /\ api[a].occ = o /\ lcmocc'[o].inst = api[a].inst
  BY <1>1, <1>2
<1>3. CASE \E a \in Apis : RequestCreate(a) /\ api[a].occ = p /\ lcmocc'[p].inst = api[a].inst
  BY <1>1, <1>3
<1>4. CASE /\ lcmocc[o].state \in OpenStates /\ lcmocc'[o].inst = lcmocc[o].inst
           /\ lcmocc[p].state \in OpenStates /\ lcmocc'[p].inst = lcmocc[p].inst
  BY <1>4 DEF OneOpen
<1> QED
  BY <1>2, <1>3, <1>4, OpenMoves

\* The row of an instance with an open operation is changed by the end of that
\* operation only; that of an instance with a request let in, by that request.
LEMMA RowSteady ==
    ASSUME Controlled, VimInv, [Next]_vars, NEW i \in Insts, Exists(inst[i]), inst'[i] # inst[i]
    PROVE  \/ \E b \in Apis : DeleteCommit(b) /\ api[b].inst = i
           \/ \E p \in Occs : /\ lcmocc[p].inst = i
                              /\ lcmocc[p].state \in OpenStates
                              /\ lcmocc'[p].state = "COMPLETED"
<1>1. ASSUME Create(i) PROVE FALSE
  BY <1>1 DEF Create, Exists
<1>2. ASSUME NEW w \in Workers, Commit(w), InstOf(w) = i, wk[w].method # "rollback_lcm_op"
      PROVE  /\ wk[w].occ \in Occs
             /\ lcmocc[wk[w].occ].inst = i
             /\ lcmocc[wk[w].occ].state \in OpenStates
             /\ lcmocc'[wk[w].occ].state = "COMPLETED"
  <2>1. wk[w].occ \in Occs /\ lcmocc[wk[w].occ].state \in OpenStates
    BY <1>2, AtWork DEF Commit
  <2>2. lcmocc'[wk[w].occ].state = "COMPLETED"
    BY <1>2, <2>1 DEF Commit, WriteOcc, update_lcmocc_status, VimInv, SerialInv, FullInv, IInv, TypeOK, OccRow
  <2> QED
    BY <1>2, <2>1, <2>2 DEF InstOf
<1> QED
  BY <1>1, <1>2, InstChange

\* What a request was checked for stays true until its operation is over.
LEMMA AllowedStep ==
    ASSUME Controlled, VimInv, [Next]_vars
    PROVE  AllowedInv'
<1> USE DEF VimInv, VInv, SerialInv, FullInv, IInv, SInv, RequestInv, Controlled
<1>1. ASSUME NEW o \in Occs, lcmocc'[o].state \in OpenStates
      PROVE  Allowed(lcmocc[o].inst, lcmocc[o].op)' 
  <2>1. CASE /\ Stored(o) /\ lcmocc[o].state \in OpenStates
             /\ lcmocc'[o].inst = lcmocc[o].inst /\ lcmocc'[o].op = lcmocc[o].op
    <3>1. lcmocc[o].inst \in Insts /\ Exists(inst[lcmocc[o].inst])
      BY <2>1 DEF Stored, OpenOccHasInst, OpenStates
    <3>2. ASSUME NEW b \in Apis, DeleteCommit(b), api[b].inst = lcmocc[o].inst PROVE FALSE
      BY <2>1, <3>2 DEF DeleteCommit, Settled
    <3>3. ASSUME NEW p \in Occs, lcmocc[p].inst = lcmocc[o].inst, lcmocc[p].state \in OpenStates,
                 lcmocc'[p].state = "COMPLETED"
          PROVE  FALSE
      BY <1>1, <2>1, <3>3, Edges DEF OneOpen
    <3>4. inst'[lcmocc[o].inst] = inst[lcmocc[o].inst]
      BY <3>1, <3>2, <3>3, RowSteady
    <3> QED
      BY <2>1, <3>4 DEF AllowedInv, Allowed
  <2>2. ASSUME NEW a \in Apis, RequestCreate(a), lcmocc'[o].inst = api[a].inst, lcmocc'[o].op = api[a].req
        PROVE  Allowed(lcmocc[o].inst, lcmocc[o].op)'
    BY <2>2 DEF RequestCreate, AllowedInv, Allowed
  <2> QED
    BY <1>1, <2>1, <2>2, OpenMoves
<1>2. ASSUME NEW a \in Apis, api'[a].pc \in {"checked", "deleting"}, ~Client(a)
      PROVE  api'[a] = api[a] /\ inst'[api[a].inst] = inst[api[a].inst]
  <2>1. api'[a] = api[a]
    BY <1>2, ApiMoves DEF IdleApi
  <2>2. Settled(a) /\ api[a].inst \in Insts
    BY <1>2, <2>1 DEF RefInv, ApiRef
  <2>3. ASSUME NEW b \in Apis, DeleteCommit(b), api[b].inst = api[a].inst PROVE FALSE
    <3>1. a = b
      BY <1>2, <2>1, <2>3 DEF OneRequest, DeleteCommit
    <3> QED
      BY <1>2, <2>3, <3>1 DEF DeleteCommit, Return, IdleApi, TypeOK
  <2> QED
    BY <1>2, <2>1, <2>2, <2>3, RowSteady DEF Settled
<1>3. ASSUME NEW a \in Apis, api'[a].pc = "checked" PROVE Allowed(api[a].inst, api[a].req)'
  <2>1. CASE Client(a)
    <3>1. PICK i \in Insts, op \in ClientOps, o \in Occs : RequestAccept(a, i, op, o)
      BY <1>3, <2>1 DEF Client, DeleteAccept, ErrRead, TypeOK
    <3>2. api'[a].inst = i /\ api'[a].req = op /\ inst' = inst
      BY <3>1 DEF RequestAccept, TypeOK
    <3> QED
      BY <3>1, <3>2 DEF RequestAccept, RequestOk, Allowed
  <2>2. CASE ~Client(a)
    BY <1>2, <1>3, <2>2 DEF AllowedInv, Allowed
  <2> QED
    BY <2>1, <2>2
<1>4. ASSUME NEW a \in Apis, api'[a].pc = "deleting" PROVE inst'[api'[a].inst].state = "NOT_INSTANTIATED"
  <2>1. CASE Client(a)
    <3>1. PICK i \in Insts : DeleteAccept(a, i)
      BY <1>4, <2>1 DEF Client, RequestAccept, ErrRead, TypeOK
    <3> QED
      BY <3>1 DEF DeleteAccept, TypeOK
  <2>2. CASE ~Client(a)
    BY <1>2, <1>4, <2>2 DEF AllowedInv
  <2> QED
    BY <2>1, <2>2
<1> QED
  BY <1>1, <1>3, <1>4 DEF AllowedInv

\* The level written by the end of an operation is within the limits.
LEMMA ScaleStep ==
    ASSUME Controlled, VimInv, [Next]_vars
    PROVE  ScaleWithinLimits'
<1> SUFFICES ASSUME NEW i \in Insts, inst'[i].state = "INSTANTIATED"
             PROVE  inst'[i].level >= 0 /\ inst'[i].level <= MaxLevel
  BY DEF ScaleWithinLimits
<1> USE DEF VimInv, VInv, SerialInv, FullInv, IInv
<1>1. CASE inst'[i] = inst[i]
  BY <1>1 DEF ScaleWithinLimits
<1>2. ASSUME Create(i) PROVE FALSE
  BY <1>2 DEF Create, NewRow, TypeOK
<1>3. ASSUME NEW b \in Apis, DeleteCommit(b), api[b].inst = i PROVE FALSE
  BY <1>3 DEF DeleteCommit, NoRow, TypeOK
<1>4. ASSUME NEW w \in Workers, Commit(w), InstOf(w) = i, inst'[i] = Processed(wk[w].row, Op(w), wk[w].occ)
      PROVE  inst'[i].level >= 0 /\ inst'[i].level <= MaxLevel
  <2> DEFINE row == wk[w].row
             op == Op(w)
  <2>1. /\ op \in Ops \cup {"NONE"} /\ row \in InstRow /\ inst[i] \in InstRow
        /\ Allowed(i, op)
        /\ inst[i].state = row.state /\ inst[i].level = row.level
    BY <1>4, AtWork DEF Commit
  <2>2. check_scale_level(row, op)
    BY <2>1 DEF Allowed, check_scale_level
  <2>3. row.state = "INSTANTIATED" => row.level >= 0 /\ row.level <= MaxLevel
    BY <2>1 DEF ScaleWithinLimits
  <2> HIDE DEF row, op
  <2>4. CASE op = "INSTANTIATE"
    BY <1>4, <2>4, LevelAssumption DEF Processed, ScaleOps, ChangeOps, instantiate_process, row, op
  <2>5. CASE op = "TERMINATE"
    BY <1>4, <2>5 DEF Processed, ScaleOps, ChangeOps, terminate_process, row, op
  <2>6. CASE op \in ScaleOps
    <3>1. inst'[i] = AdjustScaleStatus(row, op)
      BY <1>4, <2>6 DEF Processed, ScaleOps, ChangeOps, row, op
    <3>2. inst'[i].level = row.level + Steps(op)
      BY <2>1, <3>1 DEF AdjustScaleStatus, InstRow
    <3> QED
      BY <2>2, <2>6, <3>2 DEF check_scale_level
  <2>7. CASE op \in ChangeOps
    <3>1. inst'[i] = Reconfigure(row, wk[w].occ)
      BY <1>4, <2>7 DEF Processed, ScaleOps, ChangeOps, row, op
    <3>2. inst'[i].level = row.level /\ inst'[i].state = row.state
      BY <2>1, <3>1 DEF Reconfigure, InstRow
    <3> QED
      BY <2>3, <3>2
  <2>8. CASE op \in {"HEAL", "MODIFY_INFO", "NONE"}
    <3>1. inst'[i] = row
      BY <1>4, <2>8 DEF Processed, ScaleOps, ChangeOps, row, op
    <3> QED
      BY <2>3, <3>1
  <2> QED
    BY <2>1, <2>4, <2>5, <2>6, <2>7, <2>8 DEF Ops
<1> QED
  BY <1>1, <1>2, <1>3, <1>4, InstChange

\* A failed operation stays failed.
LEMMA CleanKept ==
    ASSUME Controlled, VimInv, [Next]_vars, NEW i \in Insts, Clean(i)'
    PROVE  Clean(i)
<1> SUFFICES ASSUME NEW o \in Occs, lcmocc[o].inst = i, lcmocc[o].state = "FAILED" PROVE FALSE
  BY DEF Clean
<1>1. Stored(o)
  BY DEF Stored
<1>2. lcmocc'[o] = lcmocc[o]
  BY <1>1, Transition, Edges DEF Controlled, VimInv
<1> QED
  BY <1>2 DEF Clean

\* An operation that was granted is COMPLETED or ROLLED_BACK by its handler only.
LEMMA EndMoves ==
    ASSUME Controlled, VimInv, [Next]_vars, NEW o \in Occs, Stored(o),
           lcmocc[o].state \in OpenStates \ {"STARTING"},
           lcmocc'[o].state \in {"COMPLETED", "ROLLED_BACK"}
    PROVE  \E w \in Workers : Commit(w) /\ wk[w].occ = o
<1> USE DEF VimInv, VInv, SerialInv, FullInv, IInv, OInv, SInv
<1>0. lcmocc'[o] # lcmocc[o]
  BY Edges
<1>1. ASSUME NEW w \in Workers, WorkerStep(w), wk[w].occ = o PROVE Commit(w)
  <2>1. wk[w].pc # "idle" /\ wk[w].method # "modify_vnfinfo"
    BY <1>1, WorkerOutcome, NotModify
  <2>2. CASE GrantFail(w)
    <3>1. wk[w].pc \in {"granting", "granted"} /\ wk[w].pc \in CritPcs
      BY <2>2 DEF GrantFail, CritPcs
    <3> QED
      BY <1>1, <2>1, <3>1 DEF HandlerOwnsOcc, StateAt
  <2>3. CASE HandlerBegin(w)
    BY <1>0, <1>1, <2>3 DEF HandlerBegin, FirstWrite, update_lcmocc_status, TypeOK, OccRow
  <2>4. CASE GrantSave(w) \/ GrantProcessing(w) \/ Abort(w)
    BY <1>0, <1>1, <2>4 DEF GrantSave, GrantProcessing, Abort, update_lcmocc_status, TypeOK, OccRow
  <2>5. CASE HandlerDrop(w) \/ HandlerTimeout(w) \/ Regrant(w) \/ RegrantFail(w) \/ VimOk(w) \/ VimFail(w)
    BY <1>0, <2>5 DEF HandlerDrop, HandlerTimeout, Regrant, RegrantFail, VimOk, VimFail
  <2>6. CASE CommitRow(w)
    BY <2>6 DEF CommitRow, Controlled
  <2> QED
    BY <1>1, <2>2, <2>3, <2>4, <2>5, <2>6 DEF WorkerStep
<1>2. ASSUME NEW a \in Apis, FailCommit(a), api[a].occ = o PROVE FALSE
  BY <1>2 DEF FailCommit, update_lcmocc_status, TypeOK, OccRow
<1>3. CASE RecoverOcc(o)
  <2>1. lcmocc[o].state = Before(boot.phase) /\ lcmocc'[o].state = After(boot.phase)
    BY <1>3 DEF RecoverOcc, BootInv, update_lcmocc_status, TypeOK, OccRow
  <2> QED
    BY <2>1 DEF Before, After
<1> QED
  BY <1>0, <1>1, <1>2, <1>3, OccOwner

\* At its end an operation that changed the VIM leaves row and stack in agreement.
LEMMA CommitAgrees ==
    ASSUME Controlled, VimInv, [Next]_vars, NEW w \in Workers, Commit(w), Clean(InstOf(w))
    PROVE  stack'[InstOf(w)] = StackOf(inst'[InstOf(w)])
<1> DEFINE i == InstOf(w)
           o == wk[w].occ
           op == Op(w)
<1>1. wk[w].pc = "commit1" /\ stack' = stack /\ WriteInst(w)
  BY DEF Commit
<1>2. /\ o \in Occs /\ i \in Insts /\ op \in Ops \cup {"NONE"}
      /\ inst[i] \in InstRow /\ wk[w].row \in InstRow
      /\ Allowed(i, op)
      /\ inst[i].state = wk[w].row.state /\ inst[i].level = wk[w].row.level
      /\ inst[i].conf = wk[w].row.conf
      /\ op # "INSTANTIATE" => inst[i] = wk[w].row
  BY <1>1, AtWork
<1>3. CommitOk(w) /\ inst \in [Insts -> InstRow]
  BY DEF VimInv, VInv, CommitInv, SerialInv, FullInv, IInv, TypeOK
<1>4. CASE wk[w].method = "rollback_lcm_op"
  <2>1. stack[i] = StackOf(inst[i])
    BY <1>1, <1>3, <1>4 DEF CommitOk
  <2>2. inst'[i] = inst[i]
    BY <1>1, <1>2, <1>3, <1>4 DEF WriteInst, ChangeOps
  <2> QED
    BY <1>1, <2>1, <2>2
<1>5. CASE wk[w].method # "rollback_lcm_op"
  <2>1. stack[i] = ProcessedStack(inst[i], op, o, StackOf(inst[i]))
    BY <1>1, <1>3, <1>5 DEF CommitOk, Target, InstOf, Op
  <2>2. inst'[i] = Processed(wk[w].row, op, o)
    BY <1>1, <1>2, <1>3, <1>5 DEF WriteInst
  <2>3. StackOf(Processed(wk[w].row, op, o)) = StackOf(Processed(inst[i], op, o))
    BY <1>2, RowSame
  <2>4. StackOf(Processed(inst[i], op, o)) = ProcessedStack(inst[i], op, o, StackOf(inst[i]))
    BY <1>2, StackAlgebra DEF Allowed
  <2> QED
    BY <1>1, <2>1, <2>2, <2>3, <2>4
<1> QED
  BY <1>4, <1>5

\* The stack is what the row says or what the open operation makes of it.
LEMMA StackStep ==
    ASSUME Controlled, VimInv, [Next]_vars
    PROVE  StackInv'
<1> SUFFICES ASSUME NEW i \in Insts, Clean(i)'
             PROVE  \/ stack'[i] = StackOf(inst'[i])
                    \/ \E o \in Occs : /\ lcmocc'[o].inst = i
                                       /\ lcmocc'[o].state \in OpenStates \ {"STARTING"}
                                       /\ stack'[i] = Target(o)'
  BY DEF StackInv
<1> USE DEF VimInv, VInv, SerialInv, FullInv, IInv, SInv, RequestInv
<1>1. Clean(i)
  BY CleanKept
<1>2. CASE stack'[i] # stack[i]
  <2>1. PICK w \in Workers : VimEffect(w) /\ InstOf(w) = i /\ UNCHANGED <<inst, lcmocc>>
    BY <1>2, StackChange
  <2>2. wk[w].occ \in Occs /\ lcmocc[wk[w].occ].state \in OpenStates \ {"STARTING"}
    BY <2>1, AtWork DEF VimEffect
  <2>3. stack'[i] = Target(wk[w].occ) \/ stack'[i] = StackOf(inst[i])
    BY <1>1, <2>1, VimEffectOk
  <2>4. Target(wk[w].occ) = ProcessedStack(inst[i], lcmocc[wk[w].occ].op, wk[w].occ, StackOf(inst[i]))
    BY <2>1 DEF Target, InstOf
  <2> QED
    BY <2>1, <2>2, <2>3, <2>4 DEF Target, InstOf
<1>3. ASSUME NEW w \in Workers, Commit(w), InstOf(w) = i PROVE stack'[i] = StackOf(inst'[i])
  BY <1>1, <1>3, CommitAgrees
<1>4. CASE stack'[i] = stack[i] /\ inst'[i] = inst[i]
  <2>1. CASE stack[i] = StackOf(inst[i])
    BY <1>4, <2>1
  <2>2. ASSUME NEW o \in Occs, lcmocc[o].inst = i, lcmocc[o].state \in OpenStates \ {"STARTING"},
               stack[i] = Target(o)
        PROVE  \/ stack'[i] = StackOf(inst'[i])
               \/ /\ lcmocc'[o].inst = i
                  /\ lcmocc'[o].state \in OpenStates \ {"STARTING"}
                  /\ stack'[i] = Target(o)'
    <3>1. Stored(o)
      BY <2>2, Edges DEF Stored
    <3>2. lcmocc'[o].inst = i /\ lcmocc'[o].op = lcmocc[o].op
      BY <2>2, <3>1, OccStep DEF OccKept
    <3>3. lcmocc'[o].state \in (OpenStates \ {"STARTING"}) \cup {"COMPLETED", "ROLLED_BACK", "FAILED"}
      <4>1. CASE lcmocc'[o] = lcmocc[o]
        BY <2>2, <4>1
      <4>2. CASE lcmocc'[o] # lcmocc[o]
        <5>1. PICK t : <<lcmocc[o].state, t>> \in Abstract!Edge /\ update_lcmocc_status(o, t)
          BY <3>1, <4>2, Transition DEF Controlled
        <5>2. lcmocc'[o].state = t
          BY <5>1 DEF update_lcmocc_status, TypeOK, OccRow
        <5>3. t \in {"PROCESSING", "FAILED_TEMP", "ROLLING_BACK", "COMPLETED", "ROLLED_BACK", "FAILED"}
          BY <5>1 DEF Abstract!Edge
        <5> QED
          BY <5>2, <5>3, Edges
      <4> QED
        BY <4>1, <4>2
    <3>4. lcmocc'[o].state # "FAILED"
      BY <3>2 DEF Clean
    <3>5. CASE lcmocc'[o].state \in {"COMPLETED", "ROLLED_BACK"}
      <4>1. PICK w \in Workers : Commit(w) /\ wk[w].occ = o
        BY <2>2, <3>1, <3>5, EndMoves
      <4> QED
        BY <1>3, <2>2, <4>1 DEF InstOf
    <3>6. CASE lcmocc'[o].state \in OpenStates \ {"STARTING"}
      BY <1>4, <2>2, <3>2, <3>6 DEF Target
    <3> QED
      BY <3>3, <3>4, <3>5, <3>6
  <2> QED
    BY <1>1, <2>1, <2>2 DEF StackInv
<1>5. CASE stack'[i] = stack[i] /\ inst'[i] # inst[i]
  <2>1. ASSUME Create(i) PROVE stack'[i] = StackOf(inst'[i])
    <3>1. \A o \in Occs : lcmocc[o].inst = i => lcmocc[o].state \notin OpenStates
      BY <2>1 DEF Create, OpenOccHasInst, OpenStates, Exists
    <3>2. stack[i] = StackOf(inst[i])
      BY <1>1, <3>1 DEF StackInv
    <3> QED
      BY <1>5, <2>1, <3>2 DEF Create, NewRow, StackOf, TypeOK
  <2>2. ASSUME NEW b \in Apis, DeleteCommit(b), api[b].inst = i PROVE stack'[i] = StackOf(inst'[i])
    <3>1. Settled(b) /\ inst[i].state = "NOT_INSTANTIATED" /\ api[b].pc = "deleting"
      BY <2>2 DEF DeleteCommit, AllowedInv
    <3>2. stack[i] = StackOf(inst[i])
      BY <1>1, <2>2, <3>1 DEF StackInv, Settled
    <3> QED
      BY <1>5, <2>2, <3>1, <3>2 DEF DeleteCommit, NoRow, StackOf, TypeOK
  <2> QED
    BY <1>3, <1>5, <2>1, <2>2, InstChange
<1> QED
  BY <1>2, <1>4, <1>5

\* Nobody touches row and stack between the call to the VIM and the commit.
LEMMA CommitStep ==
    ASSUME Controlled, VimInv, [Next]_vars
    PROVE  CommitInv'
<1> SUFFICES ASSUME NEW w \in Workers, wk'[w].pc = "commit1", Clean(InstOf(w))'
             PROVE  /\ wk'[w].method = "rollback_lcm_op" =>
                          stack'[InstOf(w)'] = StackOf(inst'[InstOf(w)'])
                    /\ wk'[w].method # "rollback_lcm_op" => stack'[InstOf(w)'] = Target(wk[w].occ)'
  BY DEF CommitInv, CommitOk
<1> USE DEF VimInv, VInv, SerialInv, FullInv, IInv, OInv, SInv
<1>1. CASE WorkerStep(w)
  <2>1. VimOk(w)
    BY <1>1 DEF WorkerStep, HandlerBegin, HandlerDrop, HandlerTimeout, GrantSave, GrantProcessing, GrantFail,
         Regrant, RegrantFail, VimFail, Commit, CommitRow, Abort, To, ToWith, Finish, FirstPc, IdleWorker,
         TypeOK, Worker
  <2>2. VimEffect(w) /\ UNCHANGED <<inst, lcmocc>> /\ wk[w].pc \in {"process", "rollback"}
    BY <2>1 DEF VimOk, VimEffect
  <2>3. wk'[w].occ = wk[w].occ /\ wk'[w].method = wk[w].method
    BY <2>1 DEF VimOk, To, TypeOK
  <2>4. InstOf(w)' = InstOf(w) /\ InstOf(w) \in Insts
    BY <2>2, <2>3, AtWork DEF InstOf
  <2>5. Clean(InstOf(w))
    BY <2>4, CleanKept
  <2>6. wk[w].pc = "process" <=> wk[w].method # "rollback_lcm_op"
    BY <2>2 DEF FlowInv, FlowOk
  <2>7. Target(wk[w].occ)' = Target(wk[w].occ)
    BY <2>2, <2>3 DEF Target
  <2> QED
    BY <2>2, <2>3, <2>4, <2>5, <2>6, <2>7, VimEffectOk
<1>2. CASE ~WorkerStep(w)
  <2>1. wk'[w] = wk[w]
    BY <1>2, WorkerCases DEF ConductorCrash, ReceiveCast, AutoStart, IdleWorker, TypeOK
  <2>2. wk[w].pc = "commit1" /\ wk[w].pc \in CritPcs
    BY <2>1 DEF CritPcs
  <2>3. InstOf(w) \in Insts /\ lock[InstOf(w)] = w /\ Exists(inst[InstOf(w)])
    BY <2>2, AtWork DEF RowInv, NoLostUpdate
  <2>4. lcmocc'[wk[w].occ] = lcmocc[wk[w].occ]
    BY <1>2, <2>2, OwnKept
  <2>5. InstOf(w)' = InstOf(w)
    BY <2>1, <2>4 DEF InstOf
  <2>6. Clean(InstOf(w)) /\ CommitOk(w)
    BY <2>3, <2>5, CleanKept DEF CommitInv
  <2>7. stack'[InstOf(w)] = stack[InstOf(w)]
    <3>1. ASSUME NEW v \in Workers, VimEffect(v), InstOf(v) = InstOf(w) PROVE FALSE
      <4>1. wk[v].pc \in {"process", "rollback"}
        BY <3>1 DEF VimEffect
      <4>2. lock[InstOf(v)] = v
        BY <4>1, AtWork
      <4> QED
        BY <2>2, <2>3, <3>1, <4>1, <4>2
    <3> QED
      BY <2>3, <3>1, StackChange
  <2>8. inst'[InstOf(w)] = inst[InstOf(w)]
    <3>1. ASSUME Create(InstOf(w)) PROVE FALSE
      BY <2>3, <3>1 DEF Create, Exists
    <3>2. ASSUME NEW b \in Apis, DeleteCommit(b), api[b].inst = InstOf(w) PROVE FALSE
      BY <2>3, <3>2, Names DEF DeleteCommit, LockInv, Holds
    <3>3. ASSUME NEW v \in Workers, Commit(v), InstOf(v) = InstOf(w) PROVE FALSE
      <4>1. lock[InstOf(v)] = v
        BY <3>3, AtWork DEF Commit
      <4> QED
        BY <1>2, <2>3, <3>3, <4>1 DEF WorkerStep
    <3> QED
      BY <2>3, <3>1, <3>2, <3>3, InstChange
  <2>9. Target(wk[w].occ)' = Target(wk[w].occ)
    BY <2>1, <2>4, <2>8 DEF Target, InstOf
  <2> QED
    BY <2>1, <2>2, <2>5, <2>6, <2>7, <2>8, <2>9 DEF CommitOk
<1> QED
  BY <1>1, <1>2

\* Nothing has been done at the start.
LEMMA VimInit == Init => VInv
<1> SUFFICES ASSUME Init PROVE VInv
  OBVIOUS
<1> USE DEF Init
<1>1. sync.pc = "idle" /\ OneOpen /\ AllowedInv
  BY Edges DEF IdleSync, OneOpen, AllowedInv, NoOccRow, IdleApi
<1>2. ScaleWithinLimits /\ CommitInv
  BY DEF ScaleWithinLimits, NoRow, CommitInv, CommitOk, IdleWorker
<1>3. StackInv
  BY DEF StackInv, StackOf, NoRow
<1> QED
  BY <1>1, <1>2, <1>3 DEF VInv

(* The inductive invariant of the VIM: with SerialInv, it holds at the start   *)
(* and is kept by every step, whatever call fails, before or after its effect, *)
(* and whenever the conductor dies.                                          *)
THEOREM VimInductive ==
    ASSUME Controlled
    PROVE  Spec => []VimInv
<1>0. Serial
  BY DEF Controlled
<1>1. Init => VInv
  BY VimInit
<1>2. VimInv /\ [Next]_vars => VInv'
  BY SyncIdleStep, OneOpenStep, AllowedStep, ScaleStep, StackStep, CommitStep DEF VInv
<1>3. VimInv <=> SerialInv /\ VInv
  BY DEF VimInv
<1>4. Spec => []SerialInv
  BY <1>0, SerialInductive
<1> QED
  BY <1>1, <1>2, <1>3, <1>4, PTL DEF Spec

(* _check_scale_level is made by the API server and the level is written by    *)
(* the conductor much later, after failures and retries: what was checked is   *)
(* still true then, and the level stays between 0 and maxScaleLevel.          *)
THEOREM LevelBounded ==
    ASSUME Controlled
    PROVE  Spec => []ScaleWithinLimits
<1>1. VimInv => ScaleWithinLimits
  BY DEF VimInv, VInv
<1> QED
  BY <1>1, VimInductive, PTL

(* When the operations of an instance have all ended in COMPLETED or           *)
(* ROLLED_BACK, the VIM holds what the instance row says: no sequence of        *)
(* failed calls, crashes, retries and rollbacks leaves resources the database  *)
(* does not know of.                                                         *)
THEOREM VimAgrees ==
    ASSUME Controlled
    PROVE  Spec => []VimMatchesDb
<1>1. VimInv => VimMatchesDb
  <2> SUFFICES ASSUME VimInv, NEW i \in Insts,
                      \A o \in Occs : lcmocc[o].inst = i => lcmocc[o].state \in {"COMPLETED", "ROLLED_BACK"}
               PROVE  stack[i] = StackOf(inst[i])
    BY DEF VimMatchesDb
  <2>1. Clean(i)
    BY DEF Clean
  <2>2. \A o \in Occs : lcmocc[o].inst = i => lcmocc[o].state \notin OpenStates
    BY Edges
  <2> QED
    BY <2>1, <2>2 DEF VimInv, VInv, StackInv
<1> QED
  BY <1>1, VimInductive, PTL

============================================================================
